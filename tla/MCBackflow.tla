---------------------------- MODULE MCBackflow ----------------------------
(***************************************************************************)
(* Model values and settings for the runs of Backflow.                     *)
(***************************************************************************)
EXTENDS Backflow

CONSTANTS r1, r2

(* Two runs that overlap on cherry-picks.                                  *)
Overlapping ==
  [strategy |-> "cherry-pick", withheld |-> {}, runs |-> {r1, r2},
   base |-> 1, rewrites |-> 0, faults |-> 0]

(* The merge strategy, with a withheld hotfix, a rewritten source and a    *)
(* failure or a dismissal.                                                 *)
MergesOverlapping ==
  [Overlapping EXCEPT !.strategy = "merge", !.withheld = {2}, !.rewrites = 1, !.faults = 1]

(* One run after another, a rewritten source, a target that moves twice    *)
(* and a failure or a dismissal.                                           *)
Rewritten ==
  [Overlapping EXCEPT !.runs = {r1}, !.base = 2, !.rewrites = 1, !.faults = 1]

AllSettings == {Overlapping, MergesOverlapping, Rewritten}
=============================================================================
