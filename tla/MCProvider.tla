----------------------------- MODULE MCProvider -----------------------------
(***************************************************************************)
(* The instances of Provider: two runs, of one binary or of binaries one   *)
(* marker schema apart.                                                    *)
(***************************************************************************)
EXTENDS Provider, TLC

CONSTANTS r1, r2

(* The second binary is one schema ahead, or for artifacts also the same.  *)
MCBuilds ==
  [s \in Subjects |->
     {(r1 :> 1) @@ (r2 :> v) : v \in IF s = "artifact" THEN {1, 2} ELSE {2}}]

(* People act twice on requests and on branches, once on artifacts.        *)
MCEvents == [s \in Subjects |-> IF s = "artifact" THEN 1 ELSE 2]
=============================================================================
