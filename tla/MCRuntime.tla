----------------------------- MODULE MCRuntime -----------------------------
(***************************************************************************)
(* Values for the constants of NotificationRuntime.                        *)
(***************************************************************************)
EXTENDS NotificationRuntime, TLC

CONSTANTS r1, r2, r3, r4, c1, c2, c3, d1, d2, e1, e2, created, merged, g1, f1, f2

(* Two runs of one commit. *)
SameRevision == [r \in Runs |-> [oid |-> c1, digest |-> g1]]
Open == [enabled |-> TRUE, fingerprint |-> f1, kinds |-> Kinds]
OpenPolicy == [c \in Configs |-> [d \in Destinations |-> Open]]
AllMerged == [e \in Events |-> merged]
AtStart == [e \in Events |-> 1]

(* c2 and c3 are both built on c1. *)
Fork == {<<c1, c2>>, <<c1, c3>>} \cap (Configs \X Configs)

OneOfEach == [e \in Events |-> IF e = e2 THEN created ELSE merged]

(* c2 drops the kind of e2, c3 moves the endpoint and drops that of e1. *)
NarrowThenMove ==
  [c \in Configs |-> [d \in Destinations |->
     CASE c = c1 -> Open
       [] c = c2 -> [Open EXCEPT !.kinds = {merged}]
       [] c = c3 -> [Open EXCEPT !.fingerprint = f2, !.kinds = {created}]]]
(* Two runs of the first commit, one of each later one. *)
FirstTwice ==
  [r \in Runs |-> [digest |-> g1,
     oid |-> IF r = r2 THEN c2 ELSE IF r = r3 THEN c3 ELSE c1]]

OneAhead == [r \in Runs |-> IF r = r2 THEN 1 ELSE 0]
NoSkew == [r \in Runs |-> 0]
Everything == Configs \X Events
NoAncestry == {}
Order == [e \in Events |-> IF e = e1 THEN 1 ELSE 2]
Names == [d \in Destinations |-> IF d = d1 THEN 1 ELSE 2]
(* The commit c3 has no message for e2. *)
AllButLast == Everything \ {<<c3, e2>>}
=============================================================================
