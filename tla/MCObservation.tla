--------------------------- MODULE MCObservation ---------------------------
(***************************************************************************)
(* The instances of Observation.  The first revision announces merges to   *)
(* one destination, the second creations instead, and the third both, so   *)
(* that one subscription is dropped and comes back.                        *)
(***************************************************************************)
EXTENDS Observation, TLC

CONSTANTS chat

MCPolicies ==
  << {<<chat, "merged">>}, {<<chat, "created">>},
     {<<chat, "merged">>, <<chat, "created">>} >>
OnePolicy == << {<<chat, "merged">>, <<chat, "created">>} >>

(* Halves of a partition that both hold a request take an instant more.     *)
TwoTicks == [h \in Hosts |-> 2]
ThirdOnAzure == [h \in Hosts |-> IF h = "azuredevops" THEN 3 ELSE 2]

MCSymmetry == Permutations(Runs)
=============================================================================
