-------------------------- MODULE GraphConfigProofs --------------------------
(***************************************************************************)
(* Proofs about GraphConfig, for every document: findCycle is right, what  *)
(* Validate accepts is what the planner relies on, and the three places    *)
(* that resolve defaults agree.                                            *)
(***************************************************************************)
EXTENDS GraphConfig, FiniteSetTheorems, SequenceTheorems, TLAPS

Frame == [node: Names, at: Nat]

From(i) == seen.promotions[i].from
DoneSet == {n \in Names : colour[n] = "done"}

Typed ==
  /\ doc \in Document /\ seen \in Document
  /\ seen.promotions = doc.promotions
  /\ pc \in {"start", "search", "report", "end"}
  /\ colour \in [Names -> {"unvisited", "visiting", "done"}]
  /\ stack \in Seq(Frame)
  /\ cycle \in Seq(Names)
  /\ finished \in [Names -> Nat]

(* The stack is a path of branches being visited, each once.               *)
Path ==
  /\ \A k \in 1..Len(stack) : colour[stack[k].node] = "visiting"
  /\ \A n \in Names : colour[n] = "visiting" => \E k \in 1..Len(stack) : stack[k].node = n
  /\ \A j, k \in 1..Len(stack) : stack[j].node = stack[k].node => j = k
  /\ \A k \in 1..Len(stack) : k < Len(stack) =>
       /\ stack[k].at \in Edges(seen)
       /\ From(stack[k].at) = stack[k].node
       /\ To(stack[k].at) = stack[k + 1].node

(* What a branch on the stack has looked at is done, but for what it is at; *)
(* what is done leads only to what was done before.                        *)
Behind ==
  /\ \A k \in 1..Len(stack) : \A i \in Edges(seen) :
       From(i) = stack[k].node /\ i <= stack[k].at =>
         colour[To(i)] = "done" \/ (k < Len(stack) /\ i = stack[k].at)
  /\ \A i \in Edges(seen) : colour[From(i)] = "done" =>
       colour[To(i)] = "done" /\ finished[To(i)] < finished[From(i)]
  /\ \A n \in Names : colour[n] = "done" => finished[n] <= Cardinality(DoneSet)

Search == Path /\ Behind

Verdict ==
  /\ pc \in {"start", "search"} => cycle = << >>
  /\ pc \in {"start", "search"} => Search
  /\ CycleVerdict

Invariant == Typed /\ Verdict

-----------------------------------------------------------------------------
(* Operators. *)

(* The promotions followed join declared names.                             *)
LEMMA EdgesTyped ==
  ASSUME NEW d \in Document, NEW i \in Edges(d)
  PROVE  /\ i \in Nat
         /\ d.promotions[i].from \in Names /\ d.promotions[i].to \in Names
<1>1. d.promotions \in Seq(Promotion)
  BY DEF Document
<1>2. i \in DOMAIN d.promotions /\ i \in Nat
  BY <1>1 DEF Edges
<1>3. d.promotions[i] \in Promotion
  BY <1>1, <1>2
<1>4. d.promotions[i].from # 0 /\ d.promotions[i].to # 0
  BY DEF Edges, Complete
<1> QED BY <1>2, <1>3, <1>4, ConfigAssumption DEF Promotion, Text, Names

(* Default leaves the promotions alone.                                     *)
LEMMA DefaultKeepsPromotions ==
  ASSUME NEW d \in Document
  PROVE  Default(d).promotions = d.promotions
BY DEF Default, Document

(* Default turns a branch into a branch.                                    *)
LEMMA DefaultBranchTyped ==
  ASSUME NEW b \in Branch \cup {None}
  PROVE  DefaultBranch(b) \in Branch \cup {None}
BY DEF DefaultBranch, Branch

(* Default turns a backflow policy into a backflow policy.                  *)
LEMMA DefaultBackflowTyped ==
  ASSUME NEW bf \in Backflow
  PROVE  DefaultMethod(DefaultStrategy(bf)) \in Backflow
<1>1. DefaultStrategy(bf) \in Backflow
  BY DEF DefaultStrategy, Backflow
<1> QED BY <1>1 DEF DefaultMethod, Backflow, Methods

(* Default turns a destination into a destination.                          *)
LEMMA DefaultDestinationTyped ==
  ASSUME NEW n \in Destination
  PROVE  DefaultDestination(n) \in Destination
<1>1. <<"request-merged">> \in Seq({"request-created", "request-merged", "other"})
  OBVIOUS
<1>2. <<"promotion", "backflow">> \in Seq({"promotion", "backflow", "other"})
  OBVIOUS
<1> DEFINE enabled == IF n.enabled = None THEN TRUE ELSE n.enabled
           events == IF n.events = None THEN <<"request-merged">> ELSE n.events
           kinds == IF n.kinds = None THEN <<"promotion", "backflow">> ELSE n.kinds
<1>3. /\ enabled \in BOOLEAN \cup {None}
      /\ events \in Seq({"request-created", "request-merged", "other"}) \cup {None}
      /\ kinds \in Seq({"promotion", "backflow", "other"}) \cup {None}
  BY <1>1, <1>2 DEF Destination
<1>4. DefaultDestination(n) = [n EXCEPT !.enabled = enabled, !.events = events, !.kinds = kinds]
  BY DEF DefaultDestination, Destination
<1> HIDE DEF enabled, events, kinds
<1> QED BY <1>3, <1>4 DEF Destination

(* Default turns a document into a document.                                *)
LEMMA DefaultTyped ==
  ASSUME NEW d \in Document
  PROVE  Default(d) \in Document
<1> DEFINE branches == [b \in Names |-> DefaultBranch(d.branches[b])]
           backflow == IF d.backflow = None THEN None
                       ELSE DefaultMethod(DefaultStrategy(d.backflow))
           destinations == [i \in DOMAIN d.destinations |-> DefaultDestination(d.destinations[i])]
           version == IF d.apiVersion = "" THEN "v1" ELSE d.apiVersion
           kind == IF d.kind = "" THEN "PromotionGraph" ELSE d.kind
<1>1. branches \in [Names -> Branch \cup {None}]
  BY DefaultBranchTyped DEF Document
<1>2. backflow \in Backflow \cup {None}
  BY DefaultBackflowTyped DEF Document
<1>3. destinations \in Seq(Destination)
  <2>1. d.destinations \in Seq(Destination)
    BY DEF Document
  <2>2. Len(d.destinations) \in Nat /\ DOMAIN d.destinations = 1..Len(d.destinations)
    BY <2>1
  <2>3. \A i \in 1..Len(d.destinations) : destinations[i] \in Destination
    BY <2>1, <2>2, DefaultDestinationTyped
  <2>4. destinations \in [1..Len(d.destinations) -> Destination]
    BY <2>2, <2>3
  <2> QED BY <2>2, <2>4, SeqDef
<1>4. version \in Versions \cup {"", "other"} /\ kind \in {"", "PromotionGraph", "other"}
  BY DEF Document, Versions
<1>5. Default(d) = [d EXCEPT !.apiVersion = version, !.kind = kind, !.branches = branches,
                             !.backflow = backflow, !.destinations = destinations]
  BY DEF Default, Document
<1> HIDE DEF branches, backflow, destinations, version, kind
<1> QED BY <1>1, <1>2, <1>3, <1>4, <1>5 DEF Document

-----------------------------------------------------------------------------
(* The search. *)

(* What Typed says of the promotions the search follows.                    *)
LEMMA SeenEdges ==
  ASSUME Typed, NEW i \in Edges(seen)
  PROVE  i \in Nat /\ i # 0 /\ From(i) \in Names /\ To(i) \in Names
<1>1. seen \in Document
  BY DEF Typed
<1>2. seen.promotions \in Seq(Promotion)
  BY <1>1 DEF Document
<1>3. i # 0
  BY <1>2 DEF Edges
<1> QED BY <1>1, <1>3, EdgesTyped DEF From, To

(* Both documents have the same promotions to follow.                       *)
LEMMA SameEdges ==
  ASSUME Typed
  PROVE  Edges(doc) = Edges(seen)
BY DEF Typed, Edges

(* Moving the top of the stack to promotion i.                              *)
LEMMA Moved ==
  ASSUME stack \in Seq(Frame), stack # << >>, NEW i \in Nat
  PROVE  /\ At(i) \in Seq(Frame) /\ Len(At(i)) = Len(stack)
         /\ \A k \in 1..Len(stack) :
              /\ At(i)[k].node = stack[k].node
              /\ At(i)[k].at = IF k = Len(stack) THEN i ELSE stack[k].at
<1> DEFINE L == Len(stack)
           top == [stack[L] EXCEPT !.at = i]
<1>1. L \in Nat /\ L # 0 /\ stack[L] \in Frame
  BY EmptySeq, ElementOfSeq
<1>2. top \in Frame /\ top.node = stack[L].node /\ top.at = i
  BY <1>1 DEF Frame
<1>3. At(i) = [stack EXCEPT ![L] = top]
  BY DEF At
<1> HIDE DEF top
<1>4. At(i) \in Seq(Frame) /\ Len(At(i)) = L
  BY <1>1, <1>2, <1>3
<1>5. \A k \in 1..L : At(i)[k] = IF k = L THEN top ELSE stack[k]
  BY <1>1, <1>3
<1> QED BY <1>2, <1>4, <1>5

(* Initially nothing is visited.                                            *)
LEMMA InvariantInit == Init => Invariant
<1> SUFFICES ASSUME Init PROVE Invariant
  OBVIOUS
<1>1. doc \in Document
  BY ConfigAssumption DEF Init
<1>2. Typed
  BY <1>1 DEF Init, Typed
<1>3. \A i \in Edges(seen) : From(i) \in Names
  BY <1>2, SeenEdges
<1>4. Path
  BY DEF Init, Path
<1>5. Behind
  BY <1>3 DEF Init, Behind
<1> QED BY <1>2, <1>4, <1>5 DEF Invariant, Verdict, Search, CycleVerdict, Init

(* Applying the defaults changes nothing the search looks at.               *)
LEMMA StartStep ==
  ASSUME Invariant, Start
  PROVE  Invariant'
<1> USE DEF Start, search
<1>1. seen' \in Document /\ seen'.promotions = seen.promotions
  BY DefaultTyped, DefaultKeepsPromotions DEF Invariant, Typed
<1>2. Typed'
  BY <1>1 DEF Invariant, Typed
<1>3. Edges(seen') = Edges(seen)
  BY <1>1 DEF Edges
<1>4. \A i : From(i)' = From(i) /\ To(i)' = To(i)
  BY <1>1 DEF From, To
<1>5. Search /\ cycle = << >>
  BY DEF Invariant, Verdict
<1>6. Path'
  BY <1>3, <1>4, <1>5 DEF Path, Search
<1>7. Behind'
  BY <1>3, <1>4, <1>5 DEF Behind, Search, DoneSet
<1> QED BY <1>2, <1>5, <1>6, <1>7 DEF Invariant, Verdict, Search, CycleVerdict

(* A search from a new root.                                                *)
LEMMA VisitRootStep ==
  ASSUME Invariant, VisitRoot
  PROVE  Invariant'
<1>1. PICK n \in Roots : stack' = <<Enter(n)>> /\ colour' = [colour EXCEPT ![n] = "visiting"]
  BY DEF VisitRoot
<1>2. /\ n \in Names /\ colour[n] = "unvisited"
      /\ pc = "search" /\ stack = << >>
      /\ UNCHANGED <<doc, seen, pc, cycle, finished>>
  BY DEF VisitRoot, Roots
<1>3. Typed /\ Path /\ Behind /\ cycle = << >>
  BY <1>2 DEF Invariant, Verdict, Search
<1>4. Enter(n) \in Frame /\ Enter(n).node = n /\ Enter(n).at = 0
  BY <1>2 DEF Enter, Frame
<1>5. stack' \in Seq(Frame) /\ Len(stack') = 1 /\ stack'[1] = Enter(n)
  BY <1>1, <1>4
<1>6. colour' \in [Names -> {"unvisited", "visiting", "done"}] /\ DoneSet' = DoneSet
  BY <1>1, <1>2, <1>3 DEF Typed, DoneSet
<1>7. Typed'
  BY <1>2, <1>3, <1>5, <1>6 DEF Typed
<1>8. \A i \in Edges(seen) : i \in Nat /\ i # 0 /\ From(i) \in Names /\ To(i) \in Names
  BY <1>3, SeenEdges
<1>9. \A i : From(i)' = From(i) /\ To(i)' = To(i)
  BY <1>2 DEF From, To
<1>10. \A m \in Names : colour[m] # "visiting"
  BY <1>2, <1>3 DEF Path
<1>11. \A m \in Names : colour'[m] = IF m = n THEN "visiting" ELSE colour[m]
  BY <1>1, <1>3 DEF Typed
<1>12. Path'
  BY <1>2, <1>4, <1>5, <1>10, <1>11 DEF Path
<1>13. Behind'
  <2>1. \A i \in Edges(seen) : ~(i <= 0)
    BY <1>8
  <2>2. \A k \in 1..Len(stack') : stack'[k].at = 0
    BY <1>4, <1>5
  <2>3. \A i \in Edges(seen) : colour'[From(i)] = "done" =>
          colour'[To(i)] = "done" /\ finished[To(i)] < finished[From(i)]
    BY <1>2, <1>3, <1>8, <1>11 DEF Behind
  <2>4. \A m \in Names : colour'[m] = "done" => finished[m] <= Cardinality(DoneSet)
    BY <1>3, <1>11 DEF Behind
  <2> QED BY <1>2, <1>6, <1>9, <2>1, <2>2, <2>3, <2>4 DEF Behind
<1> QED BY <1>2, <1>3, <1>7, <1>12, <1>13 DEF Invariant, Verdict, Search, CycleVerdict

(* The frames of the stack, and its top.                                    *)
LEMMA Frames ==
  ASSUME Typed
  PROVE  /\ stack \in Seq(Frame) /\ Len(stack) \in Nat
         /\ stack # << >> => Len(stack) # 0 /\ Len(stack) \in 1..Len(stack)
         /\ Top = stack[Len(stack)]
         /\ \A k \in 1..Len(stack) : stack[k].node \in Names /\ stack[k].at \in Nat
<1>1. stack \in Seq(Frame) /\ Len(stack) \in Nat
  BY DEF Typed
<1>2. ASSUME stack # << >> PROVE Len(stack) # 0
  BY <1>1, <1>2, EmptySeq
<1>3. \A k \in 1..Len(stack) : stack[k] \in Frame
  BY <1>1
<1>4. \A f \in Frame : f.node \in Names /\ f.at \in Nat
  BY DEF Frame
<1> QED BY <1>1, <1>2, <1>3, <1>4 DEF Top

(* A promotion that was not looked at yet: what is looked at up to it.      *)
LEMMA LookedAt ==
  ASSUME Typed, Behind, stack # << >>, NEW i \in Onwards, \A j \in Onwards : i <= j
  PROVE  \A e \in Edges(seen) : From(e) = Top.node /\ e < i => colour[To(e)] = "done"
<1>1. Len(stack) \in 1..Len(stack) /\ Top = stack[Len(stack)] /\ Top.at \in Nat
  BY Frames
<1>2. SUFFICES ASSUME NEW e \in Edges(seen), From(e) = Top.node, e < i
               PROVE  colour[To(e)] = "done"
  OBVIOUS
<1>3. i \in Nat /\ e \in Nat
  BY SeenEdges DEF Onwards
<1>4. e \notin Onwards
  BY <1>2, <1>3
<1>5. e <= Top.at
  BY <1>1, <1>2, <1>3, <1>4 DEF Onwards, From
<1>6. Len(stack) \in Nat /\ ~(Len(stack) < Len(stack))
  BY Frames
<1> QED BY <1>1, <1>2, <1>5, <1>6 DEF Behind

(* The next promotion leads to a branch not visited yet.                    *)
LEMMA PushStep ==
  ASSUME Invariant, pc = "search", stack # << >>,
         NEW i \in Onwards, \A j \in Onwards : i <= j,
         colour[To(i)] = "unvisited",
         stack' = Append(At(i), Enter(To(i))),
         colour' = [colour EXCEPT ![To(i)] = "visiting"],
         UNCHANGED <<doc, seen, pc, cycle, finished>>
  PROVE  Invariant'
<1> DEFINE L == Len(stack)
           n == To(i)
<1>1. Typed /\ Path /\ Behind /\ cycle = << >>
  BY DEF Invariant, Verdict, Search
<1>2. L \in Nat /\ L # 0 /\ Top = stack[L] /\ stack \in Seq(Frame)
  BY <1>1, Frames
<1>3. \A e \in Edges(seen) : e \in Nat /\ e # 0 /\ From(e) \in Names /\ To(e) \in Names
  BY <1>1, SeenEdges
<1>4. i \in Edges(seen) /\ From(i) = stack[L].node /\ n \in Names /\ i \in Nat
  BY <1>2, <1>3 DEF Onwards, From
<1>5. Enter(n) \in Frame /\ Enter(n).node = n /\ Enter(n).at = 0
  BY <1>4 DEF Enter, Frame
<1>6. /\ At(i) \in Seq(Frame) /\ Len(At(i)) = L
      /\ \A k \in 1..L : /\ At(i)[k].node = stack[k].node
                         /\ At(i)[k].at = IF k = L THEN i ELSE stack[k].at
  BY <1>2, <1>4, Moved
<1>7. /\ stack' \in Seq(Frame) /\ Len(stack') = L + 1
      /\ \A k \in 1..L : /\ stack'[k].node = stack[k].node
                         /\ stack'[k].at = IF k = L THEN i ELSE stack[k].at
      /\ stack'[L + 1].node = n /\ stack'[L + 1].at = 0
  <2> HIDE DEF n
  <2>1. stack' = Append(At(i), Enter(n))
    BY DEF n
  <2>2. stack' \in Seq(Frame) /\ Len(stack') = L + 1
    BY <1>2, <1>5, <1>6, <2>1
  <2>3. (\A k \in 1..L : stack'[k] = At(i)[k]) /\ stack'[L + 1] = Enter(n)
    BY <1>2, <1>5, <1>6, <2>1
  <2> QED BY <1>5, <1>6, <2>2, <2>3
<1>8. \A m \in Names : colour'[m] = IF m = n THEN "visiting" ELSE colour[m]
  BY <1>1 DEF Typed
<1>9. colour' \in [Names -> {"unvisited", "visiting", "done"}] /\ DoneSet' = DoneSet
  BY <1>1, <1>4 DEF Typed, DoneSet
<1>10. \A e : From(e)' = From(e) /\ To(e)' = To(e)
  BY DEF From, To
<1>11. \A k \in 1..L : stack[k].node \in Names /\ stack[k].node # n
  BY <1>1, Frames DEF Path
<1> HIDE DEF L, n
<1>12. Typed'
  BY <1>1, <1>7, <1>9 DEF Typed
<1>13. Path'
  <2>1. \A k \in 1..(L + 1) : colour'[stack'[k].node] = "visiting"
    BY <1>1, <1>2, <1>4, <1>7, <1>8, <1>11 DEF Path, L
  <2>2. \A m \in Names : colour'[m] = "visiting" => \E k \in 1..(L + 1) : stack'[k].node = m
    <3> SUFFICES ASSUME NEW m \in Names, colour'[m] = "visiting"
                 PROVE  \E k \in 1..(L + 1) : stack'[k].node = m
      OBVIOUS
    <3>1. CASE m = n
      BY <1>2, <1>7, <3>1
    <3>2. CASE m # n
      <4>1. PICK k \in 1..L : stack[k].node = m
        BY <1>1, <1>8, <3>2 DEF Path, L
      <4>2. k \in 1..(L + 1)
        BY <1>2
      <4>3. stack'[k].node = m
        BY <1>7, <4>1
      <4> QED BY <4>2, <4>3
    <3> QED BY <3>1, <3>2
  <2>3. \A j, k \in 1..(L + 1) : stack'[j].node = stack'[k].node => j = k
    BY <1>1, <1>2, <1>7, <1>11 DEF Path, L
  <2>4. \A k \in 1..(L + 1) : k < L + 1 =>
          /\ stack'[k].at \in Edges(seen)
          /\ From(stack'[k].at) = stack'[k].node
          /\ To(stack'[k].at) = stack'[k + 1].node
    <3> SUFFICES ASSUME NEW k \in 1..L
                 PROVE  /\ stack'[k].at \in Edges(seen)
                        /\ From(stack'[k].at) = stack'[k].node
                        /\ To(stack'[k].at) = stack'[k + 1].node
      <4>1. \A k \in 1..(L + 1) : k < L + 1 => k \in 1..L
        BY <1>2
      <4> QED BY <4>1
    <3>1. CASE k = L
      BY <1>2, <1>4, <1>7, <3>1 DEF n
    <3>2. CASE k # L
      <4>1. k + 1 \in 1..L /\ k < L
        BY <1>2, <3>2
      <4> QED BY <1>1, <1>7, <3>2, <4>1 DEF Path, L
    <3> QED BY <3>1, <3>2
  <2> QED BY <1>7, <1>10, <2>1, <2>2, <2>3, <2>4 DEF Path
<1>14. Behind'
  <2>1. ASSUME NEW k \in 1..(L + 1), NEW e \in Edges(seen),
               From(e) = stack'[k].node, e <= stack'[k].at
        PROVE  colour'[To(e)] = "done" \/ (k < L + 1 /\ e = stack'[k].at)
    <3>1. CASE k = L + 1
      BY <1>3, <1>7, <2>1, <3>1
    <3>2. CASE k = L
      <4>1. e = i \/ e < i
        <5>1. k \in 1..L
          BY <1>2, <3>2
        <5>2. stack'[k].at = i
          BY <1>7, <3>2, <5>1
        <5>3. e <= i
          BY <2>1, <5>2
        <5>4. i \in Nat /\ e \in Nat
          BY <1>3, <1>4
        <5> QED BY <5>3, <5>4
      <4>2. From(e) = Top.node
        BY <1>2, <1>7, <2>1, <3>2
      <4>3. e < i => colour[To(e)] = "done"
        BY <1>1, <4>2, LookedAt
      <4>4. colour[n] = "unvisited"
        BY DEF n
      <4> QED BY <1>2, <1>3, <1>7, <1>8, <3>2, <4>1, <4>3, <4>4
    <3>3. CASE k < L
      <4>1. k \in 1..L /\ k # L
        BY <1>2, <3>3
      <4>2. colour[To(e)] = "done" \/ e = stack[k].at
        BY <1>1, <1>7, <2>1, <4>1 DEF Behind, L
      <4>3. colour[n] = "unvisited"
        BY DEF n
      <4> QED BY <1>2, <1>3, <1>7, <1>8, <4>1, <4>2, <4>3
    <3>4. k = L + 1 \/ k = L \/ k < L
      BY <1>2
    <3> QED BY <3>1, <3>2, <3>3, <3>4
  <2>2. \A e \in Edges(seen) : colour'[From(e)] = "done" =>
          colour'[To(e)] = "done" /\ finished[To(e)] < finished[From(e)]
    <3>1. colour[n] = "unvisited"
      BY DEF n
    <3> QED BY <1>1, <1>3, <1>8, <3>1 DEF Behind
  <2>3. \A m \in Names : colour'[m] = "done" => finished[m] <= Cardinality(DoneSet)
    BY <1>1, <1>8 DEF Behind
  <2> QED BY <1>7, <1>9, <1>10, <2>1, <2>2, <2>3 DEF Behind
<1> QED BY <1>1, <1>12, <1>13, <1>14 DEF Invariant, Verdict, Search, CycleVerdict

(* The next promotion leads to a branch that is done.                       *)
LEMMA PassStep ==
  ASSUME Invariant, pc = "search", stack # << >>,
         NEW i \in Onwards, \A j \in Onwards : i <= j,
         colour[To(i)] = "done",
         stack' = At(i),
         UNCHANGED <<doc, seen, pc, colour, cycle, finished>>
  PROVE  Invariant'
<1> DEFINE L == Len(stack)
<1>1. Typed /\ Path /\ Behind /\ cycle = << >>
  BY DEF Invariant, Verdict, Search
<1>2. L \in Nat /\ L # 0 /\ Top = stack[L] /\ stack \in Seq(Frame)
  BY <1>1, Frames
<1>3. \A e \in Edges(seen) : e \in Nat /\ e # 0 /\ From(e) \in Names /\ To(e) \in Names
  BY <1>1, SeenEdges
<1>4. i \in Nat
  BY <1>3 DEF Onwards
<1>5. /\ stack' \in Seq(Frame) /\ Len(stack') = L
      /\ \A k \in 1..L : /\ stack'[k].node = stack[k].node
                         /\ stack'[k].at = IF k = L THEN i ELSE stack[k].at
  BY <1>2, <1>4, Moved
<1>6. \A e : From(e)' = From(e) /\ To(e)' = To(e)
  BY DEF From, To
<1>7. Typed'
  BY <1>1, <1>5 DEF Typed
<1>8. Path'
  <2>1. \A k \in 1..L : k < L => k # L /\ k + 1 \in 1..L
    BY <1>2
  <2> HIDE DEF L
  <2>2. \A k \in 1..L : k < L =>
          /\ stack'[k].at \in Edges(seen)
          /\ From(stack'[k].at) = stack'[k].node
          /\ To(stack'[k].at) = stack'[k + 1].node
    BY <1>1, <1>5, <2>1 DEF Path, L
  <2>3. /\ \A k \in 1..L : colour[stack'[k].node] = "visiting"
        /\ \A n \in Names : colour[n] = "visiting" => \E k \in 1..L : stack'[k].node = n
        /\ \A j, k \in 1..L : stack'[j].node = stack'[k].node => j = k
    BY <1>1, <1>5 DEF Path, L
  <2> QED BY <1>5, <1>6, <2>2, <2>3 DEF Path
<1>9. Behind'
  <2>1. ASSUME NEW k \in 1..L, NEW e \in Edges(seen),
               From(e) = stack'[k].node, e <= stack'[k].at
        PROVE  colour[To(e)] = "done" \/ (k < L /\ e = stack'[k].at)
    <3>1. CASE k = L
      <4>1. e = i \/ e < i
        BY <1>2, <1>3, <1>4, <1>5, <2>1, <3>1
      <4>2. From(e) = Top.node
        BY <1>2, <1>5, <2>1, <3>1
      <4> QED BY <1>1, <4>1, <4>2, LookedAt
    <3>2. CASE k # L
      BY <1>1, <1>5, <2>1, <3>2 DEF Behind
    <3> QED BY <3>1, <3>2
  <2>2. DoneSet' = DoneSet
    BY DEF DoneSet
  <2> QED BY <1>1, <1>5, <1>6, <2>1, <2>2 DEF Behind
<1> QED BY <1>1, <1>7, <1>8, <1>9 DEF Invariant, Verdict, Search, CycleVerdict

(* The next promotion leads to a branch on the stack: a cycle.              *)
LEMMA CloseStep ==
  ASSUME Invariant, pc = "search", stack # << >>,
         NEW i \in Onwards,
         NEW k \in DOMAIN stack, stack[k].node = To(i), cycle' = ClosedAt(k, To(i)),
         pc' = "report",
         UNCHANGED <<doc, seen, colour, stack, finished>>
  PROVE  Invariant'
<1> DEFINE L == Len(stack)
           C == L - k + 2
<1>1. Typed /\ Path
  BY DEF Invariant, Verdict, Search
<1>2. L \in Nat /\ L # 0 /\ Top = stack[L] /\ stack \in Seq(Frame) /\ k \in 1..L
  BY <1>1, Frames
<1>3. i \in Edges(seen) /\ From(i) = stack[L].node /\ To(i) \in Names
  BY <1>1, <1>2, SeenEdges DEF Onwards, From
<1>4. \A j \in 1..L : stack[j].node \in Names
  BY <1>1, Frames
<1>5. C \in Nat /\ C > 1
  BY <1>2
<1>6. /\ cycle' = [j \in 1..C |-> IF j = C THEN To(i) ELSE stack[k + j - 1].node]
      /\ \A j \in 1..C : j # C => k + j - 1 \in 1..L
  BY <1>2 DEF ClosedAt
<1>7. cycle' \in Seq(Names) /\ Len(cycle') = C
  <2>1. \A j \in 1..C : cycle'[j] \in Names
    BY <1>3, <1>4, <1>6
  <2>2. cycle' \in [1..C -> Names]
    BY <1>6, <2>1
  <2> QED BY <1>5, <2>2, SeqDef
<1>8. Typed'
  BY <1>1, <1>7 DEF Typed
<1>9. Edges(doc) = Edges(seen) /\ seen.promotions = doc.promotions
  BY <1>1, SameEdges DEF Typed
<1>10. cycle' # << >>
  BY <1>5, <1>7
<1>11. cycle'[1] = cycle'[C]
  BY <1>2, <1>5, <1>6
<1>12. ASSUME NEW j \in 1..(C - 1)
       PROVE  Joined(doc, cycle'[j], cycle'[j + 1])
  <2>1. j \in 1..C /\ j # C /\ j + 1 \in 1..C
    BY <1>5
  <2>2. cycle'[j] = stack[k + j - 1].node /\ k + j - 1 \in 1..L
    BY <1>6, <2>1
  <2>3. CASE j + 1 = C
    <3>1. cycle'[j + 1] = To(i) /\ k + j - 1 = L
      BY <1>2, <1>6, <2>1, <2>3
    <3> QED BY <1>3, <1>9, <2>2, <3>1 DEF Joined, From, To
  <2>4. CASE j + 1 # C
    <3>1. cycle'[j + 1] = stack[k + j].node /\ k + j - 1 < L
      BY <1>2, <1>6, <2>1, <2>4
    <3>2. /\ stack[k + j - 1].at \in Edges(seen)
          /\ From(stack[k + j - 1].at) = stack[k + j - 1].node
          /\ To(stack[k + j - 1].at) = stack[k + j].node
      <4> DEFINE p == k + j - 1
      <4>1. p \in 1..L /\ p < L /\ p + 1 = k + j
        BY <1>2, <2>2, <3>1
      <4> HIDE DEF p
      <4>2. /\ stack[p].at \in Edges(seen)
            /\ From(stack[p].at) = stack[p].node
            /\ To(stack[p].at) = stack[p + 1].node
        BY <1>1, <4>1 DEF Path
      <4> QED BY <4>1, <4>2 DEF p
    <3> QED BY <1>9, <2>2, <3>1, <3>2 DEF Joined, From, To
  <2> QED BY <2>3, <2>4
<1>13. ASSUME NEW j \in 1..(C - 1), NEW m \in 1..(C - 1), cycle'[j] = cycle'[m]
       PROVE  j = m
  <2>1. /\ cycle'[j] = stack[k + j - 1].node /\ k + j - 1 \in 1..L
        /\ cycle'[m] = stack[k + m - 1].node /\ k + m - 1 \in 1..L
    BY <1>5, <1>6
  <2>2. k + j - 1 = k + m - 1
    <3> DEFINE p == k + j - 1
               q == k + m - 1
    <3>1. p \in 1..L /\ q \in 1..L /\ stack[p].node = stack[q].node
      BY <1>13, <2>1
    <3> HIDE DEF p, q
    <3>2. p = q
      BY <1>1, <3>1 DEF Path
    <3> QED BY <3>2 DEF p, q
  <2> QED BY <1>2, <2>2
<1> HIDE DEF C
<1>14. CycleVerdict'
  BY <1>7, <1>10, <1>11, <1>12, <1>13 DEF CycleVerdict
<1> QED BY <1>8, <1>14 DEF Invariant, Verdict

(* Every neighbour that is met.                                             *)
LEMMA NeighbourStep ==
  ASSUME Invariant, Neighbour
  PROVE  Invariant'
<1>1. pc = "search" /\ stack # << >> /\ UNCHANGED <<doc, seen, finished>>
  BY DEF Neighbour
<1>2. PICK i \in Onwards :
        /\ \A j \in Onwards : i <= j
        /\ \/ /\ colour[To(i)] = "unvisited"
              /\ stack' = Append(At(i), Enter(To(i)))
              /\ colour' = [colour EXCEPT ![To(i)] = "visiting"]
              /\ UNCHANGED <<cycle, pc>>
           \/ /\ colour[To(i)] = "done"
              /\ stack' = At(i)
              /\ UNCHANGED <<colour, cycle, pc>>
           \/ /\ colour[To(i)] = "visiting"
              /\ \E k \in DOMAIN stack :
                   stack[k].node = To(i) /\ cycle' = ClosedAt(k, To(i))
              /\ pc' = "report"
              /\ UNCHANGED <<colour, stack>>
  BY DEF Neighbour
<1>3. CASE /\ colour[To(i)] = "unvisited"
           /\ stack' = Append(At(i), Enter(To(i)))
           /\ colour' = [colour EXCEPT ![To(i)] = "visiting"]
           /\ UNCHANGED <<cycle, pc>>
  BY <1>1, <1>2, <1>3, PushStep
<1>4. CASE /\ colour[To(i)] = "done"
           /\ stack' = At(i)
           /\ UNCHANGED <<colour, cycle, pc>>
  BY <1>1, <1>2, <1>4, PassStep
<1>5. CASE /\ \E k \in DOMAIN stack :
                stack[k].node = To(i) /\ cycle' = ClosedAt(k, To(i))
           /\ pc' = "report"
           /\ UNCHANGED <<colour, stack>>
  BY <1>1, <1>5, CloseStep
<1> QED BY <1>2, <1>3, <1>4, <1>5

(* The branches that are done are finitely many, and one more counts one.   *)
LEMMA OneMoreDone ==
  ASSUME Typed, NEW m \in Names, m \notin DoneSet
  PROVE  /\ Cardinality(DoneSet) \in Nat
         /\ Cardinality(DoneSet \cup {m}) = Cardinality(DoneSet) + 1
<1>1. IsFiniteSet(Names)
  BY ConfigAssumption, FS_Interval DEF Names
<1>2. IsFiniteSet(DoneSet)
  BY <1>1, FS_Subset DEF DoneSet
<1> QED BY <1>2, FS_CardinalityType, FS_AddElement

(* A branch all of whose promotions were looked at.                         *)
LEMMA ReturnStep ==
  ASSUME Invariant, Return
  PROVE  Invariant'
<1> DEFINE L == Len(stack)
           m == stack[L].node
           c == Cardinality(DoneSet)
<1>1. /\ pc = "search" /\ stack # << >> /\ Onwards = {}
      /\ stack' = SubSeq(stack, 1, Len(stack) - 1)
      /\ UNCHANGED <<doc, seen, pc, cycle>>
  BY DEF Return
<1>2. Typed /\ Path /\ Behind /\ cycle = << >>
  BY <1>1 DEF Invariant, Verdict, Search
<1>3. L \in Nat /\ L # 0 /\ Top = stack[L] /\ stack \in Seq(Frame) /\ L \in 1..L
  BY <1>1, <1>2, Frames
<1>4. m \in Names /\ colour[m] = "visiting" /\ stack[L].at \in Nat
  BY <1>2, <1>3, Frames DEF Path
<1>5. /\ colour' = [colour EXCEPT ![m] = "done"]
      /\ finished' = [finished EXCEPT ![m] = c + 1]
  BY <1>3 DEF Return, DoneSet
<1>6. m \notin DoneSet
  BY <1>4 DEF DoneSet
<1>7. c \in Nat /\ Cardinality(DoneSet \cup {m}) = c + 1
  <2> HIDE DEF m
  <2> QED BY <1>2, <1>4, <1>6, OneMoreDone
<1>8. \A e \in Edges(seen) : e \in Nat /\ e # 0 /\ From(e) \in Names /\ To(e) \in Names
  BY <1>2, SeenEdges
<1>9. \A e : From(e)' = From(e) /\ To(e)' = To(e)
  BY <1>1 DEF From, To
<1>10. /\ stack' \in Seq(Frame) /\ Len(stack') = L - 1
       /\ \A k \in 1..(L - 1) : stack'[k] = stack[k]
  <2> HIDE DEF L
  <2>1. stack' = SubSeq(stack, 1, L - 1) /\ L - 1 \in 0..Len(stack)
    BY <1>1, <1>3 DEF L
  <2>2. \A k \in 1..(L - 1) : k \in 1..Len(stack) /\ 1 + k - 1 = k
    BY <1>3 DEF L
  <2>3. L - 1 - 1 + 1 = L - 1 /\ L - 1 \in Nat
    BY <1>3
  <2> QED BY <1>3, <2>1, <2>2, <2>3, SubSeqProperties
<1>11. \A e \in Edges(seen) : From(e) = m => colour[To(e)] = "done"
  <2> SUFFICES ASSUME NEW e \in Edges(seen), From(e) = m
               PROVE  colour[To(e)] = "done"
    OBVIOUS
  <2>1. e <= stack[L].at
    BY <1>1, <1>3, <1>4, <1>8 DEF Onwards, From
  <2>2. ~(L < L)
    BY <1>3
  <2> QED BY <1>2, <1>3, <2>1, <2>2 DEF Behind
<1>12. \A k \in 1..L : stack[k].node \in Names
  BY <1>2, Frames
<1>13. \A k \in 1..(L - 1) : k \in 1..L /\ k # L /\ k < L /\ k + 1 \in 1..L
  BY <1>3
<1>14. \A k \in 1..(L - 1) : stack[k].node # m
  BY <1>2, <1>3, <1>13 DEF Path
<1> HIDE DEF L, m, c
<1>15. /\ \A n \in Names : colour'[n] = IF n = m THEN "done" ELSE colour[n]
       /\ \A n \in Names : finished'[n] = IF n = m THEN c + 1 ELSE finished[n]
  BY <1>2, <1>5 DEF Typed
<1>16. /\ colour' \in [Names -> {"unvisited", "visiting", "done"}]
       /\ finished' \in [Names -> Nat]
  <2>1. m \in Names /\ c + 1 \in Nat
    BY <1>4, <1>7
  <2>2. finished \in [Names -> Nat]
    BY <1>2 DEF Typed
  <2>3. colour \in [Names -> {"unvisited", "visiting", "done"}]
    BY <1>2 DEF Typed
  <2> QED BY <1>5, <2>1, <2>2, <2>3
<1>17. DoneSet' = DoneSet \cup {m}
  BY <1>4, <1>15 DEF DoneSet
<1>18. Typed'
  BY <1>1, <1>2, <1>10, <1>16 DEF Typed
<1>19. Path'
  <2>1. \A k \in 1..(L - 1) : colour'[stack'[k].node] = "visiting"
    BY <1>2, <1>10, <1>12, <1>13, <1>14, <1>15 DEF Path, L
  <2>2. \A n \in Names : colour'[n] = "visiting" => \E k \in 1..(L - 1) : stack'[k].node = n
    <3> SUFFICES ASSUME NEW n \in Names, colour'[n] = "visiting"
                 PROVE  \E k \in 1..(L - 1) : stack'[k].node = n
      OBVIOUS
    <3>1. n # m /\ colour[n] = "visiting"
      BY <1>15
    <3>2. PICK k \in 1..L : stack[k].node = n
      BY <1>2, <3>1 DEF Path, L
    <3>3. k # L
      BY <3>1, <3>2 DEF m
    <3>4. k \in 1..(L - 1)
      BY <1>3, <3>3
    <3> QED BY <1>10, <3>2, <3>4
  <2>3. \A j, k \in 1..(L - 1) : stack'[j].node = stack'[k].node => j = k
    BY <1>2, <1>10, <1>13 DEF Path, L
  <2>4. \A k \in 1..(L - 1) : k < L - 1 =>
          /\ stack'[k].at \in Edges(seen)
          /\ From(stack'[k].at) = stack'[k].node
          /\ To(stack'[k].at) = stack'[k + 1].node
    <3> SUFFICES ASSUME NEW k \in 1..(L - 1), k < L - 1
                 PROVE  /\ stack'[k].at \in Edges(seen)
                        /\ From(stack'[k].at) = stack'[k].node
                        /\ To(stack'[k].at) = stack'[k + 1].node
      OBVIOUS
    <3>1. k + 1 \in 1..(L - 1)
      BY <1>3
    <3> QED BY <1>2, <1>10, <1>13, <3>1 DEF Path, L
  <2> QED BY <1>1, <1>9, <1>10, <2>1, <2>2, <2>3, <2>4 DEF Path
<1>20. Behind'
  <2>1. ASSUME NEW k \in 1..(L - 1), NEW e \in Edges(seen),
               From(e) = stack'[k].node, e <= stack'[k].at
        PROVE  colour'[To(e)] = "done" \/ (k < L - 1 /\ e = stack'[k].at)
    <3>1. colour[To(e)] = "done" \/ e = stack[k].at
      BY <1>2, <1>10, <1>13, <2>1 DEF Behind, L
    <3>2. CASE colour[To(e)] = "done"
      BY <1>8, <1>15, <3>2
    <3>3. CASE e = stack[k].at /\ k = L - 1
      <4>1. To(e) = stack[k + 1].node
        BY <1>2, <1>13, <3>3 DEF Path, L
      <4>2. k + 1 = L
        BY <1>3, <3>3
      <4>3. To(e) = m
        BY <4>1, <4>2 DEF m
      <4> QED BY <1>4, <1>15, <4>3
    <3>4. CASE e = stack[k].at /\ k # L - 1
      <4>1. k < L - 1
        BY <1>3, <3>4
      <4> QED BY <1>10, <3>4, <4>1
    <3> QED BY <3>1, <3>2, <3>3, <3>4
  <2>2. ASSUME NEW e \in Edges(seen), colour'[From(e)] = "done"
        PROVE  colour'[To(e)] = "done" /\ finished'[To(e)] < finished'[From(e)]
    <3>1. From(e) \in Names /\ To(e) \in Names
      BY <1>8
    <3>2. colour[To(e)] = "done"
      BY <1>2, <1>11, <1>15, <2>2, <3>1 DEF Behind
    <3>3. To(e) # m
      BY <1>4, <3>2
    <3>4. CASE From(e) = m
      <4>1. finished[To(e)] <= c /\ finished[To(e)] \in Nat
        BY <1>2, <3>1, <3>2 DEF Behind, Typed, c
      <4>2. finished'[To(e)] = finished[To(e)] /\ finished'[From(e)] = c + 1
        BY <1>15, <3>1, <3>3, <3>4
      <4>3. finished'[To(e)] < finished'[From(e)]
        BY <1>7, <4>1, <4>2
      <4> QED BY <1>15, <3>1, <3>2, <4>3
    <3>5. CASE From(e) # m
      <4>1. finished[To(e)] < finished[From(e)]
        BY <1>2, <1>15, <2>2, <3>1, <3>5 DEF Behind
      <4> QED BY <1>15, <3>1, <3>2, <3>3, <3>5, <4>1
    <3> QED BY <3>4, <3>5
  <2>3. ASSUME NEW n \in Names, colour'[n] = "done"
        PROVE  finished'[n] <= Cardinality(DoneSet')
    <3>1. Cardinality(DoneSet') = c + 1
      BY <1>7, <1>17
    <3>2. CASE n = m
      BY <1>7, <1>15, <3>1, <3>2
    <3>3. CASE n # m
      <4>1. finished[n] <= c /\ finished[n] \in Nat /\ finished'[n] = finished[n]
        BY <1>2, <1>15, <2>3, <3>3 DEF Behind, Typed, c
      <4> QED BY <1>7, <3>1, <4>1
    <3> QED BY <3>2, <3>3
  <2> QED BY <1>1, <1>9, <1>10, <2>1, <2>2, <2>3 DEF Behind
<1> QED BY <1>1, <1>2, <1>18, <1>19, <1>20 DEF Invariant, Verdict, Search, CycleVerdict

(* Nothing is left to visit, so everything is done.                         *)
LEMMA NoCycleStep ==
  ASSUME Invariant, NoCycle
  PROVE  Invariant'
<1>1. /\ pc = "search" /\ stack = << >> /\ Roots = {} /\ pc' = "report"
      /\ UNCHANGED <<doc, seen, colour, stack, cycle, finished, errors, graph>>
  BY DEF NoCycle, search
<1>2. Typed /\ Path /\ Behind /\ cycle = << >>
  BY <1>1 DEF Invariant, Verdict, Search
<1>3. Typed'
  BY <1>1, <1>2 DEF Typed
<1>4. ASSUME NEW i \in Edges(seen)
      PROVE  finished[To(i)] < finished[From(i)]
  <2>1. From(i) \in Names
    BY <1>2, SeenEdges
  <2>2. colour[From(i)] # "visiting"
    BY <1>1, <1>2, <2>1 DEF Path
  <2>3. colour[From(i)] # "unvisited"
    BY <1>1, <2>1 DEF Roots, From
  <2>4. colour[From(i)] = "done"
    BY <1>2, <2>1, <2>2, <2>3 DEF Typed
  <2> QED BY <1>2, <2>4 DEF Behind
<1>5. Edges(doc) = Edges(seen) /\ seen.promotions = doc.promotions
  BY <1>2, SameEdges DEF Typed
<1>6. CycleVerdict'
  BY <1>1, <1>2, <1>4, <1>5 DEF CycleVerdict, From, To
<1> QED BY <1>1, <1>3, <1>6 DEF Invariant, Verdict

(* Nothing after the search changes what it found.                          *)
LEMMA ReportStep ==
  ASSUME Invariant, Report
  PROVE  Invariant'
<1>1. pc = "report" /\ pc' = "end"
      /\ UNCHANGED <<doc, seen, colour, stack, cycle, finished>>
  BY DEF Report, search
<1>2. Typed'
  BY <1>1 DEF Invariant, Typed
<1>3. CycleVerdict'
  BY <1>1 DEF Invariant, Verdict, CycleVerdict
<1> QED BY <1>1, <1>2, <1>3 DEF Invariant, Verdict

(* A stuttering step.                                                       *)
LEMMA StutterStep ==
  ASSUME Invariant, UNCHANGED vars
  PROVE  Invariant'
<1>1. UNCHANGED <<doc, seen, pc, colour, stack, cycle, finished>>
  BY DEF vars, search
<1>2. Typed'
  BY <1>1 DEF Invariant, Typed
<1>3. \A e : From(e)' = From(e) /\ To(e)' = To(e)
  BY <1>1 DEF From, To
<1>4. DoneSet' = DoneSet
  BY <1>1 DEF DoneSet
<1>5. Path => Path'
  BY <1>1, <1>3 DEF Path
<1>6. Behind => Behind'
  BY <1>1, <1>3, <1>4 DEF Behind
<1>7. CycleVerdict => CycleVerdict'
  BY <1>1 DEF CycleVerdict
<1> QED BY <1>1, <1>2, <1>5, <1>6, <1>7 DEF Invariant, Verdict, Search

(* No step breaks the invariant of the search.                              *)
LEMMA InvariantStep == Invariant /\ [Next]_vars => Invariant'
BY StartStep, VisitRootStep, NeighbourStep, ReturnStep, NoCycleStep, ReportStep, StutterStep
   DEF Next, Done

(* The invariant of the search holds throughout.                            *)
THEOREM InvariantHolds == Spec => []Invariant
<1>1. Init => Invariant
  BY InvariantInit
<1>2. Invariant /\ [Next]_vars => Invariant'
  BY InvariantStep
<1> QED BY <1>1, <1>2, PTL DEF Spec

(* For every document, Validate's findCycle (pkg/api/v1/validate.go) finds   *)
(* a cycle of promotions exactly if there is one, and what it returns is a   *)
(* cycle.                                                                    *)
THEOREM CycleFound == Spec => []CycleVerdict
<1>1. Invariant => CycleVerdict
  BY DEF Invariant, Verdict
<1> QED BY <1>1, InvariantHolds, PTL

-----------------------------------------------------------------------------
(* Accepted documents. *)

(* The promotions of a document without an error among them.                *)
LEMMA AcceptedEdges ==
  ASSUME NEW d \in Document, EdgeErrors(d) = {}
  PROVE  /\ \A i \in DOMAIN d.promotions :
              /\ {d.promotions[i].from, d.promotions[i].to} \subseteq Declared(d)
              /\ Role(d, d.promotions[i].to) # "source"
              /\ i \in Edges(d)
         /\ \A i, j \in DOMAIN d.promotions :
              d.promotions[i].from = d.promotions[j].from
                /\ d.promotions[i].to = d.promotions[j].to => i = j
<1> DEFINE P == d.promotions
           whole == {i \in DOMAIN P : Complete(P[i])}
           pairs == [i \in DOMAIN P |-> <<P[i].from, P[i].to>>]
<1>1. P \in Seq(Promotion)
  BY DEF Document
<1>2. \A i \in DOMAIN P : i \in whole
  <2> SUFFICES ASSUME NEW i \in DOMAIN P, i \notin whole PROVE FALSE
    OBVIOUS
  <2>1. <<"incomplete", i>> \in EdgeErrors(d)
    BY DEF EdgeErrors
  <2> QED BY <2>1
<1>3. ASSUME NEW i \in DOMAIN P
      PROVE  /\ {P[i].from, P[i].to} \subseteq Declared(d)
             /\ Role(d, P[i].to) # "source"
             /\ i \notin Repeats(pairs)
             /\ i \in Edges(d)
  <2>1. ~({P[i].from, P[i].to} \subseteq Declared(d)) => <<"undeclared", i>> \in EdgeErrors(d)
    BY <1>2 DEF EdgeErrors
  <2>2. Role(d, P[i].to) = "source" => <<"enters source", i>> \in EdgeErrors(d)
    BY <1>2 DEF EdgeErrors
  <2>3. i \in Repeats(pairs) => <<"edge twice", i>> \in EdgeErrors(d)
    BY <1>2 DEF EdgeErrors
  <2>4. P[i].from = P[i].to => <<"loop", i>> \in EdgeErrors(d)
    BY <1>2 DEF EdgeErrors
  <2>5. i \in Edges(d)
    BY <1>2, <2>4 DEF Edges
  <2> QED BY <2>1, <2>2, <2>3, <2>5
<1>4. ASSUME NEW i \in DOMAIN P, NEW j \in DOMAIN P, pairs[i] = pairs[j], j < i
      PROVE  FALSE
  <2>1. i \in Repeats(pairs)
    BY <1>4 DEF Repeats
  <2> QED BY <1>3, <2>1
<1>5. \A i, j \in DOMAIN P : i \in Nat /\ j \in Nat /\ (i = j \/ i < j \/ j < i)
  BY <1>1
<1>6. \A i, j \in DOMAIN P : P[i].from = P[j].from /\ P[i].to = P[j].to => pairs[i] = pairs[j]
  OBVIOUS
<1> HIDE DEF P, pairs
<1>7. \A i, j \in DOMAIN P : P[i].from = P[j].from /\ P[i].to = P[j].to => i = j
  BY <1>4, <1>5, <1>6
<1> QED BY <1>3, <1>7 DEF P

(* The backflow policy of a document without an error in it.                *)
LEMMA AcceptedBackflow ==
  ASSUME NEW d \in Document, d.backflow # None, BackflowErrors(d) = {}
  PROVE  /\ d.backflow.sources # << >>
         /\ Role(d, d.backflow.target) = "source"
         /\ d.backflow.strategy = "merge" => d.backflow.method \in {"", "merge"}
         /\ \A k \in DOMAIN d.backflow.sources :
              /\ d.backflow.sources[k] # d.backflow.target
              /\ d.backflow.sources[k] \in Declared(d)
              /\ d.branches[d.backflow.sources[k]].drift # "expected"
<1> DEFINE bf == d.backflow
           broken == [strategy |-> bf.strategy = "other",
                      method |-> bf.method = "other",
                      merge |-> bf.strategy = "merge" /\ bf.method \notin {"", "merge"},
                      target |-> Role(d, bf.target) # "source",
                      sources |-> bf.sources = << >>]
<1>1. \A rule \in DOMAIN broken : broken[rule] => <<"backflow", rule>> \in BackflowErrors(d)
  <2> DEFINE rest == {<<SourceError(d, i), i>> : i \in DOMAIN bf.sources}
                       \ {<<"none", i>> : i \in DOMAIN bf.sources}
  <2>1. BackflowErrors(d) =
          {<<"backflow", rule>> : rule \in {rule \in DOMAIN broken : broken[rule]}} \cup rest
    BY DEF BackflowErrors
  <2> HIDE DEF broken, rest
  <2> QED BY <2>1
<1>2. \A rule \in DOMAIN broken : ~broken[rule]
  BY <1>1
<1>3. ~broken["merge"] /\ ~broken["target"] /\ ~broken["sources"]
  <2>1. {"merge", "target", "sources"} \subseteq DOMAIN broken
    OBVIOUS
  <2> HIDE DEF broken
  <2> QED BY <1>2, <2>1
<1>4. ASSUME NEW k \in DOMAIN bf.sources
      PROVE  SourceError(d, k) = "none"
  <2> SUFFICES ASSUME SourceError(d, k) # "none" PROVE FALSE
    OBVIOUS
  <2>1. <<SourceError(d, k), k>> \notin {<<"none", i>> : i \in DOMAIN bf.sources}
    OBVIOUS
  <2>2. <<SourceError(d, k), k>> \in BackflowErrors(d)
    BY <2>1 DEF BackflowErrors
  <2> QED BY <2>2
<1>5. ASSUME NEW k \in DOMAIN bf.sources
      PROVE  /\ bf.sources[k] # bf.target
             /\ bf.sources[k] \in Declared(d)
             /\ d.branches[bf.sources[k]].drift # "expected"
  BY <1>4 DEF SourceError
<1> QED BY <1>3, <1>5

(* What FromConfig makes of a document without an error.                    *)
LEMMA AcceptedDocument ==
  ASSUME NEW d \in Document, RuleErrors(d) = {}
  PROVE  LET P == FromConfig(d).promotions
             bf == FromConfig(d).backflow
         IN /\ \A i, j \in DOMAIN P : P[i].from = P[j].from /\ P[i].to = P[j].to => i = j
            /\ \A i \in DOMAIN P : {P[i].from, P[i].to} \subseteq DOMAIN FromConfig(d).branches
            /\ P = d.promotions /\ \A i \in DOMAIN P : i \in Edges(d)
            /\ bf # None =>
                 /\ bf.sources # << >>
                 /\ \A i \in DOMAIN P : P[i].to # bf.target
                 /\ \A k \in DOMAIN bf.sources :
                      /\ bf.sources[k] # bf.target
                      /\ FromConfig(d).branches[bf.sources[k]].drift = "forbidden"
                 /\ bf.strategy = "merge" => bf.method = "merge"
<1> DEFINE g == FromConfig(d)
<1>1. EdgeErrors(d) = {} /\ BackflowErrors(d) = {} /\ BranchErrors(d) = {}
  BY DEF RuleErrors
<1>2. g.promotions = d.promotions /\ DOMAIN g.branches = Declared(d)
  BY DEF FromConfig
<1>3. ASSUME NEW b \in Declared(d), d.branches[b].drift # "expected"
      PROVE  g.branches[b].drift = "forbidden"
  <2>1. d.branches[b] \in Branch
    BY DEF Document, Declared
  <2>2. d.branches[b].drift = "other" => <<"drift", b>> \in BranchErrors(d)
    BY DEF BranchErrors
  <2>3. d.branches[b].drift \in {"", "forbidden"}
    BY <1>1, <1>3, <2>1, <2>2 DEF Branch
  <2> QED BY <2>3 DEF FromConfig
<1>4. ASSUME d.backflow # None
      PROVE  /\ g.backflow.sources = d.backflow.sources
             /\ g.backflow.target = d.backflow.target
             /\ g.backflow.strategy = "merge" => d.backflow.strategy = "merge"
             /\ d.backflow.strategy = "merge" =>
                  g.backflow.method = IF d.backflow.method = "" THEN "merge" ELSE d.backflow.method
  <2>1. d.backflow \in Backflow
    BY <1>4 DEF Document
  <2> QED BY <1>4, <2>1 DEF FromConfig, Backflow
<1>5. g.backflow # None => d.backflow # None
  BY DEF FromConfig
<1> HIDE DEF g
<1>6. ASSUME g.backflow # None
      PROVE  /\ g.backflow.sources # << >>
             /\ \A i \in DOMAIN g.promotions : g.promotions[i].to # g.backflow.target
             /\ \A k \in DOMAIN g.backflow.sources :
                  /\ g.backflow.sources[k] # g.backflow.target
                  /\ g.branches[g.backflow.sources[k]].drift = "forbidden"
             /\ g.backflow.strategy = "merge" => g.backflow.method = "merge"
  <2>1. d.backflow # None
    BY <1>5, <1>6
  <2>2. \A i \in DOMAIN g.promotions : g.promotions[i].to # g.backflow.target
    <3>1. Role(d, d.backflow.target) = "source"
      BY <1>1, <2>1, AcceptedBackflow
    <3>2. \A i \in DOMAIN d.promotions : Role(d, d.promotions[i].to) # "source"
      BY <1>1, AcceptedEdges
    <3>3. \A i \in DOMAIN d.promotions : d.promotions[i].to # d.backflow.target
      BY <3>1, <3>2
    <3> QED BY <1>2, <1>4, <2>1, <3>3
  <2>3. g.backflow.sources # << >> /\ (g.backflow.strategy = "merge" => g.backflow.method = "merge")
    BY <1>1, <1>4, <2>1, AcceptedBackflow
  <2>4. \A k \in DOMAIN g.backflow.sources :
           /\ g.backflow.sources[k] # g.backflow.target
           /\ g.branches[g.backflow.sources[k]].drift = "forbidden"
    BY <1>1, <1>3, <1>4, <2>1, AcceptedBackflow
  <2> QED BY <2>2, <2>3, <2>4
<1>7. /\ \A i, j \in DOMAIN g.promotions :
            g.promotions[i].from = g.promotions[j].from
              /\ g.promotions[i].to = g.promotions[j].to => i = j
      /\ \A i \in DOMAIN g.promotions :
            {g.promotions[i].from, g.promotions[i].to} \subseteq DOMAIN g.branches
      /\ \A i \in DOMAIN g.promotions : i \in Edges(d)
  BY <1>1, <1>2, AcceptedEdges
<1> QED BY <1>2, <1>6, <1>7 DEF g

(* What Report leaves behind.                                               *)
Reported ==
  pc = "end" =>
    /\ RuleErrors(seen) \subseteq errors /\ graph = FromConfig(seen)
    /\ errors = {} => cycle = << >>

(* No step breaks it.                                                       *)
LEMMA ReportedStep == Reported /\ [Next]_vars => Reported'
<1> SUFFICES ASSUME Reported, [Next]_vars PROVE Reported'
  OBVIOUS
<1>1. CASE Start
  BY <1>1 DEF Start, Reported
<1>2. CASE VisitRoot
  BY <1>2 DEF VisitRoot, Reported
<1>3. CASE Neighbour
  BY <1>3 DEF Neighbour, Reported
<1>4. CASE Return
  BY <1>4 DEF Return, Reported
<1>5. CASE NoCycle
  BY <1>5 DEF NoCycle, Reported
<1>6. CASE Report
  BY <1>6 DEF Report, Reported, search
<1>7. CASE UNCHANGED vars
  BY <1>7 DEF vars, search, Reported
<1> QED BY <1>1, <1>2, <1>3, <1>4, <1>5, <1>6, <1>7 DEF Next, Done

(* For every document that Validate accepts, the graph the planner gets has *)
(* what planning and applying rely on: a pair of branches is one edge of    *)
(* one kind, backflow sources are under policy, a merge backflow has its    *)
(* method, and the promotions are ranked, so that none of them lead round.  *)
THEOREM AcceptedGraphHolds == Spec => []AcceptedGraph
<1>1. Init => Reported
  BY DEF Init, Reported
<1>2. Reported /\ [Next]_vars => Reported'
  BY ReportedStep
<1>3. Invariant /\ Reported => AcceptedGraph
  <2> SUFFICES ASSUME Invariant, Reported, pc = "end", errors = {}
               PROVE  AcceptedGraph
    BY DEF AcceptedGraph
  <2>1. seen \in Document /\ RuleErrors(seen) = {} /\ graph = FromConfig(seen) /\ cycle = << >>
    BY DEF Invariant, Typed, Reported
  <2>2. seen.promotions = doc.promotions
    BY DEF Invariant, Typed
  <2>3. \A i \in Edges(seen) : i \in Edges(doc)
    BY <2>2 DEF Edges
  <2>4. \A i \in Edges(doc) : finished[doc.promotions[i].to] < finished[doc.promotions[i].from]
    BY <2>1 DEF Invariant, Verdict, CycleVerdict
  <2>5. /\ graph.promotions = seen.promotions
        /\ \A i \in DOMAIN graph.promotions : i \in Edges(seen)
    BY <2>1, AcceptedDocument
  <2>6. \A i \in DOMAIN graph.promotions :
           finished[graph.promotions[i].to] < finished[graph.promotions[i].from]
    BY <2>2, <2>3, <2>4, <2>5
  <2> QED BY <2>1, <2>6, AcceptedDocument DEF AcceptedGraph
<1>4. Spec => []Reported
  BY <1>1, <1>2, PTL DEF Spec
<1> QED BY <1>3, <1>4, InvariantHolds, PTL

-----------------------------------------------------------------------------
(* Defaults. *)

(* Default leaves declared what was declared, in its role, and opens no     *)
(* drift.                                                                   *)
LEMMA DefaultBranches ==
  ASSUME NEW d \in Document
  PROVE  /\ Declared(Default(d)) = Declared(d)
         /\ \A b \in Declared(d) :
              /\ d.branches[b] \in Branch /\ Default(d).branches[b] \in Branch
              /\ Default(d).branches[b] = DefaultBranch(d.branches[b])
              /\ Default(d).branches[b].role = d.branches[b].role
              /\ Default(d).branches[b].drift =
                   IF d.branches[b].drift = "" THEN "forbidden" ELSE d.branches[b].drift
<1>1. Default(d).branches = [b \in Names |-> DefaultBranch(d.branches[b])]
  BY DEF Default, Document
<1>2. d.branches \in [Names -> Branch \cup {None}]
  BY DEF Document
<1>3. ASSUME NEW b \in Names, d.branches[b] \in Branch
      PROVE  /\ DefaultBranch(d.branches[b]) \in Branch
             /\ DefaultBranch(d.branches[b]).role = d.branches[b].role
             /\ DefaultBranch(d.branches[b]).drift =
                  IF d.branches[b].drift = "" THEN "forbidden" ELSE d.branches[b].drift
  BY <1>3, NoneAssumption DEF DefaultBranch, Branch
<1>4. DefaultBranch(None) = None
  BY DEF DefaultBranch
<1>5. Declared(Default(d)) = Declared(d)
  <2>1. ASSUME NEW b \in Names
        PROVE  Default(d).branches[b] # None <=> d.branches[b] # None
    <3>1. Default(d).branches[b] = DefaultBranch(d.branches[b])
      BY <1>1
    <3>2. CASE d.branches[b] = None
      BY <1>4, <3>1, <3>2
    <3>3. CASE d.branches[b] \in Branch
      BY <1>3, <3>1, <3>3, NoneAssumption
    <3> QED
      BY <1>2, <3>2, <3>3
  <2> QED
    BY <2>1 DEF Declared
<1> QED
  BY <1>1, <1>2, <1>3, <1>5, NoneAssumption DEF Declared

(* Default leaves a backflow policy its branches, and fills in strategy and *)
(* method.                                                                  *)
LEMMA DefaultBackflow ==
  ASSUME NEW d \in Document
  PROVE  /\ Default(d).backflow = None <=> d.backflow = None
         /\ d.backflow # None =>
              /\ d.backflow \in Backflow /\ Default(d).backflow \in Backflow
              /\ Default(d).backflow.sources = d.backflow.sources
              /\ Default(d).backflow.target = d.backflow.target
              /\ Default(d).backflow.strategy =
                   IF d.backflow.strategy = "" THEN "cherry-pick" ELSE d.backflow.strategy
              /\ Default(d).backflow.method =
                   IF d.backflow.strategy = "merge" /\ d.backflow.method = "" THEN "merge"
                   ELSE d.backflow.method
<1>1. Default(d).backflow = IF d.backflow = None THEN None
                            ELSE DefaultMethod(DefaultStrategy(d.backflow))
  BY DEF Default, Document
<1>2. CASE d.backflow = None
  BY <1>1, <1>2
<1>3. CASE d.backflow # None
  <2>1. PICK bf \in Backflow : bf = d.backflow
    BY <1>3 DEF Document
  <2>2. /\ DefaultStrategy(bf) \in Backflow
        /\ DefaultStrategy(bf).sources = bf.sources /\ DefaultStrategy(bf).target = bf.target
        /\ DefaultStrategy(bf).method = bf.method
        /\ DefaultStrategy(bf).strategy = IF bf.strategy = "" THEN "cherry-pick" ELSE bf.strategy
    BY DEF DefaultStrategy, Backflow
  <2>3. PICK mid \in Backflow : mid = DefaultStrategy(bf)
    BY <2>2
  <2>4. /\ DefaultMethod(mid) \in Backflow
        /\ DefaultMethod(mid).sources = mid.sources /\ DefaultMethod(mid).target = mid.target
        /\ DefaultMethod(mid).strategy = mid.strategy
        /\ DefaultMethod(mid).method =
             IF mid.strategy = "merge" /\ mid.method = "" THEN "merge" ELSE mid.method
    BY DEF DefaultMethod, Backflow, Methods
  <2> QED
    BY <1>1, <1>3, <2>1, <2>2, <2>3, <2>4, NoneAssumption
<1> QED
  BY <1>2, <1>3

(* Default leaves a destination its name, type and address, and selects     *)
(* what is known for what was not selected.                                 *)
LEMMA DefaultDestinationLaw ==
  ASSUME NEW n \in Destination
  PROVE  /\ DefaultDestination(n) \in Destination
         /\ DefaultDestination(n).name = n.name /\ DefaultDestination(n).type = n.type
         /\ DefaultDestination(n).private = n.private
         /\ DefaultDestination(n).enabled = IF n.enabled = None THEN TRUE ELSE n.enabled
         /\ DefaultDestination(n).events =
              IF n.events = None THEN <<"request-merged">> ELSE n.events
         /\ DefaultDestination(n).kinds =
              IF n.kinds = None THEN <<"promotion", "backflow">> ELSE n.kinds
<1>1. DefaultDestination(n) \in Destination
  BY DefaultDestinationTyped
<1> DEFINE enabled == IF n.enabled = None THEN TRUE ELSE n.enabled
           events == IF n.events = None THEN <<"request-merged">> ELSE n.events
           kinds == IF n.kinds = None THEN <<"promotion", "backflow">> ELSE n.kinds
<1>2. DefaultDestination(n) = [n EXCEPT !.enabled = enabled, !.events = events, !.kinds = kinds]
  BY DEF DefaultDestination, Destination
<1> HIDE DEF enabled, events, kinds
<1>3. /\ DefaultDestination(n).name = n.name /\ DefaultDestination(n).type = n.type
      /\ DefaultDestination(n).private = n.private
      /\ DefaultDestination(n).enabled = enabled
      /\ DefaultDestination(n).events = events
      /\ DefaultDestination(n).kinds = kinds
  BY <1>2 DEF Destination
<1> QED
  BY <1>1, <1>3 DEF enabled, events, kinds

(* What Default selects is a selection as it should be.                     *)
LEMMA SelectionLaw ==
  ASSUME NEW n \in Destination
  PROVE  /\ BadSelection(DefaultDestination(n).events) = BadSelection(n.events)
         /\ BadSelection(DefaultDestination(n).kinds) = BadSelection(n.kinds)
<1>1. ~BadSelection(<<"request-merged">>)
  BY DEF BadSelection, Repeats
<1>2. ~BadSelection(<<"promotion", "backflow">>)
  BY DEF BadSelection, Repeats
<1>3. ~BadSelection(None)
  BY DEF BadSelection
<1>4. /\ BadSelection(n.events) \in BOOLEAN /\ BadSelection(n.kinds) \in BOOLEAN
      /\ BadSelection(<<"request-merged">>) \in BOOLEAN
      /\ BadSelection(<<"promotion", "backflow">>) \in BOOLEAN
      /\ BadSelection(None) \in BOOLEAN
  BY DEF BadSelection
<1> QED
  BY <1>1, <1>2, <1>3, <1>4, DefaultDestinationLaw

(* The destinations of a document with its defaults.                        *)
LEMMA DefaultDestinations ==
  ASSUME NEW d \in Document
  PROVE  /\ DOMAIN Default(d).destinations = DOMAIN d.destinations
         /\ \A i \in DOMAIN d.destinations :
              /\ d.destinations[i] \in Destination
              /\ Default(d).destinations[i] = DefaultDestination(d.destinations[i])
<1>1. Default(d).destinations =
        [i \in DOMAIN d.destinations |-> DefaultDestination(d.destinations[i])]
  BY DEF Default, Document
<1>2. d.destinations \in Seq(Destination)
  BY DEF Document
<1> QED
  BY <1>1, <1>2

(* Default leaves the rest of a document as it is.                          *)
LEMMA DefaultRest ==
  ASSUME NEW d \in Document
  PROVE  /\ Default(d).promotions = d.promotions
         /\ Default(d).templates = d.templates /\ Default(d).labelled = d.labelled
BY DEF Default, Document

(* It fills in an unset apiVersion and kind, which Validate refuses.       *)
LEMMA DefaultHeader ==
  ASSUME NEW d \in Document
  PROVE  /\ HeaderErrors(Default(d)) = HeaderErrors(d) \ Unset(d)
         /\ Unset(d) \subseteq HeaderErrors(d) /\ Unset(Default(d)) = {}
         /\ \A x \in Unset(d) : \E field \in {"apiVersion", "kind"} : x = <<"header", field>>
<1> DEFINE Broken(e) == [apiVersion |-> e.apiVersion \notin Versions,
                         kind |-> e.kind # "PromotionGraph",
                         name |-> ~e.named]
           Rules == {"apiVersion", "kind", "name"}
           D == Default(d)
<1>1. /\ D.apiVersion = IF d.apiVersion = "" THEN "v1" ELSE d.apiVersion
      /\ D.kind = IF d.kind = "" THEN "PromotionGraph" ELSE d.kind
      /\ D.named = d.named
  BY DEF Default, Document
<1> HIDE DEF D
<1>2. ASSUME NEW e, NEW rule
      PROVE  <<"header", rule>> \in HeaderErrors(e) <=> rule \in Rules /\ Broken(e)[rule]
  BY DEF HeaderErrors
<1>3. ASSUME NEW e, NEW x \in HeaderErrors(e)
      PROVE  \E rule \in Rules : x = <<"header", rule>>
  BY DEF HeaderErrors
<1>4. ASSUME NEW e, NEW rule
      PROVE  <<"header", rule>> \in Unset(e) <=> rule \in {"apiVersion", "kind"} /\ e[rule] = ""
  BY DEF Unset
<1>5. ASSUME NEW e, NEW x \in Unset(e)
      PROVE  \E rule \in {"apiVersion", "kind"} : x = <<"header", rule>>
  BY DEF Unset
<1>6. ASSUME NEW rule \in Rules
      PROVE  /\ Broken(D)[rule] <=> Broken(d)[rule] /\ ~(rule \in {"apiVersion", "kind"} /\ d[rule] = "")
             /\ rule \in {"apiVersion", "kind"} /\ d[rule] = "" => Broken(d)[rule]
             /\ ~(rule \in {"apiVersion", "kind"} /\ D[rule] = "")
  <2>1. CASE rule = "apiVersion"
    BY <1>1, <2>1 DEF Versions
  <2>2. CASE rule = "kind"
    BY <1>1, <2>2
  <2>3. CASE rule = "name"
    BY <1>1, <2>3
  <2> QED BY <2>1, <2>2, <2>3
<1> HIDE DEF Broken, Rules
<1>7. HeaderErrors(D) = HeaderErrors(d) \ Unset(d)
  <2>1. ASSUME NEW x \in HeaderErrors(D) PROVE x \in HeaderErrors(d) \ Unset(d)
    <3>1. PICK rule \in Rules : x = <<"header", rule>>
      BY <1>3
    <3> QED BY <1>2, <1>4, <1>6, <2>1, <3>1
  <2>2. ASSUME NEW x \in HeaderErrors(d), x \notin Unset(d) PROVE x \in HeaderErrors(D)
    <3>1. PICK rule \in Rules : x = <<"header", rule>>
      BY <1>3
    <3> QED BY <1>2, <1>4, <1>6, <2>2, <3>1
  <2> QED BY <2>1, <2>2
<1>8. ASSUME NEW x \in Unset(d) PROVE x \in HeaderErrors(d)
  <2>1. PICK rule \in {"apiVersion", "kind"} : x = <<"header", rule>>
    BY <1>5
  <2>2. rule \in Rules
    BY DEF Rules
  <2> QED BY <1>2, <1>4, <1>6, <2>1, <2>2
<1>9. ASSUME NEW x \in Unset(D) PROVE FALSE
  <2>1. PICK rule \in {"apiVersion", "kind"} : x = <<"header", rule>>
    BY <1>5
  <2>2. rule \in Rules
    BY DEF Rules
  <2> QED BY <1>4, <1>6, <2>1, <2>2
<1> QED BY <1>5, <1>7, <1>8, <1>9 DEF D

(* The rules find the same with the defaults as without: of the branches,  *)
LEMMA SameBranchErrors ==
  ASSUME NEW d \in Document
  PROVE  BranchErrors(Default(d)) = BranchErrors(d)
<1>1. {b \in Declared(Default(d)) : Default(d).branches[b].role = "other"}
        = {b \in Declared(d) : d.branches[b].role = "other"}
  BY DefaultBranches
<1>2. {b \in Declared(Default(d)) : Default(d).branches[b].drift = "other"}
        = {b \in Declared(d) : d.branches[b].drift = "other"}
  BY DefaultBranches
<1> QED
  BY <1>1, <1>2, DefaultBranches DEF BranchErrors

(* of the promotions,                                                       *)
LEMMA SameEdgeErrors ==
  ASSUME NEW d \in Document
  PROVE  /\ EdgeErrors(Default(d)) = EdgeErrors(d)
         /\ \A b : Role(Default(d), b) = Role(d, b)
<1>1. \A b : Role(Default(d), b) = Role(d, b)
  BY DefaultBranches DEF Role
<1> DEFINE D == Default(d)
           P == d.promotions
           whole == {i \in DOMAIN P : Complete(P[i])}
           undeclared(c) == {i \in whole : ~({P[i].from, P[i].to} \subseteq Declared(c))}
           leaves(c) == {i \in whole : Role(c, P[i].from) = "terminal"}
           enters(c) == {i \in whole : Role(c, P[i].to) = "source"}
           all(c) == {<<"incomplete", i>> : i \in DOMAIN P \ whole} \cup
                     {<<"undeclared", i>> : i \in undeclared(c)} \cup
                     {<<"loop", i>> : i \in {i \in whole : P[i].from = P[i].to}} \cup
                     {<<"edge twice", i>> :
                        i \in Repeats([i \in DOMAIN P |-> <<P[i].from, P[i].to>>]) \cap whole} \cup
                     {<<"method", i>> : i \in {i \in whole : P[i].method = "other"}} \cup
                     {<<"edge template", i>> :
                        i \in {i \in whole : BadTemplate(P[i].template)}} \cup
                     {<<"leaves terminal", i>> : i \in leaves(c)} \cup
                     {<<"enters source", i>> : i \in enters(c)}
<1>2. Declared(D) = Declared(d) /\ D.promotions = P
  BY DefaultBranches, DefaultRest
<1>3. undeclared(D) = undeclared(d)
  BY <1>2
<1>4. leaves(D) = leaves(d) /\ enters(D) = enters(d)
  BY <1>1
<1>5. EdgeErrors(d) = all(d)
  BY DEF EdgeErrors
<1>6. EdgeErrors(D) = all(D)
  <2> HIDE DEF D
  <2> QED
    BY <1>2 DEF EdgeErrors
<1> HIDE DEF undeclared, leaves, enters, whole, P
<1>7. all(D) = all(d)
  BY <1>3, <1>4
<1> HIDE DEF all
<1> QED
  BY <1>1, <1>5, <1>6, <1>7

(* of the sources of a backflow,                                            *)
LEMMA SameSourceErrors ==
  ASSUME NEW d \in Document, d.backflow # None, NEW i \in DOMAIN d.backflow.sources
  PROVE  SourceError(Default(d), i) = SourceError(d, i)
<1> DEFINE s == d.backflow.sources[i]
<1>1. /\ Default(d).backflow.sources = d.backflow.sources
      /\ Default(d).backflow.target = d.backflow.target
      /\ Declared(Default(d)) = Declared(d)
  BY DefaultBackflow, DefaultBranches
<1>2. s \in Declared(d) =>
        (Default(d).branches[s].drift = "expected" <=> d.branches[s].drift = "expected")
  BY DefaultBranches
<1> QED
  BY <1>1, <1>2 DEF SourceError

(* of the backflow policy,                                                  *)
LEMMA SameBackflowErrors ==
  ASSUME NEW d \in Document
  PROVE  BackflowErrors(Default(d)) = BackflowErrors(d)
<1> DEFINE D == Default(d)
           rules(e) == [strategy |-> e.backflow.strategy = "other",
                        method |-> e.backflow.method = "other",
                        merge |-> e.backflow.strategy = "merge" /\ e.backflow.method \notin {"", "merge"},
                        target |-> Role(e, e.backflow.target) # "source",
                        sources |-> e.backflow.sources = << >>]
           found(e) == {<<SourceError(e, i), i>> : i \in DOMAIN e.backflow.sources}
           fine(e) == {<<"none", i>> : i \in DOMAIN e.backflow.sources}
<1>1. CASE d.backflow = None
  BY <1>1, DefaultBackflow DEF BackflowErrors
<1>2. CASE d.backflow # None
  <2>1. /\ D.backflow # None
        /\ D.backflow.sources = d.backflow.sources /\ D.backflow.target = d.backflow.target
        /\ D.backflow.strategy = IF d.backflow.strategy = "" THEN "cherry-pick"
                                 ELSE d.backflow.strategy
        /\ D.backflow.method = IF d.backflow.strategy = "merge" /\ d.backflow.method = "" THEN "merge"
                               ELSE d.backflow.method
    BY <1>2, DefaultBackflow
  <2>2. /\ (D.backflow.strategy = "other") = (d.backflow.strategy = "other")
        /\ (D.backflow.method = "other") = (d.backflow.method = "other")
        /\ (D.backflow.strategy = "merge" /\ D.backflow.method \notin {"", "merge"})
             = (d.backflow.strategy = "merge" /\ d.backflow.method \notin {"", "merge"})
    BY <2>1
  <2>3. /\ (Role(D, D.backflow.target) # "source") = (Role(d, d.backflow.target) # "source")
        /\ (D.backflow.sources = << >>) = (d.backflow.sources = << >>)
    BY <2>1, SameEdgeErrors
  <2>4. rules(D) = rules(d)
    BY <2>2, <2>3
  <2>5. found(D) = found(d) /\ fine(D) = fine(d)
    BY <1>2, <2>1, SameSourceErrors
  <2>6. BackflowErrors(D) = {<<"backflow", rule>> : rule \in {rule \in DOMAIN rules(D) : rules(D)[rule]}}
                              \cup (found(D) \ fine(D))
    BY <2>1 DEF BackflowErrors
  <2>7. BackflowErrors(d) = {<<"backflow", rule>> : rule \in {rule \in DOMAIN rules(d) : rules(d)[rule]}}
                              \cup (found(d) \ fine(d))
    BY <1>2 DEF BackflowErrors
  <2> HIDE DEF D, rules, found, fine
  <2>8. BackflowErrors(D) = BackflowErrors(d)
    BY <2>4, <2>5, <2>6, <2>7
  <2> QED
    BY <2>8 DEF D
<1> QED
  BY <1>1, <1>2

(* of the templates,                                                        *)
LEMMA SameTemplateErrors ==
  ASSUME NEW d \in Document
  PROVE  TemplateErrors(Default(d)) = TemplateErrors(d)
<1>1. /\ Default(d).backflow = None <=> d.backflow = None
      /\ Default(d).templates = d.templates
      /\ d.backflow # None =>
           (Default(d).backflow.strategy # "merge" <=> d.backflow.strategy # "merge")
  BY DefaultBackflow, DefaultRest
<1>2. (Default(d).backflow = None \/ Default(d).backflow.strategy # "merge")
        <=> (d.backflow = None \/ d.backflow.strategy # "merge")
  BY <1>1
<1> QED
  BY <1>1, <1>2 DEF TemplateErrors

(* and of the destinations.                                                 *)
LEMMA SameNotificationErrors ==
  ASSUME NEW d \in Document
  PROVE  NotificationErrors(Default(d)) = NotificationErrors(d)
<1> DEFINE D == Default(d)
           I == DOMAIN d.destinations
           names(e) == [i \in DOMAIN e.destinations |-> e.destinations[i].name]
<1>1. DOMAIN D.destinations = I /\ Declared(D) = Declared(d) /\ D.labelled = d.labelled
  BY DefaultDestinations, DefaultBranches, DefaultRest
<1>2. ASSUME NEW i \in I
      PROVE  /\ D.destinations[i].name = d.destinations[i].name
             /\ D.destinations[i].type = d.destinations[i].type
             /\ D.destinations[i].private = d.destinations[i].private
             /\ BadSelection(D.destinations[i].events) = BadSelection(d.destinations[i].events)
             /\ BadSelection(D.destinations[i].kinds) = BadSelection(d.destinations[i].kinds)
  <2>1. d.destinations[i] \in Destination
        /\ D.destinations[i] = DefaultDestination(d.destinations[i])
    BY DefaultDestinations
  <2> QED
    BY <2>1, DefaultDestinationLaw, SelectionLaw
<1> HIDE DEF D
<1>3. names(D) = names(d)
  BY <1>1, <1>2
<1>4. /\ {i \in DOMAIN D.destinations : D.destinations[i].name = 0}
           = {i \in DOMAIN d.destinations : d.destinations[i].name = 0}
      /\ {i \in DOMAIN D.destinations : D.destinations[i].type = "other"}
           = {i \in DOMAIN d.destinations : d.destinations[i].type = "other"}
      /\ {i \in DOMAIN D.destinations : D.destinations[i].private /\ D.destinations[i].type # "webhook"}
           = {i \in DOMAIN d.destinations : d.destinations[i].private /\ d.destinations[i].type # "webhook"}
  BY <1>1, <1>2
<1>5. {i \in DOMAIN D.destinations :
         BadSelection(D.destinations[i].events) \/ BadSelection(D.destinations[i].kinds)}
        = {i \in DOMAIN d.destinations :
             BadSelection(d.destinations[i].events) \/ BadSelection(d.destinations[i].kinds)}
  BY <1>1, <1>2
<1>6. NotificationErrors(D) = NotificationErrors(d)
  BY <1>1, <1>3, <1>4, <1>5 DEF NotificationErrors
<1> QED
  BY <1>6 DEF D

(* No other rule reports a cycle or the header.                             *)
LEMMA RulesOnly ==
  ASSUME NEW d \in Document, NEW tag, tag = "cycle" \/ tag = "header", NEW c
  PROVE  <<tag, c>> \in RuleErrors(d) => tag = "header" /\ <<tag, c>> \in HeaderErrors(d)
<1>1. \A r, x : <<tag, c>> = <<r, x>> => r = tag
  OBVIOUS
<1>2. \A r : <<tag, c>> # <<r>>
  OBVIOUS
<1>3. <<tag, c>> \notin BranchErrors(d)
  BY <1>1, <1>2 DEF BranchErrors
<1>4. <<tag, c>> \notin EdgeErrors(d)
  BY <1>1 DEF EdgeErrors
<1>5. \A i : SourceError(d, i) # tag
  BY DEF SourceError
<1>6. <<tag, c>> \notin BackflowErrors(d)
  BY <1>1, <1>5 DEF BackflowErrors
<1>7. <<tag, c>> \notin TemplateErrors(d)
  BY <1>1 DEF TemplateErrors
<1>8. <<tag, c>> \notin NotificationErrors(d)
  BY <1>1 DEF NotificationErrors
<1>9. <<tag, c>> \in HeaderErrors(d) => tag = "header"
  BY <1>1 DEF HeaderErrors
<1> QED
  BY <1>3, <1>4, <1>6, <1>7, <1>8, <1>9 DEF RuleErrors

(* FromConfig resolves to what Default resolves to, and leaves nothing      *)
(* open.                                                                    *)
LEMMA SameGraph ==
  ASSUME NEW d \in Document
  PROVE  /\ FromConfig(Default(d)) = FromConfig(d)
         /\ \A b \in DOMAIN FromConfig(d).branches : FromConfig(d).branches[b].drift # ""
<1> DEFINE D == Default(d)
           branches(e) == [b \in Declared(e) |->
             [role |-> e.branches[b].role,
              drift |-> IF e.branches[b].drift = "" THEN "forbidden" ELSE e.branches[b].drift]]
           strategy(e) == IF e.backflow.strategy = "" THEN "cherry-pick" ELSE e.backflow.strategy
           resolved(e) == [e.backflow EXCEPT
             !.strategy = strategy(e),
             !.method = IF strategy(e) = "merge" /\ @ = "" THEN "merge" ELSE @]
           backflow(e) == IF e.backflow = None THEN None ELSE resolved(e)
<1>1. \A e : FromConfig(e) = [branches |-> branches(e), promotions |-> e.promotions,
                              backflow |-> backflow(e)]
  BY DEF FromConfig
<1>2. branches(D) = branches(d)
  BY DefaultBranches
<1>3. backflow(D) = backflow(d)
  <2>1. CASE d.backflow = None
    BY <2>1, DefaultBackflow
  <2>2. CASE d.backflow # None
    <3>1. PICK a \in Backflow : a = d.backflow
      BY <2>2, DefaultBackflow
    <3>2. PICK b \in Backflow : b = D.backflow
      BY <2>2, DefaultBackflow
    <3>3. /\ b.sources = a.sources /\ b.target = a.target
          /\ b.strategy = IF a.strategy = "" THEN "cherry-pick" ELSE a.strategy
          /\ b.method = IF a.strategy = "merge" /\ a.method = "" THEN "merge" ELSE a.method
      BY <2>2, <3>1, <3>2, DefaultBackflow
    <3> DEFINE s == IF a.strategy = "" THEN "cherry-pick" ELSE a.strategy
               m == IF s = "merge" /\ a.method = "" THEN "merge" ELSE a.method
    <3>4. resolved(d) = [a EXCEPT !.strategy = s, !.method = m]
      BY <3>1 DEF Backflow
    <3>5. strategy(D) = s /\ b.method = m /\ ~(s = "merge" /\ b.method = "")
      BY <3>2, <3>3
    <3>6. resolved(D) = [b EXCEPT !.strategy = s, !.method = m]
      <4>1. resolved(D) = [b EXCEPT !.strategy = s,
                              !.method = IF s = "merge" /\ b.method = "" THEN "merge" ELSE b.method]
        BY <3>2, <3>5 DEF Backflow
      <4> HIDE DEF resolved, s, m
      <4> QED
        BY <3>5, <4>1
    <3>7. resolved(D) = resolved(d)
      <4> HIDE DEF resolved, s, m
      <4>1. ASSUME NEW x \in Backflow, NEW y, y = [x EXCEPT !.strategy = s, !.method = m],
                   s \in {"", "cherry-pick", "merge", "other"}, m \in Methods
            PROVE  /\ y \in Backflow /\ y.sources = x.sources /\ y.target = x.target
                   /\ y.strategy = s /\ y.method = m
        BY <4>1 DEF Backflow
      <4>2. s \in {"", "cherry-pick", "merge", "other"} /\ m \in Methods
        BY DEF s, m, Backflow, Methods
      <4>3. ASSUME NEW y \in Backflow
            PROVE  y = [sources |-> y.sources, target |-> y.target,
                        method |-> y.method, strategy |-> y.strategy]
        BY DEF Backflow
      <4>4. PICK y : y = resolved(d)
        OBVIOUS
      <4>5. PICK z : z = resolved(D)
        OBVIOUS
      <4>6. /\ y \in Backflow /\ y.sources = a.sources /\ y.target = a.target
            /\ y.strategy = s /\ y.method = m
        BY <3>4, <4>1, <4>2, <4>4
      <4>7. /\ z \in Backflow /\ z.sources = b.sources /\ z.target = b.target
            /\ z.strategy = s /\ z.method = m
        BY <3>6, <4>1, <4>2, <4>5
      <4>8. y = z
        BY <3>3, <4>3, <4>6, <4>7
      <4> QED
        BY <4>4, <4>5, <4>8
    <3> QED
      BY <2>2, <3>7, DefaultBackflow
  <2> QED
    BY <2>1, <2>2
<1>4. D.promotions = d.promotions
  BY DefaultRest
<1>5. \A b \in Declared(d) : branches(d)[b].drift # ""
  OBVIOUS
<1>6. DOMAIN branches(d) = Declared(d)
  OBVIOUS
<1> HIDE DEF D, branches, backflow, resolved
<1>7. FromConfig(D) = FromConfig(d) /\ FromConfig(d).branches = branches(d)
  BY <1>1, <1>2, <1>3, <1>4
<1> QED
  BY <1>5, <1>6, <1>7 DEF D

(* Default changes nothing a second time.                                   *)
LEMMA DefaultTwice ==
  ASSUME NEW d \in Document
  PROVE  Default(Default(d)) = Default(d)
<1> DEFINE D == Default(d)
<1>1. D \in Document
  BY DefaultTyped
<1>2. [b \in Names |-> DefaultBranch(D.branches[b])] = D.branches
  <2>1. D.branches = [b \in Names |-> DefaultBranch(d.branches[b])]
    BY DEF Default, Document
  <2>2. ASSUME NEW b \in Names PROVE DefaultBranch(DefaultBranch(d.branches[b])) = DefaultBranch(d.branches[b])
    <3>1. d.branches[b] \in Branch \cup {None}
      BY DEF Document
    <3> QED
      BY <3>1 DEF DefaultBranch, Branch
  <2> HIDE DEF D
  <2> QED
    BY <2>1, <2>2
<1>3. (IF D.backflow = None THEN None ELSE DefaultMethod(DefaultStrategy(D.backflow))) = D.backflow
  <2>1. CASE D.backflow # None
    <3>1. PICK b \in Backflow : b = D.backflow
      BY <1>1, <2>1 DEF Document
    <3>2. b.strategy # "" /\ ~(b.strategy = "merge" /\ b.method = "")
      BY <2>1, <3>1, DefaultBackflow
    <3>3. DefaultStrategy(b) = b /\ DefaultMethod(b) = b
      BY <3>2 DEF DefaultStrategy, DefaultMethod
    <3> QED
      BY <2>1, <3>1, <3>3
  <2> QED
    BY <2>1
<1>4. [i \in DOMAIN D.destinations |-> DefaultDestination(D.destinations[i])] = D.destinations
  <2>1. D.destinations = [i \in DOMAIN d.destinations |-> DefaultDestination(d.destinations[i])]
    BY DEF Default, Document
  <2>2. ASSUME NEW i \in DOMAIN d.destinations, NEW n, n = DefaultDestination(d.destinations[i])
        PROVE  DefaultDestination(n) = n
    <3>1. d.destinations[i] \in Destination
      BY DefaultDestinations
    <3>2. n \in Destination /\ n.enabled # None /\ n.events # None /\ n.kinds # None
      <4>1. <<"request-merged">> \in Seq({"request-created", "request-merged", "other"})
        OBVIOUS
      <4>2. <<"promotion", "backflow">> \in Seq({"promotion", "backflow", "other"})
        OBVIOUS
      <4>3. TRUE \in BOOLEAN
        OBVIOUS
      <4> DEFINE o == d.destinations[i]
      <4> HIDE DEF o
      <4>4. o \in Destination /\ n = DefaultDestination(o)
        BY <2>2, <3>1 DEF o
      <4>5. n \in Destination
        BY <4>4, DefaultDestinationLaw
      <4>6. n.enabled = IF o.enabled = None THEN TRUE ELSE o.enabled
        BY <4>4, DefaultDestinationLaw
      <4>7. n.events = IF o.events = None THEN <<"request-merged">> ELSE o.events
        BY <4>4, DefaultDestinationLaw
      <4>8. n.kinds = IF o.kinds = None THEN <<"promotion", "backflow">> ELSE o.kinds
        BY <4>4, DefaultDestinationLaw
      <4> QED
        BY <4>1, <4>2, <4>3, <4>5, <4>6, <4>7, <4>8, NoneAssumption
    <3>3. DefaultDestination(n) = [n EXCEPT !.enabled = n.enabled, !.events = n.events,
                                            !.kinds = n.kinds]
      BY <3>2 DEF DefaultDestination, Destination
    <3> QED
      BY <3>2, <3>3 DEF Destination
  <2> HIDE DEF D
  <2> QED
    BY <2>1, <2>2
<1>5. /\ (IF D.apiVersion = "" THEN "v1" ELSE D.apiVersion) = D.apiVersion
      /\ (IF D.kind = "" THEN "PromotionGraph" ELSE D.kind) = D.kind
  BY DEF Default, Document
<1>6. Default(D) = [D EXCEPT !.apiVersion = D.apiVersion, !.kind = D.kind,
                             !.branches = D.branches, !.backflow = D.backflow,
                             !.destinations = D.destinations]
  <2>1. Default(D) =
          [D EXCEPT !.apiVersion = IF D.apiVersion = "" THEN "v1" ELSE D.apiVersion,
                    !.kind = IF D.kind = "" THEN "PromotionGraph" ELSE D.kind,
                    !.branches = [b \in Names |-> DefaultBranch(D.branches[b])],
                    !.backflow = IF D.backflow = None THEN None
                                 ELSE DefaultMethod(DefaultStrategy(D.backflow)),
                    !.destinations = [i \in DOMAIN D.destinations |->
                                        DefaultDestination(D.destinations[i])]]
    <3> HIDE DEF D
    <3> QED
      BY <1>1 DEF Default, Document
  <2> HIDE DEF D
  <2> QED
    BY <1>2, <1>3, <1>4, <1>5, <2>1
<1>7. Default(D) = D
  <2> HIDE DEF D
  <2> QED
    BY <1>1, <1>6 DEF Document
<1> QED
  BY <1>7

(* Notifications are on with the defaults exactly if they are without.      *)
LEMMA SameEnabled ==
  ASSUME NEW d \in Document
  PROVE  Enabled(Default(d)) = Enabled(d)
<1> DEFINE On(n) == n.enabled # FALSE /\ n.events # << >> /\ n.kinds # << >>
<1>1. ASSUME NEW n \in Destination PROVE On(DefaultDestination(n)) = On(n)
  <2>1. None # FALSE /\ None # << >>
    <3>1. << >> \in Seq({"request-created", "request-merged", "other"})
      OBVIOUS
    <3> QED
      BY <3>1, NoneAssumption
  <2>2. <<"request-merged">> # << >> /\ <<"promotion", "backflow">> # << >>
    OBVIOUS
  <2>3. (DefaultDestination(n).enabled # FALSE) = (n.enabled # FALSE)
    BY <2>1, DefaultDestinationLaw
  <2>4. (DefaultDestination(n).events # << >>) = (n.events # << >>)
    BY <2>1, <2>2, DefaultDestinationLaw
  <2>5. (DefaultDestination(n).kinds # << >>) = (n.kinds # << >>)
    BY <2>1, <2>2, DefaultDestinationLaw
  <2> QED
    BY <2>3, <2>4, <2>5
<1>2. \A e : Enabled(e) = \E i \in DOMAIN e.destinations : On(e.destinations[i])
  BY DEF Enabled
<1> HIDE DEF On
<1>3. \A i \in DOMAIN d.destinations :
        On(Default(d).destinations[i]) = On(d.destinations[i])
  BY <1>1, DefaultDestinations
<1>4. DOMAIN Default(d).destinations = DOMAIN d.destinations
  BY DefaultDestinations
<1> QED
  BY <1>2, <1>3, <1>4

(* What Report leaves behind, of a document with its defaults or without.   *)
Resolved ==
  /\ seen \in {doc, Default(doc)}
  /\ pc = "end" =>
       /\ errors = RuleErrors(seen) \cup (IF cycle = << >> THEN {} ELSE {<<"cycle", cycle>>})
       /\ graph = FromConfig(seen)

(* No step breaks it.                                                       *)
LEMMA ResolvedStep == Typed /\ Resolved /\ [Next]_vars => Resolved'
<1> SUFFICES ASSUME Typed, Resolved, [Next]_vars PROVE Resolved'
  OBVIOUS
<1>1. CASE Start
  <2>1. doc' = doc /\ pc' = "search" /\ seen' \in {seen, Default(seen)}
    BY <1>1 DEF Start
  <2>2. Default(Default(doc)) = Default(doc)
    BY DefaultTwice DEF Typed
  <2> QED
    BY <2>1, <2>2 DEF Resolved
<1>2. CASE VisitRoot \/ Neighbour \/ Return \/ NoCycle
  <2>1. doc' = doc /\ seen' = seen /\ pc' # "end"
    BY <1>2 DEF VisitRoot, Neighbour, Return, NoCycle
  <2> QED
    BY <2>1 DEF Resolved
<1>3. CASE Report
  BY <1>3 DEF Report, Resolved, search
<1>4. CASE UNCHANGED vars
  BY <1>4 DEF vars, search, Resolved
<1> QED
  BY <1>1, <1>2, <1>3, <1>4 DEF Next, Done

(* For every document the three places that resolve defaults (Default,      *)
(* Validate's rules, engine.FromConfig) agree: Validate finds the same with *)
(* the defaults as without, but for an unset apiVersion and kind, which it  *)
(* refuses without them and only then; the planner's graph is the same and  *)
(* complete; and Default turns no notification on or off and is idempotent. *)
THEOREM DefaultsAgreeHolds == Spec => []DefaultsAgree
<1>1. Init => Resolved
  BY DEF Init, Resolved
<1>2. Typed /\ Resolved => DefaultsAgree
  <2> SUFFICES ASSUME Typed, Resolved, pc = "end" PROVE DefaultsAgree
    BY DEF DefaultsAgree
  <2>1. doc \in Document /\ seen \in {doc, Default(doc)}
    BY DEF Typed, Resolved
  <2>2. /\ HeaderErrors(seen) \cup Unset(doc) = HeaderErrors(doc)
        /\ HeaderErrors(seen) \cap Unset(doc) = Unset(seen)
        /\ Unset(Default(doc)) = {}
    BY <2>1, DefaultHeader
  <2>3. RuleErrors(seen) \cup Unset(doc) = RuleErrors(doc)
    BY <2>1, <2>2, SameBranchErrors, SameEdgeErrors, SameBackflowErrors, SameTemplateErrors,
       SameNotificationErrors DEF RuleErrors
  <2>4. seen \in Document
    BY <2>1, DefaultTyped
  <2>5. <<"cycle", cycle>> \notin RuleErrors(seen) /\ <<"cycle", cycle>> \notin Unset(doc)
    BY <2>1, <2>4, RulesOnly, DefaultHeader
  <2>6. RuleErrors(seen) \cap Unset(doc) = Unset(seen)
    <3>1. ASSUME NEW x \in Unset(doc), x \in RuleErrors(seen) PROVE x \in HeaderErrors(seen)
      <4>1. PICK field : x = <<"header", field>>
        BY <2>1, DefaultHeader
      <4> QED BY <2>4, <3>1, <4>1, RulesOnly
    <3>2. HeaderErrors(seen) \subseteq RuleErrors(seen)
      BY DEF RuleErrors
    <3> QED BY <2>2, <3>1, <3>2
  <2>7. errors \ {<<"cycle", cycle>>} = RuleErrors(seen) /\ errors \cap Unset(doc) = Unset(seen)
    BY <2>5, <2>6 DEF Resolved
  <2>8. graph = FromConfig(doc) /\ graph = FromConfig(Default(doc))
    BY <2>1, SameGraph DEF Resolved
  <2>9. \A b \in DOMAIN graph.branches : graph.branches[b].drift # ""
    BY <2>1, <2>8, SameGraph
  <2>10. Enabled(seen) = Enabled(doc) /\ Default(seen) = Default(doc)
    BY <2>1, SameEnabled, DefaultTwice
  <2> QED
    BY <2>2, <2>3, <2>7, <2>8, <2>9, <2>10 DEF DefaultsAgree
<1>3. Invariant => Typed
  BY DEF Invariant
<1>4. Spec => []Resolved
  <2>1. Spec => []Typed
    BY <1>3, InvariantHolds, PTL
  <2> QED
    BY <1>1, <2>1, ResolvedStep, PTL DEF Spec
<1> QED
  BY <1>2, <1>3, <1>4, InvariantHolds, PTL
=============================================================================
