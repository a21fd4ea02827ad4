-------------------------- MODULE PromotionProofs --------------------------
(***************************************************************************)
(* Proofs about Promotion, for any number of runs, changes, commits, force *)
(* pushes and failures, and for every set of merge methods.                *)
(***************************************************************************)
EXTENDS Promotion, FiniteSetTheorems, WellFoundedInduction, TLAPS

Objects == 1..Len(commits)

(* What a commit reaches exists, and reaching is transitive.                *)
GraphInv ==
  \A n \in Objects :
    /\ n \in Reach(n)
    /\ Reach(n) \subseteq Objects
    /\ \A m \in Reach(n) : Reach(m) \subseteq Reach(n)

(* The heads a request records exist.                                       *)
RequestsInv ==
  \A i \in DOMAIN requests :
    /\ requests[i].baseline \in Objects
    /\ requests[i].state = "merged" => requests[i].merged \in Objects

(* If request i is merged, what head n would make promoted was merged with  *)
(* it or is on the target.                                                  *)
Vouched(n, i) ==
  requests[i].state = "merged" =>
    Reach(n) \cap Reach(source) \subseteq Reach(requests[i].merged) \cup Reach(target)

(* A run in flight knows existing heads and an existing request, and it may *)
(* record its own head in that request at any later time.                   *)
RunInv(r) ==
  run[r].pc # "idle" =>
    /\ run[r].clone \in Clone
    /\ run[r].clone.source \in Objects
    /\ run[r].clone.target \in Objects
    /\ run[r].open # None =>
         /\ run[r].open \in Listed
         /\ run[r].open.id \in DOMAIN requests
         /\ Vouched(run[r].clone.source, run[r].open.id)
    /\ run[r].pc # "apply" => run[r].decision = "none"
    /\ run[r].decision \in {"update", "close"} => run[r].open # None

Invariant ==
  /\ TypeOK /\ GraphInv /\ RequestsInv
  /\ \A r \in Runs : RunInv(r)
  /\ BaselineVouches

-----------------------------------------------------------------------------
(* How a step may change the graph and the forge. *)

(* Objects stay, the source gains only new commits and the target's, and    *)
(* the target loses none.                                                  *)
Advances ==
  /\ commits' \in Seq(Commit)
  /\ GraphInv'
  /\ source' \in Objects' /\ target' \in Objects'
  /\ \A n \in Objects : n \in Objects' /\ commits'[n] = commits[n]
  /\ Reach(source)' \cap Objects \subseteq Reach(source) \cup Reach(target)
  /\ Reach(target) \subseteq Reach(target)'

(* Requests stay, and one becomes merged with the source of that moment.    *)
Kept ==
  /\ requests' \in Seq(Request)
  /\ latest' \in 1..Len(requests') \cup {None}
  /\ \A i \in DOMAIN requests :
       /\ i \in DOMAIN requests'
       /\ requests'[i].state = "merged" =>
            \/ requests[i].state = "merged" /\ requests'[i].merged = requests[i].merged
            \/ requests'[i].merged = source

(* Vouched(n, i) after the step, of the n and i before it.                  *)
StillVouched(n, i) ==
  requests'[i].state = "merged" =>
    commits'[n].reach \cap Reach(source)'
      \subseteq commits'[requests'[i].merged].reach \cup Reach(target)'

(* Such steps keep what a head vouches for.                                 *)
LEMMA VouchedKept ==
  ASSUME TypeOK, GraphInv, RequestsInv, Advances, Kept,
         NEW n \in Objects, NEW i \in DOMAIN requests, Vouched(n, i)
  PROVE  StillVouched(n, i)
<1> SUFFICES ASSUME requests'[i].state = "merged"
             PROVE  Reach(n)' \cap Reach(source)'
                      \subseteq Reach(requests[i].merged)' \cup Reach(target)'
  BY DEF StillVouched, Reach
<1>1. Reach(n)' = Reach(n) /\ Reach(n) \subseteq Objects
  BY DEF Advances, Reach, GraphInv
<1>2. Reach(n)' \cap Reach(source)' \subseteq Reach(n) \cap (Reach(source) \cup Reach(target))
  BY <1>1 DEF Advances
<1>3. CASE requests[i].state = "merged" /\ requests'[i].merged = requests[i].merged
  <2>1. Reach(requests[i].merged)' = Reach(requests[i].merged)
    BY <1>3 DEF RequestsInv, Advances, Reach
  <2>2. Reach(n) \cap Reach(source) \subseteq Reach(requests[i].merged) \cup Reach(target)
    BY <1>3 DEF Vouched
  <2> QED BY <1>2, <2>1, <2>2 DEF Advances
<1>4. CASE requests'[i].merged = source
  <2>1. Reach(requests[i].merged)' = Reach(source)
    BY <1>4 DEF TypeOK, Objects, Advances, Reach
  <2> QED BY <1>2, <2>1 DEF Advances
<1> QED BY <1>3, <1>4 DEF Kept

(* A run that a step leaves alone keeps what it relies on.                   *)
LEMMA OtherRunKept ==
  ASSUME Invariant, Advances, Kept, NEW r \in Runs, run'[r] = run[r]
  PROVE  RunInv(r)'
<1> SUFFICES ASSUME run[r].pc # "idle"
             PROVE  RunInv(r)'
  BY DEF RunInv
<1>1. RunInv(r)
  BY DEF Invariant
<1>2. run[r].open # None => StillVouched(run[r].clone.source, run[r].open.id)
  BY <1>1, VouchedKept DEF Invariant, RunInv
<1>3. \A n \in Objects : n \in Objects'
  BY DEF Advances
<1>4. \A i \in DOMAIN requests : i \in DOMAIN requests'
  BY DEF Kept
<1> QED BY <1>1, <1>2, <1>3, <1>4 DEF RunInv, StillVouched, Vouched, Reach

-----------------------------------------------------------------------------
(* How the graph grows. *)

Closed(R) == R \subseteq Objects /\ \A m \in R : Reach(m) \subseteq R

(* New commits in a row, the first of them on what R reaches.                *)
LEMMA Growing ==
  ASSUME TypeOK, GraphInv, NEW new \in Seq(Commit), NEW R, Closed(R),
         \A k \in 1..Len(new) :
            new[k].reach = R \cup (Len(commits) + 1 .. Len(commits) + k),
         commits' = commits \o new
  PROVE  /\ commits' \in Seq(Commit)
         /\ GraphInv'
         /\ Objects' = 1..(Len(commits) + Len(new))
         /\ \A n \in Objects : n \in Objects' /\ commits'[n] = commits[n]
         /\ \A k \in 1..Len(new) : commits'[Len(commits) + k] = new[k]
<1> DEFINE len == Len(commits)
<1>1. len \in Nat /\ Len(new) \in Nat /\ commits \in Seq(Commit)
  BY DEF TypeOK
<1>2. commits' \in Seq(Commit) /\ Len(commits') = len + Len(new)
  BY <1>1
<1>3. Objects' = 1..(len + Len(new))
  BY <1>2 DEF Objects
<1>4. \A n \in Objects : n \in Objects' /\ commits'[n] = commits[n]
  BY <1>1, <1>3 DEF Objects
<1>5. \A k \in 1..Len(new) : commits'[len + k] = new[k]
  BY <1>1
<1>6. ASSUME NEW n \in Objects'
      PROVE  /\ n \in Reach(n)'
             /\ Reach(n)' \subseteq Objects'
             /\ \A m \in Reach(n)' : Reach(m)' \subseteq Reach(n)'
  <2>1. CASE n \in Objects
    <3>1. Reach(n)' = Reach(n)
      BY <1>4, <2>1 DEF Reach
    <3>2. \A m \in Reach(n) : m \in Objects /\ Reach(m)' = Reach(m)
      BY <1>4, <2>1 DEF Reach, GraphInv
    <3> QED BY <1>4, <2>1, <3>1, <3>2 DEF GraphInv
  <2>2. CASE n \notin Objects
    <3>1. PICK k \in 1..Len(new) : n = len + k
      <4>1. n - len \in 1..Len(new) /\ n = len + (n - len)
        BY <1>1, <1>3, <2>2 DEF Objects
      <4> QED BY <4>1
    <3>2. Reach(n)' = R \cup (len + 1 .. len + k)
      BY <1>5, <3>1 DEF Reach
    <3>3. n \in Reach(n)' /\ Reach(n)' \subseteq Objects'
      BY <1>1, <1>3, <1>4, <3>1, <3>2 DEF Closed
    <3>4. ASSUME NEW m \in R PROVE Reach(m)' \subseteq R
      BY <1>4, <3>4 DEF Closed, Reach
    <3>5. ASSUME NEW m \in len + 1 .. len + k PROVE Reach(m)' \subseteq Reach(n)'
      <4>1. m - len \in 1..Len(new) /\ m = len + (m - len) /\ m - len <= k
        BY <1>1, <3>1, <3>5
      <4>2. Reach(m)' = R \cup (len + 1 .. len + (m - len))
        BY <1>5, <4>1 DEF Reach
      <4>3. len + 1 .. len + (m - len) \subseteq len + 1 .. len + k
        BY <1>1, <3>1, <4>1
      <4> QED BY <3>2, <4>2, <4>3
    <3> QED BY <3>2, <3>3, <3>4, <3>5
  <2> QED BY <2>1, <2>2
<1>7. GraphInv'
  BY <1>6 DEF GraphInv
<1> QED BY <1>2, <1>3, <1>4, <1>5, <1>7

(* One new commit.                                                           *)
LEMMA GrowingByOne ==
  ASSUME TypeOK, GraphInv, NEW c \in Commit, NEW R, Closed(R),
         c.reach = R \cup {NextNumber},
         commits' = Append(commits, c)
  PROVE  /\ commits' \in Seq(Commit)
         /\ GraphInv'
         /\ NextNumber \in Objects' /\ NextNumber \notin Objects
         /\ \A n \in Objects : n \in Objects' /\ commits'[n] = commits[n]
         /\ commits'[NextNumber] = c
<1>1. commits \in Seq(Commit) /\ Len(commits) \in Nat
  BY DEF TypeOK
<1>2. <<c>> \in Seq(Commit) /\ Len(<<c>>) = 1 /\ <<c>>[1] = c
  OBVIOUS
<1>3. commits' = commits \o <<c>>
  BY <1>1
<1>4. \A k \in 1..Len(<<c>>) : <<c>>[k].reach = R \cup (Len(commits) + 1 .. Len(commits) + k)
  <2>1. Len(commits) + 1 .. Len(commits) + 1 = {NextNumber}
    BY <1>1 DEF NextNumber
  <2> QED BY <1>2, <2>1
<1>5. /\ commits' \in Seq(Commit)
      /\ GraphInv'
      /\ Objects' = 1..(Len(commits) + Len(<<c>>))
      /\ \A n \in Objects : n \in Objects' /\ commits'[n] = commits[n]
      /\ \A k \in 1..Len(<<c>>) : commits'[Len(commits) + k] = <<c>>[k]
  BY <1>2, <1>3, <1>4, Growing
<1> QED BY <1>1, <1>2, <1>5 DEF NextNumber, Objects

(* A commit on the source, with or without the target merged in.            *)
LEMMA SourceAdvances ==
  ASSUME TypeOK, GraphInv, NEW c \in Commit, NEW R, Closed(R),
         R \subseteq Reach(source) \cup Reach(target),
         c.reach = R \cup {NextNumber},
         commits' = Append(commits, c), source' = NextNumber, target' = target
  PROVE  Advances
<1>1. /\ commits' \in Seq(Commit)
      /\ GraphInv'
      /\ NextNumber \in Objects' /\ NextNumber \notin Objects
      /\ \A n \in Objects : n \in Objects' /\ commits'[n] = commits[n]
      /\ commits'[NextNumber] = c
  BY GrowingByOne
<1>2. Reach(source)' = R \cup {NextNumber}
  BY <1>1 DEF Reach
<1>3. target \in Objects
  BY DEF TypeOK, Objects
<1>4. Reach(target)' = Reach(target)
  BY <1>1, <1>3 DEF Reach
<1> QED BY <1>1, <1>2, <1>3, <1>4 DEF Advances

(* A commit on the target, with or without the source merged in.            *)
LEMMA TargetAdvances ==
  ASSUME TypeOK, GraphInv, NEW c \in Commit, NEW R, Closed(R),
         Reach(target) \subseteq R,
         c.reach = R \cup {NextNumber},
         commits' = Append(commits, c), target' = NextNumber, source' = source
  PROVE  Advances
<1>1. /\ commits' \in Seq(Commit)
      /\ GraphInv'
      /\ NextNumber \in Objects' /\ NextNumber \notin Objects
      /\ \A n \in Objects : n \in Objects' /\ commits'[n] = commits[n]
      /\ commits'[NextNumber] = c
  BY GrowingByOne
<1>2. Reach(target)' = R \cup {NextNumber}
  BY <1>1 DEF Reach
<1>3. source \in Objects
  BY DEF TypeOK, Objects
<1>4. Reach(source)' = Reach(source)
  BY <1>1, <1>3 DEF Reach
<1> QED BY <1>1, <1>2, <1>3, <1>4 DEF Advances

(* The shapes of new commits.                                               *)
LEMMA ReachClosed ==
  ASSUME GraphInv, NEW a \in Objects, NEW b \in Objects
  PROVE  Closed(Reach(a)) /\ Closed(Reach(a) \cup Reach(b))
BY DEF GraphInv, Closed

LEMMA CommitsTyped ==
  ASSUME TypeOK, GraphInv, NEW a \in Objects, NEW b \in Objects, NEW tree \in SUBSET Changes
  PROVE  Child(a, tree) \in Commit /\ MergeOf(a, b, tree) \in Commit
<1>1. Len(commits) \in Nat /\ NextNumber \in Nat
  BY DEF TypeOK, NextNumber
<1>2. Objects \subseteq Nat
  BY <1>1 DEF Objects
<1>3. Reach(a) \cup {NextNumber} \subseteq Nat
  BY <1>1, <1>2 DEF GraphInv
<1>4. Reach(a) \cup Reach(b) \cup {NextNumber} \subseteq Nat
  BY <1>1, <1>2 DEF GraphInv
<1>5. <<a>> \in Seq(Nat) /\ <<a, b>> \in Seq(Nat)
  BY <1>2
<1> QED BY <1>3, <1>4, <1>5 DEF Child, MergeOf, Commit

LEMMA TreesTyped ==
  ASSUME TypeOK, NEW a \in Objects, NEW b \in Objects
  PROVE  Tree(a) \subseteq Changes /\ MergedTree(a, b) \subseteq Changes
<1>1. Tree(a) \subseteq Changes /\ Tree(b) \subseteq Changes
  <2>1. commits[a] \in Commit /\ commits[b] \in Commit
    BY DEF TypeOK, Objects
  <2> QED BY <2>1 DEF Tree, Commit
<1> QED BY <1>1 DEF MergedTree

(* What a step leaves alone.                                                *)
LEMMA StillAdvances ==
  ASSUME TypeOK, GraphInv, UNCHANGED branches
  PROVE  Advances
<1>1. GraphInv'
  BY DEF GraphInv, branches, Objects, Reach
<1> QED BY <1>1 DEF TypeOK, Advances, branches, Objects, Reach

LEMMA StillKept ==
  ASSUME TypeOK, UNCHANGED forge
  PROVE  Kept
BY DEF TypeOK, Kept, forge

-----------------------------------------------------------------------------
(* Steps of people. *)

(* A step that advances the branches, keeps the requests with the heads     *)
(* they record and touches no run preserves the invariant.                 *)
LEMMA PeopleKeep ==
  ASSUME Invariant, Advances, Kept, DOMAIN requests' = DOMAIN requests,
         \A i \in DOMAIN requests : requests'[i].baseline = requests[i].baseline,
         UNCHANGED run,
         retracted' \subseteq Changes, hotfixed' \subseteq Changes,
         relands' \in Nat, rewrites' \in Nat, faults' \in Nat
  PROVE  Invariant'
<1>1. TypeOK'
  BY DEF Invariant, TypeOK, Advances, Kept, Objects
<1>2. \A n \in Objects : n \in Objects'
  BY DEF Advances
<1>3. RequestsInv'
  <2> SUFFICES ASSUME NEW i \in DOMAIN requests
               PROVE  /\ requests'[i].baseline \in Objects'
                      /\ requests'[i].state = "merged" => requests'[i].merged \in Objects'
    BY DEF RequestsInv
  <2>1. source \in Objects
    BY DEF Invariant, TypeOK, Objects
  <2> QED BY <1>2, <2>1 DEF Invariant, RequestsInv, Kept
<1>4. ASSUME NEW r \in Runs PROVE RunInv(r)'
  BY OtherRunKept
<1>5. BaselineVouches'
  <2> SUFFICES ASSUME NEW i \in DOMAIN requests, requests'[i].state = "merged"
               PROVE  Reach(requests[i].baseline)' \cap Reach(source)'
                        \subseteq Reach(requests[i].merged)' \cup Reach(target)'
    BY DEF BaselineVouches
  <2>1. requests[i].baseline \in Objects /\ Vouched(requests[i].baseline, i)
    BY DEF Invariant, RequestsInv, BaselineVouches, Vouched
  <2>2. StillVouched(requests[i].baseline, i)
    BY <2>1, VouchedKept DEF Invariant
  <2> QED BY <2>2 DEF StillVouched, Reach
<1> QED BY <1>1, <1>3, <1>4, <1>5 DEF Invariant, Advances

(* The count of changes that came back stays a count.                       *)
LEMMA RelandsTyped ==
  ASSUME TypeOK, NEW tree, SourceBecomes(tree)
  PROVE  relands' \in Nat
BY DEF TypeOK, SourceBecomes

LEMMA CommitToSourceKeeps ==
  ASSUME Invariant, NEW tree \in SUBSET Changes, CommitToSource(tree)
  PROVE  Invariant'
<1> USE DEF Invariant
<1>1. source \in Objects
  BY DEF TypeOK, Objects
<1>2. Child(source, tree) \in Commit
  BY <1>1, CommitsTyped
<1>3. Child(source, tree).reach = Reach(source) \cup {NextNumber}
  BY DEF Child
<1>4. Advances
  BY <1>1, <1>2, <1>3, ReachClosed, SourceAdvances DEF CommitToSource
<1>5. Kept /\ UNCHANGED forge
  BY StillKept DEF CommitToSource
<1>6. relands' \in Nat /\ UNCHANGED <<run, retracted, hotfixed, rewrites, faults>>
  BY RelandsTyped DEF CommitToSource, history
<1> QED BY <1>4, <1>5, <1>6, PeopleKeep DEF forge, TypeOK

LEMMA BackMergeKeeps ==
  ASSUME Invariant, BackMerge
  PROVE  Invariant'
<1> USE DEF Invariant
<1> DEFINE tree == MergedTree(source, target)
           c == MergeOf(source, target, tree)
<1>1. source \in Objects /\ target \in Objects
  BY DEF TypeOK, Objects
<1>2. c \in Commit
  BY <1>1, CommitsTyped, TreesTyped
<1>3. c.reach = Reach(source) \cup Reach(target) \cup {NextNumber}
  BY DEF MergeOf
<1>4. commits' = Append(commits, c) /\ source' = NextNumber /\ target' = target
  BY DEF BackMerge
<1>5. Closed(Reach(source) \cup Reach(target))
  BY <1>1, ReachClosed
<1>6. Advances
  <2> HIDE DEF c
  <2> QED BY <1>2, <1>3, <1>4, <1>5, SourceAdvances
<1>7. Kept /\ UNCHANGED forge
  BY StillKept DEF BackMerge
<1>8. relands' \in Nat /\ UNCHANGED <<run, retracted, hotfixed, rewrites, faults>>
  BY RelandsTyped DEF BackMerge, history
<1> QED BY <1>6, <1>7, <1>8, PeopleKeep DEF forge, TypeOK

LEMMA RewriteSourceKeeps ==
  ASSUME Invariant, NEW n \in Reach(source), RewriteSource(n)
  PROVE  Invariant'
<1> USE DEF Invariant
<1>1. source \in Objects /\ target \in Objects
  BY DEF TypeOK, Objects
<1>2. n \in Objects /\ Reach(n) \subseteq Reach(source)
  BY <1>1 DEF GraphInv
<1>3. Advances
  <2>1. UNCHANGED <<commits, target>> /\ source' = n
    BY DEF RewriteSource
  <2>2. GraphInv'
    BY <2>1 DEF GraphInv, Objects, Reach
  <2>3. Reach(source)' = Reach(n) /\ Reach(target)' = Reach(target) /\ Objects' = Objects
    BY <2>1 DEF Reach, Objects
  <2> QED BY <1>1, <1>2, <2>1, <2>2, <2>3 DEF Advances, TypeOK
<1>4. Kept /\ UNCHANGED forge
  BY StillKept DEF RewriteSource
<1>5. relands' \in Nat /\ rewrites' \in Nat /\ UNCHANGED <<run, retracted, hotfixed, faults>>
  BY RelandsTyped DEF RewriteSource, history, TypeOK
<1> QED BY <1>3, <1>4, <1>5, PeopleKeep DEF forge, TypeOK

(* A plain commit on the target.                                            *)
LEMMA CommitToTarget ==
  ASSUME Invariant, NEW tree \in SUBSET Changes,
         commits' = Append(commits, Child(target, tree)),
         target' = NextNumber, source' = source
  PROVE  Advances
<1> USE DEF Invariant
<1>1. target \in Objects
  BY DEF TypeOK, Objects
<1>2. Child(target, tree) \in Commit
  BY <1>1, CommitsTyped
<1>3. Child(target, tree).reach = Reach(target) \cup {NextNumber}
  BY DEF Child
<1> QED BY <1>1, <1>2, <1>3, ReachClosed, TargetAdvances

(* A merge of the source on the target.                                     *)
LEMMA MergeToTarget ==
  ASSUME Invariant, NEW tree \in SUBSET Changes,
         commits' = Append(commits, MergeOf(target, source, tree)),
         target' = NextNumber, source' = source
  PROVE  Advances
<1> USE DEF Invariant
<1> DEFINE c == MergeOf(target, source, tree)
<1>1. target \in Objects /\ source \in Objects
  BY DEF TypeOK, Objects
<1>2. c \in Commit
  BY <1>1, CommitsTyped
<1>3. c.reach = Reach(target) \cup Reach(source) \cup {NextNumber}
  BY DEF MergeOf
<1>4. Closed(Reach(target) \cup Reach(source))
  BY <1>1, ReachClosed
<1> QED
  <2> HIDE DEF c
  <2>1. commits' = Append(commits, c)
    BY DEF c
  <2> QED BY <1>2, <1>3, <1>4, <2>1, TargetAdvances

LEMMA RebaseAdvances ==
  ASSUME Invariant, Rebase, UniqueCommits(target, source) # {}, source' = source
  PROVE  Advances
<1> USE DEF Invariant
<1> DEFINE todo == UniqueCommits(target, source)
           count == Cardinality(todo)
           First(k) == {n \in todo : Cardinality({m \in todo : m <= n}) <= k}
           replay == [k \in 1..count |->
             [parents |-> <<IF k = 1 THEN target ELSE Len(commits) + k - 1>>,
              tree |-> Replayed(First(k)),
              reach |-> Reach(target) \cup Len(commits) + 1 .. Len(commits) + k]]
<1>1. /\ Len(commits) \in Nat /\ commits \in Seq(Commit)
      /\ target \in Objects /\ source \in Objects
  BY DEF TypeOK, Objects
<1>2. commits' = commits \o replay /\ target' = Len(commits) + count
  BY DEF Rebase
<1>3. count \in Nat /\ count > 0
  <2>1. todo \subseteq Objects
    BY <1>1 DEF GraphInv, UniqueCommits
  <2>2. IsFiniteSet(Objects)
    BY <1>1, FS_Interval DEF Objects
  <2>3. IsFiniteSet(todo)
    BY <2>1, <2>2, FS_Subset
  <2>4. todo # {}
    OBVIOUS
  <2> HIDE DEF todo
  <2>5. count \in Nat /\ count # 0
    BY <2>3, <2>4, FS_CardinalityType, FS_EmptySet
  <2> QED BY <2>5
<1>4. Reach(target) \subseteq Nat
  BY <1>1 DEF GraphInv, Objects
<1>5. ASSUME NEW k \in 1..count
      PROVE  replay[k] \in Commit /\ replay[k].reach = Reach(target) \cup (Len(commits) + 1 .. Len(commits) + k)
  <2> HIDE DEF count
  <2>1. (IF k = 1 THEN target ELSE Len(commits) + k - 1) \in Nat
    BY <1>1, <1>3, <1>5 DEF Objects
  <2>2. <<IF k = 1 THEN target ELSE Len(commits) + k - 1>> \in Seq(Nat)
    BY <2>1
  <2>3. Replayed(First(k)) \subseteq Changes
    BY DEF Replayed
  <2>4. Reach(target) \cup (Len(commits) + 1 .. Len(commits) + k) \subseteq Nat
    BY <1>1, <1>3, <1>4, <1>5
  <2> HIDE DEF First
  <2> QED BY <2>2, <2>3, <2>4 DEF Commit
<1>6. replay \in Seq(Commit) /\ Len(replay) = count
  <2> HIDE DEF count, First
  <2>1. replay \in [1..count -> Commit]
    <3>1. replay = [k \in 1..count |-> replay[k]]
      OBVIOUS
    <3> HIDE DEF replay
    <3> QED BY <1>5, <3>1
  <2> HIDE DEF replay
  <2> QED BY <1>3, <2>1
<1>7. Closed(Reach(target))
  BY <1>1, ReachClosed
<1> HIDE DEF replay, count, todo
<1>8. /\ commits' \in Seq(Commit)
      /\ GraphInv'
      /\ Objects' = 1..(Len(commits) + count)
      /\ \A n \in Objects : n \in Objects' /\ commits'[n] = commits[n]
      /\ \A k \in 1..count : commits'[Len(commits) + k] = replay[k]
  BY <1>2, <1>5, <1>6, <1>7, Growing
<1>9. target' \in Objects' /\ source' \in Objects'
  BY <1>1, <1>2, <1>3, <1>8
<1>10. Reach(target) \subseteq Reach(target)'
  <2>1. count \in 1..count
    BY <1>3
  <2>2. Reach(target)' = replay[count].reach
    BY <1>2, <1>8, <2>1 DEF Reach
  <2> QED BY <1>5, <2>1, <2>2
<1>11. Reach(source)' = Reach(source)
  BY <1>1, <1>8 DEF Reach
<1> QED BY <1>8, <1>9, <1>10, <1>11 DEF Advances

(* The forge records a merge.                                               *)
LEMMA MergedKept ==
  ASSUME TypeOK, NEW i \in DOMAIN requests, NEW method \in MergeMethods, Merged(i, method)
  PROVE  /\ Kept
         /\ DOMAIN requests' = DOMAIN requests
         /\ \A j \in DOMAIN requests : requests'[j].baseline = requests[j].baseline
<1> DEFINE new == [requests[i] EXCEPT !.state = "merged", !.merged = source, !.method = method]
<1>1. requests[i] \in Request /\ source \in Nat
  BY DEF TypeOK
<1>2. /\ new \in Request
      /\ new.baseline = requests[i].baseline /\ new.merged = source
  BY <1>1 DEF Request
<1>3. requests' = [requests EXCEPT ![i] = new] /\ latest' = i
  BY DEF Merged
<1> HIDE DEF new
<1>4. requests' \in Seq(Request) /\ DOMAIN requests' = DOMAIN requests /\ Len(requests') = Len(requests)
  BY <1>2, <1>3 DEF TypeOK
<1>5. i \in 1..Len(requests)
  BY DEF TypeOK
<1>6. \A j \in DOMAIN requests : requests'[j] = IF j = i THEN new ELSE requests[j]
  BY <1>3
<1> QED BY <1>2, <1>3, <1>4, <1>5, <1>6 DEF Kept

LEMMA MergeRequestKeeps ==
  ASSUME Invariant, NEW i \in DOMAIN requests, MergeRequest(i)
  PROVE  Invariant'
<1> USE DEF Invariant
<1>1. source \in Objects /\ target \in Objects
  BY DEF TypeOK, Objects
<1>2. source' = source /\ UNCHANGED <<run, history, counters>>
  BY DEF MergeRequest
<1>3. MergedTree(target, source) \subseteq Changes
  BY <1>1, TreesTyped
<1>4. Advances
  <2>1. CASE MergeCommit
    BY <1>2, <1>3, <2>1, MergeToTarget DEF MergeCommit
  <2>2. CASE Squash
    BY <1>2, <1>3, <2>2, CommitToTarget DEF Squash
  <2>3. CASE Rebase
    BY <1>2, <2>3, RebaseAdvances DEF MergeRequest
  <2> QED BY <2>1, <2>2, <2>3 DEF MergeRequest
<1>5. PICK method \in MergeMethods : Merged(i, method)
  BY DEF MergeRequest, MergeMethods
<1> QED BY <1>2, <1>4, <1>5, MergedKept, PeopleKeep DEF history, counters, TypeOK

LEMMA HotfixKeeps ==
  ASSUME Invariant, NEW x \in Changes, Hotfix(x)
  PROVE  Invariant'
<1> USE DEF Invariant
<1>1. target \in Objects
  BY DEF TypeOK, Objects
<1>2. Tree(target) \cup {x} \subseteq Changes
  BY <1>1, TreesTyped
<1>3. Advances
  BY <1>2, CommitToTarget DEF Hotfix
<1>4. Kept /\ UNCHANGED <<forge, run, retracted, counters>> /\ hotfixed' \subseteq Changes
  BY StillKept DEF Hotfix, TypeOK
<1> QED BY <1>3, <1>4, PeopleKeep DEF forge, counters, TypeOK

LEMMA RevertOnTargetKeeps ==
  ASSUME Invariant, NEW x \in Changes, RevertOnTarget(x)
  PROVE  Invariant'
<1> USE DEF Invariant
<1>1. target \in Objects
  BY DEF TypeOK, Objects
<1>2. Tree(target) \ {x} \subseteq Changes
  BY <1>1, TreesTyped
<1>3. Advances
  BY <1>2, CommitToTarget DEF RevertOnTarget
<1>4. Kept /\ UNCHANGED <<forge, run, hotfixed, counters>> /\ retracted' \subseteq Changes
  BY StillKept DEF RevertOnTarget, TypeOK
<1> QED BY <1>3, <1>4, PeopleKeep DEF forge, counters, TypeOK

LEMMA ManualMergeKeeps ==
  ASSUME Invariant, NEW x \in Changes, ManualMerge(x)
  PROVE  Invariant'
<1> USE DEF Invariant
<1>1. source \in Objects /\ target \in Objects
  BY DEF TypeOK, Objects
<1>2. MergedTree(target, source) \cup {x} \subseteq Changes
  BY <1>1, TreesTyped
<1>3. Advances
  BY <1>2, MergeToTarget DEF ManualMerge
<1>4. /\ Kept /\ DOMAIN requests' = DOMAIN requests
      /\ \A j \in DOMAIN requests : requests'[j].baseline = requests[j].baseline
  <2>1. CASE OpenIds = {}
    BY <2>1, StillKept DEF ManualMerge, forge
  <2>2. CASE OpenIds # {}
    <3>1. PICK i \in OpenIds : Merged(i, "merge")
      BY <2>2 DEF ManualMerge
    <3>2. i \in DOMAIN requests /\ "merge" \in MergeMethods
      BY DEF OpenIds, MergeMethods
    <3> QED BY <3>1, <3>2, MergedKept
  <2> QED BY <2>1, <2>2
<1>5. UNCHANGED <<run, retracted, counters>> /\ hotfixed' \subseteq Changes
  BY DEF ManualMerge, TypeOK
<1> QED BY <1>3, <1>4, <1>5, PeopleKeep DEF counters, TypeOK

(* Closing an open request, or writing to a merged one.                     *)
Closing(i) ==
  /\ requests' = [requests EXCEPT ![i].state = IF @ = "open" THEN "closed" ELSE @]
  /\ latest' = Touched(i)

LEMMA ClosingKept ==
  ASSUME TypeOK, NEW i \in DOMAIN requests, Closing(i)
  PROVE  /\ Kept
         /\ DOMAIN requests' = DOMAIN requests
         /\ \A j \in DOMAIN requests : requests'[j].baseline = requests[j].baseline
<1> DEFINE state == IF requests[i].state = "open" THEN "closed" ELSE requests[i].state
           new == [requests[i] EXCEPT !.state = state]
<1>1. requests[i] \in Request
  BY DEF TypeOK
<1>2. new \in Request /\ new.baseline = requests[i].baseline /\ new.merged = requests[i].merged
  BY <1>1 DEF Request
<1>3. new.state = "merged" => requests[i].state = "merged"
  BY <1>1 DEF Request
<1>4. requests' = [requests EXCEPT ![i] = new] /\ latest' = Touched(i)
  BY DEF Closing
<1> HIDE DEF new
<1>5. requests' \in Seq(Request) /\ DOMAIN requests' = DOMAIN requests /\ Len(requests') = Len(requests)
  BY <1>2, <1>4 DEF TypeOK
<1>6. latest' \in 1..Len(requests') \cup {None}
  BY <1>4, <1>5 DEF TypeOK, Touched
<1>7. \A j \in DOMAIN requests : requests'[j] = IF j = i THEN new ELSE requests[j]
  BY <1>4
<1> QED BY <1>2, <1>3, <1>5, <1>6, <1>7 DEF Kept

LEMMA HandleKeeps ==
  ASSUME Invariant, NEW i \in DOMAIN requests, Handle(i)
  PROVE  Invariant'
<1> USE DEF Invariant
<1>1. Advances
  BY StillAdvances DEF Handle
<1>2. /\ Kept /\ DOMAIN requests' = DOMAIN requests
      /\ \A j \in DOMAIN requests : requests'[j].baseline = requests[j].baseline
  BY ClosingKept DEF Handle, Closing
<1>3. UNCHANGED <<run, history, relands, rewrites>> /\ faults' \in Nat
  BY DEF Handle, TypeOK
<1> QED BY <1>1, <1>2, <1>3, PeopleKeep DEF history, TypeOK

-----------------------------------------------------------------------------
(* Steps of runs. *)

(* What a step of run r has to show.                                        *)
LEMMA OwnStepKeeps ==
  ASSUME Invariant, NEW r \in Runs, NEW next \in Run, Local(r, next),
         UNCHANGED <<branches, history, relands, rewrites>>, faults' \in Nat,
         Kept, RequestsInv', RunInv(r)', BaselineVouches'
  PROVE  Invariant'
<1>1. Advances
  BY StillAdvances DEF Invariant
<1>2. TypeOK'
  BY DEF Invariant, TypeOK, Kept, Local, branches, history
<1>3. ASSUME NEW s \in Runs PROVE RunInv(s)'
  <2>1. CASE s = r
    BY <2>1
  <2>2. CASE s # r
    <3>1. run'[s] = run[s]
      BY <2>2 DEF Local, Invariant, TypeOK
    <3> QED BY <1>1, <3>1, OtherRunKept
  <2> QED BY <2>1, <2>2
<1> QED BY <1>1, <1>2, <1>3 DEF Invariant, Advances

(* A step that only moves the run on.                                       *)
LEMMA ReadingKeeps ==
  ASSUME Invariant, NEW r \in Runs, NEW next \in Run, Local(r, next),
         UNCHANGED <<branches, forge, history, relands, rewrites>>, faults' \in Nat,
         RunInv(r)'
  PROVE  Invariant'
<1>1. Kept
  BY StillKept DEF Invariant
<1>2. RequestsInv'
  BY DEF Invariant, RequestsInv, branches, forge, Objects
<1>3. BaselineVouches'
  BY DEF Invariant, BaselineVouches, branches, forge, Reach
<1> QED BY <1>1, <1>2, <1>3, OwnStepKeeps

LEMMA IdleIsFine ==
  ASSUME Invariant, NEW r \in Runs, Local(r, Idle)
  PROVE  Idle \in Run /\ RunInv(r)'
<1>1. Idle \in Run
  BY DEF Idle, Run, Decisions
<1>2. run'[r] = Idle
  BY DEF Local, Invariant, TypeOK
<1> QED BY <1>1, <1>2 DEF RunInv, Idle

LEMMA CheckoutKeeps ==
  ASSUME Invariant, NEW r \in Runs, Checkout(r)
  PROVE  Invariant'
<1> DEFINE clone == [source |-> source, target |-> target]
           next == [Idle EXCEPT !.pc = "open", !.clone = clone]
<1>1. source \in Objects /\ target \in Objects /\ Objects \subseteq Nat
  BY DEF Invariant, TypeOK, Objects
<1>2. clone \in Clone
  BY <1>1 DEF Clone
<1>3. /\ next \in Run
      /\ next.clone = clone /\ next.open = None /\ next.decision = "none"
  BY <1>2 DEF Idle, Run, Decisions
<1>4. Local(r, next) /\ UNCHANGED <<branches, forge, history, counters>>
  BY DEF Checkout
<1> HIDE DEF next
<1>5. run'[r] = next
  BY <1>4 DEF Local, Invariant, TypeOK
<1>6. RunInv(r)'
  BY <1>1, <1>2, <1>3, <1>4, <1>5 DEF RunInv, branches, Objects
<1>7. UNCHANGED <<relands, rewrites>> /\ faults' \in Nat
  BY <1>4 DEF counters, Invariant, TypeOK
<1> QED BY <1>3, <1>4, <1>6, <1>7, ReadingKeeps

(* A listed open request is an open request.                                *)
LEMMA OpenRequestTyped ==
  ASSUME TypeOK, RequestsInv, OpenRequest # None
  PROVE  /\ OpenRequest \in Listed
         /\ OpenRequest.id \in DOMAIN requests
         /\ requests[OpenRequest.id].state = "open"
<1> DEFINE i == CHOOSE i \in OpenIds : TRUE
<1>1. OpenIds # {} /\ OpenRequest = [id |-> i, baseline |-> requests[i].baseline]
  BY DEF OpenRequest
<1>2. i \in OpenIds
  BY <1>1
<1> HIDE DEF i
<1>3. i \in DOMAIN requests /\ requests[i].state = "open" /\ requests[i] \in Request /\ i \in Nat
  BY <1>2 DEF OpenIds, TypeOK
<1> QED BY <1>1, <1>3 DEF Listed, Request

LEMMA ListOpenKeeps ==
  ASSUME Invariant, NEW r \in Runs, ListOpen(r)
  PROVE  Invariant'
<1> DEFINE next == [run[r] EXCEPT !.pc = "merged", !.open = OpenRequest]
<1>1. run[r] \in Run /\ RunInv(r) /\ run[r].pc = "open"
  BY DEF Invariant, TypeOK, ListOpen
<1>2. OpenRequest # None =>
        /\ OpenRequest \in Listed
        /\ OpenRequest.id \in DOMAIN requests
        /\ requests[OpenRequest.id].state = "open"
  BY OpenRequestTyped DEF Invariant
<1>3. /\ next \in Run
      /\ next.clone = run[r].clone /\ next.open = OpenRequest
      /\ next.decision = run[r].decision
  BY <1>1, <1>2 DEF Run
<1>4. Local(r, next) /\ UNCHANGED <<branches, forge, history, counters>>
  BY DEF ListOpen
<1>5. run[r].decision = "none" /\ run[r].clone \in Clone
      /\ run[r].clone.source \in Objects /\ run[r].clone.target \in Objects
  BY <1>1 DEF RunInv
<1> HIDE DEF next
<1>6. run'[r] = next
  BY <1>4 DEF Local, Invariant, TypeOK
<1>7. RunInv(r)'
  BY <1>2, <1>3, <1>4, <1>5, <1>6 DEF RunInv, Vouched, branches, forge, Objects
<1>8. UNCHANGED <<relands, rewrites>> /\ faults' \in Nat
  BY <1>4 DEF counters, Invariant, TypeOK
<1> QED BY <1>3, <1>4, <1>7, <1>8, ReadingKeeps

LEMMA ListMergedKeeps ==
  ASSUME Invariant, NEW r \in Runs, ListMerged(r)
  PROVE  Invariant'
<1> DEFINE clone == run[r].clone
           decision == Planned(Unpromoted(clone, MergedBaseline), run[r].open, clone.source)
           next == [run[r] EXCEPT !.pc = "apply", !.decision = decision]
<1>1. run[r] \in Run /\ RunInv(r) /\ run[r].pc = "merged"
  BY DEF Invariant, TypeOK, ListMerged
<1>2. UNCHANGED <<branches, forge, history, counters>>
  BY DEF ListMerged
<1>3. decision \in Decisions /\ (decision \in {"update", "close"} => run[r].open # None)
  BY DEF Planned, Decisions
<1>4. UNCHANGED <<relands, rewrites>> /\ faults' \in Nat
  BY <1>2 DEF counters, Invariant, TypeOK
<1>5. CASE decision = "none"
  <2>1. Local(r, Idle)
    BY <1>5 DEF ListMerged
  <2> QED BY <1>2, <1>4, <2>1, IdleIsFine, ReadingKeeps
<1>6. CASE decision # "none"
  <2>1. Local(r, next)
    BY <1>6 DEF ListMerged
  <2> HIDE DEF decision
  <2>2. /\ next \in Run
        /\ next.clone = run[r].clone /\ next.open = run[r].open
        /\ next.pc = "apply" /\ next.decision = decision
    BY <1>1, <1>3 DEF Run
  <2> HIDE DEF next
  <2>3. run'[r] = next
    BY <2>1 DEF Local, Invariant, TypeOK
  <2>4. RunInv(r)'
    BY <1>1, <1>2, <1>3, <2>2, <2>3 DEF RunInv, Vouched, branches, forge, Objects, Reach
  <2> QED BY <1>2, <1>4, <2>1, <2>2, <2>4, ReadingKeeps
<1> QED BY <1>5, <1>6

(* A new request vouches for nothing before it is merged.                   *)
LEMMA CreateRequestKeeps ==
  ASSUME Invariant, NEW r \in Runs, CreateRequest(r)
  PROVE  Invariant'
<1> DEFINE new == [state |-> "open", baseline |-> LiveHead(r), merged |-> 0, method |-> "none"]
<1>1. Local(r, Idle) /\ UNCHANGED <<branches, latest, history, counters>>
  BY DEF CreateRequest
<1>2. LiveHead(r) \in Objects /\ Objects \subseteq Nat
  BY DEF Invariant, RunInv, CreateRequest, Applies, LiveHead, TypeOK, Objects
<1>3. new \in Request /\ new.state = "open" /\ new.baseline = LiveHead(r)
  BY <1>2 DEF Request
<1>4. requests' = requests \/ requests' = Append(requests, new)
  BY DEF CreateRequest
<1> HIDE DEF new
<1>5. /\ requests' \in Seq(Request)
      /\ Len(requests') >= Len(requests)
      /\ \A i \in DOMAIN requests : i \in DOMAIN requests' /\ requests'[i] = requests[i]
      /\ \A i \in DOMAIN requests' : i \notin DOMAIN requests => requests'[i] = new
  <2>1. requests \in Seq(Request) /\ Len(requests) \in Nat
    BY DEF Invariant, TypeOK
  <2>2. CASE requests' = requests
    BY <2>1, <2>2
  <2>3. CASE requests' = Append(requests, new)
    <3>1. requests' \in Seq(Request) /\ Len(requests') = Len(requests) + 1
      BY <1>3, <2>1, <2>3
    <3>2. \A i \in 1..Len(requests) : requests'[i] = requests[i]
      BY <2>1, <2>3
    <3>3. requests'[Len(requests) + 1] = new
      BY <2>1, <2>3
    <3>4. DOMAIN requests = 1..Len(requests) /\ DOMAIN requests' = 1..(Len(requests) + 1)
      BY <2>1, <3>1
    <3> QED BY <2>1, <3>1, <3>2, <3>3, <3>4
  <2> QED BY <1>4, <2>2, <2>3
<1>6. latest' \in 1..Len(requests') \cup {None}
  BY <1>1, <1>5 DEF Invariant, TypeOK
<1>7. Kept
  BY <1>5, <1>6 DEF Kept
<1>8. RequestsInv' /\ BaselineVouches'
  <2>1. UNCHANGED <<commits, source, target>>
    BY <1>1 DEF branches
  <2>2. RequestsInv'
    BY <1>2, <1>3, <1>5, <2>1 DEF Invariant, RequestsInv, Objects
  <2>3. BaselineVouches'
    BY <1>3, <1>5, <2>1 DEF Invariant, BaselineVouches, Reach
  <2> QED BY <2>2, <2>3
<1>9. UNCHANGED <<relands, rewrites>> /\ faults' \in Nat
  BY <1>1 DEF counters, Invariant, TypeOK
<1> QED BY <1>1, <1>7, <1>8, <1>9, IdleIsFine, OwnStepKeeps

(* The run's own head is vouched for, also by a request merged meanwhile.   *)
LEMMA UpdateRequestKeeps ==
  ASSUME Invariant, NEW r \in Runs, UpdateRequest(r)
  PROVE  Invariant'
<1> DEFINE i == run[r].open.id
           new == [requests[i] EXCEPT !.baseline = LiveHead(r)]
<1>1. Local(r, Idle) /\ UNCHANGED <<branches, history, counters>>
  BY DEF UpdateRequest
<1>2. i \in DOMAIN requests /\ LiveHead(r) \in Objects /\ Vouched(LiveHead(r), i)
  <2>1. RunInv(r) /\ run[r].pc = "apply" /\ run[r].decision = "update"
    BY DEF Invariant, UpdateRequest, Applies
  <2> QED BY <2>1 DEF RunInv, LiveHead
<1>3. requests[i] \in Request /\ Objects \subseteq Nat
  BY <1>2 DEF Invariant, TypeOK, Objects
<1>4. /\ new \in Request
      /\ new.state = requests[i].state /\ new.merged = requests[i].merged
      /\ new.baseline = LiveHead(r)
  BY <1>2, <1>3 DEF Request
<1>5. requests' = [requests EXCEPT ![i] = new] /\ latest' = Touched(i)
  BY DEF UpdateRequest
<1> HIDE DEF new, i
<1>6. requests' \in Seq(Request) /\ DOMAIN requests' = DOMAIN requests /\ Len(requests') = Len(requests)
  BY <1>2, <1>4, <1>5 DEF Invariant, TypeOK
<1>7. \A j \in DOMAIN requests : requests'[j] = IF j = i THEN new ELSE requests[j]
  BY <1>5
<1>8. latest' \in 1..Len(requests') \cup {None}
  BY <1>2, <1>5, <1>6 DEF Invariant, TypeOK, Touched
<1>9. Kept
  BY <1>4, <1>6, <1>7, <1>8 DEF Kept
<1>10. RequestsInv' /\ BaselineVouches'
  <2>1. UNCHANGED <<commits, source, target>>
    BY <1>1 DEF branches
  <2>2. RequestsInv'
    BY <1>2, <1>4, <1>6, <1>7, <2>1 DEF Invariant, RequestsInv, Objects
  <2>3. BaselineVouches'
    BY <1>2, <1>4, <1>6, <1>7, <2>1 DEF Invariant, BaselineVouches, Vouched, Reach
  <2> QED BY <2>2, <2>3
<1>11. UNCHANGED <<relands, rewrites>> /\ faults' \in Nat
  BY <1>1 DEF counters, Invariant, TypeOK
<1> QED BY <1>1, <1>9, <1>10, <1>11, IdleIsFine, OwnStepKeeps

LEMMA CloseRequestKeeps ==
  ASSUME Invariant, NEW r \in Runs, CloseRequest(r)
  PROVE  Invariant'
<1> DEFINE i == run[r].open.id
<1>1. Local(r, Idle) /\ UNCHANGED <<branches, history, counters>>
  BY DEF CloseRequest
<1>2. i \in DOMAIN requests
  <2>1. RunInv(r) /\ run[r].pc = "apply" /\ run[r].decision = "close"
    BY DEF Invariant, CloseRequest, Applies
  <2> QED BY <2>1 DEF RunInv
<1>3. Closing(i)
  BY DEF CloseRequest, Closing
<1> HIDE DEF i
<1>4. /\ Kept /\ DOMAIN requests' = DOMAIN requests
      /\ \A j \in DOMAIN requests : requests'[j].baseline = requests[j].baseline
  BY <1>2, <1>3, ClosingKept DEF Invariant
<1>5. UNCHANGED <<relands, rewrites>> /\ faults' \in Nat
  BY <1>1 DEF counters, Invariant, TypeOK
<1>6. RequestsInv' /\ BaselineVouches'
  <2>1. Advances
    BY <1>1, StillAdvances DEF Invariant
  <2>2. UNCHANGED <<commits, source, target>>
    BY <1>1 DEF branches
  <2>3. \A j \in DOMAIN requests :
          requests'[j].state = "merged" =>
            requests[j].state = "merged" /\ requests'[j].merged = requests[j].merged
    BY <1>2, <1>3 DEF Closing, Invariant, TypeOK, Request
  <2>4. RequestsInv'
    BY <1>4, <2>2, <2>3 DEF Invariant, RequestsInv, Objects
  <2>5. BaselineVouches'
    BY <1>4, <2>2, <2>3 DEF Invariant, BaselineVouches, Reach
  <2> QED BY <2>4, <2>5
<1> QED BY <1>1, <1>4, <1>5, <1>6, IdleIsFine, OwnStepKeeps

LEMMA AbortKeeps ==
  ASSUME Invariant, NEW r \in Runs, Abort(r)
  PROVE  Invariant'
<1>1. Local(r, Idle) /\ UNCHANGED <<branches, forge, history, relands, rewrites>>
  BY DEF Abort
<1>2. faults' \in Nat
  BY DEF Abort, Invariant, TypeOK
<1> QED BY <1>1, <1>2, IdleIsFine, ReadingKeeps

-----------------------------------------------------------------------------
(* The theorems. *)

LEMMA InitHolds ==
  ASSUME Init
  PROVE  Invariant
<1>1. Root \in Commit /\ Root.reach = {1}
  BY DEF Root, Commit
<1>2. commits \in Seq(Commit) /\ Len(commits) = 1 /\ commits[1] = Root
  BY <1>1 DEF Init
<1>3. requests \in Seq(Request) /\ Len(requests) = 0 /\ DOMAIN requests = {}
  BY DEF Init
<1>4. Idle \in Run /\ Idle.pc = "idle"
  BY DEF Idle, Run, Decisions
<1>5. run \in [Runs -> Run] /\ \A r \in Runs : run[r] = Idle
  BY <1>4 DEF Init
<1>6. TypeOK
  BY <1>2, <1>3, <1>5 DEF Init, TypeOK
<1>7. GraphInv
  <2>1. Objects = {1} /\ Reach(1) = {1}
    BY <1>1, <1>2 DEF Objects, Reach
  <2> QED BY <2>1 DEF GraphInv
<1>8. RequestsInv /\ BaselineVouches
  BY <1>3 DEF RequestsInv, BaselineVouches
<1>9. \A r \in Runs : RunInv(r)
  BY <1>4, <1>5 DEF RunInv
<1> QED BY <1>6, <1>7, <1>8, <1>9 DEF Invariant

LEMMA StepKeeps ==
  ASSUME Invariant, [Step]_vars
  PROVE  Invariant'
<1>1. ASSUME NEW x \in Changes, Land(x) \/ Revert(x) PROVE Invariant'
  <2>1. source \in Objects
    BY DEF Invariant, TypeOK, Objects
  <2>2. Tree(source) \cup {x} \in SUBSET Changes /\ Tree(source) \ {x} \in SUBSET Changes
    BY <2>1, TreesTyped DEF Invariant
  <2> QED BY <1>1, <2>2, CommitToSourceKeeps DEF Land, Revert
<1>2. ASSUME NEW x \in Changes, Hotfix(x) PROVE Invariant'
  BY <1>2, HotfixKeeps
<1>3. ASSUME NEW x \in Changes, RevertOnTarget(x) PROVE Invariant'
  BY <1>3, RevertOnTargetKeeps
<1>4. ASSUME NEW x \in Changes, ManualMerge(x) PROVE Invariant'
  BY <1>4, ManualMergeKeeps
<1>5. CASE BackMerge
  BY <1>5, BackMergeKeeps
<1>6. ASSUME NEW n \in Reach(source), RewriteSource(n) PROVE Invariant'
  BY <1>6, RewriteSourceKeeps
<1>7. ASSUME NEW i \in DOMAIN requests, MergeRequest(i) PROVE Invariant'
  BY <1>7, MergeRequestKeeps
<1>8. ASSUME NEW i \in DOMAIN requests, Handle(i) PROVE Invariant'
  BY <1>8, HandleKeeps
<1>9. ASSUME NEW r \in Runs, Checkout(r) PROVE Invariant'
  BY <1>9, CheckoutKeeps
<1>10. ASSUME NEW r \in Runs, ListOpen(r) PROVE Invariant'
  BY <1>10, ListOpenKeeps
<1>11. ASSUME NEW r \in Runs, ListMerged(r) PROVE Invariant'
  BY <1>11, ListMergedKeeps
<1>12. ASSUME NEW r \in Runs, CreateRequest(r) PROVE Invariant'
  BY <1>12, CreateRequestKeeps
<1>13. ASSUME NEW r \in Runs, UpdateRequest(r) PROVE Invariant'
  BY <1>13, UpdateRequestKeeps
<1>14. ASSUME NEW r \in Runs, CloseRequest(r) PROVE Invariant'
  BY <1>14, CloseRequestKeeps
<1>15. ASSUME NEW r \in Runs, Abort(r) PROVE Invariant'
  BY <1>15, AbortKeeps
<1>16. CASE UNCHANGED vars
  <2>1. UNCHANGED <<branches, forge, run, history, counters>>
    BY <1>16 DEF vars
  <2>2. Advances /\ Kept
    BY <2>1, StillAdvances, StillKept DEF Invariant
  <2>3. UNCHANGED <<requests, run, retracted, hotfixed, relands, rewrites, faults>>
    BY <2>1 DEF forge, history, counters
  <2> QED BY <2>2, <2>3, PeopleKeep DEF Invariant, TypeOK
<1> QED BY <1>1, <1>2, <1>3, <1>4, <1>5, <1>6, <1>7, <1>8, <1>9, <1>10, <1>11,
           <1>12, <1>13, <1>14, <1>15, <1>16 DEF Step, People, Proceed

LEMMA InvariantHolds == Spec => []Invariant
BY InitHolds, StepKeeps, PTL DEF Spec

(* Every variable keeps its type, whatever people and runs do to the edge.  *)
THEOREM PromotionTypeCorrect == Spec => []TypeOK
<1>1. Invariant => TypeOK
  BY DEF Invariant
<1> QED BY <1>1, InvariantHolds, PTL

(* The recorded head of a merged request never makes a commit of the        *)
(* source count as promoted that was neither in the merged head nor is on  *)
(* the target: not when several runs write their own clone's head late, not *)
(* after a force push, and with every merge method (baselinePromoted).     *)
THEOREM BaselinesVouch == Spec => []BaselineVouches
<1>1. Invariant => BaselineVouches
  BY DEF Invariant
<1> QED BY <1>1, InvariantHolds, PTL

-----------------------------------------------------------------------------
(* What only the target holds. *)

(* A commit has one or two parents, older ones that it reaches.             *)
Descends(n) ==
  /\ Len(commits[n].parents) \in {1, 2}
  /\ \A i \in DOMAIN commits[n].parents : commits[n].parents[i] \in Reach(n) \cap 1..(n - 1)

HistoryInv == commits[1] = Root /\ \A n \in Objects \ {1} : Descends(n)

(* A commit that is not a merge, and one that is.                          *)
LEMMA OneParent ==
  ASSUME NEW n \in Nat, NEW p \in 1..(n - 1), commits'[n].parents = <<p>>, p \in Reach(n)'
  PROVE  Descends(n)'
<1>1. Len(<<p>>) = 1 /\ DOMAIN <<p>> = {1} /\ <<p>>[1] = p
  <2>1. DOMAIN <<p>> = 1..1 /\ 1..1 = {1}
    OBVIOUS
  <2> QED BY <2>1
<1>2. (Len(commits[n].parents) \in {1, 2})'
  BY <1>1
<1>3. \A i \in DOMAIN commits'[n].parents : commits'[n].parents[i] \in Reach(n)' \cap 1..(n - 1)
  BY <1>1
<1> QED BY <1>2, <1>3 DEF Descends

(* The merge has two such parents.                                         *)
LEMMA TwoParents ==
  ASSUME NEW n \in Nat, NEW p \in 1..(n - 1), NEW q \in 1..(n - 1),
         commits'[n].parents = <<p, q>>, p \in Reach(n)', q \in Reach(n)'
  PROVE  Descends(n)'
<1>1. Len(<<p, q>>) = 2 /\ DOMAIN <<p, q>> = {1, 2} /\ <<p, q>>[1] = p /\ <<p, q>>[2] = q
  <2>1. DOMAIN <<p, q>> = 1..2 /\ 1..2 = {1, 2}
    OBVIOUS
  <2> QED BY <2>1
<1>2. (Len(commits[n].parents) \in {1, 2})'
  BY <1>1
<1>3. \A i \in DOMAIN commits'[n].parents : commits'[n].parents[i] \in Reach(n)' \cap 1..(n - 1)
  BY <1>1
<1> QED BY <1>2, <1>3 DEF Descends

(* New commits at the end keep it, if they have such parents.               *)
LEMMA HistoryGrows ==
  ASSUME TypeOK, HistoryInv, NEW new \in Seq(Commit), commits' = commits \o new,
         \A n \in Nat : n \in Len(commits) + 1 .. Len(commits) + Len(new) => Descends(n)'
  PROVE  HistoryInv'
<1>1. /\ commits \in Seq(Commit) /\ Len(commits) \in Nat /\ Len(new) \in Nat
      /\ 1 \in Objects
  BY DEF TypeOK, Objects
<1>2. Objects' = 1..(Len(commits) + Len(new)) /\ \A n \in Objects : commits'[n] = commits[n]
  BY <1>1 DEF Objects
<1>3. ASSUME NEW n \in Objects' \ {1} PROVE Descends(n)'
  <2>1. CASE n \in Objects
    BY <1>2, <2>1 DEF HistoryInv, Descends, Reach
  <2>2. CASE n \notin Objects
    <3>1. n \in Nat /\ n \in Len(commits) + 1 .. Len(commits) + Len(new)
      BY <1>1, <1>2, <2>2 DEF Objects
    <3> QED BY <3>1
  <2> QED BY <2>1, <2>2
<1> QED BY <1>1, <1>2, <1>3 DEF HistoryInv

(* All commits but those of a rebase are of these two kinds.               *)
LEMMA CommitDescends ==
  ASSUME TypeOK, GraphInv, HistoryInv, NEW a \in Objects, NEW b \in Objects, NEW tree \in SUBSET Changes,
         commits' = Append(commits, Child(a, tree)) \/ commits' = Append(commits, MergeOf(a, b, tree))
  PROVE  HistoryInv'
<1>1. PICK n \in Nat : n = NextNumber
  BY DEF TypeOK, NextNumber
<1>2. /\ commits \in Seq(Commit) /\ Len(commits) \in Nat /\ n = Len(commits) + 1
      /\ a \in 1..(n - 1) /\ b \in 1..(n - 1)
  BY <1>1 DEF TypeOK, NextNumber, Objects
<1>3. PICK c \in Commit : /\ commits' = Append(commits, c)
                          /\ c = Child(a, tree) \/ c = MergeOf(a, b, tree)
  BY CommitsTyped
<1>4. commits'[n] = c
  BY <1>2, <1>3
<1>5. Descends(n)'
  <2>1. CASE c = Child(a, tree)
    <3>1. commits'[n].parents = <<a>> /\ a \in Reach(n)'
      BY <1>4, <2>1 DEF Child, Reach, GraphInv
    <3> QED BY <1>2, <3>1, OneParent
  <2>2. CASE c = MergeOf(a, b, tree)
    <3>1. commits'[n].parents = <<a, b>> /\ a \in Reach(n)' /\ b \in Reach(n)'
      BY <1>4, <2>2 DEF MergeOf, Reach, GraphInv
    <3> QED BY <1>2, <3>1, TwoParents
  <2> QED BY <1>3, <2>1, <2>2
<1> DEFINE new == <<c>>
<1>6. new \in Seq(Commit) /\ Len(new) = 1 /\ commits' = commits \o new
  BY <1>2, <1>3
<1> HIDE DEF new
<1>7. ASSUME NEW m \in Nat, m \in Len(commits) + 1 .. Len(commits) + Len(new)
      PROVE  Descends(m)'
  <2>1. m = n
    BY <1>2, <1>6, <1>7
  <2> QED BY <1>5, <2>1
<1> QED BY <1>6, <1>7, HistoryGrows

(* A rebase chains its commits to the target.                              *)
LEMMA RebaseDescends ==
  ASSUME Invariant, HistoryInv, Rebase
  PROVE  HistoryInv'
<1> USE DEF Invariant
<1> DEFINE todo == UniqueCommits(target, source)
           count == Cardinality(todo)
           First(k) == {n \in todo : Cardinality({m \in todo : m <= n}) <= k}
           replay == [k \in 1..count |->
             [parents |-> <<IF k = 1 THEN target ELSE Len(commits) + k - 1>>,
              tree |-> Replayed(First(k)),
              reach |-> Reach(target) \cup Len(commits) + 1 .. Len(commits) + k]]
<1>1. /\ Len(commits) \in Nat /\ commits \in Seq(Commit)
      /\ target \in Objects /\ source \in Objects /\ target \in 1..Len(commits)
  BY DEF TypeOK, Objects
<1>2. commits' = commits \o replay
  BY DEF Rebase
<1>3. count \in Nat
  <2>1. todo \subseteq Objects
    BY <1>1 DEF GraphInv, UniqueCommits
  <2>2. IsFiniteSet(Objects)
    BY <1>1, FS_Interval DEF Objects
  <2> HIDE DEF todo
  <2> QED BY <2>1, <2>2, FS_Subset, FS_CardinalityType
<1>4. Reach(target) \subseteq Nat /\ target \in Reach(target)
  BY <1>1 DEF GraphInv, Objects
<1> HIDE DEF count, First
<1>5. ASSUME NEW k \in 1..count
      PROVE  replay[k] \in Commit
  <2>1. (IF k = 1 THEN target ELSE Len(commits) + k - 1) \in Nat
    BY <1>1, <1>3, <1>5
  <2>2. <<IF k = 1 THEN target ELSE Len(commits) + k - 1>> \in Seq(Nat)
    BY <2>1
  <2>3. Replayed(First(k)) \subseteq Changes
    BY DEF Replayed
  <2>4. Reach(target) \cup (Len(commits) + 1 .. Len(commits) + k) \subseteq Nat
    BY <1>1, <1>3, <1>4, <1>5
  <2> QED BY <2>2, <2>3, <2>4 DEF Commit
<1>6. replay \in Seq(Commit) /\ Len(replay) = count
  <2>1. replay \in [1..count -> Commit]
    <3>1. replay = [k \in 1..count |-> replay[k]]
      OBVIOUS
    <3> HIDE DEF replay
    <3> QED BY <1>5, <3>1
  <2> HIDE DEF replay
  <2> QED BY <1>3, <2>1
<1>7. ASSUME NEW k \in 1..count
      PROVE  /\ replay[k].parents = <<IF k = 1 THEN target ELSE Len(commits) + k - 1>>
             /\ replay[k].reach = Reach(target) \cup Len(commits) + 1 .. Len(commits) + k
  OBVIOUS
<1> HIDE DEF replay
<1>8. ASSUME NEW n \in Nat, n \in Len(commits) + 1 .. Len(commits) + Len(replay)
      PROVE  Descends(n)'
  <2>1. PICK k \in 1..Len(replay) : n = Len(commits) + k
    <3>1. n - Len(commits) \in 1..Len(replay) /\ n = Len(commits) + (n - Len(commits))
      BY <1>1, <1>3, <1>6, <1>8
    <3> QED BY <3>1
  <2>2. PICK p \in Nat : p = IF k = 1 THEN target ELSE Len(commits) + k - 1
    BY <1>1, <1>3, <1>6
  <2>3. commits'[n] = replay[k]
    BY <1>1, <1>2, <1>6, <2>1
  <2>4. p \in 1..(n - 1) /\ p \in Reach(target) \cup Len(commits) + 1 .. Len(commits) + k
    BY <1>1, <1>3, <1>4, <1>6, <2>1, <2>2
  <2>5. commits'[n].parents = <<p>> /\ p \in Reach(n)'
    BY <1>6, <1>7, <2>2, <2>3, <2>4 DEF Reach
  <2> QED BY <2>4, <2>5, OneParent
<1> QED BY <1>2, <1>6, <1>8, HistoryGrows

(* Every step keeps the history; most do not touch it.                     *)
LEMMA HistoryKept ==
  ASSUME Invariant, HistoryInv, [Step]_vars
  PROVE  HistoryInv'
<1> USE DEF Invariant
<1>1. /\ source \in Objects /\ target \in Objects
      /\ Tree(source) \subseteq Changes /\ Tree(target) \subseteq Changes
      /\ MergedTree(source, target) \subseteq Changes /\ MergedTree(target, source) \subseteq Changes
  <2>1. source \in Objects /\ target \in Objects
    BY DEF TypeOK, Objects
  <2> QED BY <2>1, TreesTyped
<1>2. ASSUME UNCHANGED commits PROVE HistoryInv'
  BY <1>2 DEF HistoryInv, Objects, Descends, Reach
<1>3. ASSUME NEW x \in Changes, Land(x) \/ Revert(x) PROVE HistoryInv'
  <2>1. Tree(source) \cup {x} \in SUBSET Changes /\ Tree(source) \ {x} \in SUBSET Changes
    BY <1>1
  <2> QED BY <1>1, <1>3, <2>1, CommitDescends DEF Land, Revert, CommitToSource
<1>4. ASSUME NEW x \in Changes, Hotfix(x) \/ RevertOnTarget(x) PROVE HistoryInv'
  <2>1. Tree(target) \cup {x} \in SUBSET Changes /\ Tree(target) \ {x} \in SUBSET Changes
    BY <1>1
  <2> QED BY <1>1, <1>4, <2>1, CommitDescends DEF Hotfix, RevertOnTarget
<1>5. ASSUME NEW x \in Changes, ManualMerge(x) PROVE HistoryInv'
  <2>1. MergedTree(target, source) \cup {x} \in SUBSET Changes
    BY <1>1
  <2> QED BY <1>1, <1>5, <2>1, CommitDescends DEF ManualMerge
<1>6. CASE BackMerge
  BY <1>1, <1>6, CommitDescends DEF BackMerge
<1>7. ASSUME NEW n \in Reach(source), RewriteSource(n) PROVE HistoryInv'
  BY <1>2, <1>7 DEF RewriteSource
<1>8. ASSUME NEW i \in DOMAIN requests, MergeRequest(i) PROVE HistoryInv'
  <2>1. CASE MergeCommit
    BY <1>1, <2>1, CommitDescends DEF MergeCommit
  <2>2. CASE Squash
    BY <1>1, <2>2, CommitDescends DEF Squash
  <2>3. CASE Rebase
    BY <2>3, RebaseDescends
  <2> QED BY <1>8, <2>1, <2>2, <2>3 DEF MergeRequest
<1>9. ASSUME NEW i \in DOMAIN requests, Handle(i) PROVE HistoryInv'
  BY <1>2, <1>9 DEF Handle, branches
<1>10. ASSUME NEW r \in Runs, Checkout(r) \/ Proceed(r) \/ Abort(r) PROVE HistoryInv'
  BY <1>2, <1>10 DEF Checkout, Proceed, Abort, ListOpen, ListMerged, CreateRequest, UpdateRequest,
                     CloseRequest, branches
<1>11. CASE UNCHANGED vars
  BY <1>2, <1>11 DEF vars, branches
<1> QED BY <1>3, <1>4, <1>5, <1>6, <1>7, <1>8, <1>9, <1>10, <1>11 DEF Step, People

(* A set of commits has an oldest one.                                      *)
LEMMA OldestExists ==
  ASSUME NEW S \in SUBSET Nat, S # {}
  PROVE  \E n \in S : \A m \in S : ~(m < n)
<1>1. PICK n \in S : \A m \in S : <<m, n>> \notin OpToRel(<, Nat)
  BY NatLessThanWellFounded, WFMin
<1>2. ASSUME NEW m \in S PROVE ~(m < n)
  <2>1. m \in Nat /\ n \in Nat
    OBVIOUS
  <2> QED BY <1>1, <2>1 DEF OpToRel
<1> QED BY <1>2

(* Of what never was on the source, the first commit of the target that    *)
(* holds it is reported, plain or a merge.                                 *)
LEMMA DriftSeen == Invariant /\ HistoryInv => DriftReported
<1> SUFFICES ASSUME Invariant, HistoryInv, NEW x \in Tree(target), x \notin Tree(source),
                    x \notin Gone(source)
             PROVE  Drifted(Now) # {}
  BY DEF DriftReported
<1> USE DEF Invariant
<1>1. target \in Objects /\ source \in Objects /\ target \in Reach(target)
      /\ Reach(target) \subseteq Objects /\ Objects \subseteq Nat
  BY DEF TypeOK, Objects, GraphInv
<1>2. ASSUME NEW k \in Reach(source), x \in Tree(k)
      PROVE  FALSE
  BY <1>2 DEF Gone
<1> DEFINE S == {m \in Reach(target) : x \in Tree(m)}
<1>3. S \in SUBSET Nat /\ S # {}
  BY <1>1
<1>4. PICK n \in S : \A m \in S : ~(m < n)
  <2> HIDE DEF S
  <2> QED BY <1>3, OldestExists
<1>5. n \in Objects /\ n # 1 /\ n \in Nat
  <2>1. n = 1 => Tree(n) = {}
    BY DEF HistoryInv, Root, Tree
  <2> QED BY <1>1, <1>4, <2>1
<1>6. Descends(n) /\ commits[n].parents \in Seq(Nat)
  <2>1. commits[n] \in Commit
    BY <1>5 DEF TypeOK, Objects
  <2> QED BY <1>5, <2>1 DEF HistoryInv, Commit
<1>7. ASSUME NEW i \in DOMAIN commits[n].parents
      PROVE  x \notin Tree(commits[n].parents[i])
  <2> DEFINE p == commits[n].parents[i]
  <2>1. p \in Reach(n) /\ p \in 1..(n - 1)
    BY <1>6 DEF Descends
  <2>2. p \in Reach(target) /\ p < n
    BY <1>1, <1>4, <1>5, <2>1 DEF GraphInv
  <2> HIDE DEF p
  <2>3. x \notin Tree(p)
    BY <1>4, <2>2
  <2> QED BY <2>3 DEF p
<1> DEFINE s == Now.source
           t == Now.target
           patches == PatchIDs(MergeBase(s, t), s)
<1>8. s = source /\ t = target
  BY DEF Now
<1>9. n \in UniqueCommits(s, t)
  BY <1>2, <1>4, <1>8 DEF UniqueCommits
<1>10. CASE Len(commits[n].parents) = 1
  <2>1. x \notin Tree(Parent(n))
    <3>1. 1 \in DOMAIN commits[n].parents
      BY <1>6, <1>10
    <3> QED BY <1>7, <3>1 DEF Parent
  <2>2. HasPatch(n) /\ x \in Diff(n).added
    BY <1>4, <1>10, <2>1 DEF HasPatch, Diff
  <2>3. ASSUME Diff(n) \in patches PROVE FALSE
    <3>1. PICK k \in Reach(source) : Diff(k) = Diff(n)
      BY <1>8, <2>3 DEF PatchIDs, UniqueCommits
    <3>2. x \in Tree(k)
      BY <2>2, <3>1 DEF Diff
    <3> QED BY <1>2, <3>2
  <2> QED BY <1>9, <2>2, <2>3 DEF Drifted
<1>11. CASE Len(commits[n].parents) = 2
  <2>1. 1 \in DOMAIN commits[n].parents /\ 2 \in DOMAIN commits[n].parents
    BY <1>6, <1>11
  <2>2. x \notin MergedTree(commits[n].parents[1], commits[n].parents[2])
    BY <1>7, <2>1 DEF MergedTree
  <2>3. IsMerge(n) /\ ~MergeReproducible(n)
    BY <1>4, <1>11, <2>2 DEF IsMerge, MergeReproducible
  <2> QED BY <1>9, <2>3 DEF Drifted
<1> QED BY <1>6, <1>10, <1>11 DEF Descends

(* Both invariants together.                                               *)
LEMMA HistoryHolds == Spec => [](Invariant /\ HistoryInv)
<1>1. Init => Invariant /\ HistoryInv
  <2> SUFFICES ASSUME Init PROVE Invariant /\ HistoryInv
    OBVIOUS
  <2>1. Objects = {1} /\ commits[1] = Root
    BY DEF Init, Objects
  <2> QED BY <2>1, InitHolds DEF HistoryInv
<1>2. Invariant /\ HistoryInv /\ [Step]_vars => Invariant' /\ HistoryInv'
  BY StepKeeps, HistoryKept
<1> QED BY <1>1, <1>2, PTL DEF Spec

(* DriftReported: content of the target that no commit the source reaches   *)
(* ever held is reported as divergence, whatever commit or merge brought   *)
(* it, after any rebase, squash, back-merge or force push                  *)
(* (observeDownstreamReport).  Its first commit on the target is reported:  *)
(* a plain one has a patch that the source lacks, and a merge of parents   *)
(* without it is not what merging them gives.                              *)
THEOREM DriftIsReported == Spec => []DriftReported
<1>1. Invariant /\ HistoryInv => DriftReported
  BY DriftSeen
<1> QED BY <1>1, HistoryHolds, PTL

-----------------------------------------------------------------------------
(* What is on the target, and what was taken out. *)

Parents(n) == {commits[n].parents[i] : i \in DOMAIN commits[n].parents}

(* A commit reaches what its parents reach.  A merge has what git makes of  *)
(* its parents, and more only if somebody edited it on the target.         *)
Grown(n) ==
  /\ Reach(n) = {n} \cup UNION {Reach(p) : p \in Parents(n)}
  /\ IsMerge(n) =>
       /\ MergedTree(commits[n].parents[1], commits[n].parents[2]) \subseteq Tree(n)
       /\ MergeReproducible(n) \/ n \in Reach(target)

GrowthInv == \A n \in Objects \ {1} : Grown(n)

(* The request on record is merged, and what was merged is on the target    *)
(* but for what some commit took out.                                      *)
RecordsInv ==
  /\ latest # None => requests[latest].state = "merged"
  /\ \A i \in DOMAIN requests :
       requests[i].state = "merged" => Tree(requests[i].merged) \ Tree(target) \subseteq Removed

(* Nothing came back to the source, but for what people took off the        *)
(* target.                                                                 *)
ReturnInv == relands = 0 => Removed \cap Tree(source) \subseteq retracted

GraphFacts == Invariant /\ HistoryInv /\ GrowthInv
ContentInv == GraphFacts /\ RecordsInv /\ ReturnInv

(* Parents are older and reached.                                           *)
LEMMA ParentsOlder ==
  ASSUME GraphFacts, NEW n \in Objects, n # 1, NEW p \in Parents(n)
  PROVE  p \in Objects /\ p \in Nat /\ p < n /\ p \in Reach(n)
<1>1. p \in Reach(n) \cap 1..(n - 1)
  BY DEF GraphFacts, HistoryInv, Descends, Parents
<1>2. n \in 1..Len(commits) /\ Len(commits) \in Nat
  BY DEF Objects, GraphFacts, Invariant, TypeOK
<1> QED BY <1>1, <1>2 DEF Objects

(* One parent, or two.                                                      *)
LEMMA ParentsOf ==
  ASSUME GraphFacts, NEW n \in Objects, n # 1
  PROVE  /\ IsMerge(n) => Parents(n) = {commits[n].parents[1], commits[n].parents[2]}
         /\ ~IsMerge(n) => Len(commits[n].parents) = 1 /\ Parents(n) = {Parent(n)}
         /\ Parent(n) \in Parents(n)
<1>1. commits[n].parents \in Seq(Nat) /\ Len(commits[n].parents) \in {1, 2}
  <2>1. commits[n] \in Commit
    BY DEF GraphFacts, Invariant, TypeOK, Objects
  <2> QED BY <2>1 DEF GraphFacts, HistoryInv, Descends, Commit
<1>2. PICK s \in Seq(Nat) : s = commits[n].parents /\ Len(s) \in {1, 2}
  BY <1>1
<1>3. CASE Len(s) = 1
  <2>1. DOMAIN s = 1..1 /\ 1..1 = {1}
    BY <1>3
  <2> QED BY <1>2, <1>3, <2>1 DEF IsMerge, Parents, Parent
<1>4. CASE Len(s) = 2
  <2>1. DOMAIN s = 1..2 /\ 1..2 = {1, 2}
    BY <1>4
  <2> QED BY <1>2, <1>4, <2>1 DEF IsMerge, Parents, Parent
<1> QED BY <1>2, <1>3, <1>4

(* A set of numbers that has with each a smaller one is empty.              *)
LEMMA NoEndlessDescent ==
  ASSUME NEW S \in SUBSET Nat, \A n \in S : \E m \in S : m < n
  PROVE  S = {}
BY OldestExists

(* The root holds nothing.                                                  *)
LEMMA RootHolds == HistoryInv => Tree(1) = {} /\ Reach(1) = {1} /\ Len(commits[1].parents) = 0
BY DEF HistoryInv, Root, Tree, Reach

(* A bounded set of numbers has a greatest element.                         *)
LEMMA GreatestExists ==
  ASSUME NEW S \in SUBSET Nat, S # {}, NEW k \in Nat, \A m \in S : m <= k
  PROVE  \E n \in S : \A m \in S : m <= n
<1> DEFINE T == {k - m : m \in S}
<1>1. T \in SUBSET Nat /\ T # {}
  <2>1. \A m \in S : m \in Nat /\ k - m \in Nat
    OBVIOUS
  <2> QED BY <2>1
<1>2. PICK t \in T : \A u \in T : ~(u < t)
  <2> HIDE DEF T
  <2> QED BY <1>1, OldestExists
<1>3. PICK n \in S : t = k - n
  OBVIOUS
<1>4. ASSUME NEW m \in S PROVE m <= n
  <2>1. k - m \in T /\ m \in Nat /\ n \in Nat
    OBVIOUS
  <2>2. ~(k - m < k - n)
    BY <1>2, <1>3, <2>1
  <2> QED BY <2>1, <2>2
<1> QED BY <1>4

(* Every commit grew from the root.                                         *)
LEMMA RootReached ==
  ASSUME GraphFacts, NEW n \in Objects
  PROVE  1 \in Reach(n)
<1> DEFINE S == {a \in Objects : 1 \notin Reach(a)}
<1>1. S \in SUBSET Nat
  BY DEF Objects
<1>2. ASSUME NEW a \in S PROVE \E m \in S : m < a
  <2>1. a \in Objects /\ a # 1
    BY RootHolds DEF GraphFacts
  <2>2. Parent(a) \in Parents(a)
    BY <2>1, ParentsOf
  <2>3. Parent(a) \in Objects /\ Parent(a) < a /\ Reach(Parent(a)) \subseteq Reach(a)
    BY <2>1, <2>2, ParentsOlder DEF GraphFacts, Invariant, GraphInv
  <2> QED BY <2>3
<1>3. S = {}
  <2> HIDE DEF S
  <2> QED BY <1>1, <1>2, NoEndlessDescent
<1> QED BY <1>3

(* The merge base is the youngest common ancestor.                          *)
LEMMA BaseCommon ==
  ASSUME GraphFacts, NEW a \in Objects, NEW b \in Objects
  PROVE  /\ MergeBase(a, b) \in Reach(a) \cap Reach(b)
         /\ \A m \in Reach(a) \cap Reach(b) : m <= MergeBase(a, b)
<1> DEFINE common == Reach(a) \cap Reach(b)
<1>1. Reach(a) \subseteq Objects /\ Len(commits) \in Nat
  BY DEF GraphFacts, Invariant, GraphInv, TypeOK
<1>2. common \in SUBSET Nat /\ common # {} /\ \A m \in common : m <= Len(commits)
  BY <1>1, RootReached DEF Objects
<1>3. \E n \in common : \A m \in common : m <= n
  <2> HIDE DEF common
  <2> QED BY <1>1, <1>2, GreatestExists
<1> QED BY <1>3 DEF MergeBase

(* What a commit held is still there, unless some commit took it out.       *)
TakenInv == \A n \in Objects : \A m \in Reach(n) : Tree(m) \ Tree(n) \subseteq Removed

LEMMA Inherited == GraphFacts => TakenInv
<1> SUFFICES ASSUME GraphFacts PROVE TakenInv
  OBVIOUS
<1> DEFINE S == {a \in Objects : \E b \in Reach(a) : ~(Tree(b) \ Tree(a) \subseteq Removed)}
<1>1. S \in SUBSET Nat
  BY DEF Objects
<1>2. ASSUME NEW a \in S PROVE \E m \in S : m < a
  <2>0. PICK b \in Reach(a) : ~(Tree(b) \ Tree(a) \subseteq Removed)
    OBVIOUS
  <2>1. PICK x \in Tree(b) : x \notin Tree(a) /\ x \notin Removed
    BY <2>0
  <2>2. a \in Objects /\ a # 1 /\ b # a
    BY <2>1, RootHolds DEF GraphFacts
  <2>3. Grown(a)
    BY <2>2 DEF GraphFacts, GrowthInv
  <2>4. PICK p \in Parents(a) : b \in Reach(p)
    BY <2>2, <2>3 DEF Grown
  <2>5. p \in Objects /\ p < a
    BY <2>2, ParentsOlder
  <2>6. CASE x \notin Tree(p)
    BY <2>1, <2>4, <2>5, <2>6
  <2>7. CASE x \in Tree(p) /\ ~IsMerge(a)
    <3>1. p = Parent(a)
      BY <2>2, <2>7, ParentsOf
    <3>2. x \in Diff(a).removed
      BY <2>1, <2>7, <3>1 DEF Diff
    <3>3. a \in 2..Len(commits)
      BY <2>2 DEF Objects, GraphFacts, Invariant, TypeOK
    <3> QED BY <2>1, <3>2, <3>3 DEF Removed
  <2>8. CASE x \in Tree(p) /\ IsMerge(a)
    <3>1. PICK p1, p2 : /\ p1 = commits[a].parents[1] /\ p2 = commits[a].parents[2]
                        /\ Parents(a) = {p1, p2}
      BY <2>2, <2>8, ParentsOf
    <3>2. x \notin MergedTree(p1, p2)
      BY <2>1, <2>3, <2>8, <3>1 DEF Grown
    <3>3. PICK q \in {p1, p2} : x \notin Tree(q) /\ x \in Tree(MergeBase(p1, p2))
      BY <2>8, <3>1, <3>2 DEF MergedTree
    <3>4. p1 \in Objects /\ p2 \in Objects /\ q \in Objects /\ q < a
      BY <2>2, <3>1, <3>3, ParentsOlder
    <3>5. MergeBase(p1, p2) \in Reach(q)
      BY <3>3, <3>4, BaseCommon
    <3> QED BY <2>1, <3>3, <3>4, <3>5
  <2> QED BY <2>6, <2>7, <2>8
<1>3. S = {}
  <2> HIDE DEF S
  <2> QED BY <1>1, <1>2, NoEndlessDescent
<1> QED BY <1>3 DEF TakenInv

(* A merge loses only what one side lost since the merge base.              *)
LEMMA MergedLaw ==
  ASSUME GraphFacts, NEW a \in Objects, NEW b \in Objects
  PROVE  /\ MergedTree(a, b) \subseteq Tree(a) \cup Tree(b)
         /\ (Tree(a) \cup Tree(b)) \ MergedTree(a, b) \subseteq Removed
         /\ (Tree(a) \ MergedTree(a, b)) \cap Tree(b) = {}
<1>1. PICK k \in Reach(a) \cap Reach(b) : k = MergeBase(a, b)
  BY BaseCommon
<1>2. Tree(k) \ Tree(a) \subseteq Removed /\ Tree(k) \ Tree(b) \subseteq Removed
  BY <1>1, Inherited DEF TakenInv
<1> QED BY <1>1, <1>2 DEF MergedTree

(* The commit that brought a change to a branch added it, or is a merge     *)
(* somebody edited.                                                        *)
LEMMA Brought ==
  ASSUME GraphFacts, NEW n \in Objects, NEW x \in Tree(n)
  PROVE  \E c \in Reach(n) \ {1} :
           /\ x \in Tree(c)
           /\ \/ ~IsMerge(c) /\ HasPatch(c) /\ x \in Diff(c).added
              \/ IsMerge(c) /\ c \in Reach(target)
<1> DEFINE S == {m \in Reach(n) : x \in Tree(m)}
<1>1. Reach(n) \subseteq Objects /\ Objects \subseteq Nat /\ n \in S
  BY DEF GraphFacts, Invariant, GraphInv, Objects
<1>2. PICK c \in S : \A m \in S : ~(m < c)
  <2>1. S \in SUBSET Nat /\ S # {}
    BY <1>1
  <2> HIDE DEF S
  <2> QED BY <2>1, OldestExists
<1>3. c \in Objects /\ c # 1 /\ c \in Reach(n) /\ x \in Tree(c) /\ Reach(c) \subseteq Reach(n)
  BY <1>1, <1>2, RootHolds DEF GraphFacts, Invariant, GraphInv
<1>4. ASSUME NEW p \in Parents(c) PROVE x \notin Tree(p)
  BY <1>2, <1>3, ParentsOlder
<1>5. CASE ~IsMerge(c)
  <2>1. Len(commits[c].parents) = 1 /\ x \notin Tree(Parent(c))
    BY <1>3, <1>4, <1>5, ParentsOf
  <2> QED BY <1>3, <1>5, <2>1 DEF HasPatch, Diff
<1>6. CASE IsMerge(c)
  <2>1. x \notin MergedTree(commits[c].parents[1], commits[c].parents[2])
    BY <1>3, <1>4, <1>6, ParentsOf DEF MergedTree
  <2>2. ~MergeReproducible(c)
    BY <1>3, <2>1 DEF MergeReproducible
  <2> QED BY <1>3, <1>6, <2>2 DEF GraphFacts, GrowthInv, Grown
<1> QED BY <1>5, <1>6

(* An edge in sync lacks nothing of the source but what some commit took    *)
(* out: what the ladder settles is on the target already.                  *)
LEMMA InSyncMeans ==
  ASSUME GraphFacts, RecordsInv, InSync
  PROVE  Tree(source) \ Tree(target) \subseteq Removed
<1> SUFFICES ASSUME NEW x \in Tree(source), x \notin Tree(target), x \notin Removed
             PROVE  FALSE
  OBVIOUS
<1>1. source \in Objects /\ target \in Objects
  BY DEF GraphFacts, Invariant, TypeOK, Objects
<1>2. ASSUME NEW m \in Reach(target) PROVE x \notin Tree(m)
  BY <1>1, Inherited DEF TakenInv
<1>3. PICK c \in Reach(source) \ {1} :
         /\ x \in Tree(c)
         /\ \/ ~IsMerge(c) /\ HasPatch(c) /\ x \in Diff(c).added
            \/ IsMerge(c) /\ c \in Reach(target)
  BY <1>1, Brought
<1>4. c \in UniqueCommits(target, source) /\ x \in Diff(c).added
  BY <1>2, <1>3 DEF UniqueCommits
<1> DEFINE s == Now.source
           t == Now.target
           patches == PatchIDs(MergeBase(s, t), t)
           remaining == {k \in UniqueCommits(t, s) : ~PromotedByContent(k, patches)}
<1>5. s = source /\ t = target
  BY DEF Now
<1>6. c \in remaining
  <2>1. ASSUME Diff(c) \in patches PROVE FALSE
    <3>1. PICK k \in Reach(target) : Diff(k) = Diff(c)
      BY <1>5, <2>1 DEF PatchIDs, UniqueCommits
    <3>2. x \in Tree(k)
      BY <1>4, <3>1 DEF Diff
    <3> QED BY <1>2, <3>2
  <2> QED BY <1>4, <1>5, <2>1 DEF PromotedByContent
<1>7. c \in PromotedByBaseline(Now, MergedBaseline)
  <2>1. Unpromoted(Now, MergedBaseline) = remaining \ PromotedByBaseline(Now, MergedBaseline)
    BY <1>5 DEF Unpromoted
  <2> HIDE DEF remaining
  <2> QED BY <1>6, <2>1 DEF InSync
<1>8. latest # None /\ c \in Reach(requests[latest].baseline)
  BY <1>7 DEF PromotedByBaseline, MergedBaseline
<1>9. latest \in DOMAIN requests /\ requests[latest].state = "merged"
  BY <1>8 DEF RecordsInv, GraphFacts, Invariant, TypeOK
<1>10. c \in Reach(requests[latest].merged)
  BY <1>3, <1>4, <1>8, <1>9 DEF GraphFacts, Invariant, BaselineVouches, UniqueCommits
<1>11. requests[latest].merged \in Objects
  BY <1>9 DEF GraphFacts, Invariant, RequestsInv
<1>12. x \in Tree(requests[latest].merged)
  BY <1>3, <1>10, <1>11, Inherited DEF TakenInv
<1> QED BY <1>9, <1>12 DEF RecordsInv

LEMMA LandedFrom == ContentInv => (relands = 0 => LandedIsPromoted)
<1> SUFFICES ASSUME ContentInv, relands = 0, InSync
             PROVE  Tree(source) \ Tree(target) \subseteq retracted
  BY DEF LandedIsPromoted
<1>1. Tree(source) \ Tree(target) \subseteq Removed
  BY InSyncMeans DEF ContentInv
<1> QED BY <1>1 DEF ContentInv, ReturnInv

(* What a step leaves alone of the commits there are.                       *)
LEMMA Lasting ==
  ASSUME GraphFacts, Advances
  PROVE  /\ \A n \in Objects : Tree(n)' = Tree(n) /\ Reach(n)' = Reach(n) /\ Parents(n)' = Parents(n)
         /\ \A n \in Objects : IsMerge(n)' = IsMerge(n)
         /\ \A n \in Objects \ {1} : Parent(n)' = Parent(n) /\ Diff(n)' = Diff(n)
         /\ \A a, b \in Objects : MergedTree(a, b)' = MergedTree(a, b)
         /\ Removed \subseteq Removed'
<1>1. \A n \in Objects : n \in Objects' /\ commits'[n] = commits[n]
  BY DEF Advances
<1>2. \A n \in Objects : Tree(n)' = Tree(n) /\ Reach(n)' = Reach(n) /\ Parents(n)' = Parents(n)
                         /\ IsMerge(n)' = IsMerge(n)
  BY <1>1 DEF Tree, Reach, Parents, IsMerge
<1>3. ASSUME NEW n \in Objects \ {1} PROVE Parent(n)' = Parent(n) /\ Diff(n)' = Diff(n)
  <2>1. PICK p \in Objects : p = Parent(n)
    BY ParentsOf, ParentsOlder
  <2>2. Parent(n)' = p
    BY <1>1, <2>1 DEF Parent
  <2>3. Tree(p)' = Tree(p) /\ Tree(n)' = Tree(n)
    BY <1>2
  <2> QED BY <2>1, <2>2, <2>3 DEF Diff
<1>4. ASSUME NEW a \in Objects, NEW b \in Objects PROVE MergedTree(a, b)' = MergedTree(a, b)
  <2>1. MergeBase(a, b)' = MergeBase(a, b)
    BY <1>2 DEF MergeBase
  <2>2. PICK k \in Objects : k = MergeBase(a, b)
    BY BaseCommon DEF GraphFacts, Invariant, GraphInv
  <2>3. Tree(k)' = Tree(k) /\ Tree(a)' = Tree(a) /\ Tree(b)' = Tree(b)
    BY <1>2
  <2> QED BY <2>1, <2>2, <2>3 DEF MergedTree
<1>5. ASSUME NEW n \in 2..Len(commits) PROVE n \in Objects \ {1} /\ n \in 2..Len(commits)'
  <2>1. n \in Objects /\ n # 1 /\ n \in Objects'
    BY <1>1 DEF Objects, GraphFacts, Invariant, TypeOK
  <2> QED BY <2>1 DEF Objects
<1>6. Removed \subseteq Removed'
  <2> SUFFICES ASSUME NEW n \in 2..Len(commits), NEW x \in Diff(n).removed PROVE x \in Removed'
    BY DEF Removed
  <2>1. n \in 2..Len(commits)' /\ x \in Diff(n)'.removed
    BY <1>3, <1>5
  <2> QED BY <2>1 DEF Removed
<1> QED BY <1>2, <1>3, <1>4, <1>6

(* Old commits stay well grown.                                             *)
LEMMA StillGrown ==
  ASSUME GraphFacts, Advances, NEW n \in Objects \ {1}
  PROVE  Grown(n)'
<1>1. Grown(n)
  BY DEF GraphFacts, GrowthInv
<1>2. Reach(n)' = {n} \cup UNION {Reach(p)' : p \in Parents(n)'}
  <2>1. \A p \in Parents(n) : Reach(p)' = Reach(p)
    BY ParentsOlder, Lasting
  <2> QED BY <1>1, <2>1, Lasting DEF Grown
<1>3. ASSUME IsMerge(n)'
      PROVE  /\ MergedTree(commits[n].parents[1], commits[n].parents[2])' \subseteq Tree(n)'
             /\ MergeReproducible(n)' \/ n \in Reach(target)'
  <2>1. IsMerge(n)
    BY <1>3, Lasting
  <2>2. PICK p, q : /\ p = commits[n].parents[1] /\ q = commits[n].parents[2]
                    /\ Parents(n) = {p, q}
    BY <2>1, ParentsOf
  <2>3. p \in Objects /\ q \in Objects
    BY <2>2, ParentsOlder
  <2>4. MergedTree(p, q)' = MergedTree(p, q) /\ Tree(n)' = Tree(n)
    BY <2>3, Lasting
  <2>5. commits'[n].parents[1] = p /\ commits'[n].parents[2] = q
    BY <2>2 DEF Advances
  <2>6. MergedTree(p, q) \subseteq Tree(n)
    BY <1>1, <2>1, <2>2 DEF Grown
  <2>7. (Tree(n) = MergedTree(p, q)) \/ n \in Reach(target)'
    BY <1>1, <2>1, <2>2 DEF Grown, MergeReproducible, Advances
  <2> QED BY <2>4, <2>5, <2>6, <2>7 DEF MergeReproducible
<1> QED BY <1>2, <1>3 DEF Grown

(* A new commit, or a merge that loses nothing and, unless it is on the     *)
(* target, has nothing of its own.                                         *)
LEMMA OneGrows ==
  ASSUME GraphFacts, Advances, NEW a \in Objects, NEW b \in Objects, NEW tree \in SUBSET Changes,
         \/ commits' = Append(commits, Child(a, tree))
         \/ /\ commits' = Append(commits, MergeOf(a, b, tree))
            /\ MergedTree(a, b) \subseteq tree
            /\ target' = NextNumber \/ tree = MergedTree(a, b)
  PROVE  /\ GrowthInv'
         /\ Removed' = Removed \cup (Tree(a) \ tree)
         /\ commits'[NextNumber].tree = tree
<1>1. PICK n \in Nat : n = NextNumber
  BY DEF GraphFacts, Invariant, TypeOK, NextNumber
<1>2. commits \in Seq(Commit) /\ Len(commits) \in Nat /\ n = Len(commits) + 1 /\ n # 1
  <2>1. a \in 1..Len(commits) /\ Len(commits) \in Nat
    BY DEF Objects, GraphFacts, Invariant, TypeOK
  <2> QED BY <1>1, <2>1 DEF GraphFacts, Invariant, TypeOK, NextNumber
<1>3. PICK c \in Commit :
         /\ commits' = Append(commits, c)
         /\ \/ c = Child(a, tree)
            \/ /\ c = MergeOf(a, b, tree)
               /\ MergedTree(a, b) \subseteq tree
               /\ target' = NextNumber \/ tree = MergedTree(a, b)
  BY CommitsTyped DEF GraphFacts, Invariant
<1>4. commits'[n] = c /\ Len(commits)' = n
  BY <1>2, <1>3
<1>5. Tree(n)' = tree /\ c.parents[1] = a
  BY <1>3, <1>4 DEF Tree, Child, MergeOf
<1>6. Reach(a)' = Reach(a) /\ Reach(b)' = Reach(b) /\ Tree(a)' = Tree(a)
      /\ MergedTree(a, b)' = MergedTree(a, b)
  BY Lasting
<1>7. Grown(n)'
  <2>1. CASE c = Child(a, tree)
    <3>1. commits'[n].parents = <<a>>
      BY <1>4, <2>1 DEF Child
    <3>2. Len(<<a>>) = 1 /\ DOMAIN <<a>> = {1}
      <4>1. DOMAIN <<a>> = 1..1 /\ 1..1 = {1}
        OBVIOUS
      <4> QED BY <4>1
    <3>3. Parents(n)' = {a} /\ ~IsMerge(n)'
      BY <3>1, <3>2 DEF Parents, IsMerge
    <3>4. Reach(n)' = Reach(a) \cup {n}
      BY <1>1, <1>4, <2>1 DEF Child, Reach
    <3> QED BY <1>6, <3>3, <3>4 DEF Grown
  <2>2. CASE c # Child(a, tree)
    <3>1. commits'[n].parents = <<a, b>> /\ c.reach = Reach(a) \cup Reach(b) \cup {n}
      BY <1>1, <1>3, <1>4, <2>2 DEF MergeOf
    <3>2. DOMAIN <<a, b>> = {1, 2} /\ <<a, b>>[1] = a /\ <<a, b>>[2] = b
      <4>1. DOMAIN <<a, b>> = 1..2 /\ 1..2 = {1, 2}
        OBVIOUS
      <4> QED BY <4>1
    <3>3. Parents(n)' = {a, b}
      BY <3>1, <3>2 DEF Parents
    <3>4. Reach(n)' = {n} \cup Reach(a) \cup Reach(b)
      BY <1>4, <3>1 DEF Reach
    <3>5. Reach(n)' = {n} \cup UNION {Reach(p)' : p \in Parents(n)'}
      BY <1>6, <3>3, <3>4
    <3>6. MergedTree(commits[n].parents[1], commits[n].parents[2])' = MergedTree(a, b)
      BY <1>6, <3>1
    <3>7. MergedTree(a, b) \subseteq tree
      BY <1>3, <2>2
    <3>8. MergeReproducible(n)' \/ n \in Reach(target)'
      <4>1. CASE tree = MergedTree(a, b)
        BY <1>5, <3>6, <4>1 DEF MergeReproducible
      <4>2. CASE target' = n
        BY <4>2 DEF Advances, GraphInv
      <4> QED BY <1>1, <1>3, <2>2, <4>1, <4>2
    <3> QED BY <1>5, <3>5, <3>6, <3>7, <3>8 DEF Grown
  <2> QED BY <2>1, <2>2
<1>8. ASSUME NEW m \in Objects' PROVE m \in Objects \/ m = n
  BY <1>2, <1>4 DEF Objects
<1>9. GrowthInv'
  BY <1>7, <1>8, StillGrown DEF GrowthInv
<1>10. Diff(n)'.removed = Tree(a) \ tree
  <2>1. Parent(n)' = a
    BY <1>4, <1>5 DEF Parent
  <2>2. (Tree(Parent(n)))' = Tree(a)
    BY <1>6, <2>1 DEF Tree
  <2> QED BY <1>5, <2>2 DEF Diff
<1>11. Removed' = Removed \cup (Tree(a) \ tree)
  <2>1. ASSUME NEW m \in 2..Len(commits)', m # n PROVE Diff(m)'.removed \subseteq Removed
    <3>1. m \in Objects \ {1} /\ m \in 2..Len(commits)
      BY <1>2, <1>4, <2>1 DEF Objects
    <3> QED BY <3>1, Lasting DEF Removed
  <2>2. n \in 2..Len(commits)'
    BY <1>2, <1>4
  <2>3. Removed' \subseteq Removed \cup (Tree(a) \ tree)
    BY <1>10, <2>1 DEF Removed
  <2>4. Tree(a) \ tree \subseteq Removed'
    BY <1>10, <2>2 DEF Removed
  <2> QED BY <2>3, <2>4, Lasting
<1> QED BY <1>1, <1>3, <1>5, <1>9, <1>11 DEF Tree

(* Max of a bounded set of numbers is one of them.                          *)
LEMMA MaxLaw ==
  ASSUME NEW S \in SUBSET Nat, S # {}, NEW k \in Nat, \A m \in S : m <= k
  PROVE  Max(S) \in S
<1>1. \E n \in S : \A m \in S : n >= m
  <2>1. PICK n \in S : \A m \in S : m <= n
    BY GreatestExists
  <2>2. \A m \in S : n >= m
    BY <2>1
  <2> QED BY <2>2
<1> QED BY <1>1 DEF Max

Touches(n, x) == x \in Diff(n).added \cup Diff(n).removed

(* A replay lacks what a commit took out, or what the target lacked and no  *)
(* pick touches.                                                           *)
LEMMA ReplayLacks ==
  ASSUME GraphFacts, NEW picked \in SUBSET UniqueCommits(target, source),
         NEW x \in Changes, x \notin Replayed(picked)
  PROVE  x \in Removed \/ (x \notin Tree(target) /\ \A n \in picked : ~Touches(n, x))
<1> DEFINE touching == {n \in picked : x \in Diff(n).added \cup Diff(n).removed}
<1>1. ~(IF touching = {} THEN x \in Tree(target) ELSE x \in Tree(Max(touching)))
  BY DEF Replayed
<1>2. CASE touching = {}
  BY <1>1, <1>2 DEF Touches
<1>3. CASE touching # {}
  <2>1. source \in Objects /\ target \in Objects /\ Len(commits) \in Nat
    BY DEF GraphFacts, Invariant, TypeOK, Objects
  <2>2. UniqueCommits(target, source) \subseteq Objects \ {1}
    BY <2>1, RootReached DEF UniqueCommits, GraphFacts, Invariant, GraphInv
  <2>3. touching \in SUBSET Nat /\ \A m \in touching : m <= Len(commits)
    BY <2>1, <2>2 DEF Objects
  <2>4. PICK k \in touching : k = Max(touching)
    <3> HIDE DEF touching
    <3> QED BY <1>3, <2>1, <2>3, MaxLaw
  <2>5. x \notin Tree(k)
    BY <1>1, <1>3, <2>4
  <2>6. x \in Diff(k).removed
    BY <2>4, <2>5 DEF Diff
  <2>7. k \in 2..Len(commits)
    <3>1. k \in Objects \ {1}
      BY <2>2, <2>4
    <3> QED BY <2>1, <3>1 DEF Objects
  <2> QED BY <2>6, <2>7 DEF Removed
<1> QED BY <1>2, <1>3

(* It has of what no pick touches only what the target had.                 *)
LEMMA ReplayHas ==
  ASSUME NEW picked, NEW x \in Replayed(picked), \A n \in picked : ~Touches(n, x)
  PROVE  x \in Tree(target)
<1>1. {n \in picked : x \in Diff(n).added \cup Diff(n).removed} = {}
  BY DEF Touches
<1> QED BY <1>1 DEF Replayed

(* The first k commits to replay.                                           *)
Picked(k) ==
  {n \in UniqueCommits(target, source) :
     Cardinality({m \in UniqueCommits(target, source) : m <= n}) <= k}

LEMMA PickedLaw ==
  ASSUME Invariant
  PROVE  /\ Cardinality(UniqueCommits(target, source)) \in Nat
         /\ Picked(Cardinality(UniqueCommits(target, source))) = UniqueCommits(target, source)
         /\ \A k \in Nat : Picked(k) \subseteq Picked(k + 1)
<1> DEFINE todo == UniqueCommits(target, source)
<1>1. IsFiniteSet(todo)
  <2>1. todo \subseteq Objects
    BY DEF Invariant, TypeOK, Objects, GraphInv, UniqueCommits
  <2>2. IsFiniteSet(Objects)
    BY FS_Interval DEF Invariant, TypeOK, Objects
  <2> QED BY <2>1, <2>2, FS_Subset
<1>2. ASSUME NEW n \in todo
      PROVE  /\ Cardinality({m \in todo : m <= n}) \in Nat
             /\ Cardinality({m \in todo : m <= n}) <= Cardinality(todo)
  <2> DEFINE below == {m \in todo : m <= n}
  <2>1. below \subseteq todo
    OBVIOUS
  <2> HIDE DEF below, todo
  <2>2. IsFiniteSet(below) /\ Cardinality(below) <= Cardinality(todo)
    BY <1>1, <2>1, FS_Subset
  <2>3. Cardinality(below) \in Nat
    BY <2>2, FS_CardinalityType
  <2> QED BY <2>2, <2>3 DEF below
<1>3. Cardinality(todo) \in Nat
  BY <1>1, FS_CardinalityType
<1>4. ASSUME NEW k \in Nat, NEW n \in Picked(k) PROVE n \in Picked(k + 1)
  <2>1. n \in todo /\ Cardinality({m \in todo : m <= n}) <= k
    BY DEF Picked
  <2>2. PICK c \in Nat : c = Cardinality({m \in todo : m <= n})
    BY <1>2, <2>1
  <2>3. c <= k + 1
    BY <2>1, <2>2
  <2> QED BY <2>1, <2>2, <2>3 DEF Picked
<1>5. Picked(Cardinality(todo)) = todo
  BY <1>2 DEF Picked
<1> QED BY <1>3, <1>4, <1>5

(* What a rebase appends.                                                   *)
LEMMA RebaseShape ==
  ASSUME Invariant, Rebase, UniqueCommits(target, source) # {}
  PROVE  \E new \in Seq(Commit) :
           /\ Len(new) = Cardinality(UniqueCommits(target, source)) /\ Len(new) # 0
           /\ commits' = commits \o new
           /\ target' = Len(commits) + Len(new)
           /\ \A k \in 1..Len(new) :
                /\ new[k].parents = <<IF k = 1 THEN target ELSE Len(commits) + k - 1>>
                /\ new[k].tree = Replayed(Picked(k))
                /\ new[k].reach = Reach(target) \cup Len(commits) + 1 .. Len(commits) + k
<1> DEFINE todo == UniqueCommits(target, source)
           count == Cardinality(todo)
           First(k) == {n \in todo : Cardinality({m \in todo : m <= n}) <= k}
           replay == [k \in 1..count |->
             [parents |-> <<IF k = 1 THEN target ELSE Len(commits) + k - 1>>,
              tree |-> Replayed(First(k)),
              reach |-> Reach(target) \cup Len(commits) + 1 .. Len(commits) + k]]
<1>1. commits' = commits \o replay /\ target' = Len(commits) + count
  BY DEF Rebase
<1>2. count \in Nat /\ count # 0
  <2>1. todo \subseteq Objects
    BY DEF Invariant, TypeOK, Objects, GraphInv, UniqueCommits
  <2>2. IsFiniteSet(Objects)
    BY FS_Interval DEF Invariant, TypeOK, Objects
  <2>3. IsFiniteSet(todo)
    BY <2>1, <2>2, FS_Subset
  <2> QED BY <2>3, FS_CardinalityType, FS_EmptySet
<1>3. Len(commits) \in Nat /\ target \in Nat /\ Reach(target) \subseteq Nat
  BY DEF Invariant, TypeOK, GraphInv, Objects
<1>4. \A k : First(k) = Picked(k)
  BY DEF Picked
<1> HIDE DEF count, First
<1>5. ASSUME NEW k \in 1..count
      PROVE  replay[k] \in Commit
  <2>1. (IF k = 1 THEN target ELSE Len(commits) + k - 1) \in Nat
    BY <1>2, <1>3, <1>5
  <2>2. <<IF k = 1 THEN target ELSE Len(commits) + k - 1>> \in Seq(Nat)
    BY <2>1
  <2>3. Replayed(First(k)) \subseteq Changes
    BY DEF Replayed
  <2>4. Reach(target) \cup (Len(commits) + 1 .. Len(commits) + k) \subseteq Nat
    BY <1>2, <1>3, <1>5
  <2> QED BY <2>2, <2>3, <2>4 DEF Commit
<1>6. replay \in Seq(Commit) /\ Len(replay) = count
  <2>1. replay \in [1..count -> Commit]
    <3>1. replay = [k \in 1..count |-> replay[k]]
      OBVIOUS
    <3> HIDE DEF replay
    <3> QED BY <1>5, <3>1
  <2> HIDE DEF replay
  <2> QED BY <1>2, <2>1
<1>7. ASSUME NEW k \in 1..count
      PROVE  /\ replay[k].parents = <<IF k = 1 THEN target ELSE Len(commits) + k - 1>>
             /\ replay[k].tree = Replayed(Picked(k))
             /\ replay[k].reach = Reach(target) \cup Len(commits) + 1 .. Len(commits) + k
  BY <1>4
<1> HIDE DEF replay
<1> QED BY <1>1, <1>2, <1>6, <1>7 DEF count

(* A rebase takes nothing out that no commit took out, and it brings the    *)
(* rest of the source.                                                     *)
LEMMA RebaseGrows ==
  ASSUME GraphFacts, Advances, Rebase, UniqueCommits(target, source) # {}
  PROVE  /\ GrowthInv'
         /\ Removed' \subseteq Removed
         /\ Tree(source) \ Tree(target)' \subseteq Removed
<1>1. PICK new \in Seq(Commit) :
         /\ Len(new) = Cardinality(UniqueCommits(target, source)) /\ Len(new) # 0
         /\ commits' = commits \o new
         /\ target' = Len(commits) + Len(new)
         /\ \A k \in 1..Len(new) :
              /\ new[k].parents = <<IF k = 1 THEN target ELSE Len(commits) + k - 1>>
              /\ new[k].tree = Replayed(Picked(k))
              /\ new[k].reach = Reach(target) \cup Len(commits) + 1 .. Len(commits) + k
  BY RebaseShape DEF GraphFacts
<1>2. PICK len \in Nat, count \in Nat \ {0} : len = Len(commits) /\ count = Len(new)
  BY <1>1 DEF GraphFacts, Invariant, TypeOK
<1>3. /\ source \in Objects /\ target \in Objects /\ commits \in Seq(Commit)
      /\ Objects = 1..len /\ Objects' = 1..(len + count) /\ Len(commits)' = len + count
  <2>1. commits \in Seq(Commit)
    BY DEF GraphFacts, Invariant, TypeOK
  <2>2. Len(commits') = len + count
    <3>1. PICK s \in Seq(Commit) : s = commits
      BY <2>1
    <3>2. Len(s \o new) = Len(s) + Len(new)
      OBVIOUS
    <3> QED BY <1>1, <1>2, <3>1, <3>2
  <2> QED BY <1>2, <2>1, <2>2 DEF GraphFacts, Invariant, TypeOK, Objects
<1>4. \A k \in 1..count : commits'[len + k] = new[k]
  BY <1>1, <1>2, <1>3
<1>5. ASSUME NEW n \in Objects', n \notin Objects
      PROVE  \E k \in 1..count : n = len + k
  <2>1. n - len \in 1..count /\ n = len + (n - len)
    BY <1>3, <1>5
  <2> QED BY <2>1
<1>6. ASSUME NEW k \in 1..count
      PROVE  \E p \in Nat :
               /\ p = IF k = 1 THEN target ELSE len + k - 1
               /\ Parents(len + k)' = {p} /\ ~IsMerge(len + k)' /\ Parent(len + k)' = p
  <2>1. PICK p \in Nat : p = IF k = 1 THEN target ELSE len + k - 1
    BY <1>3
  <2>2. commits'[len + k].parents = <<p>>
    BY <1>1, <1>2, <1>4, <2>1
  <2>3. Len(<<p>>) = 1 /\ DOMAIN <<p>> = {1} /\ <<p>>[1] = p
    <3>1. DOMAIN <<p>> = 1..1 /\ 1..1 = {1}
      OBVIOUS
    <3> QED BY <3>1
  <2>4. Parents(len + k)' = {p} /\ ~IsMerge(len + k)' /\ Parent(len + k)' = p
    BY <2>2, <2>3 DEF Parents, IsMerge, Parent
  <2> QED BY <2>1, <2>4
<1>7. ASSUME NEW k \in 1..count
      PROVE  /\ Reach(len + k)' = Reach(target) \cup len + 1 .. len + k
             /\ Tree(len + k)' = Replayed(Picked(k))
  BY <1>1, <1>2, <1>4 DEF Reach, Tree
<1>8. GrowthInv'
  <2>1. ASSUME NEW k \in 1..count PROVE Grown(len + k)'
    <3>1. PICK p \in Nat :
            /\ p = IF k = 1 THEN target ELSE len + k - 1
            /\ Parents(len + k)' = {p} /\ ~IsMerge(len + k)'
      BY <1>6
    <3>2. Reach(len + k)' = {len + k} \cup Reach(p)'
      <4>1. CASE k = 1
        <5>1. commits'[p] = commits[p] /\ p = target
          BY <1>3, <3>1, <4>1 DEF Advances
        <5>2. Reach(p)' = Reach(target)
          BY <5>1 DEF Reach
        <5>3. len + 1 .. len + k = {len + k}
          BY <4>1
        <5> QED BY <1>7, <5>2, <5>3
      <4>2. CASE k # 1
        <5>1. k - 1 \in 1..count /\ p = len + (k - 1)
          BY <3>1, <4>2
        <5>2. Reach(p)' = Reach(target) \cup len + 1 .. len + (k - 1)
          BY <1>7, <5>1
        <5>3. len + 1 .. len + k = {len + k} \cup (len + 1 .. len + (k - 1))
          BY <4>2
        <5> QED BY <1>7, <5>2, <5>3
      <4> QED BY <4>1, <4>2
    <3> QED BY <3>1, <3>2 DEF Grown
  <2>2. ASSUME NEW n \in Objects' \ {1} PROVE Grown(n)'
    <3>1. CASE n \in Objects
      BY <3>1, StillGrown
    <3>2. CASE n \notin Objects
      BY <1>5, <2>1, <3>2
    <3> QED BY <3>1, <3>2
  <2> QED BY <2>2 DEF GrowthInv
<1>9. ASSUME NEW k \in 1..count, NEW x \in Diff(len + k)'.removed PROVE x \in Removed
  <2>1. PICK p \in Nat : p = (IF k = 1 THEN target ELSE len + k - 1) /\ Parent(len + k)' = p
    BY <1>6
  <2>2. x \in Tree(p)' /\ x \notin Replayed(Picked(k))
    <3>1. x \in (Tree(Parent(len + k)))' /\ x \notin Tree(len + k)'
      BY <1>9 DEF Diff
    <3> QED BY <1>7, <2>1, <3>1 DEF Tree
  <2>3. Picked(k) \subseteq UniqueCommits(target, source)
    BY DEF Picked
  <2>4. CASE k = 1
    <3>1. Tree(p)' = Tree(target)
      BY <1>3, <2>1, <2>4, Lasting
    <3>2. Tree(target) \subseteq Changes
      BY <1>3, TreesTyped DEF GraphFacts, Invariant
    <3> QED BY <2>2, <2>3, <3>1, <3>2, ReplayLacks
  <2>5. CASE k # 1
    <3>1. k - 1 \in 1..count /\ p = len + (k - 1) /\ k - 1 \in Nat /\ (k - 1) + 1 = k
      BY <2>1, <2>5
    <3>2. x \in Replayed(Picked(k - 1))
      BY <1>7, <2>2, <3>1
    <3>3. Picked(k - 1) \subseteq Picked(k)
      BY <3>1, PickedLaw DEF GraphFacts
    <3>4. x \in Changes
      BY <3>2 DEF Replayed
    <3> QED BY <2>2, <2>3, <3>2, <3>3, <3>4, ReplayLacks, ReplayHas
  <2> QED BY <2>4, <2>5
<1>10. Removed' \subseteq Removed
  <2>1. ASSUME NEW n \in 2..Len(commits)' PROVE Diff(n)'.removed \subseteq Removed
    <3>1. CASE n \in Objects
      <4>1. n \in Objects \ {1} /\ n \in 2..Len(commits)
        BY <1>2, <1>3, <3>1
      <4> QED BY <4>1, Lasting DEF Removed
    <3>2. CASE n \notin Objects
      <4>1. n \in Objects'
        BY <1>3
      <4> QED BY <1>5, <1>9, <3>2, <4>1
    <3> QED BY <3>1, <3>2
  <2> QED BY <2>1 DEF Removed
<1>11. ASSUME NEW x \in Tree(source), x \notin Tree(target)' PROVE x \in Removed
  <2>1. count \in 1..count /\ target' = len + count
    BY <1>1, <1>2
  <2>2. x \notin Replayed(UniqueCommits(target, source))
    <3>1. x \notin Tree(len + count)'
      BY <1>11, <2>1 DEF Tree
    <3> QED BY <1>1, <1>2, <1>7, <2>1, <3>1, PickedLaw DEF GraphFacts
  <2>3. x \in Changes
    BY <1>3, TreesTyped DEF GraphFacts, Invariant
  <2>4. CASE x \notin Tree(target) /\ \A n \in UniqueCommits(target, source) : ~Touches(n, x)
    <3>1. PICK c \in Reach(source) \ {1} :
            /\ x \in Tree(c)
            /\ \/ ~IsMerge(c) /\ HasPatch(c) /\ x \in Diff(c).added
               \/ IsMerge(c) /\ c \in Reach(target)
      BY <1>3, Brought
    <3>2. c \in Reach(target)
      BY <2>4, <3>1 DEF Touches, UniqueCommits
    <3> QED BY <1>3, <2>4, <3>1, <3>2, Inherited DEF TakenInv
  <2> QED BY <2>2, <2>3, <2>4, ReplayLacks
<1> QED BY <1>8, <1>10, <1>11

-----------------------------------------------------------------------------
(* Every step keeps it. *)

(* The target loses nothing that no commit took out.                        *)
LEMMA TargetHolds ==
  ASSUME GraphFacts, GraphFacts', Advances
  PROVE  Tree(target) \ Tree(target)' \subseteq Removed'
<1>1. TakenInv'
  BY Inherited, PTL
<1>2. target \in Objects /\ target' \in Objects'
  BY DEF GraphFacts, Invariant, TypeOK, Objects
<1>3. target \in Reach(target)'
  BY <1>2 DEF Advances, GraphFacts, Invariant, GraphInv
<1>4. Tree(target) = commits'[target].tree
  BY <1>2 DEF Advances, Tree
<1> QED BY <1>1, <1>2, <1>3, <1>4 DEF TakenInv, Tree

(* No request becomes merged.                                               *)
LEMMA RecordsStay ==
  ASSUME GraphFacts, RecordsInv, GraphFacts', Advances,
         latest' # None => requests'[latest'].state = "merged",
         \A i \in DOMAIN requests' :
           requests'[i].state = "merged" =>
             i \in DOMAIN requests /\ requests[i].state = "merged"
             /\ requests'[i].merged = requests[i].merged
  PROVE  RecordsInv'
<1> SUFFICES ASSUME NEW i \in DOMAIN requests', requests'[i].state = "merged"
             PROVE  commits'[requests'[i].merged].tree \ Tree(target)' \subseteq Removed'
  BY DEF RecordsInv, Tree
<1>1. PICK m \in Objects : m = requests[i].merged /\ m = requests'[i].merged
                           /\ Tree(m) \ Tree(target) \subseteq Removed
  BY DEF RecordsInv, GraphFacts, Invariant, RequestsInv
<1>2. commits'[m].tree = Tree(m)
  BY DEF Advances, Tree
<1> QED BY <1>1, <1>2, TargetHolds, Lasting

(* One becomes merged, and what it proposed is on the target.               *)
LEMMA RecordsMerge ==
  ASSUME GraphFacts, RecordsInv, GraphFacts', Advances,
         NEW i \in DOMAIN requests, NEW method, Merged(i, method),
         Tree(source) \ Tree(target)' \subseteq Removed'
  PROVE  RecordsInv'
<1>1. /\ requests \in Seq(Request) /\ requests[i] \in Request /\ latest' = i
      /\ source \in Objects
  BY DEF GraphFacts, Invariant, TypeOK, Merged, Objects
<1>2. \A j \in DOMAIN requests' :
        /\ j \in DOMAIN requests
        /\ j # i => requests'[j] = requests[j]
  BY <1>1 DEF Merged
<1>3. requests'[i].state = "merged" /\ requests'[i].merged = source
  BY <1>1 DEF Merged, Request
<1>4. ASSUME NEW j \in DOMAIN requests', requests'[j].state = "merged"
      PROVE  commits'[requests'[j].merged].tree \ Tree(target)' \subseteq Removed'
  <2>1. CASE j = i
    <3>1. commits'[source].tree = Tree(source)
      BY <1>1 DEF Advances, Tree
    <3> QED BY <1>3, <2>1, <3>1
  <2>2. CASE j # i
    <3>1. PICK m \in Objects : m = requests'[j].merged /\ Tree(m) \ Tree(target) \subseteq Removed
      BY <1>2, <1>4, <2>2 DEF RecordsInv, GraphFacts, Invariant, RequestsInv
    <3>2. commits'[m].tree = Tree(m)
      BY DEF Advances, Tree
    <3> QED BY <3>1, <3>2, TargetHolds, Lasting
  <2> QED BY <2>1, <2>2
<1> QED BY <1>1, <1>3, <1>4 DEF RecordsInv, Tree

(* The forge stays as it is.                                                *)
LEMMA RecordsSame ==
  ASSUME GraphFacts, RecordsInv, GraphFacts', Advances, UNCHANGED forge
  PROVE  RecordsInv'
BY RecordsStay DEF forge, RecordsInv

(* An open request is closed, or a merged one written to.                   *)
LEMMA RecordsClosing ==
  ASSUME GraphFacts, RecordsInv, GraphFacts', Advances, NEW i \in DOMAIN requests, Closing(i)
  PROVE  RecordsInv'
<1>1. requests[i] \in Request /\ requests \in Seq(Request)
  BY DEF GraphFacts, Invariant, TypeOK
<1>2. /\ DOMAIN requests' = DOMAIN requests
      /\ \A j \in DOMAIN requests :
           /\ requests'[j].state = "merged" <=> requests[j].state = "merged"
           /\ requests'[j].merged = requests[j].merged
  BY <1>1 DEF Closing, Request
<1>3. latest' # None => requests'[latest'].state = "merged"
  <2>1. CASE requests[i].state = "merged"
    BY <1>2, <2>1 DEF Closing, Touched
  <2>2. CASE requests[i].state # "merged"
    BY <1>2, <2>2 DEF Closing, Touched, RecordsInv, GraphFacts, Invariant, TypeOK
  <2> QED BY <2>1, <2>2
<1> QED BY <1>2, <1>3, RecordsStay

(* The source moves to a tree.                                              *)
LEMMA ReturnSource ==
  ASSUME ContentInv, NEW tree, SourceBecomes(tree), Tree(source)' = tree,
         Removed' \subseteq Removed \cup (Tree(source) \ tree), retracted' = retracted
  PROVE  ReturnInv'
<1> SUFFICES ASSUME relands' = 0, NEW x \in Removed', x \in Tree(source)'
             PROVE  x \in retracted
  BY DEF ReturnInv
<1>1. relands = 0 /\ (tree \ Tree(source)) \cap Removed = {}
  BY DEF SourceBecomes, ContentInv, GraphFacts, Invariant, TypeOK
<1> QED BY <1>1 DEF ContentInv, ReturnInv

(* The target moves, or nothing.                                            *)
LEMMA ReturnTarget ==
  ASSUME ContentInv, Advances, source' = source, relands' = relands,
         retracted \subseteq retracted', Removed' \cap Tree(source) \subseteq Removed \cup retracted'
  PROVE  ReturnInv'
<1>1. Tree(source)' = Tree(source)
  BY DEF ContentInv, GraphFacts, Invariant, TypeOK, Objects, Advances, Tree
<1> QED BY <1>1 DEF ContentInv, ReturnInv

(* A commit on the source, or a merge of the target into it.                *)
LEMMA SourceGrows ==
  ASSUME ContentInv, Invariant', HistoryInv', Advances, NEW tree \in SUBSET Changes,
         \/ commits' = Append(commits, Child(source, tree))
         \/ /\ commits' = Append(commits, MergeOf(source, target, tree))
            /\ tree = MergedTree(source, target),
         source' = NextNumber, SourceBecomes(tree), UNCHANGED <<forge, history>>
  PROVE  ContentInv'
<1>1. source \in Objects /\ target \in Objects
  BY DEF ContentInv, GraphFacts, Invariant, TypeOK, Objects
<1>2. /\ GrowthInv'
      /\ Removed' = Removed \cup (Tree(source) \ tree) /\ Tree(source)' = tree
  BY <1>1, OneGrows DEF ContentInv, Tree
<1>3. GraphFacts'
  BY <1>2 DEF GraphFacts
<1>4. ReturnInv'
  BY <1>2, ReturnSource DEF history
<1>5. RecordsInv'
  BY <1>3, RecordsSame DEF ContentInv
<1> QED BY <1>3, <1>4, <1>5 DEF ContentInv

(* A commit on the target, or a merge of the source into it that loses      *)
(* nothing git's own would have.                                           *)
LEMMA TargetGrows ==
  ASSUME ContentInv, Invariant', HistoryInv', Advances, NEW tree \in SUBSET Changes,
         \/ commits' = Append(commits, Child(target, tree))
         \/ /\ commits' = Append(commits, MergeOf(target, source, tree))
            /\ MergedTree(target, source) \subseteq tree,
         target' = NextNumber
  PROVE  GraphFacts' /\ Removed' = Removed \cup (Tree(target) \ tree) /\ Tree(target)' = tree
<1>1. source \in Objects /\ target \in Objects
  BY DEF ContentInv, GraphFacts, Invariant, TypeOK, Objects
<1> QED BY <1>1, OneGrows DEF ContentInv, GraphFacts, Tree

LEMMA SourceContent ==
  ASSUME ContentInv, Invariant', HistoryInv', NEW tree \in SUBSET Changes, CommitToSource(tree)
  PROVE  ContentInv'
<1>1. source \in Objects /\ TypeOK /\ GraphInv
  BY DEF ContentInv, GraphFacts, Invariant, TypeOK, Objects
<1>2. Child(source, tree) \in Commit /\ Child(source, tree).reach = Reach(source) \cup {NextNumber}
  BY <1>1, CommitsTyped DEF Child
<1>3. Advances
  BY <1>1, <1>2, ReachClosed, SourceAdvances DEF CommitToSource
<1> QED BY <1>3, SourceGrows DEF CommitToSource

LEMMA BackMergeContent ==
  ASSUME ContentInv, Invariant', HistoryInv', BackMerge
  PROVE  ContentInv'
<1> DEFINE tree == MergedTree(source, target)
           c == MergeOf(source, target, tree)
<1>1. source \in Objects /\ target \in Objects /\ TypeOK /\ GraphInv
  BY DEF ContentInv, GraphFacts, Invariant, TypeOK, Objects
<1>2. tree \in SUBSET Changes /\ c \in Commit /\ c.reach = Reach(source) \cup Reach(target) \cup {NextNumber}
  BY <1>1, CommitsTyped, TreesTyped DEF MergeOf
<1>3. Closed(Reach(source) \cup Reach(target))
  BY <1>1, ReachClosed
<1>4. commits' = Append(commits, c) /\ source' = NextNumber /\ target' = target
      /\ SourceBecomes(tree) /\ UNCHANGED <<forge, history>>
  BY DEF BackMerge
<1>5. Advances
  <2> HIDE DEF c
  <2> QED BY <1>1, <1>2, <1>3, <1>4, SourceAdvances
<1>6. commits' = Append(commits, MergeOf(source, target, tree)) /\ tree = MergedTree(source, target)
  BY <1>4
<1> HIDE DEF tree, c
<1> QED BY <1>2, <1>4, <1>5, <1>6, SourceGrows

LEMMA RewriteContent ==
  ASSUME ContentInv, Invariant', HistoryInv', NEW n \in Reach(source), RewriteSource(n)
  PROVE  ContentInv'
<1>1. source \in Objects /\ target \in Objects /\ n \in Objects /\ Reach(n) \subseteq Reach(source)
  BY DEF ContentInv, GraphFacts, Invariant, TypeOK, GraphInv, Objects
<1>2. UNCHANGED <<commits, target, forge, retracted>> /\ source' = n /\ SourceBecomes(Tree(n))
  BY DEF RewriteSource, history
<1>3. Reach(source)' = Reach(n) /\ Reach(target)' = Reach(target) /\ Objects' = Objects
  BY <1>2 DEF Reach, Objects
<1>4. Advances
  BY <1>1, <1>2, <1>3 DEF Advances, ContentInv, GraphFacts, Invariant, TypeOK
<1>5. GrowthInv' /\ Tree(source)' = Tree(n) /\ Removed' = Removed
  <2>1. GrowthInv'
    BY <1>3, <1>4, StillGrown DEF GrowthInv, ContentInv
  <2>2. Removed' = Removed
    BY <1>2 DEF Removed, Diff, Tree, Parent
  <2> QED BY <1>2, <2>1, <2>2 DEF Tree
<1>6. GraphFacts'
  BY <1>5 DEF GraphFacts
<1>7. RecordsInv'
  BY <1>2, <1>4, <1>6, RecordsSame DEF ContentInv
<1>8. ReturnInv'
  BY <1>2, <1>5, ReturnSource
<1> QED BY <1>6, <1>7, <1>8 DEF ContentInv

(* People pick to the target, or take a change off it.                      *)
LEMMA PickContent ==
  ASSUME ContentInv, Invariant', HistoryInv', NEW x \in Changes, Hotfix(x) \/ RevertOnTarget(x)
  PROVE  ContentInv'
<1>1. target \in Objects /\ Invariant
  BY DEF ContentInv, GraphFacts, Invariant, TypeOK, Objects
<1>2. PICK tree \in SUBSET Changes :
        /\ commits' = Append(commits, Child(target, tree))
        /\ Tree(target) \ tree \subseteq retracted'
  <2>1. Tree(target) \subseteq Changes
    BY <1>1, TreesTyped DEF Invariant
  <2>2. Tree(target) \cup {x} \in SUBSET Changes /\ Tree(target) \ {x} \in SUBSET Changes
    BY <2>1
  <2> QED BY <2>2 DEF Hotfix, RevertOnTarget
<1>3. /\ target' = NextNumber /\ UNCHANGED <<source, forge, relands>>
      /\ retracted \subseteq retracted'
  BY DEF Hotfix, RevertOnTarget, counters
<1>4. Advances
  BY <1>1, <1>2, <1>3, CommitToTarget
<1>5. GraphFacts' /\ Removed' = Removed \cup (Tree(target) \ tree)
  BY <1>2, <1>3, <1>4, TargetGrows
<1>6. RecordsInv'
  BY <1>3, <1>4, <1>5, RecordsSame DEF ContentInv
<1>7. ReturnInv'
  BY <1>2, <1>3, <1>4, <1>5, ReturnTarget
<1> QED BY <1>5, <1>6, <1>7 DEF ContentInv

(* Merging or squashing the source into the target takes out only what the  *)
(* source lacks, and brings what it has.                                   *)
LEMMA JoinContent ==
  ASSUME ContentInv, Invariant', HistoryInv', NEW tree \in SUBSET Changes,
         \/ commits' = Append(commits, Child(target, tree))
         \/ commits' = Append(commits, MergeOf(target, source, tree)),
         MergedTree(target, source) \subseteq tree,
         target' = NextNumber, source' = source, UNCHANGED <<retracted, relands>>
  PROVE  /\ Advances /\ GraphFacts' /\ ReturnInv'
         /\ Tree(source) \ Tree(target)' \subseteq Removed'
<1>1. source \in Objects /\ target \in Objects /\ Invariant /\ GraphFacts
  BY DEF ContentInv, GraphFacts, Invariant, TypeOK, Objects
<1>2. Advances
  BY <1>1, CommitToTarget, MergeToTarget
<1>3. GraphFacts' /\ Removed' = Removed \cup (Tree(target) \ tree) /\ Tree(target)' = tree
  BY <1>2, TargetGrows
<1>4. /\ (Tree(source) \cup Tree(target)) \ MergedTree(target, source) \subseteq Removed
      /\ (Tree(target) \ MergedTree(target, source)) \cap Tree(source) = {}
  BY <1>1, MergedLaw
<1>5. ReturnInv'
  BY <1>2, <1>3, <1>4, ReturnTarget
<1> QED BY <1>2, <1>3, <1>4, <1>5

LEMMA MergeRequestContent ==
  ASSUME ContentInv, Invariant', HistoryInv', NEW i \in DOMAIN requests, MergeRequest(i)
  PROVE  ContentInv'
<1>1. source \in Objects /\ target \in Objects /\ Invariant /\ GraphFacts /\ RecordsInv
  BY DEF ContentInv, GraphFacts, Invariant, TypeOK, Objects
<1>2. UNCHANGED <<source, retracted, relands>>
  BY DEF MergeRequest, history, counters
<1>3. MergedTree(target, source) \in SUBSET Changes
  BY <1>1, TreesTyped DEF Invariant
<1>4. /\ Advances /\ GraphFacts' /\ ReturnInv'
      /\ Tree(source) \ Tree(target)' \subseteq Removed'
  <2>1. CASE MergeCommit
    BY <1>2, <1>3, <2>1, JoinContent DEF MergeCommit
  <2>2. CASE Squash
    BY <1>2, <1>3, <2>2, JoinContent DEF Squash
  <2>3. CASE Rebase
    <3>1. UniqueCommits(target, source) # {}
      BY DEF MergeRequest
    <3>2. Advances
      BY <1>1, <1>2, <2>3, <3>1, RebaseAdvances
    <3>3. GrowthInv' /\ Removed' \subseteq Removed /\ Tree(source) \ Tree(target)' \subseteq Removed
      BY <1>1, <2>3, <3>1, <3>2, RebaseGrows
    <3>4. Removed \subseteq Removed'
      BY <1>1, <3>2, Lasting
    <3>5. ReturnInv'
      BY <1>2, <3>2, <3>3, ReturnTarget
    <3> QED BY <3>2, <3>3, <3>4, <3>5 DEF GraphFacts
  <2> QED BY <2>1, <2>2, <2>3 DEF MergeRequest
<1>5. RecordsInv'
  <2>1. PICK method \in MergeMethods : Merged(i, method)
    BY DEF MergeRequest, MergeMethods
  <2> QED BY <1>1, <1>4, <2>1, RecordsMerge
<1> QED BY <1>4, <1>5 DEF ContentInv

LEMMA ManualMergeContent ==
  ASSUME ContentInv, Invariant', HistoryInv', NEW x \in Changes, ManualMerge(x)
  PROVE  ContentInv'
<1>1. source \in Objects /\ target \in Objects /\ Invariant /\ GraphFacts /\ RecordsInv
  BY DEF ContentInv, GraphFacts, Invariant, TypeOK, Objects
<1>2. PICK tree \in SUBSET Changes : tree = MergedTree(target, source) \cup {x}
  BY <1>1, TreesTyped DEF Invariant
<1>3. /\ UNCHANGED <<source, retracted, relands>> /\ target' = NextNumber
      /\ commits' = Append(commits, MergeOf(target, source, tree))
  BY <1>2 DEF ManualMerge, counters
<1>4. /\ Advances /\ GraphFacts' /\ ReturnInv'
      /\ Tree(source) \ Tree(target)' \subseteq Removed'
  BY <1>2, <1>3, JoinContent
<1>5. RecordsInv'
  <2>1. CASE OpenIds = {}
    BY <1>1, <1>4, <2>1, RecordsSame DEF ManualMerge
  <2>2. CASE OpenIds # {}
    <3>1. PICK i \in OpenIds : Merged(i, "merge")
      BY <2>2 DEF ManualMerge
    <3> QED BY <1>1, <1>4, <3>1, RecordsMerge DEF OpenIds
  <2> QED BY <2>1, <2>2
<1> QED BY <1>4, <1>5 DEF ContentInv

(* A step that leaves the branches alone.                                   *)
LEMMA QuietContent ==
  ASSUME ContentInv, Invariant', HistoryInv', UNCHANGED <<branches, history, relands>>
  PROVE  Advances /\ GraphFacts' /\ ReturnInv'
<1>1. UNCHANGED <<commits, source, target, retracted, relands>>
  BY DEF branches, history
<1>2. Advances
  BY StillAdvances DEF ContentInv, GraphFacts, Invariant
<1>3. GrowthInv'
  BY <1>1, <1>2, StillGrown DEF GrowthInv, ContentInv, Objects
<1>4. Removed' = Removed
  BY <1>1 DEF Removed, Diff, Tree, Parent
<1>5. ReturnInv'
  BY <1>1, <1>2, <1>4, ReturnTarget
<1> QED BY <1>2, <1>3, <1>5 DEF GraphFacts

LEMMA CreateContent ==
  ASSUME ContentInv, Invariant', HistoryInv', NEW r \in Runs, CreateRequest(r)
  PROVE  ContentInv'
<1>1. Advances /\ GraphFacts' /\ ReturnInv'
  BY QuietContent DEF CreateRequest, counters
<1>2. requests \in Seq(Request) /\ latest' = latest /\ (latest # None => latest \in DOMAIN requests)
  BY DEF ContentInv, GraphFacts, Invariant, TypeOK, CreateRequest
<1>3. PICK new : new.state = "open" /\ (requests' = requests \/ requests' = Append(requests, new))
  <2>1. requests' = requests \/ requests' = Append(requests, [state |-> "open", baseline |-> LiveHead(r),
                                                              merged |-> 0, method |-> "none"])
    BY DEF CreateRequest
  <2> QED BY <2>1
<1>4. /\ \A j \in DOMAIN requests : requests'[j] = requests[j]
      /\ \A j \in DOMAIN requests' : j \notin DOMAIN requests => requests'[j].state = "open"
  BY <1>2, <1>3
<1>5. RecordsInv'
  BY <1>1, <1>2, <1>4, RecordsStay DEF ContentInv, RecordsInv
<1> QED BY <1>1, <1>5 DEF ContentInv

LEMMA UpdateContent ==
  ASSUME ContentInv, Invariant', HistoryInv', NEW r \in Runs, UpdateRequest(r)
  PROVE  ContentInv'
<1>1. Advances /\ GraphFacts' /\ ReturnInv'
  BY QuietContent DEF UpdateRequest, counters
<1>2. PICK i \in DOMAIN requests :
        /\ requests' = [requests EXCEPT ![i].baseline = LiveHead(r)]
        /\ latest' = Touched(i)
  <2>1. RunInv(r) /\ run[r].pc = "apply" /\ run[r].decision = "update"
    BY DEF ContentInv, GraphFacts, Invariant, UpdateRequest, Applies
  <2> QED BY <2>1 DEF RunInv, UpdateRequest
<1>3. requests[i] \in Request /\ requests \in Seq(Request)
  BY DEF ContentInv, GraphFacts, Invariant, TypeOK
<1>4. /\ DOMAIN requests' = DOMAIN requests
      /\ \A j \in DOMAIN requests :
           requests'[j].state = requests[j].state /\ requests'[j].merged = requests[j].merged
  BY <1>2, <1>3 DEF Request
<1>5. latest' # None => requests'[latest'].state = "merged"
  <2>1. CASE requests[i].state = "merged"
    BY <1>2, <1>4, <2>1 DEF Touched
  <2>2. CASE requests[i].state # "merged"
    BY <1>2, <1>4, <2>2 DEF Touched, ContentInv, RecordsInv, GraphFacts, Invariant, TypeOK
  <2> QED BY <2>1, <2>2
<1>6. RecordsInv'
  BY <1>1, <1>4, <1>5, RecordsStay DEF ContentInv
<1> QED BY <1>1, <1>6 DEF ContentInv

LEMMA CloseContent ==
  ASSUME ContentInv, Invariant', HistoryInv', NEW r \in Runs, CloseRequest(r)
  PROVE  ContentInv'
<1>1. Advances /\ GraphFacts' /\ ReturnInv'
  BY QuietContent DEF CloseRequest, counters
<1>2. PICK i \in DOMAIN requests : Closing(i)
  <2>1. RunInv(r) /\ run[r].pc = "apply" /\ run[r].decision = "close"
    BY DEF ContentInv, GraphFacts, Invariant, CloseRequest, Applies
  <2> QED BY <2>1 DEF RunInv, CloseRequest, Closing
<1>3. RecordsInv'
  BY <1>1, <1>2, RecordsClosing DEF ContentInv
<1> QED BY <1>1, <1>3 DEF ContentInv

LEMMA HandleContent ==
  ASSUME ContentInv, Invariant', HistoryInv', NEW i \in DOMAIN requests, Handle(i)
  PROVE  ContentInv'
<1>1. Advances /\ GraphFacts' /\ ReturnInv'
  BY QuietContent DEF Handle
<1>2. RecordsInv'
  BY <1>1, RecordsClosing DEF ContentInv, Handle, Closing
<1> QED BY <1>1, <1>2 DEF ContentInv

(* A step that leaves the forge alone too.                                  *)
LEMMA IdleContent ==
  ASSUME ContentInv, Invariant', HistoryInv', UNCHANGED <<branches, forge, history, relands>>
  PROVE  ContentInv'
<1>1. Advances /\ GraphFacts' /\ ReturnInv'
  BY QuietContent
<1>2. RecordsInv'
  BY <1>1, RecordsSame DEF ContentInv
<1> QED BY <1>1, <1>2 DEF ContentInv

LEMMA ContentKept ==
  ASSUME ContentInv, [Step]_vars
  PROVE  ContentInv'
<1>1. Invariant' /\ HistoryInv'
  BY StepKeeps, HistoryKept DEF ContentInv, GraphFacts
<1>2. ASSUME NEW x \in Changes, Land(x) \/ Revert(x) PROVE ContentInv'
  <2>1. source \in Objects /\ TypeOK
    BY DEF ContentInv, GraphFacts, Invariant, TypeOK, Objects
  <2>2. Tree(source) \cup {x} \in SUBSET Changes /\ Tree(source) \ {x} \in SUBSET Changes
    BY <2>1, TreesTyped
  <2> QED BY <1>1, <1>2, <2>2, SourceContent DEF Land, Revert
<1>3. ASSUME NEW x \in Changes, Hotfix(x) \/ RevertOnTarget(x) PROVE ContentInv'
  BY <1>1, <1>3, PickContent
<1>4. ASSUME NEW x \in Changes, ManualMerge(x) PROVE ContentInv'
  BY <1>1, <1>4, ManualMergeContent
<1>5. CASE BackMerge
  BY <1>1, <1>5, BackMergeContent
<1>6. ASSUME NEW n \in Reach(source), RewriteSource(n) PROVE ContentInv'
  BY <1>1, <1>6, RewriteContent
<1>7. ASSUME NEW i \in DOMAIN requests, MergeRequest(i) PROVE ContentInv'
  BY <1>1, <1>7, MergeRequestContent
<1>8. ASSUME NEW i \in DOMAIN requests, Handle(i) PROVE ContentInv'
  BY <1>1, <1>8, HandleContent
<1>9. ASSUME NEW r \in Runs, Checkout(r) \/ ListOpen(r) \/ ListMerged(r) \/ Abort(r)
      PROVE  ContentInv'
  BY <1>1, <1>9, IdleContent DEF Checkout, ListOpen, ListMerged, Abort, counters
<1>10. ASSUME NEW r \in Runs, CreateRequest(r) PROVE ContentInv'
  BY <1>1, <1>10, CreateContent
<1>11. ASSUME NEW r \in Runs, UpdateRequest(r) PROVE ContentInv'
  BY <1>1, <1>11, UpdateContent
<1>12. ASSUME NEW r \in Runs, CloseRequest(r) PROVE ContentInv'
  BY <1>1, <1>12, CloseContent
<1>13. CASE UNCHANGED vars
  BY <1>1, <1>13, IdleContent DEF vars, counters
<1> QED BY <1>2, <1>3, <1>4, <1>5, <1>6, <1>7, <1>8, <1>9, <1>10, <1>11, <1>12, <1>13
        DEF Step, People, Proceed

LEMMA InitContent == Init => ContentInv
<1> SUFFICES ASSUME Init PROVE ContentInv
  OBVIOUS
<1>1. Invariant /\ Objects = {1} /\ commits[1] = Root /\ Len(commits) = 1
  BY InitHolds DEF Init, Objects
<1>2. HistoryInv /\ GrowthInv
  BY <1>1 DEF HistoryInv, GrowthInv
<1>3. Removed = {}
  <2>1. 2..Len(commits) = {}
    BY <1>1
  <2> QED BY <2>1 DEF Removed
<1>4. RecordsInv
  BY DEF Init, RecordsInv
<1> QED BY <1>1, <1>2, <1>3, <1>4 DEF ContentInv, GraphFacts, ReturnInv

LEMMA ContentHolds == Spec => []ContentInv
BY InitContent, ContentKept, PTL DEF Spec

(* LandedIsPromoted: as long as nothing comes back to the source that was   *)
(* taken out before, an edge in sync has on the target every change of the *)
(* source, whichever rungs of the ladder say so, whatever request was      *)
(* merged how, and whatever record a late run left in it; the rest people  *)
(* took off the target (EvaluateEdge).                                     *)
THEOREM LandedPromoted == Spec => [](relands = 0 => LandedIsPromoted)
BY LandedFrom, ContentHolds, PTL

(* Without that condition: whatever an edge in sync lacks of the source,    *)
(* some commit took out again.                                             *)
THEOREM SyncLacksOnlyRemoved == Spec => [](InSync => Tree(source) \ Tree(target) \subseteq Removed)
<1>1. ContentInv => (InSync => Tree(source) \ Tree(target) \subseteq Removed)
  BY InSyncMeans DEF ContentInv
<1> QED BY <1>1, ContentHolds, PTL

-----------------------------------------------------------------------------
(* Reverts. *)

(* What source and target have in common is what b reaches.                 *)
Common(b) == Reach(source) \cap Reach(target) = Reach(b)

(* What the source lost since b, one of its own commits took out.           *)
LostSince(b) ==
  \A x \in Tree(b) \ Tree(source) :
    \E v \in UniqueCommits(target, source) : HasPatch(v) /\ x \in Diff(v).removed

(* The target gained only hotfixes since b.                                 *)
GainedSince(b) == Tree(target) \ hotfixed \subseteq Tree(b)

(* What a commit of the target took out since b is gone there, and not new  *)
(* on the source.                                                          *)
TakenOffSince(b) ==
  \A m \in UniqueCommits(source, target) : HasPatch(m) =>
    \A x \in Diff(m).removed \ hotfixed : x \notin Tree(target) /\ x \notin Tree(source) \ Tree(b)

EdgeInv ==
  rewrites = 0 =>
    \E b \in Objects :
      /\ Common(b) /\ LostSince(b)
      /\ MergeCommitsOnly => GainedSince(b) /\ (relands = 0 => TakenOffSince(b))

(* What was merged with a merge commit is reached.                          *)
MethodInv ==
  \A i \in DOMAIN requests :
    requests[i].state = "merged" /\ requests[i].method = "merge"
      => requests[i].merged \in Reach(target)

RevertInv == ContentInv /\ EdgeInv /\ MethodInv

(* Ancestors are older.                                                     *)
LEMMA ReachOlder ==
  ASSUME GraphFacts, NEW n \in Objects
  PROVE  Reach(n) \subseteq 1..n
<1> DEFINE S == {a \in Objects : ~(Reach(a) \subseteq 1..a)}
<1>1. S \in SUBSET Nat
  BY DEF Objects
<1>2. ASSUME NEW a \in S PROVE \E m \in S : m < a
  <2>1. a \in Objects /\ ~(Reach(a) \subseteq 1..a) /\ a \in Nat
    BY DEF Objects
  <2>2. a # 1
    BY <2>1, RootHolds DEF GraphFacts
  <2>3. PICK c \in Reach(a) : c \notin 1..a
    BY <2>1
  <2>4. c # a /\ c \in Nat /\ c > 0
    BY <2>1, <2>3 DEF GraphFacts, Invariant, GraphInv, Objects
  <2>5. PICK p \in Parents(a) : c \in Reach(p)
    BY <2>1, <2>2, <2>4 DEF GraphFacts, GrowthInv, Grown
  <2>6. p \in Objects /\ p \in Nat /\ p < a
    BY <2>1, <2>2, <2>5, ParentsOlder
  <2>7. c \notin 1..p
    BY <2>1, <2>3, <2>4, <2>6
  <2> QED BY <2>5, <2>6, <2>7
<1>3. S = {}
  <2> HIDE DEF S
  <2> QED BY <1>1, <1>2, NoEndlessDescent
<1> QED BY <1>3

(* Such a commit is the merge base.                                         *)
LEMMA BaseIs ==
  ASSUME GraphFacts, NEW b \in Objects, Common(b)
  PROVE  MergeBase(source, target) = b /\ MergeBase(target, source) = b
<1>1. source \in Objects /\ target \in Objects /\ b \in Reach(source) \cap Reach(target)
  BY DEF GraphFacts, Invariant, TypeOK, GraphInv, Objects, Common
<1>2. ASSUME NEW k \in Reach(b), \A m \in Reach(b) : m <= k PROVE k = b
  <2>1. k \in 1..b /\ b <= k /\ b \in Nat
    BY <1>1, <1>2, ReachOlder DEF Common, Objects
  <2> QED BY <2>1
<1>3. /\ MergeBase(source, target) \in Reach(b) /\ \A m \in Reach(b) : m <= MergeBase(source, target)
      /\ MergeBase(target, source) \in Reach(b) /\ \A m \in Reach(b) : m <= MergeBase(target, source)
  BY <1>1, BaseCommon DEF Common
<1> QED BY <1>2, <1>3

(* On an edge in sync the target has nothing over the source but hotfixes.  *)
LEMMA SyncedReverts ==
  ASSUME RevertInv, relands = 0, InSync, MergeCommitsOnly
  PROVE  Tree(target) \ Tree(source) \subseteq hotfixed
<1> SUFFICES ASSUME NEW x \in Tree(target), x \notin Tree(source), x \notin hotfixed
             PROVE  FALSE
  OBVIOUS
<1>1. GraphFacts /\ source \in Objects /\ target \in Objects
  BY DEF RevertInv, ContentInv, GraphFacts, Invariant, TypeOK, Objects
<1>2. PICK b \in Objects : Common(b) /\ LostSince(b) /\ GainedSince(b) /\ TakenOffSince(b)
  BY DEF RevertInv, EdgeInv, MergeCommitsOnly
<1>3. PICK v \in UniqueCommits(target, source) : HasPatch(v) /\ x \in Diff(v).removed
  BY <1>2 DEF GainedSince, LostSince
<1> DEFINE s == Now.source
           t == Now.target
           patches == PatchIDs(MergeBase(s, t), t)
           remaining == {k \in UniqueCommits(t, s) : ~PromotedByContent(k, patches)}
<1>4. s = source /\ t = target
  BY DEF Now
<1>5. v \in remaining
  <2>1. ASSUME Diff(v) \in patches PROVE FALSE
    <3>1. PICK m \in UniqueCommits(MergeBase(source, target), target) :
            HasPatch(m) /\ Diff(m) = Diff(v)
      BY <1>4, <2>1 DEF PatchIDs
    <3>2. m \in UniqueCommits(source, target)
      BY <1>1, <1>2, BaseIs DEF UniqueCommits, Common
    <3> QED BY <1>2, <1>3, <3>1, <3>2 DEF TakenOffSince
  <2> QED BY <1>4, <2>1 DEF PromotedByContent
<1>6. v \in PromotedByBaseline(Now, MergedBaseline)
  <2>1. Unpromoted(Now, MergedBaseline) = remaining \ PromotedByBaseline(Now, MergedBaseline)
    BY <1>4 DEF Unpromoted
  <2> HIDE DEF remaining
  <2> QED BY <1>5, <2>1 DEF InSync
<1>7. latest # None /\ v \in Reach(requests[latest].baseline)
  BY <1>6 DEF PromotedByBaseline, MergedBaseline
<1>8. latest \in DOMAIN requests /\ requests[latest].state = "merged"
  BY <1>7 DEF RevertInv, ContentInv, RecordsInv, GraphFacts, Invariant, TypeOK
<1>9. v \in Reach(requests[latest].merged)
  BY <1>3, <1>7, <1>8 DEF RevertInv, ContentInv, GraphFacts, Invariant, BaselineVouches, UniqueCommits
<1>10. requests[latest].merged \in Reach(target)
  BY <1>8 DEF RevertInv, MethodInv, MergeCommitsOnly
<1>11. v \in Reach(target)
  BY <1>1, <1>9, <1>10 DEF GraphFacts, Invariant, GraphInv
<1> QED BY <1>3, <1>11 DEF UniqueCommits

LEMMA RevertFrom == RevertInv => (relands = 0 => RevertIsPromoted)
<1> SUFFICES ASSUME RevertInv, relands = 0, InSync, MergeCommitsOnly
             PROVE  Gone(source) \cap Tree(target) \subseteq hotfixed
  BY DEF RevertIsPromoted
<1> QED BY SyncedReverts DEF Gone

-----------------------------------------------------------------------------
(* Every step keeps that too. *)

(* Patches of the commits there are stay.                                   *)
LEMMA PatchesLast ==
  ASSUME GraphFacts, Advances, NEW n \in Objects
  PROVE  /\ HasPatch(n)' <=> HasPatch(n)
         /\ HasPatch(n) => n # 1 /\ Diff(n)' = Diff(n)
<1>1. CASE n = 1
  <2>1. ~HasPatch(n) /\ Len(commits[n].parents) = 0
    BY <1>1, RootHolds DEF GraphFacts, HasPatch
  <2>2. Len(commits'[n].parents) = 0
    BY <2>1 DEF Advances
  <2>3. ~HasPatch(n)'
    BY <2>2 DEF HasPatch
  <2> QED BY <2>1, <2>3
<1>2. CASE n # 1
  <2>1. PICK p \in Objects : p = Parent(n)
    BY <1>2, ParentsOf, ParentsOlder
  <2>2. Parent(n)' = p /\ Tree(p)' = Tree(p) /\ Tree(n)' = Tree(n) /\ commits'[n] = commits[n]
    BY <1>2, <2>1, Lasting DEF Advances
  <2>3. (Tree(Parent(n)))' = Tree(p)
    BY <2>2 DEF Tree
  <2> QED BY <1>2, <2>1, <2>2, <2>3, Lasting DEF HasPatch
<1> QED BY <1>1, <1>2

(* Every step of the target alone keeps what the source lost.               *)
LEMMA TargetAlone ==
  ASSUME GraphFacts, Advances, source' = source, Reach(target)' \cap Objects = Reach(target),
         NEW b \in Objects, Common(b), LostSince(b)
  PROVE  b \in Objects' /\ Common(b)' /\ LostSince(b)'
<1>1. /\ b \in Objects' /\ source \in Objects /\ Reach(source)' = Reach(source) /\ Reach(b)' = Reach(b)
      /\ Tree(source)' = Tree(source) /\ Tree(b)' = Tree(b) /\ Reach(source) \subseteq Objects
  BY DEF GraphFacts, Invariant, TypeOK, GraphInv, Objects, Advances, Reach, Tree
<1>2. Common(b)'
  BY <1>1 DEF Common
<1>3. UniqueCommits(target, source)' = UniqueCommits(target, source)
  BY <1>1 DEF UniqueCommits
<1>4. LostSince(b)'
  <2> SUFFICES ASSUME NEW x \in Tree(b) \ Tree(source)
               PROVE  \E v \in UniqueCommits(target, source) : HasPatch(v)' /\ x \in Diff(v)'.removed
    BY <1>1, <1>3 DEF LostSince
  <2>1. PICK v \in UniqueCommits(target, source) : HasPatch(v) /\ x \in Diff(v).removed
    BY DEF LostSince
  <2>2. v \in Objects
    BY <1>1 DEF UniqueCommits
  <2> QED BY <2>1, <2>2, PatchesLast
<1> QED BY <1>1, <1>2, <1>4

(* The patch of a new plain commit, and a merge has none.                   *)
LEMMA NewPatch ==
  ASSUME GraphFacts, Advances, NEW a \in Objects, NEW c \in Objects, NEW tree \in SUBSET Changes,
         NEW n \in Nat, n = NextNumber
  PROVE  /\ commits' = Append(commits, Child(a, tree)) =>
              /\ Reach(n)' = Reach(a) \cup {n} /\ Tree(n)' = tree /\ n \notin Objects
              /\ HasPatch(n)' <=> tree # Tree(a)
              /\ Diff(n)'.removed = Tree(a) \ tree
         /\ commits' = Append(commits, MergeOf(a, c, tree)) =>
              /\ Reach(n)' = Reach(a) \cup Reach(c) \cup {n} /\ Tree(n)' = tree /\ n \notin Objects
              /\ ~HasPatch(n)'
<1>1. Len(commits) \in Nat /\ n = Len(commits) + 1 /\ n \notin Objects /\ commits \in Seq(Commit)
  BY DEF GraphFacts, Invariant, TypeOK, NextNumber, Objects
<1>2. Tree(a)' = Tree(a)
  BY Lasting
<1>3. ASSUME commits' = Append(commits, Child(a, tree))
      PROVE  /\ Reach(n)' = Reach(a) \cup {n} /\ Tree(n)' = tree
             /\ HasPatch(n)' <=> tree # Tree(a)
             /\ Diff(n)'.removed = Tree(a) \ tree
  <2>1. commits'[n] = Child(a, tree)
    BY <1>1, <1>3
  <2>2. commits'[n].parents = <<a>> /\ Len(<<a>>) = 1 /\ <<a>>[1] = a
    BY <2>1 DEF Child
  <2>3. Parent(n)' = a
    BY <2>2 DEF Parent
  <2>4. (Tree(Parent(n)))' = Tree(a)
    BY <1>2, <2>3 DEF Tree
  <2>5. Reach(n)' = Reach(a) \cup {n} /\ Tree(n)' = tree
    BY <2>1 DEF Child, Reach, Tree
  <2> QED BY <2>2, <2>4, <2>5 DEF HasPatch, Diff
<1>4. ASSUME commits' = Append(commits, MergeOf(a, c, tree))
      PROVE  /\ Reach(n)' = Reach(a) \cup Reach(c) \cup {n} /\ Tree(n)' = tree
             /\ ~HasPatch(n)'
  <2>1. commits'[n] = MergeOf(a, c, tree)
    BY <1>1, <1>4
  <2>2. commits'[n].parents = <<a, c>> /\ Len(<<a, c>>) = 2
    BY <2>1 DEF MergeOf
  <2> QED BY <2>1, <2>2 DEF MergeOf, Reach, Tree, HasPatch
<1> QED BY <1>1, <1>3, <1>4

(* Merged requests stay merged, as they were.                               *)
MergedStay ==
  \A i \in DOMAIN requests :
    requests[i].state = "merged" =>
      /\ i \in DOMAIN requests' /\ requests'[i].state = "merged"
      /\ requests'[i].merged = requests[i].merged /\ requests'[i].method = requests[i].method

NoneMerges ==
  \A i \in DOMAIN requests' :
    requests'[i].state = "merged" => i \in DOMAIN requests /\ requests[i].state = "merged"

(* If all merges are merge commits after a step, they were before.          *)
LEMMA MethodsBefore ==
  ASSUME MergedStay, rewrites' = rewrites
  PROVE  MergeCommitsOnly' => MergeCommitsOnly
BY DEF MergedStay, MergeCommitsOnly

LEMMA MethodsStay ==
  ASSUME GraphFacts, MethodInv, Advances, MergedStay, NoneMerges
  PROVE  MethodInv'
<1> SUFFICES ASSUME NEW i \in DOMAIN requests', requests'[i].state = "merged",
                    requests'[i].method = "merge"
             PROVE  requests'[i].merged \in Reach(target)'
  BY DEF MethodInv
<1>1. requests[i].merged \in Reach(target) /\ requests'[i].merged = requests[i].merged
  BY DEF MethodInv, MergedStay, NoneMerges
<1> QED BY <1>1 DEF Advances

(* A request is merged with some method, and only a merge commit makes the  *)
(* source an ancestor.                                                     *)
LEMMA MethodsMerge ==
  ASSUME GraphFacts, MethodInv, Advances, NEW i \in DOMAIN requests, requests[i].state = "open",
         NEW method, Merged(i, method), method = "merge" => source \in Reach(target)'
  PROVE  MergedStay /\ MethodInv' /\ (method # "merge" => ~MergeCommitsOnly')
<1>1. requests \in Seq(Request) /\ requests[i] \in Request
  BY DEF GraphFacts, Invariant, TypeOK
<1>2. /\ DOMAIN requests' = DOMAIN requests
      /\ \A j \in DOMAIN requests : j # i => requests'[j] = requests[j]
      /\ requests'[i].state = "merged" /\ requests'[i].merged = source
      /\ requests'[i].method = method
  BY <1>1 DEF Merged, Request
<1>3. MergedStay
  BY <1>2 DEF MergedStay
<1>4. MethodInv'
  <2> SUFFICES ASSUME NEW j \in DOMAIN requests, requests'[j].state = "merged",
                      requests'[j].method = "merge"
               PROVE  requests'[j].merged \in Reach(target)'
    BY <1>2 DEF MethodInv
  <2>1. CASE j = i
    BY <1>2, <2>1
  <2>2. CASE j # i
    BY <1>2, <2>2 DEF MethodInv, Advances
  <2> QED BY <2>1, <2>2
<1>5. method # "merge" => ~MergeCommitsOnly'
  BY <1>2 DEF MergeCommitsOnly
<1> QED BY <1>3, <1>4, <1>5

(* A commit of people on the source.                                        *)
LEMMA SourceEdge ==
  ASSUME ContentInv, EdgeInv, Advances, NEW tree \in SUBSET Changes,
         commits' = Append(commits, Child(source, tree)), source' = NextNumber, target' = target,
         SourceBecomes(tree), MergedStay, UNCHANGED <<hotfixed, rewrites>>
  PROVE  EdgeInv'
<1> SUFFICES ASSUME rewrites = 0
             PROVE  \E b \in Objects' :
                      /\ Common(b)' /\ LostSince(b)'
                      /\ MergeCommitsOnly' => GainedSince(b)' /\ (relands' = 0 => TakenOffSince(b)')
  BY DEF EdgeInv
<1>1. /\ GraphFacts /\ source \in Objects /\ target \in Objects
      /\ Reach(source) \subseteq Objects /\ Reach(target) \subseteq Objects
  BY DEF ContentInv, GraphFacts, Invariant, TypeOK, GraphInv, Objects
<1>2. PICK b \in Objects :
        /\ Common(b) /\ LostSince(b)
        /\ MergeCommitsOnly => GainedSince(b) /\ (relands = 0 => TakenOffSince(b))
  BY DEF EdgeInv
<1>3. PICK n \in Nat : n = NextNumber
  BY DEF ContentInv, GraphFacts, Invariant, TypeOK, NextNumber
<1>4. /\ Reach(n)' = Reach(source) \cup {n} /\ Tree(n)' = tree /\ n \notin Objects
      /\ HasPatch(n)' <=> tree # Tree(source)
      /\ Diff(n)'.removed = Tree(source) \ tree
  BY <1>1, <1>3, NewPatch
<1>5. /\ Reach(source)' = Reach(source) \cup {n} /\ Tree(source)' = tree
      /\ Reach(target)' = Reach(target) /\ Tree(target)' = Tree(target)
      /\ Reach(b)' = Reach(b) /\ Tree(b)' = Tree(b)
  BY <1>1, <1>3, <1>4, Lasting DEF Reach, Tree
<1>6. /\ UniqueCommits(target, source)' = UniqueCommits(target, source) \cup {n}
      /\ UniqueCommits(source, target)' = UniqueCommits(source, target)
      /\ UniqueCommits(source, target) \subseteq Objects
      /\ UniqueCommits(target, source) \subseteq Objects
  BY <1>1, <1>4, <1>5 DEF UniqueCommits
<1>7. b \in Objects' /\ Common(b)'
  BY <1>1, <1>2, <1>4, <1>5 DEF Common, Advances
<1>8. LostSince(b)'
  <2> SUFFICES ASSUME NEW x \in Tree(b) \ tree
               PROVE  \E v \in UniqueCommits(target, source) \cup {n} :
                        HasPatch(v)' /\ x \in Diff(v)'.removed
    BY <1>5, <1>6 DEF LostSince
  <2>1. CASE x \in Tree(source)
    BY <1>4, <2>1
  <2>2. CASE x \notin Tree(source)
    <3>1. PICK v \in UniqueCommits(target, source) : HasPatch(v) /\ x \in Diff(v).removed
      BY <1>2, <2>2 DEF LostSince
    <3> QED BY <1>1, <1>6, <3>1, PatchesLast
  <2> QED BY <2>1, <2>2
<1>9. ASSUME MergeCommitsOnly' PROVE GainedSince(b)' /\ (relands' = 0 => TakenOffSince(b)')
  <2>1. MergeCommitsOnly
    BY <1>9, MethodsBefore
  <2>2. GainedSince(b)'
    BY <1>2, <1>5, <2>1 DEF GainedSince
  <2>3. ASSUME relands' = 0 PROVE TakenOffSince(b)'
    <3>1. relands = 0 /\ (tree \ Tree(source)) \cap Removed = {}
      BY <2>3 DEF SourceBecomes, ContentInv, GraphFacts, Invariant, TypeOK
    <3> SUFFICES ASSUME NEW m \in UniqueCommits(source, target), HasPatch(m)',
                        NEW x \in Diff(m)'.removed \ hotfixed
                 PROVE  x \notin Tree(target) /\ x \notin tree \ Tree(b)
      BY <1>5, <1>6 DEF TakenOffSince
    <3>2. HasPatch(m) /\ x \in Diff(m).removed \ hotfixed /\ m \in Objects \ {1}
      BY <1>1, <1>6, PatchesLast
    <3>3. x \notin Tree(target) /\ x \notin Tree(source) \ Tree(b)
      BY <1>2, <2>1, <3>1, <3>2 DEF TakenOffSince
    <3>4. m \in 2..Len(commits)
      BY <1>1, <3>2 DEF Objects, GraphFacts, Invariant, TypeOK
    <3>5. x \in Removed
      BY <3>2, <3>4 DEF Removed
    <3> QED BY <3>1, <3>3, <3>5
  <2> QED BY <2>2, <2>3
<1> QED BY <1>7, <1>8, <1>9

(* After a back-merge the target is the common history.                     *)
LEMMA BackMergeEdge ==
  ASSUME ContentInv, EdgeInv, Advances, BackMerge
  PROVE  EdgeInv'
<1> SUFFICES ASSUME rewrites = 0
             PROVE  \E b \in Objects' :
                      /\ Common(b)' /\ LostSince(b)'
                      /\ MergeCommitsOnly' => GainedSince(b)' /\ (relands' = 0 => TakenOffSince(b)')
  BY DEF EdgeInv, BackMerge
<1>1. /\ GraphFacts /\ source \in Objects /\ target \in Objects
      /\ Reach(source) \subseteq Objects /\ Reach(target) \subseteq Objects
  BY DEF ContentInv, GraphFacts, Invariant, TypeOK, GraphInv, Objects
<1>2. PICK b \in Objects : Common(b) /\ LostSince(b)
  BY DEF EdgeInv
<1>3. PICK n \in Nat : n = NextNumber
  BY DEF ContentInv, GraphFacts, Invariant, TypeOK, NextNumber
<1>4. PICK tree \in SUBSET Changes : tree = MergedTree(source, target)
  BY <1>1, TreesTyped DEF GraphFacts, Invariant
<1>5. /\ commits' = Append(commits, MergeOf(source, target, tree))
      /\ source' = n /\ target' = target /\ hotfixed' = hotfixed
  BY <1>3, <1>4 DEF BackMerge, history
<1>6. Reach(n)' = Reach(source) \cup Reach(target) \cup {n} /\ Tree(n)' = tree /\ n \notin Objects
  BY <1>1, <1>3, <1>5, NewPatch
<1>7. PICK t \in Objects : t = target
  BY <1>1
<1>8. /\ Reach(source)' = Reach(source) \cup Reach(target) \cup {n} /\ Tree(source)' = tree
      /\ Reach(target)' = Reach(target) /\ Tree(target)' = Tree(target)
      /\ Reach(t)' = Reach(target) /\ Tree(t)' = Tree(target)
  BY <1>1, <1>5, <1>6, <1>7, Lasting DEF Reach, Tree
<1>9. t \in Objects' /\ Common(t)'
  BY <1>7, <1>8 DEF Common, Advances
<1>10. LostSince(t)'
  <2> SUFFICES ASSUME NEW x \in Tree(target) \ tree
               PROVE  \E v \in UniqueCommits(target, source)' : HasPatch(v)' /\ x \in Diff(v)'.removed
    BY <1>8 DEF LostSince
  <2>1. x \in Tree(b) \ Tree(source)
    BY <1>1, <1>2, <1>4, BaseIs DEF MergedTree
  <2>2. PICK v \in UniqueCommits(target, source) : HasPatch(v) /\ x \in Diff(v).removed
    BY <1>2, <2>1 DEF LostSince
  <2>3. v \in UniqueCommits(target, source)' /\ v \in Objects
    BY <1>1, <1>8 DEF UniqueCommits
  <2> QED BY <1>1, <2>2, <2>3, PatchesLast
<1>11. GainedSince(t)'
  BY <1>5, <1>8 DEF GainedSince
<1>12. TakenOffSince(t)'
  <2>1. UniqueCommits(source, target)' = {}
    BY <1>8 DEF UniqueCommits
  <2> QED BY <2>1 DEF TakenOffSince
<1> QED BY <1>9, <1>10, <1>11, <1>12

(* People pick to the target, or take a change off it.                      *)
LEMMA PickEdge ==
  ASSUME ContentInv, EdgeInv, Advances, NEW tree \in SUBSET Changes,
         commits' = Append(commits, Child(target, tree)), target' = NextNumber,
         tree \ hotfixed' \subseteq Tree(target), hotfixed \subseteq hotfixed',
         MergedStay, UNCHANGED <<source, relands, rewrites>>
  PROVE  EdgeInv'
<1> SUFFICES ASSUME rewrites = 0
             PROVE  \E b \in Objects' :
                      /\ Common(b)' /\ LostSince(b)'
                      /\ MergeCommitsOnly' => GainedSince(b)' /\ (relands' = 0 => TakenOffSince(b)')
  BY DEF EdgeInv
<1>1. /\ GraphFacts /\ source \in Objects /\ target \in Objects
      /\ Reach(source) \subseteq Objects /\ Reach(target) \subseteq Objects
  BY DEF ContentInv, GraphFacts, Invariant, TypeOK, GraphInv, Objects
<1>2. PICK b \in Objects :
        /\ Common(b) /\ LostSince(b)
        /\ MergeCommitsOnly => GainedSince(b) /\ (relands = 0 => TakenOffSince(b))
  BY DEF EdgeInv
<1>3. PICK n \in Nat : n = NextNumber
  BY DEF ContentInv, GraphFacts, Invariant, TypeOK, NextNumber
<1>4. /\ Reach(n)' = Reach(target) \cup {n} /\ Tree(n)' = tree /\ n \notin Objects
      /\ HasPatch(n)' <=> tree # Tree(target)
      /\ Diff(n)'.removed = Tree(target) \ tree
  BY <1>1, <1>3, NewPatch
<1>5. /\ Reach(target)' = Reach(target) \cup {n} /\ Tree(target)' = tree
      /\ Reach(source)' = Reach(source) /\ Tree(source)' = Tree(source)
      /\ Tree(b)' = Tree(b)
  BY <1>1, <1>3, <1>4, Lasting DEF Reach, Tree
<1>6. b \in Objects' /\ Common(b)' /\ LostSince(b)'
  BY <1>1, <1>2, <1>4, <1>5, TargetAlone
<1>7. ASSUME MergeCommitsOnly' PROVE GainedSince(b)' /\ (relands' = 0 => TakenOffSince(b)')
  <2>1. MergeCommitsOnly /\ GainedSince(b)
    BY <1>2, <1>7, MethodsBefore
  <2>2. GainedSince(b)'
    BY <1>5, <2>1 DEF GainedSince
  <2>3. ASSUME relands = 0 PROVE TakenOffSince(b)'
    <3> SUFFICES ASSUME NEW m \in UniqueCommits(source, target)', HasPatch(m)',
                        NEW x \in Diff(m)'.removed \ hotfixed'
                 PROVE  x \notin tree /\ x \notin Tree(source) \ Tree(b)
      BY <1>5 DEF TakenOffSince
    <3>1. CASE m = n
      BY <1>4, <2>1, <3>1 DEF GainedSince
    <3>2. CASE m # n
      <4>1. m \in UniqueCommits(source, target) /\ m \in Objects
        BY <1>1, <1>5, <3>2 DEF UniqueCommits
      <4>2. HasPatch(m) /\ x \in Diff(m).removed \ hotfixed
        BY <1>1, <4>1, PatchesLast
      <4>3. x \notin Tree(target) /\ x \notin Tree(source) \ Tree(b)
        BY <1>2, <2>1, <2>3, <4>1, <4>2 DEF TakenOffSince
      <4> QED BY <4>3
    <3> QED BY <3>1, <3>2
  <2> QED BY <2>2, <2>3
<1> QED BY <1>6, <1>7

(* After a merge commit the source is the common history.                   *)
LEMMA JoinEdge ==
  ASSUME ContentInv, EdgeInv, Advances, NEW tree \in SUBSET Changes,
         commits' = Append(commits, MergeOf(target, source, tree)), target' = NextNumber,
         tree \ hotfixed' \subseteq MergedTree(target, source), hotfixed \subseteq hotfixed',
         MergedStay, UNCHANGED <<source, relands, rewrites>>
  PROVE  EdgeInv' /\ source \in Reach(target)'
<1>1. /\ GraphFacts /\ source \in Objects /\ target \in Objects /\ source \in Reach(source)
      /\ Reach(source) \subseteq Objects /\ Reach(target) \subseteq Objects
  BY DEF ContentInv, GraphFacts, Invariant, TypeOK, GraphInv, Objects
<1>2. PICK n \in Nat : n = NextNumber
  BY DEF ContentInv, GraphFacts, Invariant, TypeOK, NextNumber
<1>3. Reach(n)' = Reach(target) \cup Reach(source) \cup {n} /\ Tree(n)' = tree /\ n \notin Objects
      /\ ~HasPatch(n)'
  BY <1>1, <1>2, NewPatch
<1>4. PICK s \in Objects : s = source
  BY <1>1
<1>5. /\ Reach(target)' = Reach(target) \cup Reach(source) \cup {n} /\ Tree(target)' = tree
      /\ Reach(source)' = Reach(source) /\ Tree(source)' = Tree(source)
      /\ Reach(s)' = Reach(source) /\ Tree(s)' = Tree(source)
  BY <1>1, <1>2, <1>3, <1>4, Lasting DEF Reach, Tree
<1>6. s \in Objects' /\ Common(s)' /\ LostSince(s)'
  BY <1>4, <1>5 DEF Common, LostSince, Advances
<1>7. ASSUME rewrites = 0, MergeCommitsOnly' PROVE GainedSince(s)' /\ (relands = 0 => TakenOffSince(s)')
  <2>1. MergeCommitsOnly
    BY <1>7, MethodsBefore
  <2>2. PICK b \in Objects :
          /\ Common(b)
          /\ GainedSince(b) /\ (relands = 0 => TakenOffSince(b))
    BY <1>7, <2>1 DEF EdgeInv
  <2>3. MergedTree(target, source) =
          (Tree(target) \cap Tree(source)) \cup ((Tree(target) \cup Tree(source)) \ Tree(b))
    BY <1>1, <2>2, BaseIs DEF MergedTree
  <2>4. GainedSince(s)'
    BY <1>5, <2>2, <2>3 DEF GainedSince
  <2>5. ASSUME relands = 0 PROVE TakenOffSince(s)'
    <3> SUFFICES ASSUME NEW m \in UniqueCommits(source, target)', HasPatch(m)',
                        NEW x \in Diff(m)'.removed \ hotfixed'
                 PROVE  x \notin tree
      BY <1>5 DEF TakenOffSince
    <3>1. m \in UniqueCommits(source, target) /\ m \in Objects
      BY <1>1, <1>3, <1>5 DEF UniqueCommits
    <3>2. HasPatch(m) /\ x \in Diff(m).removed \ hotfixed
      BY <1>1, <3>1, PatchesLast
    <3>3. x \notin Tree(target) /\ x \notin Tree(source) \ Tree(b)
      BY <2>2, <2>5, <3>1, <3>2 DEF TakenOffSince
    <3> QED BY <2>3, <3>3
  <2> QED BY <2>4, <2>5
<1>8. EdgeInv'
  BY <1>6, <1>7 DEF EdgeInv
<1> QED BY <1>1, <1>5, <1>8

(* After a squash or a rebase not all merges are merge commits.             *)
LEMMA OtherEdge ==
  ASSUME ContentInv, EdgeInv, Advances, Reach(target)' \cap Objects = Reach(target),
         ~MergeCommitsOnly', UNCHANGED <<source, rewrites>>
  PROVE  EdgeInv'
<1> SUFFICES ASSUME rewrites = 0
             PROVE  \E b \in Objects' : Common(b)' /\ LostSince(b)'
  BY DEF EdgeInv
<1>1. PICK b \in Objects : Common(b) /\ LostSince(b)
  BY DEF EdgeInv
<1>2. b \in Objects' /\ Common(b)' /\ LostSince(b)'
  BY <1>1, TargetAlone DEF ContentInv
<1> QED BY <1>2

(* The branches stay as they are.                                           *)
LEMMA QuietEdge ==
  ASSUME EdgeInv, MergedStay, UNCHANGED <<branches, history, relands, rewrites>>
  PROVE  EdgeInv'
<1>1. UNCHANGED <<commits, source, target, hotfixed, relands, rewrites>>
  BY DEF branches, history
<1> SUFFICES ASSUME rewrites = 0
             PROVE  \E b \in Objects' :
                      /\ Common(b)' /\ LostSince(b)'
                      /\ MergeCommitsOnly' => GainedSince(b)' /\ (relands' = 0 => TakenOffSince(b)')
  BY <1>1 DEF EdgeInv
<1>2. PICK b \in Objects :
        /\ Common(b) /\ LostSince(b)
        /\ MergeCommitsOnly => GainedSince(b) /\ (relands = 0 => TakenOffSince(b))
  BY DEF EdgeInv
<1>3. MergeCommitsOnly' => MergeCommitsOnly
  BY <1>1, MethodsBefore
<1>4. Common(b)' /\ b \in Objects'
  BY <1>1, <1>2 DEF Common, Reach, Objects
<1>5. LostSince(b)'
  BY <1>1, <1>2 DEF LostSince, UniqueCommits, HasPatch, Diff, Parent, Tree, Reach
<1>6. GainedSince(b) => GainedSince(b)'
  BY <1>1 DEF GainedSince, Tree
<1>7. TakenOffSince(b) => TakenOffSince(b)'
  BY <1>1 DEF TakenOffSince, UniqueCommits, HasPatch, Diff, Parent, Tree, Reach
<1> QED BY <1>1, <1>2, <1>3, <1>4, <1>5, <1>6, <1>7

(* What the forge records in the other steps.                               *)
LEMMA ForgeSame ==
  ASSUME UNCHANGED requests
  PROVE  MergedStay /\ NoneMerges
BY DEF MergedStay, NoneMerges

LEMMA ForgeCloses ==
  ASSUME TypeOK, NEW i \in DOMAIN requests, Closing(i)
  PROVE  MergedStay /\ NoneMerges
<1>1. requests[i] \in Request /\ requests \in Seq(Request)
  BY DEF TypeOK
<1>2. /\ DOMAIN requests' = DOMAIN requests
      /\ \A j \in DOMAIN requests :
           /\ requests'[j].state = "merged" <=> requests[j].state = "merged"
           /\ requests'[j].merged = requests[j].merged /\ requests'[j].method = requests[j].method
  BY <1>1 DEF Closing, Request
<1> QED BY <1>2 DEF MergedStay, NoneMerges

LEMMA ForgeCreates ==
  ASSUME Invariant, NEW r \in Runs, CreateRequest(r)
  PROVE  MergedStay /\ NoneMerges
<1>1. requests \in Seq(Request)
  BY DEF Invariant, TypeOK
<1>2. PICK new : new.state = "open" /\ (requests' = requests \/ requests' = Append(requests, new))
  <2>1. requests' = requests \/ requests' = Append(requests, [state |-> "open", baseline |-> LiveHead(r),
                                                              merged |-> 0, method |-> "none"])
    BY DEF CreateRequest
  <2> QED BY <2>1
<1>3. /\ \A j \in DOMAIN requests : j \in DOMAIN requests' /\ requests'[j] = requests[j]
      /\ \A j \in DOMAIN requests' : j \notin DOMAIN requests => requests'[j].state = "open"
  BY <1>1, <1>2
<1> QED BY <1>3 DEF MergedStay, NoneMerges

LEMMA ForgeUpdates ==
  ASSUME Invariant, NEW r \in Runs, UpdateRequest(r)
  PROVE  MergedStay /\ NoneMerges
<1>1. PICK i \in DOMAIN requests : requests' = [requests EXCEPT ![i].baseline = LiveHead(r)]
  <2>1. RunInv(r) /\ run[r].pc = "apply" /\ run[r].decision = "update"
    BY DEF Invariant, UpdateRequest, Applies
  <2> QED BY <2>1 DEF RunInv, UpdateRequest
<1>2. requests[i] \in Request /\ requests \in Seq(Request)
  BY DEF Invariant, TypeOK
<1>3. /\ DOMAIN requests' = DOMAIN requests
      /\ \A j \in DOMAIN requests :
           /\ requests'[j].state = requests[j].state
           /\ requests'[j].merged = requests[j].merged /\ requests'[j].method = requests[j].method
  BY <1>1, <1>2 DEF Request
<1> QED BY <1>3 DEF MergedStay, NoneMerges

(* A rebase leaves the old commits of the target.                           *)
LEMMA RebaseAdds ==
  ASSUME GraphFacts, Rebase, UniqueCommits(target, source) # {}
  PROVE  Reach(target)' \cap Objects = Reach(target)
<1>1. PICK new \in Seq(Commit) :
         /\ Len(new) # 0
         /\ commits' = commits \o new
         /\ target' = Len(commits) + Len(new)
         /\ \A k \in 1..Len(new) :
              new[k].reach = Reach(target) \cup Len(commits) + 1 .. Len(commits) + k
  BY RebaseShape DEF GraphFacts
<1>2. PICK k \in 1..Len(new), len \in Nat : k = Len(new) /\ len = Len(commits)
  BY <1>1 DEF GraphFacts, Invariant, TypeOK
<1>3. commits'[len + k] = new[k]
  BY <1>1, <1>2 DEF GraphFacts, Invariant, TypeOK
<1>4. Reach(target)' = Reach(target) \cup len + 1 .. len + k
  BY <1>1, <1>2, <1>3 DEF Reach
<1>5. Reach(target) \subseteq Objects /\ (len + 1 .. len + k) \cap Objects = {}
  BY <1>2 DEF GraphFacts, Invariant, TypeOK, GraphInv, Objects
<1> QED BY <1>4, <1>5

LEMMA MergeRequestReverts ==
  ASSUME RevertInv, NEW i \in DOMAIN requests, MergeRequest(i)
  PROVE  EdgeInv' /\ MethodInv'
<1>1. source \in Objects /\ target \in Objects /\ Invariant /\ GraphFacts /\ ContentInv /\ EdgeInv /\ MethodInv
  BY DEF RevertInv, ContentInv, GraphFacts, Invariant, TypeOK, Objects
<1>2. UNCHANGED <<source, hotfixed, relands, rewrites>> /\ requests[i].state = "open"
      /\ UniqueCommits(target, source) # {}
  BY DEF MergeRequest, history, counters
<1>3. MergedTree(target, source) \in SUBSET Changes
  BY <1>1, TreesTyped DEF Invariant
<1>4. CASE MergeCommit /\ Merged(i, "merge")
  <2>1. Advances
    BY <1>1, <1>2, <1>3, <1>4, MergeToTarget DEF MergeCommit
  <2>2. target' = NextNumber
        /\ commits' = Append(commits, MergeOf(target, source, MergedTree(target, source)))
    BY <1>4 DEF MergeCommit
  <2>3. source \in Reach(target)'
    <3>1. PICK n \in Nat : n = NextNumber
      BY <1>1 DEF Invariant, TypeOK, NextNumber
    <3>2. Reach(n)' = Reach(target) \cup Reach(source) \cup {n}
      BY <1>1, <1>3, <2>1, <2>2, <3>1, NewPatch
    <3>3. Reach(target)' = Reach(n)' /\ source \in Reach(source)
      BY <1>1, <2>2, <3>1 DEF Reach, Invariant, GraphInv
    <3> QED BY <3>2, <3>3
  <2>4. MergedStay /\ MethodInv'
    BY <1>1, <1>2, <1>4, <2>1, <2>3, MethodsMerge
  <2>5. EdgeInv'
    BY <1>1, <1>2, <1>3, <2>1, <2>2, <2>4, JoinEdge
  <2> QED BY <2>4, <2>5
<1>5. CASE Squash /\ Merged(i, "squash")
  <2>1. Advances
    BY <1>1, <1>2, <1>3, <1>5, CommitToTarget DEF Squash
  <2>2. PICK n \in Nat : n = NextNumber
    BY <1>1 DEF Invariant, TypeOK, NextNumber
  <2>3. Reach(n)' = Reach(target) \cup {n} /\ n \notin Objects
    BY <1>1, <1>3, <1>5, <2>1, <2>2, NewPatch DEF Squash
  <2>4. Reach(target)' \cap Objects = Reach(target)
    BY <1>1, <1>5, <2>2, <2>3 DEF Squash, Reach, Invariant, GraphInv
  <2>5. MethodInv' /\ ~MergeCommitsOnly'
    BY <1>1, <1>2, <1>5, <2>1, MethodsMerge
  <2> QED BY <1>1, <1>2, <2>1, <2>4, <2>5, OtherEdge
<1>6. CASE Rebase /\ Merged(i, "rebase")
  <2>1. Advances
    BY <1>1, <1>2, <1>6, RebaseAdvances
  <2>2. Reach(target)' \cap Objects = Reach(target)
    BY <1>1, <1>2, <1>6, RebaseAdds
  <2>3. MethodInv' /\ ~MergeCommitsOnly'
    BY <1>1, <1>2, <1>6, <2>1, MethodsMerge
  <2> QED BY <1>1, <1>2, <2>1, <2>2, <2>3, OtherEdge
<1> QED BY <1>4, <1>5, <1>6 DEF MergeRequest

LEMMA ManualMergeReverts ==
  ASSUME RevertInv, NEW x \in Changes, ManualMerge(x)
  PROVE  EdgeInv' /\ MethodInv'
<1>1. source \in Objects /\ target \in Objects /\ Invariant /\ GraphFacts /\ ContentInv /\ EdgeInv /\ MethodInv
  BY DEF RevertInv, ContentInv, GraphFacts, Invariant, TypeOK, Objects
<1>2. PICK tree \in SUBSET Changes : tree = MergedTree(target, source) \cup {x}
  BY <1>1, TreesTyped DEF Invariant
<1>3. /\ UNCHANGED <<source, relands, rewrites>> /\ target' = NextNumber
      /\ commits' = Append(commits, MergeOf(target, source, tree))
      /\ hotfixed' = hotfixed \cup {x}
  BY <1>2 DEF ManualMerge, counters
<1>4. Advances
  BY <1>1, <1>3, MergeToTarget
<1>5. source \in Reach(target)'
  <2>1. PICK n \in Nat : n = NextNumber
    BY <1>1 DEF Invariant, TypeOK, NextNumber
  <2>2. Reach(n)' = Reach(target) \cup Reach(source) \cup {n}
    BY <1>1, <1>3, <1>4, <2>1, NewPatch
  <2>3. Reach(target)' = Reach(n)' /\ source \in Reach(source)
    BY <1>1, <1>3, <2>1 DEF Reach, Invariant, GraphInv
  <2> QED BY <2>2, <2>3
<1>6. MergedStay /\ MethodInv'
  <2>1. CASE OpenIds = {}
    <3>1. MergedStay /\ NoneMerges
      BY <2>1, ForgeSame DEF ManualMerge, forge
    <3> QED BY <1>1, <1>4, <3>1, MethodsStay
  <2>2. CASE OpenIds # {}
    <3>1. PICK i \in OpenIds : Merged(i, "merge")
      BY <2>2 DEF ManualMerge
    <3> QED BY <1>1, <1>4, <1>5, <3>1, MethodsMerge DEF OpenIds
  <2> QED BY <2>1, <2>2
<1>7. EdgeInv'
  BY <1>1, <1>2, <1>3, <1>4, <1>6, JoinEdge
<1> QED BY <1>6, <1>7

(* A step of people that leaves the forge alone.                            *)
LEMMA SourceReverts ==
  ASSUME RevertInv, NEW tree \in SUBSET Changes, CommitToSource(tree)
  PROVE  EdgeInv' /\ MethodInv'
<1>1. source \in Objects /\ Invariant /\ GraphFacts /\ ContentInv /\ EdgeInv /\ MethodInv
  BY DEF RevertInv, ContentInv, GraphFacts, Invariant, TypeOK, Objects
<1>2. Child(source, tree) \in Commit /\ Child(source, tree).reach = Reach(source) \cup {NextNumber}
  BY <1>1, CommitsTyped DEF Child, Invariant
<1>3. Advances
  BY <1>1, <1>2, ReachClosed, SourceAdvances DEF CommitToSource, Invariant
<1>4. MergedStay /\ NoneMerges
  BY ForgeSame DEF CommitToSource, forge
<1>5. EdgeInv'
  BY <1>1, <1>3, <1>4, SourceEdge DEF CommitToSource, history
<1> QED BY <1>1, <1>3, <1>4, <1>5, MethodsStay

LEMMA BackMergeReverts ==
  ASSUME RevertInv, BackMerge
  PROVE  EdgeInv' /\ MethodInv'
<1> DEFINE tree == MergedTree(source, target)
           c == MergeOf(source, target, tree)
<1>1. source \in Objects /\ target \in Objects /\ Invariant /\ TypeOK /\ GraphInv
      /\ GraphFacts /\ ContentInv /\ EdgeInv /\ MethodInv
  BY DEF RevertInv, ContentInv, GraphFacts, Invariant, TypeOK, Objects
<1>2. c \in Commit /\ c.reach = Reach(source) \cup Reach(target) \cup {NextNumber}
  BY <1>1, CommitsTyped, TreesTyped DEF MergeOf
<1>3. Closed(Reach(source) \cup Reach(target))
  BY <1>1, ReachClosed
<1>4. commits' = Append(commits, c) /\ source' = NextNumber /\ target' = target
  BY DEF BackMerge
<1>5. Advances
  <2> HIDE DEF c
  <2> QED BY <1>1, <1>2, <1>3, <1>4, SourceAdvances
<1>6. MergedStay /\ NoneMerges
  BY ForgeSame DEF BackMerge, forge
<1> HIDE DEF c, tree
<1>7. EdgeInv'
  BY <1>1, <1>5, BackMergeEdge
<1> QED BY <1>1, <1>5, <1>6, <1>7, MethodsStay

(* After a force push nothing is claimed about reverts.                     *)
LEMMA RewriteReverts ==
  ASSUME RevertInv, NEW n \in Reach(source), RewriteSource(n)
  PROVE  EdgeInv' /\ MethodInv'
<1>1. rewrites' # 0
  BY DEF RewriteSource, RevertInv, ContentInv, GraphFacts, Invariant, TypeOK
<1>2. UNCHANGED <<commits, target, requests>>
  BY DEF RewriteSource, forge
<1>3. MethodInv'
  BY <1>2 DEF MethodInv, RevertInv, Reach
<1> QED BY <1>1, <1>3 DEF EdgeInv

LEMMA PickReverts ==
  ASSUME RevertInv, NEW x \in Changes, Hotfix(x) \/ RevertOnTarget(x)
  PROVE  EdgeInv' /\ MethodInv'
<1>1. target \in Objects /\ Invariant /\ GraphFacts /\ ContentInv /\ EdgeInv /\ MethodInv
  BY DEF RevertInv, ContentInv, GraphFacts, Invariant, TypeOK, Objects
<1>2. PICK tree \in SUBSET Changes :
        /\ commits' = Append(commits, Child(target, tree))
        /\ tree \ hotfixed' \subseteq Tree(target) /\ hotfixed \subseteq hotfixed'
  <2>1. Tree(target) \subseteq Changes
    BY <1>1, TreesTyped DEF Invariant
  <2>2. Tree(target) \cup {x} \in SUBSET Changes /\ Tree(target) \ {x} \in SUBSET Changes
    BY <2>1
  <2> QED BY <2>2 DEF Hotfix, RevertOnTarget
<1>3. target' = NextNumber /\ UNCHANGED <<source, requests, relands, rewrites>>
  BY DEF Hotfix, RevertOnTarget, counters, forge
<1>4. Advances
  BY <1>1, <1>2, <1>3, CommitToTarget
<1>5. MergedStay /\ NoneMerges
  BY <1>3, ForgeSame
<1>6. EdgeInv'
  BY <1>1, <1>2, <1>3, <1>4, <1>5, PickEdge
<1> QED BY <1>1, <1>4, <1>5, <1>6, MethodsStay

LEMMA QuietReverts ==
  ASSUME RevertInv, MergedStay, NoneMerges, UNCHANGED <<branches, history, relands, rewrites>>
  PROVE  EdgeInv' /\ MethodInv'
<1>1. EdgeInv'
  BY QuietEdge DEF RevertInv
<1>2. Advances
  BY StillAdvances DEF RevertInv, ContentInv, GraphFacts, Invariant
<1> QED BY <1>1, <1>2, MethodsStay DEF RevertInv, ContentInv

LEMMA RevertKept ==
  ASSUME RevertInv, [Step]_vars
  PROVE  RevertInv'
<1> SUFFICES EdgeInv' /\ MethodInv'
  BY ContentKept DEF RevertInv
<1> DEFINE Claim == EdgeInv' /\ MethodInv'
<1>1. Invariant /\ TypeOK /\ source \in Objects
  BY DEF RevertInv, ContentInv, GraphFacts, Invariant, TypeOK, Objects
<1>2. ASSUME NEW x \in Changes, Land(x) \/ Revert(x) PROVE Claim
  <2>1. Tree(source) \cup {x} \in SUBSET Changes /\ Tree(source) \ {x} \in SUBSET Changes
    BY <1>1, TreesTyped
  <2> QED BY <1>2, <2>1, SourceReverts DEF Land, Revert
<1>3. ASSUME NEW x \in Changes, Hotfix(x) \/ RevertOnTarget(x) PROVE Claim
  BY <1>3, PickReverts
<1>4. ASSUME NEW x \in Changes, ManualMerge(x) PROVE Claim
  BY <1>4, ManualMergeReverts
<1>5. CASE BackMerge
  BY <1>5, BackMergeReverts
<1>6. ASSUME NEW n \in Reach(source), RewriteSource(n) PROVE Claim
  BY <1>6, RewriteReverts
<1>7. ASSUME NEW i \in DOMAIN requests, MergeRequest(i) PROVE Claim
  BY <1>7, MergeRequestReverts
<1>8. ASSUME NEW i \in DOMAIN requests, Handle(i) PROVE Claim
  BY <1>1, <1>8, ForgeCloses, QuietReverts DEF Handle, Closing
<1>9. ASSUME NEW r \in Runs, Checkout(r) \/ ListOpen(r) \/ ListMerged(r) \/ Abort(r)
      PROVE  Claim
  BY <1>9, ForgeSame, QuietReverts DEF Checkout, ListOpen, ListMerged, Abort, counters, forge
<1>10. ASSUME NEW r \in Runs, CreateRequest(r) PROVE Claim
  BY <1>1, <1>10, ForgeCreates, QuietReverts DEF CreateRequest, counters
<1>11. ASSUME NEW r \in Runs, UpdateRequest(r) PROVE Claim
  BY <1>1, <1>11, ForgeUpdates, QuietReverts DEF UpdateRequest, counters
<1>12. ASSUME NEW r \in Runs, CloseRequest(r) PROVE Claim
  <2>1. PICK i \in DOMAIN requests : Closing(i)
    <3>1. RunInv(r) /\ run[r].pc = "apply" /\ run[r].decision = "close"
      BY <1>1, <1>12 DEF Invariant, CloseRequest, Applies
    <3> QED BY <1>12, <3>1 DEF RunInv, CloseRequest, Closing
  <2> QED BY <1>1, <1>12, <2>1, ForgeCloses, QuietReverts DEF CloseRequest, counters
<1>13. CASE UNCHANGED vars
  BY <1>13, ForgeSame, QuietReverts DEF vars, counters, forge
<1> QED BY <1>2, <1>3, <1>4, <1>5, <1>6, <1>7, <1>8, <1>9, <1>10, <1>11, <1>12, <1>13
        DEF Step, People, Proceed

LEMMA InitReverts == Init => RevertInv
<1> SUFFICES ASSUME Init PROVE RevertInv
  OBVIOUS
<1>1. 1 \in Objects /\ commits[1] = Root /\ source = 1 /\ target = 1 /\ requests = << >>
  BY DEF Init, Objects
<1>2. Tree(1) = {} /\ UniqueCommits(source, target) = {}
  BY <1>1 DEF Root, Tree, UniqueCommits
<1>3. Common(1) /\ LostSince(1) /\ GainedSince(1) /\ TakenOffSince(1)
  BY <1>1, <1>2 DEF Common, LostSince, GainedSince, TakenOffSince
<1>4. EdgeInv
  BY <1>1, <1>3 DEF EdgeInv
<1>5. MethodInv
  BY <1>1 DEF MethodInv
<1> QED BY <1>4, <1>5, InitContent DEF RevertInv

LEMMA RevertHolds == Spec => []RevertInv
BY InitReverts, RevertKept, PTL DEF Spec

(* RevertIsPromoted: with merge commits and no force push, and as long as   *)
(* nothing comes back that was taken out before, a change reverted at the  *)
(* source is off the target of an edge in sync unless people put it there: *)
(* the revert is carried forward like any other change, whatever people    *)
(* picked, took off or merged by hand in between.                          *)
THEOREM RevertsPromoted == Spec => [](relands = 0 => RevertIsPromoted)
BY RevertFrom, RevertHolds, PTL

(* The target then has nothing over the source but hotfixes.                *)
THEOREM SyncAddsOnlyHotfixes ==
  Spec => [](relands = 0 /\ InSync /\ MergeCommitsOnly => Tree(target) \ Tree(source) \subseteq hotfixed)
<1>1. RevertInv =>
        (relands = 0 /\ InSync /\ MergeCommitsOnly => Tree(target) \ Tree(source) \subseteq hotfixed)
  BY SyncedReverts
<1> QED BY <1>1, RevertHolds, PTL
=============================================================================
