------------------------ MODULE PromotionGraphProofs ------------------------
(***************************************************************************)
(* Proofs about PromotionGraph, for every graph of branches, every set of  *)
(* sources, both strategies, any amount of work, and merges, squashes and  *)
(* rebases of requests; a squash keeps the names of its commits or drops   *)
(* them, and each theorem says what that costs.                            *)
(***************************************************************************)
EXTENDS PromotionGraph, FiniteSetTheorems, WellFoundedInduction, TLAPS

(* A commit reaches itself and older ones.                                 *)
GraphInv == \A n \in DOMAIN commits : n \in Reach(n) /\ Reach(n) \subseteq 1..n

(* What an open backflow request refers to exists, and a merge of its head *)
(* brings what it is to carry.                                             *)
RequestInv ==
  \A s \in Sources : request[s] # None =>
    /\ {request[s].base, request[s].name} \subseteq DOMAIN commits
    /\ request[s].picks \subseteq DOMAIN commits
    /\ Merging => request[s].picks \subseteq Reach(request[s].name)

(* The upstream shows that n was returned: it has n itself, or a younger   *)
(* commit that names it.  (A squash under a message without the names of    *)
(* its picks leaves no such commit: those are unnamed, not returned.)       *)
Twin(n) ==
  IF Merging THEN n \in Reach(head[Upstream])
  ELSE \E m \in Reach(head[Upstream]) : n < m /\ n \in provenance[m]

Invariant ==
  /\ TypeOK /\ GraphInv /\ RequestInv
  /\ \A n \in returned : Twin(n)

-----------------------------------------------------------------------------
(* Settings and commits. *)

LEMMA SettingTyped ==
  ASSUME TypeOK
  PROVE  /\ Upstream \in Branches /\ Edges \subseteq Branches \X Branches
         /\ Sources \subseteq Branches
         /\ \A b \in Branches : head[b] \in DOMAIN commits
         /\ head[Upstream] \in DOMAIN commits
         /\ \A e \in Edges : head[e[1]] \in DOMAIN commits /\ head[e[2]] \in DOMAIN commits
<1>1. setting \in Setting
  BY GraphAssumption DEF TypeOK
<1>2. Upstream \in Branches /\ Edges \subseteq Branches \X Branches /\ Sources \subseteq Branches
  BY <1>1 DEF Setting, Upstream, Edges, Sources
<1>3. head \in [Branches -> DOMAIN commits]
  BY DEF TypeOK
<1> QED BY <1>2, <1>3

LEMMA CommitTyped ==
  ASSUME TypeOK, NEW n \in DOMAIN commits
  PROVE  /\ commits[n] \in Commit /\ Tree(n) \subseteq Changes /\ Reach(n) \subseteq Nat
         /\ n \in Nat /\ n <= Len(commits) /\ n >= 1
         /\ provenance[n] \subseteq Nat
<1>1. commits \in Seq(Commit) /\ provenance \in Seq(SUBSET Nat) /\ Len(provenance) = Len(commits)
  BY DEF TypeOK
<1>2. n \in 1..Len(commits) /\ Len(commits) \in Nat /\ n \in 1..Len(provenance)
  BY <1>1
<1>3. commits[n] \in Commit /\ provenance[n] \in SUBSET Nat
  BY <1>1, <1>2
<1> QED BY <1>2, <1>3 DEF Commit, Tree, Reach

-----------------------------------------------------------------------------
(* New commits at the end of a branch. *)

LEMMA Concatenated ==
  ASSUME NEW S, NEW s \in Seq(S), NEW t \in Seq(S)
  PROVE  s \o t \in Seq(S) /\ Len(s \o t) = Len(s) + Len(t)
OBVIOUS

LEMMA Landing ==
  ASSUME TypeOK, GraphInv, NEW b \in Branches,
         NEW new \in Seq(Commit), NEW names \in Seq(SUBSET Nat),
         new # << >>, Len(names) = Len(new),
         \A i \in 1..Len(new) : /\ Len(commits) + i \in new[i].reach
                                /\ new[i].reach \subseteq 1..Len(commits) + i,
         Reach(head[b]) \subseteq new[Len(new)].reach,
         Lands(b, new, names)
  PROVE  /\ commits' \in Seq(Commit) /\ provenance' \in Seq(SUBSET Nat)
         /\ Len(provenance') = Len(commits')
         /\ head' \in [Branches -> DOMAIN commits']
         /\ GraphInv'
         /\ \A n \in DOMAIN commits : /\ n \in DOMAIN commits'
                                      /\ commits'[n] = commits[n]
                                      /\ provenance'[n] = provenance[n]
         /\ \A i \in 1..Len(new) : /\ commits'[Len(commits) + i] = new[i]
                                   /\ provenance'[Len(commits) + i] = names[i]
         /\ \A c \in Branches : Reach(head[c]) \subseteq Reach(head[c])'
         /\ Reach(head[b])' = new[Len(new)].reach
<1> DEFINE len == Len(commits)
<1>1. /\ commits \in Seq(Commit) /\ provenance \in Seq(SUBSET Nat)
      /\ Len(provenance) = len /\ len \in Nat
      /\ head \in [Branches -> DOMAIN commits] /\ DOMAIN commits = 1..len
  BY DEF TypeOK
<1>2. Len(new) \in Nat \ {0}
  OBVIOUS
<1>3. commits' = commits \o new /\ provenance' = provenance \o names
      /\ head' = [head EXCEPT ![b] = len + Len(new)]
  BY DEF Lands
<1>4. /\ commits' \in Seq(Commit) /\ Len(commits') = len + Len(new)
      /\ DOMAIN commits' = 1..(len + Len(new))
  BY <1>1, <1>3
<1>5. provenance' \in Seq(SUBSET Nat) /\ Len(provenance') = len + Len(new)
  <2>1. /\ provenance \o names \in Seq(SUBSET Nat)
        /\ Len(provenance \o names) = Len(provenance) + Len(names)
    BY <1>1, Concatenated, Zenon
  <2> QED BY <1>1, <1>3, <2>1
<1>6. \A n \in DOMAIN commits : n \in DOMAIN commits' /\ commits'[n] = commits[n]
  BY <1>1, <1>3, <1>4
<1>7. \A n \in DOMAIN commits : provenance'[n] = provenance[n]
  BY <1>1, <1>3
<1>8. \A i \in 1..Len(new) : commits'[len + i] = new[i]
  BY <1>1, <1>3
<1>9. \A i \in 1..Len(new) : provenance'[len + i] = names[i]
  BY <1>1, <1>3
<1>10. head' \in [Branches -> DOMAIN commits']
  BY <1>1, <1>2, <1>3, <1>4
<1>11. ASSUME NEW n \in DOMAIN commits'
       PROVE  n \in Reach(n)' /\ Reach(n)' \subseteq 1..n
  <2>1. CASE n \in DOMAIN commits
    BY <1>6, <2>1 DEF GraphInv, Reach
  <2>2. CASE n \notin DOMAIN commits
    <3>1. n - len \in 1..Len(new) /\ n = len + (n - len)
      BY <1>1, <1>2, <1>4, <2>2
    <3>2. Reach(n)' = new[n - len].reach
      BY <1>8, <3>1 DEF Reach
    <3> QED BY <3>1, <3>2
  <2> QED BY <2>1, <2>2
<1>12. GraphInv'
  BY <1>11 DEF GraphInv
<1>13. Reach(head[b])' = new[Len(new)].reach
  <2>1. head'[b] = len + Len(new) /\ Len(new) \in 1..Len(new)
    BY <1>1, <1>2, <1>3
  <2> QED BY <1>8, <2>1 DEF Reach
<1>14. ASSUME NEW c \in Branches PROVE Reach(head[c]) \subseteq Reach(head[c])'
  <2>1. CASE c = b
    BY <1>13, <2>1
  <2>2. CASE c # b
    <3>1. head'[c] = head[c] /\ head[c] \in DOMAIN commits
      BY <1>1, <1>3, <2>2
    <3> QED BY <1>6, <3>1 DEF Reach
  <2> QED BY <2>1, <2>2
<1> QED BY <1>4, <1>5, <1>6, <1>7, <1>8, <1>9, <1>10, <1>12, <1>13, <1>14

-----------------------------------------------------------------------------
(* Replays. *)

LEMMA KeptPicked == ASSUME NEW base, NEW picks PROVE Kept(base, picks) \subseteq picks
BY DEF Kept

(* A replay lists every pick it keeps.                                     *)
LEMMA ReplayListed ==
  ASSUME TypeOK, NEW base, NEW picks \in SUBSET DOMAIN commits,
         NEW replay \in Replays(base, picks)
  PROVE  /\ replay \in Seq(DOMAIN commits)
         /\ \A n \in Kept(base, picks) : \E i \in 1..Len(replay) : replay[i] = n
         /\ \A i \in 1..Len(replay) : replay[i] \in Kept(base, picks)
<1> DEFINE kept == Kept(base, picks)
           size == Cardinality(kept)
<1>1. kept \subseteq picks /\ kept \subseteq DOMAIN commits
  BY KeptPicked
<1>2. IsFiniteSet(kept) /\ size \in Nat
  <2>1. DOMAIN commits = 1..Len(commits) /\ Len(commits) \in Nat
    BY DEF TypeOK
  <2>2. IsFiniteSet(DOMAIN commits)
    BY <2>1, FS_Interval
  <2> QED BY <1>1, <2>2, FS_Subset, FS_CardinalityType
<1>3. replay \in [1..size -> kept] /\ \A i, j \in DOMAIN replay : i < j => replay[i] < replay[j]
  BY DEF Replays
<1>4. \A n \in kept : n \in Nat
  BY <1>1, CommitTyped
<1>5. replay \in Injection(1..size, kept)
  <2>1. ASSUME NEW i \in 1..size, NEW j \in 1..size, replay[i] = replay[j] PROVE i = j
    <3>1. ~ (i < j) /\ ~ (j < i)
      BY <1>2, <1>3, <1>4, <2>1
    <3> QED BY <1>2, <3>1
  <2> QED BY <1>3, <2>1 DEF Injection, IsInjective
<1>6. Cardinality(1..size) = size
  BY <1>2, FS_Interval
<1>7. replay \in Surjection(1..size, kept)
  BY <1>2, <1>5, <1>6, FS_Injection
<1>8. replay \in Seq(DOMAIN commits) /\ Len(replay) = size
  BY <1>1, <1>2, <1>3
<1> QED BY <1>3, <1>7, <1>8 DEF Surjection

LEMMA TreesTyped ==
  ASSUME TypeOK, NEW a \in DOMAIN commits, NEW b \in DOMAIN commits
  PROVE  MergedTree(a, b) \subseteq Changes
BY CommitTyped DEF MergedTree

(* The commits of a replay grow out of its base.                           *)
LEMMA ChainTyped ==
  ASSUME TypeOK, GraphInv, NEW base \in DOMAIN commits,
         NEW replay \in Seq(DOMAIN commits)
  PROVE  /\ Chain(base, replay) \in Seq(Commit)
         /\ Len(Chain(base, replay)) = Len(replay)
         /\ \A i \in 1..Len(replay) :
              /\ Chain(base, replay)[i].reach = Reach(base) \cup Len(commits) + 1 .. Len(commits) + i
              /\ Reach(base) \subseteq 1..Len(commits)
<1> DEFINE chain == Chain(base, replay)
           len == Len(commits)
<1>1. len \in Nat /\ Len(replay) \in Nat /\ DOMAIN replay = 1..Len(replay) /\ base \in Nat
  BY CommitTyped DEF TypeOK
<1>2. Reach(base) \subseteq 1..len /\ Reach(base) \subseteq Nat
  <2>1. Reach(base) \subseteq 1..base /\ base <= len /\ base \in Nat
    BY CommitTyped DEF GraphInv
  <2> QED BY <1>1, <2>1
<1>3. DOMAIN chain = 1..Len(replay)
  BY <1>1 DEF Chain
<1>4. ASSUME NEW i \in 1..Len(replay)
      PROVE  chain[i] \in Commit /\ chain[i].reach = Reach(base) \cup len + 1 .. len + i
  <2> DEFINE c == [parents |-> <<IF i = 1 THEN base ELSE len + i - 1>>,
                   tree |-> TreeAfter(base, {replay[j] : j \in 1..i}),
                   reach |-> Reach(base) \cup len + 1 .. len + i]
  <2>1. chain[i] = c
    BY <1>1, <1>3 DEF Chain
  <2>2. c.tree \subseteq Changes
    BY DEF TreeAfter
  <2>3. (IF i = 1 THEN base ELSE len + i - 1) \in Nat
    BY <1>1
  <2>4. c.parents \in Seq(Nat)
    BY <2>3
  <2>5. c.reach \subseteq Nat
    BY <1>1, <1>2
  <2>6. c \in Commit
    BY <2>2, <2>4, <2>5 DEF Commit
  <2> QED BY <2>1, <2>6
<1>5. chain \in Seq(Commit) /\ Len(chain) = Len(replay)
  <2>1. chain = [i \in 1..Len(replay) |-> chain[i]]
    BY <1>1 DEF Chain
  <2> QED BY <1>1, <1>4, <2>1
<1> QED BY <1>2, <1>4, <1>5

LEMMA ChildTyped ==
  ASSUME TypeOK, GraphInv, NEW n \in DOMAIN commits, NEW tree \in SUBSET Changes
  PROVE  /\ Child(n, tree) \in Commit
         /\ Child(n, tree).reach = Reach(n) \cup {Len(commits) + 1}
         /\ Reach(n) \subseteq 1..Len(commits)
<1>1. Len(commits) \in Nat /\ n \in Nat /\ n <= Len(commits) /\ Reach(n) \subseteq Nat
  BY CommitTyped DEF TypeOK
<1>2. Reach(n) \subseteq 1..Len(commits)
  BY <1>1 DEF GraphInv
<1>3. <<n>> \in Seq(Nat)
  BY <1>1
<1> QED BY <1>1, <1>2, <1>3 DEF Child, Commit, NextNumber

LEMMA MergeTyped ==
  ASSUME TypeOK, GraphInv, NEW a \in DOMAIN commits, NEW b \in DOMAIN commits,
         NEW tree \in SUBSET Changes
  PROVE  /\ MergeOf(a, b, tree) \in Commit
         /\ MergeOf(a, b, tree).reach = Reach(a) \cup Reach(b) \cup {Len(commits) + 1}
         /\ MergeOf(a, b, tree).tree = tree
         /\ Reach(a) \cup Reach(b) \subseteq 1..Len(commits)
<1>1. /\ Len(commits) \in Nat /\ a \in Nat /\ b \in Nat
      /\ Reach(a) \subseteq Nat /\ Reach(b) \subseteq Nat
  BY CommitTyped DEF TypeOK
<1>2. Reach(a) \subseteq 1..Len(commits) /\ Reach(b) \subseteq 1..Len(commits)
  BY ChildTyped
<1>3. <<a, b>> \in Seq(Nat)
  BY <1>1
<1> QED BY <1>1, <1>2, <1>3 DEF MergeOf, Commit, NextNumber

-----------------------------------------------------------------------------
(* What a step that adds commits keeps. *)

Grown ==
  /\ commits' \in Seq(Commit) /\ provenance' \in Seq(SUBSET Nat)
  /\ Len(provenance') = Len(commits')
  /\ head' \in [Branches -> DOMAIN commits']
  /\ GraphInv'
  /\ \A n \in DOMAIN commits : /\ n \in DOMAIN commits'
                               /\ commits'[n] = commits[n]
                               /\ provenance'[n] = provenance[n]
  /\ \A c \in Branches : Reach(head[c]) \subseteq Reach(head[c])'

LEMMA StillGrown ==
  ASSUME TypeOK, GraphInv, UNCHANGED <<objects, head>>
  PROVE  Grown
BY DEF TypeOK, GraphInv, Grown, objects, Reach

(* One new commit on a branch.                                             *)
LEMMA OneLands ==
  ASSUME TypeOK, GraphInv, NEW b \in Branches, NEW c \in Commit, NEW names \in SUBSET Nat,
         Len(commits) + 1 \in c.reach, c.reach \subseteq 1..Len(commits) + 1,
         Reach(head[b]) \subseteq c.reach, Lands(b, <<c>>, <<names>>)
  PROVE  /\ Grown
         /\ provenance'[Len(commits) + 1] = names
         /\ Reach(head[b])' = c.reach
<1> DEFINE new == <<c>>
           all == <<names>>
<1>1. new \in Seq(Commit) /\ Len(new) = 1 /\ new[1] = c /\ new # << >>
  OBVIOUS
<1>2. all \in Seq(SUBSET Nat) /\ Len(all) = 1 /\ all[1] = names
  OBVIOUS
<1>3. Lands(b, new, all)
  OBVIOUS
<1>4. \A i \in 1..Len(new) : /\ Len(commits) + i \in new[i].reach
                             /\ new[i].reach \subseteq 1..Len(commits) + i
  BY <1>1
<1>5. Reach(head[b]) \subseteq new[Len(new)].reach
  BY <1>1
<1>6. Len(all) = Len(new)
  BY <1>1, <1>2
<1> HIDE DEF new, all
<1>7. /\ commits' \in Seq(Commit) /\ provenance' \in Seq(SUBSET Nat)
      /\ Len(provenance') = Len(commits')
      /\ head' \in [Branches -> DOMAIN commits']
      /\ GraphInv'
      /\ \A n \in DOMAIN commits : /\ n \in DOMAIN commits'
                                   /\ commits'[n] = commits[n]
                                   /\ provenance'[n] = provenance[n]
      /\ \A i \in 1..Len(new) : /\ commits'[Len(commits) + i] = new[i]
                                /\ provenance'[Len(commits) + i] = all[i]
      /\ \A d \in Branches : Reach(head[d]) \subseteq Reach(head[d])'
      /\ Reach(head[b])' = new[Len(new)].reach
  BY <1>1, <1>2, <1>3, <1>4, <1>5, <1>6, Landing, Zenon
<1>8. provenance'[Len(commits) + 1] = names /\ Reach(head[b])' = c.reach
  BY <1>1, <1>2, <1>7
<1> QED BY <1>7, <1>8 DEF Grown

LEMMA TwinKept ==
  ASSUME Invariant, Grown, setting' = setting, NEW n \in returned
  PROVE  Twin(n)'
<1>1. Upstream' = Upstream /\ (Merging' <=> Merging) /\ Upstream \in Branches
  BY SettingTyped DEF Upstream, Merging, Invariant
<1>2. Reach(head[Upstream]) \subseteq Reach(head[Upstream])'
  BY <1>1 DEF Grown
<1>3. Twin(n)
  BY DEF Invariant
<1>4. CASE Merging
  BY <1>1, <1>2, <1>3, <1>4 DEF Twin
<1>5. CASE ~Merging
  <2>1. PICK m \in Reach(head[Upstream]) : n < m /\ n \in provenance[m]
    BY <1>3, <1>5 DEF Twin
  <2>2. m \in DOMAIN commits
    <3>1. head[Upstream] \in DOMAIN commits
      BY SettingTyped DEF Invariant
    <3>2. Reach(head[Upstream]) \subseteq 1..Len(commits)
      BY <3>1, ChildTyped DEF Invariant
    <3> QED BY <3>2 DEF Invariant, TypeOK
  <2>3. provenance'[m] = provenance[m]
    BY <2>2 DEF Grown
  <2> QED BY <1>1, <1>2, <1>5, <2>1, <2>3 DEF Twin
<1> QED BY <1>4, <1>5

(* Requests that stay refer to what is still there.                        *)
LEMMA RequestsKept ==
  ASSUME Invariant, Grown, setting' = setting,
         request' \in [Sources -> Request \cup {None}],
         \A s \in Sources : request'[s] \in {request[s], None}
  PROVE  RequestInv'
<1>1. Sources' = Sources /\ (Merging' <=> Merging)
  BY DEF Sources, Merging
<1>2. ASSUME NEW s \in Sources, request'[s] # None
      PROVE  /\ {request'[s].base, request'[s].name} \subseteq DOMAIN commits'
             /\ request'[s].picks \subseteq DOMAIN commits'
             /\ Merging => request'[s].picks \subseteq Reach(request[s].name)'
  <2>1. request'[s] = request[s]
    BY <1>2
  <2>2. /\ {request[s].base, request[s].name} \subseteq DOMAIN commits
        /\ request[s].picks \subseteq DOMAIN commits
        /\ Merging => request[s].picks \subseteq Reach(request[s].name)
    BY <1>2, <2>1 DEF Invariant, RequestInv
  <2>3. commits'[request[s].name] = commits[request[s].name] /\ DOMAIN commits \subseteq DOMAIN commits'
    BY <2>2 DEF Grown
  <2>4. Reach(request[s].name)' = Reach(request[s].name)
    BY <2>1, <2>3 DEF Reach
  <2> QED BY <2>1, <2>2, <2>3, <2>4
<1> QED BY <1>1, <1>2 DEF RequestInv

-----------------------------------------------------------------------------
(* One lemma per action. *)

LEMMA InitHolds == Init => Invariant
<1> SUFFICES ASSUME Init PROVE Invariant
  OBVIOUS
<1>1. setting \in Setting
  BY GraphAssumption DEF Init
<1>2. commits = <<Root>> /\ Root \in Commit /\ commits \in Seq(Commit) /\ Len(commits) = 1
  BY DEF Init, Root, Commit
<1>3. provenance \in Seq(SUBSET Nat) /\ Len(provenance) = 1
  BY DEF Init
<1>4. head \in [Branches -> DOMAIN commits]
  BY <1>2 DEF Init
<1>5. TypeOK
  BY <1>2, <1>3, <1>4 DEF Init, TypeOK
<1>6. GraphInv
  BY <1>2 DEF GraphInv, Reach, Root
<1>7. RequestInv
  BY DEF Init, RequestInv
<1> QED BY <1>5, <1>6, <1>7 DEF Init, Invariant

LEMMA ToReturnTyped ==
  ASSUME Invariant, NEW s \in Sources
  PROVE  ToReturn(s) \subseteq Reach(head[s]) /\ ToReturn(s) \subseteq DOMAIN commits
<1>1. head[s] \in DOMAIN commits
  BY SettingTyped DEF Invariant
<1>2. Reach(head[s]) \subseteq 1..Len(commits)
  BY <1>1, ChildTyped DEF Invariant
<1>3. DOMAIN commits = 1..Len(commits)
  BY DEF Invariant, TypeOK
<1>4. ToReturn(s) \subseteq Reach(head[s])
  <2>1. \A n \in ToReturn(s) : n \in UniqueCommits(head[Upstream], head[s])
    BY DEF ToReturn
  <2> QED BY <2>1 DEF UniqueCommits
<1> QED BY <1>2, <1>3, <1>4

LEMMA RunKeeps ==
  ASSUME Invariant, Run
  PROVE  Invariant'
<1> USE DEF Run
<1>1. UNCHANGED <<objects, head, setting, latest, returned, unnamed, retracted, work>>
  BY DEF history
<1>2. commits' = commits /\ provenance' = provenance
  BY <1>1 DEF objects
<1>3. Grown
  BY <1>1, StillGrown DEF Invariant
<1>4. open' \in [Edges -> Nat \cup {None}]
  <2>1. ASSUME NEW e \in Edges PROVE AfterPlan(e) \in Nat \cup {None}
    <3>1. head[e[1]] \in Nat
      BY SettingTyped, CommitTyped DEF Invariant
    <3>2. open[e] \in Nat \cup {None}
      BY DEF Invariant, TypeOK
    <3> QED BY <3>1, <3>2 DEF AfterPlan
  <2> QED BY <2>1
<1>5. ASSUME NEW s \in Sources
      PROVE  /\ request'[s] \in Request \cup {None}
             /\ request'[s] # None =>
                  /\ {request'[s].base, request'[s].name} \subseteq DOMAIN commits
                  /\ request'[s].picks \subseteq DOMAIN commits
                  /\ Merging => request'[s].picks \subseteq Reach(request[s].name)'
  <2>1. request'[s] = AfterApply(s)
    OBVIOUS
  <2>2. CASE Proposes(s)
    <3> DEFINE q == [name |-> head[s], base |-> head[Upstream], picks |-> ToReturn(s)]
    <3>1. request'[s] = q
      BY <2>1, <2>2 DEF AfterApply
    <3>2. {q.base, q.name} \subseteq DOMAIN commits
      BY SettingTyped DEF Invariant
    <3>3. q.picks \subseteq DOMAIN commits /\ q.picks \subseteq Reach(q.name)
      BY ToReturnTyped
    <3>4. q \in Request
      BY <3>2, <3>3, CommitTyped DEF Request, Invariant
    <3>5. Reach(request[s].name)' = Reach(q.name)
      BY <1>2, <3>1 DEF Reach
    <3> QED BY <3>1, <3>2, <3>3, <3>4, <3>5
  <2>3. CASE ~Proposes(s)
    <3>1. request'[s] = request[s]
      BY <2>1, <2>3 DEF AfterApply
    <3>2. request[s] \in Request \cup {None}
      BY DEF Invariant, TypeOK
    <3>3. Reach(request[s].name)' = Reach(request[s].name)
      BY <1>2, <3>1 DEF Reach
    <3> QED BY <3>1, <3>2, <3>3 DEF Invariant, RequestInv
  <2> QED BY <2>2, <2>3
<1>6. request' \in [Sources -> Request \cup {None}]
  BY <1>5
<1>7. RequestInv'
  BY <1>1, <1>2, <1>5 DEF RequestInv, Sources, Merging
<1>8. TypeOK'
  BY <1>1, <1>2, <1>4, <1>6 DEF Invariant, TypeOK, Edges, Sources
<1>9. \A n \in returned' : Twin(n)'
  BY <1>1, <1>3, TwinKept
<1>10. GraphInv'
  BY <1>3 DEF Grown
<1> QED BY <1>7, <1>8, <1>9, <1>10 DEF Invariant

(* A step that lands commits and returns nothing.                          *)
LEMMA LandingKeeps ==
  ASSUME Invariant, Grown, setting' = setting, returned' = returned, unnamed' = unnamed,
         open' \in [Edges -> Nat \cup {None}], latest' \in [Edges -> Nat \cup {None}],
         request' \in [Sources -> Request \cup {None}],
         \A s \in Sources : request'[s] \in {request[s], None},
         retracted' \subseteq Changes, work' \in Nat
  PROVE  Invariant'
<1>1. RequestInv'
  BY RequestsKept
<1>2. TypeOK'
  BY DEF Invariant, Grown, TypeOK, Edges, Sources
<1>3. \A n \in returned' : Twin(n)'
  BY TwinKept
<1> QED BY <1>1, <1>2, <1>3 DEF Invariant, Grown

LEMMA ChildLands ==
  ASSUME TypeOK, GraphInv, NEW b \in Branches, NEW tree \in SUBSET Changes,
         NEW names \in SUBSET Nat, Lands(b, <<Child(head[b], tree)>>, <<names>>)
  PROVE  /\ Grown
         /\ provenance'[Len(commits) + 1] = names
         /\ Reach(head[b])' = Reach(head[b]) \cup {Len(commits) + 1}
<1> DEFINE c == Child(head[b], tree)
<1>1. head[b] \in DOMAIN commits /\ Len(commits) \in Nat
  BY SettingTyped DEF TypeOK
<1>2. /\ c \in Commit /\ c.reach = Reach(head[b]) \cup {Len(commits) + 1}
      /\ Reach(head[b]) \subseteq 1..Len(commits)
  BY <1>1, ChildTyped
<1>3. Len(commits) + 1 \in c.reach /\ c.reach \subseteq 1..Len(commits) + 1
  BY <1>1, <1>2
<1>4. Lands(b, <<c>>, <<names>>)
  OBVIOUS
<1> HIDE DEF c
<1>5. Grown /\ provenance'[Len(commits) + 1] = names /\ Reach(head[b])' = c.reach
  BY <1>2, <1>3, <1>4, OneLands
<1> QED BY <1>2, <1>5

LEMMA WriteKeeps ==
  ASSUME Invariant, NEW b \in Used, NEW tree \in SUBSET Changes, NEW names \in SUBSET Nat,
         Write(b, tree, names), retracted' \subseteq Changes
  PROVE  Invariant'
<1> USE DEF Write
<1>1. b \in Branches
  BY SettingTyped DEF Used, Invariant
<1>2. Grown
  BY <1>1, ChildLands DEF Invariant
<1>3. UNCHANGED <<setting, open, latest, request, returned, unnamed>>
  BY DEF forge
<1>4. /\ open \in [Edges -> Nat \cup {None}] /\ latest \in [Edges -> Nat \cup {None}]
      /\ request \in [Sources -> Request \cup {None}] /\ work' \in Nat
  BY DEF Invariant, TypeOK
<1> QED BY <1>2, <1>3, <1>4, LandingKeeps

LEMMA LandKeeps ==
  ASSUME Invariant, NEW b \in Used, NEW x \in Changes, Land(b, x)
  PROVE  Invariant'
<1>1. b \in Branches
  BY SettingTyped DEF Used, Invariant
<1>2. Tree(head[b]) \cup {x} \in SUBSET Changes
  BY <1>1, SettingTyped, CommitTyped DEF Invariant
<1>3. retracted' \subseteq Changes
  BY DEF Land, Invariant, TypeOK
<1> QED BY <1>2, <1>3, WriteKeeps DEF Land

LEMMA RevertKeeps ==
  ASSUME Invariant, NEW b \in Used, NEW x \in Changes, Revert(b, x)
  PROVE  Invariant'
<1>1. b \in Branches
  BY SettingTyped DEF Used, Invariant
<1>2. Tree(head[b]) \ {x} \in SUBSET Changes
  BY <1>1, SettingTyped, CommitTyped DEF Invariant
<1>3. retracted' \subseteq Changes
  BY DEF Revert, Invariant, TypeOK
<1> QED BY <1>2, <1>3, WriteKeeps DEF Revert

LEMMA PickByHandKeeps ==
  ASSUME Invariant, NEW b \in Used, NEW c \in Used, NEW n \in Reach(head[c]), PickByHand(b, n)
  PROVE  Invariant'
<1>1. b \in Branches /\ c \in Branches
  BY SettingTyped DEF Used, Invariant
<1>2. n \in DOMAIN commits
  <2>1. Reach(head[c]) \subseteq 1..Len(commits)
    BY <1>1, SettingTyped, ChildTyped DEF Invariant
  <2> QED BY <2>1 DEF Invariant, TypeOK
<1>3. Tree(head[b]) \cup Diff(n).added \in SUBSET Changes
  BY <1>1, <1>2, SettingTyped, CommitTyped DEF Invariant, Diff
<1>4. provenance[n] \in SUBSET Nat
  BY <1>2, CommitTyped DEF Invariant
<1>5. retracted' \subseteq Changes
  BY DEF PickByHand, Invariant, TypeOK
<1> QED BY <1>3, <1>4, <1>5, WriteKeeps DEF PickByHand

LEMMA CloseReturnKeeps ==
  ASSUME Invariant, NEW s \in Sources, CloseReturn(s)
  PROVE  Invariant'
<1>1. /\ UNCHANGED <<setting, objects, head, open, latest, returned, unnamed, retracted, work>>
      /\ request' = [request EXCEPT ![s] = None]
  BY DEF CloseReturn, history
<1>2. Grown
  BY <1>1, StillGrown DEF Invariant
<1>3. request \in [Sources -> Request \cup {None}]
  BY DEF Invariant, TypeOK
<1>4. /\ request' \in [Sources -> Request \cup {None}]
      /\ \A t \in Sources : request'[t] \in {request[t], None}
  BY <1>1, <1>3
<1>5. /\ open \in [Edges -> Nat \cup {None}] /\ latest \in [Edges -> Nat \cup {None}]
      /\ retracted \subseteq Changes /\ work \in Nat
  BY DEF Invariant, TypeOK
<1> QED BY <1>1, <1>2, <1>4, <1>5, LandingKeeps

(* What a commit reaches, after a number of new ones.                      *)
LEMMA ReachBound ==
  ASSUME NEW len \in Nat, NEW i \in Nat, i >= 1, NEW old, old \subseteq 1..len,
         NEW reach, reach = old \cup len + 1 .. len + i
  PROVE  len + i \in reach /\ reach \subseteq 1..len + i /\ old \subseteq reach
OBVIOUS

(* Whatever lands several commits grows the history too.                   *)
LEMMA ReplayLands ==
  ASSUME TypeOK, GraphInv, NEW b \in Branches, NEW picks \in SUBSET DOMAIN commits,
         Kept(head[b], picks) # {}, NEW replay \in Replays(head[b], picks),
         NEW names, \A i \in 1..Len(replay) : names[i] \in SUBSET Nat,
         names = [i \in 1..Len(replay) |-> names[i]],
         Lands(b, Chain(head[b], replay), names)
  PROVE  /\ Grown
         /\ \A i \in 1..Len(replay) :
              /\ provenance'[Len(commits) + i] = names[i]
              /\ Len(commits) + i \in Reach(head[b])'
<1> DEFINE new == Chain(head[b], replay)
           len == Len(commits)
<1>1. /\ replay \in Seq(DOMAIN commits)
      /\ \A n \in Kept(head[b], picks) : \E i \in 1..Len(replay) : replay[i] = n
  BY ReplayListed
<1>2. Len(replay) \in Nat /\ Len(replay) >= 1 /\ len \in Nat
  BY <1>1 DEF TypeOK
<1>3. head[b] \in DOMAIN commits
  BY SettingTyped
<1>4. /\ new \in Seq(Commit) /\ Len(new) = Len(replay)
      /\ \A i \in 1..Len(replay) : /\ new[i].reach = Reach(head[b]) \cup len + 1 .. len + i
                                   /\ Reach(head[b]) \subseteq 1..len
  BY <1>1, <1>3, ChainTyped
<1>5. names \in Seq(SUBSET Nat) /\ Len(names) = Len(new)
  BY <1>2, <1>4
<1>6. new # << >> /\ Lands(b, new, names)
  BY <1>2, <1>4
<1> HIDE DEF new
<1>7. \A i \in 1..Len(new) : /\ len + i \in new[i].reach /\ new[i].reach \subseteq 1..len + i
                              /\ Reach(head[b]) \subseteq new[i].reach
  <2> TAKE i \in 1..Len(new)
  <2>1. i \in Nat /\ i >= 1 /\ i \in 1..Len(replay)
    BY <1>2, <1>4
  <2>2. new[i].reach = Reach(head[b]) \cup len + 1 .. len + i /\ Reach(head[b]) \subseteq 1..len
    BY <1>4, <2>1
  <2> QED BY <1>2, <2>1, <2>2, ReachBound
<1>8. Reach(head[b]) \subseteq new[Len(new)].reach
  <2>1. Len(new) \in 1..Len(new)
    BY <1>2, <1>4
  <2> QED BY <1>7, <2>1
<1>9. /\ commits' \in Seq(Commit) /\ provenance' \in Seq(SUBSET Nat)
      /\ Len(provenance') = Len(commits')
      /\ head' \in [Branches -> DOMAIN commits']
      /\ GraphInv'
      /\ \A n \in DOMAIN commits : /\ n \in DOMAIN commits'
                                   /\ commits'[n] = commits[n]
                                   /\ provenance'[n] = provenance[n]
      /\ \A i \in 1..Len(new) : /\ commits'[Len(commits) + i] = new[i]
                                /\ provenance'[Len(commits) + i] = names[i]
      /\ \A d \in Branches : Reach(head[d]) \subseteq Reach(head[d])'
      /\ Reach(head[b])' = new[Len(new)].reach
  BY <1>4, <1>5, <1>6, <1>7, <1>8, Landing, Zenon
<1>10. ASSUME NEW i \in 1..Len(replay)
       PROVE  len + i \in Reach(head[b])'
  <2>1. Len(new) \in 1..Len(replay)
    BY <1>2, <1>4
  <2>2. new[Len(new)].reach = Reach(head[b]) \cup len + 1 .. len + Len(new)
    BY <1>4, <2>1
  <2>3. len + i \in len + 1 .. len + Len(new)
    BY <1>2, <1>4
  <2> QED BY <1>9, <2>2, <2>3
<1> QED BY <1>4, <1>9, <1>10 DEF Grown

(* A merge of a promotion brings commits, and what they name comes from    *)
(* the commits it promotes.                                                *)
LEMMA MergePromotionGrows ==
  ASSUME Invariant, NEW e \in Edges, NEW method \in setting.methods, MergePromotion(e, method)
  PROVE  Grown
<1> DEFINE from == head[e[1]]
           to == head[e[2]]
           range == UniqueCommits(to, from)
<1>1. /\ from \in DOMAIN commits /\ to \in DOMAIN commits /\ e[2] \in Branches
      /\ TypeOK /\ GraphInv
  BY SettingTyped DEF Invariant
<1>2. range \in SUBSET DOMAIN commits
  <2>1. Reach(from) \subseteq 1..Len(commits)
    BY <1>1, ChildTyped
  <2> QED BY <1>1, <2>1 DEF UniqueCommits, TypeOK
<1>3. MergedTree(to, from) \in SUBSET Changes
  BY <1>1, TreesTyped
<1>4. CASE Lands(e[2], <<MergeOf(to, from, MergedTree(to, from))>>, <<{}>>)
  <2> DEFINE c == MergeOf(to, from, MergedTree(to, from))
  <2>1. /\ c \in Commit /\ c.reach = Reach(to) \cup Reach(from) \cup {Len(commits) + 1}
        /\ Reach(to) \cup Reach(from) \subseteq 1..Len(commits)
    BY <1>1, <1>3, MergeTyped
  <2>2. Len(commits) \in Nat
    BY <1>1 DEF TypeOK
  <2>3. Len(commits) + 1 \in c.reach /\ c.reach \subseteq 1..Len(commits) + 1
    BY <2>1, <2>2
  <2>4. Lands(e[2], <<c>>, <<{}>>)
    BY <1>4
  <2>5. Reach(head[e[2]]) \subseteq c.reach
    BY <2>1
  <2> HIDE DEF c
  <2> QED BY <1>1, <2>1, <2>3, <2>4, <2>5, OneLands
<1>5. ASSUME NEW names \in {UNION {provenance[n] : n \in range}, {}},
             Lands(e[2], <<Child(to, MergedTree(to, from))>>, <<names>>)
      PROVE  Grown
  <2>1. names \in SUBSET Nat
    <3>1. \A n \in range : provenance[n] \subseteq Nat
      BY <1>1, <1>2, CommitTyped
    <3> QED BY <3>1
  <2> QED BY <1>1, <1>3, <1>5, <2>1, ChildLands
<1>6. CASE /\ Kept(to, range) # {}
           /\ \E replay \in Replays(to, range) :
                Lands(e[2], Chain(to, replay), [i \in DOMAIN replay |-> provenance[replay[i]]])
  <2>1. PICK replay \in Replays(to, range) :
          Lands(e[2], Chain(to, replay), [i \in DOMAIN replay |-> provenance[replay[i]]])
    BY <1>6
  <2> DEFINE names == [i \in 1..Len(replay) |-> provenance[replay[i]]]
  <2>2. replay \in Seq(DOMAIN commits)
    BY <1>1, <1>2, ReplayListed
  <2>3. DOMAIN replay = 1..Len(replay)
    BY <2>2
  <2>4. Lands(e[2], Chain(to, replay), names)
    BY <2>1, <2>3
  <2>5. \A i \in 1..Len(replay) : names[i] \in SUBSET Nat
    BY <1>1, <2>2, CommitTyped
  <2>6. names = [i \in 1..Len(replay) |-> names[i]]
    OBVIOUS
  <2> HIDE DEF names
  <2> QED BY <1>1, <1>2, <1>6, <2>4, <2>5, <2>6, ReplayLands
<1> QED BY <1>4, <1>5, <1>6 DEF MergePromotion

LEMMA MergePromotionKeeps ==
  ASSUME Invariant, NEW e \in Edges, NEW method \in setting.methods, MergePromotion(e, method)
  PROVE  Invariant'
<1>1. Grown
  BY MergePromotionGrows
<1>2. /\ open' = [open EXCEPT ![e] = None] /\ latest' = [latest EXCEPT ![e] = open[e]]
      /\ UNCHANGED <<setting, request, returned, unnamed, retracted, work>>
  BY DEF MergePromotion, history
<1>3. /\ open \in [Edges -> Nat \cup {None}] /\ latest \in [Edges -> Nat \cup {None}]
      /\ request \in [Sources -> Request \cup {None}]
      /\ retracted \subseteq Changes /\ work \in Nat
  BY DEF Invariant, TypeOK
<1>4. open' \in [Edges -> Nat \cup {None}] /\ latest' \in [Edges -> Nat \cup {None}]
  BY <1>2, <1>3
<1> QED BY <1>1, <1>2, <1>3, <1>4, LandingKeeps

-----------------------------------------------------------------------------
(* Merging a backflow request. *)

LEMMA Named == \A n \in DOMAIN provenance : n \in NamedBy(n)
BY DEF NamedBy

LEMMA NamedTyped ==
  ASSUME TypeOK, NEW n \in DOMAIN commits
  PROVE  NamedBy(n) \in SUBSET Nat
BY CommitTyped DEF NamedBy

(* A replay that is merged as a branch.                                    *)
LEMMA BranchLands ==
  ASSUME TypeOK, GraphInv, NEW b \in Branches, b = Upstream, NEW base \in DOMAIN commits, NEW picks \in SUBSET DOMAIN commits,
         NEW replay \in Replays(base, picks), NEW tree \in SUBSET Changes,
         Kept(base, picks) # {},
         Lands(b, MergeInto(Chain(base, replay), tree),
               Append([i \in DOMAIN replay |-> NamedBy(replay[i])], {}))
  PROVE  /\ Grown
         /\ \A i \in 1..Len(replay) :
              /\ provenance'[Len(commits) + i] = NamedBy(replay[i])
              /\ Len(commits) + i \in Reach(head[b])'
<1> DEFINE chain == Chain(base, replay)
           named == [i \in DOMAIN replay |-> NamedBy(replay[i])]
           new == MergeInto(chain, tree)
           names == Append(named, {})
           len == Len(commits)
           size == Len(replay)
<1>1. /\ replay \in Seq(DOMAIN commits)
      /\ \A n \in Kept(base, picks) : \E i \in 1..Len(replay) : replay[i] = n
  BY ReplayListed
<1>2. size \in Nat /\ size >= 1 /\ len \in Nat /\ DOMAIN replay = 1..size
  BY <1>1 DEF TypeOK
<1>3. /\ chain \in Seq(Commit) /\ Len(chain) = size
      /\ \A i \in 1..size : /\ chain[i].reach = Reach(base) \cup len + 1 .. len + i
                            /\ Reach(base) \subseteq 1..len
  BY <1>1, ChainTyped
<1>4. /\ head[Upstream] \in DOMAIN commits /\ head[Upstream] \in Nat /\ Upstream \in Branches
      /\ Reach(head[Upstream]) \subseteq 1..len /\ Reach(head[Upstream]) \subseteq Nat
  <2>1. head[Upstream] \in DOMAIN commits /\ Upstream \in Branches
    BY SettingTyped
  <2> QED BY <2>1, CommitTyped, ChildTyped
<1> DEFINE top == [parents |-> <<head[Upstream], len + Len(chain)>>, tree |-> tree,
                   reach |-> Reach(head[Upstream]) \cup chain[Len(chain)].reach
                               \cup {len + Len(chain) + 1}]
<1>5. new = Append(chain, top)
  BY DEF MergeInto
<1>6. top.reach = Reach(head[Upstream]) \cup Reach(base) \cup (len + 1 .. len + size) \cup {len + size + 1}
  <2>1. chain[Len(chain)].reach = Reach(base) \cup len + 1 .. len + size
    BY <1>2, <1>3
  <2> QED BY <1>3, <2>1
<1>7. top.reach \subseteq 1..len + size + 1 /\ len + size + 1 \in top.reach
  BY <1>2, <1>3, <1>4, <1>6
<1>8. top \in Commit
  <2>1. <<head[Upstream], len + Len(chain)>> \in Seq(Nat)
    BY <1>2, <1>3, <1>4
  <2>2. top.reach \subseteq Nat
    BY <1>2, <1>7
  <2> QED BY <2>1, <2>2 DEF Commit
<1> HIDE DEF top, chain
<1>9. /\ new \in Seq(Commit) /\ Len(new) = size + 1 /\ new[size + 1] = top
      /\ \A i \in 1..size : new[i] = chain[i]
  BY <1>2, <1>3, <1>5, <1>8
<1>10. /\ names \in Seq(SUBSET Nat) /\ Len(names) = size + 1
       /\ \A i \in 1..size : names[i] = NamedBy(replay[i])
  <2>1. \A i \in 1..size : replay[i] \in DOMAIN commits
    BY <1>1, <1>2
  <2>2. \A i \in 1..size : NamedBy(replay[i]) \in SUBSET Nat
    BY <2>1, NamedTyped
  <2>3. named \in [1..size -> SUBSET Nat]
    BY <1>2, <2>2
  <2>4. named \in Seq(SUBSET Nat) /\ Len(named) = size
    BY <1>2, <2>3
  <2>5. \A i \in 1..size : named[i] = NamedBy(replay[i])
    BY <1>2
  <2> HIDE DEF named
  <2>6. names \in Seq(SUBSET Nat) /\ Len(names) = size + 1
    BY <2>4
  <2>7. \A i \in 1..size : names[i] = named[i]
    BY <1>2, <2>4
  <2> QED BY <2>5, <2>6, <2>7
<1>11. Lands(b, new, names)
  BY DEF chain
<1> HIDE DEF new, names
<1>12. \A i \in 1..Len(new) : len + i \in new[i].reach /\ new[i].reach \subseteq 1..len + i
  <2>1. \A i \in 1..size : len + i \in new[i].reach /\ new[i].reach \subseteq 1..len + i
    <3> TAKE i \in 1..size
    <3>1. new[i].reach = Reach(base) \cup len + 1 .. len + i /\ Reach(base) \subseteq 1..len
      BY <1>3, <1>9
    <3> QED BY <1>2, <3>1
  <2>2. \A i \in 1..Len(new) : i \in 1..size \/ i = size + 1
    BY <1>2, <1>9
  <2> QED BY <1>2, <1>7, <1>9, <2>1, <2>2
<1>13. Reach(head[Upstream]) \subseteq new[Len(new)].reach /\ new # << >> /\ Len(names) = Len(new)
  BY <1>2, <1>6, <1>9, <1>10
<1>14. /\ commits' \in Seq(Commit) /\ provenance' \in Seq(SUBSET Nat)
       /\ Len(provenance') = Len(commits')
       /\ head' \in [Branches -> DOMAIN commits']
       /\ GraphInv'
       /\ \A n \in DOMAIN commits : /\ n \in DOMAIN commits'
                                    /\ commits'[n] = commits[n]
                                    /\ provenance'[n] = provenance[n]
       /\ \A i \in 1..Len(new) : /\ commits'[Len(commits) + i] = new[i]
                                 /\ provenance'[Len(commits) + i] = names[i]
       /\ \A d \in Branches : Reach(head[d]) \subseteq Reach(head[d])'
       /\ Reach(head[b])' = new[Len(new)].reach
  <2>1. \A i \in 1..Len(new) : /\ Len(commits) + i \in new[i].reach
                               /\ new[i].reach \subseteq 1..Len(commits) + i
    BY <1>12
  <2>2. Reach(head[b]) \subseteq new[Len(new)].reach
    BY <1>13
  <2> QED BY <1>9, <1>10, <1>11, <1>13, <2>1, <2>2, Landing, Zenon
<1>15. \A i \in 1..size : provenance'[len + i] = NamedBy(replay[i])
  BY <1>2, <1>9, <1>10, <1>14
<1>16. \A i \in 1..size : len + i \in top.reach
  BY <1>2, <1>6
<1> QED BY <1>9, <1>14, <1>15, <1>16 DEF Grown

(* A replay branch is the chain of one order of its picks.                 *)
LEMMA BranchReplayed ==
  ASSUME NEW q, NEW branch \in ReplayBranch(q)
  PROVE  \E replay \in Replays(q.base, q.picks) :
            /\ branch[1] = Chain(q.base, replay)
            /\ branch[2] = [i \in DOMAIN replay |-> NamedBy(replay[i])]
<1> DEFINE names(replay) == [i \in DOMAIN replay |-> NamedBy(replay[i])]
<1>1. PICK replay \in Replays(q.base, q.picks) : branch = <<Chain(q.base, replay), names(replay)>>
  BY DEF ReplayBranch
<1>2. branch[1] = Chain(q.base, replay) /\ branch[2] = names(replay)
  <2> HIDE DEF names
  <2> QED BY <1>1
<1> QED BY <1>2

(* The replay names each pick it keeps in a younger commit.                *)
LEMMA ReplayNames ==
  ASSUME Invariant, NEW b \in Branches, b = Upstream, setting' = setting, ~Merging,
         NEW base, NEW picks \in SUBSET DOMAIN commits, NEW replay \in Replays(base, picks),
         \A i \in 1..Len(replay) : /\ provenance'[Len(commits) + i] = NamedBy(replay[i])
                                   /\ Len(commits) + i \in Reach(head[b])'
  PROVE  \A n \in Kept(base, picks) : Twin(n)'
<1> TAKE n \in Kept(base, picks)
<1>1. PICK i \in 1..Len(replay) : replay[i] = n
  BY ReplayListed DEF Invariant
<1>2. n \in DOMAIN commits /\ Len(commits) \in Nat
  BY KeptPicked DEF Invariant, TypeOK
<1>3. n \in Nat /\ n <= Len(commits)
  BY <1>2, CommitTyped DEF Invariant
<1>4. replay \in Seq(DOMAIN commits)
  BY ReplayListed DEF Invariant
<1>5. n < Len(commits) + i
  BY <1>2, <1>3, <1>4
<1>6. n \in provenance'[Len(commits) + i]
  BY <1>1 DEF NamedBy
<1>7. Upstream' = b /\ ~Merging'
  BY DEF Upstream, Merging
<1>8. Len(commits) + i \in Reach(head[Upstream])'
  BY <1>7
<1> QED BY <1>5, <1>6, <1>7, <1>8 DEF Twin

LEMMA MergeReturnGrows ==
  ASSUME Invariant, NEW s \in Sources, NEW method \in setting.returnMethods,
         NEW named \in BOOLEAN, MergeReturn(s, method, named)
  PROVE  Grown /\ (named => \A n \in Carried(request[s], method) : Twin(n)')
<1> DEFINE q == request[s]
           to == head[Upstream]
           picked == TreeAfter(q.base, q.picks)
           merged == ThreeWay(Tree(q.base), Tree(to), picked)
           back == MergeOf(q.base, q.name, MergedTree(q.base, q.name))
<1>1. /\ TypeOK /\ GraphInv /\ setting' = setting
      /\ q # None /\ Carried(q, method) # {}
  BY DEF Invariant, MergeReturn
<1>2. /\ q.base \in DOMAIN commits /\ q.name \in DOMAIN commits
      /\ q.picks \in SUBSET DOMAIN commits
      /\ Merging => q.picks \subseteq Reach(q.name)
  BY <1>1 DEF Invariant, RequestInv
<1>3. Upstream \in Branches /\ to \in DOMAIN commits
  BY <1>1, SettingTyped
<1>4. PICK b \in Branches : b = Upstream
  BY <1>3
<1>5. Upstream' = b /\ (Merging' <=> Merging)
  BY <1>1, <1>4 DEF Upstream, Merging
<1>6. Len(commits) \in Nat
  BY <1>1 DEF TypeOK
<1>7. merged \in SUBSET Changes
  <2>1. picked \subseteq Changes
    BY DEF TreeAfter
  <2> QED BY <1>1, <1>2, <1>3, <2>1, CommitTyped DEF ThreeWay
<1>8. ASSUME Merging,
             Lands(Upstream, MergeInto(<<back>>, ThreeWay(Tree(q.base), Tree(to), back.tree)),
                   <<{}, {}>>)
      PROVE  Grown /\ \A n \in Carried(q, method) : Twin(n)'
  <2> DEFINE tree == ThreeWay(Tree(q.base), Tree(to), back.tree)
             len == Len(commits)
             top == [parents |-> <<to, len + 1>>, tree |-> tree,
                     reach |-> Reach(to) \cup back.reach \cup {len + 1 + 1}]
             new == Append(<<back>>, top)
             names == <<{}, {}>>
  <2>1. /\ back \in Commit /\ back.reach = Reach(q.base) \cup Reach(q.name) \cup {len + 1}
        /\ back.tree \subseteq Changes
        /\ Reach(q.base) \cup Reach(q.name) \subseteq 1..len
    <3> DEFINE mine == MergedTree(q.base, q.name)
    <3>1. mine \in SUBSET Changes
      BY <1>1, <1>2, TreesTyped
    <3>2. back = MergeOf(q.base, q.name, mine)
      OBVIOUS
    <3> HIDE DEF back, mine, q
    <3>3. /\ back \in Commit /\ back.reach = Reach(q.base) \cup Reach(q.name) \cup {len + 1}
          /\ Reach(q.base) \cup Reach(q.name) \subseteq 1..len
      BY <1>1, <1>2, <3>1, <3>2, MergeTyped
    <3> QED BY <3>3 DEF Commit
  <2>2. Reach(to) \subseteq 1..len /\ to \in Nat
    BY <1>1, <1>3, ChildTyped, CommitTyped
  <2> HIDE DEF back
  <2>3. top \in Commit
    <3>1. tree \subseteq Changes
      BY <1>1, <1>2, <1>3, <2>1, CommitTyped DEF ThreeWay
    <3>2. top.reach \subseteq Nat
      BY <1>6, <2>1, <2>2
    <3>3. top.parents \in Seq(Nat)
      BY <1>6, <2>2
    <3> QED BY <3>1, <3>2, <3>3 DEF Commit
  <2>4. MergeInto(<<back>>, tree) = new
    <3> DEFINE one == <<back>>
    <3>1. Len(one) = 1 /\ one[Len(one)] = back
      OBVIOUS
    <3> HIDE DEF one
    <3>2. MergeInto(one, tree) = Append(one, top)
      BY <3>1 DEF MergeInto
    <3> QED BY <3>2 DEF one
  <2>5. /\ top.reach \subseteq 1..len + 2 /\ len + 2 \in top.reach
        /\ back.reach \subseteq 1..len + 1 /\ len + 1 \in back.reach
        /\ Reach(q.name) \subseteq top.reach /\ Reach(to) \subseteq top.reach
    BY <1>6, <2>1, <2>2
  <2>6. Lands(b, new, names)
    BY <1>4, <1>8, <2>4
  <2> HIDE DEF top
  <2>7. new \in Seq(Commit) /\ Len(new) = 2 /\ new[1] = back /\ new[2] = top /\ new # << >>
    <3>1. <<back>> \in Seq(Commit) /\ Len(<<back>>) = 1 /\ <<back>>[1] = back
      BY <2>1
    <3> HIDE DEF back
    <3> QED BY <2>3, <3>1
  <2>8. names \in Seq(SUBSET Nat) /\ Len(names) = 2
    OBVIOUS
  <2>9. Lands(b, new, names)
    BY <2>6
  <2>10. Reach(head[b]) \subseteq new[Len(new)].reach
    BY <1>4, <2>5, <2>7
  <2>11. Len(names) = Len(new)
    BY <2>7, <2>8
  <2>12. \A i \in 1..Len(new) : /\ Len(commits) + i \in new[i].reach
                                /\ new[i].reach \subseteq 1..Len(commits) + i
    BY <2>5, <2>7
  <2> HIDE DEF new, names
  <2>13. /\ commits' \in Seq(Commit) /\ provenance' \in Seq(SUBSET Nat)
         /\ Len(provenance') = Len(commits')
         /\ head' \in [Branches -> DOMAIN commits']
         /\ GraphInv'
         /\ \A n \in DOMAIN commits : /\ n \in DOMAIN commits'
                                      /\ commits'[n] = commits[n]
                                      /\ provenance'[n] = provenance[n]
         /\ \A i \in 1..Len(new) : /\ commits'[Len(commits) + i] = new[i]
                                   /\ provenance'[Len(commits) + i] = names[i]
         /\ \A d \in Branches : Reach(head[d]) \subseteq Reach(head[d])'
         /\ Reach(head[b])' = new[Len(new)].reach
    BY <1>1, <2>7, <2>8, <2>9, <2>10, <2>11, <2>12, Landing, Zenon
  <2>14. Reach(head[b])' = top.reach
    BY <2>7, <2>13
  <2>15. ASSUME NEW n \in Carried(q, method) PROVE Twin(n)'
    <3>1. n \in Reach(q.name)
      BY <1>2, <1>8 DEF Carried
    <3>2. n \in Reach(head[b])'
      BY <2>5, <2>14, <3>1
    <3>3. Reach(head[Upstream])' = Reach(head[b])'
      BY <1>5
    <3> QED BY <1>5, <1>8, <3>2, <3>3 DEF Twin
  <2> QED BY <2>13, <2>15 DEF Grown
<1>9. ASSUME ~Merging, method = "merge",
             \E branch \in ReplayBranch(q) :
               Lands(Upstream, MergeInto(branch[1], ThreeWay(Tree(q.base), Tree(to), picked)),
                     Append(branch[2], {}))
      PROVE  Grown /\ \A n \in Carried(q, method) : Twin(n)'
  <2>1. PICK branch \in ReplayBranch(q) :
          Lands(Upstream, MergeInto(branch[1], merged), Append(branch[2], {}))
    BY <1>9
  <2>2. Carried(q, method) = Kept(q.base, q.picks)
    BY <1>9 DEF Carried
  <2>3. PICK replay \in Replays(q.base, q.picks) :
          Lands(Upstream, MergeInto(Chain(q.base, replay), merged),
                Append([i \in DOMAIN replay |-> NamedBy(replay[i])], {}))
    <3> HIDE DEF merged, q
    <3> QED BY <2>1, BranchReplayed
  <2>4. Lands(b, MergeInto(Chain(q.base, replay), merged),
              Append([i \in DOMAIN replay |-> NamedBy(replay[i])], {}))
    BY <1>4, <2>3
  <2> HIDE DEF merged, q
  <2>5. /\ Grown
        /\ \A i \in 1..Len(replay) : /\ provenance'[Len(commits) + i] = NamedBy(replay[i])
                                     /\ Len(commits) + i \in Reach(head[b])'
    BY <1>1, <1>2, <1>4, <1>7, <2>2, <2>4, BranchLands
  <2> QED BY <1>1, <1>2, <1>4, <1>9, <2>2, <2>5, ReplayNames
<1>10. ASSUME ~Merging, method = "squash",
              Lands(Upstream, <<Child(to, ThreeWay(Tree(q.base), Tree(to), picked))>>,
                    <<IF named THEN UNION {NamedBy(n) : n \in Kept(q.base, q.picks)} ELSE {}>>)
       PROVE  Grown /\ (named => \A n \in Carried(q, method) : Twin(n)')
  <2> DEFINE names == IF named THEN UNION {NamedBy(n) : n \in Kept(q.base, q.picks)} ELSE {}
  <2>1. names \in SUBSET Nat
    <3>1. \A n \in Kept(q.base, q.picks) : NamedBy(n) \in SUBSET Nat
      BY <1>1, <1>2, KeptPicked, NamedTyped
    <3> QED BY <3>1
  <2>2. Carried(q, method) = Kept(q.base, q.picks)
    BY <1>10 DEF Carried
  <2>3. named => \A n \in Kept(q.base, q.picks) : n \in names
    BY DEF NamedBy
  <2>4. Lands(b, <<Child(head[b], merged)>>, <<names>>)
    BY <1>4, <1>10
  <2> HIDE DEF names, merged
  <2>5. /\ Grown /\ provenance'[Len(commits) + 1] = names
        /\ Reach(head[b])' = Reach(head[b]) \cup {Len(commits) + 1}
    BY <1>1, <1>4, <1>7, <2>1, <2>4, ChildLands
  <2>6. ASSUME named, NEW n \in Carried(q, method) PROVE Twin(n)'
    <3>1. n \in DOMAIN commits /\ n \in names
      BY <1>2, <2>2, <2>3, <2>6, KeptPicked
    <3>2. n < Len(commits) + 1
      BY <1>1, <1>6, <3>1, CommitTyped
    <3>3. Len(commits) + 1 \in Reach(head[Upstream])'
      BY <1>5, <2>5
    <3> QED BY <1>5, <1>10, <2>5, <3>1, <3>2, <3>3 DEF Twin
  <2> QED BY <2>5, <2>6
<1>11. ASSUME ~Merging, method = "rebase",
              \E branch \in ReplayBranch([q EXCEPT !.base = to]) :
                Lands(Upstream, branch[1], branch[2])
       PROVE  Grown /\ \A n \in Carried(q, method) : Twin(n)'
  <2> DEFINE moved == [q EXCEPT !.base = to]
  <2>1. moved.base = head[b] /\ moved.picks = q.picks
    <3>1. q \in Request
      BY <1>1 DEF TypeOK
    <3> QED BY <1>4, <3>1 DEF Request
  <2>2. Carried(q, method) = Kept(head[b], q.picks)
    BY <1>4, <1>11 DEF Carried
  <2>3. PICK branch \in ReplayBranch(moved) : Lands(b, branch[1], branch[2])
    BY <1>4, <1>11
  <2>4. PICK replay \in Replays(head[b], q.picks) :
          Lands(b, Chain(head[b], replay), [i \in DOMAIN replay |-> NamedBy(replay[i])])
    <3> HIDE DEF moved, q
    <3> QED BY <2>3, <2>1, BranchReplayed
  <2> DEFINE names == [i \in 1..Len(replay) |-> NamedBy(replay[i])]
  <2>5. replay \in Seq(DOMAIN commits) /\ DOMAIN replay = 1..Len(replay)
    BY <1>1, <1>2, ReplayListed
  <2>6. \A i \in 1..Len(replay) : names[i] \in SUBSET Nat
    BY <1>1, <2>5, NamedTyped
  <2>7. Lands(b, Chain(head[b], replay), names)
    BY <2>4, <2>5
  <2>8. names = [i \in 1..Len(replay) |-> names[i]]
    OBVIOUS
  <2>9. \A i \in 1..Len(replay) : names[i] = NamedBy(replay[i])
    OBVIOUS
  <2> HIDE DEF names, q
  <2>10. /\ Grown
         /\ \A i \in 1..Len(replay) : /\ provenance'[Len(commits) + i] = names[i]
                                      /\ Len(commits) + i \in Reach(head[b])'
    BY <1>1, <1>2, <2>2, <2>6, <2>7, <2>8, ReplayLands
  <2> QED BY <1>1, <1>2, <1>4, <1>11, <2>2, <2>9, <2>10, ReplayNames
<1> QED BY <1>8, <1>9, <1>10, <1>11 DEF MergeReturn

LEMMA MergeReturnKeeps ==
  ASSUME Invariant, NEW s \in Sources, NEW method \in setting.returnMethods,
         NEW named \in BOOLEAN, MergeReturn(s, method, named)
  PROVE  Invariant'
<1>1. Grown /\ (named => \A n \in Carried(request[s], method) : Twin(n)')
  BY MergeReturnGrows
<1>2. /\ UNCHANGED <<setting, open, latest, retracted, work>>
      /\ request' = [request EXCEPT ![s] = None]
      /\ \/ named /\ returned' = returned \cup Carried(request[s], method) /\ unnamed' = unnamed
         \/ unnamed' = unnamed \cup Carried(request[s], method) /\ returned' = returned
      /\ request[s] # None
  BY DEF MergeReturn
<1>3. /\ open \in [Edges -> Nat \cup {None}] /\ latest \in [Edges -> Nat \cup {None}]
      /\ request \in [Sources -> Request \cup {None}]
      /\ retracted \subseteq Changes /\ work \in Nat
      /\ returned \subseteq Nat /\ unnamed \subseteq Nat
  BY DEF Invariant, TypeOK
<1>4. /\ request' \in [Sources -> Request \cup {None}]
      /\ \A t \in Sources : request'[t] \in {request[t], None}
  BY <1>2, <1>3
<1>5. Carried(request[s], method) \subseteq Nat
  <2>1. request[s].picks \subseteq DOMAIN commits
    BY <1>2 DEF Invariant, RequestInv
  <2>2. Carried(request[s], method) \subseteq request[s].picks
    BY KeptPicked DEF Carried
  <2> QED BY <2>1, <2>2, CommitTyped DEF Invariant
<1>6. returned' \subseteq Nat /\ unnamed' \subseteq Nat
  BY <1>2, <1>3, <1>5
<1>7. TypeOK'
  BY <1>1, <1>2, <1>3, <1>4, <1>6 DEF Invariant, Grown, TypeOK, Edges, Sources
<1>8. RequestInv'
  BY <1>1, <1>2, <1>4, RequestsKept
<1>9. \A n \in returned' : Twin(n)'
  <2>1. \A n \in returned : Twin(n)'
    BY <1>1, <1>2, TwinKept
  <2> QED BY <1>1, <1>2, <2>1
<1> QED BY <1>1, <1>7, <1>8, <1>9 DEF Invariant, Grown

LEMMA StutterKeeps ==
  ASSUME Invariant, UNCHANGED vars
  PROVE  Invariant'
<1>1. UNCHANGED <<setting, objects, head, open, latest, request, returned, unnamed, retracted,
                  work>>
  BY DEF vars, forge, history
<1>2. Grown
  BY <1>1, StillGrown DEF Invariant
<1>3. /\ open \in [Edges -> Nat \cup {None}] /\ latest \in [Edges -> Nat \cup {None}]
      /\ request \in [Sources -> Request \cup {None}]
      /\ retracted \subseteq Changes /\ work \in Nat
  BY DEF Invariant, TypeOK
<1> QED BY <1>1, <1>2, <1>3, LandingKeeps

LEMMA StepKeeps == Invariant /\ [Next]_vars => Invariant'
<1> SUFFICES ASSUME Invariant, [Next]_vars PROVE Invariant'
  OBVIOUS
<1>1. CASE Run
  BY <1>1, RunKeeps
<1>2. CASE Merge
  <2>1. CASE \E e \in Edges, m \in setting.methods : MergePromotion(e, m)
    BY <2>1, MergePromotionKeeps
  <2>2. CASE \E s \in Sources, m \in setting.returnMethods, named \in BOOLEAN :
               MergeReturn(s, m, named)
    BY <2>2, MergeReturnKeeps
  <2>3. CASE \E s \in Sources : CloseReturn(s)
    BY <2>3, CloseReturnKeeps
  <2> QED BY <1>2, <2>1, <2>2, <2>3 DEF Merge
<1>3. CASE Work
  <2>1. CASE \E b \in Used, x \in Changes : Land(b, x) \/ Revert(b, x)
    BY <2>1, LandKeeps, RevertKeeps
  <2>2. ASSUME NEW b \in Used, NEW n \in UNION {Reach(head[c]) : c \in Used}, PickByHand(b, n)
        PROVE  Invariant'
    <3>1. PICK c \in Used : n \in Reach(head[c])
      OBVIOUS
    <3> QED BY <2>2, <3>1, PickByHandKeeps
  <2> QED BY <1>3, <2>1, <2>2 DEF Work
<1>4. CASE UNCHANGED vars
  BY <1>4, StutterKeeps
<1> QED BY <1>1, <1>2, <1>3, <1>4 DEF Next

(* The invariant above: the objects grow and never change, a request       *)
(* refers to what exists, and a commit returned under a message that names *)
(* it shows in the upstream.                                               *)
THEOREM InvariantHolds == Spec => []Invariant
<1>1. Init => Invariant
  BY InitHolds
<1>2. Invariant /\ [Next]_vars => Invariant'
  BY StepKeeps
<1> QED BY <1>1, <1>2, PTL DEF Spec

(* Every variable keeps its type, whatever the graph and its settings.     *)
THEOREM TypeCorrect == Spec => []TypeOK
<1>1. Invariant => TypeOK
  BY DEF Invariant
<1> QED BY <1>1, InvariantHolds, PTL

-----------------------------------------------------------------------------
(* A return is durable. *)

(* The twin of a returned commit is younger, so no candidate that it might *)
(* be mistaken for an ancestor of hides it from the range that is searched. *)
LEMMA TwinIsSeen ==
  ASSUME Invariant, ~Merging, NEW n \in DOMAIN commits, Twin(n),
         NEW candidates, n \in candidates
  PROVE  IsReturned(n, ReturnedRange(candidates))
<1>1. PICK m \in Reach(head[Upstream]) : n < m /\ n \in provenance[m]
  BY DEF Twin
<1>2. Reach(n) \subseteq 1..n /\ n \in Nat /\ m \in Nat
  <2>1. Reach(head[Upstream]) \subseteq Nat
    BY SettingTyped, CommitTyped DEF Invariant
  <2> QED BY <2>1, CommitTyped DEF Invariant, GraphInv
<1>3. m \notin Reach(n)
  BY <1>1, <1>2
<1>4. m \in ReturnedRange(candidates)
  BY <1>3 DEF ReturnedRange, IsAncestor
<1> QED BY <1>1, <1>4 DEF IsReturned

LEMMA DurableFromInvariant == Invariant => ReturnIsDurable
<1> SUFFICES ASSUME Invariant, NEW s \in Sources, NEW n \in returned, n \in ToReturn(s)
             PROVE  FALSE
  BY DEF ReturnIsDurable
<1>1. n \in DOMAIN commits
  BY ToReturnTyped
<1>2. Twin(n)
  BY DEF Invariant
<1>3. PICK e \in Into(s) : n \in EdgeToReturn(e)
  BY DEF ToReturn
<1>4. CASE Merging
  <2>1. n \notin Reach(head[Upstream])
    BY <1>3, <1>4 DEF EdgeToReturn, UniqueCommits
  <2> QED BY <1>2, <1>4, <2>1 DEF Twin
<1>5. CASE ~Merging
  <2>1. /\ n \in Returnable(e)
        /\ ~IsReturned(n, ReturnedRange(Returnable(e)))
    BY <1>3, <1>5 DEF EdgeToReturn
  <2> QED BY <1>1, <1>2, <1>5, <2>1, TwinIsSeen
<1> QED BY <1>4, <1>5

(* ReturnIsDurable: for every graph of promotions, every set of sources    *)
(* and both strategies, a commit that a merged backflow request carried is *)
(* never planned again, unless the request was squashed under a message    *)
(* that names no pick.  The record of it in the message of its twin, and   *)
(* a range that leaves out only what the candidates reach, are enough.     *)
THEOREM ReturnsDurable == Spec => []ReturnIsDurable
<1>1. Invariant => ReturnIsDurable
  BY DurableFromInvariant
<1> QED BY <1>1, InvariantHolds, PTL

-----------------------------------------------------------------------------
(* The history that commits make. *)

Parents(n) == {commits[n].parents[i] : i \in DOMAIN commits[n].parents}

(* A commit reaches what its parents reach, and holds what they hold, but  *)
(* for what was taken out; a merge adds nothing of its own.                *)
WellGrown(n) ==
  /\ Len(commits[n].parents) \in {1, 2}
  /\ Parents(n) \subseteq 1..(n - 1)
  /\ Reach(n) = {n} \cup UNION {Reach(p) : p \in Parents(n)}
  /\ \A p \in Parents(n) : Tree(p) \ Tree(n) \subseteq retracted
  /\ IsMerge(n) => Tree(n) \ UNION {Tree(p) : p \in Parents(n)} \subseteq retracted

HistoryInv == commits[1] = Root /\ \A n \in DOMAIN commits \ {1} : WellGrown(n)

(* A commit that brings a change in.                                       *)
Adds(n, x) == HasPatch(n) /\ x \in Diff(n).added

(* A set of numbers has a least element, and a bounded one a greatest.     *)
LEMMA LeastExists ==
  ASSUME NEW S \in SUBSET Nat, S # {}
  PROVE  \E n \in S : \A m \in S : n <= m
<1>1. PICK n \in S : \A m \in S : <<m, n>> \notin OpToRel(<, Nat)
  BY NatLessThanWellFounded, WFMin
<1>2. ASSUME NEW m \in S PROVE n <= m
  <2>1. m \in Nat /\ n \in Nat
    OBVIOUS
  <2>2. ~(m < n)
    BY <1>1, <2>1 DEF OpToRel
  <2> QED BY <2>1, <2>2
<1> QED BY <1>2

(* A bounded set of numbers has a greatest element.                        *)
LEMMA GreatestExists ==
  ASSUME NEW S \in SUBSET Nat, S # {}, NEW k \in Nat, \A m \in S : m <= k
  PROVE  \E n \in S : \A m \in S : m <= n
<1> DEFINE T == {k - m : m \in S}
<1>1. T \in SUBSET Nat /\ T # {}
  <2>1. \A m \in S : m \in Nat /\ k - m \in Nat
    OBVIOUS
  <2> QED BY <2>1
<1>2. PICK t \in T : \A u \in T : t <= u
  <2> HIDE DEF T
  <2> QED BY <1>1, LeastExists
<1>3. PICK n \in S : t = k - n
  OBVIOUS
<1>4. ASSUME NEW m \in S PROVE m <= n
  <2>1. k - m \in T
    OBVIOUS
  <2>2. k - n <= k - m
    BY <1>2, <1>3, <2>1
  <2> QED BY <2>2
<1> QED BY <1>4

(* So Max of such a set is one of its elements.                            *)
LEMMA MaxLaw ==
  ASSUME NEW S \in SUBSET Nat, S # {}, NEW k \in Nat, \A m \in S : m <= k
  PROVE  Max(S) \in S
<1>1. \E n \in S : \A m \in S : n >= m
  <2>1. PICK n \in S : \A m \in S : m <= n
    BY GreatestExists
  <2>2. \A m \in S : n >= m
    BY <2>1
  <2> QED BY <2>2
<1> QED BY <1>1 DEF Max

(* What holds of the root, and of a commit if it holds of its parents,     *)
(* holds of every commit: a set of commits without the root that has with  *)
(* each commit a parent is empty.                                          *)
LEMMA NoEndlessDescent ==
  ASSUME TypeOK, HistoryInv, NEW S \in SUBSET DOMAIN commits, 1 \notin S,
         \A n \in S : \E p \in Parents(n) : p \in S
  PROVE  S = {}
<1> SUFFICES ASSUME S # {} PROVE FALSE
  OBVIOUS
<1>1. S \in SUBSET Nat
  BY CommitTyped
<1>2. PICK n \in S : \A m \in S : n <= m
  BY <1>1, LeastExists
<1>3. PICK p \in Parents(n) : p \in S
  OBVIOUS
<1>4. p \in 1..(n - 1)
  BY <1>3 DEF HistoryInv, WellGrown
<1> QED BY <1>1, <1>2, <1>3, <1>4

(* Parents are older commits.                                              *)
LEMMA ParentsTyped ==
  ASSUME TypeOK, HistoryInv, NEW n \in DOMAIN commits, n # 1, NEW p \in Parents(n)
  PROVE  p \in DOMAIN commits /\ p < n /\ p \in Nat
<1>1. p \in 1..(n - 1)
  BY DEF HistoryInv, WellGrown
<1>2. n \in 1..Len(commits) /\ Len(commits) \in Nat
  BY DEF TypeOK
<1> QED BY <1>1, <1>2 DEF TypeOK

(* The root holds nothing and has no parents.                              *)
LEMMA RootHolds ==
  ASSUME TypeOK, HistoryInv, 1 \in DOMAIN commits
  PROVE  Tree(1) = {} /\ Reach(1) = {1} /\ commits[1].parents = << >>
BY DEF HistoryInv, Root, Tree, Reach

(* Ancestry is transitive, and every commit descends from the root.        *)
LEMMA ReachClosed ==
  ASSUME TypeOK, HistoryInv, NEW n \in DOMAIN commits, NEW m \in Reach(n)
  PROVE  Reach(m) \subseteq Reach(n)
<1> DEFINE S == {a \in DOMAIN commits : \E b \in Reach(a) : ~(Reach(b) \subseteq Reach(a))}
<1>1. 1 \notin S
  BY RootHolds
<1>2. ASSUME NEW a \in S PROVE \E p \in Parents(a) : p \in S
  <2>1. PICK b \in Reach(a) : ~(Reach(b) \subseteq Reach(a))
    OBVIOUS
  <2>2. a \in DOMAIN commits /\ a # 1 /\ WellGrown(a)
    BY <1>1 DEF HistoryInv
  <2>3. PICK p \in Parents(a) : b \in Reach(p)
    BY <2>1, <2>2 DEF WellGrown
  <2>4. Reach(p) \subseteq Reach(a)
    BY <2>2, <2>3 DEF WellGrown
  <2> QED BY <2>1, <2>2, <2>3, <2>4, ParentsTyped
<1>3. S = {}
  <2>1. S \in SUBSET DOMAIN commits
    OBVIOUS
  <2> HIDE DEF S
  <2> QED BY <1>1, <1>2, <2>1, NoEndlessDescent
<1> QED BY <1>3

(* Every commit descends from the root.                                    *)
LEMMA RootReached ==
  ASSUME TypeOK, HistoryInv, NEW n \in DOMAIN commits
  PROVE  1 \in Reach(n)
<1> DEFINE S == {a \in DOMAIN commits : 1 \notin Reach(a)}
<1>1. 1 \notin S
  BY RootHolds
<1>2. ASSUME NEW a \in S PROVE \E p \in Parents(a) : p \in S
  <2>1. a \in DOMAIN commits /\ a # 1 /\ WellGrown(a)
    BY <1>1 DEF HistoryInv
  <2>2. PICK p : p \in Parents(a)
    <3>1. commits[a].parents \in Seq(Nat)
      BY <2>1, CommitTyped DEF Commit
    <3>2. Len(commits[a].parents) \in {1, 2}
      BY <2>1 DEF WellGrown
    <3>3. 1 \in DOMAIN commits[a].parents
      BY <3>1, <3>2
    <3> QED BY <3>3 DEF Parents
  <2> QED BY <2>1, <2>2, ParentsTyped DEF WellGrown
<1>3. S = {}
  <2>1. S \in SUBSET DOMAIN commits
    OBVIOUS
  <2> HIDE DEF S
  <2> QED BY <1>1, <1>2, <2>1, NoEndlessDescent
<1> QED BY <1>3

(* Ancestors exist.                                                        *)
LEMMA ReachTyped ==
  ASSUME TypeOK, GraphInv, NEW n \in DOMAIN commits
  PROVE  Reach(n) \subseteq DOMAIN commits
<1>1. Reach(n) \subseteq 1..Len(commits)
  BY ChildTyped
<1> QED BY <1>1 DEF TypeOK

(* What a commit held is still there, unless somebody took it out.         *)
LEMMA Inherited ==
  ASSUME TypeOK, GraphInv, HistoryInv, NEW n \in DOMAIN commits, NEW m \in Reach(n)
  PROVE  Tree(m) \ Tree(n) \subseteq retracted
<1> DEFINE S == {a \in DOMAIN commits : \E b \in Reach(a) : ~(Tree(b) \ Tree(a) \subseteq retracted)}
<1>1. 1 \notin S
  BY RootHolds
<1>2. ASSUME NEW a \in S PROVE \E p \in Parents(a) : p \in S
  <2>1. PICK b \in Reach(a) : ~(Tree(b) \ Tree(a) \subseteq retracted)
    OBVIOUS
  <2>2. a \in DOMAIN commits /\ a # 1 /\ WellGrown(a)
    BY <1>1 DEF HistoryInv
  <2>3. b # a
    BY <2>1
  <2>4. PICK p \in Parents(a) : b \in Reach(p)
    BY <2>1, <2>2, <2>3 DEF WellGrown
  <2>5. Tree(p) \ Tree(a) \subseteq retracted
    BY <2>2, <2>4 DEF WellGrown
  <2> QED BY <2>1, <2>2, <2>4, <2>5, ParentsTyped
<1>3. S = {}
  <2>1. S \in SUBSET DOMAIN commits
    OBVIOUS
  <2> HIDE DEF S
  <2> QED BY <1>1, <1>2, <2>1, NoEndlessDescent
<1> QED BY <1>3

(* Whatever a commit holds, one of its ancestors brought in.               *)
LEMMA BroughtIn ==
  ASSUME TypeOK, GraphInv, HistoryInv, NEW n \in DOMAIN commits, NEW x \in Tree(n), x \notin retracted
  PROVE  \E m \in Reach(n) : Adds(m, x)
<1> DEFINE S == {a \in DOMAIN commits : x \in Tree(a) /\ \A m \in Reach(a) : ~Adds(m, x)}
<1>1. 1 \notin S
  BY RootHolds
<1>2. ASSUME NEW a \in S PROVE \E p \in Parents(a) : p \in S
  <2>1. a \in DOMAIN commits /\ a # 1 /\ WellGrown(a) /\ x \in Tree(a)
    BY <1>1 DEF HistoryInv
  <2>2. commits[a].parents \in Seq(Nat)
    BY <2>1, CommitTyped DEF Commit
  <2>3. PICK p \in Parents(a) : x \in Tree(p)
    <3>1. CASE IsMerge(a)
      BY <2>1, <3>1 DEF WellGrown
    <3>2. CASE ~IsMerge(a)
      <4> DEFINE k == Len(commits[a].parents)
      <4>1. k \in {1, 2}
        BY <2>1 DEF WellGrown
      <4>2. ~(k > 1)
        BY <3>2 DEF IsMerge
      <4>3. k = 1
        <5> HIDE DEF k
        <5> QED BY <4>1, <4>2
      <4>4. Len(commits[a].parents) = 1
        BY <4>3
      <4>5. Parent(a) \in Parents(a)
        BY <2>2, <4>4 DEF Parent, Parents
      <4>6. ~Adds(a, x) /\ a \in Reach(a)
        BY <2>1 DEF GraphInv
      <4>7. x \in Tree(Parent(a))
        BY <2>1, <4>4, <4>6 DEF Adds, HasPatch, Diff
      <4> QED BY <4>5, <4>7
    <3> QED BY <3>1, <3>2
  <2>4. Reach(p) \subseteq Reach(a)
    BY <2>1, <2>3 DEF WellGrown
  <2> QED BY <2>1, <2>3, <2>4, ParentsTyped
<1>3. S = {}
  <2>1. S \in SUBSET DOMAIN commits
    OBVIOUS
  <2> HIDE DEF S
  <2> QED BY <1>1, <1>2, <2>1, NoEndlessDescent
<1> QED BY <1>3

(* The head on record is one the source had, and what was merged last is   *)
(* on the target.                                                          *)
RecordInv ==
  \A e \in Edges :
    /\ open[e] # None => open[e] \in Reach(head[e[1]])
    /\ latest[e] # None => /\ latest[e] \in DOMAIN commits
                           /\ Tree(latest[e]) \ Tree(head[e[2]]) \subseteq retracted

(* A request was based on a head of the upstream, and picks what has a     *)
(* diff.                                                                   *)
BaseInv ==
  \A s \in Sources : request[s] # None =>
    /\ request[s].base \in Reach(head[Upstream])
    /\ ~Merging => \A n \in request[s].picks : HasPatch(n)

(* What a commit is named for is on the upstream.                          *)
NamesInv ==
  \A n \in DOMAIN commits : \A m \in provenance[n] :
    /\ m \in DOMAIN commits \ {1}
    /\ Diff(m).added \ Tree(head[Upstream]) \subseteq retracted

ContentInv == Invariant /\ HistoryInv /\ RecordInv /\ BaseInv /\ NamesInv

-----------------------------------------------------------------------------
(* What commits hold. *)

(* A commit with a patch has a parent.                                     *)
LEMMA PatchNotRoot ==
  ASSUME HistoryInv, NEW n \in DOMAIN commits, HasPatch(n)
  PROVE  n # 1
BY DEF HistoryInv, HasPatch, Root

(* The first parent of a commit.                                           *)
LEMMA ParentTyped ==
  ASSUME TypeOK, HistoryInv, NEW n \in DOMAIN commits, n # 1
  PROVE  Parent(n) \in Parents(n) /\ Parent(n) \in DOMAIN commits
<1>1. commits[n].parents \in Seq(Nat) /\ Len(commits[n].parents) \in {1, 2}
  BY CommitTyped DEF Commit, HistoryInv, WellGrown
<1>2. 1 \in DOMAIN commits[n].parents
  BY <1>1
<1>3. Parent(n) \in Parents(n)
  BY <1>2 DEF Parent, Parents
<1> QED BY <1>3, ParentsTyped

(* Only what people take out is gone after a commit.                       *)
LEMMA Removals ==
  ASSUME TypeOK, HistoryInv, NEW n \in DOMAIN commits, n # 1
  PROVE  Diff(n).removed \subseteq retracted
<1>1. Parent(n) \in Parents(n)
  BY ParentTyped
<1> QED BY <1>1 DEF HistoryInv, WellGrown, Diff

(* A commit holds what it adds.                                            *)
LEMMA AddedHeld == \A n \in DOMAIN commits : Diff(n).added \subseteq Tree(n)
BY DEF Diff

(* The merge base is an ancestor of both sides.                            *)
LEMMA BaseCommon ==
  ASSUME TypeOK, GraphInv, HistoryInv, NEW a \in DOMAIN commits, NEW b \in DOMAIN commits
  PROVE  MergeBase(a, b) \in Reach(a) /\ MergeBase(a, b) \in Reach(b)
<1> DEFINE common == Reach(a) \cap Reach(b)
<1>1. common \in SUBSET Nat /\ common # {}
  BY RootReached, CommitTyped
<1>2. Len(commits) \in Nat /\ \A m \in common : m <= Len(commits)
  BY ReachTyped, CommitTyped DEF TypeOK
<1>3. \E n \in common : \A m \in common : m <= n
  <2> HIDE DEF common
  <2> QED BY <1>1, <1>2, GreatestExists
<1> QED BY <1>3 DEF MergeBase

(* A merge of what grew from its base holds what either side holds.        *)
LEMMA MergeLaw ==
  ASSUME NEW base, NEW a, NEW b, NEW gone, base \ a \subseteq gone, base \ b \subseteq gone
  PROVE  /\ ThreeWay(base, a, b) \subseteq a \cup b
         /\ (a \cup b) \ ThreeWay(base, a, b) \subseteq gone
BY DEF ThreeWay

(* So does the merge of two commits at their merge base.                   *)
LEMMA MergedLaw ==
  ASSUME TypeOK, GraphInv, HistoryInv, NEW a \in DOMAIN commits, NEW b \in DOMAIN commits
  PROVE  /\ MergedTree(a, b) \subseteq Tree(a) \cup Tree(b)
         /\ (Tree(a) \cup Tree(b)) \ MergedTree(a, b) \subseteq retracted
<1> DEFINE base == MergeBase(a, b)
<1>1. base \in Reach(a) /\ base \in Reach(b)
  BY BaseCommon
<1>2. Tree(base) \ Tree(a) \subseteq retracted /\ Tree(base) \ Tree(b) \subseteq retracted
  BY <1>1, Inherited
<1>3. MergedTree(a, b) = ThreeWay(Tree(base), Tree(a), Tree(b))
  BY DEF MergedTree, ThreeWay
<1> QED BY <1>2, <1>3, MergeLaw

(* A replay brings what its picks add.                                     *)
LEMMA AfterLaw ==
  ASSUME TypeOK, GraphInv, HistoryInv, NEW base, NEW picks \in SUBSET DOMAIN commits, 1 \notin picks,
         NEW x \in Changes, x \notin retracted
  PROVE  x \in TreeAfter(base, picks) <=>
           x \in Tree(base) \/ \E n \in picks : x \in Diff(n).added
<1> DEFINE touching == {n \in picks : x \in Diff(n).added \cup Diff(n).removed}
<1>1. x \in TreeAfter(base, picks) <=>
        IF touching = {} THEN x \in Tree(base) ELSE x \in Diff(Max(touching)).added
  BY DEF TreeAfter
<1>2. CASE touching = {}
  BY <1>1, <1>2
<1>3. CASE touching # {}
  <2>1. touching \in SUBSET Nat /\ Len(commits) \in Nat /\ \A m \in touching : m <= Len(commits)
    BY CommitTyped DEF TypeOK
  <2>2. Max(touching) \in touching
    <3> HIDE DEF touching
    <3> QED BY <1>3, <2>1, MaxLaw
  <2>3. Max(touching) \in picks /\ Max(touching) \in DOMAIN commits /\ Max(touching) # 1
    BY <2>2
  <2>4. x \in Diff(Max(touching)).added
    BY <2>2, <2>3, Removals
  <2> QED BY <1>1, <1>3, <2>3, <2>4
<1> QED BY <1>2, <1>3

(* What a pick adds and the base lacks, a pick that is kept adds.          *)
LEMMA KeptBrings ==
  ASSUME TypeOK, GraphInv, HistoryInv, NEW base, NEW picks \in SUBSET DOMAIN commits, 1 \notin picks,
         NEW x \in Changes, x \notin retracted, x \notin Tree(base),
         NEW n \in picks, x \in Diff(n).added
  PROVE  \E k \in Kept(base, picks) : x \in Diff(k).added
<1> DEFINE S == {m \in picks : x \in Diff(m).added}
<1>1. S \in SUBSET Nat /\ S # {}
  BY CommitTyped
<1>2. PICK k \in S : \A m \in S : k <= m
  <2> HIDE DEF S
  <2> QED BY <1>1, LeastExists
<1> DEFINE upto == {m \in picks : m <= k}
           before == {m \in picks : m < k}
<1>3. k \in upto /\ upto \in SUBSET DOMAIN commits /\ 1 \notin upto
  BY <1>1, <1>2
<1>4. before \in SUBSET DOMAIN commits /\ 1 \notin before
  OBVIOUS
<1>5. \A m \in before : x \notin Diff(m).added
  <2> SUFFICES ASSUME NEW m \in before, x \in Diff(m).added PROVE FALSE
    OBVIOUS
  <2>1. m \in S
    OBVIOUS
  <2>2. k <= m /\ m < k /\ m \in Nat /\ k \in Nat
    BY <1>1, <1>2, <2>1
  <2> QED BY <2>2
<1>6. x \in TreeAfter(base, upto)
  <2> HIDE DEF upto
  <2> QED BY <1>2, <1>3, AfterLaw
<1>7. x \notin TreeAfter(base, before)
  <2> HIDE DEF before
  <2> QED BY <1>4, <1>5, AfterLaw
<1>8. k \in Kept(base, picks)
  BY <1>2, <1>6, <1>7 DEF Kept
<1> QED BY <1>2, <1>8

(* So a replay of what is kept holds what a replay of all holds.           *)
LEMMA KeptLaw ==
  ASSUME TypeOK, GraphInv, HistoryInv, NEW base, NEW picks \in SUBSET DOMAIN commits, 1 \notin picks,
         NEW x \in Changes, x \notin retracted
  PROVE  x \in TreeAfter(base, Kept(base, picks)) <=> x \in TreeAfter(base, picks)
<1>1. Kept(base, picks) \in SUBSET DOMAIN commits /\ 1 \notin Kept(base, picks)
  BY KeptPicked
<1>2. x \in TreeAfter(base, Kept(base, picks)) <=>
        x \in Tree(base) \/ \E n \in Kept(base, picks) : x \in Diff(n).added
  BY <1>1, AfterLaw
<1>3. x \in TreeAfter(base, picks) <=> x \in Tree(base) \/ \E n \in picks : x \in Diff(n).added
  BY AfterLaw
<1> QED BY <1>2, <1>3, KeptBrings, KeptPicked

(* A replay goes through the picks it keeps.                               *)
LEMMA ReplayAll ==
  ASSUME TypeOK, NEW base, NEW picks \in SUBSET DOMAIN commits, NEW replay \in Replays(base, picks)
  PROVE  {replay[j] : j \in 1..Len(replay)} = Kept(base, picks)
BY ReplayListed

-----------------------------------------------------------------------------
(* What new commits do to what the history holds. *)

(* Where new commits are and what is where it was.                         *)
LEMMA Landed ==
  ASSUME TypeOK, NEW b \in Branches, NEW new \in Seq(Commit), new # << >>,
         NEW names \in Seq(SUBSET Nat), Len(names) = Len(new), Lands(b, new, names)
  PROVE  /\ DOMAIN commits' = 1..(Len(commits) + Len(new))
         /\ \A n \in DOMAIN commits : commits'[n] = commits[n]
         /\ \A i \in 1..Len(new) : /\ commits'[Len(commits) + i] = new[i]
                                   /\ provenance'[Len(commits) + i] = names[i]
         /\ head'[b] = Len(commits) + Len(new)
         /\ \A c \in Branches : c # b => head'[c] = head[c]
<1>1. /\ commits \in Seq(Commit) /\ provenance \in Seq(SUBSET Nat)
      /\ Len(provenance) = Len(commits) /\ Len(commits) \in Nat
      /\ head \in [Branches -> DOMAIN commits] /\ DOMAIN commits = 1..Len(commits)
  BY DEF TypeOK
<1>2. commits' = commits \o new /\ provenance' = provenance \o names
      /\ head' = [head EXCEPT ![b] = Len(commits) + Len(new)]
  BY DEF Lands
<1>3. DOMAIN commits' = 1..(Len(commits) + Len(new))
  BY <1>1, <1>2
<1>4. \A n \in DOMAIN commits : commits'[n] = commits[n]
  BY <1>1, <1>2
<1>5. \A i \in 1..Len(new) : commits'[Len(commits) + i] = new[i]
  BY <1>1, <1>2
<1>6. \A i \in 1..Len(new) : provenance'[Len(commits) + i] = names[i]
  BY <1>1, <1>2
<1>7. head'[b] = Len(commits) + Len(new) /\ \A c \in Branches : c # b => head'[c] = head[c]
  BY <1>1, <1>2
<1> QED BY <1>3, <1>4, <1>5, <1>6, <1>7

(* A commit is well grown if it is new and what it grew from is.           *)
LEMMA NewChild ==
  ASSUME NEW n \in Nat, NEW p \in 1..(n - 1),
         commits'[n].parents = <<p>>, Reach(n)' = Reach(p)' \cup {n},
         Tree(p)' \ Tree(n)' \subseteq retracted'
  PROVE  WellGrown(n)'
<1> DEFINE parents == commits'[n].parents
<1>1. Len(parents) = 1 /\ DOMAIN parents = {1} /\ parents[1] = p
  <2>1. DOMAIN <<p>> = 1..1 /\ 1..1 = {1}
    OBVIOUS
  <2> QED BY <2>1
<1>2. Parents(n)' = {p}
  BY <1>1 DEF Parents
<1>3. ~IsMerge(n)'
  BY <1>1 DEF IsMerge
<1>4. (Len(commits[n].parents) \in {1, 2})'
  BY <1>1
<1>5. Reach(n)' = {n} \cup UNION {Reach(q)' : q \in Parents(n)'}
  BY <1>2
<1> QED BY <1>2, <1>3, <1>4, <1>5 DEF WellGrown

(* The same of a merge.                                                    *)
LEMMA NewMerge ==
  ASSUME NEW n \in Nat, NEW p \in 1..(n - 1), NEW q \in 1..(n - 1),
         commits'[n].parents = <<p, q>>, Reach(n)' = Reach(p)' \cup Reach(q)' \cup {n},
         (Tree(p)' \cup Tree(q)') \ Tree(n)' \subseteq retracted',
         Tree(n)' \ (Tree(p)' \cup Tree(q)') \subseteq retracted'
  PROVE  WellGrown(n)'
<1> DEFINE parents == commits'[n].parents
<1>1. Len(parents) = 2 /\ DOMAIN parents = {1, 2} /\ parents[1] = p /\ parents[2] = q
  <2>1. DOMAIN <<p, q>> = 1..2 /\ 1..2 = {1, 2}
    OBVIOUS
  <2> QED BY <2>1
<1>2. Parents(n)' = {p, q}
  BY <1>1 DEF Parents
<1>3. (Len(commits[n].parents) \in {1, 2})'
  BY <1>1
<1>4. Reach(n)' = {n} \cup UNION {Reach(r)' : r \in Parents(n)'}
  BY <1>2
<1>5. \A r \in Parents(n)' : Tree(r)' \ Tree(n)' \subseteq retracted'
  BY <1>2
<1>6. Tree(n)' \ UNION {Tree(r)' : r \in Parents(n)'} \subseteq retracted'
  BY <1>2
<1> QED BY <1>2, <1>3, <1>4, <1>5, <1>6 DEF WellGrown

(* What is older stays well grown.                                         *)
LEMMA StillWellGrown ==
  ASSUME TypeOK, GraphInv, HistoryInv, retracted \subseteq retracted',
         \A n \in DOMAIN commits : commits'[n] = commits[n],
         NEW n \in DOMAIN commits, n # 1
  PROVE  WellGrown(n)'
<1>1. WellGrown(n)
  BY DEF HistoryInv
<1>2. commits'[n] = commits[n]
  OBVIOUS
<1>3. Parents(n)' = Parents(n) /\ Reach(n)' = Reach(n) /\ Tree(n)' = Tree(n)
      /\ (IsMerge(n)' <=> IsMerge(n))
  BY <1>2 DEF Parents, Reach, Tree, IsMerge
<1>4. \A p \in Parents(n) : Reach(p)' = Reach(p) /\ Tree(p)' = Tree(p)
  <2>1. \A p \in Parents(n) : commits'[p] = commits[p]
    BY ParentsTyped
  <2> QED BY <2>1 DEF Reach, Tree
<1>5. (Len(commits[n].parents) \in {1, 2})'
  BY <1>1, <1>2 DEF WellGrown
<1>6. Reach(n)' = {n} \cup UNION {Reach(r)' : r \in Parents(n)'}
  BY <1>1, <1>3, <1>4 DEF WellGrown
<1>7. \A r \in Parents(n)' : Tree(r)' \ Tree(n)' \subseteq retracted'
  BY <1>1, <1>3, <1>4 DEF WellGrown
<1>8. IsMerge(n)' => Tree(n)' \ UNION {Tree(r)' : r \in Parents(n)'} \subseteq retracted'
  BY <1>1, <1>3, <1>4 DEF WellGrown
<1>9. Parents(n)' \subseteq 1..(n - 1)
  BY <1>1, <1>3 DEF WellGrown
<1> QED BY <1>5, <1>6, <1>7, <1>8, <1>9 DEF WellGrown

(* What a step does that brings commits to one branch.                     *)
Gains ==
  /\ HistoryInv'
  /\ retracted \subseteq retracted'
  /\ \A n \in DOMAIN commits : n \in DOMAIN commits' /\ commits'[n] = commits[n]
  /\ \A c \in Branches : Tree(head[c]) \ Tree(head[c])' \subseteq retracted'

(* New commits on one branch that are well grown gain.                     *)
LEMMA GainsFrom ==
  ASSUME TypeOK, GraphInv, HistoryInv, retracted \subseteq retracted', NEW k \in Nat,
         DOMAIN commits' = 1..(Len(commits) + k),
         \A n \in DOMAIN commits : commits'[n] = commits[n],
         \A n \in Len(commits) + 1 .. Len(commits) + k : WellGrown(n)',
         NEW b \in Branches, \A c \in Branches : c # b => head'[c] = head[c],
         Tree(head[b]) \ Tree(head[b])' \subseteq retracted'
  PROVE  Gains
<1>1. Len(commits) \in Nat /\ DOMAIN commits = 1..Len(commits)
      /\ \A c \in Branches : head[c] \in DOMAIN commits
  BY DEF TypeOK
<1>2. 1 \in DOMAIN commits
  <2>1. head[b] \in 1..Len(commits)
    BY <1>1
  <2> QED BY <1>1, <2>1
<1>3. ASSUME NEW n \in DOMAIN commits' \ {1} PROVE WellGrown(n)'
  <2>1. CASE n \in DOMAIN commits
    BY <2>1, StillWellGrown
  <2>2. CASE n \notin DOMAIN commits
    BY <1>1, <2>2
  <2> QED BY <2>1, <2>2
<1>4. commits'[1] = Root
  BY <1>2 DEF HistoryInv
<1>5. HistoryInv'
  BY <1>3, <1>4 DEF HistoryInv
<1>6. ASSUME NEW c \in Branches PROVE Tree(head[c]) \ Tree(head[c])' \subseteq retracted'
  <2>1. CASE c = b
    BY <2>1
  <2>2. CASE c # b
    BY <1>1, <2>2 DEF Tree
  <2> QED BY <2>1, <2>2
<1>7. \A n \in DOMAIN commits : n \in DOMAIN commits' /\ commits'[n] = commits[n]
  BY <1>1
<1> QED BY <1>5, <1>6, <1>7 DEF Gains

(* One commit on a branch, that keeps what the branch holds.               *)
LEMMA ChildGains ==
  ASSUME TypeOK, GraphInv, HistoryInv, NEW b \in Branches, NEW tree \in SUBSET Changes,
         NEW names \in SUBSET Nat, Lands(b, <<Child(head[b], tree)>>, <<names>>),
         retracted \subseteq retracted', Tree(head[b]) \ tree \subseteq retracted'
  PROVE  /\ Gains /\ Tree(head[b])' = tree
         /\ DOMAIN commits' = 1..(Len(commits) + 1) /\ provenance'[Len(commits) + 1] = names
<1> DEFINE c == Child(head[b], tree)
           len == Len(commits)
           new == <<c>>
           all == <<names>>
<1>1. head[b] \in DOMAIN commits /\ len \in Nat /\ head[b] \in 1..len /\ head[b] \in Nat
  BY SettingTyped DEF TypeOK
<1>2. /\ c \in Commit /\ c.reach = Reach(head[b]) \cup {len + 1}
      /\ c.parents = <<head[b]>> /\ c.tree = tree
  BY <1>1, ChildTyped DEF Child
<1>3. Lands(b, new, all)
  OBVIOUS
<1> HIDE DEF c
<1>4. new \in Seq(Commit) /\ Len(new) = 1 /\ new[1] = c /\ new # << >>
  BY <1>2
<1>5. all \in Seq(SUBSET Nat) /\ Len(all) = 1 /\ all[1] = names
  OBVIOUS
<1> HIDE DEF new, all
<1>6. /\ DOMAIN commits' = 1..(len + 1)
      /\ \A n \in DOMAIN commits : commits'[n] = commits[n]
      /\ commits'[len + 1] = c /\ provenance'[len + 1] = names
      /\ head'[b] = len + 1
      /\ \A d \in Branches : d # b => head'[d] = head[d]
  <2>1. 1 \in 1..Len(new) /\ Len(all) = Len(new)
    BY <1>4, <1>5
  <2> QED BY <1>3, <1>4, <1>5, <2>1, Landed
<1>7. PICK n \in Nat : n = len + 1
  BY <1>1
<1>8. PICK p \in Nat : p = head[b]
  BY <1>1
<1>9. /\ Tree(n)' = tree /\ Reach(n)' = c.reach /\ Tree(head[b])' = tree
      /\ Tree(p)' = Tree(head[b]) /\ Reach(p)' = Reach(head[b])
  BY <1>1, <1>2, <1>6, <1>7, <1>8 DEF Tree, Reach
<1>10. WellGrown(n)'
  <2>1. p \in 1..(n - 1)
    BY <1>1, <1>7, <1>8
  <2>2. commits'[n].parents = <<p>> /\ Reach(n)' = Reach(p)' \cup {n}
        /\ Tree(p)' \ Tree(n)' \subseteq retracted'
    BY <1>2, <1>6, <1>7, <1>8, <1>9
  <2> QED BY <2>1, <2>2, NewChild
<1>11. \A m \in len + 1 .. len + 1 : WellGrown(m)'
  BY <1>1, <1>7, <1>10
<1>12. Tree(head[b]) \ Tree(head[b])' \subseteq retracted'
  BY <1>9
<1>13. Gains
  BY <1>6, <1>11, <1>12, GainsFrom
<1> QED BY <1>6, <1>9, <1>13

(* One merge commit on a branch.                                           *)
LEMMA MergeGains ==
  ASSUME TypeOK, GraphInv, HistoryInv, NEW b \in Branches, NEW other \in DOMAIN commits,
         NEW tree \in SUBSET Changes, NEW names \in SUBSET Nat,
         Lands(b, <<MergeOf(head[b], other, tree)>>, <<names>>), retracted \subseteq retracted',
         (Tree(head[b]) \cup Tree(other)) \ tree \subseteq retracted,
         tree \ (Tree(head[b]) \cup Tree(other)) \subseteq retracted
  PROVE  /\ Gains /\ Tree(head[b])' = tree
         /\ DOMAIN commits' = 1..(Len(commits) + 1) /\ provenance'[Len(commits) + 1] = names
<1> DEFINE c == MergeOf(head[b], other, tree)
           len == Len(commits)
           new == <<c>>
           all == <<names>>
<1>1. /\ head[b] \in DOMAIN commits /\ len \in Nat /\ head[b] \in 1..len /\ head[b] \in Nat
      /\ other \in 1..len
  BY SettingTyped DEF TypeOK
<1>2. /\ c \in Commit /\ c.reach = Reach(head[b]) \cup Reach(other) \cup {len + 1}
      /\ c.parents = <<head[b], other>> /\ c.tree = tree
  BY <1>1, MergeTyped DEF MergeOf
<1>3. Lands(b, new, all)
  OBVIOUS
<1> HIDE DEF c
<1>4. new \in Seq(Commit) /\ Len(new) = 1 /\ new[1] = c /\ new # << >>
  BY <1>2
<1>5. all \in Seq(SUBSET Nat) /\ Len(all) = 1 /\ all[1] = names
  OBVIOUS
<1> HIDE DEF new, all
<1>6. /\ DOMAIN commits' = 1..(len + 1)
      /\ \A n \in DOMAIN commits : commits'[n] = commits[n]
      /\ commits'[len + 1] = c /\ provenance'[len + 1] = names
      /\ head'[b] = len + 1
      /\ \A d \in Branches : d # b => head'[d] = head[d]
  <2>1. 1 \in 1..Len(new) /\ Len(all) = Len(new)
    BY <1>4, <1>5
  <2> QED BY <1>3, <1>4, <1>5, <2>1, Landed
<1>7. PICK n \in Nat : n = len + 1
  BY <1>1
<1>8. PICK p \in Nat : p = head[b]
  BY <1>1
<1>9. /\ Tree(n)' = tree /\ Reach(n)' = c.reach /\ Tree(head[b])' = tree
      /\ Tree(p)' = Tree(head[b]) /\ Reach(p)' = Reach(head[b])
      /\ Tree(other)' = Tree(other) /\ Reach(other)' = Reach(other)
  BY <1>1, <1>2, <1>6, <1>7, <1>8 DEF Tree, Reach
<1>10. WellGrown(n)'
  <2>1. p \in 1..(n - 1) /\ other \in 1..(n - 1)
    BY <1>1, <1>7, <1>8
  <2>2. /\ commits'[n].parents = <<p, other>> /\ Reach(n)' = Reach(p)' \cup Reach(other)' \cup {n}
        /\ (Tree(p)' \cup Tree(other)') \ Tree(n)' \subseteq retracted'
        /\ Tree(n)' \ (Tree(p)' \cup Tree(other)') \subseteq retracted'
    BY <1>2, <1>6, <1>7, <1>8, <1>9
  <2> QED BY <2>1, <2>2, NewMerge
<1>11. \A m \in len + 1 .. len + 1 : WellGrown(m)'
  BY <1>1, <1>7, <1>10
<1>12. Tree(head[b]) \ Tree(head[b])' \subseteq retracted'
  BY <1>9
<1>13. Gains
  BY <1>6, <1>11, <1>12, GainsFrom
<1> QED BY <1>6, <1>9, <1>13

(* The commits of a replay are well grown.                                 *)
LEMMA ChainGrown ==
  ASSUME TypeOK, GraphInv, HistoryInv, NEW base \in DOMAIN commits,
         NEW picks \in SUBSET DOMAIN commits, 1 \notin picks, NEW replay \in Replays(base, picks),
         retracted \subseteq retracted',
         \A n \in DOMAIN commits : commits'[n] = commits[n],
         \A i \in 1..Len(replay) : commits'[Len(commits) + i] = Chain(base, replay)[i]
  PROVE  \A n \in Len(commits) + 1 .. Len(commits) + Len(replay) : WellGrown(n)'
<1> DEFINE P(i) == {replay[j] : j \in 1..i}
           chain == Chain(base, replay)
<1>1. PICK len \in Nat : len = Len(commits)
  BY DEF TypeOK
<1>2. replay \in Seq(DOMAIN commits) /\ Len(replay) \in Nat /\ DOMAIN replay = 1..Len(replay)
      /\ \A i \in 1..Len(replay) : replay[i] \in picks
  BY ReplayListed, KeptPicked
<1>3. PICK size \in Nat : size = Len(replay)
  BY <1>2
<1>4. base \in 1..len /\ DOMAIN commits = 1..len /\ base \in Nat
  BY <1>1 DEF TypeOK
<1>5. SUFFICES ASSUME NEW n \in len + 1 .. len + size PROVE WellGrown(n)'
  BY <1>1, <1>3
<1>6. PICK i \in 1..size : n = len + i
  <2>1. n - len \in 1..size /\ n = len + (n - len)
    OBVIOUS
  <2> QED BY <2>1
<1>7. PICK p \in Nat : p = IF i = 1 THEN base ELSE n - 1
  <2>1. (IF i = 1 THEN base ELSE n - 1) \in Nat
    BY <1>4, <1>6
  <2> QED BY <2>1
<1>8. p \in 1..(n - 1) /\ i \in 1..Len(replay)
  BY <1>4, <1>6, <1>7, <1>3
<1>9. /\ commits'[n].parents = <<p>> /\ Tree(n)' = TreeAfter(base, P(i))
      /\ Reach(n)' = Reach(base) \cup len + 1 .. len + i
  <2>1. commits'[n] = chain[i]
    BY <1>1, <1>6, <1>8
  <2>2. chain[i] = [parents |-> <<IF i = 1 THEN base ELSE Len(commits) + i - 1>>,
                    tree |-> TreeAfter(base, P(i)),
                    reach |-> Reach(base) \cup Len(commits) + 1 .. Len(commits) + i]
    BY <1>2, <1>8 DEF Chain
  <2>3. (IF i = 1 THEN base ELSE Len(commits) + i - 1) = p
    BY <1>1, <1>6, <1>7
  <2>4. /\ Tree(n)' = chain[i].tree /\ Reach(n)' = chain[i].reach
        /\ commits'[n].parents = chain[i].parents
    BY <2>1 DEF Tree, Reach
  <2> HIDE DEF P, chain
  <2>5. chain[i].parents = <<p>> /\ chain[i].tree = TreeAfter(base, P(i))
    BY <2>2, <2>3
  <2>6. chain[i].reach = Reach(base) \cup len + 1 .. len + i
    BY <1>1, <2>2
  <2> QED BY <2>4, <2>5, <2>6
<1>10. /\ i = 1 => Tree(p)' = Tree(base) /\ Reach(p)' = Reach(base)
       /\ i # 1 => /\ Tree(p)' = TreeAfter(base, P(i - 1))
                   /\ Reach(p)' = Reach(base) \cup len + 1 .. len + (i - 1)
  <2>1. CASE i = 1
    BY <1>4, <1>7, <2>1 DEF Tree, Reach
  <2>2. CASE i # 1
    <3> DEFINE h == i - 1
    <3>0. h \in 1..size /\ p = len + h
      BY <1>6, <1>7, <2>2
    <3>1. h \in 1..Len(replay) /\ p = len + h
      BY <1>3, <3>0
    <3>2. chain[h] = [parents |-> <<IF h = 1 THEN base ELSE Len(commits) + h - 1>>,
                      tree |-> TreeAfter(base, P(h)),
                      reach |-> Reach(base) \cup Len(commits) + 1 .. Len(commits) + h]
      BY <1>2, <3>1 DEF Chain
    <3>3. commits'[p] = chain[h]
      BY <1>1, <3>1
    <3>4. Tree(p)' = chain[h].tree /\ Reach(p)' = chain[h].reach
      BY <3>3 DEF Tree, Reach
    <3> HIDE DEF P, chain
    <3>5. chain[h].tree = TreeAfter(base, P(h)) /\ chain[h].reach = Reach(base) \cup len + 1 .. len + h
      BY <1>1, <3>2
    <3> QED BY <2>2, <3>4, <3>5
  <2> QED BY <2>1, <2>2
<1>11. Reach(n)' = Reach(p)' \cup {n}
  <2>1. CASE i = 1
    BY <1>1, <1>6, <1>9, <1>10, <2>1
  <2>2. CASE i # 1
    <3>1. len + 1 .. len + i = (len + 1 .. len + (i - 1)) \cup {n}
      BY <1>6, <2>2
    <3> QED BY <1>9, <1>10, <2>2, <3>1
  <2> QED BY <2>1, <2>2
<1>12. ASSUME NEW x \in Tree(p)', x \notin Tree(n)', x \notin retracted' PROVE FALSE
  <2>1. P(i) \in SUBSET DOMAIN commits /\ 1 \notin P(i)
    <3>1. \A j \in 1..i : j \in 1..Len(replay)
      BY <1>8, <1>3
    <3>2. \A j \in 1..i : replay[j] \in picks
      BY <1>2, <3>1
    <3> QED BY <3>2
  <2>2. x \notin retracted
    BY <1>12
  <2>3. i = 1 => x \in Tree(base) /\ x \in Changes
    BY <1>10, CommitTyped
  <2>4. i # 1 => x \in TreeAfter(base, P(i - 1)) /\ x \in Changes
    BY <1>10 DEF TreeAfter
  <2>5. x \in Changes
    BY <2>3, <2>4
  <2>6. x \in Tree(base) \/ \E m \in P(i) : x \in Diff(m).added
    <3>1. CASE i # 1
      <4>1. P(i - 1) \subseteq P(i) /\ P(i - 1) \in SUBSET DOMAIN commits /\ 1 \notin P(i - 1)
        BY <1>2, <2>1
      <4> HIDE DEF P
      <4> QED BY <2>2, <2>4, <3>1, <4>1, AfterLaw
    <3> QED BY <2>3, <3>1
  <2>7. x \in TreeAfter(base, P(i))
    <3> HIDE DEF P
    <3>1. x \in TreeAfter(base, P(i)) <=>
            x \in Tree(base) \/ \E m \in P(i) : x \in Diff(m).added
      BY <2>1, <2>2, <2>5, AfterLaw
    <3> QED BY <2>6, <3>1
  <2> QED BY <1>9, <1>12, <2>7
<1>13. Tree(p)' \ Tree(n)' \subseteq retracted'
  BY <1>12
<1>14. n \in Nat /\ commits'[n].parents = <<p>>
  BY <1>6, <1>9
<1> QED BY <1>8, <1>11, <1>13, <1>14, NewChild

(* The new commits are a replay of the picks.                              *)
Replayed(b, picks, replay, names) ==
  /\ Gains /\ Tree(head[b])' = TreeAfter(head[b], Kept(head[b], picks))
  /\ DOMAIN commits' = 1..(Len(commits) + Len(replay)) /\ Len(replay) \in Nat
  /\ \A i \in 1..Len(replay) : provenance'[Len(commits) + i] = names[i]

(* A replay on a branch keeps what the branch holds.                       *)
LEMMA ReplayGains ==
  ASSUME TypeOK, GraphInv, HistoryInv, NEW b \in Branches,
         NEW picks \in SUBSET DOMAIN commits, 1 \notin picks, Kept(head[b], picks) # {},
         NEW replay \in Replays(head[b], picks),
         NEW names, \A i \in 1..Len(replay) : names[i] \in SUBSET Nat,
         names = [i \in 1..Len(replay) |-> names[i]],
         Lands(b, Chain(head[b], replay), names), retracted \subseteq retracted'
  PROVE  Replayed(b, picks, replay, names)
<1> DEFINE new == Chain(head[b], replay)
           size == Len(replay)
<1>1. /\ replay \in Seq(DOMAIN commits)
      /\ \A n \in Kept(head[b], picks) : \E i \in 1..Len(replay) : replay[i] = n
  BY ReplayListed
<1>2. size \in Nat /\ size >= 1 /\ DOMAIN replay = 1..size /\ Len(commits) \in Nat
  BY <1>1 DEF TypeOK
<1>3. head[b] \in DOMAIN commits
  BY SettingTyped
<1>4. new \in Seq(Commit) /\ Len(new) = size
  BY <1>1, <1>3, ChainTyped
<1>5. names \in Seq(SUBSET Nat) /\ Len(names) = size
  BY <1>2
<1>6. new # << >> /\ Lands(b, new, names) /\ new[size].tree = TreeAfter(head[b], {replay[j] : j \in 1..size})
  BY <1>2, <1>4 DEF Chain
<1>7. {replay[j] : j \in 1..size} = Kept(head[b], picks)
  BY ReplayAll
<1>8. \A i \in 1..size : new[i] = Chain(head[b], replay)[i]
  OBVIOUS
<1> HIDE DEF new
<1>9. /\ DOMAIN commits' = 1..(Len(commits) + size)
      /\ \A n \in DOMAIN commits : commits'[n] = commits[n]
      /\ \A i \in 1..size : /\ commits'[Len(commits) + i] = new[i]
                            /\ provenance'[Len(commits) + i] = names[i]
      /\ head'[b] = Len(commits) + size
      /\ \A c \in Branches : c # b => head'[c] = head[c]
  <2>1. Len(names) = Len(new)
    BY <1>4, <1>5
  <2>2. /\ DOMAIN commits' = 1..(Len(commits) + Len(new))
        /\ \A n \in DOMAIN commits : commits'[n] = commits[n]
        /\ \A i \in 1..Len(new) : /\ commits'[Len(commits) + i] = new[i]
                                  /\ provenance'[Len(commits) + i] = names[i]
        /\ head'[b] = Len(commits) + Len(new)
        /\ \A c \in Branches : c # b => head'[c] = head[c]
    BY <1>4, <1>5, <1>6, <2>1, Landed, Zenon
  <2> QED BY <1>4, <2>2
<1>10. \A n \in Len(commits) + 1 .. Len(commits) + size : WellGrown(n)'
  BY <1>3, <1>8, <1>9, ChainGrown
<1>11. Tree(head[b])' = TreeAfter(head[b], Kept(head[b], picks))
  <2>1. size \in 1..size
    BY <1>2
  <2>2. Tree(head[b])' = new[size].tree
    BY <1>9, <2>1 DEF Tree
  <2> QED BY <1>6, <1>7, <2>2
<1>12. Tree(head[b]) \ Tree(head[b])' \subseteq retracted'
  <2> SUFFICES ASSUME NEW x \in Tree(head[b]), x \notin retracted'
               PROVE  x \in Tree(head[b])'
    OBVIOUS
  <2>1. x \in Changes /\ x \notin retracted
    BY <1>3, CommitTyped
  <2>2. Kept(head[b], picks) \in SUBSET DOMAIN commits /\ 1 \notin Kept(head[b], picks)
    BY KeptPicked
  <2> QED BY <1>11, <2>1, <2>2, AfterLaw
<1>13. Gains
  BY <1>2, <1>9, <1>10, <1>12, GainsFrom
<1> QED BY <1>2, <1>9, <1>11, <1>13 DEF Replayed

(* The new commits are a branch and, last, a merge of it with this tree.   *)
OnTop(b, branch, names, tree) ==
  /\ DOMAIN commits' = 1..(Len(commits) + Len(branch) + 1)
  /\ \A n \in DOMAIN commits : commits'[n] = commits[n]
  /\ \A i \in 1..Len(branch) : commits'[Len(commits) + i] = branch[i]
  /\ \A i \in 1..Len(branch) + 1 : provenance'[Len(commits) + i] = names[i]
  /\ \A c \in Branches : c # b => head'[c] = head[c]
  /\ Tree(head[b])' = tree
  /\ \A n \in Nat : n = Len(commits) + Len(branch) + 1 => WellGrown(n)'

(* A branch that the forge merges into the upstream.                       *)
LEMMA MergeOnTop ==
  ASSUME TypeOK, GraphInv, HistoryInv, NEW b \in Branches, b = Upstream, retracted \subseteq retracted',
         NEW branch \in Seq(Commit), branch # << >>, NEW tree \in SUBSET Changes,
         NEW names \in Seq(SUBSET Nat), Len(names) = Len(branch) + 1,
         Lands(b, MergeInto(branch, tree), names),
         branch[Len(branch)].reach \subseteq 1..Len(commits) + Len(branch),
         (Tree(head[b]) \cup branch[Len(branch)].tree) \ tree \subseteq retracted,
         tree \ (Tree(head[b]) \cup branch[Len(branch)].tree) \subseteq retracted
  PROVE  OnTop(b, branch, names, tree)
<1>1. PICK len \in Nat : len = Len(commits)
  BY DEF TypeOK
<1>2. PICK size \in Nat : size = Len(branch) /\ size >= 1
  OBVIOUS
<1>3. head[b] \in DOMAIN commits /\ head[b] \in 1..len /\ head[b] \in Nat /\ Reach(head[b]) \subseteq 1..len
  <2>1. head[b] \in DOMAIN commits
    BY SettingTyped
  <2>2. Reach(head[b]) \subseteq 1..len
    BY <1>1, <2>1, ChildTyped
  <2> QED BY <1>1, <2>1, <2>2 DEF TypeOK
<1> DEFINE last == branch[Len(branch)]
           top == [parents |-> <<head[b], len + size>>, tree |-> tree,
                   reach |-> Reach(head[b]) \cup last.reach \cup {len + size + 1}]
           new == MergeInto(branch, tree)
<1>4. new = Append(branch, top)
  BY <1>1, <1>2 DEF MergeInto
<1>5. last.reach \subseteq 1..len + size
  BY <1>1, <1>2
<1>6. top \in Commit
  <2>1. <<head[b], len + size>> \in Seq(Nat)
    BY <1>1, <1>2, <1>3
  <2> HIDE DEF last
  <2>2. top.reach \subseteq Nat
    BY <1>1, <1>2, <1>3, <1>5
  <2> QED BY <2>1, <2>2 DEF Commit
<1>7. /\ top.tree = tree /\ top.parents = <<head[b], len + size>>
      /\ top.reach = Reach(head[b]) \cup last.reach \cup {len + size + 1}
  OBVIOUS
<1> HIDE DEF top
<1>8. /\ new \in Seq(Commit) /\ Len(new) = size + 1 /\ new[size + 1] = top /\ new # << >>
      /\ \A i \in 1..size : new[i] = branch[i]
  BY <1>2, <1>4, <1>6
<1>9. Len(names) = size + 1
  BY <1>2
<1>10. Lands(b, new, names)
  OBVIOUS
<1> HIDE DEF new
<1>11. /\ DOMAIN commits' = 1..(Len(commits) + Len(new))
       /\ \A n \in DOMAIN commits : commits'[n] = commits[n]
       /\ \A i \in 1..Len(new) : /\ commits'[Len(commits) + i] = new[i]
                                 /\ provenance'[Len(commits) + i] = names[i]
       /\ head'[b] = Len(commits) + Len(new)
       /\ \A c \in Branches : c # b => head'[c] = head[c]
  <2>1. Len(names) = Len(new)
    BY <1>8, <1>9
  <2> QED BY <1>8, <1>9, <1>10, <2>1, Landed, Zenon
<1>12. /\ DOMAIN commits' = 1..(len + size + 1)
       /\ \A i \in 1..size : commits'[len + i] = branch[i]
       /\ \A i \in 1..size + 1 : provenance'[len + i] = names[i]
       /\ commits'[len + size + 1] = top
       /\ head'[b] = len + size + 1
  <2>1. \A i \in 1..size + 1 : i \in 1..Len(new)
    BY <1>8
  <2>2. size + 1 \in 1..size + 1 /\ \A i \in 1..size : i \in 1..size + 1
    BY <1>2
  <2>3. /\ \A i \in 1..size : commits'[len + i] = new[i]
        /\ \A i \in 1..size + 1 : provenance'[len + i] = names[i]
        /\ commits'[len + (size + 1)] = new[size + 1]
    BY <1>1, <1>11, <2>1, <2>2
  <2>4. len + (size + 1) = len + size + 1
    BY <1>1, <1>2
  <2> QED BY <1>1, <1>8, <1>9, <1>11, <2>3, <2>4
<1>13. PICK n \in Nat : n = len + size + 1
  BY <1>1, <1>2
<1>14. PICK p \in Nat : p = head[b]
  BY <1>3
<1>15. PICK q \in Nat : q = len + size
  BY <1>1, <1>2
<1>16. /\ Tree(n)' = tree /\ Reach(n)' = top.reach /\ Tree(head[b])' = tree
       /\ Tree(p)' = Tree(head[b]) /\ Reach(p)' = Reach(head[b])
  BY <1>3, <1>7, <1>11, <1>12, <1>13, <1>14 DEF Tree, Reach
<1>17. Tree(q)' = last.tree /\ Reach(q)' = last.reach
  <2>1. size \in 1..size
    BY <1>2
  <2>2. commits'[q] = last
    BY <1>2, <1>12, <1>15, <2>1
  <2> QED BY <2>2 DEF Tree, Reach
<1>18. WellGrown(n)'
  <2>1. p \in 1..(n - 1) /\ q \in 1..(n - 1)
    BY <1>1, <1>2, <1>3, <1>13, <1>14, <1>15
  <2>2. commits'[n].parents = <<p, q>>
    BY <1>7, <1>12, <1>13, <1>14, <1>15
  <2>3. Reach(n)' = Reach(p)' \cup Reach(q)' \cup {n}
    BY <1>7, <1>13, <1>16, <1>17
  <2>4. /\ (Tree(p)' \cup Tree(q)') \ Tree(n)' \subseteq retracted'
        /\ Tree(n)' \ (Tree(p)' \cup Tree(q)') \subseteq retracted'
    BY <1>16, <1>17
  <2> QED BY <2>1, <2>2, <2>3, <2>4, NewMerge
<1>19. \A m \in Nat : m = Len(commits) + Len(branch) + 1 => WellGrown(m)'
  BY <1>1, <1>2, <1>13, <1>18
<1> QED BY <1>1, <1>2, <1>11, <1>12, <1>16, <1>19 DEF OnTop

(* A replay on an older head of the upstream, merged.                      *)
LEMMA BranchGains ==
  ASSUME TypeOK, GraphInv, HistoryInv, NEW b \in Branches, b = Upstream, retracted \subseteq retracted',
         NEW base \in Reach(head[b]), NEW picks \in SUBSET DOMAIN commits, 1 \notin picks,
         Kept(base, picks) # {}, NEW replay \in Replays(base, picks),
         Lands(b, MergeInto(Chain(base, replay), ThreeWay(Tree(base), Tree(head[b]), TreeAfter(base, picks))),
               Append([i \in DOMAIN replay |-> NamedBy(replay[i])], {}))
  PROVE  /\ Gains
         /\ Tree(head[b])' = ThreeWay(Tree(base), Tree(head[b]), TreeAfter(base, picks))
         /\ DOMAIN commits' = 1..(Len(commits) + Len(replay) + 1) /\ Len(replay) \in Nat
         /\ \A i \in 1..Len(replay) : provenance'[Len(commits) + i] = NamedBy(replay[i])
         /\ provenance'[Len(commits) + Len(replay) + 1] = {}
<1> DEFINE chain == Chain(base, replay)
           named == [i \in DOMAIN replay |-> NamedBy(replay[i])]
           picked == TreeAfter(base, picks)
           tree == ThreeWay(Tree(base), Tree(head[b]), picked)
<1>1. head[b] \in DOMAIN commits /\ base \in DOMAIN commits
  BY SettingTyped, ReachTyped
<1>2. /\ replay \in Seq(DOMAIN commits)
      /\ \A n \in Kept(base, picks) : \E i \in 1..Len(replay) : replay[i] = n
  BY <1>1, ReplayListed
<1>3. PICK size \in Nat : size = Len(replay) /\ size >= 1
  BY <1>2
<1>4. PICK len \in Nat : len = Len(commits)
  BY DEF TypeOK
<1>5. DOMAIN replay = 1..size
  BY <1>2, <1>3
<1>6. /\ chain \in Seq(Commit) /\ Len(chain) = size /\ chain # << >>
      /\ chain[size].reach = Reach(base) \cup len + 1 .. len + size
      /\ Reach(base) \subseteq 1..len
  <2>1. size \in 1..Len(replay)
    BY <1>3
  <2>2. chain \in Seq(Commit) /\ Len(chain) = size
    BY <1>1, <1>2, <1>3, ChainTyped
  <2>3. chain # << >>
    <3> HIDE DEF chain
    <3> QED BY <1>3, <2>2
  <2>4. /\ chain[size].reach = Reach(base) \cup Len(commits) + 1 .. Len(commits) + size
        /\ Reach(base) \subseteq 1..Len(commits)
    BY <1>1, <1>2, <2>1, ChainTyped
  <2> QED BY <1>4, <2>2, <2>3, <2>4
<1>7. chain[size].tree = TreeAfter(base, Kept(base, picks))
  <2>1. chain[size].tree = TreeAfter(base, {replay[j] : j \in 1..size})
    BY <1>3, <1>5 DEF Chain
  <2> QED BY <1>1, <1>3, <2>1, ReplayAll
<1>8. /\ named \in Seq(SUBSET Nat) /\ Len(named) = size
      /\ \A i \in 1..size : named[i] = NamedBy(replay[i])
  <2>1. \A i \in 1..size : NamedBy(replay[i]) \in SUBSET Nat
    BY <1>2, <1>3, NamedTyped
  <2>2. named \in [1..size -> SUBSET Nat]
    BY <1>5, <2>1
  <2> QED BY <1>3, <1>5, <2>2
<1> DEFINE names == Append(named, {})
<1>9. /\ names \in Seq(SUBSET Nat) /\ Len(names) = size + 1 /\ names[size + 1] = {}
      /\ \A i \in 1..size : names[i] = NamedBy(replay[i])
  <2> HIDE DEF named
  <2> QED BY <1>3, <1>8
<1>10. picked \subseteq Changes /\ tree \in SUBSET Changes
  <2>1. picked \subseteq Changes
    BY DEF TreeAfter
  <2> QED BY <1>1, <2>1, CommitTyped DEF ThreeWay
<1>11. \A x \in Changes \ retracted : x \in Tree(base) => x \in picked
  BY AfterLaw
<1>12. \A x \in Changes \ retracted : x \in chain[size].tree <=> x \in picked
  BY <1>7, KeptLaw
<1>13. chain[size].tree \subseteq Changes
  BY <1>7 DEF TreeAfter
<1>14. Tree(base) \ Tree(head[b]) \subseteq retracted /\ Tree(base) \subseteq Changes
       /\ Tree(head[b]) \subseteq Changes
  BY <1>1, Inherited, CommitTyped
<1>15. /\ tree \subseteq Tree(head[b]) \cup picked
       /\ (Tree(head[b]) \cup picked) \ tree \subseteq retracted
  <2>1. Tree(base) \ picked \subseteq retracted
    BY <1>11, <1>14
  <2> HIDE DEF picked
  <2> QED BY <1>14, <2>1, MergeLaw
<1>16. Lands(b, MergeInto(chain, tree), names)
  OBVIOUS
<1>17. \A i \in 1..size : chain[i] = Chain(base, replay)[i]
  OBVIOUS
<1>18. tree = ThreeWay(Tree(base), Tree(head[b]), TreeAfter(base, picks))
  OBVIOUS
<1> HIDE DEF chain, named, names, tree, picked
<1>19. /\ (Tree(head[b]) \cup chain[Len(chain)].tree) \ tree \subseteq retracted
       /\ tree \ (Tree(head[b]) \cup chain[Len(chain)].tree) \subseteq retracted
  BY <1>6, <1>10, <1>12, <1>13, <1>15
<1>20. chain[Len(chain)].reach \subseteq 1..Len(commits) + Len(chain)
  BY <1>3, <1>4, <1>6
<1>21. OnTop(b, chain, names, tree)
  <2>1. Len(names) = Len(chain) + 1
    BY <1>6, <1>9
  <2>2. chain \in Seq(Commit) /\ chain # << >> /\ names \in Seq(SUBSET Nat) /\ tree \in SUBSET Changes
    BY <1>6, <1>10, <1>9
  <2> QED BY <1>16, <1>19, <1>20, <2>1, <2>2, MergeOnTop
<1>22. /\ \A n \in DOMAIN commits : commits'[n] = commits[n]
       /\ \A i \in 1..Len(chain) : commits'[Len(commits) + i] = chain[i]
       /\ \A c \in Branches : c # b => head'[c] = head[c]
       /\ Tree(head[b])' = tree
  BY <1>21 DEF OnTop
<1>23. \A n \in Nat : n = len + size + 1 => WellGrown(n)'
  BY <1>4, <1>6, <1>21 DEF OnTop
<1>24. \A n \in Len(commits) + 1 .. Len(commits) + Len(replay) : WellGrown(n)'
  BY <1>1, <1>3, <1>6, <1>17, <1>22, ChainGrown
<1>25. \A n \in len + 1 .. len + (size + 1) : WellGrown(n)'
  <2> TAKE n \in len + 1 .. len + (size + 1)
  <2>1. n \in len + 1 .. len + size \/ n = len + size + 1
    OBVIOUS
  <2> QED BY <1>3, <1>4, <1>24, <1>23, <2>1
<1>26. DOMAIN commits' = 1..(len + (size + 1))
  <2>1. len + size + 1 = len + (size + 1)
    OBVIOUS
  <2> QED BY <1>4, <1>6, <1>21, <2>1 DEF OnTop
<1>27. Tree(head[b]) \ Tree(head[b])' \subseteq retracted'
  BY <1>15, <1>22
<1>28. Gains
  <2>1. PICK k \in Nat : k = size + 1
    OBVIOUS
  <2>2. DOMAIN commits' = 1..(Len(commits) + k)
        /\ \A n \in Len(commits) + 1 .. Len(commits) + k : WellGrown(n)'
    BY <1>4, <1>25, <1>26, <2>1
  <2> QED BY <1>27, <1>22, <2>1, <2>2, GainsFrom
<1>29. /\ \A i \in 1..size : provenance'[len + i] = NamedBy(replay[i])
       /\ provenance'[len + (size + 1)] = {}
  <2>1. size + 1 \in 1..size + 1 /\ \A i \in 1..size : i \in 1..size + 1
    BY <1>3
  <2>2. \A i \in 1..size + 1 : provenance'[len + i] = names[i]
    BY <1>4, <1>6, <1>21 DEF OnTop
  <2> QED BY <1>9, <2>1, <2>2
<1>30. len + (size + 1) = len + size + 1
  OBVIOUS
<1> QED BY <1>3, <1>4, <1>18, <1>26, <1>28, <1>22, <1>29, <1>30

(* A merge of the source into an older head of the upstream, merged.       *)
LEMMA BackGains ==
  ASSUME TypeOK, GraphInv, HistoryInv, NEW b \in Branches, b = Upstream, retracted \subseteq retracted',
         NEW base \in Reach(head[b]), NEW name \in DOMAIN commits,
         NEW back, back = MergeOf(base, name, MergedTree(base, name)),
         Lands(b, MergeInto(<<back>>, ThreeWay(Tree(base), Tree(head[b]), back.tree)), <<{}, {}>>)
  PROVE  /\ Gains /\ DOMAIN commits' = 1..(Len(commits) + 2)
         /\ \A i \in {1, 2} : provenance'[Len(commits) + i] = {}
<1> DEFINE branch == <<back>>
           names == <<{}, {}>>
           tree == ThreeWay(Tree(base), Tree(head[b]), back.tree)
<1>1. head[b] \in DOMAIN commits /\ base \in DOMAIN commits
  BY SettingTyped, ReachTyped
<1>2. PICK len \in Nat : len = Len(commits)
  BY DEF TypeOK
<1>3. MergedTree(base, name) \in SUBSET Changes
  BY <1>1, TreesTyped
<1>4. /\ back \in Commit /\ back.reach = Reach(base) \cup Reach(name) \cup {len + 1}
      /\ back.tree = MergedTree(base, name) /\ back.parents = <<base, name>>
      /\ Reach(base) \cup Reach(name) \subseteq 1..len
  BY <1>1, <1>2, <1>3, MergeTyped DEF MergeOf
<1>5. /\ back.tree \subseteq Tree(base) \cup Tree(name)
      /\ (Tree(base) \cup Tree(name)) \ back.tree \subseteq retracted
  BY <1>1, <1>4, MergedLaw
<1>6. Tree(base) \ Tree(head[b]) \subseteq retracted
  BY <1>1, Inherited
<1>7. /\ tree \subseteq Tree(head[b]) \cup back.tree
      /\ (Tree(head[b]) \cup back.tree) \ tree \subseteq retracted
  <2>1. Tree(base) \ back.tree \subseteq retracted
    BY <1>5
  <2> QED BY <1>6, <2>1, MergeLaw
<1>8. tree \in SUBSET Changes
  BY <1>1, <1>3, <1>4, CommitTyped DEF ThreeWay
<1>9. branch \in Seq(Commit) /\ Len(branch) = 1 /\ branch[1] = back /\ branch # << >>
  BY <1>4
<1>10. names \in Seq(SUBSET Nat) /\ Len(names) = 2 /\ \A i \in 1..2 : names[i] = {}
  OBVIOUS
<1>11. Lands(b, MergeInto(branch, tree), names)
  OBVIOUS
<1> HIDE DEF branch, names, tree
<1>12. /\ (Tree(head[b]) \cup branch[Len(branch)].tree) \ tree \subseteq retracted
       /\ tree \ (Tree(head[b]) \cup branch[Len(branch)].tree) \subseteq retracted
  BY <1>7, <1>9
<1>13. branch[Len(branch)].reach \subseteq 1..Len(commits) + Len(branch)
  BY <1>2, <1>4, <1>9
<1>14. OnTop(b, branch, names, tree)
  <2>1. Len(names) = Len(branch) + 1
    BY <1>9, <1>10
  <2> QED BY <1>8, <1>9, <1>10, <1>11, <1>12, <1>13, <2>1, MergeOnTop
<1>15. commits'[len + 1] = back /\ \A i \in {1, 2} : provenance'[len + i] = {}
  <2>1. 1 \in 1..Len(branch) /\ \A i \in {1, 2} : i \in 1..Len(branch) + 1 /\ i \in 1..2
    BY <1>9
  <2> QED BY <1>2, <1>9, <1>10, <1>14, <2>1 DEF OnTop
<1>16. /\ \A n \in DOMAIN commits : commits'[n] = commits[n]
       /\ \A c \in Branches : c # b => head'[c] = head[c]
       /\ Tree(head[b])' = tree
  BY <1>14 DEF OnTop
<1>17. PICK n \in Nat : n = len + 1
  OBVIOUS
<1>18. base \in 1..(n - 1) /\ name \in 1..(n - 1)
  BY <1>1, <1>2, <1>17 DEF TypeOK
<1>19. /\ Tree(n)' = back.tree /\ Reach(n)' = back.reach
       /\ Tree(base)' = Tree(base) /\ Reach(base)' = Reach(base)
       /\ Tree(name)' = Tree(name) /\ Reach(name)' = Reach(name)
  BY <1>1, <1>15, <1>17, <1>16 DEF Tree, Reach
<1>20. WellGrown(n)'
  <2>1. commits'[n].parents = <<base, name>> /\ Reach(n)' = Reach(base)' \cup Reach(name)' \cup {n}
    BY <1>4, <1>15, <1>17, <1>19
  <2>2. /\ (Tree(base)' \cup Tree(name)') \ Tree(n)' \subseteq retracted'
        /\ Tree(n)' \ (Tree(base)' \cup Tree(name)') \subseteq retracted'
    BY <1>5, <1>19
  <2> QED BY <1>18, <2>1, <2>2, NewMerge
<1>21. \A m \in len + 1 .. len + 2 : WellGrown(m)'
  <2> TAKE m \in len + 1 .. len + 2
  <2>1. m = len + 1 \/ m = len + 1 + 1
    OBVIOUS
  <2> QED BY <1>2, <1>9, <1>14, <1>17, <1>20, <2>1 DEF OnTop
<1>22. DOMAIN commits' = 1..(len + 2)
  <2>1. len + 1 + 1 = len + 2
    OBVIOUS
  <2> QED BY <1>2, <1>9, <1>14, <2>1 DEF OnTop
<1>23. Tree(head[b]) \ Tree(head[b])' \subseteq retracted'
  BY <1>7, <1>16
<1>24. Gains
  BY <1>2, <1>21, <1>22, <1>23, <1>16, GainsFrom
<1> QED BY <1>2, <1>15, <1>22, <1>24

-----------------------------------------------------------------------------
(* What a step that adds commits keeps of the rest. *)

(* What someone has found on the upstream stays there.                     *)
LEMMA HeldKept ==
  ASSUME Invariant, Gains, setting' = setting, NEW b \in Branches, NEW held,
         held \ Tree(head[b]) \subseteq retracted
  PROVE  held \ Tree(head[b])' \subseteq retracted'
<1>1. Tree(head[b]) \ Tree(head[b])' \subseteq retracted' /\ retracted \subseteq retracted'
  BY DEF Gains
<1> QED BY <1>1

(* The records hold if what they name is what it was, or fits.             *)
LEMMA RecordKept ==
  ASSUME Invariant, RecordInv, Grown, Gains, setting' = setting,
         \A e \in Edges : open'[e] # None =>
           open'[e] = open[e] \/ open'[e] \in Reach(head[e[1]])',
         \A e \in Edges : latest'[e] # None =>
           \/ latest'[e] = latest[e]
           \/ /\ latest'[e] \in DOMAIN commits
              /\ Tree(latest'[e]) \ Tree(head[e[2]])' \subseteq retracted'
  PROVE  RecordInv'
<1>1. Edges' = Edges
  BY DEF Edges
<1>2. ASSUME NEW e \in Edges, open'[e] # None
      PROVE  open'[e] \in Reach(head[e[1]])'
  <2>1. e[1] \in Branches
    BY SettingTyped DEF Invariant
  <2>2. CASE open'[e] = open[e]
    BY <1>2, <2>1, <2>2 DEF RecordInv, Grown
  <2> QED BY <1>2, <2>2
<1>3. ASSUME NEW e \in Edges, latest'[e] # None
      PROVE  /\ latest'[e] \in DOMAIN commits'
             /\ Tree(latest[e])' \ Tree(head[e[2]])' \subseteq retracted'
  <2>1. e[2] \in Branches
    BY SettingTyped DEF Invariant
  <2>2. /\ latest'[e] \in DOMAIN commits
        /\ Tree(latest'[e]) \ Tree(head[e[2]])' \subseteq retracted'
    <3>1. CASE latest'[e] = latest[e]
      <4>1. latest[e] \in DOMAIN commits /\ Tree(latest[e]) \ Tree(head[e[2]]) \subseteq retracted
        BY <1>3, <3>1 DEF RecordInv
      <4> QED BY <2>1, <3>1, <4>1, HeldKept
    <3> QED BY <1>3, <3>1
  <2>3. latest'[e] \in DOMAIN commits' /\ commits'[latest'[e]] = commits[latest'[e]]
    BY <2>2 DEF Grown
  <2>4. Tree(latest[e])' = Tree(latest'[e])
    BY <2>3 DEF Tree
  <2> QED BY <2>2, <2>3, <2>4
<1> QED BY <1>1, <1>2, <1>3 DEF RecordInv

(* A commit keeps its diff.                                                *)
LEMMA DiffKept ==
  ASSUME Invariant, HistoryInv, Grown, NEW n \in DOMAIN commits, n # 1
  PROVE  Diff(n)' = Diff(n) /\ (HasPatch(n)' <=> HasPatch(n)) /\ n \in DOMAIN commits'
<1>1. Parent(n) \in DOMAIN commits
  BY ParentTyped DEF Invariant
<1>2. commits'[n] = commits[n] /\ commits'[Parent(n)] = commits[Parent(n)] /\ n \in DOMAIN commits'
  BY <1>1 DEF Grown
<1> QED BY <1>2 DEF Diff, HasPatch, Tree, Parent

(* So do the requests that stay.                                           *)
LEMMA BaseKept ==
  ASSUME Invariant, HistoryInv, BaseInv, Grown, setting' = setting,
         \A s \in Sources : request'[s] \in {request[s], None}
  PROVE  BaseInv'
<1>1. Sources' = Sources /\ (Merging' <=> Merging) /\ Upstream' = Upstream
  BY DEF Sources, Merging, Upstream
<1>2. ASSUME NEW s \in Sources, request'[s] # None
      PROVE  /\ request'[s].base \in Reach(head[Upstream])'
             /\ ~Merging => \A n \in request'[s].picks : HasPatch(n)'
  <2>1. request'[s] = request[s]
    BY <1>2
  <2>2. /\ request[s].base \in Reach(head[Upstream])
        /\ ~Merging => \A n \in request[s].picks : HasPatch(n)
    BY <1>2, <2>1 DEF BaseInv
  <2>3. request'[s].base \in Reach(head[Upstream])'
    <3>1. PICK b \in Branches : b = Upstream
      BY SettingTyped DEF Invariant
    <3>2. Reach(head[b]) \subseteq Reach(head[b])'
      BY DEF Grown
    <3> QED BY <1>1, <2>1, <2>2, <3>1, <3>2
  <2>4. ASSUME ~Merging, NEW n \in request'[s].picks
        PROVE  HasPatch(n)'
    <3>1. n \in request[s].picks /\ HasPatch(n)
      BY <2>1, <2>2, <2>4
    <3>2. n \in DOMAIN commits
      BY <1>2, <2>1, <3>1 DEF Invariant, RequestInv
    <3> QED BY <3>1, <3>2, PatchNotRoot, DiffKept
  <2> QED BY <2>3, <2>4
<1> QED BY <1>1, <1>2 DEF BaseInv

(* New commits name what the older ones do, or what has come upstream.     *)
Names(m, b) ==
  \/ \E k \in DOMAIN commits : m \in provenance[k]
  \/ /\ m \in DOMAIN commits \ {1}
     /\ Diff(m).added \ Tree(head[b])' \subseteq retracted'

LEMMA NamesKept ==
  ASSUME Invariant, HistoryInv, NamesInv, Grown, Gains, setting' = setting,
         NEW b \in Branches, b = Upstream,
         \A n \in DOMAIN commits' : n \notin DOMAIN commits => \A m \in provenance'[n] : Names(m, b)
  PROVE  NamesInv'
<1>1. Upstream' = b
  BY DEF Upstream
<1>2. ASSUME NEW n \in DOMAIN commits', NEW m \in provenance'[n]
      PROVE  m \in DOMAIN commits' \ {1} /\ Diff(m)'.added \ Tree(head[b])' \subseteq retracted'
  <2>1. \/ \E k \in DOMAIN commits : m \in provenance[k]
        \/ /\ m \in DOMAIN commits \ {1}
           /\ Diff(m).added \ Tree(head[b])' \subseteq retracted'
    <3>1. CASE n \in DOMAIN commits
      BY <1>2, <3>1 DEF Grown
    <3> QED BY <1>2, <3>1 DEF Names
  <2>2. m \in DOMAIN commits \ {1} /\ Diff(m).added \ Tree(head[b])' \subseteq retracted'
    <3>1. CASE \E k \in DOMAIN commits : m \in provenance[k]
      <4>1. m \in DOMAIN commits \ {1} /\ Diff(m).added \ Tree(head[b]) \subseteq retracted
        BY <3>1 DEF NamesInv
      <4> QED BY <4>1, HeldKept
    <3> QED BY <2>1, <3>1
  <2> QED BY <2>2, DiffKept
<1> QED BY <1>1, <1>2 DEF NamesInv

(* A step that lands commits and opens nothing.                            *)
Keeps(b) ==
  /\ Invariant' /\ Grown /\ Gains /\ setting' = setting
  /\ \A s \in Sources : request'[s] \in {request[s], None}
  /\ \A e \in Edges : open'[e] \in {open[e], None}
  /\ \A n \in DOMAIN commits' : n \notin DOMAIN commits => \A m \in provenance'[n] : Names(m, b)

(* Such a step keeps the invariant, if it merges no promotion.             *)
LEMMA ContentKept ==
  ASSUME ContentInv, NEW b \in Branches, b = Upstream, Keeps(b), latest' = latest
  PROVE  ContentInv'
<1> USE DEF ContentInv, Keeps
<1>1. RecordInv'
  BY RecordKept
<1>2. BaseInv'
  BY BaseKept
<1>3. NamesInv'
  BY NamesKept
<1>4. HistoryInv'
  BY DEF Gains
<1> QED BY <1>1, <1>2, <1>3, <1>4

-----------------------------------------------------------------------------
(* One lemma per action. *)

(* The root alone satisfies it.                                            *)
LEMMA InitContent == Init => ContentInv
<1> SUFFICES ASSUME Init PROVE ContentInv
  OBVIOUS
<1>1. Invariant
  BY InitHolds
<1>2. DOMAIN commits = {1} /\ commits[1] = Root /\ DOMAIN commits \ {1} = {}
  BY DEF Init
<1>3. HistoryInv
  BY <1>2 DEF HistoryInv
<1>4. RecordInv /\ BaseInv
  BY DEF Init, RecordInv, BaseInv
<1>5. \A n \in DOMAIN commits : provenance[n] = {}
  BY <1>2 DEF Init
<1>6. NamesInv
  BY <1>5 DEF NamesInv
<1> QED BY <1>1, <1>3, <1>4, <1>6 DEF ContentInv

(* What is picked for a return has a patch.                                *)
LEMMA ToReturnPatches ==
  ASSUME Invariant, HistoryInv, ~Merging, NEW s \in Sources
  PROVE  \A n \in ToReturn(s) : HasPatch(n)
BY DEF ToReturn, EdgeToReturn, Returnable

(* A run writes records of the heads it saw, and changes no history.       *)
LEMMA RunContent ==
  ASSUME ContentInv, Run
  PROVE  ContentInv'
<1> USE DEF ContentInv
<1>1. Invariant'
  BY RunKeeps
<1>2. UNCHANGED <<setting, commits, provenance, head, latest, retracted>>
  BY DEF Run, history, objects
<1>3. HistoryInv'
  BY <1>2 DEF HistoryInv, WellGrown, Parents, Tree, Reach, IsMerge
<1>4. NamesInv'
  BY <1>2 DEF NamesInv, Diff, Tree, Parent, Upstream
<1>5. ASSUME NEW e \in Edges, open'[e] # None
      PROVE  open'[e] \in Reach(head[e[1]])
  <2>1. open'[e] = AfterPlan(e)
    BY DEF Run
  <2>2. head[e[1]] \in Reach(head[e[1]])
    BY SettingTyped DEF Invariant, GraphInv
  <2>3. open'[e] = head[e[1]] \/ open'[e] = open[e]
    BY <1>5, <2>1 DEF AfterPlan
  <2> QED BY <1>5, <2>2, <2>3 DEF RecordInv
<1>6. RecordInv'
  BY <1>2, <1>5 DEF RecordInv, Tree, Reach, Edges
<1>7. ASSUME NEW s \in Sources, request'[s] # None
      PROVE  /\ request'[s].base \in Reach(head[Upstream])
             /\ ~Merging => \A n \in request'[s].picks : HasPatch(n)
  <2>1. request'[s] = AfterApply(s)
    BY DEF Run
  <2>2. CASE Proposes(s)
    <3>1. request'[s].base = head[Upstream] /\ request'[s].picks = ToReturn(s)
      BY <2>1, <2>2 DEF AfterApply
    <3>2. head[Upstream] \in Reach(head[Upstream])
      BY SettingTyped DEF Invariant, GraphInv
    <3> QED BY <3>1, <3>2, ToReturnPatches
  <2>3. CASE ~Proposes(s)
    BY <1>7, <2>1, <2>3 DEF AfterApply, BaseInv
  <2> QED BY <2>2, <2>3
<1>8. BaseInv'
  BY <1>2, <1>7 DEF BaseInv, Reach, HasPatch, Tree, Parent, Upstream, Sources, Merging
<1> QED BY <1>1, <1>3, <1>4, <1>6, <1>8

(* What the new commits are, when they are so many.                        *)
LEMMA NewOnes ==
  ASSUME TypeOK, NEW k \in Nat, DOMAIN commits' = 1..(Len(commits) + k),
         NEW n \in DOMAIN commits', n \notin DOMAIN commits
  PROVE  \E i \in 1..k : n = Len(commits) + i
<1>1. Len(commits) \in Nat /\ DOMAIN commits = 1..Len(commits)
  BY DEF TypeOK
<1>2. n - Len(commits) \in 1..k /\ n = Len(commits) + (n - Len(commits))
  BY <1>1
<1> QED BY <1>2

(* A commit that takes nothing out, but for what it is said to.            *)
LEMMA WriteContent ==
  ASSUME ContentInv, NEW b \in Used, NEW tree \in SUBSET Changes, NEW names \in SUBSET Nat,
         Write(b, tree, names), retracted' \subseteq Changes, retracted \subseteq retracted',
         Tree(head[b]) \ tree \subseteq retracted',
         \A m \in names : \E k \in DOMAIN commits : m \in provenance[k]
  PROVE  ContentInv'
<1> USE DEF ContentInv
<1>1. b \in Branches /\ Lands(b, <<Child(head[b], tree)>>, <<names>>)
  BY SettingTyped DEF Used, Invariant, Write
<1>2. UNCHANGED <<setting, open, latest, request, returned>>
  BY DEF forge, Write
<1>3. Invariant'
  BY WriteKeeps
<1>4. Grown
  BY <1>1, ChildLands DEF Invariant
<1>5. /\ Gains /\ DOMAIN commits' = 1..(Len(commits) + 1) /\ provenance'[Len(commits) + 1] = names
  <2>1. TypeOK /\ GraphInv /\ HistoryInv
    BY DEF Invariant
  <2>2. /\ b \in Branches /\ Lands(b, <<Child(head[b], tree)>>, <<names>>)
        /\ retracted \subseteq retracted' /\ Tree(head[b]) \ tree \subseteq retracted'
    BY <1>1
  <2>3. Gains
    BY <2>1, <2>2, ChildGains
  <2>4. DOMAIN commits' = 1..(Len(commits) + 1)
    BY <2>1, <2>2, ChildGains
  <2>5. provenance'[Len(commits) + 1] = names
    BY <2>1, <2>2, ChildLands
  <2> QED BY <2>3, <2>4, <2>5
<1>6. PICK u \in Branches : u = Upstream
  BY SettingTyped DEF Invariant
<1>7. ASSUME NEW n \in DOMAIN commits', n \notin DOMAIN commits
      PROVE  provenance'[n] = names
  <2>1. \E i \in 1..1 : n = Len(commits) + i
    BY <1>5, <1>7, NewOnes DEF Invariant
  <2> QED BY <1>5, <2>1
<1>8. Keeps(u)
  BY <1>2, <1>3, <1>4, <1>5, <1>7 DEF Keeps, Names
<1> QED BY <1>2, <1>6, <1>8, ContentKept

(* All three ways of writing one.                                          *)
LEMMA WorkContent ==
  ASSUME ContentInv, Work
  PROVE  ContentInv'
<1>1. ASSUME NEW b \in Used
      PROVE  b \in Branches /\ Tree(head[b]) \subseteq Changes
  <2>1. b \in Branches
    BY SettingTyped DEF Used, ContentInv, Invariant
  <2> QED BY <2>1, SettingTyped, CommitTyped DEF ContentInv, Invariant
<1>2. retracted \subseteq Changes
  BY DEF ContentInv, Invariant, TypeOK
<1>3. ASSUME NEW b \in Used, NEW x \in Changes, Land(b, x)
      PROVE  ContentInv'
  <2>1. Tree(head[b]) \cup {x} \in SUBSET Changes
    BY <1>1
  <2>2. PICK tree \in SUBSET Changes : tree = Tree(head[b]) \cup {x}
    BY <2>1
  <2>3. /\ Write(b, tree, {}) /\ retracted' \subseteq Changes /\ retracted \subseteq retracted'
        /\ Tree(head[b]) \ tree \subseteq retracted'
    BY <1>2, <1>3, <2>2 DEF Land
  <2> QED BY <2>3, WriteContent
<1>4. ASSUME NEW b \in Used, NEW x \in Changes, Revert(b, x)
      PROVE  ContentInv'
  <2>1. Tree(head[b]) \ {x} \in SUBSET Changes
    BY <1>1
  <2> QED BY <1>2, <1>4, <2>1, WriteContent DEF Revert
<1>5. ASSUME NEW b \in Used, NEW n \in UNION {Reach(head[c]) : c \in Used}, PickByHand(b, n)
      PROVE  ContentInv'
  <2>1. PICK c \in Used : n \in Reach(head[c])
    OBVIOUS
  <2>2. n \in DOMAIN commits
    BY <1>1, <2>1, SettingTyped, ReachTyped DEF ContentInv, Invariant
  <2>3. Tree(head[b]) \cup Diff(n).added \in SUBSET Changes /\ provenance[n] \in SUBSET Nat
    BY <1>1, <2>2, CommitTyped DEF ContentInv, Invariant, Diff
  <2> QED BY <1>2, <1>5, <2>2, <2>3, WriteContent DEF PickByHand
<1> QED BY <1>3, <1>4, <1>5 DEF Work

(* Nothing new, and what is open may be gone.                              *)
LEMMA StillContent ==
  ASSUME ContentInv, Invariant', UNCHANGED <<setting, objects, head, open, latest, retracted>>,
         \A s \in Sources : request'[s] \in {request[s], None}
  PROVE  ContentInv'
<1> USE DEF ContentInv
<1>1. Grown
  BY StillGrown DEF Invariant
<1>2. UNCHANGED <<commits, provenance>>
  BY DEF objects
<1>3. HistoryInv'
  BY <1>2 DEF HistoryInv, WellGrown, Parents, Tree, Reach, IsMerge
<1>4. Gains
  BY <1>2, <1>3 DEF Gains, Tree
<1>5. PICK u \in Branches : u = Upstream
  BY SettingTyped DEF Invariant
<1>6. Keeps(u)
  BY <1>1, <1>2, <1>4 DEF Keeps
<1> QED BY <1>5, <1>6, ContentKept

(* A merge of a promotion brings what the source holds, and names nothing  *)
(* that was not named before.                                              *)
Brings(b, from) ==
  /\ Gains
  /\ Tree(from) \ Tree(head[b])' \subseteq retracted'
  /\ \A n \in DOMAIN commits' : n \notin DOMAIN commits =>
       \A m \in provenance'[n] : \E k \in DOMAIN commits : m \in provenance[k]

(* A merge commit, a squash and a rebase of a promotion.                   *)
LEMMA MergeBrings ==
  ASSUME Invariant, HistoryInv, retracted' = retracted, NEW b \in Branches, NEW from \in DOMAIN commits,
         Lands(b, <<MergeOf(head[b], from, MergedTree(head[b], from))>>, <<{}>>)
  PROVE  Brings(b, from)
<1>1. TypeOK /\ GraphInv /\ HistoryInv /\ head[b] \in DOMAIN commits /\ retracted \subseteq retracted'
  BY SettingTyped DEF Invariant
<1>2. PICK tree \in SUBSET Changes : tree = MergedTree(head[b], from)
  BY <1>1, TreesTyped
<1>3. PICK names \in SUBSET Nat : names = {}
  OBVIOUS
<1>4. Lands(b, <<MergeOf(head[b], from, tree)>>, <<names>>)
  BY <1>2, <1>3
<1>5. /\ (Tree(head[b]) \cup Tree(from)) \ tree \subseteq retracted
      /\ tree \ (Tree(head[b]) \cup Tree(from)) \subseteq retracted
  BY <1>1, <1>2, MergedLaw
<1>6. /\ Gains /\ Tree(head[b])' = tree
      /\ DOMAIN commits' = 1..(Len(commits) + 1) /\ provenance'[Len(commits) + 1] = names
  BY <1>1, <1>4, <1>5, MergeGains, Zenon
<1>7. Tree(from) \ Tree(head[b])' \subseteq retracted'
  BY <1>5, <1>6
<1>8. ASSUME NEW n \in DOMAIN commits', n \notin DOMAIN commits
      PROVE  provenance'[n] = {}
  <2>1. \E i \in 1..1 : n = Len(commits) + i
    BY <1>1, <1>6, <1>8, NewOnes
  <2> QED BY <1>3, <1>6, <2>1
<1> QED BY <1>6, <1>7, <1>8 DEF Brings

(* The squash has the tree of the merge, and names what its range does, or *)
(* nothing.                                                                *)
LEMMA SquashBrings ==
  ASSUME Invariant, HistoryInv, retracted' = retracted, NEW b \in Branches, NEW from \in DOMAIN commits,
         NEW range \in SUBSET DOMAIN commits,
         NEW names \in {UNION {provenance[n] : n \in range}, {}},
         Lands(b, <<Child(head[b], MergedTree(head[b], from))>>, <<names>>)
  PROVE  Brings(b, from)
<1>1. TypeOK /\ GraphInv /\ HistoryInv /\ head[b] \in DOMAIN commits /\ retracted \subseteq retracted'
  BY SettingTyped DEF Invariant
<1>2. PICK tree \in SUBSET Changes : tree = MergedTree(head[b], from)
  BY <1>1, TreesTyped
<1>3. /\ names \in SUBSET Nat
      /\ \A m \in names : \E k \in DOMAIN commits : m \in provenance[k]
  <2>1. \A n \in range : provenance[n] \subseteq Nat
    BY <1>1, CommitTyped
  <2> QED BY <2>1
<1>4. Lands(b, <<Child(head[b], tree)>>, <<names>>)
  BY <1>2
<1>5. (Tree(head[b]) \cup Tree(from)) \ tree \subseteq retracted
  BY <1>1, <1>2, MergedLaw
<1>6. /\ Gains /\ Tree(head[b])' = tree
      /\ DOMAIN commits' = 1..(Len(commits) + 1) /\ provenance'[Len(commits) + 1] = names
  <2>1. Tree(head[b]) \ tree \subseteq retracted'
    BY <1>1, <1>5
  <2> QED BY <1>1, <1>3, <1>4, <2>1, ChildGains, Zenon
<1>7. Tree(from) \ Tree(head[b])' \subseteq retracted'
  BY <1>5, <1>6
<1>8. ASSUME NEW n \in DOMAIN commits', n \notin DOMAIN commits
      PROVE  provenance'[n] = names
  <2>1. \E i \in 1..1 : n = Len(commits) + i
    BY <1>1, <1>6, <1>8, NewOnes
  <2> QED BY <1>6, <2>1
<1> QED BY <1>3, <1>6, <1>7, <1>8 DEF Brings

(* The rebase replays the range, and what is not in it is there already.   *)
LEMMA RebaseBrings ==
  ASSUME Invariant, HistoryInv, retracted' = retracted, NEW b \in Branches, NEW from \in DOMAIN commits,
         NEW range, range = UniqueCommits(head[b], from), Kept(head[b], range) # {},
         NEW replay \in Replays(head[b], range),
         Lands(b, Chain(head[b], replay), [i \in DOMAIN replay |-> provenance[replay[i]]])
  PROVE  Brings(b, from)
<1>1. TypeOK /\ GraphInv /\ HistoryInv /\ head[b] \in DOMAIN commits /\ retracted \subseteq retracted'
  BY SettingTyped DEF Invariant
<1>2. range \in SUBSET DOMAIN commits /\ 1 \notin range
  BY <1>1, ReachTyped, RootReached DEF UniqueCommits
<1>3. replay \in Seq(DOMAIN commits) /\ DOMAIN replay = 1..Len(replay)
  BY <1>1, <1>2, ReplayListed
<1>4. PICK names : names = [i \in 1..Len(replay) |-> provenance[replay[i]]]
  OBVIOUS
<1>5. Lands(b, Chain(head[b], replay), names)
  BY <1>3, <1>4
<1>6. \A i \in 1..Len(replay) : /\ replay[i] \in DOMAIN commits
                                 /\ names[i] = provenance[replay[i]] /\ names[i] \in SUBSET Nat
  <2> TAKE i \in 1..Len(replay)
  <2>1. replay[i] \in DOMAIN commits
    BY <1>3
  <2>2. provenance[replay[i]] \subseteq Nat
    BY <1>1, <2>1, CommitTyped
  <2> QED BY <1>4, <2>1, <2>2
<1>7. names = [i \in 1..Len(replay) |-> names[i]]
  BY <1>4
<1>8. /\ Gains /\ Tree(head[b])' = TreeAfter(head[b], Kept(head[b], range))
      /\ DOMAIN commits' = 1..(Len(commits) + Len(replay)) /\ Len(replay) \in Nat
      /\ \A i \in 1..Len(replay) : provenance'[Len(commits) + i] = names[i]
  <2>1. \A i \in 1..Len(replay) : names[i] \in SUBSET Nat
    BY <1>6
  <2>2. Replayed(b, range, replay, names)
    BY <1>1, <1>2, <1>5, <1>7, <2>1, ReplayGains
  <2> QED BY <2>2 DEF Replayed
<1>9. Tree(from) \ Tree(head[b])' \subseteq retracted'
  <2> SUFFICES ASSUME NEW x \in Tree(from), x \notin retracted
               PROVE  x \in TreeAfter(head[b], Kept(head[b], range))
    BY <1>8
  <2>1. x \in Changes
    BY <1>1, CommitTyped
  <2>2. PICK m \in Reach(from) : Adds(m, x)
    BY <1>1, BroughtIn
  <2>3. m \in DOMAIN commits /\ x \in Diff(m).added
    BY <1>1, <2>2, ReachTyped DEF Adds
  <2>4. x \in TreeAfter(head[b], range)
    <3>1. CASE m \in range
      BY <1>1, <1>2, <2>1, <2>3, <3>1, AfterLaw
    <3>2. CASE m \notin range
      <4>1. m \in Reach(head[b]) /\ x \in Tree(m)
        BY <2>2, <2>3, <3>2, AddedHeld DEF UniqueCommits
      <4>2. x \in Tree(head[b])
        BY <1>1, <4>1, Inherited
      <4> QED BY <1>1, <1>2, <2>1, <4>2, AfterLaw
    <3> QED BY <3>1, <3>2
  <2> QED BY <1>1, <1>2, <2>1, <2>4, KeptLaw
<1>10. ASSUME NEW n \in DOMAIN commits', n \notin DOMAIN commits
       PROVE  \A m \in provenance'[n] : \E k \in DOMAIN commits : m \in provenance[k]
  <2>1. PICK i \in 1..Len(replay) : n = Len(commits) + i
    BY <1>1, <1>8, <1>10, NewOnes
  <2>2. provenance'[n] = names[i]
    BY <1>8, <2>1
  <2>3. PICK k \in DOMAIN commits : k = replay[i]
    BY <1>6, <2>1
  <2>4. names[i] = provenance[k]
    BY <1>6, <2>1, <2>3
  <2> QED BY <2>2, <2>4
<1> QED BY <1>8, <1>9, <1>10 DEF Brings

(* So the record of a merged request names what is on the target.          *)
LEMMA MergePromotionContent ==
  ASSUME ContentInv, NEW e \in Edges, NEW method \in setting.methods, MergePromotion(e, method)
  PROVE  ContentInv'
<1> USE DEF ContentInv
<1> DEFINE from == head[e[1]]
           to == head[e[2]]
           range == UniqueCommits(to, from)
<1>1. /\ from \in DOMAIN commits /\ to \in DOMAIN commits
      /\ e[2] \in Branches /\ e[1] \in Branches /\ TypeOK /\ GraphInv
  BY SettingTyped DEF Invariant
<1>2. /\ open' = [open EXCEPT ![e] = None] /\ latest' = [latest EXCEPT ![e] = open[e]]
      /\ UNCHANGED <<setting, request, retracted, work>> /\ open[e] # None
  BY DEF MergePromotion, history
<1>3. Brings(e[2], from)
  <2>1. CASE Lands(e[2], <<MergeOf(to, from, MergedTree(to, from))>>, <<{}>>)
    BY <1>1, <1>2, <2>1, MergeBrings
  <2>2. ASSUME NEW names \in {UNION {provenance[n] : n \in range}, {}},
               Lands(e[2], <<Child(to, MergedTree(to, from))>>, <<names>>)
        PROVE  Brings(e[2], from)
    <3>1. range \in SUBSET DOMAIN commits
      BY <1>1, ReachTyped DEF UniqueCommits
    <3> QED BY <1>1, <1>2, <2>2, <3>1, SquashBrings
  <2>3. CASE /\ Kept(to, range) # {}
             /\ \E replay \in Replays(to, range) :
                  Lands(e[2], Chain(to, replay), [i \in DOMAIN replay |-> provenance[replay[i]]])
    BY <1>1, <1>2, <2>3, RebaseBrings
  <2> QED BY <2>1, <2>2, <2>3 DEF MergePromotion
<1>4. Invariant' /\ Grown
  BY MergePromotionKeeps, MergePromotionGrows
<1>5. Gains
  BY <1>3 DEF Brings
<1>6. HistoryInv'
  BY <1>5 DEF Gains
<1>7. PICK u \in Branches : u = Upstream
  BY <1>1, SettingTyped
<1>8. NamesInv'
  <2>1. \A n \in DOMAIN commits' : n \notin DOMAIN commits =>
          \A m \in provenance'[n] : \E k \in DOMAIN commits : m \in provenance[k]
    BY <1>3 DEF Brings
  <2>2. \A n \in DOMAIN commits' : n \notin DOMAIN commits => \A m \in provenance'[n] : Names(m, u)
    BY <2>1 DEF Names
  <2> QED BY <1>2, <1>4, <1>5, <1>7, <2>2, NamesKept
<1>9. BaseInv'
  BY <1>2, <1>4, BaseKept
<1>10. RecordInv'
  <2>1. open \in [Edges -> Nat \cup {None}] /\ latest \in [Edges -> Nat \cup {None}]
    BY <1>1 DEF TypeOK
  <2>2. \A d \in Edges : open'[d] # None => open'[d] = open[d]
    BY <1>2, <2>1
  <2>3. open[e] \in Reach(from)
    BY <1>2 DEF RecordInv
  <2>4. open[e] \in DOMAIN commits /\ Tree(open[e]) \ Tree(from) \subseteq retracted
    BY <1>1, <2>3, ReachTyped, Inherited
  <2>5. Tree(open[e]) \ Tree(head[e[2]])' \subseteq retracted'
    BY <1>2, <1>3, <2>4 DEF Brings
  <2>6. \A d \in Edges : latest'[d] # None =>
           \/ latest'[d] = latest[d]
           \/ /\ latest'[d] \in DOMAIN commits
              /\ Tree(latest'[d]) \ Tree(head[d[2]])' \subseteq retracted'
    BY <1>2, <2>1, <2>4, <2>5
  <2> QED BY <1>2, <1>4, <1>5, <2>2, <2>6, RecordKept
<1> QED BY <1>4, <1>6, <1>8, <1>9, <1>10

(* Merging a backflow request gives back what its commits name.            *)
GivesBack(b) ==
  /\ Gains
  /\ \A n \in DOMAIN commits' : n \notin DOMAIN commits => \A m \in provenance'[n] : Names(m, b)

(* What the message of a pick names.                                       *)
LEMMA NamesOfPick ==
  ASSUME NEW b, NEW k \in DOMAIN commits, k # 1, Diff(k).added \ Tree(head[b])' \subseteq retracted'
  PROVE  \A m \in NamedBy(k) : Names(m, b)
BY DEF NamedBy, Names

(* Merged with the upstream, a replay still brings what its picks add.     *)
LEMMA PicksMerged ==
  ASSUME TypeOK, GraphInv, HistoryInv, NEW to \in DOMAIN commits, NEW base \in Reach(to),
         NEW picks \in SUBSET DOMAIN commits, 1 \notin picks, NEW k \in picks
  PROVE  /\ Tree(to) \ ThreeWay(Tree(base), Tree(to), TreeAfter(base, picks)) \subseteq retracted
         /\ Diff(k).added \ ThreeWay(Tree(base), Tree(to), TreeAfter(base, picks)) \subseteq retracted
<1> DEFINE picked == TreeAfter(base, picks)
<1>1. base \in DOMAIN commits
  BY ReachTyped
<1>2. Tree(base) \ Tree(to) \subseteq retracted
  BY Inherited
<1>3. ASSUME NEW x \in Changes, x \notin retracted, x \in Tree(base) \/ x \in Diff(k).added
      PROVE  x \in picked
  BY <1>3, AfterLaw
<1>4. Tree(base) \subseteq Changes /\ Diff(k).added \subseteq Changes
  BY <1>1, CommitTyped DEF Diff
<1>5. Tree(base) \ picked \subseteq retracted /\ Diff(k).added \ picked \subseteq retracted
  BY <1>3, <1>4
<1>6. (Tree(to) \cup picked) \ ThreeWay(Tree(base), Tree(to), picked) \subseteq retracted
  BY <1>2, <1>5, MergeLaw
<1> QED BY <1>5, <1>6

(* A merge of the source, with strategy: merge.                            *)
LEMMA BackGives ==
  ASSUME Invariant, HistoryInv, retracted' = retracted, NEW b \in Branches, b = Upstream,
         NEW base \in Reach(head[b]), NEW name \in DOMAIN commits,
         NEW back, back = MergeOf(base, name, MergedTree(base, name)),
         Lands(b, MergeInto(<<back>>, ThreeWay(Tree(base), Tree(head[b]), back.tree)), <<{}, {}>>)
  PROVE  GivesBack(b)
<1>1. TypeOK /\ GraphInv /\ HistoryInv /\ retracted \subseteq retracted'
  BY DEF Invariant
<1>2. /\ Gains /\ DOMAIN commits' = 1..(Len(commits) + 2)
      /\ \A i \in {1, 2} : provenance'[Len(commits) + i] = {}
  BY <1>1, BackGains, Zenon
<1>3. ASSUME NEW n \in DOMAIN commits', n \notin DOMAIN commits
      PROVE  provenance'[n] = {}
  <2>1. \E i \in 1..2 : n = Len(commits) + i
    BY <1>1, <1>2, <1>3, NewOnes
  <2> QED BY <1>2, <2>1
<1> QED BY <1>2, <1>3 DEF GivesBack

(* A merged, a squashed and a rebased replay.                              *)
LEMMA BranchGives ==
  ASSUME Invariant, HistoryInv, retracted' = retracted, NEW b \in Branches, b = Upstream,
         NEW base \in Reach(head[b]), NEW picks \in SUBSET DOMAIN commits, 1 \notin picks,
         Kept(base, picks) # {}, NEW replay \in Replays(base, picks),
         Lands(b, MergeInto(Chain(base, replay), ThreeWay(Tree(base), Tree(head[b]), TreeAfter(base, picks))),
               Append([i \in DOMAIN replay |-> NamedBy(replay[i])], {}))
  PROVE  GivesBack(b)
<1>1. TypeOK /\ GraphInv /\ HistoryInv /\ head[b] \in DOMAIN commits /\ retracted \subseteq retracted'
  BY SettingTyped DEF Invariant
<1>2. /\ Gains
      /\ Tree(head[b])' = ThreeWay(Tree(base), Tree(head[b]), TreeAfter(base, picks))
      /\ DOMAIN commits' = 1..(Len(commits) + Len(replay) + 1) /\ Len(replay) \in Nat
      /\ \A i \in 1..Len(replay) : provenance'[Len(commits) + i] = NamedBy(replay[i])
      /\ provenance'[Len(commits) + Len(replay) + 1] = {}
  BY <1>1, BranchGains, Zenon
<1>3. replay \in Seq(DOMAIN commits) /\ \A i \in 1..Len(replay) : replay[i] \in picks
  <2>1. replay \in [1..Cardinality(Kept(base, picks)) -> Kept(base, picks)]
    BY DEF Replays
  <2>2. replay \in Seq(DOMAIN commits)
    BY <1>1, ReplayListed
  <2>3. DOMAIN replay = 1..Len(replay)
    BY <2>2
  <2> QED BY <2>1, <2>2, <2>3, KeptPicked
<1>4. ASSUME NEW i \in 1..Len(replay)
      PROVE  \A m \in NamedBy(replay[i]) : Names(m, b)
  <2>1. PICK k \in picks : k = replay[i]
    BY <1>3
  <2>2. Diff(k).added \ Tree(head[b])' \subseteq retracted'
    BY <1>1, <1>2, PicksMerged
  <2> QED BY <2>1, <2>2, NamesOfPick
<1>5. ASSUME NEW n \in DOMAIN commits', n \notin DOMAIN commits
      PROVE  \A m \in provenance'[n] : Names(m, b)
  <2>1. PICK len \in Nat : len = Len(commits)
    BY <1>1 DEF TypeOK
  <2>2. PICK size \in Nat : size = Len(replay)
    BY <1>2
  <2>3. DOMAIN commits = 1..len /\ n \in 1..(len + size + 1)
    BY <1>1, <1>2, <2>1, <2>2 DEF TypeOK
  <2>4. n - len \in 1..size \/ n = len + size + 1
    BY <1>5, <2>3
  <2>5. CASE n - len \in 1..size
    <3>1. PICK i \in 1..size : n = len + i
      <4>1. n - len \in 1..size /\ n = len + (n - len)
        BY <2>3, <2>5
      <4> QED BY <4>1
    <3>2. i \in 1..Len(replay) /\ n = Len(commits) + i
      BY <2>1, <2>2, <3>1
    <3>3. provenance'[n] = NamedBy(replay[i])
      BY <1>2, <3>2
    <3> QED BY <1>4, <3>2, <3>3
  <2>6. CASE n = len + size + 1
    BY <1>2, <2>1, <2>2, <2>6
  <2> QED BY <2>4, <2>5, <2>6
<1> QED BY <1>2, <1>5 DEF GivesBack

(* The squash has the tree of that merge, and names what it keeps, or      *)
(* nothing.                                                                *)
LEMMA SquashGives ==
  ASSUME Invariant, HistoryInv, retracted' = retracted, NEW b \in Branches, b = Upstream,
         NEW base \in Reach(head[b]), NEW picks \in SUBSET DOMAIN commits, 1 \notin picks,
         Kept(base, picks) # {}, NEW named \in BOOLEAN,
         Lands(b, <<Child(head[b], ThreeWay(Tree(base), Tree(head[b]), TreeAfter(base, picks)))>>,
               <<IF named THEN UNION {NamedBy(n) : n \in Kept(base, picks)} ELSE {}>>)
  PROVE  GivesBack(b)
<1>1. TypeOK /\ GraphInv /\ HistoryInv /\ head[b] \in DOMAIN commits /\ retracted \subseteq retracted'
  BY SettingTyped DEF Invariant
<1>2. PICK tree \in SUBSET Changes : tree = ThreeWay(Tree(base), Tree(head[b]), TreeAfter(base, picks))
  <2>1. base \in DOMAIN commits
    BY <1>1, ReachTyped
  <2>2. TreeAfter(base, picks) \subseteq Changes
    BY DEF TreeAfter
  <2> QED BY <1>1, <2>1, <2>2, CommitTyped DEF ThreeWay
<1>3. PICK names \in SUBSET Nat :
        names = IF named THEN UNION {NamedBy(n) : n \in Kept(base, picks)} ELSE {}
  <2>1. \A n \in Kept(base, picks) : NamedBy(n) \subseteq Nat
    BY <1>1, KeptPicked, NamedTyped
  <2> QED BY <2>1
<1>4. Lands(b, <<Child(head[b], tree)>>, <<names>>)
  BY <1>2, <1>3
<1>5. /\ Tree(head[b]) \ tree \subseteq retracted'
      /\ \A k \in picks : Diff(k).added \ tree \subseteq retracted'
  <2>1. \A k \in picks : /\ Tree(head[b]) \ tree \subseteq retracted
                         /\ Diff(k).added \ tree \subseteq retracted
    BY <1>1, <1>2, PicksMerged
  <2>2. PICK k \in picks : TRUE
    BY KeptPicked
  <2> QED BY <2>1, <2>2
<1>6. /\ Gains /\ Tree(head[b])' = tree
      /\ DOMAIN commits' = 1..(Len(commits) + 1) /\ provenance'[Len(commits) + 1] = names
  BY <1>1, <1>4, <1>5, ChildGains, Zenon
<1>7. \A m \in names : Names(m, b)
  <2> TAKE m \in names
  <2>1. PICK k \in picks : m \in NamedBy(k)
    BY <1>3, KeptPicked
  <2>2. k \in DOMAIN commits /\ k # 1 /\ Diff(k).added \ Tree(head[b])' \subseteq retracted'
    BY <1>5, <1>6
  <2> QED BY <2>1, <2>2, NamesOfPick
<1>8. ASSUME NEW n \in DOMAIN commits', n \notin DOMAIN commits
      PROVE  provenance'[n] = names
  <2>1. \E i \in 1..1 : n = Len(commits) + i
    BY <1>1, <1>6, <1>8, NewOnes
  <2> QED BY <1>6, <2>1
<1> QED BY <1>6, <1>7, <1>8 DEF GivesBack

(* The rebase is a replay of the same picks on the head.                   *)
LEMMA ReplayGives ==
  ASSUME Invariant, HistoryInv, retracted' = retracted, NEW b \in Branches, b = Upstream,
         NEW picks \in SUBSET DOMAIN commits, 1 \notin picks,
         Kept(head[b], picks) # {}, NEW replay \in Replays(head[b], picks),
         Lands(b, Chain(head[b], replay), [i \in DOMAIN replay |-> NamedBy(replay[i])])
  PROVE  GivesBack(b)
<1>1. TypeOK /\ GraphInv /\ HistoryInv /\ head[b] \in DOMAIN commits /\ retracted \subseteq retracted'
  BY SettingTyped DEF Invariant
<1>2. /\ replay \in Seq(DOMAIN commits) /\ DOMAIN replay = 1..Len(replay)
      /\ \A i \in 1..Len(replay) : replay[i] \in Kept(head[b], picks) /\ replay[i] \in picks
  <2>1. replay \in [1..Cardinality(Kept(head[b], picks)) -> Kept(head[b], picks)]
    BY DEF Replays
  <2>2. replay \in Seq(DOMAIN commits)
    BY <1>1, ReplayListed
  <2>3. DOMAIN replay = 1..Len(replay)
    BY <2>2
  <2> QED BY <2>1, <2>2, <2>3, KeptPicked
<1>3. PICK names : names = [i \in 1..Len(replay) |-> NamedBy(replay[i])]
  OBVIOUS
<1>4. Lands(b, Chain(head[b], replay), names)
  BY <1>2, <1>3
<1>5. \A i \in 1..Len(replay) : names[i] = NamedBy(replay[i]) /\ names[i] \in SUBSET Nat
  <2> TAKE i \in 1..Len(replay)
  <2>1. replay[i] \in DOMAIN commits
    BY <1>2
  <2>2. NamedBy(replay[i]) \subseteq Nat
    BY <1>1, <2>1, NamedTyped
  <2> QED BY <1>3, <2>2
<1>6. names = [i \in 1..Len(replay) |-> names[i]]
  BY <1>3
<1>7. /\ Gains /\ Tree(head[b])' = TreeAfter(head[b], Kept(head[b], picks))
      /\ DOMAIN commits' = 1..(Len(commits) + Len(replay)) /\ Len(replay) \in Nat
      /\ \A i \in 1..Len(replay) : provenance'[Len(commits) + i] = names[i]
  <2>1. \A i \in 1..Len(replay) : names[i] \in SUBSET Nat
    BY <1>5
  <2>2. Replayed(b, picks, replay, names)
    BY <1>1, <1>4, <1>6, <2>1, ReplayGains
  <2> QED BY <2>2 DEF Replayed
<1>8. ASSUME NEW i \in 1..Len(replay)
      PROVE  \A m \in NamedBy(replay[i]) : Names(m, b)
  <2>1. PICK k \in Kept(head[b], picks) : k = replay[i] /\ k \in picks
    BY <1>2
  <2>2. Diff(k).added \ Tree(head[b])' \subseteq retracted'
    <3> SUFFICES ASSUME NEW x \in Diff(k).added, x \notin retracted
                 PROVE  x \in TreeAfter(head[b], Kept(head[b], picks))
      BY <1>7
    <3>1. x \in Changes
      BY <1>1, <2>1, CommitTyped DEF Diff
    <3>2. Kept(head[b], picks) \in SUBSET DOMAIN commits /\ 1 \notin Kept(head[b], picks)
      BY KeptPicked
    <3> QED BY <1>1, <2>1, <3>1, <3>2, AfterLaw
  <2> QED BY <2>1, <2>2, NamesOfPick
<1>9. ASSUME NEW n \in DOMAIN commits', n \notin DOMAIN commits
      PROVE  \A m \in provenance'[n] : Names(m, b)
  <2>1. PICK i \in 1..Len(replay) : n = Len(commits) + i
    BY <1>1, <1>7, <1>9, NewOnes
  <2> QED BY <1>7, <1>8, <1>5, <2>1
<1> QED BY <1>7, <1>9 DEF GivesBack

(* A merged return, in each of the four ways.                              *)
LEMMA MergeReturnContent ==
  ASSUME ContentInv, NEW s \in Sources, NEW method \in setting.returnMethods,
         NEW named \in BOOLEAN, MergeReturn(s, method, named)
  PROVE  ContentInv'
<1> USE DEF ContentInv
<1> DEFINE q == request[s]
<1>1. /\ UNCHANGED <<setting, open, latest, retracted, work>>
      /\ request' = [request EXCEPT ![s] = None]
      /\ q # None /\ Carried(q, method) # {}
  BY DEF MergeReturn
<1>2. PICK b \in Branches : b = Upstream
  BY SettingTyped DEF Invariant
<1>3. /\ q.base \in Reach(head[b]) /\ q.name \in DOMAIN commits /\ q.picks \in SUBSET DOMAIN commits
      /\ ~Merging => 1 \notin q.picks
  <2>1. /\ q.base \in Reach(head[b]) /\ q.name \in DOMAIN commits /\ q.picks \in SUBSET DOMAIN commits
        /\ ~Merging => \A n \in q.picks : HasPatch(n)
    BY <1>1, <1>2 DEF BaseInv, Invariant, RequestInv
  <2> QED BY <2>1, PatchNotRoot
<1> HIDE DEF q
<1>4. GivesBack(b)
  <2> DEFINE picked == TreeAfter(q.base, q.picks)
             back == MergeOf(q.base, q.name, MergedTree(q.base, q.name))
             merged == ThreeWay(Tree(q.base), Tree(head[b]), picked)
  <2>1. CASE Lands(b, MergeInto(<<back>>, ThreeWay(Tree(q.base), Tree(head[b]), back.tree)),
                   <<{}, {}>>)
    BY <1>1, <1>2, <1>3, <2>1, BackGives
  <2>2. CASE /\ ~Merging /\ method = "merge"
             /\ \E branch \in ReplayBranch(q) :
                  Lands(b, MergeInto(branch[1], merged), Append(branch[2], {}))
    <3>0. PICK branch \in ReplayBranch(q) :
            Lands(b, MergeInto(branch[1], merged), Append(branch[2], {}))
      BY <2>2
    <3>1. PICK replay \in Replays(q.base, q.picks) :
            Lands(b, MergeInto(Chain(q.base, replay), merged),
                  Append([i \in DOMAIN replay |-> NamedBy(replay[i])], {}))
      <4> HIDE DEF merged
      <4> QED BY <3>0, BranchReplayed
    <3>2. Kept(q.base, q.picks) # {}
      BY <1>1, <2>2 DEF Carried
    <3> QED BY <1>1, <1>2, <1>3, <2>2, <3>1, <3>2, BranchGives
  <2>3. CASE /\ ~Merging /\ method = "squash"
             /\ Lands(b, <<Child(head[b], merged)>>,
                      <<IF named THEN UNION {NamedBy(n) : n \in Kept(q.base, q.picks)} ELSE {}>>)
    <3>1. Kept(q.base, q.picks) # {}
      BY <1>1, <2>3 DEF Carried
    <3> QED BY <1>1, <1>2, <1>3, <2>3, <3>1, SquashGives
  <2>4. CASE /\ ~Merging /\ method = "rebase"
             /\ \E branch \in ReplayBranch([q EXCEPT !.base = head[b]]) :
                  Lands(b, branch[1], branch[2])
    <3>1. Kept(head[b], q.picks) # {}
      BY <1>1, <1>2, <2>4 DEF Carried
    <3>2. q \in Request
      BY <1>1 DEF Invariant, TypeOK, q
    <3>3. [q EXCEPT !.base = head[b]].base = head[b] /\ [q EXCEPT !.base = head[b]].picks = q.picks
      BY <3>2 DEF Request
    <3>4. PICK replay \in Replays(head[b], q.picks) :
            Lands(b, Chain(head[b], replay), [i \in DOMAIN replay |-> NamedBy(replay[i])])
      <4> DEFINE moved == [q EXCEPT !.base = head[b]]
      <4>1. PICK branch \in ReplayBranch(moved) : Lands(b, branch[1], branch[2])
        BY <2>4
      <4>2. moved.base = head[b] /\ moved.picks = q.picks
        BY <3>3
      <4> HIDE DEF moved
      <4> QED BY <4>1, <4>2, BranchReplayed
    <3> QED BY <1>1, <1>2, <1>3, <2>4, <3>1, <3>4, ReplayGives
  <2> HIDE DEF picked, back, merged
  <2>5. \/ Lands(b, MergeInto(<<back>>, ThreeWay(Tree(q.base), Tree(head[b]), back.tree)),
                   <<{}, {}>>)
        \/ /\ ~Merging /\ method = "merge"
           /\ \E branch \in ReplayBranch(q) :
                Lands(b, MergeInto(branch[1], merged), Append(branch[2], {}))
        \/ /\ ~Merging /\ method = "squash"
           /\ Lands(b, <<Child(head[b], merged)>>,
                    <<IF named THEN UNION {NamedBy(n) : n \in Kept(q.base, q.picks)} ELSE {}>>)
        \/ /\ ~Merging /\ method = "rebase"
           /\ \E branch \in ReplayBranch([q EXCEPT !.base = head[b]]) :
                Lands(b, branch[1], branch[2])
    BY <1>2 DEF MergeReturn, q, picked, back, merged
  <2> QED BY <2>1, <2>2, <2>3, <2>4, <2>5
<1>5. Invariant' /\ Grown
  BY MergeReturnKeeps, MergeReturnGrows
<1>6. \A t \in Sources : request'[t] \in {request[t], None}
  <2>1. request \in [Sources -> Request \cup {None}]
    BY DEF Invariant, TypeOK
  <2> QED BY <1>1, <2>1
<1>7. Keeps(b)
  BY <1>1, <1>4, <1>5, <1>6 DEF Keeps, GivesBack
<1> QED BY <1>1, <1>2, <1>7, ContentKept

(* Every step keeps the invariant.                                         *)
LEMMA StepContent == ContentInv /\ [Next]_vars => ContentInv'
<1> SUFFICES ASSUME ContentInv, [Next]_vars PROVE ContentInv'
  OBVIOUS
<1>1. CASE Run
  BY <1>1, RunContent
<1>2. CASE Merge
  <2>1. CASE \E e \in Edges, m \in setting.methods : MergePromotion(e, m)
    BY <2>1, MergePromotionContent
  <2>2. CASE \E s \in Sources, m \in setting.returnMethods, named \in BOOLEAN :
               MergeReturn(s, m, named)
    BY <2>2, MergeReturnContent
  <2>3. ASSUME NEW s \in Sources, CloseReturn(s)
        PROVE  ContentInv'
    <3>1. /\ UNCHANGED <<setting, objects, head, open, latest, retracted>>
          /\ request' = [request EXCEPT ![s] = None]
      BY <2>3 DEF CloseReturn, history
    <3>2. Invariant' /\ request \in [Sources -> Request \cup {None}]
      BY <2>3, CloseReturnKeeps DEF ContentInv, Invariant, TypeOK
    <3>3. \A t \in Sources : request'[t] \in {request[t], None}
      BY <3>1, <3>2
    <3> QED BY <3>1, <3>2, <3>3, StillContent
  <2> QED BY <1>2, <2>1, <2>2, <2>3 DEF Merge
<1>3. CASE Work
  BY <1>3, WorkContent
<1>4. CASE UNCHANGED vars
  <2>1. UNCHANGED <<setting, objects, head, open, latest, retracted, request>>
    BY <1>4 DEF vars, forge, history
  <2>2. Invariant'
    BY <1>4, StutterKeeps DEF ContentInv
  <2> QED BY <2>1, <2>2, StillContent
<1> QED BY <1>1, <1>2, <1>3, <1>4 DEF Next

(* ContentInv is an invariant: what a branch holds was brought in by a     *)
(* commit it reaches and is gone only where somebody took it out, and the  *)
(* records of requests and the names in messages tell of what the target   *)
(* and the upstream really hold.                                           *)
THEOREM ContentHolds == Spec => []ContentInv
<1>1. Init => ContentInv
  BY InitContent
<1>2. ContentInv /\ [Next]_vars => ContentInv'
  BY StepContent
<1> QED BY <1>1, <1>2, PTL DEF Spec

-----------------------------------------------------------------------------
(* No hotfix is overlooked, and what is quiet holds the same. *)

(* Some plan returns or reports a commit that brought the change in.       *)
Seen(x) ==
  \/ \E q \in Sources : \E n \in ToReturn(q) : Carries(n, x)
  \/ \E e \in Diverged : \E n \in Drifted(Clone(e)) : Carries(n, x)

(* Who adds a change carries it.                                           *)
LEMMA AddsCarries ==
  ASSUME NEW n, NEW x, Adds(n, x)
  PROVE  Carries(n, x) /\ x \in Tree(n)
<1>1. Len(commits[n].parents) = 1 /\ x \in Diff(n).added
  BY DEF Adds, HasPatch
<1>2. ~IsMerge(n)
  BY <1>1 DEF IsMerge
<1> QED BY <1>1, <1>2 DEF Carries, Diff

(* A branch does not hold what it lacks through a commit it reaches.       *)
LEMMA NotBelow ==
  ASSUME ContentInv, NEW c \in DOMAIN commits, NEW x, x \notin Tree(c), x \notin retracted
  PROVE  \A k \in Reach(c) : x \notin Tree(k) /\ x \notin Diff(k).added
<1> TAKE k \in Reach(c)
<1>1. Tree(k) \ Tree(c) \subseteq retracted
  BY Inherited DEF ContentInv, Invariant
<1> QED BY <1>1 DEF Diff

(* A change that an edge has at its target alone is seen, unless the       *)
(* upstream has it.                                                        *)
LEMMA SeenAtEdge ==
  ASSUME ContentInv, NEW e \in Edges, NEW x, x \in Tree(head[e[2]]), x \notin Tree(head[e[1]]),
         x \notin Tree(head[Upstream]), x \notin retracted
  PROVE  Seen(x)
<1> DEFINE s == e[2]
<1>1. /\ head[s] \in DOMAIN commits /\ head[e[1]] \in DOMAIN commits
      /\ head[Upstream] \in DOMAIN commits
  BY SettingTyped DEF ContentInv, Invariant
<1>2. PICK m \in Reach(head[s]) : Adds(m, x)
  BY <1>1, BroughtIn DEF ContentInv, Invariant
<1>3. Carries(m, x) /\ x \in Tree(m) /\ HasPatch(m) /\ x \in Diff(m).added
  BY <1>2, AddsCarries DEF Adds
<1>4. m \notin Reach(head[e[1]]) /\ m \notin Reach(head[Upstream])
  BY <1>1, <1>3, NotBelow
<1>5. CASE s \in Sources
  <2>1. m \in UniqueCommits(head[Upstream], head[s]) /\ m \in UniqueCommits(head[e[1]], head[s])
    BY <1>2, <1>4 DEF UniqueCommits
  <2>2. m \in EdgeToReturn(e)
    <3>1. CASE Merging
      BY <2>1, <3>1 DEF EdgeToReturn
    <3>2. CASE ~Merging
      <4> DEFINE range == ReturnedRange(Returnable(e))
      <4>1. range \subseteq Reach(head[Upstream]) /\ Reach(head[Upstream]) \subseteq DOMAIN commits
        BY <1>1, ReachTyped DEF ReturnedRange, ContentInv, Invariant
      <4>2. ASSUME NEW k \in range, m \in provenance[k]
            PROVE  FALSE
        BY <1>3, <4>1, <4>2 DEF ContentInv, NamesInv
      <4>3. ASSUME NEW k \in range, Diff(k) = Diff(m)
            PROVE  FALSE
        BY <1>1, <1>3, <4>1, <4>3, NotBelow
      <4>4. ~IsReturned(m, range)
        BY <4>2, <4>3 DEF IsReturned
      <4>5. m \in Returnable(e)
        BY <1>3, <2>1 DEF Returnable
      <4> QED BY <3>2, <4>4, <4>5 DEF EdgeToReturn
    <3> QED BY <3>1, <3>2
  <2>3. e \in Into(s)
    BY DEF Into
  <2>4. m \in ToReturn(s)
    BY <2>1, <2>2, <2>3 DEF ToReturn
  <2> QED BY <1>3, <1>5, <2>4 DEF Seen
<1>6. CASE s \notin Sources
  <2> DEFINE clone == Clone(e)
             patches == PatchIDs(MergeBase(clone.source, clone.target), clone.source)
  <2>1. clone.source = head[e[1]] /\ clone.target = head[s]
    BY DEF Clone
  <2>2. ASSUME Diff(m) \in patches
        PROVE  FALSE
    <3>1. PICK k \in Reach(head[e[1]]) : Diff(k) = Diff(m)
      BY <2>1, <2>2 DEF PatchIDs, UniqueCommits
    <3> QED BY <1>1, <1>3, <3>1, NotBelow
  <2>3. m \in UniqueCommits(clone.source, clone.target)
    BY <1>2, <1>4, <2>1 DEF UniqueCommits
  <2>4. m \in Drifted(clone)
    BY <1>3, <2>2, <2>3 DEF Drifted
  <2>5. e \in Diverged
    BY <1>6, <2>4 DEF Diverged
  <2> QED BY <1>3, <2>4, <2>5 DEF Seen
<1> QED BY <1>5, <1>6

(* So a branch that the upstream feeds holds what the upstream holds, or   *)
(* it is seen.                                                             *)
LEMMA SeenFromFed ==
  ASSUME ContentInv, NEW b \in Fed, NEW x \in Tree(head[b]), x \notin Tree(head[Upstream]),
         x \notin retracted
  PROVE  Seen(x)
<1> SUFFICES ASSUME ~Seen(x) PROVE FALSE
  OBVIOUS
<1> DEFINE B == {a \in Branches : x \in Tree(head[a])}
<1>1. b \in Branches /\ Leads(Upstream, b)
  BY SettingTyped DEF Fed, Used, ContentInv, Invariant
<1>2. \A e \in Edges : e[2] \in B => e[1] \in B
  <2> TAKE e \in Edges
  <2> HAVE e[2] \in B
  <2>1. e[1] \in Branches
    BY SettingTyped DEF ContentInv, Invariant
  <2> QED BY <2>1, SeenAtEdge
<1>3. b \in B /\ B \in SUBSET Branches
  BY <1>1
<1>4. Upstream \in B
  <2> HIDE DEF B
  <2> QED BY <1>1, <1>2, <1>3 DEF Leads
<1> QED BY <1>4

(* A hotfix on a fed source is one the upstream lacks.                     *)
LEMMA NoneOverlooked == ContentInv => NoHotfixOverlooked
<1> SUFFICES ASSUME ContentInv, NEW s \in Sources \cap Fed,
                    NEW x \in Tree(head[s]) \ (Tree(head[Upstream]) \cup retracted)
             PROVE  Seen(x)
  BY DEF NoHotfixOverlooked, Seen
<1> QED BY SeenFromFed

(* An edge with nothing to promote has at its target what the source has.  *)
LEMMA InSync ==
  ASSUME ContentInv, NEW e \in Edges, Behind(e) = {}, NEW x \in Tree(head[e[1]]), x \notin retracted
  PROVE  x \in Tree(head[e[2]])
<1> DEFINE s == head[e[1]]
           t == head[e[2]]
           clone == Clone(e)
           patches == PatchIDs(MergeBase(s, t), t)
<1>1. s \in DOMAIN commits /\ t \in DOMAIN commits /\ clone.source = s /\ clone.target = t
  BY SettingTyped DEF ContentInv, Invariant, Clone
<1> SUFFICES ASSUME x \notin Tree(t) PROVE FALSE
  OBVIOUS
<1>2. PICK m \in Reach(s) : Adds(m, x)
  BY <1>1, BroughtIn DEF ContentInv, Invariant
<1>3. x \in Tree(m) /\ HasPatch(m) /\ x \in Diff(m).added
  BY <1>2, AddsCarries DEF Adds
<1>4. m \in UniqueCommits(t, s)
  BY <1>1, <1>2, <1>3, NotBelow DEF UniqueCommits
<1>5. ~PromotedByContent(m, patches)
  <2> SUFFICES ASSUME Diff(m) \in patches PROVE FALSE
    BY DEF PromotedByContent
  <2>1. PICK k \in Reach(t) : Diff(k) = Diff(m)
    BY DEF PatchIDs, UniqueCommits
  <2> QED BY <1>1, <1>3, <2>1, NotBelow
<1>6. m \in PromotedByBaseline(clone, latest[e])
  <2>1. Tree(s) # Tree(t)
    OBVIOUS
  <2>2. {c \in UniqueCommits(t, s) : ~PromotedByContent(c, patches)}
          \ PromotedByBaseline(clone, latest[e]) = {}
    BY <1>1, <2>1 DEF Behind, Unpromoted
  <2> QED BY <1>4, <1>5, <2>2
<1>7. latest[e] # None /\ m \in Reach(latest[e])
  BY <1>6 DEF PromotedByBaseline
<1>8. latest[e] \in DOMAIN commits /\ Tree(latest[e]) \ Tree(t) \subseteq retracted
  BY <1>7 DEF ContentInv, RecordInv
<1>9. x \in Tree(latest[e])
  BY <1>3, <1>7, <1>8, NotBelow
<1> QED BY <1>8, <1>9

(* Up along the edges to the upstream, and down again.                     *)
LEMMA AllAlike == ContentInv => EverythingEverywhere
<1> SUFFICES ASSUME ContentInv, Quiet, Diverged = {}, NEW b \in Joined, NEW c \in Fed,
                    NEW x \in Tree(head[b]), x \notin retracted, x \notin Tree(head[c])
             PROVE  FALSE
  BY DEF EverythingEverywhere
<1> DEFINE B == {a \in Branches : x \notin Tree(head[a])}
<1>1. \A e \in Edges : e[2] \in B => e[1] \in B
  <2> TAKE e \in Edges
  <2> HAVE e[2] \in B
  <2>1. e[1] \in Branches
    BY SettingTyped DEF ContentInv, Invariant
  <2>2. Behind(e) = {}
    BY DEF Quiet, EdgePlan, Planned
  <2> QED BY <2>1, <2>2, InSync
<1>2. B \in SUBSET Branches /\ Used \subseteq Branches
  BY SettingTyped DEF Used, ContentInv, Invariant
<1>3. PICK d \in Fed : Leads(b, d)
  BY DEF Joined
<1>4. b \in Branches /\ c \in Branches /\ d \in Branches
  BY <1>2 DEF Joined, Fed
<1>5. x \in Tree(head[d])
  <2> SUFFICES ASSUME d \in B PROVE FALSE
    BY <1>4
  <2>1. b \in B
    <3> HIDE DEF B
    <3> QED BY <1>1, <1>2, <1>3 DEF Leads
  <2> QED BY <2>1
<1>6. x \in Tree(head[Upstream])
  <2> SUFFICES ASSUME x \notin Tree(head[Upstream]) PROVE FALSE
    OBVIOUS
  <2>1. Seen(x)
    BY <1>5, SeenFromFed
  <2>2. PICK q \in Sources : \E n \in ToReturn(q) : Carries(n, x)
    BY <2>1 DEF Seen
  <2>3. PICK n \in ToReturn(q) : Carries(n, x)
    BY <2>2
  <2>4. ~Merging /\ Kept(head[Upstream], ToReturn(q)) = {}
    BY <2>3 DEF Quiet, Proposes
  <2>5. \A m \in ToReturn(q) : HasPatch(m)
    BY <2>4, ToReturnPatches DEF ContentInv
  <2>6. ToReturn(q) \in SUBSET DOMAIN commits /\ 1 \notin ToReturn(q)
    BY <2>5, ToReturnTyped, PatchNotRoot DEF ContentInv
  <2>7. x \in Diff(n).added
    <3>1. Len(commits[n].parents) = 1
      BY <2>3, <2>5 DEF HasPatch
    <3>2. ~IsMerge(n)
      BY <3>1 DEF IsMerge
    <3> QED BY <2>3, <3>2 DEF Carries
  <2>8. x \in Changes
    BY <2>6, <2>7, CommitTyped DEF Diff, ContentInv, Invariant
  <2> QED BY <2>3, <2>4, <2>6, <2>7, <2>8, KeptBrings DEF ContentInv, Invariant
<1>7. c \in B /\ Leads(Upstream, c)
  BY <1>4 DEF Fed
<1>8. Upstream \in B
  <2> HIDE DEF B
  <2> QED BY <1>1, <1>2, <1>7 DEF Leads
<1> QED BY <1>6, <1>8

(* NoHotfixOverlooked: for every graph, both strategies, every way of      *)
(* merging and any amount of work, a change that a source fed from the     *)
(* upstream has and the upstream lacks is to be returned, or some edge on  *)
(* the way down to it reports it.                                          *)
THEOREM HotfixesSeen == Spec => []NoHotfixOverlooked
<1>1. ContentInv => NoHotfixOverlooked
  BY NoneOverlooked
<1> QED BY <1>1, ContentHolds, PTL

(* EverythingEverywhere: when no run finds anything to do or to report and *)
(* no request waits, the branches that the graph joins hold the same       *)
(* changes, but for those taken out by hand.                               *)
THEOREM ChangesEverywhere == Spec => []EverythingEverywhere
<1>1. ContentInv => EverythingEverywhere
  BY AllAlike
<1> QED BY <1>1, ContentHolds, PTL
=============================================================================
