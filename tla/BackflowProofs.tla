--------------------------- MODULE BackflowProofs ---------------------------
(***************************************************************************)
(* Proofs about Backflow, for any number of runs, hotfixes, commits, force *)
(* pushes and failures, for both strategies and any set of skip trailers.  *)
(***************************************************************************)
EXTENDS Backflow, FiniteSetTheorems, WellFoundedInduction, TLAPS

(* A run in flight works on a clone whose target had at most what the      *)
(* target has now, and it pushes only where its own replay led it there.   *)
CloneInv ==
  \A r \in Runs : run[r].pc # "idle" =>
    /\ run[r].clone \in Clone
    /\ run[r].clone.target.returned \subseteq target.returned
    /\ run[r].clone.target.absorbed \subseteq target.absorbed
    /\ run[r].pc = "push" => AfterReplay(run[r].clone) = "push"

Invariant == TypeOK /\ CloneInv /\ NoHotfixLost

-----------------------------------------------------------------------------
(* Operators. *)

(* A replay picks hotfixes of the clone's source.                           *)
LEMMA ReplayTyped ==
  ASSUME NEW c \in Clone
  PROVE  Replay(c) \in Branch
<1>1. ToSet(c.source) \subseteq Hotfixes
  BY DEF Clone, Heads, ToSet
<1>2. Picks(c) \subseteq Hotfixes
  BY <1>1 DEF Picks, ToReturn
<1>3. c.source \in Heads /\ c.target.base \in Nat
  BY DEF Clone, Target
<1> QED BY <1>2, <1>3 DEF Replay, Branch

(* A plan leads to one of three stages.                                     *)
LEMMA AfterReplayTyped ==
  ASSUME NEW c
  PROVE  AfterReplay(c) \in {"sweep", "record", "push"}
BY DEF AfterReplay

(* What a clone pushes carries every hotfix that a newer target still lacks, *)
(* and nothing withheld.                                                    *)
LEMMA ReplayCarries ==
  ASSUME NEW c \in Clone, AfterReplay(c) = "push",
         c.target.returned \subseteq target.returned,
         c.target.absorbed \subseteq target.absorbed
  PROVE  Missing(c.source) \subseteq Picks(c) /\ Picks(c) \cap Withheld = {}
<1>1. ToReturn(c) # {} /\ ~Diverges(c)
  BY DEF AfterReplay
<1>2. CASE Merging
  <2>1. ToReturn(c) \cap Withheld = {}
    BY <1>1, <1>2 DEF Diverges
  <2> QED BY <1>2, <2>1 DEF Missing, Picks, ToReturn
<1>3. CASE ~Merging
  BY <1>3 DEF Missing, Picks, ToReturn
<1> QED BY <1>2, <1>3

(* The forge's next number is a number.                                     *)
LEMMA NextNumberTyped ==
  ASSUME NEW S \in SUBSET Nat, NEW n \in NextNumbers(S)
  PROVE  n \in Nat
BY DEF NextNumbers

(* If there is an artifact, the canonical one is an artifact.               *)
LEMMA CanonicalExists ==
  ASSUME artifacts \subseteq Artifact, artifacts # {}
  PROVE  Canonical \in artifacts
<1> DEFINE ids == Ids(artifacts)
<1>1. ids \subseteq Nat /\ ids # {}
  BY DEF Ids, Artifact
<1>2. PICK least \in ids : \A i \in ids : <<i, least>> \notin OpToRel(<, Nat)
  BY <1>1, NatLessThanWellFounded, WFMin
<1>3. ASSUME NEW i \in ids PROVE least <= i
  <2>1. i \in Nat /\ least \in Nat
    BY <1>1
  <2>2. ~(i < least)
    <3> HIDE DEF ids
    <3> QED BY <1>2, <2>1 DEF OpToRel
  <2> QED BY <2>1, <2>2
<1>4. PICK a \in artifacts : a.id = least
  BY DEF Ids
<1>5. \A b \in artifacts : a.id <= b.id
  BY <1>3, <1>4 DEF Ids
<1> QED BY <1>4, <1>5 DEF Canonical

(* The numbers of the artifacts, and of those to close, are numbers.        *)
LEMMA DuplicatesTyped ==
  ASSUME artifacts \subseteq Artifact
  PROVE  Duplicates \subseteq Nat
BY DEF Duplicates, Ids, Artifact

-----------------------------------------------------------------------------
(* Steps of a run, and of others. *)

(* Where the replay of a clone leads is settled with the clone.             *)
LEMMA ReplayKept ==
  ASSUME UNCHANGED setting, NEW q \in Runs, run'[q].clone = run[q].clone
  PROVE  AfterReplay(run[q].clone)' = AfterReplay(run[q].clone)
BY DEF AfterReplay, ToReturn, Diverges, Conflicts, Picks, Merging, Withheld

(* A run that goes on from its replay with a typed state keeps the types    *)
(* and its clone; the other runs lose their clean record at most.           *)
LEMMA RunStep ==
  ASSUME Invariant, UNCHANGED setting, NEW r \in Runs, NEW next \in Run,
         Moves(r, next) \/ Local(r, next), UNCHANGED target,
         next.pc # "idle" =>
           next.pc # "push" /\ run[r].pc # "idle" /\ next.clone = run[r].clone
  PROVE  run' \in [Runs -> Run] /\ CloneInv'
<1>1. run \in [Runs -> Run]
  BY DEF Invariant, TypeOK
<1>2. ASSUME NEW q \in Runs
      PROVE  run'[q] \in Run /\ (q # r => run'[q].pc = run[q].pc /\ run'[q].clone = run[q].clone)
  <2>1. [run[q] EXCEPT !.clean = FALSE] \in Run
    BY <1>1 DEF Run
  <2>2. CASE Local(r, next)
    BY <1>1, <2>2 DEF Local
  <2>3. CASE Moves(r, next)
    <3>1. run'[q] = IF q = r THEN next ELSE [run[q] EXCEPT !.clean = FALSE]
      BY <2>3 DEF Moves
    <3>2. run[q] \in Run
      BY <1>1
    <3>3. /\ [run[q] EXCEPT !.clean = FALSE].pc = run[q].pc
          /\ [run[q] EXCEPT !.clean = FALSE].clone = run[q].clone
      BY <3>2 DEF Run
    <3> QED BY <2>1, <3>1, <3>3
  <2> QED BY <2>2, <2>3
<1>3. run'[r] = next /\ run' \in [Runs -> Run]
  BY <1>1, <1>2 DEF Moves, Local
<1>4. ASSUME NEW q \in Runs, run'[q].pc # "idle"
      PROVE  /\ run'[q].clone \in Clone
             /\ run'[q].clone.target.returned \subseteq target'.returned
             /\ run'[q].clone.target.absorbed \subseteq target'.absorbed
             /\ run'[q].pc = "push" => AfterReplay(run[q].clone)' = "push"
  <2>1. run[q].pc # "idle" /\ run'[q].clone = run[q].clone
        /\ (run'[q].pc = "push" => run[q].pc = "push")
    BY <1>2, <1>3, <1>4
  <2>2. AfterReplay(run[q].clone)' = AfterReplay(run[q].clone)
    BY <2>1, ReplayKept
  <2> QED BY <2>1, <2>2 DEF Invariant, CloneInv
<1> QED BY <1>3, <1>4 DEF CloneInv

(* A step of someone else keeps every run and adds to the target.           *)
LEMMA OtherStep ==
  ASSUME Invariant, UNCHANGED setting, Spoil,
         target.returned \subseteq target'.returned,
         target.absorbed \subseteq target'.absorbed
  PROVE  run' \in [Runs -> Run] /\ CloneInv'
<1>1. run \in [Runs -> Run]
  BY DEF Invariant, TypeOK
<1>2. ASSUME NEW q \in Runs
      PROVE  run'[q] \in Run /\ run'[q].pc = run[q].pc /\ run'[q].clone = run[q].clone
  BY <1>1 DEF Spoil, Run
<1>3. run' \in [Runs -> Run]
  BY <1>2 DEF Spoil
<1>4. ASSUME NEW q \in Runs, run'[q].pc # "idle"
      PROVE  /\ run'[q].clone \in Clone
             /\ run'[q].clone.target.returned \subseteq target'.returned
             /\ run'[q].clone.target.absorbed \subseteq target'.absorbed
             /\ run'[q].pc = "push" => AfterReplay(run[q].clone)' = "push"
  <2>1. AfterReplay(run[q].clone)' = AfterReplay(run[q].clone)
    BY <1>2, ReplayKept
  <2> QED BY <1>2, <1>4, <2>1 DEF Invariant, CloneInv
<1> QED BY <1>3, <1>4 DEF CloneInv

(* Branches that were there stay sound while the target gains.              *)
LEMMA BranchesKept ==
  ASSUME Invariant, UNCHANGED setting, branches' \subseteq branches,
         target.returned \subseteq target'.returned,
         target.absorbed \subseteq target'.absorbed
  PROVE  NoHotfixLost'
BY DEF Invariant, NoHotfixLost, Missing, Withheld

(* A run that only moves on keeps everything.                               *)
LEMMA LocalStep ==
  ASSUME Invariant, UNCHANGED setting, NEW r \in Runs, NEW next \in Run, Local(r, next),
         UNCHANGED remote, made' \in 0..MaxHotfixes, rewrites' \in Nat, faults' \in Nat,
         next.pc # "idle" =>
           next.pc # "push" /\ run[r].pc # "idle" /\ next.clone = run[r].clone
  PROVE  Invariant'
<1>1. UNCHANGED <<source, target, branches, requests, artifacts>>
  BY DEF remote
<1>2. run' \in [Runs -> Run] /\ CloneInv'
  BY <1>1, RunStep
<1>3. NoHotfixLost'
  BY <1>1, BranchesKept
<1>4. TypeOK'
  BY <1>1, <1>2 DEF Invariant, TypeOK
<1> QED BY <1>2, <1>3, <1>4 DEF Invariant

(* A run that changes requests or artifacts keeps everything.               *)
LEMMA ForgeStep ==
  ASSUME Invariant, UNCHANGED setting, NEW r \in Runs, NEW next \in Run,
         Moves(r, next) \/ Local(r, next), UNCHANGED <<source, target, counters>>,
         branches' \subseteq branches,
         requests' \subseteq Request, artifacts' \subseteq Artifact,
         next.pc # "idle" =>
           next.pc # "push" /\ run[r].pc # "idle" /\ next.clone = run[r].clone
  PROVE  Invariant'
<1>1. run' \in [Runs -> Run] /\ CloneInv'
  BY RunStep
<1>2. NoHotfixLost'
  BY BranchesKept
<1>3. TypeOK'
  BY <1>1 DEF Invariant, TypeOK, counters
<1> QED BY <1>1, <1>2, <1>3 DEF Invariant

(* Only the stage of a run changes.                                         *)
LEMMA GotoTyped ==
  ASSUME TypeOK, NEW r \in Runs, NEW pc \in Stages
  PROVE  Goto(r, pc) \in Run /\ Goto(r, pc).pc = pc /\ Goto(r, pc).clone = run[r].clone
BY DEF TypeOK, Goto, Run

(* The run that has ended is a run.                                         *)
LEMMA IdleTyped == Idle \in Run /\ Idle.pc = "idle"
BY DEF Idle, Run, Stages, Decisions

-----------------------------------------------------------------------------
(* The invariant. *)

(* It holds initially.                                                      *)
LEMMA InvariantInit == Init => Invariant
<1> SUFFICES ASSUME Init PROVE Invariant
  OBVIOUS
<1>1. TypeOK
  <2>1. made \in 0..MaxHotfixes
    BY BackflowAssumption DEF Init
  <2> QED BY <2>1, IdleTyped DEF Init, TypeOK, Heads, Target
<1>2. CloneInv
  BY DEF Init, CloneInv, Idle
<1>3. NoHotfixLost
  BY DEF Init, NoHotfixLost
<1> QED BY <1>1, <1>2, <1>3 DEF Invariant

(* A new run clones the target of now and pushes if its replay says so.     *)
LEMMA PlanStep ==
  ASSUME Invariant, UNCHANGED setting, NEW r \in Runs, Plan(r)
  PROVE  Invariant'
<1> DEFINE c == [source |-> source, target |-> target, branches |-> branches]
           next == [Idle EXCEPT
             !.pc = AfterReplay(c), !.clone = c, !.clean = TRUE,
             !.conflicted = Diverges(c) \/ (ToReturn(c) # {} /\ Conflicts(c))]
<1>1. UNCHANGED <<source, target, branches, requests, artifacts, counters>>
      /\ run' = [run EXCEPT ![r] = next]
  BY DEF Plan, Local, remote
<1>2. c \in Clone /\ c.target = target
  BY DEF Invariant, TypeOK, Clone
<1>3. AfterReplay(c) \in Stages
  BY AfterReplayTyped DEF Stages, BestEffort
<1>4. (Diverges(c) \/ (ToReturn(c) # {} /\ Conflicts(c))) \in BOOLEAN
  BY DEF Diverges, Conflicts
<1> HIDE DEF c
<1>5. next \in Run /\ next.pc = AfterReplay(c) /\ next.clone = c
  BY <1>2, <1>3, <1>4, IdleTyped DEF Run, Idle
<1> HIDE DEF next
<1>6. TypeOK'
  BY <1>1, <1>5 DEF Invariant, TypeOK, counters
<1>7. CloneInv'
  <2> SUFFICES ASSUME NEW q \in Runs, run'[q].pc # "idle"
               PROVE  /\ run'[q].clone \in Clone
                      /\ run'[q].clone.target.returned \subseteq target'.returned
                      /\ run'[q].clone.target.absorbed \subseteq target'.absorbed
                      /\ run'[q].pc = "push" => AfterReplay(run[q].clone)' = "push"
    BY DEF CloneInv
  <2>1. CASE q = r
    <3>1. run'[q] = next
      BY <1>1, <2>1 DEF Invariant, TypeOK
    <3>2. AfterReplay(run[q].clone)' = AfterReplay(c)
      BY <1>5, <3>1 DEF AfterReplay, ToReturn, Diverges, Conflicts, Picks, Merging, Withheld
    <3> QED BY <1>1, <1>2, <1>5, <3>1, <3>2
  <2>2. CASE q # r
    <3>1. run'[q] = run[q]
      BY <1>1, <2>2 DEF Invariant, TypeOK
    <3>2. AfterReplay(run[q].clone)' = AfterReplay(run[q].clone)
      BY <3>1, ReplayKept
    <3> QED BY <1>1, <3>1, <3>2 DEF Invariant, CloneInv
  <2> QED BY <2>1, <2>2
<1>8. NoHotfixLost'
  BY <1>1, BranchesKept
<1> QED BY <1>6, <1>7, <1>8 DEF Invariant

(* What a run pushes is sound, however old its clone is.                    *)
LEMMA PushStep ==
  ASSUME Invariant, UNCHANGED setting, NEW r \in Runs, PushBranch(r)
  PROVE  Invariant'
<1> DEFINE c == run[r].clone
           next == Goto(r, "create")
<1>1. /\ c \in Clone /\ AfterReplay(c) = "push"
      /\ c.target.returned \subseteq target.returned
      /\ c.target.absorbed \subseteq target.absorbed
      /\ run[r].pc = "push"
  BY DEF PushBranch, Invariant, CloneInv
<1>2. next \in Run /\ next.pc = "create" /\ next.clone = c
  BY GotoTyped DEF Invariant, Stages
<1>3. UNCHANGED <<source, target, requests, artifacts, counters>>
      /\ (Moves(r, next) \/ Local(r, next))
      /\ branches' \subseteq branches \cup {Replay(c)}
  BY DEF PushBranch, Others
<1> HIDE DEF next
<1>4. run' \in [Runs -> Run] /\ CloneInv'
  BY <1>1, <1>2, <1>3, RunStep
<1>5. TypeOK'
  BY <1>1, <1>3, <1>4, ReplayTyped DEF Invariant, TypeOK, counters
<1>6. Missing(c.source) \subseteq Picks(c) /\ Picks(c) \cap Withheld = {}
  BY <1>1, ReplayCarries
<1>7. NoHotfixLost'
  <2> SUFFICES ASSUME NEW b \in branches'
               PROVE  Missing(b.head)' \subseteq b.picks /\ b.picks \cap Withheld = {}
    BY DEF NoHotfixLost, Withheld
  <2>1. Missing(b.head)' = Missing(b.head)
    BY <1>3 DEF Missing, Withheld
  <2>2. CASE b \in branches
    BY <2>1, <2>2 DEF Invariant, NoHotfixLost
  <2>3. CASE b = Replay(c)
    BY <1>6, <2>1, <2>3 DEF Replay
  <2> QED BY <1>3, <2>2, <2>3
<1> QED BY <1>4, <1>5, <1>7 DEF Invariant

(* Opening, refusing and adopting a request.                                *)
LEMMA RequestStep ==
  ASSUME Invariant, UNCHANGED setting, NEW r \in Runs,
         CreateRequest(r) \/ CreateRefused(r) \/ AdoptDuplicate(r)
  PROVE  Invariant'
<1> USE DEF Stages, Superseding, remote, counters
<1>1. TypeOK /\ run[r] \in Run
  BY DEF Invariant, TypeOK
<1>2. /\ Goto(r, "supersede") \in Run /\ Goto(r, "supersede").pc = "supersede"
      /\ Goto(r, "supersede").clone = run[r].clone
      /\ Goto(r, "adopt") \in Run /\ Goto(r, "adopt").pc = "adopt"
      /\ Goto(r, "adopt").clone = run[r].clone
  BY <1>1, GotoTyped
<1>3. CASE CreateRequest(r)
  <2>1. run[r].clone.source \in Heads
    BY <1>3 DEF CreateRequest, Invariant, CloneInv, Clone
  <2>2. Ids(requests \cup Pending) \in SUBSET Nat
    BY <1>1 DEF TypeOK, Ids, Pending, Run, Request
  <2>3. requests' \subseteq Request
    <3>1. PICK n \in NextNumbers(Ids(requests \cup Pending)) :
            requests' = requests \cup {[id |-> n, head |-> run[r].clone.source]}
      BY <1>3 DEF CreateRequest
    <3>2. n \in Nat
      BY <2>2, <3>1, NextNumberTyped
    <3> QED BY <1>1, <2>1, <3>1, <3>2 DEF TypeOK, Request
  <2>4. run[r].pc # "idle" /\ Moves(r, Goto(r, "supersede"))
        /\ UNCHANGED <<source, target, counters>>
        /\ branches' \subseteq branches /\ artifacts' \subseteq Artifact
    BY <1>1, <1>3 DEF CreateRequest, TypeOK
  <2> QED BY <1>2, <2>3, <2>4, ForgeStep
<1>4. CASE CreateRefused(r)
  <2>1. run[r].pc # "idle" /\ Local(r, Goto(r, "adopt"))
        /\ UNCHANGED <<source, target, counters>> /\ branches' \subseteq branches
        /\ requests' \subseteq Request /\ artifacts' \subseteq Artifact
    BY <1>1, <1>4 DEF CreateRefused, TypeOK
  <2> QED BY <1>2, <2>1, ForgeStep
<1>5. CASE AdoptDuplicate(r)
  <2>1. run[r].pc # "idle" /\ (Local(r, Goto(r, "supersede")) \/ Local(r, Idle))
        /\ UNCHANGED <<source, target, counters>> /\ branches' \subseteq branches
        /\ requests' \subseteq Request /\ artifacts' \subseteq Artifact
    BY <1>1, <1>5 DEF AdoptDuplicate, TypeOK
  <2> QED BY <1>2, <2>1, ForgeStep, IdleTyped
<1> QED BY <1>3, <1>4, <1>5

(* Superseding: classifying, deleting and closing.                          *)
LEMMA SupersedeStep ==
  ASSUME Invariant, UNCHANGED setting, NEW r \in Runs,
         \/ Supersede(r) \/ CloseRequest(r) \/ SupersedeDone(r)
         \/ \E q \in run[r].stale : DeleteBranch(r, q)
  PROVE  Invariant'
<1> USE DEF Stages, Superseding, BestEffort, remote, counters
<1>1. TypeOK /\ run[r] \in Run
  BY DEF Invariant, TypeOK
<1>2. CASE Supersede(r)
  <2> DEFINE next == [run[r] EXCEPT !.pc = "delete",
                        !.stale = {q \in requests : Superseded(run[r].clone, q)}]
  <2>1. next \in Run /\ next.pc = "delete" /\ next.clone = run[r].clone
    BY <1>1 DEF TypeOK, Run
  <2>2. run[r].pc # "idle" /\ Local(r, next)
        /\ UNCHANGED <<source, target, counters>> /\ branches' \subseteq branches
        /\ requests' \subseteq Request /\ artifacts' \subseteq Artifact
    BY <1>1, <1>2 DEF Supersede, TypeOK
  <2> QED BY <2>1, <2>2, ForgeStep
<1>3. CASE CloseRequest(r)
  <2> DEFINE next == [run[r] EXCEPT !.pc = "delete", !.current = None]
  <2>1. next \in Run /\ next.pc = "delete" /\ next.clone = run[r].clone
    BY <1>1 DEF Run
  <2>2. run[r].pc # "idle" /\ Moves(r, next)
        /\ UNCHANGED <<source, target, counters>> /\ branches' \subseteq branches
        /\ requests' \subseteq Request /\ artifacts' \subseteq Artifact
    BY <1>1, <1>3 DEF CloseRequest, TypeOK
  <2> QED BY <2>1, <2>2, ForgeStep
<1>4. CASE SupersedeDone(r)
  <2>1. Goto(r, "sweep") \in Run /\ Goto(r, "sweep").pc = "sweep"
        /\ Goto(r, "sweep").clone = run[r].clone
    BY <1>1, GotoTyped
  <2>2. run[r].pc # "idle" /\ Local(r, Goto(r, "sweep"))
        /\ UNCHANGED <<source, target, counters>> /\ branches' \subseteq branches
        /\ requests' \subseteq Request /\ artifacts' \subseteq Artifact
    BY <1>1, <1>4 DEF SupersedeDone, TypeOK
  <2> QED BY <2>1, <2>2, ForgeStep
<1>5. ASSUME NEW q \in run[r].stale, DeleteBranch(r, q) PROVE Invariant'
  <2> DEFINE next == [run[r] EXCEPT !.pc = "close", !.current = q, !.stale = @ \ {q}]
  <2>1. next \in Run /\ next.pc = "close" /\ next.clone = run[r].clone
    BY <1>1 DEF Run
  <2>2. run[r].pc # "idle" /\ Moves(r, next)
        /\ UNCHANGED <<source, target, counters>> /\ branches' \subseteq branches
        /\ requests' \subseteq Request /\ artifacts' \subseteq Artifact
    BY <1>1, <1>5 DEF DeleteBranch, TypeOK, Others
  <2> QED BY <2>1, <2>2, ForgeStep
<1> QED BY <1>2, <1>3, <1>4, <1>5

(* The conflict artifact: recording, sweeping and closing.                  *)
LEMMA ArtifactStep ==
  ASSUME Invariant, UNCHANGED setting, NEW r \in Runs,
         \/ RecordConflict(r) \/ CreateArtifact(r) \/ UpdateArtifact(r)
         \/ KeepArtifact(r) \/ Sweep(r) \/ Finish(r)
         \/ \E id \in run[r].todo : CloseArtifact(r, id)
  PROVE  Invariant'
<1> USE DEF Stages, BestEffort, Decisions, remote, counters
<1>1. TypeOK /\ run[r] \in Run
  BY DEF Invariant, TypeOK
<1>2. Written(r) \in Run /\ Written(r).pc = "sweep" /\ Written(r).clone = run[r].clone
  <2>1. Goto(r, "sweep") \in Run /\ Goto(r, "sweep").pc = "sweep"
        /\ Goto(r, "sweep").clone = run[r].clone
    BY <1>1, GotoTyped
  <2> QED BY <2>1 DEF Written, Run
<1>3. CASE RecordConflict(r)
  <2> DEFINE number == IF artifacts = {} THEN 0 ELSE Canonical.id
             next == [run[r] EXCEPT
                        !.pc = "consolidate", !.todo = Duplicates,
                        !.write = Decision(run[r].clone), !.canonical = number]
  <2>1. number \in Nat
    BY <1>1, CanonicalExists DEF TypeOK, Artifact
  <2>2. Duplicates \subseteq Nat
    BY <1>1, DuplicatesTyped DEF TypeOK
  <2>3. Decision(run[r].clone) \in Decisions
    BY DEF Decision
  <2> HIDE DEF number
  <2>4. next \in Run /\ next.pc = "consolidate" /\ next.clone = run[r].clone
    BY <1>1, <2>1, <2>2, <2>3 DEF Run
  <2>5. run[r].pc # "idle" /\ Local(r, next)
        /\ UNCHANGED <<source, target, counters>> /\ branches' \subseteq branches
        /\ requests' \subseteq Request /\ artifacts' \subseteq Artifact
    BY <1>1, <1>3 DEF RecordConflict, TypeOK, number
  <2> QED BY <2>4, <2>5, ForgeStep
<1>4. CASE CreateArtifact(r)
  <2>1. run[r].clone.source \in Heads
    BY <1>4 DEF CreateArtifact, Writing, Invariant, CloneInv, Clone
  <2>2. Ids(artifacts) \cup Reserved \in SUBSET Nat
    BY <1>1 DEF TypeOK, Ids, Reserved, Run, Artifact
  <2>3. artifacts' \subseteq Artifact
    <3>1. PICK n \in NextNumbers(Ids(artifacts) \cup Reserved) :
            artifacts' = artifacts \cup {[id |-> n, head |-> run[r].clone.source]}
      BY <1>4 DEF CreateArtifact
    <3>2. n \in Nat
      BY <2>2, <3>1, NextNumberTyped
    <3> QED BY <1>1, <2>1, <3>1, <3>2 DEF TypeOK, Artifact
  <2>4. run[r].pc # "idle" /\ Moves(r, Written(r))
        /\ UNCHANGED <<source, target, counters>>
        /\ branches' \subseteq branches /\ requests' \subseteq Request
    BY <1>1, <1>4 DEF CreateArtifact, Writing, TypeOK
  <2> QED BY <1>2, <2>3, <2>4, ForgeStep
<1>5. CASE UpdateArtifact(r)
  <2>1. run[r].clone.source \in Heads /\ run[r].canonical \in Nat
    BY <1>1, <1>5 DEF UpdateArtifact, Writing, Invariant, CloneInv, Clone, Run
  <2>2. artifacts' \subseteq Artifact
    BY <1>1, <1>5, <2>1 DEF UpdateArtifact, TypeOK, Artifact
  <2>3. run[r].pc # "idle" /\ (Moves(r, Written(r)) \/ Local(r, Written(r)))
        /\ UNCHANGED <<source, target, counters>>
        /\ branches' \subseteq branches /\ requests' \subseteq Request
    BY <1>1, <1>5 DEF UpdateArtifact, Writing, TypeOK
  <2> QED BY <1>2, <2>2, <2>3, ForgeStep
<1>6. CASE KeepArtifact(r)
  <2>1. run[r].pc # "idle" /\ Local(r, Written(r))
        /\ UNCHANGED <<source, target, counters>> /\ branches' \subseteq branches
        /\ requests' \subseteq Request /\ artifacts' \subseteq Artifact
    BY <1>1, <1>6 DEF KeepArtifact, Writing, TypeOK
  <2> QED BY <1>2, <2>1, ForgeStep
<1>7. CASE Sweep(r)
  <2> DEFINE todo == Duplicates \cup
               (IF artifacts = {} THEN {} ELSE Ids({a \in {Canonical} : Resolved(r, a)}))
             next == [run[r] EXCEPT !.pc = "resolve", !.todo = todo]
  <2>1. todo \subseteq Nat
    BY <1>1, CanonicalExists, DuplicatesTyped DEF TypeOK, Artifact, Ids
  <2> HIDE DEF todo
  <2>2. next \in Run /\ next.pc = "resolve" /\ next.clone = run[r].clone
    BY <1>1, <2>1 DEF Run
  <2>3. run[r].pc # "idle" /\ Local(r, next)
        /\ UNCHANGED <<source, target, counters>> /\ branches' \subseteq branches
        /\ requests' \subseteq Request /\ artifacts' \subseteq Artifact
    BY <1>1, <1>7 DEF Sweep, TypeOK, todo
  <2> QED BY <2>2, <2>3, ForgeStep
<1>8. CASE Finish(r)
  <2>1. Local(r, Idle) /\ UNCHANGED <<source, target, counters>>
        /\ branches' \subseteq branches
        /\ requests' \subseteq Request /\ artifacts' \subseteq Artifact
    BY <1>1, <1>8 DEF Finish, TypeOK
  <2> QED BY <2>1, ForgeStep, IdleTyped
<1>9. ASSUME NEW id \in run[r].todo, CloseArtifact(r, id) PROVE Invariant'
  <2> DEFINE next == [run[r] EXCEPT !.todo = @ \ {id}]
  <2>1. next \in Run /\ next.pc = run[r].pc /\ next.clone = run[r].clone
    BY <1>1 DEF Run
  <2>2. run[r].pc \notin {"idle", "push"} /\ Moves(r, next)
        /\ UNCHANGED <<source, target, counters>> /\ branches' \subseteq branches
        /\ requests' \subseteq Request /\ artifacts' \subseteq Artifact
    BY <1>1, <1>9 DEF CloseArtifact, TypeOK
  <2> QED BY <2>1, <2>2, ForgeStep
<1> QED BY <1>3, <1>4, <1>5, <1>6, <1>7, <1>8, <1>9

(* Crashes and failed calls.                                                *)
LEMMA FaultStep ==
  ASSUME Invariant, UNCHANGED setting, NEW r \in Runs, Abort(r) \/ ArtifactCallFails(r)
  PROVE  Invariant'
<1>1. TypeOK /\ run[r] \in Run
  BY DEF Invariant, TypeOK
<1>2. /\ made' \in 0..MaxHotfixes /\ rewrites' \in Nat /\ faults' \in Nat
      /\ UNCHANGED remote
  <2>1. Faulty /\ UNCHANGED remote
    BY DEF Abort, ArtifactCallFails
  <2> QED BY <1>1, <2>1 DEF Faulty, TypeOK
<1>3. CASE Abort(r)
  BY <1>2, <1>3, LocalStep, IdleTyped DEF Abort
<1>4. CASE ArtifactCallFails(r)
  <2> DEFINE spoilt == [run[r] EXCEPT !.clean = FALSE]
             given == [spoilt EXCEPT !.pc = "sweep", !.write = "none", !.canonical = 0]
  <2>1. given \in Run /\ given.pc = "sweep" /\ given.clone = run[r].clone
    BY <1>1 DEF Run, Stages, BestEffort, Decisions
  <2>2. ASSUME NEW id, Local(r, [spoilt EXCEPT !.todo = @ \ {id}]),
               run[r].pc \in {"consolidate", "resolve"}
        PROVE  Invariant'
    <3> DEFINE next == [spoilt EXCEPT !.todo = @ \ {id}]
    <3>1. next \in Run /\ next.pc = run[r].pc /\ next.clone = run[r].clone
      BY <1>1 DEF Run
    <3> HIDE DEF spoilt
    <3> QED BY <1>2, <2>2, <3>1, LocalStep
  <2>3. run[r].pc # "idle"
    BY <1>4 DEF ArtifactCallFails
  <2>4. CASE Local(r, given)
    <3> HIDE DEF given
    <3> QED BY <1>2, <2>1, <2>3, <2>4, LocalStep
  <2> QED BY <1>4, <2>2, <2>4 DEF ArtifactCallFails
<1> QED BY <1>3, <1>4

(* The other users add to the target and never to the branches.             *)
LEMMA OutsideStep ==
  ASSUME Invariant, UNCHANGED setting, Outside
  PROVE  Invariant'
<1> USE DEF counters
<1>1. TypeOK
  BY DEF Invariant
<1>2. ASSUME Spoil, source' \in Heads, target' \in Target,
             target.returned \subseteq target'.returned,
             target.absorbed \subseteq target'.absorbed,
             branches' \subseteq branches, requests' \subseteq requests,
             artifacts' \subseteq artifacts,
             made' \in 0..MaxHotfixes, rewrites' \in Nat, faults' \in Nat
      PROVE  Invariant'
  <2>1. run' \in [Runs -> Run] /\ CloneInv'
    BY <1>2, OtherStep
  <2>2. NoHotfixLost'
    BY <1>2, BranchesKept
  <2>3. TypeOK'
    BY <1>1, <1>2, <2>1 DEF TypeOK
  <2> QED BY <2>1, <2>2, <2>3 DEF Invariant
<1>3. CASE CommitHotfix
  <2>1. made + 1 \in Hotfixes /\ made' \in 0..MaxHotfixes
    BY <1>1, <1>3, BackflowAssumption DEF CommitHotfix, Hotfixes, TypeOK
  <2>2. source' \in Heads
    BY <1>1, <1>3, <2>1 DEF CommitHotfix, TypeOK, Heads
  <2> QED BY <1>1, <1>2, <1>3, <2>1, <2>2 DEF CommitHotfix, TypeOK
<1>4. ASSUME NEW n \in 0..Len(source) - 1, RewriteSource(n) PROVE Invariant'
  <2>1. source' \in Heads
    BY <1>1, <1>4 DEF RewriteSource, TypeOK, Heads
  <2> QED BY <1>1, <1>2, <1>4, <2>1 DEF RewriteSource, TypeOK
<1>5. CASE FlipPolicy
  <2>1. target' \in Target /\ target'.returned = target.returned
        /\ target'.absorbed = target.absorbed
    BY <1>1, <1>5 DEF FlipPolicy, TypeOK, Target
  <2> QED BY <1>1, <1>2, <1>5, <2>1 DEF FlipPolicy, TypeOK
<1>6. CASE AdvanceTarget
  <2>1. made \in Nat /\ MaxHotfixes \in Nat /\ target \in Target
    BY <1>1, BackflowAssumption DEF TypeOK
  <2>2. PICK t \in {target} \cup {Unblock(h) : h \in target.obstructed}
              \cup {Obstruct(h) : h \in Unsettled}
              \cup {Absorb(h) : h \in Unsettled \ target.obstructed} :
              target' = [t EXCEPT !.base = @ + 1]
    BY <1>6 DEF AdvanceTarget
  <2>3. Unsettled \subseteq Hotfixes
    BY <1>1, <2>1 DEF Unsettled, Hotfixes, TypeOK
  <2>4. t \in Target /\ target.returned \subseteq t.returned
        /\ target.absorbed \subseteq t.absorbed
    BY <2>1, <2>2, <2>3 DEF Target, Unblock, Obstruct, Absorb
  <2>5. target' \in Target /\ target.returned \subseteq target'.returned
        /\ target.absorbed \subseteq target'.absorbed
    BY <2>2, <2>4 DEF Target
  <2> QED BY <1>1, <1>2, <1>6, <2>5 DEF AdvanceTarget, TypeOK
<1>7. ASSUME NEW q \in requests, MergeRequest(q) PROVE Invariant'
  <2>1. target' \in Target /\ target.returned \subseteq target'.returned
        /\ target.absorbed \subseteq target'.absorbed
    <3>1. PICK b \in branches :
            \/ target' = [target EXCEPT !.base = @ + 1, !.returned = @ \cup b.picks]
            \/ target' = [target EXCEPT !.base = @ + 1, !.absorbed = @ \cup b.picks]
      BY <1>7 DEF MergeRequest
    <3>2. target \in Target /\ target.base + 1 \in Nat
      BY <1>1 DEF TypeOK, Target
    <3>3. /\ (target.returned \cup b.picks) \in SUBSET Hotfixes
          /\ (target.absorbed \cup b.picks) \in SUBSET Hotfixes
      BY <1>1 DEF TypeOK, Target, Branch
    <3> DEFINE returned == target.returned \cup b.picks
               absorbed == target.absorbed \cup b.picks
    <3>4. CASE target' = [target EXCEPT !.base = @ + 1, !.returned = returned]
      <4>1. returned \in SUBSET Hotfixes /\ target.returned \subseteq returned
        BY <3>3
      <4> HIDE DEF returned
      <4> QED BY <3>2, <3>4, <4>1 DEF Target
    <3>5. CASE target' = [target EXCEPT !.base = @ + 1, !.absorbed = absorbed]
      <4>1. absorbed \in SUBSET Hotfixes /\ target.absorbed \subseteq absorbed
        BY <3>3
      <4> HIDE DEF absorbed
      <4> QED BY <3>2, <3>5, <4>1 DEF Target
    <3> QED BY <3>1, <3>4, <3>5
  <2>2. branches' \subseteq branches
    BY <1>7 DEF MergeRequest, Others
  <2> QED BY <1>1, <1>2, <1>7, <2>1, <2>2 DEF MergeRequest, TypeOK
<1>8. CASE Dismiss
  BY <1>1, <1>2, <1>8 DEF Dismiss, Faulty, TypeOK
<1> QED BY <1>3, <1>4, <1>5, <1>6, <1>7, <1>8 DEF Outside

(* Every step keeps it.                                                     *)
LEMMA InvariantStep == Invariant /\ [Next]_vars => Invariant'
<1> SUFFICES ASSUME Invariant, [Next]_vars PROVE Invariant'
  OBVIOUS
<1>1. CASE UNCHANGED vars
  <2>1. UNCHANGED <<setting, source, target, branches, requests, artifacts, run, counters>>
    BY <1>1 DEF vars, remote
  <2>2. TypeOK'
    BY <2>1 DEF Invariant, TypeOK, counters
  <2>3. NoHotfixLost'
    BY <2>1, BranchesKept
  <2>4. ASSUME NEW q \in Runs
        PROVE  AfterReplay(run[q].clone)' = AfterReplay(run[q].clone)
    BY <2>1, ReplayKept
  <2>5. CloneInv'
    BY <2>1, <2>4 DEF Invariant, CloneInv
  <2> QED BY <2>2, <2>3, <2>5 DEF Invariant
<1>2. CASE Outside /\ UNCHANGED setting
  BY <1>2, OutsideStep
<1>3. ASSUME NEW r \in Runs, UNCHANGED setting,
             Plan(r) \/ Proceed(r) \/ Abort(r) \/ ArtifactCallFails(r)
      PROVE  Invariant'
  <2>1. CASE Plan(r)
    BY <1>3, <2>1, PlanStep
  <2>2. CASE Proceed(r)
    BY <1>3, <2>2, PushStep, RequestStep, SupersedeStep, ArtifactStep DEF Proceed
  <2>3. CASE Abort(r) \/ ArtifactCallFails(r)
    BY <1>3, <2>3, FaultStep
  <2> QED BY <1>3, <2>1, <2>2, <2>3
<1> QED BY <1>1, <1>2, <1>3 DEF Next, Turn

-----------------------------------------------------------------------------
(* Theorems. *)

(* The inductive invariant of backflow holds in every reachable state.      *)
THEOREM InvariantHolds == Spec => []Invariant
BY InvariantInit, InvariantStep, PTL DEF Spec

(* Coordinator and forge keep their types.                                  *)
THEOREM TypeCorrect == Spec => []TypeOK
<1>1. Invariant => TypeOK
  BY DEF Invariant
<1> QED BY <1>1, InvariantHolds, PTL

(* applyBackflow pushes from a clone of any age with no lock: still every   *)
(* request carries each hotfix of its head that the target lacks, and       *)
(* nothing with the skip trailer.                                           *)
THEOREM HotfixesKept == Spec => []NoHotfixLost
<1>1. Invariant => NoHotfixLost
  BY DEF Invariant
<1> QED BY <1>1, InvariantHolds, PTL

-----------------------------------------------------------------------------
(* What a run that nobody disturbs brings about. *)

(* Who has a request, and which issue has a number.                         *)
UniqueInv ==
  /\ \A p, q \in requests : p.head = q.head => p = q
  /\ \A a, b \in artifacts : a.id = b.id => a = b

(* The replay is on the remote and has its request.                         *)
Opened(c) == Replay(c) \in branches /\ \E q \in requests : q.head = c.source

(* The record of a conflict is of this head or of a newer one.              *)
Names(c, a) == a.head = c.source \/ (Known(c, a.head) /\ Older(c.source, a.head))

(* What is left to supersede, and the issues that nobody is about to close. *)
ToClose(c) == {q \in requests : Superseded(c, q)}
Kept(ids) == {a \in artifacts : a.id \notin ids}

(* Stage by stage, what a run has brought about that nobody disturbed: the  *)
(* branch, then the request, then no request of an older head; or the one   *)
(* issue of a conflict.                                                     *)
PushKnows(p) == p.pc = "push" => branches = p.clone.branches

RequestKnows(p) ==
  /\ p.pc \in {"push", "create", "adopt"} \cup Superseding => AfterReplay(p.clone) = "push"
  /\ p.pc \in {"create", "adopt"} => Replay(p.clone) \in branches
  /\ p.pc \in Superseding => Opened(p.clone)

SupersedeKnows(p) ==
  /\ p.pc \in {"delete", "close"} => \A q \in p.stale : Superseded(p.clone, q)
  /\ p.pc = "close" => Superseded(p.clone, p.current)
  /\ p.pc = "delete" => ToClose(p.clone) \subseteq p.stale
  /\ p.pc = "close" => ToClose(p.clone) \subseteq p.stale \cup {p.current}

RecordKnows(p) ==
  /\ p.pc \in {"record", "consolidate"} => AfterReplay(p.clone) = "record"
  /\ p.pc = "consolidate" =>
       IF p.write = "create" THEN artifacts = {}
       ELSE \E a \in artifacts :
              /\ a.id = p.canonical /\ Kept(p.todo) = {a}
              /\ p.write = "none" => Names(p.clone, a)

SweepKnows(p) ==
  p.pc \in {"sweep", "resolve"} =>
    /\ AfterReplay(p.clone) = "push" => Opened(p.clone) /\ ToClose(p.clone) = {}
    /\ AfterReplay(p.clone) = "record" =>
         \E a \in artifacts : artifacts = {a} /\ Names(p.clone, a)

ResolveKnows(p) ==
  p.pc = "resolve" =>
    /\ \A a, b \in Kept(p.todo) : a = b
    /\ AfterReplay(p.clone) = "record" => p.todo = {}
    /\ AfterReplay(p.clone) # "record" /\ ~Diverges(p.clone) =>
         \A a \in Kept(p.todo) : a.head # p.clone.source /\ ~Older(a.head, p.clone.source)

Knows(p) ==
  /\ p.pc # "idle"
  /\ p.conflicted <=> Diverges(p.clone) \/ (ToReturn(p.clone) # {} /\ Conflicts(p.clone))
  /\ PushKnows(p) /\ RequestKnows(p) /\ SupersedeKnows(p)
  /\ RecordKnows(p) /\ SweepKnows(p) /\ ResolveKnows(p)

SettleInv == UniqueInv /\ \A r \in Runs : run[r].clean => Knows(run[r])

-----------------------------------------------------------------------------
(* What a clone says does not change during a run. *)

(* The replay of a clone and what it calls known are settled with it.       *)
LEMMA CloneSettled ==
  ASSUME UNCHANGED setting, NEW c
  PROVE  /\ AfterReplay(c)' = AfterReplay(c) /\ Replay(c)' = Replay(c)
         /\ Diverges(c)' <=> Diverges(c)
         /\ ToReturn(c)' = ToReturn(c) /\ (Conflicts(c)' <=> Conflicts(c))
         /\ \A h : Known(c, h)' <=> Known(c, h)
<1>1. ToReturn(c)' = ToReturn(c) /\ (Merging' <=> Merging) /\ Withheld' = Withheld
  BY DEF ToReturn, Merging, Withheld
<1>2. /\ Diverges(c)' <=> Diverges(c)
      /\ Conflicts(c)' <=> Conflicts(c)
      /\ Picks(c)' = Picks(c)
  BY <1>1 DEF Diverges, Conflicts, Picks
<1>3. \A h : Known(c, h)' <=> Known(c, h)
  BY <1>1 DEF Known
<1>4. AfterReplay(c)' = AfterReplay(c) /\ Replay(c)' = Replay(c)
  BY <1>1, <1>2 DEF AfterReplay, Replay
<1> QED BY <1>1, <1>2, <1>3, <1>4

(* So are the requests it supersedes and the records it accepts.            *)
LEMMA JudgedAlike ==
  ASSUME UNCHANGED setting, NEW c
  PROVE  /\ \A q : Superseded(c, q)' <=> Superseded(c, q)
         /\ \A a : Names(c, a)' <=> Names(c, a)
<1>1. \A h : Known(c, h)' <=> Known(c, h)
  BY CloneSettled
<1> QED BY <1>1 DEF Superseded, Names

(* A request of the clone's own head is not superseded.                     *)
LEMMA OwnHeadStays ==
  ASSUME NEW c \in Clone, NEW q, Superseded(c, q)
  PROVE  q.head # c.source
<1>1. c.source \in Heads
  BY DEF Clone
<1>2. IsPrefix(c.source, c.source)
  BY <1>1 DEF IsPrefix, Heads
<1>3. ~IsStrictPrefix(c.source, c.source)
  BY DEF IsStrictPrefix
<1> QED BY <1>2, <1>3 DEF Superseded, Known, Older

(* A replay that leads to a push or to a record tells whether the run saw a *)
(* conflict.                                                                *)
LEMMA WhereItLeads ==
  ASSUME NEW c
  PROVE  /\ AfterReplay(c) = "push" => ~Diverges(c) /\ ~(ToReturn(c) # {} /\ Conflicts(c))
         /\ AfterReplay(c) = "record" => ToReturn(c) # {} /\ Conflicts(c)
         /\ AfterReplay(c) = "sweep" /\ ~Diverges(c) => ~(ToReturn(c) # {} /\ Conflicts(c))
BY DEF AfterReplay

(* What is known stays known while branches, requests and issues stay.      *)
LEMMA KnowledgeKept ==
  ASSUME UNCHANGED <<setting, branches, requests, artifacts>>, NEW p, Knows(p)
  PROVE  Knows(p)'
<1>1. PICK c : c = p.clone
  OBVIOUS
<1>2. /\ AfterReplay(c)' = AfterReplay(c) /\ Replay(c)' = Replay(c)
      /\ Diverges(c)' <=> Diverges(c)
      /\ ToReturn(c)' = ToReturn(c) /\ (Conflicts(c)' <=> Conflicts(c))
  BY CloneSettled
<1>3. /\ \A q : Superseded(c, q)' <=> Superseded(c, q)
      /\ \A a : Names(c, a)' <=> Names(c, a)
  BY JudgedAlike
<1>4. (Opened(c)' <=> Opened(c)) /\ ToClose(c)' = ToClose(c) /\ \A ids : Kept(ids)' = Kept(ids)
  BY <1>2, <1>3 DEF Opened, ToClose, Kept
<1>5. PushKnows(p)' /\ RequestKnows(p)'
  BY <1>1, <1>2, <1>4 DEF Knows, PushKnows, RequestKnows
<1>6. SupersedeKnows(p)'
  BY <1>1, <1>3, <1>4 DEF Knows, SupersedeKnows
<1>7. RecordKnows(p)'
  BY <1>1, <1>2, <1>3, <1>4 DEF Knows, RecordKnows
<1>8. SweepKnows(p)'
  BY <1>1, <1>2, <1>3, <1>4 DEF Knows, SweepKnows
<1>9. ResolveKnows(p)'
  BY <1>1, <1>2, <1>3, <1>4 DEF Knows, ResolveKnows
<1> QED BY <1>1, <1>2, <1>5, <1>6, <1>7, <1>8, <1>9 DEF Knows

(* A step of a run spoils the record of all others, or changes nothing they *)
(* look at; it remains to see what the run itself knows.                    *)
LEMMA OwnStep ==
  ASSUME TypeOK, SettleInv, UNCHANGED setting, NEW r \in Runs, NEW next \in Run,
         \/ Moves(r, next)
         \/ Local(r, next) /\ UNCHANGED <<branches, requests, artifacts>>,
         next.clean => Knows(next)', UniqueInv'
  PROVE  SettleInv'
<1> SUFFICES ASSUME NEW q \in Runs, run'[q].clean PROVE Knows(run[q])'
  BY DEF SettleInv
<1>1. PICK p : p = run'[q]
  OBVIOUS
<1>2. run[q] \in Run /\ run \in [Runs -> Run]
  BY DEF TypeOK
<1>3. CASE q = r
  <2>1. p = next
    BY <1>1, <1>2, <1>3 DEF Moves, Local
  <2> QED BY <1>1, <2>1
<1>4. CASE q # r
  <2>1. ~Moves(r, next)
    <3> SUFFICES ASSUME Moves(r, next) PROVE FALSE
      OBVIOUS
    <3>1. run'[q] = [run[q] EXCEPT !.clean = FALSE]
      BY <1>4 DEF Moves
    <3> QED BY <1>2, <3>1 DEF Run
  <2>2. p = run[q] /\ UNCHANGED <<branches, requests, artifacts>>
    BY <1>1, <1>2, <1>4, <2>1 DEF Local
  <2>3. Knows(p)
    BY <1>1, <2>2 DEF SettleInv
  <2>4. Knows(p)'
    BY <2>2, <2>3, KnowledgeKept
  <2> QED BY <1>1, <2>4
<1> QED BY <1>3, <1>4

(* Requests and issues that go away leave no two alike.                     *)
LEMMA FewerAreUnique ==
  ASSUME UniqueInv, requests' \subseteq requests, artifacts' \subseteq artifacts
  PROVE  UniqueInv'
BY DEF UniqueInv

(* A step of a run that leaves the remote alone: it knows what it knew, or  *)
(* what it has just read.                                                   *)
LEMMA QuietStep ==
  ASSUME TypeOK, SettleInv, UNCHANGED <<setting, remote>>, NEW r \in Runs, NEW next \in Run,
         Local(r, next), next.clean => Knows(next)
  PROVE  SettleInv'
<1>1. UNCHANGED <<branches, requests, artifacts>>
  BY DEF remote
<1>2. PICK n \in Run : n = next
  OBVIOUS
<1>3. ASSUME n.clean PROVE Knows(n)'
  <2>1. Knows(n)
    BY <1>2, <1>3
  <2> QED BY <1>1, <2>1, KnowledgeKept
<1>4. next' = n /\ UniqueInv'
  BY <1>1, <1>2, FewerAreUnique DEF SettleInv
<1> QED BY <1>1, <1>2, <1>3, <1>4, OwnStep

(* The idle run claims nothing.                                             *)
LEMMA IdleClaimsNothing == Idle \in Run /\ ~Idle.clean
BY IdleTyped DEF Idle

(* A plan knows the branches of its clone and where its replay leads.       *)
LEMMA PlanKnows ==
  ASSUME Invariant, SettleInv, UNCHANGED setting, NEW r \in Runs, Plan(r)
  PROVE  SettleInv'
<1> DEFINE d == [source |-> source, target |-> target, branches |-> branches]
<1>1. PICK c \in Clone : c = d
  BY DEF Invariant, TypeOK, Clone
<1>2. PICK seen \in BOOLEAN : seen <=> Diverges(c) \/ (ToReturn(c) # {} /\ Conflicts(c))
  BY DEF Diverges, Conflicts
<1>3. PICK pc \in {"sweep", "record", "push"} : pc = AfterReplay(c)
  BY AfterReplayTyped
<1>4. PICK n : n = [Idle EXCEPT !.pc = pc, !.clone = c, !.clean = TRUE, !.conflicted = seen]
  OBVIOUS
<1>5. /\ n \in Run /\ n.pc = pc /\ n.clone = c /\ n.conflicted = seen
  BY <1>4, IdleTyped DEF Run, Idle, Stages, BestEffort
<1>6. Local(r, n) /\ UNCHANGED remote
  <2>1. seen = (Diverges(c) \/ (ToReturn(c) # {} /\ Conflicts(c)))
    <3>1. (Diverges(c) \/ (ToReturn(c) # {} /\ Conflicts(c))) \in BOOLEAN
      BY DEF Diverges, Conflicts
    <3> QED BY <1>2, <3>1
  <2> HIDE DEF d
  <2>2. Local(r, [Idle EXCEPT !.pc = AfterReplay(d), !.clone = d, !.clean = TRUE,
             !.conflicted = Diverges(d) \/ (ToReturn(d) # {} /\ Conflicts(d))])
        /\ UNCHANGED remote
    BY DEF Plan, d
  <2> QED BY <1>1, <1>3, <1>4, <2>1, <2>2
<1>7. c.branches = branches
  BY <1>1
<1>8. Knows(n)
  <2>1. PushKnows(n) /\ RequestKnows(n)
    BY <1>3, <1>5, <1>7 DEF PushKnows, RequestKnows, Superseding
  <2>2. SupersedeKnows(n) /\ RecordKnows(n)
    BY <1>3, <1>5 DEF SupersedeKnows, RecordKnows
  <2>3. SweepKnows(n) /\ ResolveKnows(n)
    BY <1>3, <1>5 DEF SweepKnows, ResolveKnows
  <2> QED BY <1>2, <1>3, <1>5, <2>1, <2>2, <2>3 DEF Knows
<1> QED BY <1>5, <1>6, <1>8, QuietStep DEF Invariant

(* After a push, or without one if the clone had the branch, the remote has *)
(* the replay.                                                              *)
LEMMA PushKnowsBranch ==
  ASSUME Invariant, SettleInv, UNCHANGED setting, NEW r \in Runs, PushBranch(r)
  PROVE  SettleInv'
<1>1. PICK p \in Run : p = run[r]
  BY DEF Invariant, TypeOK
<1>2. PICK n \in Run : n = Goto(r, "create")
  BY GotoTyped DEF Invariant, Stages
<1>3. n.pc = "create" /\ n.clone = p.clone /\ n.conflicted = p.conflicted /\ n.clean = p.clean
  BY <1>1, <1>2 DEF Goto, Run
<1>4. /\ p.pc = "push" /\ UNCHANGED <<requests, artifacts>>
      /\ IF Replay(p.clone) \notin p.clone.branches
         THEN Replay(p.clone) \in branches' /\ Moves(r, n)
         ELSE UNCHANGED branches /\ Local(r, n)
  BY <1>1, <1>2 DEF PushBranch, NeedsPush
<1>5. ASSUME n.clean PROVE Knows(n)'
  <2>1. PICK c : c = p.clone
    OBVIOUS
  <2>2. Knows(p)
    BY <1>1, <1>3, <1>5 DEF SettleInv
  <2>3. /\ AfterReplay(c)' = AfterReplay(c) /\ Replay(c)' = Replay(c)
        /\ Diverges(c)' <=> Diverges(c)
        /\ ToReturn(c)' = ToReturn(c) /\ (Conflicts(c)' <=> Conflicts(c))
    BY CloneSettled
  <2>4. AfterReplay(c)' = "push" /\ Replay(c)' \in branches'
    BY <1>4, <2>1, <2>2, <2>3 DEF Knows, PushKnows, RequestKnows
  <2>5. PushKnows(n)' /\ RequestKnows(n)'
    BY <1>3, <2>1, <2>4 DEF PushKnows, RequestKnows, Superseding
  <2>6. SupersedeKnows(n)' /\ RecordKnows(n)' /\ SweepKnows(n)' /\ ResolveKnows(n)'
    BY <1>3 DEF SupersedeKnows, RecordKnows, SweepKnows, ResolveKnows
  <2> QED BY <1>3, <2>1, <2>2, <2>3, <2>5, <2>6 DEF Knows
<1>6. n' = n /\ UniqueInv'
  BY <1>4, FewerAreUnique DEF SettleInv
<1> QED BY <1>4, <1>5, <1>6, OwnStep DEF Invariant

(* A request is created only where none of this head is open.               *)
LEMMA CreateKnowsRequest ==
  ASSUME Invariant, SettleInv, UNCHANGED setting, NEW r \in Runs, CreateRequest(r)
  PROVE  SettleInv'
<1>1. PICK p \in Run : p = run[r]
  BY DEF Invariant, TypeOK
<1>2. PICK n \in Run : n = Goto(r, "supersede")
  BY GotoTyped DEF Invariant, Stages, Superseding
<1>3. /\ n.pc = "supersede" /\ n.clone = p.clone
      /\ n.conflicted = p.conflicted /\ n.clean = p.clean
  BY <1>1, <1>2 DEF Goto, Run
<1>4. PICK q : requests' = requests \cup {q} /\ q.head = p.clone.source
  <2>1. PICK k : requests' = requests \cup {[id |-> k, head |-> p.clone.source]}
    BY <1>1 DEF CreateRequest
  <2> DEFINE d == [id |-> k, head |-> p.clone.source]
  <2>2. requests' = requests \cup {d} /\ d.head = p.clone.source
    BY <2>1
  <2> HIDE DEF d
  <2> QED BY <2>2
<1>5. /\ p.pc = "create" /\ Moves(r, n) /\ UNCHANGED <<branches, artifacts>>
      /\ Named(requests, p.clone.source) = {}
  BY <1>1, <1>2 DEF CreateRequest
<1>6. ASSUME n.clean PROVE Knows(n)'
  <2>1. PICK c : c = p.clone
    OBVIOUS
  <2>2. Knows(p)
    BY <1>1, <1>3, <1>6 DEF SettleInv
  <2>3. /\ AfterReplay(c)' = AfterReplay(c) /\ Replay(c)' = Replay(c)
        /\ Diverges(c)' <=> Diverges(c)
        /\ ToReturn(c)' = ToReturn(c) /\ (Conflicts(c)' <=> Conflicts(c))
    BY CloneSettled
  <2>4. AfterReplay(c)' = "push" /\ Opened(c)'
    BY <1>4, <1>5, <2>1, <2>2, <2>3 DEF Knows, RequestKnows, Opened
  <2>5. PushKnows(n)' /\ RequestKnows(n)'
    BY <1>3, <2>1, <2>4 DEF PushKnows, RequestKnows
  <2>6. SupersedeKnows(n)' /\ RecordKnows(n)' /\ SweepKnows(n)' /\ ResolveKnows(n)'
    BY <1>3 DEF SupersedeKnows, RecordKnows, SweepKnows, ResolveKnows
  <2> QED BY <1>3, <2>1, <2>2, <2>3, <2>5, <2>6 DEF Knows
<1>7. UniqueInv'
  BY <1>4, <1>5 DEF SettleInv, UniqueInv, Named
<1> QED BY <1>5, <1>6, <1>7, OwnStep DEF Invariant

(* A refusal is followed by a listing, which finds the request or ends it.  *)
LEMMA AdoptKnowsRequest ==
  ASSUME Invariant, SettleInv, UNCHANGED setting, NEW r \in Runs,
         CreateRefused(r) \/ AdoptDuplicate(r)
  PROVE  SettleInv'
<1>1. PICK p \in Run : p = run[r]
  BY DEF Invariant, TypeOK
<1>2. CASE CreateRefused(r)
  <2>1. PICK n \in Run : n = Goto(r, "adopt")
    BY GotoTyped DEF Invariant, Stages
  <2>2. n.pc = "adopt" /\ n.clone = p.clone /\ n.conflicted = p.conflicted /\ n.clean = p.clean
    BY <1>1, <2>1 DEF Goto, Run
  <2>3. ASSUME n.clean PROVE Knows(n)
    <3>1. Knows(p) /\ p.pc = "create"
      BY <1>1, <1>2, <2>2, <2>3 DEF SettleInv, CreateRefused
    <3>2. PushKnows(n) /\ RequestKnows(n)
      BY <2>2, <3>1 DEF Knows, PushKnows, RequestKnows, Superseding
    <3>3. SupersedeKnows(n) /\ RecordKnows(n) /\ SweepKnows(n) /\ ResolveKnows(n)
      BY <2>2 DEF SupersedeKnows, RecordKnows, SweepKnows, ResolveKnows
    <3> QED BY <2>2, <3>1, <3>2, <3>3 DEF Knows
  <2>4. Local(r, n) /\ UNCHANGED remote
    BY <1>2, <2>1 DEF CreateRefused
  <2> QED BY <2>3, <2>4, QuietStep DEF Invariant
<1>3. CASE AdoptDuplicate(r)
  <2>1. PICK n \in Run : n = Goto(r, "supersede")
    BY GotoTyped DEF Invariant, Stages, Superseding
  <2>2. /\ n.pc = "supersede" /\ n.clone = p.clone
        /\ n.conflicted = p.conflicted /\ n.clean = p.clean
    BY <1>1, <2>1 DEF Goto, Run
  <2>3. CASE Named(requests, p.clone.source) # {}
    <3>1. ASSUME n.clean PROVE Knows(n)
      <4>1. Knows(p) /\ p.pc = "adopt"
        BY <1>1, <1>3, <2>2, <3>1 DEF SettleInv, AdoptDuplicate
      <4>2. PushKnows(n) /\ RequestKnows(n)
        BY <2>2, <2>3, <4>1 DEF Knows, PushKnows, RequestKnows, Opened, Named
      <4>3. SupersedeKnows(n) /\ RecordKnows(n) /\ SweepKnows(n) /\ ResolveKnows(n)
        BY <2>2 DEF SupersedeKnows, RecordKnows, SweepKnows, ResolveKnows
      <4> QED BY <2>2, <4>1, <4>2, <4>3 DEF Knows
    <3>2. Local(r, n) /\ UNCHANGED remote
      BY <1>1, <1>3, <2>1, <2>3 DEF AdoptDuplicate
    <3> QED BY <3>1, <3>2, QuietStep DEF Invariant
  <2>4. CASE Named(requests, p.clone.source) = {}
    BY <1>1, <1>3, <2>4, IdleClaimsNothing, QuietStep DEF AdoptDuplicate, Invariant
  <2> QED BY <2>3, <2>4
<1> QED BY <1>2, <1>3

(* Superseding classifies what is open, then deletes and closes all of it,  *)
(* and never what belongs to its own head.                                  *)
LEMMA SupersedeKnowsStale ==
  ASSUME Invariant, SettleInv, UNCHANGED setting, NEW r \in Runs, Supersede(r)
  PROVE  SettleInv'
<1>1. PICK p \in Run : p = run[r]
  BY DEF Invariant, TypeOK
<1>2. PICK stale \in SUBSET Request : stale = ToClose(p.clone)
  BY DEF ToClose, Invariant, TypeOK
<1>3. PICK n : n = [p EXCEPT !.pc = "delete", !.stale = stale]
  OBVIOUS
<1>4. /\ n \in Run /\ n.pc = "delete" /\ n.clone = p.clone /\ n.stale = stale
      /\ n.conflicted = p.conflicted /\ n.clean = p.clean
  BY <1>1, <1>2, <1>3 DEF Run, Stages, Superseding
<1>5. p.pc = "supersede" /\ Local(r, n) /\ UNCHANGED remote
  BY <1>1, <1>2, <1>3 DEF Supersede, ToClose
<1>6. ASSUME n.clean PROVE Knows(n)
  <2>1. Knows(p)
    BY <1>1, <1>4, <1>6 DEF SettleInv
  <2>2. PushKnows(n) /\ RequestKnows(n)
    BY <1>4, <1>5, <2>1 DEF Knows, PushKnows, RequestKnows, Superseding
  <2>3. SupersedeKnows(n)
    BY <1>2, <1>4 DEF SupersedeKnows, ToClose
  <2>4. RecordKnows(n) /\ SweepKnows(n) /\ ResolveKnows(n)
    BY <1>4 DEF RecordKnows, SweepKnows, ResolveKnows
  <2> QED BY <1>4, <2>1, <2>2, <2>3, <2>4 DEF Knows
<1> QED BY <1>4, <1>5, <1>6, QuietStep DEF Invariant

(* Deleting a branch of an older head leaves the own branch and request,    *)
(* and the request to be closed next.                                       *)
LEMMA DeleteKnowsStale ==
  ASSUME Invariant, SettleInv, UNCHANGED setting, NEW r \in Runs, NEW q \in run[r].stale,
         DeleteBranch(r, q)
  PROVE  SettleInv'
<1>1. PICK p \in Run : p = run[r]
  BY DEF Invariant, TypeOK
<1>2. PICK n : n = [p EXCEPT !.pc = "close", !.current = q, !.stale = @ \ {q}]
  OBVIOUS
<1>3. /\ n \in Run /\ n.pc = "close" /\ n.clone = p.clone
      /\ n.stale = p.stale \ {q} /\ n.current = q
      /\ n.conflicted = p.conflicted /\ n.clean = p.clean
  BY <1>1, <1>2 DEF Run, Stages, Superseding
<1>4. /\ p.pc = "delete" /\ q \in p.stale /\ Moves(r, n)
      /\ branches' = Others(q.head) /\ UNCHANGED artifacts
      /\ requests' = requests \/ requests' = requests \ Named(requests, q.head)
  BY <1>1, <1>2 DEF DeleteBranch
<1>5. ASSUME n.clean PROVE Knows(n)'
  <2>1. PICK c \in Clone : c = p.clone
    BY <1>1, <1>4 DEF Invariant, CloneInv
  <2>2. Knows(p)
    BY <1>1, <1>3, <1>5 DEF SettleInv
  <2>3. /\ AfterReplay(c)' = AfterReplay(c) /\ Replay(c)' = Replay(c)
        /\ Diverges(c)' <=> Diverges(c)
        /\ ToReturn(c)' = ToReturn(c) /\ (Conflicts(c)' <=> Conflicts(c))
    BY CloneSettled
  <2>4. \A s : Superseded(c, s)' <=> Superseded(c, s)
    BY JudgedAlike
  <2>5. AfterReplay(c) = "push" /\ Opened(c)
    BY <1>4, <2>1, <2>2 DEF Knows, RequestKnows, Superseding
  <2>6. Superseded(c, q) /\ q.head # c.source
    BY <1>4, <2>1, <2>2, OwnHeadStays DEF Knows, SupersedeKnows
  <2>7. Opened(c)'
    BY <1>4, <2>3, <2>5, <2>6 DEF Opened, Others, Named, Replay
  <2>8. PushKnows(n)' /\ RequestKnows(n)'
    BY <1>3, <2>1, <2>3, <2>5, <2>7 DEF PushKnows, RequestKnows, Superseding
  <2>9. ToClose(c)' \subseteq ToClose(c)
    BY <1>4, <2>4 DEF ToClose
  <2>10. ToClose(c) \subseteq p.stale /\ \A s \in p.stale : Superseded(c, s)
    BY <1>4, <2>1, <2>2 DEF Knows, SupersedeKnows
  <2>11. SupersedeKnows(n)'
    BY <1>3, <2>1, <2>4, <2>6, <2>9, <2>10 DEF SupersedeKnows
  <2>12. RecordKnows(n)' /\ SweepKnows(n)' /\ ResolveKnows(n)'
    BY <1>3 DEF RecordKnows, SweepKnows, ResolveKnows
  <2> QED BY <1>3, <2>1, <2>2, <2>3, <2>8, <2>11, <2>12 DEF Knows
<1>6. n' = n /\ UniqueInv'
  BY <1>4, FewerAreUnique DEF SettleInv
<1> QED BY <1>3, <1>4, <1>5, <1>6, OwnStep DEF Invariant

(* Closing that request leaves the own one, and one less to close.          *)
LEMMA CloseKnowsStale ==
  ASSUME Invariant, SettleInv, UNCHANGED setting, NEW r \in Runs, CloseRequest(r)
  PROVE  SettleInv'
<1>1. PICK p \in Run : p = run[r]
  BY DEF Invariant, TypeOK
<1>2. PICK n : n = [p EXCEPT !.pc = "delete", !.current = None]
  OBVIOUS
<1>3. /\ n \in Run /\ n.pc = "delete" /\ n.clone = p.clone /\ n.stale = p.stale
      /\ n.conflicted = p.conflicted /\ n.clean = p.clean
  BY <1>1, <1>2 DEF Run, Stages, Superseding
<1>4. /\ p.pc = "close" /\ Moves(r, n) /\ UNCHANGED <<branches, artifacts>>
      /\ requests' = requests \ {p.current}
  BY <1>1, <1>2 DEF CloseRequest
<1>5. ASSUME n.clean PROVE Knows(n)'
  <2>1. PICK c \in Clone : c = p.clone
    BY <1>1, <1>4 DEF Invariant, CloneInv
  <2>2. Knows(p)
    BY <1>1, <1>3, <1>5 DEF SettleInv
  <2>3. /\ AfterReplay(c)' = AfterReplay(c) /\ Replay(c)' = Replay(c)
        /\ Diverges(c)' <=> Diverges(c)
        /\ ToReturn(c)' = ToReturn(c) /\ (Conflicts(c)' <=> Conflicts(c))
    BY CloneSettled
  <2>4. \A s : Superseded(c, s)' <=> Superseded(c, s)
    BY JudgedAlike
  <2>5. AfterReplay(c) = "push" /\ Opened(c)
    BY <1>4, <2>1, <2>2 DEF Knows, RequestKnows, Superseding
  <2>6. p.current.head # c.source
    BY <1>4, <2>1, <2>2, OwnHeadStays DEF Knows, SupersedeKnows
  <2>7. Opened(c)'
    BY <1>4, <2>3, <2>5, <2>6 DEF Opened
  <2>8. PushKnows(n)' /\ RequestKnows(n)'
    BY <1>3, <2>1, <2>3, <2>5, <2>7 DEF PushKnows, RequestKnows, Superseding
  <2>9. ToClose(c)' \subseteq ToClose(c) \ {p.current}
    BY <1>4, <2>4 DEF ToClose
  <2>10. /\ ToClose(c) \subseteq p.stale \cup {p.current}
         /\ \A s \in p.stale : Superseded(c, s)
    BY <1>4, <2>1, <2>2 DEF Knows, SupersedeKnows
  <2>11. SupersedeKnows(n)'
    BY <1>3, <2>1, <2>4, <2>9, <2>10 DEF SupersedeKnows
  <2>12. RecordKnows(n)' /\ SweepKnows(n)' /\ ResolveKnows(n)'
    BY <1>3 DEF RecordKnows, SweepKnows, ResolveKnows
  <2> QED BY <1>3, <2>1, <2>2, <2>3, <2>8, <2>11, <2>12 DEF Knows
<1>6. n' = n /\ UniqueInv'
  BY <1>4, FewerAreUnique DEF SettleInv
<1> QED BY <1>3, <1>4, <1>5, <1>6, OwnStep DEF Invariant

(* When nothing is left to close, no open request is of an older head.      *)
LEMMA DoneKnowsStale ==
  ASSUME Invariant, SettleInv, UNCHANGED setting, NEW r \in Runs, SupersedeDone(r)
  PROVE  SettleInv'
<1>1. PICK p \in Run : p = run[r]
  BY DEF Invariant, TypeOK
<1>2. PICK n \in Run : n = Goto(r, "sweep")
  BY GotoTyped DEF Invariant, Stages, BestEffort
<1>3. n.pc = "sweep" /\ n.clone = p.clone /\ n.conflicted = p.conflicted /\ n.clean = p.clean
  BY <1>1, <1>2 DEF Goto, Run
<1>4. p.pc = "delete" /\ p.stale = {} /\ Local(r, n) /\ UNCHANGED remote
  BY <1>1, <1>2 DEF SupersedeDone
<1>5. ASSUME n.clean PROVE Knows(n)
  <2>1. Knows(p)
    BY <1>1, <1>3, <1>5 DEF SettleInv
  <2>2. AfterReplay(p.clone) = "push" /\ Opened(p.clone) /\ ToClose(p.clone) = {}
    BY <1>4, <2>1 DEF Knows, RequestKnows, SupersedeKnows, Superseding
  <2>3. SweepKnows(n)
    BY <1>3, <2>2 DEF SweepKnows
  <2>4. PushKnows(n) /\ RequestKnows(n) /\ SupersedeKnows(n) /\ RecordKnows(n) /\ ResolveKnows(n)
    BY <1>3 DEF PushKnows, RequestKnows, Superseding, SupersedeKnows, RecordKnows, ResolveKnows
  <2> QED BY <1>3, <2>1, <2>3, <2>4 DEF Knows
<1> QED BY <1>4, <1>5, QuietStep DEF Invariant

(* All issues but the canonical one are duplicates, and their numbers tell  *)
(* them from it.                                                            *)
LEMMA DuplicatesAreOthers ==
  ASSUME UniqueInv, artifacts \subseteq Artifact, artifacts # {}
  PROVE  Canonical \in artifacts /\ Kept(Duplicates) = {Canonical}
<1>1. Canonical \in artifacts
  BY CanonicalExists
<1>2. PICK a : a = Canonical
  OBVIOUS
<1>3. Duplicates = {b.id : b \in artifacts \ {a}}
  BY <1>2 DEF Duplicates, Ids
<1>4. a.id \notin Duplicates
  BY <1>1, <1>2, <1>3 DEF UniqueInv
<1>5. \A b \in artifacts : b # a => b.id \in Duplicates
  BY <1>3
<1> QED BY <1>1, <1>2, <1>4, <1>5 DEF Kept

(* Recording a conflict keeps the canonical issue, and creates one only if  *)
(* there is none.                                                           *)
LEMMA RecordKnowsIssue ==
  ASSUME Invariant, SettleInv, UNCHANGED setting, NEW r \in Runs, RecordConflict(r)
  PROVE  SettleInv'
<1>1. PICK p \in Run : p = run[r]
  BY DEF Invariant, TypeOK
<1>2. artifacts \subseteq Artifact /\ UniqueInv
  BY DEF Invariant, TypeOK, SettleInv
<1>3. PICK todo \in SUBSET Nat : todo = Duplicates
  BY <1>2, DuplicatesTyped
<1>4. PICK write \in Decisions : write = Decision(p.clone)
  BY DEF Decision, Decisions
<1>5. PICK number \in Nat : number = IF artifacts = {} THEN 0 ELSE Canonical.id
  BY <1>2, CanonicalExists DEF Artifact
<1>6. PICK n : n = [p EXCEPT !.pc = "consolidate", !.todo = todo, !.write = write,
                             !.canonical = number]
  OBVIOUS
<1>7. /\ n \in Run /\ n.pc = "consolidate" /\ n.clone = p.clone
      /\ n.todo = todo /\ n.write = write /\ n.canonical = number
      /\ n.conflicted = p.conflicted /\ n.clean = p.clean
  BY <1>1, <1>6 DEF Run, Stages, BestEffort
<1>8. p.pc = "record" /\ Local(r, n) /\ UNCHANGED remote
  BY <1>1, <1>3, <1>4, <1>5, <1>6 DEF RecordConflict
<1>9. ASSUME n.clean PROVE Knows(n)
  <2>1. Knows(p)
    BY <1>1, <1>7, <1>9 DEF SettleInv
  <2>2. AfterReplay(n.clone) = "record"
    BY <1>7, <1>8, <2>1 DEF Knows, RecordKnows
  <2>3. RecordKnows(n)
    <3>1. CASE artifacts = {}
      BY <1>4, <1>7, <2>2, <3>1 DEF RecordKnows, Decision
    <3>2. CASE artifacts # {}
      <4>1. PICK a \in artifacts : a = Canonical /\ Kept(Duplicates) = {a}
        BY <1>2, <3>2, DuplicatesAreOthers
      <4>2. a.id = number /\ Kept(todo) = {a} /\ write # "create"
        BY <1>3, <1>4, <1>5, <3>2, <4>1 DEF Decision
      <4>3. write = "none" => Names(n.clone, a)
        BY <1>4, <1>7, <3>2, <4>1 DEF Decision, Names
      <4> QED BY <1>7, <2>2, <4>2, <4>3 DEF RecordKnows
    <3> QED BY <3>1, <3>2
  <2>4. PushKnows(n) /\ RequestKnows(n) /\ SupersedeKnows(n) /\ SweepKnows(n) /\ ResolveKnows(n)
    BY <1>7 DEF PushKnows, RequestKnows, Superseding, SupersedeKnows, SweepKnows, ResolveKnows
  <2> QED BY <1>7, <2>1, <2>3, <2>4 DEF Knows
<1> QED BY <1>7, <1>8, <1>9, QuietStep DEF Invariant

(* A run that has written, or found what it would write, and goes on to the *)
(* sweep.                                                                   *)
LEMMA WrittenKnows ==
  ASSUME NEW p, NEW n, Knows(p), UNCHANGED setting,
         p.pc = "consolidate", n.pc = "sweep", n.clone = p.clone, n.conflicted = p.conflicted,
         NEW a, artifacts' = {a}, Names(p.clone, a)
  PROVE  Knows(n)'
<1>1. PICK c : c = p.clone
  OBVIOUS
<1>2. /\ AfterReplay(c)' = AfterReplay(c)
      /\ Diverges(c)' <=> Diverges(c)
      /\ ToReturn(c)' = ToReturn(c) /\ (Conflicts(c)' <=> Conflicts(c))
  BY CloneSettled
<1>3. AfterReplay(c)' = "record"
  BY <1>1, <1>2 DEF Knows, RecordKnows
<1>4. Names(c, a)'
  BY <1>1, JudgedAlike
<1>5. SweepKnows(n)'
  BY <1>1, <1>3, <1>4 DEF SweepKnows
<1>6. PushKnows(n)' /\ RequestKnows(n)' /\ SupersedeKnows(n)' /\ RecordKnows(n)' /\ ResolveKnows(n)'
  BY DEF PushKnows, RequestKnows, Superseding, SupersedeKnows, RecordKnows, ResolveKnows
<1> QED BY <1>1, <1>2, <1>5, <1>6 DEF Knows

(* What has been written is a run that sweeps.                              *)
LEMMA WrittenTyped ==
  ASSUME TypeOK, NEW r \in Runs
  PROVE  /\ Written(r) \in Run /\ Written(r).pc = "sweep" /\ Written(r).clone = run[r].clone
         /\ Written(r).conflicted = run[r].conflicted /\ Written(r).clean = run[r].clean
<1>1. run[r] \in Run
  BY DEF TypeOK
<1>2. /\ Goto(r, "sweep") \in Run /\ Goto(r, "sweep").pc = "sweep"
      /\ Goto(r, "sweep").clone = run[r].clone
      /\ Goto(r, "sweep").conflicted = run[r].conflicted
      /\ Goto(r, "sweep").clean = run[r].clean
  BY <1>1 DEF Goto, Run, Stages, BestEffort
<1> QED BY <1>2 DEF Written, Run, Decisions

(* An issue is created only where there was none.                           *)
LEMMA CreateKnowsIssue ==
  ASSUME Invariant, SettleInv, UNCHANGED setting, NEW r \in Runs, CreateArtifact(r)
  PROVE  SettleInv'
<1>1. PICK p \in Run : p = run[r]
  BY DEF Invariant, TypeOK
<1>2. PICK n \in Run : n = Written(r)
  BY WrittenTyped DEF Invariant
<1>3. n.pc = "sweep" /\ n.clone = p.clone /\ n.conflicted = p.conflicted /\ n.clean = p.clean
  BY <1>1, <1>2, WrittenTyped DEF Invariant
<1>4. p.pc = "consolidate" /\ p.write = "create" /\ Moves(r, n) /\ UNCHANGED requests
  BY <1>1, <1>2 DEF CreateArtifact, Writing
<1>5. PICK k \in NextNumbers(Ids(artifacts) \cup Reserved) :
        artifacts' = artifacts \cup {[id |-> k, head |-> p.clone.source]}
  BY <1>1 DEF CreateArtifact
<1>6. \A i \in Ids(artifacts) : i < k
  BY <1>5 DEF NextNumbers
<1>7. k \in Nat /\ Ids(artifacts) \subseteq Nat
  <2>1. TypeOK
    BY DEF Invariant
  <2>2. Ids(artifacts) \cup Reserved \in SUBSET Nat
    BY <2>1 DEF TypeOK, Ids, Reserved, Run, Artifact
  <2> QED BY <1>5, <2>2, NextNumberTyped
<1>8. PICK a : a = [id |-> k, head |-> p.clone.source]
  OBVIOUS
<1>9. artifacts' = artifacts \cup {a} /\ a.id = k /\ a.head = p.clone.source
  BY <1>5, <1>8
<1>10. \A b \in artifacts : b.id # a.id
  <2> SUFFICES ASSUME NEW b \in artifacts PROVE b.id # a.id
    OBVIOUS
  <2>1. b.id \in Ids(artifacts)
    BY DEF Ids
  <2> QED BY <1>6, <1>7, <1>9, <2>1
<1>11. UniqueInv'
  BY <1>4, <1>9, <1>10 DEF SettleInv, UniqueInv
<1>12. ASSUME n.clean PROVE Knows(n)'
  <2>1. Knows(p)
    BY <1>1, <1>3, <1>12 DEF SettleInv
  <2>2. artifacts' = {a}
    BY <1>4, <1>9, <2>1 DEF Knows, RecordKnows
  <2>3. Names(p.clone, a)
    BY <1>9 DEF Names
  <2> QED BY <1>3, <1>4, <2>1, <2>2, <2>3, WrittenKnows
<1> QED BY <1>4, <1>11, <1>12, OwnStep DEF Invariant

(* The canonical issue is the only one left, and now names this head.       *)
LEMMA UpdateKnowsIssue ==
  ASSUME Invariant, SettleInv, UNCHANGED setting, NEW r \in Runs, UpdateArtifact(r)
  PROVE  SettleInv'
<1>1. PICK p \in Run : p = run[r]
  BY DEF Invariant, TypeOK
<1>2. PICK n \in Run : n = Written(r)
  BY WrittenTyped DEF Invariant
<1>3. n.pc = "sweep" /\ n.clone = p.clone /\ n.conflicted = p.conflicted /\ n.clean = p.clean
  BY <1>1, <1>2, WrittenTyped DEF Invariant
<1>4. PICK a : a = [id |-> p.canonical, head |-> p.clone.source]
  OBVIOUS
<1>5. a.id = p.canonical /\ a.head = p.clone.source
  BY <1>4
<1>6. /\ p.pc = "consolidate" /\ p.todo = {} /\ p.write = "update" /\ UNCHANGED requests
      /\ IF p.canonical \in Ids(artifacts)
         THEN artifacts' = {b \in artifacts : b.id # a.id} \cup {a} /\ Moves(r, n)
         ELSE UNCHANGED <<branches, artifacts>> /\ Local(r, n)
  BY <1>1, <1>2, <1>4, <1>5 DEF UpdateArtifact, Writing
<1>7. UniqueInv'
  BY <1>6 DEF SettleInv, UniqueInv
<1>8. ASSUME n.clean PROVE Knows(n)'
  <2>1. Knows(p)
    BY <1>1, <1>3, <1>8 DEF SettleInv
  <2>2. PICK b \in artifacts : b.id = p.canonical /\ artifacts = {b}
    BY <1>6, <2>1 DEF Knows, RecordKnows, Kept
  <2>3. artifacts' = {a}
    BY <1>5, <1>6, <2>2 DEF Ids
  <2>4. Names(p.clone, a)
    BY <1>5 DEF Names
  <2> QED BY <1>3, <1>6, <2>1, <2>3, <2>4, WrittenKnows
<1> QED BY <1>6, <1>7, <1>8, OwnStep DEF Invariant

(* An issue is left as it is when it names this head or a newer one.        *)
LEMMA KeepKnowsIssue ==
  ASSUME Invariant, SettleInv, UNCHANGED setting, NEW r \in Runs, KeepArtifact(r)
  PROVE  SettleInv'
<1>1. PICK p \in Run : p = run[r]
  BY DEF Invariant, TypeOK
<1>2. PICK n \in Run : n = Written(r)
  BY WrittenTyped DEF Invariant
<1>3. n.pc = "sweep" /\ n.clone = p.clone /\ n.conflicted = p.conflicted /\ n.clean = p.clean
  BY <1>1, <1>2, WrittenTyped DEF Invariant
<1>4. /\ p.pc = "consolidate" /\ p.todo = {} /\ p.write = "none"
      /\ UNCHANGED <<branches, requests, artifacts>> /\ Local(r, n)
  BY <1>1, <1>2 DEF KeepArtifact, Writing, remote
<1>5. ASSUME n.clean PROVE Knows(n)'
  <2>1. Knows(p)
    BY <1>1, <1>3, <1>5 DEF SettleInv
  <2>2. PICK b \in artifacts : Names(p.clone, b) /\ artifacts = {b}
    BY <1>4, <2>1 DEF Knows, RecordKnows, Kept
  <2> QED BY <1>3, <1>4, <2>1, <2>2, WrittenKnows
<1>6. UniqueInv'
  BY <1>4, FewerAreUnique DEF SettleInv
<1> QED BY <1>4, <1>5, <1>6, OwnStep DEF Invariant

(* The sweep leaves at most one issue, and none of this head or an older    *)
(* one unless the run saw a conflict.                                       *)
LEMMA SweepKnowsIssues ==
  ASSUME Invariant, SettleInv, UNCHANGED setting, NEW r \in Runs, Sweep(r)
  PROVE  SettleInv'
<1>1. PICK p \in Run : p = run[r]
  BY DEF Invariant, TypeOK
<1>2. artifacts \subseteq Artifact /\ UniqueInv
  BY DEF Invariant, TypeOK, SettleInv
<1>3. PICK obsolete \in SUBSET Nat :
        obsolete = IF artifacts = {} THEN {} ELSE Ids({a \in {Canonical} : Resolved(r, a)})
  BY <1>2, CanonicalExists DEF Artifact, Ids
<1>4. PICK todo \in SUBSET Nat : todo = Duplicates \cup obsolete
  BY <1>2, DuplicatesTyped
<1>5. PICK n : n = [p EXCEPT !.pc = "resolve", !.todo = todo]
  OBVIOUS
<1>6. /\ n \in Run /\ n.pc = "resolve" /\ n.clone = p.clone /\ n.todo = todo
      /\ n.conflicted = p.conflicted /\ n.clean = p.clean
  BY <1>1, <1>5 DEF Run, Stages, BestEffort
<1>7. p.pc = "sweep" /\ Local(r, n) /\ UNCHANGED remote
  BY <1>1, <1>3, <1>4, <1>5 DEF Sweep
<1>8. ASSUME n.clean PROVE Knows(n)
  <2>1. PICK c : c = p.clone
    OBVIOUS
  <2>2. Knows(p)
    BY <1>1, <1>6, <1>8 DEF SettleInv
  <2>3. SweepKnows(n)
    BY <1>6, <1>7, <2>2 DEF Knows, SweepKnows
  <2>4. \A a \in Kept(todo) : a = Canonical /\ ~Resolved(r, a)
    <3> SUFFICES ASSUME NEW a \in Kept(todo) PROVE a = Canonical /\ ~Resolved(r, a)
      OBVIOUS
    <3>1. a \in artifacts /\ a.id \notin Duplicates /\ a.id \notin obsolete
      BY <1>4 DEF Kept
    <3>2. a = Canonical
      BY <1>2, <3>1, DuplicatesAreOthers DEF Kept
    <3>3. obsolete = {b.id : b \in {b \in {a} : Resolved(r, b)}}
      BY <1>3, <3>1, <3>2 DEF Ids
    <3> QED BY <3>1, <3>2, <3>3
  <2>5. p.conflicted <=> Diverges(c) \/ (ToReturn(c) # {} /\ Conflicts(c))
    BY <2>1, <2>2 DEF Knows
  <2>6. AfterReplay(c) # "record" /\ ~Diverges(c) => ~p.conflicted
    BY <2>5, AfterReplayTyped, WhereItLeads
  <2>7. ASSUME AfterReplay(c) = "record" PROVE todo = {}
    <3>1. PICK a \in artifacts : artifacts = {a}
      BY <1>7, <2>1, <2>2, <2>7 DEF Knows, SweepKnows
    <3>2. Canonical = a
      BY <1>2, <3>1, CanonicalExists
    <3>3. Duplicates = {}
      BY <3>1, <3>2 DEF Duplicates, Ids
    <3>4. p.conflicted
      BY <2>5, <2>7, WhereItLeads
    <3>5. \A b : ~Resolved(r, b)
      BY <1>1, <3>4 DEF Resolved
    <3>6. {b \in {Canonical} : Resolved(r, b)} = {}
      BY <3>5
    <3>7. obsolete = {}
      BY <1>3, <3>6 DEF Ids
    <3> QED BY <1>4, <3>3, <3>7
  <2>8. ASSUME AfterReplay(c) # "record", ~Diverges(c), NEW a \in Kept(todo)
        PROVE  a.head # c.source /\ ~Older(a.head, c.source)
    BY <1>1, <2>1, <2>4, <2>6, <2>8 DEF Resolved
  <2>9. ResolveKnows(n)
    BY <1>6, <2>1, <2>4, <2>7, <2>8 DEF ResolveKnows
  <2>10. PushKnows(n) /\ RequestKnows(n) /\ SupersedeKnows(n) /\ RecordKnows(n)
    BY <1>6 DEF PushKnows, RequestKnows, Superseding, SupersedeKnows, RecordKnows
  <2> QED BY <1>6, <2>2, <2>3, <2>9, <2>10 DEF Knows
<1> QED BY <1>6, <1>7, <1>8, QuietStep DEF Invariant

(* Closing one issue leaves the ones that were not to be closed.            *)
LEMMA CloseKnowsIssue ==
  ASSUME Invariant, SettleInv, UNCHANGED setting, NEW r \in Runs, NEW id \in run[r].todo,
         CloseArtifact(r, id)
  PROVE  SettleInv'
<1>1. PICK p \in Run : p = run[r]
  BY DEF Invariant, TypeOK
<1>2. PICK n : n = [p EXCEPT !.todo = @ \ {id}]
  OBVIOUS
<1>3. /\ n \in Run /\ n.pc = p.pc /\ n.clone = p.clone /\ n.todo = p.todo \ {id}
      /\ n.write = p.write /\ n.canonical = p.canonical
      /\ n.conflicted = p.conflicted /\ n.clean = p.clean
  BY <1>1, <1>2 DEF Run
<1>4. /\ p.pc \in {"consolidate", "resolve"} /\ id \in p.todo /\ Moves(r, n)
      /\ artifacts' = {a \in artifacts : a.id # id}
      /\ UNCHANGED <<branches, requests>>
  BY <1>1, <1>2 DEF CloseArtifact
<1>5. Kept(n.todo)' = Kept(p.todo)
  BY <1>3, <1>4 DEF Kept
<1>6. ASSUME n.clean PROVE Knows(n)'
  <2>1. PICK c : c = p.clone
    OBVIOUS
  <2>2. Knows(p)
    BY <1>1, <1>3, <1>6 DEF SettleInv
  <2>3. /\ AfterReplay(c)' = AfterReplay(c) /\ Replay(c)' = Replay(c)
        /\ Diverges(c)' <=> Diverges(c)
        /\ ToReturn(c)' = ToReturn(c) /\ (Conflicts(c)' <=> Conflicts(c))
    BY CloneSettled
  <2>4. /\ \A q : Superseded(c, q)' <=> Superseded(c, q)
        /\ \A a : Names(c, a)' <=> Names(c, a)
    BY JudgedAlike
  <2>5. (Opened(c)' <=> Opened(c)) /\ ToClose(c)' = ToClose(c)
    BY <1>4, <2>3, <2>4 DEF Opened, ToClose
  <2>6. RecordKnows(n)'
    <3> SUFFICES ASSUME p.pc = "consolidate" PROVE RecordKnows(n)'
      BY <1>3, <1>4 DEF RecordKnows
    <3>1. AfterReplay(c)' = "record"
      BY <2>1, <2>2, <2>3 DEF Knows, RecordKnows
    <3>2. CASE p.write = "create"
      <4>1. artifacts' = {}
        BY <1>4, <2>2, <3>2 DEF Knows, RecordKnows
      <4> QED BY <1>3, <2>1, <3>1, <3>2, <4>1 DEF RecordKnows
    <3>3. CASE p.write # "create"
      <4>1. PICK a \in artifacts : /\ a.id = p.canonical /\ Kept(p.todo) = {a}
                                   /\ p.write = "none" => Names(c, a)
        BY <2>1, <2>2, <3>3 DEF Knows, RecordKnows
      <4>2. a \in artifacts' /\ Kept(n.todo)' = {a}
        <5>1. a.id # id
          BY <1>4, <4>1 DEF Kept
        <5> QED BY <1>4, <1>5, <4>1, <5>1
      <4> QED BY <1>3, <2>1, <2>4, <3>1, <3>3, <4>1, <4>2 DEF RecordKnows
    <3> QED BY <3>2, <3>3
  <2>7. AfterReplay(c) = "record" => p.pc # "resolve"
    BY <1>4, <2>1, <2>2 DEF Knows, ResolveKnows
  <2>8. SweepKnows(n)'
    BY <1>3, <1>4, <2>1, <2>2, <2>3, <2>5, <2>7 DEF Knows, SweepKnows
  <2>9. ResolveKnows(n)'
    BY <1>3, <1>5, <2>1, <2>2, <2>3, <2>7 DEF Knows, ResolveKnows
  <2>10. PushKnows(n)' /\ RequestKnows(n)' /\ SupersedeKnows(n)'
    BY <1>3, <1>4 DEF PushKnows, RequestKnows, Superseding, SupersedeKnows
  <2> QED BY <1>3, <1>4, <2>1, <2>2, <2>3, <2>6, <2>8, <2>9, <2>10 DEF Knows
<1>7. UniqueInv'
  BY <1>4, FewerAreUnique DEF SettleInv
<1> QED BY <1>3, <1>4, <1>6, <1>7, OwnStep DEF Invariant

(* A run that ends, is killed or fails to reach an issue claims nothing.    *)
LEMMA EndsClaimNothing ==
  ASSUME Invariant, SettleInv, UNCHANGED setting, NEW r \in Runs,
         Finish(r) \/ Abort(r) \/ ArtifactCallFails(r)
  PROVE  SettleInv'
<1>1. CASE Finish(r) \/ Abort(r)
  <2>1. Local(r, Idle) /\ UNCHANGED remote
    BY <1>1 DEF Finish, Abort
  <2> QED BY <2>1, IdleClaimsNothing, QuietStep DEF Invariant
<1>2. CASE ArtifactCallFails(r)
  <2>1. PICK p \in Run : p = run[r]
    BY DEF Invariant, TypeOK
  <2>2. UNCHANGED remote
    BY <1>2 DEF ArtifactCallFails
  <2> DEFINE spoilt == [p EXCEPT !.clean = FALSE]
             given == [spoilt EXCEPT !.pc = "sweep", !.write = "none", !.canonical = 0]
  <2>3. given \in Run /\ ~given.clean
    BY DEF Run, Stages, BestEffort, Decisions
  <2>4. CASE Local(r, given)
    <3> HIDE DEF given
    <3> QED BY <2>2, <2>3, <2>4, QuietStep DEF Invariant
  <2>5. ASSUME NEW i, Local(r, [spoilt EXCEPT !.todo = @ \ {i}]) PROVE SettleInv'
    <3> DEFINE next == [spoilt EXCEPT !.todo = @ \ {i}]
    <3>1. next \in Run /\ ~next.clean
      BY DEF Run
    <3>2. Local(r, next)
      BY <2>5
    <3> HIDE DEF next
    <3> QED BY <2>2, <3>1, <3>2, QuietStep DEF Invariant
  <2> QED BY <1>2, <2>1, <2>4, <2>5 DEF ArtifactCallFails
<1> QED BY <1>1, <1>2

(* Whoever else changes anything spoils the record of all runs, and opens   *)
(* neither requests nor issues.                                             *)
LEMMA OthersSpoil ==
  ASSUME Invariant, SettleInv, UNCHANGED setting, Outside
  PROVE  SettleInv'
<1>1. Spoil /\ requests' \subseteq requests /\ artifacts' \subseteq artifacts
  <2>1. CASE CommitHotfix \/ FlipPolicy \/ AdvanceTarget
    BY <2>1 DEF CommitHotfix, FlipPolicy, AdvanceTarget
  <2>2. CASE Dismiss
    BY <2>2 DEF Dismiss
  <2>3. CASE \E n \in 0..Len(source) - 1 : RewriteSource(n)
    BY <2>3 DEF RewriteSource
  <2>4. CASE \E q \in requests : MergeRequest(q)
    BY <2>4 DEF MergeRequest
  <2> QED BY <2>1, <2>2, <2>3, <2>4 DEF Outside
<1>2. ASSUME NEW q \in Runs PROVE ~run'[q].clean
  <2>1. run[q] \in Run
    BY DEF Invariant, TypeOK
  <2>2. run'[q] = [run[q] EXCEPT !.clean = FALSE]
    BY <1>1 DEF Spoil
  <2> QED BY <2>1, <2>2 DEF Run
<1> QED BY <1>1, <1>2, FewerAreUnique DEF SettleInv

(* It holds initially and is kept.                                          *)
LEMMA SettleInit == Init => SettleInv
BY DEF Init, Idle, SettleInv, UniqueInv

(* Every step keeps it.                                                     *)
LEMMA SettleStep == Invariant /\ SettleInv /\ [Next]_vars => SettleInv'
<1> SUFFICES ASSUME Invariant, SettleInv, [Next]_vars PROVE SettleInv'
  OBVIOUS
<1>1. CASE UNCHANGED vars
  <2>1. UNCHANGED <<setting, branches, requests, artifacts, run>>
    BY <1>1 DEF vars, remote
  <2>2. ASSUME NEW q \in Runs, run'[q].clean PROVE Knows(run[q])'
    <3>1. PICK p : p = run[q]
      OBVIOUS
    <3>2. run' = run /\ Knows(p)
      BY <2>1, <2>2, <3>1 DEF SettleInv
    <3>3. Knows(p)'
      BY <2>1, <3>2, KnowledgeKept
    <3> QED BY <3>1, <3>2, <3>3
  <2> QED BY <2>1, <2>2, FewerAreUnique DEF SettleInv
<1>2. CASE Outside /\ UNCHANGED setting
  BY <1>2, OthersSpoil
<1>3. ASSUME NEW r \in Runs, UNCHANGED setting,
             Plan(r) \/ Proceed(r) \/ Abort(r) \/ ArtifactCallFails(r)
      PROVE  SettleInv'
  <2>1. CASE PushBranch(r) \/ CreateRequest(r) \/ CreateRefused(r) \/ AdoptDuplicate(r)
    BY <1>3, <2>1, PushKnowsBranch, CreateKnowsRequest, AdoptKnowsRequest
  <2>2. CASE \/ Supersede(r) \/ CloseRequest(r) \/ SupersedeDone(r)
             \/ \E q \in run[r].stale : DeleteBranch(r, q)
    BY <1>3, <2>2, SupersedeKnowsStale, CloseKnowsStale, DoneKnowsStale, DeleteKnowsStale
  <2>3. CASE RecordConflict(r) \/ CreateArtifact(r) \/ UpdateArtifact(r) \/ KeepArtifact(r)
    BY <1>3, <2>3, RecordKnowsIssue, CreateKnowsIssue, UpdateKnowsIssue, KeepKnowsIssue
  <2>4. CASE Sweep(r) \/ \E id \in run[r].todo : CloseArtifact(r, id)
    BY <1>3, <2>4, SweepKnowsIssues, CloseKnowsIssue
  <2>5. CASE Finish(r) \/ Abort(r) \/ ArtifactCallFails(r)
    BY <1>3, <2>5, EndsClaimNothing
  <2>6. CASE Plan(r)
    BY <1>3, <2>6, PlanKnows
  <2> QED BY <1>3, <2>1, <2>2, <2>3, <2>4, <2>5, <2>6 DEF Proceed
<1> QED BY <1>1, <1>2, <1>3 DEF Next, Turn

(* What undisturbed runs know is so in every reachable state.               *)
LEMMA SettleHolds == Spec => []SettleInv
<1>1. Invariant /\ SettleInv /\ [Next]_vars => SettleInv'
  BY SettleStep
<1> QED BY <1>1, SettleInit, InvariantHolds, PTL DEF Spec

(* What a run knows when it ends is that the edge is settled.               *)
LEMMA KnowsSettled ==
  ASSUME Invariant, SettleInv, NEW r \in Runs,
         run[r].pc = "resolve", run[r].todo = {}, run[r].clean
  PROVE  Settled(run[r].clone)
<1>1. PICK c : c = run[r].clone
  OBVIOUS
<1>2. Knows(run[r])
  BY DEF SettleInv
<1>3. Kept({}) = artifacts
  BY DEF Kept
<1>4. \A a, b \in artifacts : a = b
  BY <1>2, <1>3 DEF Knows, ResolveKnows
<1>5. Cardinality(artifacts) <= 1
  <2>1. CASE artifacts = {}
    BY <2>1, FS_EmptySet
  <2>2. CASE artifacts # {}
    <3>1. PICK a \in artifacts : artifacts = {a}
      BY <1>4, <2>2
    <3>2. Cardinality(artifacts) = 1
      BY <3>1, FS_Singleton
    <3> QED BY <3>2
  <2> QED BY <2>1, <2>2
<1>6. ASSUME AfterReplay(c) # "record", ~Diverges(c) PROVE NotObsolete(c)
  BY <1>1, <1>2, <1>3, <1>6 DEF Knows, ResolveKnows, NotObsolete
<1>7. ASSUME AfterReplay(c) = "push" PROVE Proposed(c) /\ NotObsolete(c)
  <2>1. Opened(c) /\ ToClose(c) = {}
    BY <1>1, <1>2, <1>7 DEF Knows, SweepKnows
  <2>2. PICK q \in requests : q.head = c.source
    BY <2>1 DEF Opened
  <2>3. Named(requests, c.source) = {q}
    BY <2>2 DEF Named, SettleInv, UniqueInv
  <2>4. Cardinality(Named(requests, c.source)) = 1
    BY <2>3, FS_Singleton
  <2>5. \A s \in requests : Known(c, s.head) /\ ~Older(s.head, c.source)
    BY <2>1 DEF ToClose, Superseded
  <2>6. ~Diverges(c)
    BY <1>7, WhereItLeads
  <2> QED BY <1>6, <1>7, <2>1, <2>4, <2>5, <2>6 DEF Proposed, Opened
<1>8. ASSUME AfterReplay(c) = "record" PROVE Recorded(c)
  <2>1. PICK a \in artifacts : artifacts = {a} /\ Names(c, a)
    BY <1>1, <1>2, <1>8 DEF Knows, SweepKnows
  <2>2. Canonical = a
    BY <2>1, CanonicalExists DEF Invariant, TypeOK
  <2>3. Cardinality(artifacts) = 1
    BY <2>1, FS_Singleton
  <2> QED BY <2>1, <2>2, <2>3 DEF Recorded, Names
<1>9. Settled(c)
  BY <1>5, <1>6, <1>7, <1>8 DEF Settled
<1> QED BY <1>1, <1>9

(* The documentation's "self-healing": a run that ends without an error and *)
(* was not disturbed leaves exactly one request or one issue for its head,  *)
(* on its own replay, and none for an older head, whatever interrupted and  *)
(* overlapping runs had left.                                               *)
THEOREM RunsSettle == Spec => RunSettlesEdge
<1>1. Invariant /\ SettleInv /\ [Next]_vars
        => [\A r \in Runs : Finished(r) => Settled(run[r].clone)]_vars
  BY KnowsSettled DEF Finished
<1> QED BY <1>1, InvariantHolds, SettleHolds, PTL DEF Spec, RunSettlesEdge

=============================================================================
