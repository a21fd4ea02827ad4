------------------------------ MODULE Backflow ------------------------------
(***************************************************************************)
(* Backflow: the hotfixes of a downstream source branch are returned to    *)
(* the upstream target through one managed request, by overlapping runs of *)
(* Coordinator.Plan and Coordinator.Apply (internal/reconcile).            *)
(*                                                                         *)
(* Each run works in a full clone of its own, as old as its checkout, and  *)
(* on the live forge; no lock orders two runs.  A run replays what is      *)
(* left to return, pushes the branch named after the source head, opens or *)
(* adopts its request, and deletes and closes the requests of older heads. *)
(* If the replay conflicts it keeps one issue per edge instead (the        *)
(* conflict artifact, ADR 0008), which a later run closes.                 *)
(*                                                                         *)
(* A head is named by its history, the sequence of hotfixes below it: its  *)
(* ancestors are its prefixes.  A replay is named by what determines its   *)
(* object id, the target commit it was made on and the picks.              *)
(***************************************************************************)
EXTENDS Naturals, Sequences, FiniteSets, SequencesExt

CONSTANTS
  MaxHotfixes,   \* hotfixes are numbered in the order they are committed
  Runs,
  None,
  Settings       \* what a behaviour may be set to

(* strategy: backflow.strategy.  withheld: the hotfixes with the trailer   *)
(* Oiax-Backflow: skip.  The rest are bounds: the runs that take part, the *)
(* commits added to the target (base), the force pushes of the source and  *)
(* flips of its policy (rewrites), the crashes, failed calls and human     *)
(* dismissals (faults).                                                    *)
Setting == [strategy: {"cherry-pick", "merge"}, withheld: SUBSET (1..MaxHotfixes),
            runs: SUBSET Runs, base: Nat, rewrites: Nat, faults: Nat]

ASSUME BackflowAssumption ==
  /\ MaxHotfixes \in Nat
  /\ Settings \subseteq Setting
  /\ None \notin Nat

VARIABLES
  setting,    \* chosen at the start
  source,     \* the history of the source branch
  target,     \* the target branch and what it says of each hotfix
  branches,   \* the oiax/backflow branches of the remote, by encoded head
  requests,   \* the open managed requests
  artifacts,  \* the open conflict artifacts
  run,        \* the state of each invocation
  made, rewrites, faults   \* counters

remote == <<source, target, branches, requests, artifacts>>
counters == <<made, rewrites, faults>>
vars == <<setting, remote, run, counters>>

Hotfixes == 1..MaxHotfixes
Heads == Seq(Hotfixes)

(* returned: the ladder finds it on the target (provenance or patch id, or *)
(* ancestry for the merge strategy).  absorbed: the content is there but   *)
(* no rung sees it, so its pick is dropped as empty.  obstructed: its      *)
(* replay conflicts.  allows: merge commits may land.                      *)
Target == [base: Nat, returned: SUBSET Hotfixes, absorbed: SUBSET Hotfixes,
           obstructed: SUBSET Hotfixes, allows: BOOLEAN]
Branch == [head: Heads, base: Nat, picks: SUBSET Hotfixes]
Request == [id: Nat, head: Heads]
Artifact == [id: Nat, head: Heads]

Clone == [source: Heads, target: Target, branches: SUBSET Branch]

(* "supersede" .. "close": supersedeBackflow; "record" .. "write":         *)
(* recordBackflowConflict; "sweep", "resolve": resolveBackflowConflicts.   *)
Superseding == {"supersede", "delete", "close"}
BestEffort == {"record", "consolidate", "write", "sweep", "resolve"}
Stages == {"idle", "push", "create", "adopt"} \cup Superseding \cup BestEffort
Decisions == {"none", "create", "update"}
Run == [pc: Stages, clone: Clone \cup {None}, conflicted: BOOLEAN,
        todo: SUBSET Nat, current: Request \cup {None},
        stale: SUBSET Request, write: Decisions, canonical: Nat, clean: BOOLEAN]
Idle == [pc |-> "idle", clone |-> None, conflicted |-> FALSE, todo |-> {},
         current |-> None, stale |-> {}, write |-> "none", canonical |-> 0,
         clean |-> FALSE]

TypeOK ==
  /\ setting \in Settings
  /\ source \in Heads
  /\ target \in Target
  /\ branches \subseteq Branch
  /\ requests \subseteq Request
  /\ artifacts \subseteq Artifact
  /\ run \in [Runs -> Run]
  /\ made \in 0..MaxHotfixes /\ rewrites \in Nat /\ faults \in Nat

Init ==
  /\ setting \in Settings
  /\ source = << >>
  /\ target = [base |-> 0, returned |-> {}, absorbed |-> {}, obstructed |-> {},
               allows |-> TRUE]
  /\ branches = {} /\ requests = {} /\ artifacts = {}
  /\ run = [r \in Runs |-> Idle]
  /\ made = 0 /\ rewrites = 0 /\ faults = 0

-----------------------------------------------------------------------------
(* What a clone says. *)

Merging == setting.strategy = "merge"
Withheld == setting.withheld

(* EdgeState.ToReturn: the ladder of backflowToReturn, or target..source.  *)
ToReturn(c) ==
  LET unreturned == ToSet(c.source) \ c.target.returned
  IN IF Merging THEN unreturned ELSE unreturned \ Withheld

MutantMergesSkipped(c) == Merging /\ ToReturn(c) # {} /\ ~c.target.allows

(* planMergeBackflow: a skip in range, or a target without merge commits.  *)
Diverges(c) ==
  /\ Merging /\ ToReturn(c) # {}
  /\ ToReturn(c) \cap Withheld # {} \/ ~c.target.allows

Conflicts(c) == ToReturn(c) \cap c.target.obstructed # {}

(* The commits of the replay that are not dropped as empty.                *)
Picks(c) == IF Merging THEN ToReturn(c) ELSE ToReturn(c) \ c.target.absorbed

Replay(c) == [head |-> c.source, base |-> c.target.base, picks |-> Picks(c)]

(* CommitExists and ResolveCommit in a full clone: what is reachable from  *)
(* the fetched branches.  A merge commit has the source head as a parent,  *)
(* a cherry-pick does not.                                                 *)
Known(c, h) ==
  \/ IsPrefix(h, c.source)
  \/ /\ Merging
     /\ \/ \E b \in c.branches : IsPrefix(h, b.head)
        \/ ToSet(h) \subseteq c.target.returned

(* IsAncestor, for a head that is not h itself.                            *)
Older(h, head) == IsStrictPrefix(h, head)

(* The forge's next number, when those of S are taken.                     *)
NextNumbers(S) == {n \in {1} \cup {i + 1 : i \in S} : \A i \in S : i < n}

-----------------------------------------------------------------------------
(* Steps of a run.  A step that changes the remote spoils the clean record  *)
(* of every other run (history for the properties).                         *)

Moves(r, next) ==
  run' = [q \in Runs |-> IF q = r THEN next ELSE [run[q] EXCEPT !.clean = FALSE]]
Local(r, next) == run' = [run EXCEPT ![r] = next]
Goto(r, pc) == [run[r] EXCEPT !.pc = pc]

(* Where the plan and the replay in the worktree lead.                     *)
AfterReplay(c) ==
  IF ToReturn(c) = {} \/ Diverges(c) THEN "sweep"
  ELSE IF Conflicts(c) THEN "record"
  ELSE IF ~Merging /\ Picks(c) = {} THEN "sweep"
  ELSE "push"

(* An invocation checks out, plans and replays: all of it on its clone, but *)
(* for the target's merge policy.                                          *)
Plan(r) ==
  LET c == [source |-> source, target |-> target, branches |-> branches] IN
  /\ run[r].pc = "idle"
  /\ Local(r, [Idle EXCEPT
       !.pc = AfterReplay(c), !.clone = c, !.clean = TRUE,
       !.conflicted = Diverges(c) \/ (ToReturn(c) # {} /\ Conflicts(c))])
  /\ UNCHANGED <<remote, counters>>

MutantPushIfNamed(c) == \A b \in c.branches : b.head # c.source

(* RemoteTrackingHead: an unchanged replay is not pushed again.            *)
NeedsPush(c) == Replay(c) \notin c.branches

Others(h) == {b \in branches : b.head # h}

PushBranch(r) ==
  LET c == run[r].clone IN
  /\ run[r].pc = "push"
  /\ IF NeedsPush(c)
     THEN /\ branches' = Others(c.source) \cup {Replay(c)}
          /\ Moves(r, Goto(r, "create"))
     ELSE /\ UNCHANGED branches
          /\ Local(r, Goto(r, "create"))
  /\ UNCHANGED <<source, target, requests, artifacts, counters>>

Named(R, h) == {q \in R : q.head = h}

Ids(S) == {q.id : q \in S}

(* The requests some run still refers to, whose numbers are not reused.     *)
Pending == UNION {run[r].stale \cup ({run[r].current} \ {None}) : r \in Runs}

BranchExists(h) == \E b \in branches : b.head = h

(* CreateRequest, refused when the branch is gone, has nothing to merge, or *)
(* has an open request.  After a squash merge the commits of a branch are  *)
(* still unmerged, so the forge may accept a request for returned content. *)
CreateRequest(r) ==
  LET h == run[r].clone.source IN
  /\ run[r].pc = "create"
  /\ BranchExists(h) /\ Named(requests, h) = {}
  /\ \E n \in NextNumbers(Ids(requests \cup Pending)) :
       requests' = requests \cup {[id |-> n, head |-> h]}
  /\ Moves(r, Goto(r, "supersede"))
  /\ UNCHANGED <<source, target, branches, artifacts, counters>>

(* A refusal for a duplicate is followed by adoptDuplicate's own listing.  *)
CreateRefused(r) ==
  LET h == run[r].clone.source IN
  /\ run[r].pc = "create"
  /\ \/ ~BranchExists(h) \/ Named(requests, h) # {}
     \/ \E b \in branches : b.head = h /\ b.picks \subseteq target.returned
  /\ Local(r, Goto(r, "adopt"))
  /\ UNCHANGED <<remote, counters>>

AdoptDuplicate(r) ==
  /\ run[r].pc = "adopt"
  /\ IF Named(requests, run[r].clone.source) # {}
     THEN Local(r, Goto(r, "supersede"))
     ELSE Local(r, Idle)
  /\ UNCHANGED <<remote, counters>>

(* supersedeBackflow: requests of ancestors, and orphans, whose head the   *)
(* clone does not have.                                                    *)
Superseded(c, q) ==
  \/ Older(q.head, c.source)
  \/ ~Known(c, q.head)

Supersede(r) ==
  /\ run[r].pc = "supersede"
  /\ Local(r, [run[r] EXCEPT !.pc = "delete",
                 !.stale = {q \in requests : Superseded(run[r].clone, q)}])
  /\ UNCHANGED <<remote, counters>>

(* Delete before close; GitHub closes a request whose branch goes away.    *)
DeleteBranch(r, q) ==
  /\ run[r].pc = "delete" /\ q \in run[r].stale
  /\ branches' = Others(q.head)
  /\ requests' \in {requests, requests \ Named(requests, q.head)}
  /\ Moves(r, [run[r] EXCEPT !.pc = "close", !.current = q, !.stale = @ \ {q}])
  /\ UNCHANGED <<source, target, artifacts, counters>>

CloseRequest(r) ==
  /\ run[r].pc = "close"
  /\ requests' = requests \ {run[r].current}
  /\ Moves(r, [run[r] EXCEPT !.pc = "delete", !.current = None])
  /\ UNCHANGED <<source, target, branches, artifacts, counters>>

SupersedeDone(r) ==
  /\ run[r].pc = "delete" /\ run[r].stale = {}
  /\ Local(r, Goto(r, "sweep"))
  /\ UNCHANGED <<remote, counters>>

-----------------------------------------------------------------------------
(* The conflict artifact. *)

Canonical == CHOOSE a \in artifacts : \A b \in artifacts : a.id <= b.id
Duplicates == IF artifacts = {} THEN {} ELSE Ids(artifacts \ {Canonical})

MutantCreatesPerHead(c) ==
  IF \A a \in artifacts : a.head # c.source THEN "create" ELSE "none"

(* What recordBackflowConflict makes of the canonical artifact: it adopts  *)
(* a record of its own head, leaves one of a newer head alone, and         *)
(* advances any other, in particular one whose head the clone lacks.       *)
Decision(c) ==
  IF artifacts = {} THEN "create"
  ELSE IF Canonical.head = c.source THEN "none"
  ELSE IF Known(c, Canonical.head) /\ Older(c.source, Canonical.head) THEN "none"
  ELSE "update"

RecordConflict(r) ==
  /\ run[r].pc = "record"
  /\ Local(r, [run[r] EXCEPT
       !.pc = "consolidate", !.todo = Duplicates,
       !.write = Decision(run[r].clone),
       !.canonical = IF artifacts = {} THEN 0 ELSE Canonical.id])
  /\ UNCHANGED <<remote, counters>>

Reserved == UNION {run[r].todo \cup {run[r].canonical} : r \in Runs}

Writing(r, write) ==
  run[r].pc = "consolidate" /\ run[r].todo = {} /\ run[r].write = write
Written(r) == [Goto(r, "sweep") EXCEPT !.write = "none", !.canonical = 0]

CreateArtifact(r) ==
  /\ Writing(r, "create")
  /\ \E n \in NextNumbers(Ids(artifacts) \cup Reserved) :
       artifacts' = artifacts \cup {[id |-> n, head |-> run[r].clone.source]}
  /\ Moves(r, Written(r))
  /\ UNCHANGED <<source, target, branches, requests, counters>>

UpdateArtifact(r) ==
  LET advanced == [id |-> run[r].canonical, head |-> run[r].clone.source] IN
  /\ Writing(r, "update")
  /\ IF run[r].canonical \in Ids(artifacts)
     THEN /\ artifacts' = {a \in artifacts : a.id # advanced.id} \cup {advanced}
          /\ Moves(r, Written(r))
     ELSE /\ UNCHANGED artifacts
          /\ Local(r, Written(r))
  /\ UNCHANGED <<source, target, branches, requests, counters>>

KeepArtifact(r) ==
  /\ Writing(r, "none")
  /\ Local(r, Written(r))
  /\ UNCHANGED <<remote, counters>>

(* resolveBackflowConflicts closes an artifact of this head or an older    *)
(* one, unless this run saw the edge conflict.                             *)
Resolved(r, a) ==
  /\ ~run[r].conflicted
  /\ a.head = run[r].clone.source \/ Older(a.head, run[r].clone.source)

Sweep(r) ==
  /\ run[r].pc = "sweep"
  /\ Local(r, [run[r] EXCEPT
       !.pc = "resolve",
       !.todo = Duplicates \cup
                (IF artifacts = {} THEN {}
                 ELSE Ids({a \in {Canonical} : Resolved(r, a)}))])
  /\ UNCHANGED <<remote, counters>>

CloseArtifact(r, id) ==
  /\ run[r].pc \in {"consolidate", "resolve"} /\ id \in run[r].todo
  /\ artifacts' = {a \in artifacts : a.id # id}
  /\ Moves(r, [run[r] EXCEPT !.todo = @ \ {id}])
  /\ UNCHANGED <<source, target, branches, requests, counters>>

Finish(r) ==
  /\ run[r].pc = "resolve" /\ run[r].todo = {}
  /\ Local(r, Idle)
  /\ UNCHANGED <<remote, counters>>

-----------------------------------------------------------------------------
(* Failures.  A forge error of a request or branch call ends Apply without *)
(* a rollback, as a crash does; the artifact calls are best effort.        *)

Faulty == faults < setting.faults /\ faults' = faults + 1 /\ UNCHANGED <<made, rewrites>>

Abort(r) ==
  /\ Faulty
  /\ run[r].pc # "idle"
  /\ Local(r, Idle)
  /\ UNCHANGED remote

ArtifactCallFails(r) ==
  LET spoilt == [run[r] EXCEPT !.clean = FALSE] IN
  /\ Faulty
  /\ \/ /\ run[r].pc = "record" \/ (run[r].pc = "consolidate" /\ run[r].todo = {})
        /\ Local(r, [spoilt EXCEPT !.pc = "sweep", !.write = "none", !.canonical = 0])
     \/ /\ run[r].pc \in {"consolidate", "resolve"}
        /\ \E id \in run[r].todo : Local(r, [spoilt EXCEPT !.todo = @ \ {id}])
  /\ UNCHANGED remote

-----------------------------------------------------------------------------
(* The repository's other users. *)

Spoil == run' = [q \in Runs |-> [run[q] EXCEPT !.clean = FALSE]]

CommitHotfix ==
  /\ made < MaxHotfixes
  /\ made' = made + 1
  /\ source' = Append(source, made + 1)
  /\ Spoil
  /\ UNCHANGED <<target, branches, requests, artifacts, rewrites, faults>>

(* A force push drops the newest hotfixes.                                 *)
RewriteSource(n) ==
  /\ rewrites < setting.rewrites /\ rewrites' = rewrites + 1
  /\ source' = SubSeq(source, 1, n)
  /\ Spoil
  /\ UNCHANGED <<target, branches, requests, artifacts, made, faults>>

FlipPolicy ==
  /\ rewrites < setting.rewrites /\ rewrites' = rewrites + 1
  /\ target' = [target EXCEPT !.allows = ~@]
  /\ Spoil
  /\ UNCHANGED <<source, branches, requests, artifacts, made, faults>>

(* A commit on the target: unrelated, in the way of a hotfix, out of its   *)
(* way again, or carrying its content under another patch.                 *)
Obstruct(h) == [target EXCEPT !.obstructed = @ \cup {h}]
Unblock(h) == [target EXCEPT !.obstructed = @ \ {h}]
Absorb(h) == [target EXCEPT !.absorbed = @ \cup {h}]
Unsettled == (1..made) \ (target.returned \cup target.absorbed)

AdvanceTarget ==
  /\ target.base < setting.base
  /\ \E t \in {target} \cup {Unblock(h) : h \in target.obstructed}
              \cup {Obstruct(h) : h \in Unsettled}
              \cup {Absorb(h) : h \in Unsettled \ target.obstructed} :
       target' = [t EXCEPT !.base = @ + 1]
  /\ Spoil
  /\ UNCHANGED <<source, branches, requests, artifacts, counters>>

(* A reviewer merges a request: its picks are returned, or, when a squash  *)
(* lost the provenance, only their content is there.  The forge may delete *)
(* the merged branch.                                                      *)
MergeRequest(q) ==
  /\ q \in requests /\ target.base < setting.base
  /\ \E b \in branches :
       /\ b.head = q.head /\ b.picks \cap target.obstructed = {}
       /\ \/ target' = [target EXCEPT !.base = @ + 1, !.returned = @ \cup b.picks]
          \/ /\ ~Merging
             /\ target' = [target EXCEPT !.base = @ + 1, !.absorbed = @ \cup b.picks]
  /\ branches' \in {branches, Others(q.head)}
  /\ requests' = requests \ {q}
  /\ Spoil
  /\ UNCHANGED <<source, artifacts, counters>>

(* Someone closes a request or an issue by hand.                           *)
Dismiss ==
  /\ Faulty
  /\ \/ \E q \in requests : requests' = requests \ {q} /\ UNCHANGED artifacts
     \/ \E a \in artifacts : artifacts' = artifacts \ {a} /\ UNCHANGED requests
  /\ Spoil
  /\ UNCHANGED <<source, target, branches>>

-----------------------------------------------------------------------------
(* The specification. *)

Proceed(r) ==
  \/ PushBranch(r) \/ CreateRequest(r) \/ CreateRefused(r) \/ AdoptDuplicate(r)
  \/ Supersede(r) \/ CloseRequest(r) \/ SupersedeDone(r)
  \/ \E q \in run[r].stale : DeleteBranch(r, q)
  \/ RecordConflict(r) \/ CreateArtifact(r) \/ UpdateArtifact(r) \/ KeepArtifact(r)
  \/ Sweep(r) \/ Finish(r)
  \/ \E id \in run[r].todo : CloseArtifact(r, id)

Outside ==
  \/ CommitHotfix \/ FlipPolicy \/ AdvanceTarget \/ Dismiss
  \/ \E n \in 0..Len(source) - 1 : RewriteSource(n)
  \/ \E q \in requests : MergeRequest(q)

(* Its turn: a run is started or goes on.                                  *)
Turn(r) ==
  /\ r \in setting.runs
  /\ Plan(r) \/ Proceed(r)
  /\ UNCHANGED setting

Next ==
  \/ Outside /\ UNCHANGED setting
  \/ \E r \in Runs : Turn(r) \/ ((Abort(r) \/ ArtifactCallFails(r)) /\ UNCHANGED setting)

(* Runs are scheduled, and a started run goes on.                          *)
Spec == Init /\ [][Next]_vars /\ \A r \in Runs : WF_vars(Turn(r))

-----------------------------------------------------------------------------
(* Properties. *)

Finished(r) ==
  /\ run[r].pc = "resolve" /\ run[r].todo = {} /\ run[r].clean
  /\ run'[r].pc = "idle"

(* One open request, for this head, on a branch that carries this replay.   *)
Proposed(c) ==
  /\ Cardinality(Named(requests, c.source)) = 1
  /\ Replay(c) \in branches
  /\ \A q \in requests : Known(c, q.head) /\ ~Older(q.head, c.source)

NotObsolete(c) ==
  \A a \in artifacts : a.head # c.source /\ ~Older(a.head, c.source)

(* One issue, of this head; or of a newer one the clone still knows, which *)
(* only happens after a rewrite.                                           *)
Recorded(c) ==
  /\ Cardinality(artifacts) = 1
  /\ \/ Canonical.head = c.source
     \/ Known(c, Canonical.head) /\ Older(c.source, Canonical.head)

Settled(c) ==
  /\ AfterReplay(c) = "push" => Proposed(c) /\ NotObsolete(c)
  /\ AfterReplay(c) = "record" => Recorded(c)
  /\ AfterReplay(c) = "sweep" /\ ~Diverges(c) => NotObsolete(c)
  /\ Cardinality(artifacts) <= 1

(* Self-healing: a run that nothing disturbs settles the edge, whatever     *)
(* crashed runs, overlapping runs and people left behind: exactly one       *)
(* request or one issue for the current head, none for an older one.        *)
RunSettlesEdge ==
  [][\A r \in Runs : Finished(r) => Settled(run[r].clone)]_vars

(* A request always carries every hotfix of its head that the target still  *)
(* lacks, and nothing withheld, whichever run pushed its branch last and     *)
(* however old its clone was.                                               *)
Missing(h) == ToSet(h) \ (target.returned \cup target.absorbed \cup Withheld)
NoHotfixLost ==
  \A b \in branches :
     Missing(b.head) \subseteq b.picks /\ b.picks \cap Withheld = {}

(* Once people and faults leave the edge alone, it settles for good: the    *)
(* runs that go on overlapping do not undo each other.                      *)
Converges ==
  <>[]Settled([source |-> source, target |-> target, branches |-> branches])
=============================================================================
