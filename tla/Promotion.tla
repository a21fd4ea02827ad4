----------------------------- MODULE Promotion -----------------------------
(***************************************************************************)
(* One promotion edge whose target is no backflow source: the equivalence  *)
(* ladder (engine.EvaluateEdge) over the real commit graph, the planner,   *)
(* and overlapping runs of Coordinator.Plan and Coordinator.Apply that     *)
(* create, update and close the managed request, while people commit,      *)
(* revert, merge, back-merge and force-push.                               *)
(*                                                                         *)
(* A run reads branches from its own clone and requests from the forge,    *)
(* the open ones before the merged ones and both after the clone.          *)
(***************************************************************************)
EXTENDS EquivalenceLadder

CONSTANTS
  Runs,
  Methods,       \* the merge methods the target permits
  MaxCommits,    \* bound on objects
  MaxRelands,    \* bound on changes coming back to the source after removal
  MaxRewrites,   \* bound on force pushes of the source
  MaxFaults      \* bound on crashes and on what people do to requests

MergeMethods == {"merge", "squash", "rebase"}

ASSUME PromotionAssumption ==
  /\ Methods \subseteq MergeMethods
  /\ {MaxCommits, MaxRelands, MaxRewrites, MaxFaults} \subseteq Nat
  /\ None \notin Nat

VARIABLES
  source, target,   \* the heads of the two branches
  requests,         \* every managed request, by number
  latest,           \* the merged one that was updated last
  run,              \* the state of each invocation
  retracted,        \* changes people took off the target (history)
  hotfixed,         \* changes people put on the target (history)
  relands, rewrites, faults   \* counters

branches == <<commits, source, target>>
forge == <<requests, latest>>
history == <<retracted, hotfixed>>
counters == <<relands, rewrites, faults>>
vars == <<branches, forge, run, history, counters>>

(* merged is the head that was merged, method how (history).                *)
Request == [state: {"open", "merged", "closed"}, baseline: Nat,
            merged: Nat, method: MergeMethods \cup {"none"}]
Clone == [source: Nat, target: Nat]
Listed == [id: Nat, baseline: Nat]
Decisions == {"none", "create", "update", "close"}
Run == [pc: {"idle", "open", "merged", "apply"}, clone: Clone \cup {None},
        open: Listed \cup {None}, decision: Decisions]
Idle == [pc |-> "idle", clone |-> None, open |-> None, decision |-> "none"]

TypeOK ==
  /\ commits \in Seq(Commit)
  /\ source \in 1..Len(commits) /\ target \in 1..Len(commits)
  /\ requests \in Seq(Request)
  /\ latest \in 1..Len(requests) \cup {None}
  /\ run \in [Runs -> Run]
  /\ retracted \subseteq Changes /\ hotfixed \subseteq Changes
  /\ relands \in Nat /\ rewrites \in Nat /\ faults \in Nat

Init ==
  /\ commits = <<Root>>
  /\ source = 1 /\ target = 1
  /\ requests = << >> /\ latest = None
  /\ run = [r \in Runs |-> Idle]
  /\ retracted = {} /\ hotfixed = {}
  /\ relands = 0 /\ rewrites = 0 /\ faults = 0

-----------------------------------------------------------------------------
(* What the forge lists. *)

OpenIds == {i \in DOMAIN requests : requests[i].state = "open"}

OpenRequest ==
  IF OpenIds = {} THEN None
  ELSE LET i == CHOOSE i \in OpenIds : TRUE
       IN [id |-> i, baseline |-> requests[i].baseline]

(* matchRequest takes the first of a list that is in order of update.      *)
MergedBaseline == IF latest = None THEN None ELSE requests[latest].baseline

(* Any write moves a merged request to the front of that list.             *)
Touched(i) == IF requests[i].state = "merged" THEN i ELSE latest

-----------------------------------------------------------------------------
(* Steps of a run. *)

Local(r, next) == run' = [run EXCEPT ![r] = next]

Checkout(r) ==
  /\ run[r].pc = "idle"
  /\ Local(r, [Idle EXCEPT !.pc = "open",
                           !.clone = [source |-> source, target |-> target]])
  /\ UNCHANGED <<branches, forge, history, counters>>

ListOpen(r) ==
  /\ run[r].pc = "open"
  /\ Local(r, [run[r] EXCEPT !.pc = "merged", !.open = OpenRequest])
  /\ UNCHANGED <<branches, forge, history, counters>>

(* The second listing completes what the plan is made from.                *)
ListMerged(r) ==
  LET clone == run[r].clone
      decision == Planned(Unpromoted(clone, MergedBaseline), run[r].open, clone.source)
  IN /\ run[r].pc = "merged"
     /\ Local(r, IF decision = "none" THEN Idle
                 ELSE [run[r] EXCEPT !.pc = "apply", !.decision = decision])
     /\ UNCHANGED <<branches, forge, history, counters>>

Applies(r, decision) == run[r].pc = "apply" /\ run[r].decision = decision

(* Nothing is fetched after the checkout: "live" is the head of the clone.  *)
MutantRemoteHead(r) == source
LiveHead(r) == run[r].clone.source

(* An open request is adopted, and a branch without commits refused.       *)
CreateRequest(r) ==
  /\ Applies(r, "create")
  /\ requests' = IF OpenIds = {} /\ UniqueCommits(target, source) # {}
                 THEN Append(requests, [state |-> "open", baseline |-> LiveHead(r),
                                         merged |-> 0, method |-> "none"])
                 ELSE requests
  /\ Local(r, Idle)
  /\ UNCHANGED <<branches, latest, history, counters>>

(* The record is rewritten whatever has become of the request.             *)
UpdateRequest(r) ==
  /\ Applies(r, "update")
  /\ requests' = [requests EXCEPT ![run[r].open.id].baseline = LiveHead(r)]
  /\ latest' = Touched(run[r].open.id)
  /\ Local(r, Idle)
  /\ UNCHANGED <<branches, history, counters>>

(* A merged request gets the comment only.                                 *)
CloseRequest(r) ==
  LET i == run[r].open.id IN
  /\ Applies(r, "close")
  /\ requests' = [requests EXCEPT ![i].state = IF @ = "open" THEN "closed" ELSE @]
  /\ latest' = Touched(i)
  /\ Local(r, Idle)
  /\ UNCHANGED <<branches, history, counters>>

(* A crash, or a call that fails.                                          *)
Abort(r) ==
  /\ run[r].pc # "idle"
  /\ faults < MaxFaults /\ faults' = faults + 1
  /\ Local(r, Idle)
  /\ UNCHANGED <<branches, forge, history, relands, rewrites>>

Proceed(r) ==
  \/ ListOpen(r) \/ ListMerged(r)
  \/ CreateRequest(r) \/ UpdateRequest(r) \/ CloseRequest(r)

-----------------------------------------------------------------------------
(* What people and the forge do. *)

(* The changes some commit took out again.                                 *)
Removed == UNION {Diff(n).removed : n \in 2..Len(commits)}

(* The source moves to a tree; bringing a removed change back is bounded.  *)
SourceBecomes(tree) ==
  IF (tree \ Tree(source)) \cap Removed = {} THEN UNCHANGED relands
  ELSE relands < MaxRelands /\ relands' = relands + 1

CommitToSource(tree) ==
  /\ NextNumber <= MaxCommits
  /\ commits' = Append(commits, Child(source, tree))
  /\ source' = NextNumber
  /\ SourceBecomes(tree)
  /\ UNCHANGED <<target, forge, run, history, rewrites, faults>>

Land(x) == x \notin Tree(source) /\ CommitToSource(Tree(source) \cup {x})
Revert(x) == x \in Tree(source) /\ CommitToSource(Tree(source) \ {x})

(* A hotfix, or a change of the source picked onto the target.             *)
Hotfix(x) ==
  /\ x \notin Tree(target)
  /\ NextNumber <= MaxCommits
  /\ commits' = Append(commits, Child(target, Tree(target) \cup {x}))
  /\ target' = NextNumber
  /\ hotfixed' = hotfixed \cup {x}
  /\ UNCHANGED <<source, forge, run, retracted, counters>>

RevertOnTarget(x) ==
  /\ x \in Tree(target)
  /\ NextNumber <= MaxCommits
  /\ commits' = Append(commits, Child(target, Tree(target) \ {x}))
  /\ target' = NextNumber
  /\ retracted' = retracted \cup {x}
  /\ UNCHANGED <<source, forge, run, hotfixed, counters>>

(* The target is merged into the source.                                   *)
BackMerge ==
  LET tree == MergedTree(source, target) IN
  /\ UniqueCommits(source, target) # {}
  /\ NextNumber <= MaxCommits
  /\ commits' = Append(commits, MergeOf(source, target, tree))
  /\ source' = NextNumber
  /\ SourceBecomes(tree)
  /\ UNCHANGED <<target, forge, run, history, rewrites, faults>>

(* A force push drops the last commits.                                    *)
RewriteSource(n) ==
  /\ n \in Reach(source) \ {source}
  /\ rewrites < MaxRewrites /\ rewrites' = rewrites + 1
  /\ source' = n
  /\ SourceBecomes(Tree(n))
  /\ UNCHANGED <<commits, target, forge, run, history, faults>>

(* The open request, if any, is merged with the live head.                 *)
Merged(i, method) ==
  /\ requests' = [requests EXCEPT ![i] =
       [@ EXCEPT !.state = "merged", !.merged = source, !.method = method]]
  /\ latest' = i

MergeCommit ==
  /\ "merge" \in Methods
  /\ NextNumber <= MaxCommits
  /\ commits' = Append(commits, MergeOf(target, source, MergedTree(target, source)))
  /\ target' = NextNumber

Squash ==
  /\ "squash" \in Methods
  /\ NextNumber <= MaxCommits
  /\ commits' = Append(commits, Child(target, MergedTree(target, source)))
  /\ target' = NextNumber

(* The target's tree with the picked commits on top, the latest one that    *)
(* touches a change deciding.                                              *)
Replayed(picked) ==
  {x \in Changes :
     LET touching == {n \in picked : x \in Diff(n).added \cup Diff(n).removed}
     IN IF touching = {} THEN x \in Tree(target) ELSE x \in Tree(Max(touching))}

(* The commits are replayed in order, a merge cannot be.  One whose change  *)
(* is there already becomes empty.                                         *)
Rebase ==
  LET todo == UniqueCommits(target, source)
      count == Cardinality(todo)
      First(k) == {n \in todo : Cardinality({m \in todo : m <= n}) <= k}
      replay == [k \in 1..count |->
        [parents |-> <<IF k = 1 THEN target ELSE Len(commits) + k - 1>>,
         tree |-> Replayed(First(k)),
         reach |-> Reach(target) \cup Len(commits) + 1 .. Len(commits) + k]]
  IN /\ "rebase" \in Methods
     /\ \A n \in todo : ~IsMerge(n)
     /\ Len(commits) + count <= MaxCommits
     /\ commits' = commits \o replay
     /\ target' = Len(commits) + count

MergeRequest(i) ==
  /\ requests[i].state = "open"
  /\ UniqueCommits(target, source) # {}
  /\ \/ MergeCommit /\ Merged(i, "merge")
     \/ Squash /\ Merged(i, "squash")
     \/ Rebase /\ Merged(i, "rebase")
  /\ UNCHANGED <<source, run, history, counters>>

(* Somebody merges by hand and edits the result.  The forge then takes an   *)
(* open request for merged.                                                *)
ManualMerge(x) ==
  /\ "merge" \in Methods
  /\ UniqueCommits(target, source) # {}
  /\ x \notin Tree(source) \cup Tree(target)
  /\ NextNumber <= MaxCommits
  /\ commits' = Append(commits, MergeOf(target, source, MergedTree(target, source) \cup {x}))
  /\ target' = NextNumber
  /\ hotfixed' = hotfixed \cup {x}
  /\ IF OpenIds = {} THEN UNCHANGED forge ELSE \E i \in OpenIds : Merged(i, "merge")
  /\ UNCHANGED <<source, run, retracted, counters>>

(* A person closes an open request, or comments on a merged one.           *)
Handle(i) ==
  /\ faults < MaxFaults /\ faults' = faults + 1
  /\ requests[i].state # "closed"
  /\ requests' = [requests EXCEPT ![i].state = IF @ = "open" THEN "closed" ELSE @]
  /\ latest' = Touched(i)
  /\ UNCHANGED <<branches, run, history, relands, rewrites>>

People ==
  \/ \E x \in Changes : Land(x) \/ Revert(x) \/ Hotfix(x) \/ RevertOnTarget(x) \/ ManualMerge(x)
  \/ BackMerge
  \/ \E n \in Reach(source) : RewriteSource(n)
  \/ \E i \in DOMAIN requests : MergeRequest(i) \/ Handle(i)

Step == People \/ \E r \in Runs : Checkout(r) \/ Proceed(r) \/ Abort(r)

Fairness == \A r \in Runs : WF_vars(Checkout(r) \/ Proceed(r))

Spec == Init /\ [][Step]_vars /\ Fairness

-----------------------------------------------------------------------------
(* Correctness.  "In sync" is what a run would say that reads everything    *)
(* now.                                                                    *)

Now == [source |-> source, target |-> target]
InSync == Unpromoted(Now, MergedBaseline) = {}

(* The changes a branch once had and has no more.                          *)
Gone(n) == (UNION {Tree(m) : m \in Reach(n)}) \ Tree(n)

(* baselinePromoted: what the recorded head of a merged request makes       *)
(* promoted was in the head that was merged or is on the target, however   *)
(* late a run rewrites the record and wherever a force push takes the      *)
(* source.                                                                 *)
BaselineVouches ==
  \A i \in DOMAIN requests :
     requests[i].state = "merged" =>
       Reach(requests[i].baseline) \cap Reach(source)
         \subseteq Reach(requests[i].merged) \cup Reach(target)

(* EvaluateEdge, docs/architecture.md:85: an edge is in sync when there is  *)
(* no unpromoted source content, whichever rung says so.  Every change the *)
(* source has is then on the target, unless people took it off there.  A   *)
(* change that came back after it was taken out (relands) may be missed.   *)
LandedIsPromoted == InSync => Tree(source) \ Tree(target) \subseteq retracted

(* docs/guides/recipes.md:165: a revert on the source is carried forward    *)
(* like any other change, and a change reverted at the source is off an    *)
(* edge in sync unless people put it on the target.  This takes merge      *)
(* commits and no force push: a squash or a rebase leaves the merge base   *)
(* behind, and git then finds nothing to take out.  A change that came     *)
(* back (relands) may stay here too.                                       *)
MergeCommitsOnly ==
  /\ rewrites = 0
  /\ \A i \in DOMAIN requests :
       requests[i].state = "merged" => requests[i].method = "merge"

RevertIsPromoted ==
  InSync /\ MergeCommitsOnly => Gone(source) \cap Tree(target) \subseteq hotfixed

(* observeDownstreamReport clears residue by content: content that never    *)
(* was on the source still does not hide on the target, in whatever        *)
(* commit or merge it came.                                                *)
DriftReported ==
  Tree(target) \ (Tree(source) \cup Gone(source)) # {} => Drifted(Now) # {}

(* BuildPlan: exactly one managed request per diverged edge, none for an    *)
(* edge in sync, and the record names the head it proposes.  Once people   *)
(* leave the edge alone the runs get there and stay.                       *)
Settled ==
  IF InSync THEN OpenIds = {}
  ELSE \E i \in OpenIds : OpenIds = {i} /\ requests[i].baseline = source

Converges == <>[]Settled
=============================================================================
