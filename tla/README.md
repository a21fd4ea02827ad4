# Oiax in TLA+

Oiax promotes changes along a graph of branches (`dev -> staging -> main`) by
keeping one managed request open per edge, returns hotfixes from a downstream
branch to an upstream one (backflow), and tells receivers about the lifecycle
of its requests (notifications). It runs as short-lived processes: a CI job
clones the repository, reconciles once and exits. There is no server and no
local database. Everything that survives a run lives in the repository
(branches, the notes reference with the notification ledger), in the requests
and issues of the forge, and nowhere else. Runs overlap, are killed by the CI
system, lose replies, and work on clones of different ages. Those are the
behaviours this project is about.

## Inventory

| Component | Source | State it keeps | Operations | Modelled by |
| --- | --- | --- | --- | --- |
| Ledger reducers | `internal/notification/reducer.go`, `model.go`, `schedule.go` | none; pure functions on the ledger: accepted revision, destinations with lease and pacing, delivery records, override audit | `AcceptPolicy`, `OverrideRevision`, `AdmitEvent`, `SaveMessage`, `ClaimBatch`, `RenewBatch`, `CheckBatchSend`, `RecordResults`, `DueDeliveries` | `NotificationLedger` |
| Ledger store, codec | `internal/notification/store/` | none of its own | `Commit` (read, transition, validate, write, retry), `Validate`, `validateAppend` | `NotificationLedger` (what is refused), `NotificationRuntime` (the two halves of a commit), `NotesStore` (its retries) |
| Git notes | `internal/git/notes.go` | remote reference; per process `knownTip`, `pushedTip` | `Read`, `Write` | `NotesStore`, refining `LedgerRegister` |
| Dispatch | `internal/reconcile/notification_delivery.go`, `notification_runtime.go` | per run: batch of claimed records, receipts | `PrepareNotifications`, `FinalizeNotifications`, `Dispatch`, `dispatchBatch`, `ResetRevision` | `NotificationRuntime` |
| Observation | `internal/reconcile/notification_observe.go`, `internal/notification/creation.go`, `internal/forge/*/notifications.go` | in the ledger: cutoffs, known requests, scan intervals with their cursors | `Activate`, `Observe`, `recordObservation`, `ListLifecyclePage`, `GetLifecycleRequest` | `Observation` |
| Promotion engine | `internal/engine/` | none; pure | `EvaluateEdge` (equivalence ladder), `BuildPlan` | ladder and promotion planner: `EquivalenceLadder`; backflow planner: `Backflow`, `PromotionGraph`; `FromConfig`: `GraphConfig` |
| Reconcile coordinator | `internal/reconcile/reconcile.go` | per run: the plan, the set of conflicted edges; on the forge: requests, branches, conflict issues | `Plan`, `Apply`, `applyBackflow`, `supersedeBackflow`, `recordBackflowConflict`, `resolveBackflowConflicts` | one edge, call by call: `Promotion`, `Backflow`; the graph, run by run: `PromotionGraph` |
| Git command layer | `internal/git/git.go` | the clone | ancestry, diffs, patch ids, replay worktrees | its answers are operators of `CommitGraph` and of `Backflow` (`Known`, `Older`, `Replay`) |
| Providers | `internal/forge/github`, `internal/forge/azuredevops`, `internal/forge/marker` | none; on the forge: markers, labels, properties | list, create, adopt, update, close, artifacts, branches | `Provider` |
| Configuration | `pkg/api/v1/` | none | `Default`, `Validate`, `findCycle` | `GraphConfig` |
| Templates, rendering, CLI flags, logging | see `PROJECT.json` | none | pure text and wiring | not modelled |

How they interact. `cli/reconcile.go` runs `PrepareNotifications` (accept the
pinned policy), `Apply` (requests and backflow) and `FinalizeNotifications`
(accept again, observe, dispatch) in this order. The coordinator calls the
engine with what the git layer and the provider observed and carries the plan
out through the provider. Every notification write goes through
`store.Commit`: read the notes reference, apply a reducer, check the result,
push with the tip it read as the lease, and begin again on a conflict. Dispatch
starts one worker per destination; the workers of a run share one store, whose
mutex admits one commit at a time, and workers of different runs share only
the reference.

What is hard. Two runs claim the same records; a lease expires under a worker
that is still sending; a run dies between POST and receipt; a push lands and
its reply is lost, so the caller re-evaluates its transition over its own
result; a run of an older configuration overlaps a newer one; a run records
scan progress over that of a faster one; a request is created and not yet
labelled when the job is killed; a run decides from a clone, a scan or a list
that has since changed; a returned hotfix is promoted forward and must not be
returned again. `PROJECT.json` lists each of these under "hazards", at its
line, with the properties that cover it.

## What makes each component correct

- *Ledger and store*: a reducer never produces what the validation refuses; the
  accepted policy only advances, or a reset passes, on record, a commit that its
  own clone lacks; live work is never retired, retired work never sent.
- *Notes reference*: compare-and-swap atomicity in spite of tip caches, skipped
  reads and lost replies; nothing acknowledged is lost.
- *Dispatch*: a POST is claimed before it is made; a second acceptance by a
  receiver needs a mishap; acceptance is final; a delivery is given up only on
  a refusal; no record stays claimed for ever.
- *Observation*: recorded progress never passes an event that is owed and was
  not admitted; nothing from before an activation is announced; what is owed
  is admitted in the end.
- *Promotion*: an edge is "in sync" only when nothing is left to promote,
  whatever was merged, squashed, rebased, reverted or force-pushed before; the
  recorded head of a merged request vouches for nothing that was not merged;
  unknown content on the target does not hide; exactly one request stays open
  for a diverged edge and none for one in sync.
- *Backflow*: no overlapping run of whatever age makes a branch lose a hotfix;
  whatever an interrupted run leaves behind, a later run repairs.
- *The graph*: a return is final wherever it is promoted, unless a squash left
  out what it was picked from, and then it is dropped and not proposed; no edge's
  view hides a hotfix; the graph comes to rest, and at rest its branches hold
  the same changes.
- *Providers*: nothing is created twice in one attempt or by a garbled reply;
  other people's objects are spared; what a killed run leaves is adopted or
  consolidated by a later one.
- *Configuration*: a cycle is reported exactly when there is one; the three
  places that resolve defaults agree, but for `apiVersion` and `kind`, which
  `Default` fills in and `Validate` requires; an accepted document gives the
  planner what it relies on.

## Modules

### `NotificationLedger`

The ledger as a record (`anchor`, `revision`, `destinations`, `deliveries`,
`overrides`) and every reducer as a pair: `CanX` is the guard, in the order of
the early returns, and `X` the resulting ledger. A delivery key is a pair of
destination and event; a message is the configuration commit it was rendered
under; an attempt ID is the run that made it, because a run attempts a delivery
at most once. `ValidLedger`, `ValidAppend` and `Storable` are the codec's and
the store's own checks. Times are integers; the pacing and retry constants are
parameters.

### `NotificationRuntime`

Processes sharing one ledger. `stage[r]` is the progress of a run, `commit[r]`
the one ledger write it has in flight, and `worker[r][d]` the local state of
`dispatchBatch` for destination `d`. A ledger write is two steps: `Evaluate`
(read and reduce; an unchanged ledger returns at once) and `Push`, which
succeeds only while the tip is the one that was read. `PushUnacknowledged` is
the push whose reply is lost, `Reevaluate` the next pass of the retry loop,
`CommitFails` its end. The other actions carry the names of the functions they
model. `wire` and `mishaps` are history variables for the properties: they
never enable an action.

Which revision may follow which is asked of the run's own clone, as in
`notification_runtime.go:151-220`. `clone[r]` are the configuration commits that
the clone of run `r` has, and `Clones` which those can be: its own commit always,
and for a reset all that this is built on, because `oiax notifications reset`
refuses a checkout that is shallow or fetches only some branches. Any other
commit may be missing, whether the remote has lost it or the clone is older;
the code cannot tell, and neither can the model. So a reset may pass a commit
that the repository still has (the comment of `notificationRevisionOverride`
leaves that to the operator), and `RevisionAdvances` says no more than that the
reset's own clone did not have it.

### `NotesStore` and `LedgerRegister`

`NotesStore` is one level below: what `Read` and `Write` do with the tip
caches, in steps of one remote call each. `LedgerRegister` is what they
promise: a value that grows by whole updates, each applied to the current one.
`RegisterSpec` is the refinement. It is what justifies the single step `Push`
of `NotificationRuntime` and the atomic ledger commits of `Observation`.

### `Observation`

Runs that look for creations and merges. `ledger` holds what
`recordObservation` writes: the policy with a cutoff per subscription, the
known state of requests, one scan per kind, what was admitted. A scan is a
frozen interval and a cursor: a page number on GitHub, whose listing is in the
order of creation and is walked with one page of overlap, and a list of
partitions on Azure DevOps, halved while one has `PartitionLimit` entries or
more. A partition of a tick that cannot be halved any more fails closed
(`Dense`), so the limit is two and not one: one would make every partition with
an event dense. A run is `Begin`
(the policy of the pinned revision), `CreateRequest`, `ReadOutcome`,
`StartObserve` (both queries frozen from one reading of ledger and clock),
`PollKnown`, `ReadPage` and `RecordObservation`; each read that can fail does
so in `FailedRead`, with what the code keeps of a page that was read in part,
and `Crash` ends a run anywhere. Two runs interleave between any two of these.
A clock of ticks, some of them to a second, makes the stamps of the two forges
differ as they do: GitHub rounds an event down to its second. `due`, `late` and
`scanned` are history.

### `CommitGraph`, `EquivalenceLadder` and `Promotion`

`CommitGraph` is the history of a repository as data: a commit is its parents,
its tree (the set of changes it contains) and the commits it reaches, and
what git answers about ranges, merge bases, patch ids and merges are operators
on it. Patch ids are what the ladder makes of them: the changes a commit with
one parent adds and removes. So a revert has the patch id of no landing, and a
change that lands a second time has the patch id of the first. Objects are
never collected; branches move.

`EquivalenceLadder` is what the engine makes of the two heads of an edge:
`Unpromoted` is `EvaluateEdge`, `Drifted` is `observeDownstreamReport` and
`Planned` is `planPromotion`.

`Promotion` is one edge whose target is no backflow source. A run is `Checkout`
(the CI job clones), `ListOpen`, `ListMerged` (the second listing, then the
plan) and one of `CreateRequest`, `UpdateRequest`, `CloseRequest`, and people
act between any two of them: they land and revert on the source, fix and
revert on the target, merge the request by merge commit, squash or rebase,
merge by hand with an edit, merge the target back, force-push the source,
close requests and comment on merged ones. `LiveHead` is the "live" head of
`Apply`: it is read again, from the clone. `latest` is the merged request the
provider lists first, by time of update. `retracted`, `hotfixed` and the
fields `merged` and `method` of a request are history for the properties.

`LandedIsPromoted` and `RevertIsPromoted` are the two halves of "in sync".
The second needs `MergeCommitsOnly`: after a squash or a rebase the merge base
stays where it was, git merges a later revert of a promoted change to nothing,
and the target keeps the change while the recorded head calls the revert
promoted. `docs/guides/recipes.md:163-167` recommends reverting at the source
without this restriction.

### `Backflow`

One backflow edge: hotfixes on a downstream source branch, a target upstream,
and invocations that plan and apply. `Plan` is everything a run does on its
clone (checkout, `Coordinator.Plan`, the replay in a worktree): it fixes
`run[r].clone` and the branch of the code that `applyBackflow` takes. Each
later action is one forge call or one decision on what a call returned, under
the name of the function, so that other runs and people act between any two.
The clone never changes during a run, and the forge is always live.

Three abstractions carry the model. A head is its history, the sequence of
hotfixes below it, so ancestry is the prefix order and a force push cuts the
sequence. A replayed commit is the target commit it was made on and the
hotfixes it picks, which is what its object id is a function of (`CherryPick`
pins the committer). The target says of each hotfix whether the ladder finds
it (`returned`), whether only its content is there (`absorbed`, as after a
squash merge) and whether its replay conflicts (`obstructed`). `Known` is
`CommitExists` on a full clone: what the fetched branches reach, where a merge
commit keeps the source head alive and a cherry-pick does not. Numbers of
requests and issues are reused only when nothing refers to them. `clean` is a
history variable for the properties. `setting` chooses strategy, runs, withheld
hotfixes (the skip trailer) and bounds at the start, so that one run looks at
all of them. `Abort` is a crash, a killed job or a failed call that ends
`Apply`; `ArtifactCallFails` is a failed call of the best-effort part.

### `PromotionGraph`

All edges over one history. What `Promotion` and `Backflow` cannot see is how
they feed each other: a request that lands brings commits that other edges see,
a return is a new commit to promote, and what is promoted is new downstream
content. Here `Backflow`'s `returned` and `absorbed` are not given but computed
from commits: `ReturnedRange` is the range of `backflowReturned`, `IsReturned`
its two rungs, and `NamedBy` is what `provenanceSHAs` reads in the message of a
pick, where a second pick of the same commit hides the line of the first. The
message of a squash repeats the messages of the commits, or it is the title and
the body of the request and names nothing (`named`). What a squash of the second
kind carried is `unnamed`: every plan counts it again, and `Kept`, the replay
with `--empty=drop`, leaves it out. When such a commit comes back because its
change was taken out upstream, its next return is squashed with the names: a
hotfix and its revert, returned in one request, squash to nothing, and without
names they would be proposed and merged for ever.
`EdgeToReturn` is one edge's view, `ToReturn` the union that
`backflowActionState` makes of the views, cut down to what the upstream lacks.

`Run` is `Plan` and `Apply` of the whole graph in one step on a fresh full
clone; the modules above take it apart. `MergePromotion` and `MergeReturn` are
the forge merging a request as merge commit, squash or rebase, and `Work` is
people who land changes and hotfixes anywhere, pick a commit to another branch
and revert. A request for promotion merges the live branch; a backflow request
is its branch, a replay on the upstream head of the run that pushed it.
`returned`, `unnamed` and `retracted` are history. `setting` chooses a graph, its
sources and the ways of merging.

A document may list branches that the promotions do not join to the rest, and
sources that nothing reaches from the upstream (finding 8). The properties
speak of the others: `Fed` are the branches that get what is upstream, and
`Joined` those that feed one of them. `Leads` says so without recursion, by the
sets of branches that promotions do not lead out of.

### `Provider`

Both providers one HTTP exchange at a time: `send` answers, or the reply is
lost after or before the forge acted, or does not decode, and `Retried` says
what is sent again. A behaviour looks at the managed request, the conflict
artifact or the backflow branch of one edge on one forge. A run lists, decides
(`PlanRequest`, `NextArtifact`) and carries out one operation, in the order of
the code: create and then label (GitHub) or write the second marker copy (Azure
DevOps), with adoption when the forge says there is a duplicate, and a cleanup
when labelling fails; get, check, rewrite; consolidate, update or close
artifacts; push, and delete a branch at once or at the tip that was resolved.
A run whose clone is full and older than a conflict record takes its head for
rewritten history and writes its own over it (`full`); a shallow one, or one that
fetched meanwhile, leaves it.
Two runs may be binaries of different marker versions. People merge, close,
edit the marker out and open requests between the same branches or from a fork.

### `GraphConfig`

What becomes of a configuration document: `Start` hands it to `Validate` as
written or after `Default`, the steps of `findCycle` follow (visit a root, look
at a neighbour, return), `Report` collects the broken rules and what
`engine.FromConfig` makes of the document. A name is its place in the order
`sort.Strings` gives it. The rules are those on the header (`apiVersion`, `kind`,
`metadata.name`), branches, promotions with their templates, backflow, templates
and notifications; of the last, what looks at one value (endpoint variables,
label texts, template sources, the number of destinations) is left out.

`DefaultsAgree` has one exception, which is the code's: an `apiVersion` or `kind`
that is not set is filled in by `Default` and reported by `Validate`
(`validate.go:29-34`, `73-78`), as the comment of `Validate` says. `Unset` names
exactly these.

### Instances and proofs

`MCRuntime`, `MCNotes`, `MCObservation`, `MCBackflow`, `MCPromotion`,
`MCPromotionGraph`, `MCProvider` and `MCGraphConfig` hold the values of the
runs. `NotesStoreProofs`, `NotificationRuntimeProofs` (with the reducers of
`NotificationLedger`), `ObservationProofs`, `BackflowProofs`, `PromotionProofs`,
`PromotionGraphProofs`, `ProviderProofs` and `GraphConfigProofs` hold the
theorems.


## Runs

| Run | Question | Bounds |
| --- | --- | --- |
| `dispatch` | A batch of two deliveries, two runs of one commit, one clock a tick ahead; crash, lost reply or failed write, renewal, lease expiry, takeover, retries | clock to 3, one tick more on the clock ahead, with leases of 3; 1 fault, 2 attempts |
| `policy` | Two runs of one configuration, one of a configuration that drops a subscription and one of a third that moves the endpoint and drops the other subscription overlap; a reset brings the first back past a successor its clone lacks | 4 runs of 3 configurations, the second and third both built on the first; clock at 1, 1 commit missing in 1 clone, 1 reset |
| `liveness` | Every started run ends; without faults nothing stays claimed | 2 runs, one clock a tick ahead, 1 event, clock to 3, 1 fault, refusals with and without `Retry-After` |
| `notes` | The notes reference against the register | 2 processes, 2 commits each, 2 passes, 2 faults |
| `observation` | Two overlapping runs and three revisions of the policy, of which the second replaces the merge subscription by one to creations and the third brings it back: does recorded progress pass an event that is owed, is anything announced from before an activation | both forges; 2 requests, one older than the policy; a second is 2 ticks, clock to 2; 1 entry to a page, 3 pages to a run; symmetric in the runs |
| `observation_live` | One run after another: what is owed is admitted in the end | the same with 4 pages to a run, 1 failed read or killed run; the clock to 3 on Azure DevOps; partitions of 2 entries and more are halved |
| `backflow` | Overlapping runs of different age, by cherry-pick (`Overlapping`) and by merge with a withheld hotfix (`MergesOverlapping`), and runs one after another over a force push (`Rewritten`): what a branch carries, what an undisturbed run leaves behind, and that the edge comes to rest | 2 hotfixes, 1 or 2 target commits, 1 rewrite, 1 fault (none in `Overlapping`) |
| `promotion` | One edge and one run at a time, while people do all of the above: both halves of "in sync", the recorded head, drift, and that the edge settles | 2 changes, 5 commits, 1 force push, 1 crash, closed request or comment |
| `promotion_graph` | Is a return final, is a hotfix overlooked, does the graph come to rest, and does it hold the same changes everywhere then | 8 settings: loops of two branches (either strategy, every way of merging, and rebase only), lines of three with one or two sources, a diamond, a join of two branches into the source; 2 to 4 commits of people, 1 revert |
| `provider` | One attempt and its retry on either forge, for requests, conflict artifacts and branches, by two runs, the second of a newer build, or for artifacts also of the same; and that the forge comes to order | 2 heads, 3 numbers, 1 retry, 1 mishap, 2 events (1 for artifacts) |
| `graph_config` | Every list of up to 4 promotions among 4 branches, and documents that break each rule of the model | 4 names, one of them malformed |
| `azure_marker` | A finding: the run must be violated | as `provider`, one forge, requests only |

Why the bounds suffice for the cases they are meant for. A lease of 3 with a
clock up to 3, which is 4 on the clock ahead, can be renewed in its last half,
expire on the clock ahead, and be taken over while the first worker is still
sending. Two attempts reach the retry limit. Two runs are enough for every
takeover; four occur where policies replace each other, where the order of the
writes matters and not the time between them. A batch meets its second stale
payload when its policy is replaced, brought back and replaced again, which
takes a run for each step besides its own; one replacement narrows and the
other moves, and being built on one commit they exclude each other without a
reset. In `observation` two requests and pages of one entry make a
listing of two pages, so that an entry can move between them, and the two scans
of a run, of two pages each, do not fit the three pages it has: progress is
recorded in the middle of a scan and resumed by either run. Three instants are
a whole second and the start of the next. `observation_live` has the four pages
that let both scans of a run end; with three it fails (finding 6). On
Azure DevOps its clock goes to three (`Horizon`): a scan through that instant is
halved, the two requests lie in different halves, each half is a page, and a
failed read or the end of a run comes between them. A scan that forgets the
second half, one that takes a page that failed for read, one that begins anew
after a cut, and one that resumes a finished interval each violate
`EventuallyDelivered` there, with this forge alone. Two hotfixes
give an older and a newer head; one target commit is enough for a conflict, a
squash or a merge; a merged request after an unrelated commit needs two, in
`Rewritten`. For `Converges` the bounds of the users are what makes them stop.
In `promotion` five commits are the root and four more: enough for a change
that lands, is promoted in each way and reverted or followed by another, and
for a hand-made merge after that. Two changes are needed for a recorded head
that covers one and not the other. `MaxRelands` is zero there because a change
that comes back is a finding (4 below), which needs seven commits. In
`promotion_graph` only `work` and `reverts` bound the people: no history gets
longer than 18 commits, so that `MaxCommits`, which is 20, cuts nothing, and
what is bounded is people and never Oiax. A hotfix, a change upstream, and a
pick or a revert of one of them is what it takes for two commits of one change
to meet on one branch. In `provider` one mishap is a lost reply, a garbled one
or a crash; together with a second run and two events it reaches each half-made
object. These runs check safety and liveness on one instance, and liveness costs
TLC several times what safety does, so they are as small as the waits need: the
safety invariants are proved for every size.

`MaxTime`, `Horizon`, `MaxFaults`, `MaxGaps`, `MaxMishaps`, `MaxEvents`, `MaxRewrites`, `MaxRelands`,
`MaxCommits`, `MaxHotfixes`, `MaxPending`, `MaxHead` and `MaxId` are guards of
the model and not of the code. `MaxAttempts`, `MaxRetry`, `PageLimit`,
`PageBudget`, the delivery budgets and the override limit are the code's own
limits at a smaller size, and so is `PartitionLimit`. `CHECK_DEADLOCK` is off where runs end and users may
do nothing; in `promotion_graph` and `graph_config` a step is always possible
and deadlock is checked. The type invariants are proved for all constants, and
no run repeats them.

`LeaseFencesSends` asks every clock. With clocks apart a run that is ahead may
take over a lease that the other still reads as its own; that is accepted, and
`TakenOnceUnlessMishap` counts such a takeover as a mishap. It also leaves out
commits that an operator reset let return (`Reinstated`): the reset starts the
destination afresh while a worker of the commit's first time may still be
sending. `AtMostOneStalePost` counts one more payload for each such reset, and
`StoreNeverRefuses` excepts the claim of a record that was retired in between
(finding 3). All three exceptions need a reset. `policy` visits the last two; the
first does not occur within the bounds of a run and is left to the proof.

`WorkIsInForce` and `RetiredOnlyByPolicy` are the two directions of one claim:
what is still to be sent is what the accepted policy asks for, and nothing is
retired that it asks for.

In `Observation` the cutoff of a subscription is new when it comes back after
it was dropped. What it was owed before is gone (`due` shrinks when a policy
without it is accepted), as the code drops the cutoff with the subscription.

`RunSettlesEdge` is the claim the documentation makes with "self-healing": if
nobody else changed the forge during a run that ends without an error, there
is exactly one request for the current head on the current replay, or exactly
one issue, and none for an older head, whatever was there before. It does not
speak of the state between overlapping runs: ADR 0008 accepts a short
duplicate of an issue, and `Converges` shows that it does not last.

`WatermarkSound` and `EventuallyDelivered` leave out events that are `late`:
those a forge stamps with an instant before the end of a scan that has already
been made. That exception is finding 7, and it is no wider than the code makes
it: an event is late only when its stamp is below what is on record.

### Fairness

A process that was started goes on with its own steps: the send loop is bounded
by its batch, pages by a budget, retries by a limit, and every HTTP or git call
by a timeout. This is `WF_vars(Proceed(r))` in `NotificationRuntime`, and the
fairness of the remote calls of a commit in `NotesStore`. There nothing else is
fair: no invocation need be started, no event observed, no tick taken.

The guides have Oiax run on every push and on a schedule, so in `Backflow`,
`Promotion`, `Observation` (for the runs in `Recurring`) and `Provider`
invocations keep coming, and the fair action includes the first step of a run
(`Plan`, `Checkout`, `Begin`). A crash may end any of them; crashes are bounded
and not fair. `PromotionGraph` has `WF_vars(Run)`, the schedule, and weak
fairness of the merges: people merge what is proposed to them in the end. This
is an assumption about people, it is used for `Settles` only, and without it
nothing could come to rest.

## What is proved

`NotesStoreProofs`: types, `CachesOnChain`, `AckedIsKept` and the refinement
`RegisterSpec`, for every set of processes. The argument: a successful push
extends the remote value, so chains only grow, and each cached tip was the
remote value at some time; hence it stays a prefix. A push under a lease equal
to the remote is an `Apply` of the register and every other step stutters.

`NotificationRuntimeProofs`: `IInv` is inductive. Beyond types it says that a
commit in flight has the shape of its operation, that what each worker
believes to have claimed is claimed in the ledger under its attempt ID, that a
ledger without an anchor is untouched, and that a commit whose tip is still
fresh evaluates to what it evaluated to when it was read. The last part is
what makes the two-step write behave as one: without it nothing relates the
pushed value to the guard that was checked. `WriteAhead` and `PolicyAdvances`
follow. They hold for every number of runs, destinations, events and
configurations, under the assumptions on constants in the modules.

What becomes of a delivery rests on `IInv` in three layers. The reducers come
first: what each does to one record and to one lease (`Quiet`, `Settled`, who
may take an attempt back). Then one step of one run: what it does to its own
workers and what to the ledger, so that the invariants need not look at the
reducers again. Then the invariants. `TakenOnce` follows from an attempt ID on
each record that only its own run's claim writes, and from a lease that no
other claim passes; `AcceptanceKept` from `delivered` being final for each
reducer; `GivenUpRefused` from the code that only a refusal leaves;
`LeaseFences` and `StalePostsBounded` from revisions that only advance
(`AncestryAssumption`: history is a strict order) except where a reset is on
record. `WorkFollowsPolicy` and `PolicyRetires` say that `acceptPolicy` retires
what the new policy no longer has and nothing else. `ReceiptAssumption` keeps
"no receipt" apart from a receipt. `StoreRefusesNothing` proves
`StoreNeverRefuses`: `VInv` says that every record is one the codec accepts
and, what no guard asks for, that no attempt was ever made without a message
(otherwise a late acceptance would deliver a record that `Validate` refuses);
each reducer then only appends (`Grows`). The one case that is left, a claim
that renders a record retired meanwhile, needs `Tasked`: the policy of a run
asks for each of its tasks, so the task is retired only by a policy that
replaced it, and only a reset on record brings the policy of the run back. That
is the exception the invariant names.

`ObservationProofs`: `Invariant` says that every progress, on record or in the
hands of a run, passes only what was admitted or is about to be
(`Covered`). `WatermarkSound` alone is not inductive: a run may put progress on
record that it took from a ledger and a policy long replaced. `OlderProgress`
is why that does no harm: what becomes owed later lies beyond all progress made
before, because a cutoff is taken from the clock and a query ends before it.
`PageFindsAll` is the other half, for both forges: the progress of a page
passes only what the query had passed or what the page found, with one page of
overlap on GitHub and with halved partitions on Azure DevOps. `WatermarkHolds`
and `NothingBackfilled` follow, for any number of runs, revisions, requests,
pages and failures.

`ProviderProofs`: a run knows of an object what it read some exchanges ago, and
others have changed it since. `Invariant` says what may still be relied on: a
request that a run works on is oiax's own, all markers of one request have the
version of the build that created it (so the version check on any copy, at any
time, decides for all), a call has made nothing, or one object that it is about
to mark, or something it never heard of, and each artifact a run calls a
duplicate has a labelled one before it, since labels are never taken away. The
version of each request is a witness of the invariant and no variable of the
model. `ExchangeKept` treats the four outcomes of an exchange once for all
calls. `ForeignIsSpared` and `CallsCreateOnce` follow. For `OneArtifactIsKept`
the lowest labelled artifact is nobody's duplicate, whatever the listings said.
For `OrphansArePaidFor` every exchange about an artifact is `Tidy`: answered,
it leaves no open artifact without a label behind, and failed, at most the one
it was about.

`BackflowProofs`: `Invariant` is inductive for both strategies and any number
of runs, hotfixes, force pushes and failures. `NoHotfixLost` alone is not: a
run pushes from a clone that may be arbitrarily old. `CloneInv` adds what makes
this harmless, that what the clone's target had returned or absorbed the target
still has (content only arrives), and that a run pushes only where its own
replay neither diverged nor conflicted. `ReplayCarries` is the step: such a
replay carries whatever the target lacks now. `HotfixesKept` and `TypeCorrect`
follow. A branch that somebody reverts on the target is outside this model.

`RunsSettle` proves `RunSettlesEdge` from a second invariant, `SettleInv`. An
undisturbed run knows more at each stage (`Knows`): that its replay is on the
remote, then that its request is open, then that every request still to be
superseded is on its list; or that the canonical issue is the only one not about
to be closed. `UniqueInv` carries the counting: no head has two open requests,
which a run that adopts one does not check itself, and no two issues have one
number. Any step of someone else that changes the remote ends the claim
(`OwnStep`, `OthersSpoil`), and no step of the run undoes what an earlier one
brought about: deletion spares its own head, because a clone knows its own
source.

`PromotionProofs`: `Invariant` is inductive for any number of runs, changes,
commits and force pushes and for every set of merge methods. `BaselineVouches`
speaks of the head a merged request has on record. It is not inductive, since
a run may write the head of its clone into that record at any later time, long
after the request was merged and the source was force-pushed. `RunInv` says
that the head of every run that has seen an open request is vouched for by
that request too, merged or not. `VouchedKept` is the step: a source that
advances gains only new commits and those of the target, the target loses
none, and a request that becomes merged is merged with the source of that
moment. `BaselinesVouch` and `PromotionTypeCorrect` follow.
`DriftIsReported` needs the invariant `HistoryInv`: a commit has one or two
parents, older ones that it reaches. Content of the target that is in no commit
the source reaches has a first commit on the target that holds it; that commit
is beyond the merge base, its parents lack the content, so it is a landing of
that content or a merge that added it, and neither rung of the downstream
report clears such a commit.

`LandedPromoted` and `RevertsPromoted` are the two halves of "in sync", for
histories in which nothing comes back to the source that some commit took out
(`relands = 0`, which the run `promotion` has as a bound); finding 4 is what
happens otherwise. Each has an invariant of its own. `ContentInv` adds to the
two above `GrowthInv` (a commit reaches what its parents reach, and a merge with
content of its own is on the target), `RecordsInv` (the request on record is
merged, and what was merged is on the target but for what some commit took out)
and `ReturnInv` (what was taken out and is on the source people took off the
target). A change the target lacks has a first commit on the source
(`Brought`), and whichever rung promotes that commit, the change was on the
target (`Inherited`, `InSyncMeans`). The recorded head needs `BaselineVouches`
here, and a rebase needs `RebaseGrows`: it takes nothing out that no commit took
out and brings the rest. Without the condition on `relands` this shows
`SyncLacksOnlyRemoved`: whatever an edge in sync lacks, some commit took out.
`RevertInv` adds `EdgeInv`: there is a commit below which lies all that the
branches have in common, so it is the merge base. What the source lost since,
one of its own commits took out (`LostSince`); what the target gained since are
hotfixes (`GainedSince`); what a commit of the target took out since is gone
there and not new on the source (`TakenOffSince`), so the patch of a revert that
is still to be promoted cannot be found there. `MethodInv` says that what was
merged with a merge commit is reached. With merge commits only and no force
push, the target of an edge in sync has nothing over the source but hotfixes
(`SyncAddsOnlyHotfixes`), whatever people picked, took off or merged by hand.

`GraphConfigProofs`: for every graph, `findCycle` reports a cycle exactly when
there is one (`CycleFound`). The invariant says that the stack is a path from
the root to the branch being looked at, that what it has passed over is
finished or on the stack (`Behind`), and that a finished branch has only
finished successors that were finished before it. The order of finishing is
the rank that shows that a search that ends without a report leaves no cycle.
`AcceptedGraphHolds`: in what the planner is given of an accepted document, no
promotion is listed twice, all of them join declared branches and go down in the
order in which the search finished these, so that none lead round, none goes to
the backflow target, every source is another branch with `drift: forbidden`, and
the merge strategy goes with merge commits. `DefaultsAgreeHolds`: for every
document the defaults that `Validate`, `Default` and `FromConfig` resolve are
the same ones, but for an unset `apiVersion` or `kind` (`DefaultHeader`;
`NoneAssumption`: what a document leaves out is told apart from
every value it may give).

`PromotionGraphProofs`: `ReturnIsDurable` for every graph, every set of sources,
both strategies and histories of any length (`ReturnsDurable`): a hotfix that
was returned, by a request that was not squashed without naming its picks, is
never among what a run plans to return again, however it was promoted, picked on
or reverted since. Alone it is not inductive. `GraphInv`
says that a commit reaches itself and older ones; `RequestInv` that what an open
request refers to exists and, under the merge strategy, is below its head;
`Twin` that such a returned commit has a younger commit in the upstream that
names it or, under the merge strategy, is itself there. Being younger, the twin is never
an ancestor of its original, so the range that `backflowReturned` searches
always contains it, wherever promotion has moved the merge base since. This is
the argument that neither `Backflow` nor `Promotion` can make, each of which sees
one direction.

`NoHotfixOverlooked` and `EverythingEverywhere` speak of content, and need
`ContentInv`, which is inductive (`ContentHolds`). To the invariant above it adds
four parts. `HistoryInv`: along a branch changes are lost only by what people
took out, and a merge adds nothing of its own. `RecordInv`: the head an open
request has on record is one the source had, and what the latest merged request
promoted is on the target. `BaseInv`: a request for return stands on a head of
the upstream, and its picks have patches. `NamesInv`: what a message names has
its changes upstream, but for what was taken out; without it a pick that git
reduced to nothing would make a hotfix look returned. `HotfixesSeen` then follows
a change of a source along the promotions from the upstream to that source: at
some edge the target has it and the source has not, the first commit below the
target that brought it in is downstream residue of that edge, and it is
returnable or reported. `ChangesEverywhere` uses the same steps in both
directions: with nothing proposed, no edge holds back a change (up the graph by
`HotfixesSeen`, down it because an edge in sync leaves nothing unpromoted).

Only model-checked, since fairness and `ENABLED` are out of the prover's reach:
`RunsEnd`, `ClaimsSettled`, `CommitsReturn`, `Converges`, `EventuallyDelivered`,
`ComesToOrder`, `Settles`; and `UnnamedIsDropped`, which has no proof yet. Every
other safety and action property of the passing runs is a theorem,
`LandedIsPromoted` and `RevertIsPromoted` under the condition given above.
Without it they are false, as finding 4 says.

## Findings

`PROJECT.json` quotes the lines that say otherwise. The first is a run that is
violated; the others were met while modelling, and are given with the way to
see them.

1. Azure DevOps loses a request whose marker a person edits out of the
   description: the listing does not look at the copy in the property, creation
   is refused as a duplicate, and adoption uses the same listing. Every later
   run ends in this error (`azure_marker`, `TrackNeverLost`).
2. A record that cannot be rendered keeps using up the budget of its
   destination (`DueDeliveries` of `NotificationLedger` has no other filter
   than time).
3. A record retired by another run before it had a message is given one inside
   the claim, and the store refuses the whole claim (`CanClaim`, `ValidAppend`).
   It takes a run whose policy is put in force again by a reset, which `policy`
   reaches (`RetiredUnderneath`).
4. A change and its revert are promoted by rebase, then the change lands on the
   source again: every candidate has a patch id the target's range contains, so
   the edge is in sync by patch identity and the change is never promoted. Set
   `Methods = {"rebase"}`, `MaxRelands = 1` and `MaxCommits = 7` in
   `Promotion.cfg`, and `LandedIsPromoted` is violated. Merge commits alone are
   not safe from it: a change is promoted, reverted on the target and on the
   source, lands and is promoted again, and is reverted on the source once more.
   That revert has the patch id of the one on the target, which the range of the
   target still contains, and the edge is in sync with the change on the target
   (`RevertIsPromoted`, with `Methods = {"merge"}`, one change,
   `MaxRelands = 1` and `MaxCommits = 9`).
5. A run on a full clone that predates a newer hotfix does not find the newer
   request's head, takes the request for an orphan of rewritten history, and
   deletes its branch and closes it (`Superseded`). The next run at the
   tip opens it again, which is why `RunSettlesEdge` holds. The same lookup in
   `recordBackflowConflict` moves a conflict record back to an older head
   (`NextArtifact` of `Provider`, with `full`); `ComesToOrder` shows that later
   runs bring it forward again.
6. Scans share a page budget, creations go first: when they need all of it in
   every run, merges are never scanned. Set `PageBudget = 3` in
   `ObservationLive.cfg`, and `EventuallyDelivered` is violated.
7. A scan begins where the one before ended, and an event later in the second
   of that end is stamped before it: no scan asks for it (`late` in
   `Observation`).
8. A backflow source to which nothing is promoted passes validation, and no run
   looks at it (`AcceptedGraph` therefore does not say that a source has a
   promotion into it). The same becomes of a source with promotions into it that
   do not begin at the backflow target, as `main` with `qa -> main` and the
   target `dev`: what was promoted from `qa` is no drift there and is not
   returned. `NoHotfixOverlooked` and `EverythingEverywhere` therefore speak of
   the branches in `Fed` and `Joined`.
9. `BuildPlan` does not cut what an edge calls returnable down to what the
   upstream lacks, as `applyBackflow` does: with two edges into a source a plan
   may count, in every run, a request that no run creates (`EdgeToReturn`
   against `ToReturn` of `PromotionGraph`, in the setting `Join`).
10. `docs/guides/backflow.md:332-335` calls a squashed return fine because the
    provenance lines are read from the message of the squash. A squash whose
    message is the title and the body of the request has none, and one squash
    of two picks has the patch id of neither: every later plan counts both as to
    be returned, and `Apply` drops them each time (add the invariant
    `SquashedReturnRecognized` to `PromotionGraph.cfg`). `UnnamedIsDropped` is what does hold: nothing
    is proposed, until somebody takes the change out upstream or reverts it.

Two smaller disagreements. With the merge strategy of backflow the request's
own branch keeps a rewritten head alive, so its request is not closed as an
orphan as `docs/guides/operating.md:126-128` has it; `RunSettlesEdge` holds
because it asks only for heads the clone does not have. A comment of
`notification_delivery.go` (lines 131-134) says that a policy accepted between
the claim and any POST stops the stale payloads. The ledger is read before the
POST, so one payload may still leave; `AtMostOneStalePost` is the exact bound.

## Not modelled, and why

- Text: templates, payload formats, diagnostics, the wording and paging of
  comments. No control depends on them except whether a message renders, which
  is the constant `Renderable`, and whether a marker is found, which `Provider`
  models.
- Of notifications: the byte budget of the ledger (`CheckCapacity`) is a bound
  on the number of deliveries; requests a forge no longer shows, the syntax of
  cursors, and the commit lists of an event; the single-record `Claim`,
  `RenewClaim` and `RecordResult`, which only tests call.
- Of backflow: shallow clones, where supersede and record leave unknown heads
  alone, and the issue of a head that a force push left diverged, which ADR
  0008 leaves open for people.
- Of promotion: the lookback window of merged requests, requests that are not
  managed, branches without a common ancestor, merge conflicts and criss-cross
  merges with several best bases, the policy `drift: expected`.
- Of the graph: conflicts, the skip trailer, force pushes and overlapping runs,
  which are in `Promotion` and `Backflow`; returns of the merge strategy that
  are merged by squash or rebase, which ADR 0006 forbids and
  `expectedMergeMethod` sets.
- Of the providers: the window between the GET and the PATCH of `UpdateRequest`,
  in which an edit by a person is written over; the check of a newer build's
  artifact before it is written, which is one step; transport below one
  exchange (paging, rate limits, authentication); numbers beyond `MaxId`.
- Of the configuration: finding and parsing the file, YAML syntax, the rendering
  of templates, the rules on the templates, endpoint variables, label texts and
  number of notification destinations, and regular expressions. They look at one
  value at a time.
- The command line is wiring; the order in which it calls the parts is in
  `NotificationRuntime`, `Observation`, `Promotion` and `Backflow`.

## Plan

Done: ledger, runtime and notes reference; observation; one edge of promotion
and one of backflow; their composition over a graph; the providers; the
configuration of the graph.

1. Overlapping runs in `PromotionGraph`, and in `promotion` under TLC (the
   theorem covers `BaselineVouches` only).
2. An abstract edge, "one request or none", that `Promotion` refines when nobody
   interferes, and the same for the calls of `Provider`.
3. `NotificationRuntime` fed by `Observation`, which today share the admission
   of an event and not a state.
