------------------------ MODULE NotificationRuntime ------------------------
(***************************************************************************)
(* Concurrent oiax invocations sharing one notification ledger.            *)
(*                                                                         *)
(* A run accepts its pinned policy revision (Activate), admits observed    *)
(* events (Observe), and dispatches due deliveries with one worker per     *)
(* destination: claim a batch, then for every claimed record renew or      *)
(* re-read, check, POST; finally record every receipt.  A reset run is the *)
(* operator's `oiax notifications reset`.  Runs are separate processes on  *)
(* separate machines: nothing orders them but the ledger's compare-and-    *)
(* swap, and any of them may crash at any point.                           *)
(*                                                                         *)
(* A ledger write is two steps, as in store.Commit: evaluate the           *)
(* transition on a fresh read, then push it with the read tip as the       *)
(* expected value.  commit[r].fresh says that the tip r read is still the  *)
(* remote tip; every push by another process falsifies it.                 *)
(***************************************************************************)
EXTENDS NotificationLedger

CONSTANTS
  RunRevision,    \* the pinned [oid, digest] of each run
  Resets,         \* the runs that are operator resets
  EventTime,      \* when the provider says each event occurred
  Skew,           \* how far each run's clock is ahead
  RetryAfters,    \* Retry-After hints a receiver may send
  MaxTime,        \* bound on the clock
  MaxFaults,      \* bound on crashes, lost replies and failed writes
  MaxGaps         \* bound on the commits that clones lack

ASSUME RunAssumption ==
  /\ RunRevision \in [Runs -> [oid: Configs, digest: Digests]]
  /\ Resets \subseteq Runs
  /\ EventTime \in [Events -> Nat]
  /\ Skew \in [Runs -> Nat]
  /\ RetryAfters \subseteq Nat
ASSUME BoundAssumption == {MaxTime, MaxFaults, MaxGaps} \subseteq Nat

VARIABLES
  ledger,     \* the remote notes reference
  clock,      \* real time
  clone,      \* the configuration commits the clone of each run has
  stage,      \* what each run is doing
  commit,     \* the run's one commit in flight (commitSlot)
  worker,     \* dispatchBatch, per run and destination
  wire,       \* every POST, and what became of it (history)
  mishaps,    \* what went wrong in each run (history)
  faults      \* faults so far

vars == <<ledger, clock, clone, stage, commit, worker, wire, mishaps, faults>>

Result == [code: AttemptOutcomes, retryAfter: Nat]
Canceled == [code |-> "canceled", retryAfter |-> 0]
ASSUME ReceiptAssumption == None \notin Result

(* "prepared": between PrepareNotifications and FinalizeNotifications.     *)
Stages == {"idle", "prepared", "ready", "dispatching", "done", "crashed"}
Operations == {"activate", "reset", "admit", "claim", "renew", "record"}
Commit == [op: Operations \cup {"none"}, dest: Destinations \cup {None},
           events: SUBSET Events, at: Nat, fresh: BOOLEAN]
NoCommit == [op |-> "none", dest |-> None, events |-> {}, at |-> 0,
             fresh |-> FALSE]

WorkerStages == {"off", "claim", "send", "renew", "post", "record", "end"}
Worker == [pc: WorkerStages, tasks: SUBSET Keys, left: SUBSET Keys,
           current: Keys \cup {None}, leaseUntil: Nat,
           receipts: [Keys -> Result \cup {None}]]
NoWorker == [pc |-> "off", tasks |-> {}, left |-> {}, current |-> None,
             leaseUntil |-> 0, receipts |-> [k \in Keys |-> None]]
EndedWorker == [NoWorker EXCEPT !.pc = "end"]

Post == [run: Runs, key: Keys, code: AttemptOutcomes, taken: BOOLEAN,
         stale: BOOLEAN]
Mishaps == {"crash", "reply", "receipt", "overrun"}

OID(r) == RunRevision[r].oid
Now(r) == clock + Skew[r]

TypeOK ==
  /\ ledger \in Ledger
  /\ clock \in Nat
  /\ clone \in [Runs -> SUBSET Configs]
  /\ stage \in [Runs -> Stages]
  /\ commit \in [Runs -> Commit]
  /\ worker \in [Runs -> [Destinations -> Worker]]
  /\ wire \subseteq Post
  /\ mishaps \in [Runs -> SUBSET Mishaps]
  /\ faults \in Nat

(* What the clone of a run may lack: a commit that was lost from the remote *)
(* or is not fetched yet, and in a shallow clone the older ones.  The run   *)
(* was started on its own commit.  A reset refuses a clone that is shallow, *)
(* partial or leaves out branches, so it has what its commit is built on.   *)
(* No run fetches configuration commits.                                    *)
Ancestors(c) == {a \in Configs : <<a, c>> \in Ancestry}
Clones(r) == {C \in SUBSET Configs :
                /\ OID(r) \in C
                /\ r \in Resets => Ancestors(OID(r)) \subseteq C}
Gaps(clones) == {g \in Runs \X Configs : g[2] \notin clones[g[1]]}

Init ==
  /\ ledger = AbsentLedger
  /\ clock = 1
  /\ clone \in [Runs -> SUBSET Configs]
  /\ \A r \in Runs : clone[r] \in Clones(r)
  /\ Cardinality(Gaps(clone)) <= MaxGaps
  /\ stage = [r \in Runs |-> "idle"]
  /\ commit = [r \in Runs |-> NoCommit]
  /\ worker = [r \in Runs |-> [d \in Destinations |-> NoWorker]]
  /\ wire = {}
  /\ mishaps = [r \in Runs |-> {}]
  /\ faults = 0

-----------------------------------------------------------------------------
(* Transitions: what a commit would make of the current ledger. *)

(* Git.IsAncestor follows the commits that the clone has.                  *)
Precedes(r, a, b) ==
  /\ <<a, b>> \in Ancestry
  /\ \A c \in Configs : {<<a, c>>, <<c, b>>} \subseteq Ancestry => c \in clone[r]

MutantOverrideReachable(r, accepted, incoming) ==
  IF r \in Resets THEN "override"
  ELSE IF ~({accepted, incoming} \subseteq clone[r]) THEN "unverified"
  ELSE IF Precedes(r, accepted, incoming) THEN "descendant" ELSE "divergent"

(* notificationRevisionRelation, and for a reset its override verifier:    *)
(* both ask the clone of the run.  "unverified" stands for every failure.  *)
VerifiedRelation(r, accepted, incoming) ==
  IF r \in Resets
  THEN IF accepted \notin clone[r] /\ incoming \in clone[r]
       THEN "override" ELSE "unverified"
  ELSE IF ~({accepted, incoming} \subseteq clone[r]) THEN "unverified"
  ELSE IF Precedes(r, accepted, incoming) THEN "descendant"
  ELSE IF Precedes(r, incoming, accepted) THEN "ancestor"
  ELSE "divergent"

(* The relation is asked for only when an accepted revision is replaced.   *)
Relation(r, incoming) ==
  IF ledger.revision.oid \in {None, incoming}
  THEN "unneeded"
  ELSE VerifiedRelation(r, ledger.revision.oid, incoming)

(* Activate creates a missing ledger anchored at its own commit.           *)
ActivationBase(r) ==
  IF ledger.anchor = None THEN NewLedger(OID(r)) ELSE ledger

(* What a claim is evaluated on: the ledger with the messages rendered.    *)
Prepared(r, c) == MessagesSaved(ledger, OID(r), worker[r][c.dest].tasks)

Allowed(r, c) ==
  \/ /\ c.op = "activate"
     /\ CanAcceptPolicy(ActivationBase(r), RunRevision[r], Relation(r, OID(r)), c.at)
  \/ /\ c.op = "reset"
     /\ \/ ledger.revision = RunRevision[r]
        \/ CanOverrideRevision(ledger, RunRevision[r], Relation(r, OID(r)), c.at)
  \/ c.op = "admit" /\ CanAdmitEvents(ledger, OID(r), c.events, EventTime)
  \/ /\ c.op = "claim"
     /\ CanClaimBatch(Prepared(r, c), OID(r), c.dest, r, worker[r][c.dest].tasks, c.at)
  \/ c.op = "renew" /\ CanRenewBatch(ledger, OID(r), c.dest, r, c.at)
  \/ c.op = "record" /\ CanRecordResults(ledger, r, worker[r][c.dest].receipts)

Outcome(r, c) ==
  IF c.op = "activate" THEN AcceptPolicy(ActivationBase(r), RunRevision[r], c.at)
  ELSE IF c.op = "reset"
  THEN IF ledger.revision = RunRevision[r] THEN ledger
       ELSE OverrideRevision(ledger, RunRevision[r], c.at)
  ELSE IF c.op = "admit" THEN EventsAdmitted(ledger, c.events, EventTime)
  ELSE IF c.op = "claim"
  THEN ClaimBatch(Prepared(r, c), c.dest, r, worker[r][c.dest].tasks, c.at)
  ELSE IF c.op = "renew"
  THEN RenewBatch(ledger, c.dest, r, worker[r][c.dest].tasks, c.at)
  ELSE IF c.op = "record"
  THEN RecordResults(ledger, c.dest, r, worker[r][c.dest].receipts, c.at)
  ELSE ledger

(* The store's own refusal of a transition's result.                       *)
Accepted(r, c) ==
  Storable(ledger, Outcome(r, c), Relation(r, Outcome(r, c).revision.oid))

(* The keys a claim would take.                                            *)
ClaimedBy(r, c) == Claimable(Prepared(r, c), c.dest, worker[r][c.dest].tasks, c.at)

-----------------------------------------------------------------------------
(* How a run goes on once its commit has succeeded or failed. *)

(* The check before a POST, against the snapshot l.                        *)
Checked(r, d, w, k, l) ==
  LET verdict == CheckBatchSend(l, OID(r), d, r, k, Now(r))
  IN IF verdict = "send" THEN [w EXCEPT !.pc = "post", !.current = k]
     ELSE IF verdict = "skip"
     THEN [w EXCEPT !.pc = "send", !.current = None, !.left = @ \ {k}]
     ELSE [w EXCEPT !.pc = "record", !.current = None]

Renewed(r, c, next) ==
  LET w == worker[r][c.dest]
  IN Checked(r, c.dest,
             [w EXCEPT !.leaseUntil = next.destinations[c.dest].lease.until],
             w.current, next)

MutantNoDefaultReceipt(r, c, next) ==
  IF c.op = "claim"
  THEN [worker[r][c.dest] EXCEPT
          !.pc = "send", !.left = ClaimedBy(r, c),
          !.leaseUntil = next.destinations[c.dest].lease.until]
  ELSE IF c.op = "renew" THEN Renewed(r, c, next)
  ELSE EndedWorker

(* The worker's continuation with the committed ledger next.               *)
WorkerAfter(r, c, next) ==
  IF c.op = "claim"
  THEN [worker[r][c.dest] EXCEPT
          !.pc = "send", !.left = ClaimedBy(r, c),
          !.leaseUntil = next.destinations[c.dest].lease.until,
          !.receipts = [k \in Keys |-> IF k \in ClaimedBy(r, c)
                                       THEN Canceled ELSE None]]
  ELSE IF c.op = "renew" THEN Renewed(r, c, next)
  ELSE EndedWorker

WorkerOps == {"claim", "renew", "record"}

Succeed(r, c, next) ==
  /\ worker' = IF c.op \in WorkerOps
               THEN [worker EXCEPT ![r][c.dest] = WorkerAfter(r, c, next)]
               ELSE worker
  /\ stage' = IF c.op = "activate"
              THEN [stage EXCEPT ![r] = IF @ = "idle" THEN "prepared" ELSE "ready"]
              ELSE IF c.op = "reset" THEN [stage EXCEPT ![r] = "done"]
              ELSE stage

(* Preparation may fail and the run goes on to activate again.             *)
NotActivated(r, c) ==
  IF c.op \in {"activate", "reset"}
  THEN [stage EXCEPT ![r] = IF @ = "idle" /\ c.op = "activate"
                            THEN "prepared" ELSE "done"]
  ELSE stage

GivesUp(w) == [w EXCEPT !.pc = "record", !.current = None]

MutantClaimRetried(r, c) ==
  /\ worker' = IF c.op = "renew" THEN [worker EXCEPT ![r][c.dest] = GivesUp(@)]
               ELSE IF c.op = "record"
               THEN [worker EXCEPT ![r][c.dest] = EndedWorker]
               ELSE worker
  /\ stage' = NotActivated(r, c)

(* A failed renewal still records the batch; a failed receipt write leaves *)
(* the records claimed until their leases expire.                          *)
Fail(r, c) ==
  /\ worker' = IF c.op = "renew" THEN [worker EXCEPT ![r][c.dest] = GivesUp(@)]
               ELSE IF c.op \in {"claim", "record"}
               THEN [worker EXCEPT ![r][c.dest] = EndedWorker]
               ELSE worker
  /\ stage' = NotActivated(r, c)

AfterFailure(r, c, noted) ==
  IF c.op = "record" THEN [noted EXCEPT ![r] = @ \cup {"receipt"}] ELSE noted

(* One pass of store.Commit up to the push.  An unchanged ledger is        *)
(* returned without a write.                                               *)
Evaluate(r, c) ==
  /\ IF Allowed(r, c) /\ Accepted(r, c)
     THEN /\ UNCHANGED mishaps
          /\ IF Outcome(r, c) = ledger
             THEN /\ commit' = [commit EXCEPT ![r] = NoCommit]
                  /\ Succeed(r, c, ledger)
             ELSE /\ commit' = [commit EXCEPT ![r] = [c EXCEPT !.fresh = TRUE]]
                  /\ UNCHANGED <<worker, stage>>
     ELSE /\ commit' = [commit EXCEPT ![r] = NoCommit]
          /\ Fail(r, c)
          /\ mishaps' = AfterFailure(r, c, mishaps)
  /\ UNCHANGED <<ledger, clock, clone, wire, faults>>

Begin(r, op, d, E) ==
  /\ commit[r] = NoCommit
  /\ Evaluate(r, [op |-> op, dest |-> d, events |-> E, at |-> Now(r),
                  fresh |-> FALSE])

(* A write moves the tip under every other commit in flight.               *)
Overtaken(r) ==
  [q \in Runs |-> IF q = r THEN NoCommit ELSE [commit[q] EXCEPT !.fresh = FALSE]]

(* A claim over the expired lease of a worker still at it: it has overrun. *)
Superseded(r, c) ==
  {q \in Runs \ {r} :
     /\ c.op = "claim"
     /\ worker[q][c.dest].pc \notin {"off", "end"}
     /\ \E k \in ClaimedBy(r, c) : ledger.deliveries[k].lease.holder = q}
Noted(r, c) ==
  [q \in Runs |-> IF q \in Superseded(r, c) THEN mishaps[q] \cup {"overrun"}
                  ELSE mishaps[q]]

-----------------------------------------------------------------------------
(* The steps of a commit in flight. *)

(* The push found the expected tip.                                        *)
Push(r) ==
  LET c == commit[r] IN
  /\ c.op # "none" /\ c.fresh
  /\ ledger' = Outcome(r, c)
  /\ commit' = Overtaken(r)
  /\ Succeed(r, c, Outcome(r, c))
  /\ mishaps' = Noted(r, c)
  /\ UNCHANGED <<clock, clone, wire, faults>>

(* The push reached the remote but its reply did not come back.  If the    *)
(* re-read works the moved tip looks like a conflict and the transition    *)
(* runs again over its own result; otherwise the commit has failed.        *)
PushUnacknowledged(r) ==
  LET c == commit[r] IN
  /\ c.op # "none" /\ c.fresh
  /\ faults < MaxFaults /\ faults' = faults + 1
  /\ ledger' = Outcome(r, c)
  /\ \/ /\ commit' = [Overtaken(r) EXCEPT ![r] = [c EXCEPT !.fresh = FALSE]]
        /\ mishaps' = Noted(r, c)
        /\ UNCHANGED <<worker, stage>>
     \/ /\ commit' = Overtaken(r)
        /\ Fail(r, c)
        /\ mishaps' = AfterFailure(r, c, Noted(r, c))
  /\ UNCHANGED <<clock, clone, wire>>

(* A conflict: read again, reduce the fresh state.  Only the transitions   *)
(* of one batch read the clock anew; an acceptance keeps its first reading.*)
Reevaluate(r) ==
  LET c == commit[r] IN
  /\ c.op # "none" /\ ~c.fresh
  /\ Evaluate(r, IF c.op \in WorkerOps THEN [c EXCEPT !.at = Now(r)] ELSE c)

(* The store is unreachable, or conflicts or the deadline exhausted it.    *)
CommitFails(r) ==
  /\ commit[r].op # "none"
  /\ faults < MaxFaults /\ faults' = faults + 1
  /\ commit' = [commit EXCEPT ![r] = NoCommit]
  /\ Fail(r, commit[r])
  /\ mishaps' = AfterFailure(r, commit[r], mishaps)
  /\ UNCHANGED <<ledger, clock, clone, wire>>

-----------------------------------------------------------------------------
(* The steps of a run. *)

(* PrepareNotifications, before the core apply, and the first step of      *)
(* FinalizeNotifications, after it.                                        *)
Prepare(r) ==
  /\ r \notin Resets
  /\ stage[r] = "idle"
  /\ Begin(r, "activate", None, {})
Activate(r) ==
  /\ stage[r] = "prepared"
  /\ Begin(r, "activate", None, {})

ResetRevision(r) ==
  /\ r \in Resets
  /\ stage[r] = "idle"
  /\ Begin(r, "reset", None, {})

(* recordObservation of one page of events that have occurred.  A page     *)
(* that would change nothing is not a step.                                *)
Observe(r, E) ==
  /\ stage[r] = "ready"
  /\ \A e \in E : EventTime[e] <= clock
  /\ CanAdmitEvents(ledger, OID(r), E, EventTime)
  /\ EventsAdmitted(ledger, E, EventTime) # ledger
  /\ Begin(r, "admit", None, E)

(* Dispatch reads one snapshot for all its workers.                        *)
Dispatch(r) ==
  /\ stage[r] = "ready" /\ commit[r] = NoCommit
  /\ IF ledger.revision.oid # OID(r)
     THEN /\ stage' = [stage EXCEPT ![r] = "done"]
          /\ UNCHANGED worker
     ELSE /\ stage' = [stage EXCEPT ![r] = "dispatching"]
          /\ worker' = [worker EXCEPT ![r] = [d \in Destinations |->
               LET due == {k \in DueDeliveries(ledger, Now(r)) :
                             /\ DestinationOf(k) = d
                             /\ Policy[OID(r)][d].enabled}
               IN IF due = {} THEN EndedWorker
                  ELSE [NoWorker EXCEPT !.pc = "claim", !.tasks = due]]]
  /\ UNCHANGED <<ledger, clock, clone, commit, wire, mishaps, faults>>

Claim(r, d) == worker[r][d].pc = "claim" /\ Begin(r, "claim", d, {})

(* The head of the send loop: renew a lease in its last half, otherwise    *)
(* re-read the ledger and check.                                           *)
NextSend(r, d, k) ==
  LET w == worker[r][d] IN
  /\ w.pc = "send" /\ k \in w.left
  /\ worker' = [worker EXCEPT ![r][d] =
        IF 2 * w.leaseUntil < 2 * Now(r) + ClaimDuration
        THEN [w EXCEPT !.pc = "renew", !.current = k]
        ELSE Checked(r, d, w, k, ledger)]
  /\ UNCHANGED <<ledger, clock, clone, stage, commit, wire, mishaps, faults>>

Renew(r, d) == worker[r][d].pc = "renew" /\ Begin(r, "renew", d, {})

(* One POST.  The receiver may take the message and the answer still be    *)
(* lost; that is the sender's network failure.                             *)
Send(r, d, result, taken) ==
  LET w == worker[r][d] IN
  /\ w.pc = "post"
  /\ result.code = "accepted" => taken
  /\ taken => result.code \in {"accepted", "network-failure"}
  /\ taken /\ result.code # "accepted" => faults < MaxFaults
  /\ wire' = wire \cup {[run |-> r, key |-> w.current, code |-> result.code,
                         taken |-> taken, stale |-> ledger.revision.oid # OID(r)]}
  /\ worker' = [worker EXCEPT
       ![r][d] = [w EXCEPT !.pc = "send", !.current = None,
                           !.left = @ \ {w.current},
                           !.receipts[w.current] = result]]
  /\ IF taken /\ result.code # "accepted"
     THEN /\ faults' = faults + 1
          /\ mishaps' = [mishaps EXCEPT ![r] = @ \cup {"reply"}]
     ELSE UNCHANGED <<faults, mishaps>>
  /\ UNCHANGED <<ledger, clock, clone, stage, commit>>

(* The batch is sent, or its stage budget or a read stopped it.            *)
StopSending(r, d) ==
  /\ worker[r][d].pc = "send"
  /\ worker' = [worker EXCEPT ![r][d].pc = "record"]
  /\ UNCHANGED <<ledger, clock, clone, stage, commit, wire, mishaps, faults>>

RecordReceipts(r, d) == worker[r][d].pc = "record" /\ Begin(r, "record", d, {})

Finish(r) ==
  /\ stage[r] = "dispatching"
  /\ \A d \in Destinations : worker[r][d].pc = "end"
  /\ stage' = [stage EXCEPT ![r] = "done"]
  /\ UNCHANGED <<ledger, clock, clone, commit, worker, wire, mishaps, faults>>

Crash(r) ==
  /\ stage[r] \in {"prepared", "ready", "dispatching"} \/ commit[r] # NoCommit
  /\ faults < MaxFaults /\ faults' = faults + 1
  /\ stage' = [stage EXCEPT ![r] = "crashed"]
  /\ commit' = [commit EXCEPT ![r] = NoCommit]
  /\ worker' = [worker EXCEPT ![r] = [d \in Destinations |-> EndedWorker]]
  /\ mishaps' = [mishaps EXCEPT ![r] = @ \cup {"crash"}]
  /\ UNCHANGED <<ledger, clock, clone, wire>>

Tick ==
  /\ clock < MaxTime
  /\ clock' = clock + 1
  /\ UNCHANGED <<ledger, clone, stage, commit, worker, wire, mishaps, faults>>

-----------------------------------------------------------------------------
(* The specification. *)

(* What a run that has started does by itself.                             *)
Proceed(r) ==
  \/ Activate(r) \/ Dispatch(r) \/ Finish(r) \/ Push(r) \/ Reevaluate(r)
  \/ \E d \in Destinations :
       \/ Claim(r, d) \/ Renew(r, d) \/ StopSending(r, d) \/ RecordReceipts(r, d)
       \/ \E k \in Keys : NextSend(r, d, k)
       \/ \E code \in AttemptOutcomes \ {"canceled"}, after \in RetryAfters,
            taken \in BOOLEAN :
            Send(r, d, [code |-> code, retryAfter |-> after], taken)

(* What the outside does to it or starts.                                  *)
Invoke(r) ==
  Prepare(r) \/ ResetRevision(r) \/ \E E \in SUBSET Events : Observe(r, E)
Disturb(r) == PushUnacknowledged(r) \/ CommitFails(r) \/ Crash(r)

Next ==
  \/ Tick
  \/ \E r \in Runs : Invoke(r) \/ Proceed(r) \/ Disturb(r)

(* A started process keeps running unless it crashes; nothing makes an     *)
(* invocation start, an event be observed or the clock reach a deadline.   *)
Spec == Init /\ [][Next]_vars /\ \A r \in Runs : WF_vars(Proceed(r))

-----------------------------------------------------------------------------
(* Properties. *)

(* The commits that could be evaluated in this state.                      *)
Candidates(r) ==
  LET try(op, d, E) ==
        [op |-> op, dest |-> d, events |-> E, at |-> Now(r), fresh |-> FALSE]
  IN IF commit[r] # NoCommit THEN {commit[r]}
     ELSE {c \in {try("activate", None, {}), try("reset", None, {})} :
             \/ stage[r] = "idle" /\ (r \in Resets <=> c.op = "reset")
             \/ stage[r] = "prepared" /\ c.op = "activate"}
          \cup {try("admit", None, E) :
                  E \in {E \in SUBSET Events : stage[r] = "ready"}}
          \cup {try(worker[r][d].pc, d, {}) :
                  d \in {d \in Destinations : worker[r][d].pc \in WorkerOps}}

(* From oid the policy may advance to the commit of r without a reset.      *)
Leads(oid, r) == oid = OID(r) \/ <<oid, OID(r)>> \in Ancestry

(* The resets on record that let the commit of r come into force again.     *)
Reinstated(r) == {i \in DOMAIN ledger.overrides : Leads(ledger.overrides[i].accepted, r)}

(* A policy that came and went retired a record of the batch before it had  *)
(* a message, and a reset has brought back the policy of the batch.         *)
RetiredUnderneath(r, d) ==
  /\ Reinstated(r) # {}
  /\ \E k \in worker[r][d].tasks :
       /\ ledger.deliveries[k].code = "subscription-retired"
       /\ ledger.deliveries[k].status = "skipped"
       /\ ledger.deliveries[k].message = None

(* The store's guards are a second line of defence: whatever the            *)
(* interleaving, no result of a reducer is one that validateAppend or the   *)
(* codec would refuse, so a run never fails on ErrInvalidState.  The one    *)
(* exception is a claim that renders a record retired underneath it.        *)
StoreNeverRefuses ==
  \A r \in Runs : \A c \in Candidates(r) :
     Allowed(r, c) =>
       Accepted(r, c) \/ (c.op = "claim" /\ RetiredUnderneath(r, c.dest))

(* Write-ahead: a POST is only ever made under an attempt ID the ledger     *)
(* holds, and keeps, so a later run can always see that it may have         *)
(* happened.                                                                *)
PostsAreClaimed ==
  \A w \in wire : w.run \in ledger.deliveries[w.key].attemptIDs

(* The receiver takes a delivery twice only after something went wrong in   *)
(* one of the two runs: a crash, a lost answer, a lost receipt write, or a  *)
(* batch that outlived its lease.                                           *)
TakenOnceUnlessMishap ==
  \A v, w \in wire :
     v.key = w.key /\ v.run # w.run /\ v.taken /\ w.taken =>
        mishaps[v.run] \cup mishaps[w.run] # {}

(* Terminal success wins: once the worker that saw an acceptance has ended  *)
(* with its receipts written, the record is delivered, whatever retirement, *)
(* failure or newer claim it met.                                           *)
SuccessWins ==
  \A w \in wire :
     /\ w.code = "accepted"
     /\ worker[w.run][DestinationOf(w.key)].pc = "end"
     /\ mishaps[w.run] \cap {"crash", "receipt"} = {}
     => ledger.deliveries[w.key].status = "delivered"

(* A delivery is given up only because a receiver refused it: canceled and  *)
(* failed-in-transit attempts never abandon it, however many there were.    *)
GivenUpOnlyIfRefused ==
  \A k \in Keys :
     LET record == ledger.deliveries[k]
     IN record.status = "skipped" /\ record.code # "subscription-retired" =>
          \E w \in wire :  /\ w.key = k
                           /\ w.code \in AttemptOutcomes \ (Transient \cup {"accepted"})
                           /\ record.code = "abandoned" =>
                                record.attempts >= MaxAttempts

(* Once a newer policy is accepted, a batch of the old one sends at most    *)
(* the one payload it had already checked, and one more for each reset that *)
(* brought its commit back.                                                 *)
AtMostOneStalePost ==
  \A r \in Runs, d \in Destinations :
     Cardinality({w \in wire : /\ w.run = r /\ w.stale
                               /\ DestinationOf(w.key) = d})
       <= 1 + Cardinality(Reinstated(r))

(* Two runs of the accepted policy are never both about to send to one      *)
(* destination while, by every clock, both their leases run; unless a reset *)
(* brought the policy back, which starts the destination afresh.            *)
LeaseFencesSends ==
  \A q, r \in Runs, d \in Destinations :
     /\ q # r
     /\ worker[q][d].pc = "post" /\ worker[r][d].pc = "post"
     /\ OID(q) = ledger.revision.oid /\ OID(r) = ledger.revision.oid
     /\ Reinstated(q) = {} /\ Reinstated(r) = {}
     => \E p \in {q, r}, s \in Runs : Now(s) >= worker[p][d].leaseUntil

(* The policy of commit oid has the subscription and the endpoint that k    *)
(* was admitted under.                                                      *)
InForce(oid, k) ==
  LET p == Policy[oid][DestinationOf(k)]
  IN /\ p.enabled
     /\ KindOf[EventOf(k)] \in p.kinds
     /\ p.fingerprint = Policy[GenerationOf(k)][DestinationOf(k)].fingerprint

(* Whatever is left to send is what the accepted policy asks for, to the    *)
(* endpoint and in the generation it was admitted for: nothing is stranded  *)
(* where no run would schedule it, or sent for a subscription that is gone. *)
WorkIsInForce ==
  \A k \in Keys :
     LET destination == ledger.destinations[DestinationOf(k)]
     IN ledger.deliveries[k].status \notin Terminal \cup {"absent"} =>
          /\ InForce(ledger.revision.oid, k)
          /\ destination.active /\ destination.generation = GenerationOf(k)

(* Nothing retires a delivery but the acceptance of a policy that no longer *)
(* has its subscription or its endpoint.                                    *)
RetiredOnlyByPolicy ==
  [][\A k \in Keys :
       ledger'.deliveries[k].code = "subscription-retired" =>
         \/ ledger.deliveries[k].code = "subscription-retired"
         \/ ~InForce(ledger'.revision.oid, k)]_vars

(* The accepted policy moves only to a descendant commit, or by a reset to  *)
(* the reset's own commit, past one that its clone does not have, and with  *)
(* the reset on record.  The repository may still have the commit: then the *)
(* clone is older, and local absence is all the code can establish.         *)
RevisionAdvances ==
  [][ledger'.revision # ledger.revision =>
       \/ ledger.anchor = None
       \/ /\ <<ledger.revision.oid, ledger'.revision.oid>> \in Ancestry
          /\ ledger'.overrides = ledger.overrides
       \/ \E r \in Resets :
            /\ ledger.revision.oid \notin clone[r] /\ ledger'.revision = RunRevision[r]
            /\ ledger'.overrides = Append(ledger.overrides,
                 [prior |-> ledger.revision.oid,
                  accepted |-> ledger'.revision.oid])]_vars

(* Every invocation that starts comes to an end.                            *)
RunsEnd ==
  \A r \in Runs :
     (stage[r] \in {"prepared", "ready", "dispatching"}) ~> (stage[r] \in {"done", "crashed"})

(* Without faults, what a run claimed it settles: no record waits for its   *)
(* lease to expire.                                                         *)
ClaimsSettled ==
  \A r \in Runs, k \in Keys :
     (/\ ledger.deliveries[k].status = "claimed"
      /\ ledger.deliveries[k].lease.holder = r)
     ~> \/ faults > 0
        \/ ledger.deliveries[k].status # "claimed"
        \/ ledger.deliveries[k].lease.holder # r
=============================================================================
