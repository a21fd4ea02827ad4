------------------------- MODULE NotificationLedger -------------------------
(***************************************************************************)
(* The notification ledger and its reducers: the pure state transitions of *)
(* internal/notification, and the two guards every ledger write must pass  *)
(* (codec Validate and store validateAppend).                              *)
(*                                                                         *)
(* A ledger is one value, replaced as a whole by each write.  Collections  *)
(* that are Go maps are total functions here: a delivery that was never    *)
(* created has status "absent", a destination never seen is NoDestination. *)
(* A delivery key is the triple <<event, destination, generation>> that    *)
(* DeliveryKey hashes; a generation is named by the configuration commit   *)
(* that activated it, which with the destination determines the digest.    *)
(* An attempt ID is Digest(operation, key) and a batch ID is               *)
(* Digest(operation, destination), so within one record, or one            *)
(* destination, each is identified by the run that computed it.            *)
(***************************************************************************)
EXTENDS Naturals, Sequences, FiniteSets

CONSTANTS
  Runs,           \* invocations; each has its own operation ID
  Configs,        \* configuration commit OIDs
  Digests,        \* policy digests
  Destinations,   \* destination names
  Events,         \* lifecycle events
  Kinds,          \* subscription keys: event kind x request type
  KindOf,         \* [Events -> Kinds]
  Policy,         \* the reviewed policy at each commit
  Fingerprints,   \* endpoint identities
  Ancestry,       \* strict ancestor pairs of the configuration history
  Renderable,     \* <<config, event>> pairs whose template renders
  EventRank,      \* order of events by occurrence, then ID
  NameRank,       \* order of destination names
  None

CONSTANTS
  ClaimDuration,  \* lease length
  SendSpacing,    \* NextSendAt pacing
  RetryBase, RetryCap, RetryAfterCap,
  MaxAttempts, MaxOverrides, MaxDeliveries,
  DestinationBudget, RunBudget    \* deliveries one run schedules

ASSUME NoneAssumption == None \notin Runs \cup Configs \cup Digests
                                       \cup Fingerprints
ASSUME KindAssumption == KindOf \in [Events -> Kinds]
ASSUME PolicyAssumption ==
  Policy \in [Configs -> [Destinations ->
      [enabled: BOOLEAN, fingerprint: Fingerprints, kinds: SUBSET Kinds]]]
ASSUME AncestryAssumption ==
  /\ Ancestry \subseteq Configs \X Configs
  /\ \A c \in Configs : <<c, c>> \notin Ancestry
  /\ \A a, b, c \in Configs :
        <<a, b>> \in Ancestry /\ <<b, c>> \in Ancestry => <<a, c>> \in Ancestry
ASSUME TimeAssumption ==
  /\ ClaimDuration \in Nat \ {0}
  /\ {SendSpacing, RetryBase, RetryCap, RetryAfterCap} \subseteq Nat
  /\ {MaxAttempts, MaxOverrides, MaxDeliveries} \subseteq Nat
  /\ {DestinationBudget, RunBudget} \subseteq Nat
ASSUME RankAssumption == EventRank \in [Events -> Nat] /\ NameRank \in [Destinations -> Nat]

Keys == Events \X Destinations \X Configs
EventOf(k) == k[1]
DestinationOf(k) == k[2]
GenerationOf(k) == k[3]

-----------------------------------------------------------------------------
(* The vocabulary of a record. *)

Statuses == {"absent", "pending", "claimed", "retryable", "delivered", "skipped"}
Terminal == {"delivered", "skipped"}

(* Transport outcome codes, one per class the reducer distinguishes.       *)
Transient == {"network-failure", "canceled"}
AttemptOutcomes == Transient \cup
  {"accepted", "configuration-failure", "payload-too-large"}
Codes == AttemptOutcomes \cup {"none", "subscription-retired", "abandoned"}

Lease == [holder: Runs \cup {None}, until: Nat]
NoLease == [holder |-> None, until |-> 0]

Revision == [oid: Configs \cup {None}, digest: Digests \cup {None}]
NoRevision == [oid |-> None, digest |-> None]

Destination ==
  [active: BOOLEAN, generation: Configs \cup {None},
   fingerprint: Fingerprints \cup {None}, subscriptions: SUBSET Kinds,
   cutoff: [Kinds -> Nat], lease: Lease, nextSendAt: Nat]
NoDestination ==
  [active |-> FALSE, generation |-> None, fingerprint |-> None,
   subscriptions |-> {}, cutoff |-> [kind \in Kinds |-> 0],
   lease |-> NoLease, nextSendAt |-> 0]

Record ==
  [status: Statuses, attempts: Nat, attemptIDs: SUBSET Runs,
   nextAttemptAt: Nat, lease: Lease, code: Codes,
   message: Configs \cup {None}]
NoRecord ==
  [status |-> "absent", attempts |-> 0, attemptIDs |-> {},
   nextAttemptAt |-> 0, lease |-> NoLease, code |-> "none", message |-> None]

Override == [prior: Configs, accepted: Configs]

Ledger ==
  [anchor: Configs \cup {None}, revision: Revision,
   destinations: [Destinations -> Destination], events: SUBSET Events,
   deliveries: [Keys -> Record], overrides: Seq(Override)]

(* The notes reference does not exist yet: anchor None.                    *)
AbsentLedger ==
  [anchor |-> None, revision |-> NoRevision,
   destinations |-> [d \in Destinations |-> NoDestination], events |-> {},
   deliveries |-> [k \in Keys |-> NoRecord], overrides |-> << >>]

NewLedger(anchor) == [AbsentLedger EXCEPT !.anchor = anchor]

-----------------------------------------------------------------------------
(* Policy revisions. *)

(* CheckRevision: may incoming replace accepted on this evidence?          *)
CheckRevision(accepted, incoming, relation) ==
  \/ accepted.oid = None
  \/ accepted = incoming
  \/ accepted.oid # incoming.oid /\ relation \in {"descendant", "override"}

FitsCapacity(l) ==
  Cardinality({k \in Keys : l.deliveries[k].status # "absent"}) <= MaxDeliveries

Subscribed(destination, event) == KindOf[event] \in destination.subscriptions

(* A destination under the policy of commit oid.  An active destination    *)
(* with an unchanged endpoint keeps its generation, lease, pacing and the  *)
(* cutoffs of the subscriptions it keeps; any other starts afresh.         *)
AcceptedDestination(old, d, oid, now) ==
  LET p == Policy[oid][d]
      base == IF old.active /\ old.fingerprint = p.fingerprint
              THEN old
              ELSE [NoDestination EXCEPT !.active = TRUE, !.generation = oid,
                                         !.fingerprint = p.fingerprint]
  IN IF p.enabled
     THEN [base EXCEPT
             !.subscriptions = p.kinds,
             !.cutoff = [kind \in Kinds |->
                IF kind \notin p.kinds THEN 0
                ELSE IF kind \in base.subscriptions THEN base.cutoff[kind]
                ELSE now]]
     ELSE [old EXCEPT !.active = FALSE, !.subscriptions = {},
                      !.cutoff = [kind \in Kinds |-> 0]]

MutantRetireMoved(record, k, destination) ==
  IF /\ record.status \notin Terminal \cup {"absent"}
     /\ ~destination.active \/ destination.generation # GenerationOf(k)
  THEN [record EXCEPT !.status = "skipped", !.code = "subscription-retired"]
  ELSE record

MutantRetireAll(record, k, destination) ==
  IF record.status \in Terminal \cup {"absent"} THEN record
  ELSE [record EXCEPT !.status = "skipped", !.code = "subscription-retired"]

(* Non-terminal work whose subscription or generation is gone is retired;  *)
(* its lease and attempt evidence stay.                                    *)
Retired(record, k, destination) ==
  IF /\ record.status \notin Terminal \cup {"absent"}
     /\ \/ ~destination.active
        \/ destination.generation # GenerationOf(k)
        \/ ~Subscribed(destination, EventOf(k))
  THEN [record EXCEPT !.status = "skipped", !.code = "subscription-retired"]
  ELSE record

PolicyApplied(l, incoming, now) ==
  LET destinations == [d \in Destinations |->
        AcceptedDestination(l.destinations[d], d, incoming.oid, now)]
  IN [l EXCEPT
        !.destinations = destinations,
        !.deliveries = [k \in Keys |->
           Retired(l.deliveries[k], k, destinations[DestinationOf(k)])],
        !.revision = incoming]

CanAcceptPolicy(l, incoming, relation, now) ==
  /\ relation # "override"
  /\ CheckRevision(l.revision, incoming, relation)
  /\ l.revision # incoming => FitsCapacity(PolicyApplied(l, incoming, now))

AcceptPolicy(l, incoming, now) ==
  IF l.revision = incoming THEN l ELSE PolicyApplied(l, incoming, now)

CanOverrideRevision(l, incoming, relation, now) ==
  /\ relation = "override"
  /\ l.revision.oid \notin {None, incoming.oid}
  /\ Len(l.overrides) < MaxOverrides
  /\ FitsCapacity(PolicyApplied(l, incoming, now))

MutantUnauditedOverride(l, incoming, now) == PolicyApplied(l, incoming, now)

OverrideRevision(l, incoming, now) ==
  [PolicyApplied(l, incoming, now) EXCEPT
     !.overrides = Append(@, [prior |-> l.revision.oid,
                              accepted |-> incoming.oid])]

-----------------------------------------------------------------------------
(* Events and messages. *)

(* The deliveries an event earns: one per active destination whose         *)
(* subscription was already in force when the event became eligible.       *)
Admitted(l, e, eligibleAt) ==
  {<<e, d, l.destinations[d].generation>> : d \in {d \in Destinations :
     /\ l.destinations[d].active
     /\ Subscribed(l.destinations[d], e)
     /\ eligibleAt >= l.destinations[d].cutoff[KindOf[e]]}}

(* The events of one observed page, each admitted by AdmitEvent at its time. *)
EventsAdmitted(l, E, time) ==
  LET earned == [e \in E |-> Admitted(l, e, time[e])]
  IN [l EXCEPT
        !.deliveries = [k \in Keys |->
           IF /\ EventOf(k) \in E /\ k \in earned[EventOf(k)]
              /\ l.deliveries[k].status = "absent"
           THEN [NoRecord EXCEPT !.status = "pending"]
           ELSE l.deliveries[k]],
        !.events = @ \cup {e \in E : earned[e] # {}}]

CanAdmitEvents(l, oid, E, time) ==
  /\ l.revision.oid = oid
  /\ FitsCapacity(EventsAdmitted(l, E, time))

(* SaveMessage over the tasks of a batch: a saved message is kept, one     *)
(* that does not render leaves its record as it was.                       *)
MessagesSaved(l, oid, tasks) ==
  [l EXCEPT !.deliveries = [k \in Keys |->
     IF /\ k \in tasks
        /\ l.revision.oid = oid
        /\ l.deliveries[k].status # "absent"
        /\ l.deliveries[k].message = None
        /\ <<oid, EventOf(k)>> \in Renderable
     THEN [l.deliveries[k] EXCEPT !.message = oid]
     ELSE l.deliveries[k]]]

-----------------------------------------------------------------------------
(* Scheduling, claims and renewal. *)

Due(l, now) ==
  {k \in Keys :
     LET record == l.deliveries[k]
         destination == l.destinations[DestinationOf(k)]
     IN /\ record.status \notin Terminal \cup {"absent"}
        /\ destination.active
        /\ destination.generation = GenerationOf(k)
        /\ record.nextAttemptAt <= now
        /\ record.lease.until <= now
        /\ destination.lease.until <= now
        /\ destination.nextSendAt <= now}

(* Oldest first in each destination, one of each destination per round.    *)
Round(due, k) ==
  Cardinality({j \in due : /\ DestinationOf(j) = DestinationOf(k)
                           /\ EventRank[EventOf(j)] < EventRank[EventOf(k)]})
Earlier(due, k) ==
  {j \in due :
     \/ Round(due, j) < Round(due, k)
     \/ /\ Round(due, j) = Round(due, k)
        /\ NameRank[DestinationOf(j)] < NameRank[DestinationOf(k)]}

DueDeliveries(l, now) ==
  LET due == Due(l, now)
  IN {k \in due : /\ Round(due, k) < DestinationBudget
                  /\ Cardinality(Earlier(due, k)) < RunBudget}

(* The listed records a batch may claim now.                               *)
Claimable(l, d, tasks, now) ==
  {k \in tasks :
     LET record == l.deliveries[k]
     IN /\ record.status \notin Terminal \cup {"absent"}
        /\ l.destinations[d].generation = GenerationOf(k)
        /\ Subscribed(l.destinations[d], EventOf(k))
        /\ record.message # None
        /\ record.nextAttemptAt <= now
        /\ record.lease.until <= now}

MutantUnfencedClaim(l, oid, d, run, tasks, now) ==
  /\ l.revision.oid = oid
  /\ l.destinations[d].active
  /\ Claimable(l, d, tasks, now) # {}

CanClaimBatch(l, oid, d, run, tasks, now) ==
  /\ l.revision.oid = oid
  /\ l.destinations[d].active
  /\ l.destinations[d].lease.until <= now
  /\ l.destinations[d].nextSendAt <= now
  /\ Claimable(l, d, tasks, now) # {}
  /\ \A k \in Claimable(l, d, tasks, now) :
        run \notin l.deliveries[k].attemptIDs

MutantUncountedClaim(l, d, run, tasks, now) ==
  LET lease == [holder |-> run, until |-> now + ClaimDuration]
  IN [l EXCEPT
        !.deliveries = [k \in Keys |->
           IF k \in Claimable(l, d, tasks, now)
           THEN [l.deliveries[k] EXCEPT
                   !.status = "claimed", !.attemptIDs = @ \cup {run},
                   !.lease = lease]
           ELSE l.deliveries[k]],
        !.destinations[d].lease = lease]

ClaimBatch(l, d, run, tasks, now) ==
  LET lease == [holder |-> run, until |-> now + ClaimDuration]
      claimed == Claimable(l, d, tasks, now)
  IN [l EXCEPT
        !.deliveries = [k \in Keys |->
           IF k \in claimed
           THEN [l.deliveries[k] EXCEPT
                   !.status = "claimed", !.attempts = @ + 1,
                   !.attemptIDs = @ \cup {run}, !.lease = lease]
           ELSE l.deliveries[k]],
        !.destinations[d] = [@ EXCEPT !.lease = lease,
                                      !.nextSendAt = now + SendSpacing]]

MutantRevisionUnchecked(l, oid, d, run, now) ==
  /\ l.destinations[d].active
  /\ l.destinations[d].lease.holder = run
  /\ now < l.destinations[d].lease.until

(* A batch that lost its destination must stop sending.                    *)
OwnsDestination(l, oid, d, run, now) ==
  /\ l.revision.oid = oid
  /\ l.destinations[d].active
  /\ l.destinations[d].lease.holder = run
  /\ now < l.destinations[d].lease.until

OwnsRecord(l, d, run, k, now) ==
  /\ l.deliveries[k].status = "claimed"
  /\ l.deliveries[k].lease.holder = run
  /\ now < l.deliveries[k].lease.until
  /\ l.destinations[d].generation = GenerationOf(k)

CanRenewBatch(l, oid, d, run, now) == OwnsDestination(l, oid, d, run, now)

RenewBatch(l, d, run, tasks, now) ==
  [l EXCEPT
     !.deliveries = [k \in Keys |->
        IF k \in tasks /\ OwnsRecord(l, d, run, k, now)
        THEN [l.deliveries[k] EXCEPT !.lease.until = now + ClaimDuration]
        ELSE l.deliveries[k]],
     !.destinations[d].lease.until = now + ClaimDuration]

(* CheckBatchSend: "stop" ends the batch, "skip" only this record.         *)
CheckBatchSend(l, oid, d, run, k, now) ==
  IF ~OwnsDestination(l, oid, d, run, now) THEN "stop"
  ELSE IF /\ OwnsRecord(l, d, run, k, now)
          /\ l.deliveries[k].message # None
          /\ Subscribed(l.destinations[d], EventOf(k))
       THEN "send"
       ELSE "skip"

-----------------------------------------------------------------------------
(* Results. *)

Smaller(a, b) == IF a <= b THEN a ELSE b
Larger(a, b) == IF a >= b THEN a ELSE b

Doublings == <<1, 2, 4, 8, 16, 32, 64>>

RetryDelay(attempts, result) ==
  LET doubled == RetryBase * Doublings[Smaller(Larger(attempts, 1), 7)]
      delay == IF result.code \in Transient
               THEN Smaller(doubled, RetryCap) ELSE RetryCap
  IN Larger(delay, Smaller(result.retryAfter, RetryAfterCap))

MutantTransientGivesUp(attempts, code) ==
  code = "payload-too-large" \/ attempts >= MaxAttempts

TerminalFailure(attempts, code) ==
  \/ code = "payload-too-large"
  \/ code \notin Transient /\ attempts >= MaxAttempts

MutantAcceptanceNotTerminal(record, run, result, now) ==
  IF record.status \in Terminal \/ record.lease.holder # run THEN record
  ELSE [record EXCEPT !.status = "retryable", !.lease = NoLease,
          !.code = result.code,
          !.nextAttemptAt = now + RetryDelay(record.attempts, result)]

MutantLateAcceptanceLost(record, run, result, now) ==
  IF record.status \in Terminal \/ record.lease.holder # run THEN record
  ELSE IF result.code = "accepted"
  THEN [record EXCEPT !.status = "delivered", !.code = "accepted",
                      !.lease = NoLease]
  ELSE [record EXCEPT !.status = "retryable", !.lease = NoLease,
          !.code = result.code,
          !.nextAttemptAt = now + RetryDelay(record.attempts, result)]

(* applyResult on one record.  Acceptance is recorded whatever happened to *)
(* the record since; a failure only by the attempt that still holds it.    *)
ResultApplied(record, run, result, now) ==
  IF record.status = "delivered" THEN record
  ELSE IF result.code = "accepted"
  THEN [record EXCEPT !.status = "delivered", !.code = "accepted",
                      !.lease = NoLease]
  ELSE IF record.status = "skipped" \/ record.lease.holder # run THEN record
  ELSE IF TerminalFailure(record.attempts, result.code)
  THEN [record EXCEPT !.status = "skipped", !.lease = NoLease,
          !.code = IF result.code = "payload-too-large"
                   THEN result.code ELSE "abandoned"]
  ELSE [record EXCEPT !.status = "retryable", !.lease = NoLease,
          !.code = result.code,
          !.nextAttemptAt = now + RetryDelay(record.attempts, result)]

CanRecordResults(l, run, receipts) ==
  \A k \in Keys : receipts[k] # None => run \in l.deliveries[k].attemptIDs

(* Every receipt of one batch (None where there is none); the destination  *)
(* is released only by the batch that still holds it.                      *)
RecordResults(l, d, run, receipts, now) ==
  [l EXCEPT
     !.deliveries = [k \in Keys |->
        IF receipts[k] # None
        THEN ResultApplied(l.deliveries[k], run, receipts[k], now)
        ELSE l.deliveries[k]],
     !.destinations[d] =
        IF @.lease.holder = run
        THEN [@ EXCEPT !.lease = NoLease, !.nextSendAt = now + SendSpacing]
        ELSE @]

-----------------------------------------------------------------------------
(* The guards of a ledger write. *)

(* codec Validate, the part over destinations and deliveries.              *)
ValidRecord(l, k, record) ==
  /\ EventOf(k) \in l.events
  /\ Cardinality(record.attemptIDs) = record.attempts
  /\ record.lease.holder # None => record.lease.holder \in record.attemptIDs
  /\ record.status # "skipped" =>
        record.code \notin {"subscription-retired", "abandoned"}
  /\ record.status = "claimed" =>
        record.lease.holder # None /\ record.message # None
  /\ record.status = "retryable" => record.attempts > 0
  /\ record.status = "delivered" =>
        /\ record.code = "accepted"
        /\ record.attempts > 0
        /\ record.message # None
  /\ record.status = "skipped" =>
        \/ record.code = "subscription-retired"
        \/ /\ record.code \in {"abandoned", "payload-too-large"}
           /\ record.attempts > 0
           /\ record.message # None

ValidLedger(l) ==
  /\ l.anchor # None
  /\ l.revision.oid # None
  /\ Len(l.overrides) <= MaxOverrides
  /\ \A i \in DOMAIN l.overrides : l.overrides[i].prior # l.overrides[i].accepted
  /\ \A k \in Keys : l.deliveries[k].status # "absent" =>
                        ValidRecord(l, k, l.deliveries[k])

(* validateAppend on one delivery.                                         *)
RecordAppends(before, after) ==
  \/ before.status = "absent"
  \/ /\ after.status # "absent"
     /\ before.status = "delivered" => after = before
     /\ before.status = "skipped" =>
          \/ after = before
          \/ /\ after.status = "delivered"
             /\ after.attempts = before.attempts
             /\ after.attemptIDs = before.attemptIDs
     /\ before.message # None => after.message = before.message
     /\ after.attempts >= before.attempts
     /\ before.attemptIDs \subseteq after.attemptIDs

(* The audit of operator resets grows by exactly the one record that       *)
(* justifies an override, and by nothing otherwise.                        *)
AuditAppends(l, next, relation) ==
  IF relation = "override"
  THEN /\ l.revision.oid # next.revision.oid
       /\ next.overrides = Append(l.overrides,
            [prior |-> l.revision.oid, accepted |-> next.revision.oid])
  ELSE next.overrides = l.overrides

ValidAppend(l, next, relation) ==
  /\ l.anchor = next.anchor
  /\ l.events \subseteq next.events
  /\ AuditAppends(l, next, relation)
  /\ \A k \in Keys : RecordAppends(l.deliveries[k], next.deliveries[k])

(* What store.Commit requires of a transition's result before it encodes   *)
(* and pushes it; the first write has no predecessor to compare with.      *)
Storable(l, next, relation) ==
  /\ IF l.anchor = None
     THEN next.overrides = << >>
     ELSE /\ CheckRevision(l.revision, next.revision, relation)
          /\ ValidAppend(l, next, relation)
  /\ ValidLedger(next)
=============================================================================
