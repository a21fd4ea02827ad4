---------------------- MODULE NotificationRuntimeProofs ----------------------
(***************************************************************************)
(* What holds of NotificationRuntime for any number of runs, destinations, *)
(* events and revisions: its types, the write-ahead rule of dispatch       *)
(* (PostsAreClaimed), the advance of the accepted policy                   *)
(* (RevisionAdvances), what becomes of a delivery, and that the store      *)
(* refuses nothing (StoreNeverRefuses).  All rest on one inductive         *)
(* invariant, IInv.  The first part is about the reducers of               *)
(* NotificationLedger: what each returns, for any ledger, has the right    *)
(* type and keeps every attempt ID.                                        *)
(***************************************************************************)
EXTENDS NotificationRuntime, SequenceTheorems, FiniteSetTheorems, TLAPS

----------------------------------------------------------------------------
(***************************************************************************)
(* The reducers of NotificationLedger.                                     *)
(***************************************************************************)
(* No delivery loses the evidence of an attempt.                           *)
KeepsAttempts(l, m) ==
  \A k \in Keys : l.deliveries[k].attemptIDs \subseteq m.deliveries[k].attemptIDs

(* Everything but policy acceptance leaves the accepted policy alone.      *)
KeepsPolicy(l, m) ==
  m.anchor = l.anchor /\ m.revision = l.revision /\ m.overrides = l.overrides

(* A delivery that was never created has no attempts.                      *)
AbsentUntouched(l) ==
  \A k \in Keys : l.deliveries[k].status = "absent" =>
                    l.deliveries[k].attemptIDs = {}

-----------------------------------------------------------------------------
(* Empty values. *)

(* The empty lease is a lease.                                              *)
LEMMA NoLeaseTyped == NoLease \in Lease
BY DEF NoLease, Lease

(* A destination never seen is a destination.                               *)
LEMMA NoDestinationTyped == NoDestination \in Destination
BY NoLeaseTyped DEF NoDestination, Destination

(* A delivery never created is a record.                                    *)
LEMMA NoRecordTyped == NoRecord \in Record
BY NoLeaseTyped DEF NoRecord, Record, Statuses, Codes

(* The ledger of a missing reference is a ledger.                           *)
LEMMA AbsentLedgerTyped == AbsentLedger \in Ledger
<1>1. << >> \in Seq(Override)
  BY EmptySeq
<1> QED
  BY <1>1, NoDestinationTyped, NoRecordTyped
     DEF AbsentLedger, Ledger, NoRevision, Revision

(* The ledger a first activation anchors is a ledger.                       *)
LEMMA NewLedgerTyped == \A c \in Configs : NewLedger(c) \in Ledger
BY AbsentLedgerTyped DEF NewLedger, Ledger

-----------------------------------------------------------------------------
(* Policy acceptance. *)

(* acceptPolicy leaves a destination, kept, renewed or disabled.            *)
LEMMA AcceptedDestinationTyped ==
  ASSUME NEW old \in Destination, NEW d \in Destinations, NEW oid \in Configs,
         NEW now \in Nat
  PROVE  AcceptedDestination(old, d, oid, now) \in Destination
<1> DEFINE p == Policy[oid][d]
           fresh == [NoDestination EXCEPT !.active = TRUE, !.generation = oid,
                                          !.fingerprint = p.fingerprint]
           base == IF old.active /\ old.fingerprint = p.fingerprint
                   THEN old ELSE fresh
           cutoff == [kind \in Kinds |->
                        IF kind \notin p.kinds THEN 0
                        ELSE IF kind \in base.subscriptions THEN base.cutoff[kind]
                        ELSE now]
<1>1. p \in [enabled: BOOLEAN, fingerprint: Fingerprints, kinds: SUBSET Kinds]
  BY PolicyAssumption
<1>2. fresh \in Destination
  BY <1>1, NoDestinationTyped DEF Destination
<1>3. base \in Destination
  BY <1>2
<1>4. cutoff \in [Kinds -> Nat]
  BY <1>3 DEF Destination
<1>5. [base EXCEPT !.subscriptions = p.kinds, !.cutoff = cutoff] \in Destination
  BY <1>1, <1>3, <1>4 DEF Destination
<1>6. [old EXCEPT !.active = FALSE, !.subscriptions = {},
                  !.cutoff = [kind \in Kinds |-> 0]] \in Destination
  BY DEF Destination
<1> QED
  BY <1>5, <1>6 DEF AcceptedDestination

(* Retirement changes neither the attempts nor the existence of a record.   *)
LEMMA RetiredTyped ==
  ASSUME NEW record \in Record, NEW k \in Keys, NEW destination \in Destination
  PROVE  /\ Retired(record, k, destination) \in Record
         /\ Retired(record, k, destination).attemptIDs = record.attemptIDs
         /\ Retired(record, k, destination).status = "absent" <=>
              record.status = "absent"
BY DEF Retired, Record, Statuses, Codes, Terminal

(* Accepting a policy keeps the attempts, the anchor and the reset audit.   *)
LEMMA PolicyAppliedTyped ==
  ASSUME NEW l \in Ledger, NEW incoming \in [oid: Configs, digest: Digests],
         NEW now \in Nat
  PROVE  LET m == PolicyApplied(l, incoming, now)
         IN /\ m \in Ledger
            /\ KeepsAttempts(l, m)
            /\ AbsentUntouched(l) => AbsentUntouched(m)
            /\ m.anchor = l.anchor /\ m.overrides = l.overrides
            /\ m.revision = incoming
<1> DEFINE destinations == [d \in Destinations |->
              AcceptedDestination(l.destinations[d], d, incoming.oid, now)]
           deliveries == [k \in Keys |->
              Retired(l.deliveries[k], k, destinations[DestinationOf(k)])]
           m == [l EXCEPT !.destinations = destinations,
                          !.deliveries = deliveries, !.revision = incoming]
<1>1. destinations \in [Destinations -> Destination]
  BY AcceptedDestinationTyped DEF Ledger
<1>2. \A k \in Keys : DestinationOf(k) \in Destinations
  BY DEF Keys, DestinationOf
<1> HIDE DEF destinations
<1>3. \A k \in Keys :
        /\ deliveries[k] \in Record
        /\ deliveries[k].attemptIDs = l.deliveries[k].attemptIDs
        /\ deliveries[k].status = "absent" <=> l.deliveries[k].status = "absent"
  BY <1>1, <1>2, RetiredTyped DEF Ledger
<1>4. deliveries \in [Keys -> Record]
  BY <1>3
<1>5. incoming \in Revision
  BY DEF Revision
<1> HIDE DEF deliveries
<1>6. m \in Ledger
  BY <1>1, <1>4, <1>5 DEF Ledger
<1>7. m = PolicyApplied(l, incoming, now)
  BY DEF PolicyApplied, destinations, deliveries
<1>8. KeepsAttempts(l, m) /\ (AbsentUntouched(l) => AbsentUntouched(m))
  BY <1>3 DEF KeepsAttempts, AbsentUntouched, Ledger
<1> QED
  BY <1>6, <1>7, <1>8 DEF Ledger

(* A reset does the same and appends the one audit record it owes.          *)
LEMMA OverrideRevisionTyped ==
  ASSUME NEW l \in Ledger, NEW incoming \in [oid: Configs, digest: Digests],
         NEW now \in Nat, l.revision.oid # None
  PROVE  LET m == OverrideRevision(l, incoming, now)
         IN /\ m \in Ledger
            /\ KeepsAttempts(l, m)
            /\ AbsentUntouched(l) => AbsentUntouched(m)
            /\ m.anchor = l.anchor
            /\ m.revision = incoming
            /\ m.overrides = Append(l.overrides,
                               [prior |-> l.revision.oid, accepted |-> incoming.oid])
<1> DEFINE applied == PolicyApplied(l, incoming, now)
           entry == [prior |-> l.revision.oid, accepted |-> incoming.oid]
           m == [applied EXCEPT !.overrides = Append(@, entry)]
<1>1. /\ applied \in Ledger /\ KeepsAttempts(l, applied)
      /\ AbsentUntouched(l) => AbsentUntouched(applied)
      /\ applied.anchor = l.anchor /\ applied.overrides = l.overrides
      /\ applied.revision = incoming
  BY PolicyAppliedTyped
<1> HIDE DEF applied
<1>2. entry \in Override
  BY DEF Ledger, Revision, Override
<1>3. Append(applied.overrides, entry) \in Seq(Override)
  BY <1>1, <1>2, AppendProperties DEF Ledger
<1>4. m \in Ledger
  BY <1>1, <1>3 DEF Ledger
<1>5. KeepsAttempts(l, m) /\ (AbsentUntouched(l) => AbsentUntouched(m))
  BY <1>1 DEF KeepsAttempts, AbsentUntouched, Ledger
<1>6. m = OverrideRevision(l, incoming, now)
  BY DEF OverrideRevision, applied
<1> QED
  BY <1>1, <1>4, <1>5, <1>6 DEF Ledger

-----------------------------------------------------------------------------
(* Events and messages. *)

(* A ledger whose deliveries alone are replaced, each by one of the right   *)
(* type with no fewer attempts.                                             *)
LEMMA DeliveriesReplaced ==
  ASSUME NEW l \in Ledger, NEW deliveries \in [Keys -> Record],
         \A k \in Keys : l.deliveries[k].attemptIDs \subseteq deliveries[k].attemptIDs,
         \A k \in Keys : deliveries[k].status = "absent" =>
                            deliveries[k] = l.deliveries[k]
  PROVE  LET m == [l EXCEPT !.deliveries = deliveries]
         IN /\ m \in Ledger /\ m.deliveries = deliveries
            /\ KeepsAttempts(l, m) /\ KeepsPolicy(l, m)
            /\ AbsentUntouched(l) => AbsentUntouched(m)
BY DEF Ledger, KeepsAttempts, KeepsPolicy, AbsentUntouched

(* Admission creates records without attempts and touches no other.         *)
LEMMA EventsAdmittedTyped ==
  ASSUME NEW l \in Ledger, NEW E \in SUBSET Events, NEW time, AbsentUntouched(l)
  PROVE  LET m == EventsAdmitted(l, E, time)
         IN /\ m \in Ledger
            /\ KeepsAttempts(l, m) /\ KeepsPolicy(l, m)
            /\ AbsentUntouched(m)
<1> DEFINE earned == [e \in E |-> Admitted(l, e, time[e])]
           admitted(k) == /\ EventOf(k) \in E /\ k \in earned[EventOf(k)]
                          /\ l.deliveries[k].status = "absent"
           deliveries == [k \in Keys |->
              IF admitted(k) THEN [NoRecord EXCEPT !.status = "pending"]
              ELSE l.deliveries[k]]
           events == l.events \cup {e \in E : earned[e] # {}}
           m == [l EXCEPT !.deliveries = deliveries, !.events = events]
<1> HIDE DEF earned
<1>1. [NoRecord EXCEPT !.status = "pending"] \in Record
  BY NoRecordTyped DEF Record, Statuses
<1>2. deliveries \in [Keys -> Record]
  BY <1>1 DEF Ledger
<1>3. \A k \in Keys :
        /\ l.deliveries[k].attemptIDs \subseteq deliveries[k].attemptIDs
        /\ deliveries[k].status = "absent" => deliveries[k] = l.deliveries[k]
  BY DEF AbsentUntouched, NoRecord
<1>4. events \subseteq Events
  BY DEF Ledger
<1> HIDE DEF deliveries, events
<1>5. m \in Ledger /\ m.deliveries = deliveries /\ KeepsPolicy(l, m)
  BY <1>2, <1>4 DEF Ledger, KeepsPolicy
<1>6. KeepsAttempts(l, m) /\ AbsentUntouched(m)
  BY <1>3, <1>5 DEF KeepsAttempts, AbsentUntouched
<1>7. m = EventsAdmitted(l, E, time)
  BY DEF EventsAdmitted, deliveries, events, earned
<1> QED
  BY <1>5, <1>6, <1>7

(* A message, or a lease end, that is set changes nothing else.             *)
LEMMA MessageSet ==
  ASSUME NEW x \in Record, NEW c \in Configs
  PROVE  LET y == [x EXCEPT !.message = c]
         IN y \in Record /\ y.attemptIDs = x.attemptIDs /\ y.status = x.status
BY DEF Record

(* Moving the end of a lease leaves a well-formed destination.              *)
LEMMA LeaseEndSet ==
  ASSUME NEW x \in Destination, NEW until \in Nat
  PROVE  LET y == [x EXCEPT !.lease.until = until]
         IN y \in Destination /\ y.lease.until = until
<1> DEFINE lease == [x.lease EXCEPT !.until = until]
<1>1. x.lease \in Lease
  BY DEF Destination
<1>2. lease \in Lease /\ lease.until = until
  BY <1>1 DEF Lease
<1>3. [x EXCEPT !.lease.until = until] = [x EXCEPT !.lease = lease]
  BY DEF Destination
<1> HIDE DEF lease
<1> QED
  BY <1>2, <1>3 DEF Destination

(* Saving the rendered messages keeps the attempts.                         *)
LEMMA MessagesSavedTyped ==
  ASSUME NEW l \in Ledger, NEW oid \in Configs, NEW tasks
  PROVE  LET m == MessagesSaved(l, oid, tasks)
         IN /\ m \in Ledger
            /\ KeepsAttempts(l, m) /\ KeepsPolicy(l, m)
            /\ AbsentUntouched(l) => AbsentUntouched(m)
<1> DEFINE saved(k) == /\ k \in tasks
                       /\ l.revision.oid = oid
                       /\ l.deliveries[k].status # "absent"
                       /\ l.deliveries[k].message = None
                       /\ <<oid, EventOf(k)>> \in Renderable
           entry(k) == IF saved(k) THEN [l.deliveries[k] EXCEPT !.message = oid]
                       ELSE l.deliveries[k]
           deliveries == [k \in Keys |-> entry(k)]
<1>1. \A k \in Keys :
        /\ entry(k) \in Record
        /\ entry(k).attemptIDs = l.deliveries[k].attemptIDs
        /\ entry(k).status = "absent" => entry(k) = l.deliveries[k]
  <2> TAKE k \in Keys
  <2>1. l.deliveries[k] \in Record
    BY DEF Ledger
  <2>2. CASE saved(k)
    <3>1. l.deliveries[k].status # "absent" /\ entry(k) = [l.deliveries[k] EXCEPT !.message = oid]
      BY <2>2
    <3> HIDE DEF saved, entry
    <3> QED
      BY <2>1, <3>1, MessageSet
  <2>3. CASE ~saved(k)
    <3> HIDE DEF saved
    <3> QED
      BY <2>1, <2>3
  <2> QED
    BY <2>2, <2>3
<1>2. MessagesSaved(l, oid, tasks) = [l EXCEPT !.deliveries = deliveries]
  BY DEF MessagesSaved
<1> HIDE DEF entry
<1>3. /\ deliveries \in [Keys -> Record]
      /\ \A k \in Keys :
           /\ deliveries[k].attemptIDs = l.deliveries[k].attemptIDs
           /\ deliveries[k].status = "absent" => deliveries[k] = l.deliveries[k]
  BY <1>1
<1> HIDE DEF deliveries
<1> QED
  BY <1>1, <1>3, <1>2, DeliveriesReplaced

-----------------------------------------------------------------------------
(* Claims and renewals. *)

(* A ledger whose deliveries and one destination are replaced.              *)
LEMMA BatchReplaced ==
  ASSUME NEW l \in Ledger, NEW d \in Destinations,
         NEW deliveries \in [Keys -> Record], NEW destination \in Destination,
         \A k \in Keys : l.deliveries[k].attemptIDs \subseteq deliveries[k].attemptIDs,
         \A k \in Keys : deliveries[k].status = "absent" =>
                            deliveries[k] = l.deliveries[k]
  PROVE  LET m == [l EXCEPT !.deliveries = deliveries,
                            !.destinations[d] = destination]
         IN /\ m \in Ledger /\ m.deliveries = deliveries
            /\ KeepsAttempts(l, m) /\ KeepsPolicy(l, m)
            /\ AbsentUntouched(l) => AbsentUntouched(m)
BY DEF Ledger, KeepsAttempts, KeepsPolicy, AbsentUntouched

(* A claim puts the run among the attempts of every record it takes.        *)
LEMMA ClaimBatchTyped ==
  ASSUME NEW l \in Ledger, NEW d \in Destinations, NEW run \in Runs,
         NEW tasks, NEW now \in Nat
  PROVE  LET m == ClaimBatch(l, d, run, tasks, now)
         IN /\ m \in Ledger
            /\ KeepsAttempts(l, m) /\ KeepsPolicy(l, m)
            /\ AbsentUntouched(l) => AbsentUntouched(m)
            /\ m.destinations[d].lease.until = now + ClaimDuration
            /\ \A k \in Keys : k \in Claimable(l, d, tasks, now) =>
                  run \in m.deliveries[k].attemptIDs
<1> DEFINE lease == [holder |-> run, until |-> now + ClaimDuration]
           claimed == Claimable(l, d, tasks, now)
           deliveries == [k \in Keys |->
              IF k \in claimed
              THEN [l.deliveries[k] EXCEPT
                      !.status = "claimed", !.attempts = @ + 1,
                      !.attemptIDs = @ \cup {run}, !.lease = lease]
              ELSE l.deliveries[k]]
           destination == [l.destinations[d] EXCEPT
              !.lease = lease, !.nextSendAt = now + SendSpacing]
<1>1. lease \in Lease /\ now + SendSpacing \in Nat
  BY TimeAssumption DEF Lease
<1> HIDE DEF lease, claimed
<1>2. \A k \in Keys :
        /\ deliveries[k] \in Record
        /\ l.deliveries[k].attemptIDs \subseteq deliveries[k].attemptIDs
        /\ deliveries[k].status = "absent" => deliveries[k] = l.deliveries[k]
        /\ k \in claimed => run \in deliveries[k].attemptIDs
  <2> SUFFICES ASSUME NEW k \in Keys, NEW record \in Record,
                      record = l.deliveries[k]
               PROVE  LET after == [record EXCEPT
                            !.status = "claimed", !.attempts = @ + 1,
                            !.attemptIDs = @ \cup {run}, !.lease = lease]
                      IN /\ after \in Record
                         /\ record.attemptIDs \subseteq after.attemptIDs
                         /\ after.status # "absent"
                         /\ run \in after.attemptIDs
    BY DEF Ledger
  <2>1. /\ record.attempts + 1 \in Nat
        /\ record.attemptIDs \cup {run} \in SUBSET Runs
        /\ "claimed" \in Statuses
    BY DEF Record, Statuses
  <2> QED
    BY <1>1, <2>1 DEF Record
<1>3. deliveries \in [Keys -> Record]
  BY <1>2
<1>4. destination \in Destination /\ destination.lease = lease
  <2> SUFFICES ASSUME NEW old \in Destination
               PROVE  LET after == [old EXCEPT !.lease = lease,
                                               !.nextSendAt = now + SendSpacing]
                      IN after \in Destination /\ after.lease = lease
    BY DEF Ledger
  <2> QED
    BY <1>1 DEF Destination
<1> DEFINE m == [l EXCEPT !.deliveries = deliveries, !.destinations[d] = destination]
<1>5. ClaimBatch(l, d, run, tasks, now) = m
  BY DEF ClaimBatch, lease, claimed, Ledger
<1>6. lease.until = now + ClaimDuration
  BY DEF lease
<1> HIDE DEF deliveries, destination
<1>7. m.destinations[d] = destination
  BY DEF Ledger
<1>8. /\ m \in Ledger /\ m.deliveries = deliveries
      /\ KeepsAttempts(l, m) /\ KeepsPolicy(l, m)
      /\ AbsentUntouched(l) => AbsentUntouched(m)
  BY <1>2, <1>3, <1>4, BatchReplaced
<1> HIDE DEF m
<1> QED
  BY <1>2, <1>4, <1>5, <1>6, <1>7, <1>8 DEF claimed

(* A renewal moves lease ends and nothing else.                             *)
LEMMA RenewBatchTyped ==
  ASSUME NEW l \in Ledger, NEW d \in Destinations, NEW run \in Runs,
         NEW tasks, NEW now \in Nat
  PROVE  LET m == RenewBatch(l, d, run, tasks, now)
         IN /\ m \in Ledger
            /\ KeepsAttempts(l, m) /\ KeepsPolicy(l, m)
            /\ AbsentUntouched(l) => AbsentUntouched(m)
            /\ m.destinations[d].lease.until = now + ClaimDuration
<1> DEFINE owned(k) == k \in tasks /\ OwnsRecord(l, d, run, k, now)
           until == now + ClaimDuration
           entry(k) == IF owned(k) THEN [l.deliveries[k] EXCEPT !.lease.until = until]
                       ELSE l.deliveries[k]
           deliveries == [k \in Keys |-> entry(k)]
           destination == [l.destinations[d] EXCEPT !.lease.until = until]
<1>1. until \in Nat
  BY TimeAssumption
<1> HIDE DEF until
<1>2. \A k \in Keys :
        /\ entry(k) \in Record
        /\ entry(k).attemptIDs = l.deliveries[k].attemptIDs
        /\ entry(k).status = "absent" => entry(k) = l.deliveries[k]
  <2> SUFFICES ASSUME NEW k \in Keys, NEW record \in Record,
                      record = l.deliveries[k], record.status = "claimed"
               PROVE  LET after == [record EXCEPT !.lease.until = until]
                      IN /\ after \in Record
                         /\ after.attemptIDs = record.attemptIDs
                         /\ after.status # "absent"
    BY DEF Ledger, OwnsRecord
  <2> QED
    BY <1>1 DEF Record, Lease
<1>3. /\ deliveries \in [Keys -> Record]
      /\ \A k \in Keys :
           /\ deliveries[k].attemptIDs = l.deliveries[k].attemptIDs
           /\ deliveries[k].status = "absent" => deliveries[k] = l.deliveries[k]
  <2> HIDE DEF entry
  <2> QED
    BY <1>2
<1>4. destination \in Destination /\ destination.lease.until = until
  <2>1. l.destinations[d] \in Destination
    BY DEF Ledger
  <2> QED
    BY <1>1, <2>1, LeaseEndSet
<1> DEFINE m == [l EXCEPT !.deliveries = deliveries, !.destinations[d] = destination]
<1>5. RenewBatch(l, d, run, tasks, now) = m
  BY DEF RenewBatch, until, Ledger
<1> HIDE DEF entry, deliveries, destination
<1>6. m.destinations[d] = destination
  BY DEF Ledger
<1>7. /\ m \in Ledger /\ KeepsAttempts(l, m) /\ KeepsPolicy(l, m)
      /\ AbsentUntouched(l) => AbsentUntouched(m)
  BY <1>3, <1>4, BatchReplaced
<1> HIDE DEF m
<1> QED
  BY <1>4, <1>5, <1>6, <1>7 DEF until

-----------------------------------------------------------------------------
(* Results. *)

(* A retry is always scheduled a natural number of seconds ahead.           *)
LEMMA RetryDelayTyped ==
  ASSUME NEW attempts \in Nat, NEW result \in Result
  PROVE  RetryDelay(attempts, result) \in Nat
<1> DEFINE i == Smaller(Larger(attempts, 1), 7)
           doubled == RetryBase * Doublings[i]
<1>1. i \in 1..7
  BY DEF Smaller, Larger
<1> HIDE DEF i
<1>2. Doublings[i] \in Nat
  BY <1>1 DEF Doublings
<1>3. RetryBase \in Nat /\ RetryCap \in Nat /\ RetryAfterCap \in Nat
  BY TimeAssumption
<1>4. doubled \in Nat
  BY <1>2, <1>3
<1> HIDE DEF doubled
<1> DEFINE delay == IF result.code \in Transient
                    THEN Smaller(doubled, RetryCap) ELSE RetryCap
<1>5. delay \in Nat
  BY <1>3, <1>4 DEF Smaller
<1> HIDE DEF delay
<1>6. Larger(delay, Smaller(result.retryAfter, RetryAfterCap)) \in Nat
  BY <1>3, <1>5 DEF Larger, Smaller, Result
<1> QED
  BY <1>6 DEF RetryDelay, delay, doubled, i

(* A result never adds or removes an attempt.                               *)
LEMMA ResultAppliedTyped ==
  ASSUME NEW record \in Record, NEW run \in Runs, NEW result \in Result,
         NEW now \in Nat
  PROVE  LET after == ResultApplied(record, run, result, now)
         IN /\ after \in Record
            /\ after.attemptIDs = record.attemptIDs
            /\ after.status = "absent" => after = record
<1> DEFINE next == now + RetryDelay(record.attempts, result)
<1>1. next \in Nat
  BY RetryDelayTyped DEF Record
<1> HIDE DEF next
<1>2. result.code \in Codes /\ "abandoned" \in Codes /\ "accepted" \in Codes
  BY DEF Result, Codes, AttemptOutcomes
<1>3. [record EXCEPT !.status = "delivered", !.code = "accepted",
                     !.lease = NoLease] \in Record
  BY <1>2, NoLeaseTyped DEF Record, Statuses
<1>4. [record EXCEPT !.status = "skipped", !.lease = NoLease,
          !.code = IF result.code = "payload-too-large"
                   THEN result.code ELSE "abandoned"] \in Record
  BY <1>2, NoLeaseTyped DEF Record, Statuses
<1>5. [record EXCEPT !.status = "retryable", !.lease = NoLease,
          !.code = result.code, !.nextAttemptAt = next] \in Record
  BY <1>1, <1>2, NoLeaseTyped DEF Record, Statuses
<1>6. ResultApplied(record, run, result, now) \in Record
  BY <1>3, <1>4, <1>5 DEF ResultApplied, next
<1> QED
  BY <1>6 DEF ResultApplied, Record

(* Neither do the results of a batch.                                       *)
LEMMA RecordResultsTyped ==
  ASSUME NEW l \in Ledger, NEW d \in Destinations, NEW run \in Runs,
         NEW receipts \in [Keys -> Result \cup {None}], NEW now \in Nat
  PROVE  LET m == RecordResults(l, d, run, receipts, now)
         IN /\ m \in Ledger
            /\ KeepsAttempts(l, m) /\ KeepsPolicy(l, m)
            /\ AbsentUntouched(l) => AbsentUntouched(m)
<1> DEFINE deliveries == [k \in Keys |->
              IF receipts[k] # None
              THEN ResultApplied(l.deliveries[k], run, receipts[k], now)
              ELSE l.deliveries[k]]
           old == l.destinations[d]
           destination ==
              IF old.lease.holder = run
              THEN [old EXCEPT !.lease = NoLease, !.nextSendAt = now + SendSpacing]
              ELSE old
<1>1. \A k \in Keys :
        /\ deliveries[k] \in Record
        /\ deliveries[k].attemptIDs = l.deliveries[k].attemptIDs
        /\ deliveries[k].status = "absent" => deliveries[k] = l.deliveries[k]
  <2> SUFFICES ASSUME NEW k \in Keys
               PROVE  /\ deliveries[k] \in Record
                      /\ deliveries[k].attemptIDs = l.deliveries[k].attemptIDs
                      /\ deliveries[k].status = "absent" =>
                            deliveries[k] = l.deliveries[k]
    OBVIOUS
  <2>1. l.deliveries[k] \in Record
    BY DEF Ledger
  <2>2. receipts[k] # None => receipts[k] \in Result
    OBVIOUS
  <2> QED
    BY <2>1, <2>2, ResultAppliedTyped
<1>2. deliveries \in [Keys -> Record]
  BY <1>1
<1>3. old \in Destination /\ now + SendSpacing \in Nat
  BY TimeAssumption DEF Ledger
<1>4. destination \in Destination
  <2> HIDE DEF old
  <2>1. [old EXCEPT !.lease = NoLease, !.nextSendAt = now + SendSpacing]
          \in Destination
    BY <1>3, NoLeaseTyped DEF Destination
  <2> QED
    BY <1>3, <2>1
<1> DEFINE m == [l EXCEPT !.deliveries = deliveries, !.destinations[d] = destination]
<1>5. RecordResults(l, d, run, receipts, now) = m
  BY DEF RecordResults, Ledger
<1> HIDE DEF deliveries, destination
<1>6. /\ m \in Ledger /\ KeepsAttempts(l, m) /\ KeepsPolicy(l, m)
      /\ AbsentUntouched(l) => AbsentUntouched(m)
  BY <1>1, <1>2, <1>4, BatchReplaced
<1> HIDE DEF m
<1> QED
  BY <1>5, <1>6

----------------------------------------------------------------------------
(***************************************************************************)
(* The runs of NotificationRuntime.                                        *)
(***************************************************************************)
(* A commit of a worker belongs to the worker that waits for it.           *)
CommitShape(r) ==
  commit[r].op \in WorkerOps =>
    /\ commit[r].dest \in Destinations
    /\ worker[r][commit[r].dest].pc = commit[r].op

(* A worker about to renew or to send knows for which record.              *)
Sound(w) == w \in Worker /\ (w.pc \in {"renew", "post"} => w.current \in Keys)

(* The worker has claimed delivery k: it has a receipt for it, has it yet   *)
(* to send, or is at it.                                                    *)
Holds(w, k) ==
  \/ w.receipts[k] # None
  \/ k \in w.left
  \/ w.pc \in {"renew", "post"} /\ w.current = k

(* A ledger exists exactly when a policy has been accepted.                 *)
Anchored(l) ==
  /\ l.anchor = None => l = AbsentLedger
  /\ l.anchor # None => l.revision.oid # None

(* What the evaluation of a commit established of the ledger it read, and   *)
(* what still holds as long as no other process has written.                *)
Movable(r, c) ==
  /\ c.op # "activate" => ledger.anchor # None
  /\ c.op = "activate" =>
       \/ ledger.anchor = None
       \/ ledger.revision = RunRevision[r]
       \/ <<ledger.revision.oid, OID(r)>> \in Ancestry
  /\ c.op = "reset" =>
       \/ ledger.revision = RunRevision[r]
       \/ r \in Resets /\ ledger.revision.oid \notin clone[r]

WorkersClaimed ==
  \A r \in Runs, d \in Destinations, k \in Keys :
     Holds(worker[r][d], k) => r \in ledger.deliveries[k].attemptIDs

IInv ==
  /\ TypeOK
  /\ \A r \in Runs : CommitShape(r)
  /\ \A r \in Runs, d \in Destinations : Sound(worker[r][d])
  /\ Anchored(ledger)
  /\ AbsentUntouched(ledger)
  /\ \A r \in Runs : commit[r].fresh => Movable(r, commit[r])
  /\ PostsAreClaimed
  /\ WorkersClaimed

-----------------------------------------------------------------------------
(* Values. *)

(* A run has a pinned revision, which is a commit, and a clock.             *)
LEMMA RunTyped ==
  ASSUME NEW r \in Runs
  PROVE  /\ RunRevision[r] \in [oid: Configs, digest: Digests]
         /\ OID(r) \in Configs /\ OID(r) # None
         /\ RunRevision[r] = [oid |-> OID(r), digest |-> RunRevision[r].digest]
         /\ RunRevision[r].digest \in Digests
         /\ clock \in Nat => Now(r) \in Nat
BY RunAssumption, NoneAssumption DEF OID, Now

(* A worker that has ended holds nothing.                                   *)
LEMMA EndedWorkerSound ==
  Sound(EndedWorker) /\ \A k \in Keys : ~Holds(EndedWorker, k)
BY DEF Sound, Holds, EndedWorker, NoWorker, Worker, WorkerStages

(* No commit in flight is a value of commit.                                *)
LEMMA NoCommitTyped == NoCommit \in Commit
BY DEF NoCommit, Commit

(* The check before a POST chooses at most the record it was asked about.   *)
LEMMA CheckedSound ==
  ASSUME NEW r, NEW d, NEW w \in Worker, NEW k \in Keys, NEW l
  PROVE  LET after == Checked(r, d, w, k, l)
         IN /\ Sound(after)
            /\ \A j \in Keys : Holds(after, j) => Holds(w, j) \/ j = k
BY DEF Checked, Sound, Holds, Worker, WorkerStages

(* Giving up sending takes on nothing new.                                  *)
LEMMA GivesUpSound ==
  ASSUME NEW w \in Worker
  PROVE  /\ Sound(GivesUp(w))
         /\ \A k \in Keys : Holds(GivesUp(w), k) => Holds(w, k)
BY DEF GivesUp, Sound, Holds, Worker, WorkerStages

-----------------------------------------------------------------------------
(* What a commit would make of the ledger. *)

(* The destination of a worker's commit, in any state it can be evaluated.  *)
Placed(r, c) ==
  c.op \in WorkerOps => c.dest \in Destinations /\ worker[r][c.dest].pc = c.op

(* What an activation starts from: the ledger, or a new one without attempts. *)
LEMMA ActivationBaseTyped ==
  ASSUME IInv, NEW r \in Runs
  PROVE  /\ ActivationBase(r) \in Ledger
         /\ AbsentUntouched(ActivationBase(r))
         /\ KeepsAttempts(ledger, ActivationBase(r))
         /\ ActivationBase(r).anchor # None
         /\ ledger.anchor # None => ActivationBase(r) = ledger
         /\ ledger.anchor = None => ActivationBase(r).revision.oid = None
<1>1. CASE ledger.anchor = None
  <2>1. ActivationBase(r) = NewLedger(OID(r)) /\ ledger = AbsentLedger
    BY <1>1 DEF IInv, Anchored, ActivationBase
  <2>2. NewLedger(OID(r)) \in Ledger
    BY RunTyped, NewLedgerTyped
  <2>3. /\ NewLedger(OID(r)).anchor = OID(r)
        /\ NewLedger(OID(r)).deliveries = AbsentLedger.deliveries
        /\ NewLedger(OID(r)).revision.oid = None
    BY DEF NewLedger, AbsentLedger, NoRevision
  <2> QED
    BY <1>1, <2>1, <2>2, <2>3, RunTyped DEF IInv, AbsentUntouched, KeepsAttempts
<1>2. CASE ledger.anchor # None
  BY <1>2 DEF IInv, TypeOK, ActivationBase, KeepsAttempts
<1> QED
  BY <1>1, <1>2

(* Activation: the accepted policy becomes the run's.                       *)
LEMMA ActivateOutcome ==
  ASSUME IInv, NEW r \in Runs, NEW c \in Commit, c.op = "activate"
  PROVE  /\ Outcome(r, c) \in Ledger
         /\ KeepsAttempts(ledger, Outcome(r, c))
         /\ AbsentUntouched(Outcome(r, c))
         /\ Outcome(r, c).anchor # None
         /\ Outcome(r, c).revision = RunRevision[r]
         /\ ledger.anchor # None => Outcome(r, c).overrides = ledger.overrides
<1> DEFINE base == ActivationBase(r)
           applied == PolicyApplied(base, RunRevision[r], c.at)
<1>1. Outcome(r, c) = IF base.revision = RunRevision[r] THEN base ELSE applied
  BY DEF Outcome, AcceptPolicy
<1>2. /\ base \in Ledger /\ AbsentUntouched(base)
      /\ KeepsAttempts(ledger, base) /\ base.anchor # None
      /\ ledger.anchor # None => base = ledger
  BY ActivationBaseTyped
<1>3. c.at \in Nat /\ RunRevision[r] \in [oid: Configs, digest: Digests]
  BY RunTyped DEF Commit
<1> HIDE DEF base
<1>4. /\ applied \in Ledger /\ KeepsAttempts(base, applied)
      /\ AbsentUntouched(applied)
      /\ applied.anchor = base.anchor /\ applied.overrides = base.overrides
      /\ applied.revision = RunRevision[r]
  BY <1>2, <1>3, PolicyAppliedTyped
<1> HIDE DEF applied
<1> QED
  BY <1>1, <1>2, <1>4 DEF KeepsAttempts

(* Reset: past a revision its clone lacks, with the audit record of it.     *)
LEMMA ResetOutcome ==
  ASSUME IInv, NEW r \in Runs, NEW c \in Commit, c.op = "reset",
         ledger.anchor # None
  PROVE  /\ Outcome(r, c) \in Ledger
         /\ KeepsAttempts(ledger, Outcome(r, c))
         /\ AbsentUntouched(Outcome(r, c))
         /\ Outcome(r, c).anchor = ledger.anchor
         /\ Outcome(r, c).revision = RunRevision[r]
         /\ ledger.revision # RunRevision[r] =>
               Outcome(r, c).overrides = Append(ledger.overrides,
                 [prior |-> ledger.revision.oid, accepted |-> OID(r)])
<1> DEFINE moved == OverrideRevision(ledger, RunRevision[r], c.at)
<1>1. Outcome(r, c) = IF ledger.revision = RunRevision[r] THEN ledger ELSE moved
  BY DEF Outcome
<1>2. ledger \in Ledger /\ AbsentUntouched(ledger) /\ ledger.revision.oid # None
  BY DEF IInv, TypeOK, Anchored
<1>3. c.at \in Nat /\ RunRevision[r] \in [oid: Configs, digest: Digests]
  BY RunTyped DEF Commit
<1>4. /\ moved \in Ledger /\ KeepsAttempts(ledger, moved)
      /\ AbsentUntouched(moved)
      /\ moved.anchor = ledger.anchor
      /\ moved.revision = RunRevision[r]
      /\ moved.overrides = Append(ledger.overrides,
                 [prior |-> ledger.revision.oid, accepted |-> OID(r)])
  BY <1>2, <1>3, OverrideRevisionTyped DEF OID
<1> HIDE DEF moved
<1> QED
  BY <1>1, <1>2, <1>4 DEF KeepsAttempts

(* The other operations leave the accepted policy alone.                    *)
LEMMA OtherOutcome ==
  ASSUME IInv, NEW r \in Runs, NEW c \in Commit,
         c.op \notin {"activate", "reset"}, Placed(r, c)
  PROVE  /\ Outcome(r, c) \in Ledger
         /\ KeepsAttempts(ledger, Outcome(r, c))
         /\ AbsentUntouched(Outcome(r, c))
         /\ KeepsPolicy(ledger, Outcome(r, c))
         /\ c.op = "claim" => \A k \in Keys : k \in ClaimedBy(r, c) =>
               r \in Outcome(r, c).deliveries[k].attemptIDs
<1>1. ledger \in Ledger /\ AbsentUntouched(ledger)
  BY DEF IInv, TypeOK
<1>2. c.at \in Nat /\ c.events \in SUBSET Events
  BY DEF Commit
<1>3. CASE c.op = "admit"
  <2>1. Outcome(r, c) = EventsAdmitted(ledger, c.events, EventTime)
    BY <1>3 DEF Outcome
  <2> QED
    BY <1>1, <1>2, <1>3, <2>1, EventsAdmittedTyped
<1>4. CASE c.op = "claim"
  <2> DEFINE tasks == worker[r][c.dest].tasks
             prepared == Prepared(r, c)
             claimed == ClaimBatch(prepared, c.dest, r, tasks, c.at)
  <2>1. Outcome(r, c) = claimed /\ c.dest \in Destinations
    BY <1>4 DEF Outcome, Placed, WorkerOps
  <2>2. /\ prepared \in Ledger /\ KeepsAttempts(ledger, prepared)
        /\ KeepsPolicy(ledger, prepared) /\ AbsentUntouched(prepared)
    BY <1>1, MessagesSavedTyped, RunTyped DEF Prepared
  <2>3. ClaimedBy(r, c) = Claimable(prepared, c.dest, tasks, c.at)
    BY DEF ClaimedBy
  <2> HIDE DEF prepared, tasks
  <2>4. /\ claimed \in Ledger /\ KeepsAttempts(prepared, claimed)
        /\ KeepsPolicy(prepared, claimed) /\ AbsentUntouched(claimed)
        /\ \A k \in Keys : k \in Claimable(prepared, c.dest, tasks, c.at) =>
              r \in claimed.deliveries[k].attemptIDs
    BY <1>2, <2>1, <2>2, ClaimBatchTyped
  <2> HIDE DEF claimed
  <2> QED
    BY <1>4, <2>1, <2>2, <2>3, <2>4 DEF KeepsAttempts, KeepsPolicy
<1>5. CASE c.op = "renew"
  <2>1. /\ Outcome(r, c) = RenewBatch(ledger, c.dest, r, worker[r][c.dest].tasks, c.at)
        /\ c.dest \in Destinations
    BY <1>5 DEF Outcome, Placed, WorkerOps
  <2> QED
    BY <1>1, <1>2, <1>5, <2>1, RenewBatchTyped
<1>6. CASE c.op = "record"
  <2>1. /\ Outcome(r, c) =
             RecordResults(ledger, c.dest, r, worker[r][c.dest].receipts, c.at)
        /\ c.dest \in Destinations
    BY <1>6 DEF Outcome, Placed, WorkerOps
  <2>2. worker[r][c.dest].receipts \in [Keys -> Result \cup {None}]
    BY <2>1 DEF IInv, TypeOK, Worker
  <2> QED
    BY <1>1, <1>2, <1>6, <2>1, <2>2, RecordResultsTyped
<1>7. CASE c.op = "none"
  <2>1. Outcome(r, c) = ledger
    BY <1>7 DEF Outcome
  <2> QED
    BY <1>1, <1>7, <2>1 DEF KeepsAttempts, KeepsPolicy
<1> QED
  BY <1>3, <1>4, <1>5, <1>6, <1>7 DEF Commit, Operations

(* Together: the result of any commit that may be written.                  *)
LEMMA OutcomeSound ==
  ASSUME IInv, NEW r \in Runs, NEW c \in Commit, Placed(r, c),
         c.op = "activate" \/ ledger.anchor # None
  PROVE  /\ Outcome(r, c) \in Ledger
         /\ KeepsAttempts(ledger, Outcome(r, c))
         /\ AbsentUntouched(Outcome(r, c))
         /\ Anchored(Outcome(r, c))
         /\ c.op = "claim" => \A k \in Keys : k \in ClaimedBy(r, c) =>
               r \in Outcome(r, c).deliveries[k].attemptIDs
<1>1. CASE c.op = "activate"
  BY <1>1, ActivateOutcome, RunTyped DEF Anchored, OID
<1>2. CASE c.op = "reset"
  BY <1>2, ResetOutcome, RunTyped DEF Anchored, OID
<1>3. CASE c.op \notin {"activate", "reset"}
  BY <1>3, OtherOutcome DEF Anchored, KeepsPolicy, IInv
<1> QED
  BY <1>1, <1>2, <1>3

-----------------------------------------------------------------------------
(* Workers. *)

(* What may become of the workers in one step of run r.                     *)
WorkersMove(r) ==
  /\ worker' \in [Runs -> [Destinations -> Worker]]
  /\ \A d \in Destinations : Sound(worker'[r][d])
  /\ \A q \in Runs : q # r => worker'[q] = worker[q]

(* A step that only moves the workers of r soundly leaves all sound.        *)
LEMMA WorkersMoveSound ==
  ASSUME IInv, NEW r \in Runs, WorkersMove(r)
  PROVE  \A q \in Runs, d \in Destinations : Sound(worker'[q][d])
BY DEF IInv, WorkersMove

(* After its commit a worker holds what it held and what it has just claimed. *)
LEMMA WorkerAfterSound ==
  ASSUME IInv, NEW r \in Runs, NEW c \in Commit, Placed(r, c),
         c.op \in WorkerOps, NEW next \in Ledger
  PROVE  LET after == WorkerAfter(r, c, next)
         IN /\ Sound(after)
            /\ \A k \in Keys : Holds(after, k) =>
                  \/ Holds(worker[r][c.dest], k)
                  \/ c.op = "claim" /\ k \in ClaimedBy(r, c)
<1> DEFINE w == worker[r][c.dest]
           until == next.destinations[c.dest].lease.until
           claimed == ClaimedBy(r, c)
<1>1. c.dest \in Destinations /\ w.pc = c.op /\ w \in Worker
  BY DEF Placed, IInv, TypeOK
<1>2. w.pc = "renew" => w.current \in Keys
  BY <1>1 DEF IInv, Sound
<1>3. until \in Nat
  BY <1>1 DEF Ledger, Destination, Lease
<1>4. claimed \subseteq Keys
  BY <1>1 DEF ClaimedBy, Claimable, Worker
<1>5. Canceled \in Result
  BY DEF Canceled, Result, AttemptOutcomes, Transient
<1> HIDE DEF w, until, claimed
<1>6. CASE c.op = "claim"
  <2> DEFINE receipts == [k \in Keys |-> IF k \in claimed THEN Canceled ELSE None]
             after == [w EXCEPT !.pc = "send", !.left = claimed,
                                !.leaseUntil = until, !.receipts = receipts]
  <2>1. receipts \in [Keys -> Result \cup {None}]
    BY <1>5
  <2>2. \A k \in Keys : receipts[k] # None => k \in claimed
    OBVIOUS
  <2> HIDE DEF receipts
  <2>3. /\ after \in Worker /\ after.pc = "send" /\ after.left = claimed
        /\ after.receipts = receipts
    BY <1>1, <1>3, <1>4, <2>1 DEF Worker, WorkerStages
  <2>4. WorkerAfter(r, c, next) = after
    BY <1>6 DEF WorkerAfter, w, until, claimed, receipts
  <2> HIDE DEF after
  <2> QED
    BY <1>6, <2>2, <2>3, <2>4 DEF Sound, Holds, claimed
<1>7. CASE c.op = "renew"
  <2> DEFINE renewed == [w EXCEPT !.leaseUntil = until]
             after == Checked(r, c.dest, renewed, w.current, next)
  <2>1. /\ renewed \in Worker /\ renewed.receipts = w.receipts
        /\ renewed.left = w.left /\ renewed.pc = w.pc
        /\ renewed.current = w.current
    BY <1>1, <1>3 DEF Worker
  <2>2. w.current \in Keys /\ Holds(w, w.current)
    BY <1>1, <1>2, <1>7 DEF Holds
  <2> HIDE DEF renewed
  <2>3. Sound(after) /\ \A j \in Keys : Holds(after, j) =>
                              Holds(renewed, j) \/ j = w.current
    BY <2>1, <2>2, CheckedSound
  <2>4. \A j \in Keys : Holds(renewed, j) => Holds(w, j)
    BY <2>1 DEF Holds
  <2>5. WorkerAfter(r, c, next) = after
    BY <1>7 DEF WorkerAfter, Renewed, w, until, renewed
  <2> HIDE DEF after
  <2> QED
    BY <2>2, <2>3, <2>4, <2>5 DEF w
<1>8. CASE c.op = "record"
  <2>1. WorkerAfter(r, c, next) = EndedWorker
    BY <1>8 DEF WorkerAfter
  <2> QED
    BY <2>1, EndedWorkerSound
<1> QED
  BY <1>6, <1>7, <1>8 DEF WorkerOps

(* The run goes on after its commit.                                        *)
LEMMA SucceedSound ==
  ASSUME IInv, NEW r \in Runs, NEW c \in Commit, Placed(r, c),
         NEW next \in Ledger, Succeed(r, c, next)
  PROVE  /\ stage' \in [Runs -> Stages]
         /\ WorkersMove(r)
         /\ \A d \in Destinations, k \in Keys : Holds(worker'[r][d], k) =>
               \/ Holds(worker[r][d], k)
               \/ c.op = "claim" /\ k \in ClaimedBy(r, c)
<1>1. stage' \in [Runs -> Stages]
  BY DEF Succeed, IInv, TypeOK, Stages
<1>2. CASE c.op \in WorkerOps
  <2> DEFINE after == WorkerAfter(r, c, next)
  <2>1. worker' = [worker EXCEPT ![r][c.dest] = after] /\ c.dest \in Destinations
    BY <1>2 DEF Succeed, Placed
  <2>2. /\ Sound(after)
        /\ \A k \in Keys : Holds(after, k) =>
                  \/ Holds(worker[r][c.dest], k)
                  \/ c.op = "claim" /\ k \in ClaimedBy(r, c)
    BY <1>2, WorkerAfterSound
  <2> HIDE DEF after
  <2> QED
    BY <1>1, <2>1, <2>2 DEF WorkersMove, IInv, TypeOK, Sound
<1>3. CASE c.op \notin WorkerOps
  BY <1>1, <1>3 DEF Succeed, WorkersMove, IInv, TypeOK
<1> QED
  BY <1>2, <1>3

(* After a failed commit a worker holds nothing it did not hold.            *)
LEMMA FailSound ==
  ASSUME IInv, NEW r \in Runs, NEW c \in Commit, Placed(r, c), Fail(r, c)
  PROVE  /\ stage' \in [Runs -> Stages]
         /\ WorkersMove(r)
         /\ \A d \in Destinations, k \in Keys :
               Holds(worker'[r][d], k) => Holds(worker[r][d], k)
<1>1. stage' \in [Runs -> Stages]
  BY DEF Fail, NotActivated, IInv, TypeOK, Stages
<1>2. CASE c.op \in WorkerOps
  <2>1. c.dest \in Destinations /\ worker[r][c.dest] \in Worker
    BY <1>2 DEF Placed, IInv, TypeOK
  <2>2. PICK after : /\ after \in {GivesUp(worker[r][c.dest]), EndedWorker}
                     /\ worker' = [worker EXCEPT ![r][c.dest] = after]
    BY <1>2, <2>1 DEF Fail, WorkerOps, IInv, TypeOK
  <2>3. /\ Sound(after)
        /\ \A k \in Keys : Holds(after, k) => Holds(worker[r][c.dest], k)
    BY <2>1, <2>2, GivesUpSound, EndedWorkerSound
  <2> QED
    BY <1>1, <2>1, <2>2, <2>3 DEF WorkersMove, IInv, TypeOK, Sound
<1>3. CASE c.op \notin WorkerOps
  BY <1>1, <1>3 DEF Fail, WorkerOps, WorkersMove, IInv, TypeOK
<1> QED
  BY <1>2, <1>3

-----------------------------------------------------------------------------
(* The frame of a step of run r: what has to be shown of it.                *)

OthersCommits(r) ==
  \A q \in Runs : q # r =>
     /\ commit'[q].op = commit[q].op /\ commit'[q].dest = commit[q].dest
     /\ commit'[q].fresh => commit'[q] = commit[q] /\ ledger' = ledger

(* A step of r that respects the frame keeps the invariant.                 *)
LEMMA StepSound ==
  ASSUME IInv, NEW r \in Runs,
         clock' \in Nat, faults' \in Nat, clone' = clone,
         stage' \in [Runs -> Stages], mishaps' \in [Runs -> SUBSET Mishaps],
         ledger' \in Ledger, KeepsAttempts(ledger, ledger'),
         AbsentUntouched(ledger'), Anchored(ledger'),
         commit' \in [Runs -> Commit], OthersCommits(r), CommitShape(r)',
         commit'[r].fresh => Movable(r, commit[r])',
         WorkersMove(r),
         \A d \in Destinations, k \in Keys :
            Holds(worker'[r][d], k) => r \in ledger'.deliveries[k].attemptIDs,
         wire' \subseteq Post,
         \A w \in wire' : w \in wire \/ w.run \in ledger'.deliveries[w.key].attemptIDs
  PROVE  IInv'
<1>1. TypeOK'
  BY DEF WorkersMove, IInv, TypeOK
<1>2. ASSUME NEW q \in Runs PROVE CommitShape(q)'
  BY <1>2 DEF IInv, CommitShape, OthersCommits, WorkersMove
<1>3. ASSUME NEW q \in Runs, NEW d \in Destinations PROVE Sound(worker'[q][d])
  BY <1>3, WorkersMoveSound
<1>4. ASSUME NEW q \in Runs, commit'[q].fresh PROVE Movable(q, commit[q])'
  <2>1. CASE q = r
    BY <1>4, <2>1
  <2>2. CASE q # r
    <3>1. commit'[q] = commit[q] /\ ledger' = ledger /\ Movable(q, commit[q])
      BY <1>4, <2>2 DEF IInv, OthersCommits
    <3> QED
      BY <3>1 DEF Movable, OID
  <2> QED
    BY <2>1, <2>2
<1>5. PostsAreClaimed'
  <2> SUFFICES ASSUME NEW w \in wire'
               PROVE  w.run \in ledger'.deliveries[w.key].attemptIDs
    BY DEF PostsAreClaimed
  <2>1. w.key \in Keys
    BY DEF Post
  <2> QED
    BY <2>1 DEF IInv, PostsAreClaimed, KeepsAttempts
<1>6. WorkersClaimed'
  <2> SUFFICES ASSUME NEW q \in Runs, NEW d \in Destinations, NEW k \in Keys,
                      Holds(worker'[q][d], k)
               PROVE  q \in ledger'.deliveries[k].attemptIDs
    BY DEF WorkersClaimed, Holds
  <2> QED
    BY DEF IInv, WorkersClaimed, WorkersMove, KeepsAttempts
<1> QED
  BY <1>1, <1>2, <1>3, <1>4, <1>5, <1>6 DEF IInv, Sound

-----------------------------------------------------------------------------
(* Commits. *)

(* An accepted evaluation has established what its write relies on.         *)
LEMMA EvaluatedMovable ==
  ASSUME IInv, NEW r \in Runs, NEW c \in Commit, Placed(r, c),
         Allowed(r, c), Accepted(r, c)
  PROVE  Movable(r, c)
<1>1. ASSUME c.op # "activate" PROVE ledger.anchor # None
  <2>1. Outcome(r, c).anchor # None
    BY DEF Accepted, Storable, ValidLedger
  <2>2. CASE c.op = "reset"
    <3>1. ledger.revision.oid # None
      BY <2>2, RunTyped DEF Allowed, CanOverrideRevision, OID
    <3>2. AbsentLedger.revision.oid = None
      BY DEF AbsentLedger, NoRevision
    <3> QED
      BY <3>1, <3>2 DEF IInv, Anchored
  <2>3. CASE c.op # "reset"
    BY <1>1, <2>1, <2>3, OtherOutcome DEF KeepsPolicy
  <2> QED
    BY <2>2, <2>3
<1>2. ASSUME c.op = "activate", ledger.anchor # None,
             ledger.revision # RunRevision[r]
      PROVE  <<ledger.revision.oid, OID(r)>> \in Ancestry
  <2>1. ActivationBase(r) = ledger /\ ledger.revision.oid # None
    BY <1>2 DEF ActivationBase, IInv, Anchored
  <2>2. /\ Relation(r, OID(r)) # "override"
        /\ CheckRevision(ledger.revision, RunRevision[r], Relation(r, OID(r)))
    BY <1>2, <2>1 DEF Allowed, CanAcceptPolicy
  <2>3. Relation(r, OID(r)) = "descendant"
    BY <1>2, <2>1, <2>2 DEF CheckRevision
  <2> QED
    BY <2>3 DEF Relation, VerifiedRelation, Precedes
<1>3. ASSUME c.op = "reset", ledger.revision # RunRevision[r]
      PROVE  r \in Resets /\ ledger.revision.oid \notin clone[r]
  <2>1. Relation(r, OID(r)) = "override"
    BY <1>3 DEF Allowed, CanOverrideRevision
  <2> QED
    BY <2>1 DEF Relation, VerifiedRelation
<1> QED
  BY <1>1, <1>2, <1>3 DEF Movable

(* One pass of store.Commit up to the push keeps the invariant.             *)
LEMMA EvaluateSound ==
  ASSUME IInv, NEW r \in Runs, NEW c \in Commit, Placed(r, c), Evaluate(r, c)
  PROVE  IInv'
<1>1. /\ UNCHANGED <<ledger, clock, clone, wire, faults>>
      /\ ledger \in Ledger /\ clock \in Nat /\ clone \in [Runs -> SUBSET Configs]
      /\ wire \subseteq Post /\ faults \in Nat /\ mishaps \in [Runs -> SUBSET Mishaps]
      /\ AbsentUntouched(ledger) /\ Anchored(ledger)
      /\ KeepsAttempts(ledger, ledger)
  BY DEF Evaluate, IInv, TypeOK, KeepsAttempts
<1>2. commit \in [Runs -> Commit]
  BY DEF IInv, TypeOK
<1>3. \A d \in Destinations, k \in Keys :
        Holds(worker[r][d], k) => r \in ledger.deliveries[k].attemptIDs
  BY DEF IInv, WorkersClaimed
<1>4. CASE Allowed(r, c) /\ Accepted(r, c) /\ Outcome(r, c) = ledger
  <2>1. /\ commit' = [commit EXCEPT ![r] = NoCommit]
        /\ Succeed(r, c, ledger) /\ UNCHANGED mishaps
    BY <1>4 DEF Evaluate
  <2>2. c.op = "activate" \/ ledger.anchor # None
    BY <1>4, EvaluatedMovable DEF Movable
  <2>3. c.op = "claim" => \A k \in Keys : k \in ClaimedBy(r, c) =>
               r \in ledger.deliveries[k].attemptIDs
    BY <1>4, <2>2, OutcomeSound
  <2>4. /\ stage' \in [Runs -> Stages]
        /\ WorkersMove(r)
        /\ \A d \in Destinations, k \in Keys : Holds(worker'[r][d], k) =>
               r \in ledger.deliveries[k].attemptIDs
    BY <1>1, <1>3, <2>1, <2>3, SucceedSound
  <2>5. /\ commit' \in [Runs -> Commit] /\ commit'[r] = NoCommit
        /\ OthersCommits(r)
    BY <1>1, <1>2, <2>1, NoCommitTyped DEF OthersCommits
  <2>6. CommitShape(r)' /\ ~commit'[r].fresh
    BY <2>5 DEF CommitShape, NoCommit, WorkerOps
  <2> QED
    BY <1>1, <2>1, <2>4, <2>5, <2>6, StepSound
<1>5. CASE Allowed(r, c) /\ Accepted(r, c) /\ Outcome(r, c) # ledger
  <2>1. /\ commit' = [commit EXCEPT ![r] = [c EXCEPT !.fresh = TRUE]]
        /\ UNCHANGED <<worker, stage, mishaps>>
    BY <1>5 DEF Evaluate
  <2>2. Movable(r, c)
    BY <1>5, EvaluatedMovable
  <2>3. /\ [c EXCEPT !.fresh = TRUE] \in Commit
        /\ [c EXCEPT !.fresh = TRUE].op = c.op
        /\ [c EXCEPT !.fresh = TRUE].dest = c.dest
    BY DEF Commit
  <2>4. /\ commit' \in [Runs -> Commit]
        /\ commit'[r].op = c.op /\ commit'[r].dest = c.dest
        /\ OthersCommits(r)
    BY <1>1, <1>2, <2>1, <2>3 DEF OthersCommits
  <2>5. CommitShape(r)' /\ Movable(r, commit[r])'
    BY <1>1, <2>1, <2>2, <2>4 DEF CommitShape, Placed, Movable, OID
  <2>6. WorkersMove(r) /\ stage' \in [Runs -> Stages]
    BY <2>1 DEF WorkersMove, IInv, TypeOK
  <2> QED
    BY <1>1, <1>3, <2>1, <2>4, <2>5, <2>6, StepSound
<1>6. CASE ~(Allowed(r, c) /\ Accepted(r, c))
  <2>1. /\ commit' = [commit EXCEPT ![r] = NoCommit]
        /\ Fail(r, c) /\ mishaps' = AfterFailure(r, c, mishaps)
    BY <1>6 DEF Evaluate
  <2>2. mishaps' \in [Runs -> SUBSET Mishaps]
    BY <1>1, <2>1 DEF AfterFailure, Mishaps
  <2>3. /\ stage' \in [Runs -> Stages]
        /\ WorkersMove(r)
        /\ \A d \in Destinations, k \in Keys : Holds(worker'[r][d], k) =>
               r \in ledger.deliveries[k].attemptIDs
    BY <1>3, <2>1, FailSound
  <2>4. /\ commit' \in [Runs -> Commit] /\ commit'[r] = NoCommit
        /\ OthersCommits(r)
    BY <1>1, <1>2, <2>1, NoCommitTyped DEF OthersCommits
  <2>5. CommitShape(r)' /\ ~commit'[r].fresh
    BY <2>4 DEF CommitShape, NoCommit, WorkerOps
  <2> QED
    BY <1>1, <2>2, <2>3, <2>4, <2>5, StepSound
<1> QED
  BY <1>4, <1>5, <1>6

(* The write of a commit in flight, acknowledged or not.                    *)
LEMMA WriteSound ==
  ASSUME IInv, NEW r \in Runs, commit[r].op # "none", commit[r].fresh
  PROVE  LET c == commit[r]
         IN /\ c \in Commit /\ Placed(r, c) /\ Movable(r, c)
            /\ Outcome(r, c) \in Ledger
            /\ KeepsAttempts(ledger, Outcome(r, c))
            /\ AbsentUntouched(Outcome(r, c))
            /\ Anchored(Outcome(r, c))
            /\ c.op = "claim" => \A k \in Keys : k \in ClaimedBy(r, c) =>
                  r \in Outcome(r, c).deliveries[k].attemptIDs
            /\ Noted(r, c) \in [Runs -> SUBSET Mishaps]
            /\ \A d \in Destinations, k \in Keys : Holds(worker[r][d], k) =>
                  r \in Outcome(r, c).deliveries[k].attemptIDs
<1> DEFINE c == commit[r]
<1>1. c \in Commit /\ Placed(r, c) /\ Movable(r, c)
  BY DEF IInv, TypeOK, CommitShape, Placed
<1>2. c.op = "activate" \/ ledger.anchor # None
  BY <1>1 DEF Movable
<1>3. \A d \in Destinations, k \in Keys :
        Holds(worker[r][d], k) => r \in ledger.deliveries[k].attemptIDs
  BY DEF IInv, WorkersClaimed
<1>4. Noted(r, c) \in [Runs -> SUBSET Mishaps]
  BY DEF Noted, Mishaps, IInv, TypeOK
<1> HIDE DEF c
<1>5. /\ Outcome(r, c) \in Ledger
      /\ KeepsAttempts(ledger, Outcome(r, c))
      /\ AbsentUntouched(Outcome(r, c))
      /\ Anchored(Outcome(r, c))
      /\ c.op = "claim" => \A k \in Keys : k \in ClaimedBy(r, c) =>
            r \in Outcome(r, c).deliveries[k].attemptIDs
  BY <1>1, <1>2, OutcomeSound
<1> QED
  BY <1>1, <1>3, <1>4, <1>5 DEF KeepsAttempts, c

(* A write leaves every other commit in flight stale and its own ended.     *)
LEMMA OvertakenTyped ==
  ASSUME IInv, NEW r \in Runs
  PROVE  /\ Overtaken(r) \in [Runs -> Commit]
         /\ Overtaken(r)[r] = NoCommit
         /\ \A q \in Runs : q # r => /\ Overtaken(r)[q].op = commit[q].op
                                     /\ Overtaken(r)[q].dest = commit[q].dest
                                     /\ ~Overtaken(r)[q].fresh
BY NoCommitTyped DEF Overtaken, Commit, IInv, TypeOK

(* An acknowledged write keeps the invariant.                               *)
LEMMA PushSound ==
  ASSUME IInv, NEW r \in Runs, Push(r)
  PROVE  IInv'
<1> DEFINE c == commit[r]
<1>1. /\ c.op # "none" /\ c.fresh
      /\ ledger' = Outcome(r, c) /\ commit' = Overtaken(r)
      /\ Succeed(r, c, Outcome(r, c)) /\ mishaps' = Noted(r, c)
      /\ UNCHANGED <<clock, clone, wire, faults>>
  BY DEF Push
<1>2. /\ c \in Commit /\ Placed(r, c)
      /\ ledger' \in Ledger /\ KeepsAttempts(ledger, ledger')
      /\ AbsentUntouched(ledger') /\ Anchored(ledger')
      /\ c.op = "claim" => \A k \in Keys : k \in ClaimedBy(r, c) =>
            r \in ledger'.deliveries[k].attemptIDs
      /\ mishaps' \in [Runs -> SUBSET Mishaps]
      /\ \A d \in Destinations, k \in Keys : Holds(worker[r][d], k) =>
            r \in ledger'.deliveries[k].attemptIDs
  BY <1>1, WriteSound
<1> HIDE DEF c
<1>3. /\ stage' \in [Runs -> Stages]
      /\ WorkersMove(r)
      /\ \A d \in Destinations, k \in Keys : Holds(worker'[r][d], k) =>
            r \in ledger'.deliveries[k].attemptIDs
  BY <1>1, <1>2, SucceedSound
<1>4. commit' \in [Runs -> Commit] /\ commit'[r] = NoCommit /\ OthersCommits(r)
  BY <1>1, OvertakenTyped DEF OthersCommits
<1>5. CommitShape(r)' /\ ~commit'[r].fresh
  BY <1>4 DEF CommitShape, NoCommit, WorkerOps
<1>6. /\ clock' \in Nat /\ faults' \in Nat /\ clone' = clone
      /\ wire' \subseteq Post /\ \A w \in wire' : w \in wire
  BY <1>1 DEF IInv, TypeOK
<1> QED
  BY <1>2, <1>3, <1>4, <1>5, <1>6, StepSound

(* So does one whose reply is lost, whether or not it is tried again.       *)
LEMMA PushUnacknowledgedSound ==
  ASSUME IInv, NEW r \in Runs, PushUnacknowledged(r)
  PROVE  IInv'
<1> DEFINE c == commit[r]
<1>1. /\ c.op # "none" /\ c.fresh
      /\ ledger' = Outcome(r, c) /\ faults' = faults + 1
      /\ UNCHANGED <<clock, clone, wire>>
  BY DEF PushUnacknowledged
<1>2. /\ c \in Commit /\ Placed(r, c)
      /\ ledger' \in Ledger /\ KeepsAttempts(ledger, ledger')
      /\ AbsentUntouched(ledger') /\ Anchored(ledger')
      /\ Noted(r, c) \in [Runs -> SUBSET Mishaps]
      /\ \A d \in Destinations, k \in Keys : Holds(worker[r][d], k) =>
            r \in ledger'.deliveries[k].attemptIDs
  BY <1>1, WriteSound
<1>3. /\ clock' \in Nat /\ faults' \in Nat /\ clone' = clone
      /\ wire' \subseteq Post /\ \A w \in wire' : w \in wire
  BY <1>1 DEF IInv, TypeOK
<1>4. CASE /\ commit' = [Overtaken(r) EXCEPT ![r] = [c EXCEPT !.fresh = FALSE]]
           /\ mishaps' = Noted(r, c) /\ UNCHANGED <<worker, stage>>
  <2>1. /\ [c EXCEPT !.fresh = FALSE] \in Commit
        /\ [c EXCEPT !.fresh = FALSE].op = c.op
        /\ [c EXCEPT !.fresh = FALSE].dest = c.dest
        /\ ~[c EXCEPT !.fresh = FALSE].fresh
    BY <1>2 DEF Commit
  <2> HIDE DEF c
  <2>2. /\ commit' \in [Runs -> Commit] /\ ~commit'[r].fresh
        /\ commit'[r].op = c.op /\ commit'[r].dest = c.dest
        /\ OthersCommits(r)
    BY <1>4, <2>1, OvertakenTyped DEF OthersCommits
  <2>3. CommitShape(r)'
    BY <1>2, <1>4, <2>2 DEF CommitShape, Placed
  <2>4. WorkersMove(r) /\ stage' \in [Runs -> Stages]
    BY <1>4 DEF WorkersMove, IInv, TypeOK
  <2>5. \A d \in Destinations, k \in Keys : Holds(worker'[r][d], k) =>
            r \in ledger'.deliveries[k].attemptIDs
    BY <1>2, <1>4
  <2> QED
    BY <1>2, <1>3, <1>4, <2>2, <2>3, <2>4, <2>5, StepSound
<1>5. CASE /\ commit' = Overtaken(r) /\ Fail(r, c)
           /\ mishaps' = AfterFailure(r, c, Noted(r, c))
  <2> HIDE DEF c
  <2>1. /\ stage' \in [Runs -> Stages]
        /\ WorkersMove(r)
        /\ \A d \in Destinations, k \in Keys : Holds(worker'[r][d], k) =>
              r \in ledger'.deliveries[k].attemptIDs
    BY <1>2, <1>5, FailSound
  <2>2. commit' \in [Runs -> Commit] /\ commit'[r] = NoCommit /\ OthersCommits(r)
    BY <1>5, OvertakenTyped DEF OthersCommits
  <2>3. CommitShape(r)' /\ ~commit'[r].fresh
    BY <2>2 DEF CommitShape, NoCommit, WorkerOps
  <2>4. mishaps' \in [Runs -> SUBSET Mishaps]
    BY <1>2, <1>5 DEF AfterFailure, Mishaps
  <2> QED
    BY <1>2, <1>3, <2>1, <2>2, <2>3, <2>4, StepSound
<1> QED
  BY <1>4, <1>5 DEF PushUnacknowledged

(* Starting a commit keeps the invariant.                                   *)
LEMMA BeginSound ==
  ASSUME IInv, NEW r \in Runs, NEW op \in Operations,
         NEW d \in Destinations \cup {None}, NEW E \in SUBSET Events,
         op \in WorkerOps => d \in Destinations /\ worker[r][d].pc = op,
         Begin(r, op, d, E)
  PROVE  IInv'
<1> DEFINE c == [op |-> op, dest |-> d, events |-> E, at |-> Now(r), fresh |-> FALSE]
<1>1. Now(r) \in Nat
  BY RunTyped DEF IInv, TypeOK
<1>2. c \in Commit /\ Placed(r, c)
  BY <1>1 DEF Commit, Placed
<1>3. Evaluate(r, c)
  BY DEF Begin
<1> HIDE DEF c
<1> QED
  BY <1>2, <1>3, EvaluateSound

(* Evaluating a commit again after a conflict keeps the invariant.          *)
LEMMA ReevaluateSound ==
  ASSUME IInv, NEW r \in Runs, Reevaluate(r)
  PROVE  IInv'
<1> DEFINE c == commit[r]
           again == IF c.op \in WorkerOps THEN [c EXCEPT !.at = Now(r)] ELSE c
<1>1. c \in Commit /\ Placed(r, c)
  BY DEF IInv, TypeOK, CommitShape, Placed
<1>2. Evaluate(r, again)
  BY DEF Reevaluate
<1>3. Now(r) \in Nat
  BY RunTyped DEF IInv, TypeOK
<1> HIDE DEF c
<1>4. again \in Commit /\ again.op = c.op /\ again.dest = c.dest
  BY <1>1, <1>3 DEF Commit
<1>5. Placed(r, again)
  BY <1>1, <1>4 DEF Placed
<1> HIDE DEF again
<1> QED
  BY <1>2, <1>4, <1>5, EvaluateSound

(* Steps that leave the ledger, the clock and the history alone.            *)
LEMMA LocalStepSound ==
  ASSUME IInv, NEW r \in Runs,
         UNCHANGED <<ledger, clock, clone>>,
         faults' \in Nat,
         stage' \in [Runs -> Stages], mishaps' \in [Runs -> SUBSET Mishaps],
         commit' \in [Runs -> Commit],
         \A q \in Runs : q # r => commit'[q] = commit[q],
         CommitShape(r)', commit'[r].fresh => commit' = commit,
         WorkersMove(r),
         \A d \in Destinations, k \in Keys :
            Holds(worker'[r][d], k) => Holds(worker[r][d], k),
         wire' \subseteq Post,
         \A w \in wire' : w \in wire \/ w.run \in ledger.deliveries[w.key].attemptIDs
  PROVE  IInv'
<1>1. /\ ledger' \in Ledger /\ KeepsAttempts(ledger, ledger')
      /\ AbsentUntouched(ledger') /\ Anchored(ledger')
      /\ clock' \in Nat /\ clone' = clone
  BY DEF IInv, TypeOK, KeepsAttempts
<1>2. OthersCommits(r)
  BY DEF OthersCommits
<1>3. \A d \in Destinations, k \in Keys :
        Holds(worker'[r][d], k) => r \in ledger'.deliveries[k].attemptIDs
  BY DEF IInv, WorkersClaimed
<1>4. commit'[r].fresh => Movable(r, commit[r])'
  BY DEF IInv, Movable, OID
<1> QED
  BY <1>1, <1>2, <1>3, <1>4, StepSound

(* Giving a commit up keeps the invariant.                                  *)
LEMMA CommitFailsSound ==
  ASSUME IInv, NEW r \in Runs, CommitFails(r)
  PROVE  IInv'
<1> DEFINE c == commit[r]
<1>1. c \in Commit /\ Placed(r, c)
  BY DEF IInv, TypeOK, CommitShape, Placed
<1>2. /\ commit' = [commit EXCEPT ![r] = NoCommit]
      /\ Fail(r, c) /\ mishaps' = AfterFailure(r, c, mishaps)
      /\ faults' = faults + 1
      /\ UNCHANGED <<ledger, clock, clone, wire>>
  BY DEF CommitFails
<1> HIDE DEF c
<1>3. /\ stage' \in [Runs -> Stages] /\ WorkersMove(r)
      /\ \A d \in Destinations, k \in Keys :
            Holds(worker'[r][d], k) => Holds(worker[r][d], k)
  BY <1>1, <1>2, FailSound
<1>4. /\ commit' \in [Runs -> Commit] /\ commit'[r] = NoCommit
      /\ \A q \in Runs : q # r => commit'[q] = commit[q]
  BY <1>2, NoCommitTyped DEF IInv, TypeOK
<1>5. CommitShape(r)' /\ ~commit'[r].fresh
  BY <1>4 DEF CommitShape, NoCommit, WorkerOps
<1>6. mishaps' \in [Runs -> SUBSET Mishaps] /\ faults' \in Nat /\ wire' \subseteq Post
  BY <1>2 DEF AfterFailure, Mishaps, IInv, TypeOK
<1> QED
  BY <1>2, <1>3, <1>4, <1>5, <1>6, LocalStepSound

(* A crash keeps the invariant.                                             *)
LEMMA CrashSound ==
  ASSUME IInv, NEW r \in Runs, Crash(r)
  PROVE  IInv'
<1>1. /\ stage' = [stage EXCEPT ![r] = "crashed"]
      /\ commit' = [commit EXCEPT ![r] = NoCommit]
      /\ worker' = [worker EXCEPT ![r] = [d \in Destinations |-> EndedWorker]]
      /\ mishaps' = [mishaps EXCEPT ![r] = @ \cup {"crash"}]
      /\ faults' = faults + 1 /\ UNCHANGED <<ledger, clock, clone, wire>>
  BY DEF Crash
<1>2. /\ stage' \in [Runs -> Stages] /\ mishaps' \in [Runs -> SUBSET Mishaps]
      /\ faults' \in Nat /\ wire' \subseteq Post
  BY <1>1 DEF IInv, TypeOK, Stages, Mishaps
<1>3. /\ commit' \in [Runs -> Commit] /\ commit'[r] = NoCommit
      /\ \A q \in Runs : q # r => commit'[q] = commit[q]
  BY <1>1, NoCommitTyped DEF IInv, TypeOK
<1>4. CommitShape(r)' /\ ~commit'[r].fresh
  BY <1>3 DEF CommitShape, NoCommit, WorkerOps
<1>5. /\ WorkersMove(r)
      /\ \A d \in Destinations, k \in Keys : ~Holds(worker'[r][d], k)
  BY <1>1, EndedWorkerSound DEF WorkersMove, Sound, IInv, TypeOK
<1> QED
  BY <1>1, <1>2, <1>3, <1>4, <1>5, LocalStepSound

(* Starting the workers keeps the invariant: they hold nothing yet.         *)
LEMMA DispatchSound ==
  ASSUME IInv, NEW r \in Runs, Dispatch(r)
  PROVE  IInv'
<1>1. /\ UNCHANGED <<ledger, clock, clone, commit, wire, mishaps, faults>>
      /\ commit[r] = NoCommit
  BY DEF Dispatch
<1>2. /\ mishaps' \in [Runs -> SUBSET Mishaps] /\ faults' \in Nat
      /\ wire' \subseteq Post /\ commit' \in [Runs -> Commit]
  BY <1>1 DEF IInv, TypeOK
<1>3. CommitShape(r)'
  BY <1>1 DEF CommitShape, NoCommit, WorkerOps
<1>4. stage' \in [Runs -> Stages]
  BY DEF Dispatch, IInv, TypeOK, Stages
<1>5. /\ WorkersMove(r)
      /\ \A d \in Destinations, k \in Keys :
            Holds(worker'[r][d], k) => Holds(worker[r][d], k)
  <2>1. CASE UNCHANGED worker
    BY <2>1 DEF WorkersMove, IInv, TypeOK
  <2>2. CASE worker' # worker
    <3> DEFINE due(d) == {k \in DueDeliveries(ledger, Now(r)) :
                            /\ DestinationOf(k) = d
                            /\ Policy[OID(r)][d].enabled}
               started(d) == IF due(d) = {} THEN EndedWorker
                             ELSE [NoWorker EXCEPT !.pc = "claim", !.tasks = due(d)]
    <3>1. worker' = [worker EXCEPT ![r] = [d \in Destinations |-> started(d)]]
      BY <2>2 DEF Dispatch
    <3>2. ASSUME NEW d \in Destinations
          PROVE  Sound(started(d)) /\ \A k \in Keys : ~Holds(started(d), k)
      <4>1. due(d) \subseteq Keys
        BY DEF DueDeliveries, Due
      <4> HIDE DEF due
      <4>2. LET w == [NoWorker EXCEPT !.pc = "claim", !.tasks = due(d)]
            IN Sound(w) /\ \A k \in Keys : ~Holds(w, k)
        BY <4>1 DEF NoWorker, Sound, Holds, Worker, WorkerStages
      <4> QED
        BY <4>2, EndedWorkerSound
    <3> HIDE DEF started
    <3> QED
      BY <3>1, <3>2 DEF WorkersMove, Sound, IInv, TypeOK
  <2> QED
    BY <2>1, <2>2
<1> QED
  BY <1>1, <1>2, <1>3, <1>4, <1>5, LocalStepSound

(* A step of one worker whose run has no commit for it in flight.           *)
LEMMA WorkerStepSound ==
  ASSUME IInv, NEW r \in Runs, NEW d \in Destinations, NEW after,
         worker[r][d].pc \notin WorkerOps,
         worker' = [worker EXCEPT ![r][d] = after], Sound(after),
         \A k \in Keys : Holds(after, k) => Holds(worker[r][d], k),
         UNCHANGED <<ledger, clock, clone, stage, commit>>,
         mishaps' \in [Runs -> SUBSET Mishaps], faults' \in Nat,
         wire' \subseteq Post,
         \A w \in wire' : w \in wire \/ w.run \in ledger.deliveries[w.key].attemptIDs
  PROVE  IInv'
<1>1. /\ WorkersMove(r)
      /\ \A e \in Destinations, k \in Keys :
            Holds(worker'[r][e], k) => Holds(worker[r][e], k)
  BY DEF WorkersMove, Sound, IInv, TypeOK
<1>2. CommitShape(r)'
  BY DEF CommitShape, IInv, TypeOK
<1>3. stage' \in [Runs -> Stages] /\ commit' \in [Runs -> Commit]
  BY DEF IInv, TypeOK
<1> QED
  BY <1>1, <1>2, <1>3, LocalStepSound

(* Taking up the next claimed record keeps the invariant.                   *)
LEMMA NextSendSound ==
  ASSUME IInv, NEW r \in Runs, NEW d \in Destinations, NEW k \in Keys,
         NextSend(r, d, k)
  PROVE  IInv'
<1> DEFINE w == worker[r][d]
           after == IF 2 * w.leaseUntil < 2 * Now(r) + ClaimDuration
                    THEN [w EXCEPT !.pc = "renew", !.current = k]
                    ELSE Checked(r, d, w, k, ledger)
<1>1. /\ w.pc = "send" /\ k \in w.left
      /\ worker' = [worker EXCEPT ![r][d] = after]
      /\ UNCHANGED <<ledger, clock, clone, stage, commit, wire, mishaps, faults>>
  BY DEF NextSend
<1>2. w \in Worker
  BY DEF IInv, TypeOK
<1> HIDE DEF w
<1>3. LET next == [w EXCEPT !.pc = "renew", !.current = k]
      IN Sound(next) /\ \A j \in Keys : Holds(next, j) => Holds(w, j)
  BY <1>1, <1>2 DEF Sound, Holds, Worker, WorkerStages
<1>4. LET next == Checked(r, d, w, k, ledger)
      IN Sound(next) /\ \A j \in Keys : Holds(next, j) => Holds(w, j)
  <2>1. Holds(w, k)
    BY <1>1 DEF Holds
  <2> QED
    BY <1>2, <2>1, CheckedSound
<1>5. Sound(after) /\ \A j \in Keys : Holds(after, j) => Holds(w, j)
  BY <1>3, <1>4
<1> HIDE DEF after
<1>6. /\ mishaps' \in [Runs -> SUBSET Mishaps] /\ faults' \in Nat
      /\ wire' \subseteq Post
  BY <1>1 DEF IInv, TypeOK
<1>7. worker[r][d].pc \notin WorkerOps
  BY <1>1 DEF WorkerOps, w
<1> QED
  BY <1>1, <1>5, <1>6, <1>7, WorkerStepSound DEF w

(* A POST keeps the invariant: its record was claimed by this run.          *)
LEMMA SendSound ==
  ASSUME IInv, NEW r \in Runs, NEW d \in Destinations,
         NEW code \in AttemptOutcomes, NEW retryAfter \in RetryAfters,
         NEW taken \in BOOLEAN,
         Send(r, d, [code |-> code, retryAfter |-> retryAfter], taken)
  PROVE  IInv'
<1> DEFINE w == worker[r][d]
           result == [code |-> code, retryAfter |-> retryAfter]
           stale == ledger.revision.oid # OID(r)
           post == [run |-> r, key |-> w.current, code |-> code,
                    taken |-> taken, stale |-> stale]
           after == [w EXCEPT !.pc = "send", !.current = None,
                              !.left = @ \ {w.current},
                              !.receipts[w.current] = result]
<1>1. /\ w.pc = "post" /\ wire' = wire \cup {post}
      /\ worker' = [worker EXCEPT ![r][d] = after]
      /\ UNCHANGED <<ledger, clock, clone, stage, commit>>
  BY DEF Send
<1>2. w \in Worker /\ w.current \in Keys
  BY <1>1 DEF IInv, TypeOK, Sound
<1>3. result \in Result
  BY RunAssumption DEF Result
<1>4. r \in ledger.deliveries[w.current].attemptIDs
  BY <1>1, <1>2 DEF IInv, WorkersClaimed, Holds
<1>5. Holds(w, w.current)
  BY <1>1 DEF Holds
<1>6. mishaps' \in [Runs -> SUBSET Mishaps] /\ faults' \in Nat
  BY DEF Send, IInv, TypeOK, Mishaps
<1>7. worker[r][d].pc \notin WorkerOps
  BY <1>1 DEF WorkerOps
<1> HIDE DEF w, result
<1>8. Sound(after) /\ \A j \in Keys : Holds(after, j) => Holds(w, j)
  <2>1. [w.receipts EXCEPT ![w.current] = result] \in [Keys -> Result \cup {None}]
    BY <1>2, <1>3 DEF Worker
  <2> DEFINE receipts == [w.receipts EXCEPT ![w.current] = result]
             left == w.left \ {w.current}
  <2>2. /\ \A j \in Keys : receipts[j] # None => w.receipts[j] # None \/ j = w.current
        /\ left \subseteq w.left
    BY <1>2 DEF Worker
  <2>3. after = [w EXCEPT !.pc = "send", !.current = None, !.left = left,
                          !.receipts = receipts]
    BY <1>2 DEF Worker
  <2> HIDE DEF receipts, left
  <2>4. receipts \in [Keys -> Result \cup {None}] /\ left \subseteq Keys
    BY <1>2, <2>1, <2>2 DEF Worker, receipts
  <2>5. /\ after \in Worker /\ after.pc = "send" /\ after.left = left
        /\ after.receipts = receipts
    BY <1>2, <2>3, <2>4 DEF Worker, WorkerStages
  <2> HIDE DEF after
  <2> QED
    BY <1>5, <2>2, <2>5 DEF Sound, Holds
<1>9. /\ wire' \subseteq Post
      /\ \A v \in wire' : v \in wire \/ v.run \in ledger.deliveries[v.key].attemptIDs
  <2>1. stale \in BOOLEAN
    OBVIOUS
  <2> HIDE DEF stale
  <2>2. post \in Post /\ post.run = r /\ post.key = w.current
    BY <1>2, <2>1 DEF Post
  <2> HIDE DEF post
  <2> QED
    BY <1>1, <1>4, <2>2 DEF IInv, TypeOK
<1> HIDE DEF after
<1> QED
  BY <1>1, <1>6, <1>7, <1>8, <1>9, WorkerStepSound DEF w

(* Ending the send loop keeps the invariant.                                *)
LEMMA StopSendingSound ==
  ASSUME IInv, NEW r \in Runs, NEW d \in Destinations, StopSending(r, d)
  PROVE  IInv'
<1> DEFINE w == worker[r][d]
           after == [w EXCEPT !.pc = "record"]
<1>1. w \in Worker /\ w.pc = "send"
  BY DEF StopSending, IInv, TypeOK
<1>2. worker' = [worker EXCEPT ![r][d] = after]
  BY DEF StopSending, IInv, TypeOK
<1>3. Sound(after) /\ \A k \in Keys : Holds(after, k) => Holds(w, k)
  BY <1>1 DEF Sound, Holds, Worker, WorkerStages
<1>4. /\ UNCHANGED <<ledger, clock, clone, stage, commit, wire>>
      /\ mishaps' \in [Runs -> SUBSET Mishaps] /\ faults' \in Nat
      /\ wire' \subseteq Post
  BY DEF StopSending, IInv, TypeOK
<1>5. w.pc \notin WorkerOps
  BY <1>1 DEF WorkerOps
<1> HIDE DEF after
<1> QED
  BY <1>2, <1>3, <1>4, <1>5, WorkerStepSound

-----------------------------------------------------------------------------
(* The invariant is inductive. *)

(* The initial states satisfy the invariant.                                *)
LEMMA InitSound == Init => IInv
<1> SUFFICES ASSUME Init PROVE IInv
  OBVIOUS
<1>1. TypeOK
  <2>1. NoWorker \in Worker
    BY DEF NoWorker, Worker, WorkerStages
  <2> QED
    BY <2>1, AbsentLedgerTyped, NoCommitTyped DEF Init, TypeOK, Stages
<1>2. /\ \A r \in Runs : CommitShape(r)
      /\ \A r \in Runs : ~commit[r].fresh
  BY DEF Init, CommitShape, NoCommit, WorkerOps
<1>3. \A r \in Runs, d \in Destinations :
        Sound(worker[r][d]) /\ \A k \in Keys : ~Holds(worker[r][d], k)
  BY DEF Init, Sound, Holds, NoWorker, Worker, WorkerStages
<1>4. Anchored(ledger) /\ AbsentUntouched(ledger)
  BY DEF Init, Anchored, AbsentUntouched, AbsentLedger, NoRecord
<1>5. PostsAreClaimed /\ WorkersClaimed
  BY <1>3 DEF Init, PostsAreClaimed, WorkersClaimed
<1> QED
  BY <1>1, <1>2, <1>3, <1>4, <1>5 DEF IInv

(* Every step a run takes by itself keeps the invariant.                    *)
LEMMA ProceedSound ==
  ASSUME IInv, NEW r \in Runs, Proceed(r)
  PROVE  IInv'
<1>1. CASE Activate(r)
  BY <1>1, BeginSound DEF Activate, Operations, WorkerOps
<1>2. CASE Dispatch(r)
  BY <1>2, DispatchSound
<1>3. CASE Finish(r)
  <2>1. /\ UNCHANGED <<ledger, clock, clone, commit, worker, wire, mishaps, faults>>
        /\ stage' \in [Runs -> Stages]
    BY <1>3 DEF Finish, IInv, TypeOK, Stages
  <2>2. WorkersMove(r) /\ CommitShape(r)'
    BY <2>1 DEF WorkersMove, CommitShape, IInv, TypeOK
  <2> QED
    BY <2>1, <2>2, LocalStepSound DEF IInv, TypeOK
<1>4. CASE Push(r)
  BY <1>4, PushSound
<1>5. CASE Reevaluate(r)
  BY <1>5, ReevaluateSound
<1>6. ASSUME NEW d \in Destinations, Claim(r, d) PROVE IInv'
  BY <1>6, BeginSound DEF Claim, Operations
<1>7. ASSUME NEW d \in Destinations, Renew(r, d) PROVE IInv'
  BY <1>7, BeginSound DEF Renew, Operations
<1>8. ASSUME NEW d \in Destinations, RecordReceipts(r, d) PROVE IInv'
  BY <1>8, BeginSound DEF RecordReceipts, Operations
<1> QED
  BY <1>1, <1>2, <1>3, <1>4, <1>5, <1>6, <1>7, <1>8,
     StopSendingSound, NextSendSound, SendSound DEF Proceed

(* Every invocation keeps the invariant.                                    *)
LEMMA InvokeSound ==
  ASSUME IInv, NEW r \in Runs, Invoke(r)
  PROVE  IInv'
<1>1. CASE Prepare(r)
  BY <1>1, BeginSound DEF Prepare, Operations, WorkerOps
<1>2. CASE ResetRevision(r)
  BY <1>2, BeginSound DEF ResetRevision, Operations, WorkerOps
<1>3. ASSUME NEW E \in SUBSET Events, Observe(r, E) PROVE IInv'
  BY <1>3, BeginSound DEF Observe, Operations, WorkerOps
<1> QED
  BY <1>1, <1>2, <1>3 DEF Invoke

(* Time passes, or nothing happens.                                         *)
LEMMA IdleSound ==
  ASSUME IInv,
         UNCHANGED <<ledger, stage, commit, worker, wire, mishaps, faults>>,
         clock' \in Nat, clone' = clone
  PROVE  IInv'
<1>1. TypeOK' /\ Anchored(ledger)' /\ AbsentUntouched(ledger)'
  BY DEF IInv, TypeOK
<1>2. \A r \in Runs : CommitShape(r)'
  BY DEF IInv, CommitShape
<1>3. \A r \in Runs, d \in Destinations : Sound(worker'[r][d])
  BY DEF IInv
<1>4. \A r \in Runs : commit'[r].fresh => Movable(r, commit[r])'
  BY DEF IInv, Movable, OID
<1>5. PostsAreClaimed' /\ WorkersClaimed'
  BY DEF IInv, PostsAreClaimed, WorkersClaimed
<1> QED
  BY <1>1, <1>2, <1>3, <1>4, <1>5 DEF IInv

(* Every step keeps the invariant.                                          *)
LEMMA NextSound == IInv /\ [Next]_vars => IInv'
<1> SUFFICES ASSUME IInv, [Next]_vars PROVE IInv'
  OBVIOUS
<1>1. CASE Tick
  BY <1>1, IdleSound DEF Tick, IInv, TypeOK
<1>2. ASSUME NEW r \in Runs, Disturb(r) PROVE IInv'
  BY <1>2, PushUnacknowledgedSound, CommitFailsSound, CrashSound DEF Disturb
<1>3. CASE UNCHANGED vars
  BY <1>3, IdleSound DEF vars, IInv, TypeOK
<1> QED
  BY <1>1, <1>2, <1>2, <1>3, InvokeSound, ProceedSound DEF Next

(* The invariant of every reachable state.                                  *)
THEOREM Invariant == Spec => []IInv
<1> QED
  BY InitSound, NextSound, PTL DEF Spec

-----------------------------------------------------------------------------
(* The theorems. *)

(* Every variable keeps its type, whatever the runs do.                     *)
THEOREM TypeCorrect == Spec => []TypeOK
<1>1. IInv => TypeOK
  BY DEF IInv
<1> QED
  BY <1>1, Invariant, PTL

(* The write-ahead rule of dispatchBatch: a POST is only ever made under an *)
(* attempt the ledger holds, however claims, lost replies, crashes and the  *)
(* writes of other runs interleave.                                         *)
THEOREM WriteAhead == Spec => []PostsAreClaimed
<1>1. IInv => PostsAreClaimed
  BY DEF IInv
<1> QED
  BY <1>1, Invariant, PTL

(* What one step may do to the accepted policy.                             *)
RevisionStep ==
  ledger'.revision # ledger.revision =>
    \/ ledger.anchor = None
    \/ /\ <<ledger.revision.oid, ledger'.revision.oid>> \in Ancestry
       /\ ledger'.overrides = ledger.overrides
    \/ \E r \in Resets :
         /\ ledger.revision.oid \notin clone[r] /\ ledger'.revision = RunRevision[r]
         /\ ledger'.overrides = Append(ledger.overrides,
              [prior |-> ledger.revision.oid, accepted |-> ledger'.revision.oid])

(* A write moves the accepted policy as RevisionStep says.                  *)
LEMMA WriteAdvances ==
  ASSUME IInv, NEW r \in Runs, commit[r].op # "none", commit[r].fresh,
         ledger' = Outcome(r, commit[r])
  PROVE  RevisionStep
<1> DEFINE c == commit[r]
<1>1. c \in Commit /\ Placed(r, c) /\ Movable(r, c)
  BY WriteSound
<1> HIDE DEF c
<1>2. CASE c.op = "activate"
  <2>1. /\ ledger'.revision = RunRevision[r]
        /\ ledger.anchor # None => ledger'.overrides = ledger.overrides
    BY <1>1, <1>2, ActivateOutcome DEF c
  <2> QED
    BY <1>1, <1>2, <2>1 DEF Movable, RevisionStep, OID
<1>3. CASE c.op = "reset"
  <2>1. /\ ledger'.revision = RunRevision[r]
        /\ ledger.revision # RunRevision[r] =>
             ledger'.overrides = Append(ledger.overrides,
               [prior |-> ledger.revision.oid, accepted |-> OID(r)])
    BY <1>1, <1>3, ResetOutcome DEF Movable, c
  <2> QED
    BY <1>1, <1>3, <2>1 DEF Movable, RevisionStep, OID
<1>4. CASE c.op \notin {"activate", "reset"}
  BY <1>1, <1>4, OtherOutcome DEF KeepsPolicy, RevisionStep, c
<1> QED
  BY <1>2, <1>3, <1>4

(* Nothing but a write moves it.                                            *)
LEMMA NextAdvances == IInv /\ [Next]_vars => RevisionStep
<1> SUFFICES ASSUME IInv, [Next]_vars, ledger' # ledger PROVE RevisionStep
  BY DEF RevisionStep
<1>1. PICK r \in Runs : Invoke(r) \/ Proceed(r) \/ Disturb(r)
  BY DEF Next, vars, Tick
<1>2. \A op, d, E : ~Begin(r, op, d, E)
  BY DEF Begin, Evaluate
<1>3. ~Invoke(r)
  BY <1>2 DEF Invoke, Prepare, ResetRevision, Observe
<1>4. ASSUME Proceed(r) PROVE Push(r)
  <2>1. ~Activate(r) /\ ~Dispatch(r) /\ ~Finish(r) /\ ~Reevaluate(r)
    BY <1>2 DEF Activate, Dispatch, Finish, Reevaluate, Evaluate
  <2>2. \A d \in Destinations :
          ~Claim(r, d) /\ ~Renew(r, d) /\ ~StopSending(r, d) /\ ~RecordReceipts(r, d)
    BY <1>2 DEF Claim, Renew, StopSending, RecordReceipts
  <2>3. \A d \in Destinations, k \in Keys : ~NextSend(r, d, k)
    BY DEF NextSend
  <2>4. \A d \in Destinations : \A result, taken : ~Send(r, d, result, taken)
    BY DEF Send
  <2> QED
    BY <1>4, <2>1, <2>2, <2>3, <2>4 DEF Proceed
<1>5. ASSUME Disturb(r) PROVE PushUnacknowledged(r)
  BY <1>5 DEF Disturb, CommitFails, Crash
<1> QED
  BY <1>1, <1>3, <1>4, <1>5, WriteAdvances DEF Push, PushUnacknowledged

(* The accepted policy only ever moves to a descendant commit, or by a      *)
(* reset past a commit that the reset's own clone does not have, with the   *)
(* reset on record: whatever the clones lack, stale runs, concurrent resets *)
(* and lost replies never roll it back otherwise.                           *)
THEOREM PolicyAdvances == Spec => RevisionAdvances
<1>1. IInv /\ [Next]_vars => [RevisionStep]_vars
  BY NextAdvances
<1>2. [][RevisionStep]_vars <=> RevisionAdvances
  BY DEF RevisionStep, RevisionAdvances
<1> QED
  BY <1>1, <1>2, Invariant, PTL DEF Spec

-----------------------------------------------------------------------------
(***************************************************************************)
(* What the runs promise about a delivery: it is taken twice only after a  *)
(* mishap, an acceptance is never lost, nothing but a refusal gives it up, *)
(* and the lease of a destination fences the senders of the accepted       *)
(* policy and bounds those of an old one.                                  *)
(*                                                                         *)
(* These proofs have three layers: what each reducer does to one record    *)
(* and to one lease; what one step of one run does to its workers (Move)   *)
(* and to the ledger (Write); and the invariants, which see only those two.*)
(***************************************************************************)
(* A settled record stays settled, and a delivered one delivered.           *)
Settled(before, after) ==
  /\ before.status \in Terminal => after.status \in Terminal
  /\ before.status = "delivered" => after.status = "delivered"

(* A record that a receiver's refusal gave up.                              *)
GivenUp(record) == record.status = "skipped" /\ record.code # "subscription-retired"

(* Nothing happened that concerns an attempt: no claim, result or release.  *)
Quiet(before, after) ==
  /\ Settled(before, after)
  /\ before.status # "absent" => after.lease.holder = before.lease.holder
  /\ GivenUp(after) => /\ GivenUp(before)
                       /\ after.code = before.code
                       /\ after.attempts = before.attempts

-----------------------------------------------------------------------------
(* The reducers, one record and one lease at a time. *)

(* What does not change is quiet.                                           *)
LEMMA QuietReflexive == \A record : Quiet(record, record)
BY DEF Quiet, Settled

(* Retirement takes no lease and gives nothing up.                          *)
LEMMA RetiredQuiet ==
  ASSUME NEW record \in Record, NEW k, NEW destination
  PROVE  Quiet(record, Retired(record, k, destination))
BY DEF Retired, Record, Quiet, Settled, GivenUp, Terminal

(* Neither does accepting a policy.                                         *)
LEMMA PolicyAppliedQuiet ==
  ASSUME NEW l \in Ledger, NEW incoming, NEW now, NEW k \in Keys
  PROVE  Quiet(l.deliveries[k], PolicyApplied(l, incoming, now).deliveries[k])
<1> DEFINE destinations == [d \in Destinations |->
              AcceptedDestination(l.destinations[d], d, incoming.oid, now)]
           deliveries == [j \in Keys |->
              Retired(l.deliveries[j], j, destinations[DestinationOf(j)])]
<1>1. PolicyApplied(l, incoming, now) =
        [l EXCEPT !.destinations = destinations,
                  !.deliveries = deliveries, !.revision = incoming]
  BY DEF PolicyApplied
<1>2. Quiet(l.deliveries[k], deliveries[k])
  BY RetiredQuiet DEF Ledger
<1> HIDE DEF destinations, deliveries
<1>3. PolicyApplied(l, incoming, now).deliveries = deliveries
  BY <1>1 DEF Ledger
<1> QED
  BY <1>2, <1>3

(* An admission creates pending records and leaves the destinations alone.  *)
LEMMA EventsAdmittedQuiet ==
  ASSUME NEW l \in Ledger, NEW E, NEW time
  PROVE  LET m == EventsAdmitted(l, E, time)
         IN /\ m.destinations = l.destinations
            /\ \A k \in Keys : Quiet(l.deliveries[k], m.deliveries[k])
<1> DEFINE earned == [e \in E |-> Admitted(l, e, time[e])]
           new(k) == /\ EventOf(k) \in E /\ k \in earned[EventOf(k)]
                     /\ l.deliveries[k].status = "absent"
           deliveries == [k \in Keys |->
              IF new(k) THEN [NoRecord EXCEPT !.status = "pending"]
              ELSE l.deliveries[k]]
           events == l.events \cup {e \in E : earned[e] # {}}
<1>1. EventsAdmitted(l, E, time) = [l EXCEPT !.deliveries = deliveries, !.events = events]
  BY DEF EventsAdmitted, Ledger
<1>2. \A k \in Keys : new(k) =>
        Quiet(l.deliveries[k], [NoRecord EXCEPT !.status = "pending"])
  BY DEF Quiet, Settled, GivenUp, Terminal, NoRecord
<1>3. \A k \in Keys : Quiet(l.deliveries[k], deliveries[k])
  BY <1>2, QuietReflexive
<1> HIDE DEF deliveries, events
<1>4. /\ EventsAdmitted(l, E, time).destinations = l.destinations
      /\ EventsAdmitted(l, E, time).deliveries = deliveries
  BY <1>1 DEF Ledger
<1> QED
  BY <1>3, <1>4

(* Rendering changes only messages.                                         *)
LEMMA MessagesSavedQuiet ==
  ASSUME NEW l \in Ledger, NEW oid, NEW tasks
  PROVE  LET m == MessagesSaved(l, oid, tasks)
         IN /\ m.destinations = l.destinations
            /\ \A k \in Keys :
                 /\ m.deliveries[k].status = l.deliveries[k].status
                 /\ m.deliveries[k].code = l.deliveries[k].code
                 /\ m.deliveries[k].attempts = l.deliveries[k].attempts
                 /\ m.deliveries[k].lease = l.deliveries[k].lease
<1> DEFINE deliveries == MessagesSaved(l, oid, tasks).deliveries
<1>1. /\ MessagesSaved(l, oid, tasks).destinations = l.destinations
      /\ deliveries = [k \in Keys |->
           IF /\ k \in tasks
              /\ l.revision.oid = oid
              /\ l.deliveries[k].status # "absent"
              /\ l.deliveries[k].message = None
              /\ <<oid, EventOf(k)>> \in Renderable
           THEN [l.deliveries[k] EXCEPT !.message = oid]
           ELSE l.deliveries[k]]
  BY DEF MessagesSaved, Ledger
<1> HIDE DEF deliveries
<1>2. \A record \in Record :
        LET after == [record EXCEPT !.message = oid]
        IN /\ after.status = record.status /\ after.code = record.code
           /\ after.attempts = record.attempts /\ after.lease = record.lease
  BY DEF Record
<1>3. \A k \in Keys : l.deliveries[k] \in Record
  BY DEF Ledger
<1> QED
  BY <1>1, <1>2, <1>3 DEF deliveries

(* The lease of one destination of a ledger and its deliveries.            *)
LEMMA BatchFields ==
  ASSUME NEW l \in Ledger, NEW d \in Destinations, NEW deliveries, NEW destination
  PROVE  LET m == [l EXCEPT !.deliveries = deliveries,
                            !.destinations[d] = destination]
         IN /\ m.deliveries = deliveries
            /\ m.destinations[d] = destination
            /\ \A e \in Destinations : e # d => m.destinations[e] = l.destinations[e]
BY DEF Ledger

(* A claim takes the claimable records and the destination, nothing else.   *)
LEMMA ClaimBatchEffect ==
  ASSUME NEW l \in Ledger, NEW d \in Destinations, NEW run, NEW tasks, NEW now
  PROVE  LET m == ClaimBatch(l, d, run, tasks, now)
             claimed == Claimable(l, d, tasks, now)
         IN /\ \A k \in Keys :
                 /\ k \in claimed =>
                      /\ l.deliveries[k].status \notin Terminal \cup {"absent"}
                      /\ m.deliveries[k].status = "claimed"
                      /\ m.deliveries[k].lease.holder = run
                 /\ k \notin claimed => m.deliveries[k] = l.deliveries[k]
            /\ m.destinations[d].lease = [holder |-> run, until |-> now + ClaimDuration]
            /\ \A e \in Destinations : e # d => m.destinations[e] = l.destinations[e]
<1> DEFINE lease == [holder |-> run, until |-> now + ClaimDuration]
           claimed == Claimable(l, d, tasks, now)
           deliveries == [k \in Keys |->
              IF k \in claimed
              THEN [l.deliveries[k] EXCEPT
                      !.status = "claimed", !.attempts = @ + 1,
                      !.attemptIDs = @ \cup {run}, !.lease = lease]
              ELSE l.deliveries[k]]
           destination == [l.destinations[d] EXCEPT
              !.lease = lease, !.nextSendAt = now + SendSpacing]
           m == [l EXCEPT !.deliveries = deliveries, !.destinations[d] = destination]
<1>1. ClaimBatch(l, d, run, tasks, now) = m
  BY DEF ClaimBatch, Ledger
<1>2. \A k \in claimed : l.deliveries[k].status \notin Terminal \cup {"absent"}
  BY DEF Claimable
<1>3. lease.holder = run
  OBVIOUS
<1> HIDE DEF lease, claimed
<1>4. \A record \in Record :
        LET after == [record EXCEPT !.status = "claimed", !.attempts = @ + 1,
                        !.attemptIDs = @ \cup {run}, !.lease = lease]
        IN after.status = "claimed" /\ after.lease = lease
  BY DEF Record
<1>5. \A k \in Keys : l.deliveries[k] \in Record
  BY DEF Ledger
<1>6. \A k \in Keys :
        /\ k \in claimed => /\ deliveries[k].status = "claimed"
                            /\ deliveries[k].lease = lease
        /\ k \notin claimed => deliveries[k] = l.deliveries[k]
  BY <1>4, <1>5
<1>7. destination.lease = lease
  BY DEF Ledger, Destination
<1> HIDE DEF deliveries, destination
<1>8. /\ m.deliveries = deliveries
      /\ m.destinations[d] = destination
      /\ \A e \in Destinations : e # d => m.destinations[e] = l.destinations[e]
  BY BatchFields
<1> QED
  BY <1>1, <1>2, <1>3, <1>6, <1>7, <1>8 DEF lease, claimed

(* A renewal prolongs a lease of the same holder.                           *)
LEMMA RenewBatchEffect ==
  ASSUME NEW l \in Ledger, NEW d \in Destinations, NEW run, NEW tasks, NEW now
  PROVE  LET m == RenewBatch(l, d, run, tasks, now)
         IN /\ \A k \in Keys : Quiet(l.deliveries[k], m.deliveries[k])
            /\ m.destinations[d].lease =
                 [l.destinations[d].lease EXCEPT !.until = now + ClaimDuration]
            /\ \A e \in Destinations : e # d => m.destinations[e] = l.destinations[e]
<1> DEFINE owned(k) == k \in tasks /\ OwnsRecord(l, d, run, k, now)
           until == now + ClaimDuration
           deliveries == [k \in Keys |->
              IF owned(k) THEN [l.deliveries[k] EXCEPT !.lease.until = until]
              ELSE l.deliveries[k]]
           destination == [l.destinations[d] EXCEPT !.lease.until = until]
           m == [l EXCEPT !.deliveries = deliveries, !.destinations[d] = destination]
<1>1. RenewBatch(l, d, run, tasks, now) = m
  BY DEF RenewBatch, Ledger
<1> HIDE DEF until
<1>2. \A record \in Record : Quiet(record, [record EXCEPT !.lease.until = until])
  BY DEF Record, Lease, Quiet, Settled, GivenUp
<1>3. \A k \in Keys : Quiet(l.deliveries[k], deliveries[k])
  BY <1>2, QuietReflexive DEF Ledger
<1>4. destination.lease = [l.destinations[d].lease EXCEPT !.until = until]
  BY DEF Ledger, Destination
<1> HIDE DEF deliveries, destination
<1>5. /\ m.deliveries = deliveries
      /\ m.destinations[d] = destination
      /\ \A e \in Destinations : e # d => m.destinations[e] = l.destinations[e]
  BY BatchFields
<1> QED
  BY <1>1, <1>3, <1>4, <1>5 DEF until

(* What the result of one attempt of run does to a record.                  *)
Answered(before, run, code, after) ==
  /\ Settled(before, after)
  /\ code = "accepted" => after.status = "delivered"
  /\ \/ after.status \in Terminal
     \/ after = before
     \/ before.lease.holder = run
  /\ GivenUp(after) =>
       \/ after = before
       \/ /\ code \in AttemptOutcomes \ (Transient \cup {"accepted"})
          /\ after.code = "abandoned" => after.attempts >= MaxAttempts

(* applyResult: acceptance always delivers, and only a refusal gives up.    *)
LEMMA ResultAppliedEffect ==
  ASSUME NEW record \in Record, NEW run, NEW result \in Result, NEW now
  PROVE  Answered(record, run, result.code, ResultApplied(record, run, result, now))
<1> DEFINE after == ResultApplied(record, run, result, now)
<1>1. result.code \in AttemptOutcomes
  BY DEF Result
<1>2. CASE record.status = "delivered"
  <2>1. after = record
    BY <1>2 DEF ResultApplied
  <2> QED
    BY <1>2, <2>1 DEF Answered, Settled, GivenUp
<1>3. CASE record.status # "delivered" /\ result.code = "accepted"
  <2>1. after.status = "delivered"
    BY <1>3 DEF ResultApplied, Record
  <2> QED
    BY <1>3, <2>1 DEF Answered, Settled, GivenUp, Terminal
<1>4. CASE /\ record.status # "delivered" /\ result.code # "accepted"
           /\ record.status = "skipped" \/ record.lease.holder # run
  <2>1. after = record
    BY <1>4 DEF ResultApplied
  <2> QED
    BY <1>4, <2>1 DEF Answered, Settled
<1>5. CASE /\ record.status \notin Terminal /\ result.code # "accepted"
           /\ record.lease.holder = run
           /\ TerminalFailure(record.attempts, result.code)
  <2>1. after = [record EXCEPT !.status = "skipped", !.lease = NoLease,
                   !.code = IF result.code = "payload-too-large"
                            THEN result.code ELSE "abandoned"]
    BY <1>5 DEF ResultApplied, Terminal
  <2>2. /\ after.status = "skipped" /\ after.attempts = record.attempts
        /\ after.code = IF result.code = "payload-too-large"
                        THEN result.code ELSE "abandoned"
    BY <2>1 DEF Record
  <2>3. result.code \notin Transient
    BY <1>5 DEF TerminalFailure, Transient
  <2> HIDE DEF after
  <2> QED
    BY <1>1, <1>5, <2>2, <2>3 DEF after, Answered, Settled, Terminal, TerminalFailure
<1>6. CASE /\ record.status \notin Terminal /\ result.code # "accepted"
           /\ record.lease.holder = run
           /\ ~TerminalFailure(record.attempts, result.code)
  <2>1. after.status = "retryable"
    BY <1>6 DEF ResultApplied, Terminal, Record
  <2> HIDE DEF after
  <2> QED
    BY <1>6, <2>1 DEF after, Answered, Settled, GivenUp, Terminal
<1> QED
  BY <1>2, <1>3, <1>4, <1>5, <1>6 DEF Terminal

(* RecordResults answers the records that have a receipt, and releases the  *)
(* destination if the run still holds it.                                   *)
LEMMA RecordResultsEffect ==
  ASSUME NEW l \in Ledger, NEW d \in Destinations, NEW run, NEW receipts, NEW now,
         \A k \in Keys : receipts[k] # None => receipts[k] \in Result
  PROVE  LET m == RecordResults(l, d, run, receipts, now)
         IN /\ \A k \in Keys :
                 /\ receipts[k] = None => m.deliveries[k] = l.deliveries[k]
                 /\ receipts[k] # None =>
                      Answered(l.deliveries[k], run, receipts[k].code, m.deliveries[k])
            /\ l.destinations[d].lease.holder # run =>
                 m.destinations[d] = l.destinations[d]
            /\ \A e \in Destinations : e # d => m.destinations[e] = l.destinations[e]
<1> DEFINE deliveries == [k \in Keys |->
              IF receipts[k] # None
              THEN ResultApplied(l.deliveries[k], run, receipts[k], now)
              ELSE l.deliveries[k]]
           old == l.destinations[d]
           destination ==
              IF old.lease.holder = run
              THEN [old EXCEPT !.lease = NoLease, !.nextSendAt = now + SendSpacing]
              ELSE old
           m == [l EXCEPT !.deliveries = deliveries, !.destinations[d] = destination]
<1>1. RecordResults(l, d, run, receipts, now) = m
  BY DEF RecordResults, Ledger
<1>2. \A k \in Keys :
        /\ l.deliveries[k] \in Record
        /\ receipts[k] # None => receipts[k] \in Result
  BY DEF Ledger
<1>3. \A k \in Keys :
        /\ receipts[k] = None => deliveries[k] = l.deliveries[k]
        /\ receipts[k] # None =>
             Answered(l.deliveries[k], run, receipts[k].code, deliveries[k])
  BY <1>2, ResultAppliedEffect
<1>4. old.lease.holder # run => destination = old
  OBVIOUS
<1> HIDE DEF deliveries, destination
<1>5. /\ m.deliveries = deliveries
      /\ m.destinations[d] = destination
      /\ \A e \in Destinations : e # d => m.destinations[e] = l.destinations[e]
  BY BatchFields
<1> QED
  BY <1>1, <1>3, <1>4, <1>5

-----------------------------------------------------------------------------
(* What a commit makes of the ledger. *)

(* What an evaluation found, besides Movable.                               *)
Evident(r, c) ==
  /\ c.op \in WorkerOps => Allowed(r, c)
  /\ c.op = "reset" =>
       \/ ledger.revision = RunRevision[r]
       \/ ledger.revision.oid # OID(r) /\ Len(ledger.overrides) < MaxOverrides

(* One record in the result of a commit.                                    *)
RecordWritten(r, c, k, after) ==
  IF c.op = "claim" /\ k \in ClaimedBy(r, c)
  THEN /\ ledger.deliveries[k].status \notin Terminal \cup {"absent"}
       /\ after.status = "claimed"
       /\ after.lease.holder = r
  ELSE IF c.op = "record" /\ worker[r][c.dest].receipts[k] # None
  THEN Answered(ledger.deliveries[k], r, worker[r][c.dest].receipts[k].code, after)
  ELSE Quiet(ledger.deliveries[k], after)

(* One lease in the result of a commit that keeps the accepted policy.      *)
LeaseWritten(r, c, d, after) ==
  LET before == ledger.destinations[d].lease
  IN \/ after = before
     \/ /\ c.op \in WorkerOps /\ c.dest = d
        /\ c.op = "claim" => before.until <= c.at
        /\ c.op \in {"renew", "record"} => before.holder = r

(* Activation and reset are quiet and leave the leases of a policy alone.   *)
LEMMA PolicyOutcomeEffect ==
  ASSUME IInv, NEW r \in Runs, NEW c \in Commit, c.op \in {"activate", "reset"},
         Movable(r, c), Evident(r, c)
  PROVE  LET next == Outcome(r, c)
         IN /\ \A k \in Keys : RecordWritten(r, c, k, next.deliveries[k])
            /\ ledger.anchor # None /\ next.revision.oid = ledger.revision.oid =>
                 next = ledger
<1> DEFINE next == Outcome(r, c)
<1>1. ledger \in Ledger /\ c.op \notin {"claim", "record"}
  BY DEF IInv, TypeOK
<1>2. CASE c.op = "activate"
  <2> DEFINE base == ActivationBase(r)
             applied == PolicyApplied(base, RunRevision[r], c.at)
  <2>1. next = IF base.revision = RunRevision[r] THEN base ELSE applied
    BY <1>2 DEF Outcome, AcceptPolicy
  <2>2. base \in Ledger /\ (ledger.anchor # None => base = ledger)
    BY ActivationBaseTyped
  <2>3. base.deliveries = ledger.deliveries
    <3>1. CASE ledger.anchor = None
      BY <3>1 DEF IInv, Anchored, ActivationBase, NewLedger, AbsentLedger
    <3> QED
      BY <2>2, <3>1
  <2> HIDE DEF base
  <2>4. \A k \in Keys : Quiet(base.deliveries[k], applied.deliveries[k])
    BY <2>2, PolicyAppliedQuiet
  <2>5. \A k \in Keys : Quiet(ledger.deliveries[k], next.deliveries[k])
    BY <2>1, <2>3, <2>4, QuietReflexive
  <2>6. ledger.anchor # None /\ next.revision.oid = ledger.revision.oid => next = ledger
    <3>1. next.revision = RunRevision[r]
      BY <1>2, ActivateOutcome
    <3>2. <<OID(r), OID(r)>> \notin Ancestry
      BY RunTyped, AncestryAssumption
    <3> QED
      BY <1>2, <2>1, <2>2, <3>1, <3>2 DEF Movable, OID
  <2> HIDE DEF next
  <2> QED
    BY <1>1, <2>5, <2>6 DEF RecordWritten, next
<1>3. CASE c.op = "reset"
  <2> DEFINE applied == PolicyApplied(ledger, RunRevision[r], c.at)
  <2>1. next = IF ledger.revision = RunRevision[r] THEN ledger
               ELSE OverrideRevision(ledger, RunRevision[r], c.at)
    BY <1>3 DEF Outcome
  <2>2. applied \in Ledger
    BY <1>1, PolicyAppliedTyped, RunTyped DEF Commit
  <2>3. OverrideRevision(ledger, RunRevision[r], c.at).deliveries = applied.deliveries
    BY <2>2 DEF OverrideRevision, Ledger
  <2>4. \A k \in Keys : Quiet(ledger.deliveries[k], applied.deliveries[k])
    BY <1>1, PolicyAppliedQuiet
  <2>5. \A k \in Keys : Quiet(ledger.deliveries[k], next.deliveries[k])
    BY <2>1, <2>3, <2>4, QuietReflexive
  <2>6. next.revision.oid = ledger.revision.oid => next = ledger
    <3>1. next.revision = RunRevision[r]
      BY <1>3, ResetOutcome DEF Movable
    <3> QED
      BY <1>3, <2>1, <3>1 DEF Evident, OID
  <2> HIDE DEF next
  <2> QED
    BY <1>1, <2>5, <2>6 DEF RecordWritten, next
<1> QED
  BY <1>2, <1>3

(* A claim takes its records and an expired lease of the destination.       *)
LEMMA ClaimOutcomeEffect ==
  ASSUME IInv, NEW r \in Runs, NEW c \in Commit, c.op = "claim", Placed(r, c),
         Evident(r, c)
  PROVE  LET next == Outcome(r, c)
         IN /\ ledger.revision.oid = OID(r)
            /\ \A k \in Keys : RecordWritten(r, c, k, next.deliveries[k])
            /\ \A d \in Destinations : LeaseWritten(r, c, d, next.destinations[d].lease)
            /\ next.destinations[c.dest].lease =
                 [holder |-> r, until |-> c.at + ClaimDuration]
<1> DEFINE tasks == worker[r][c.dest].tasks
           prepared == Prepared(r, c)
           next == ClaimBatch(prepared, c.dest, r, tasks, c.at)
           claimed == Claimable(prepared, c.dest, tasks, c.at)
<1>1. /\ Outcome(r, c) = next /\ c.dest \in Destinations
      /\ ClaimedBy(r, c) = claimed
  BY DEF Outcome, Placed, WorkerOps, ClaimedBy
<1>2. /\ prepared \in Ledger /\ prepared.destinations = ledger.destinations
      /\ KeepsPolicy(ledger, prepared)
      /\ \A k \in Keys :
           /\ prepared.deliveries[k].status = ledger.deliveries[k].status
           /\ prepared.deliveries[k].code = ledger.deliveries[k].code
           /\ prepared.deliveries[k].attempts = ledger.deliveries[k].attempts
           /\ prepared.deliveries[k].lease = ledger.deliveries[k].lease
  <2>1. ledger \in Ledger /\ OID(r) \in Configs
    BY RunTyped DEF IInv, TypeOK
  <2>2. prepared = MessagesSaved(ledger, OID(r), tasks)
    BY DEF Prepared
  <2> HIDE DEF prepared, tasks
  <2>3. prepared \in Ledger /\ KeepsPolicy(ledger, prepared)
    BY <2>1, <2>2, MessagesSavedTyped
  <2> QED
    BY <2>1, <2>2, <2>3, MessagesSavedQuiet
<1>3. CanClaimBatch(prepared, OID(r), c.dest, r, tasks, c.at)
  BY DEF Evident, Allowed, WorkerOps
<1> HIDE DEF prepared, tasks
<1>4. /\ \A k \in Keys :
            /\ k \in claimed =>
                 /\ prepared.deliveries[k].status \notin Terminal \cup {"absent"}
                 /\ next.deliveries[k].status = "claimed"
                 /\ next.deliveries[k].lease.holder = r
            /\ k \notin claimed => next.deliveries[k] = prepared.deliveries[k]
      /\ next.destinations[c.dest].lease = [holder |-> r, until |-> c.at + ClaimDuration]
      /\ \A e \in Destinations : e # c.dest =>
            next.destinations[e] = prepared.destinations[e]
  BY <1>1, <1>2, ClaimBatchEffect
<1>5. /\ prepared.revision.oid = OID(r)
      /\ prepared.destinations[c.dest].lease.until <= c.at
  BY <1>3 DEF CanClaimBatch
<1> HIDE DEF next, claimed
<1>6. ASSUME NEW k \in Keys PROVE RecordWritten(r, c, k, next.deliveries[k])
  <2>1. CASE k \in claimed
    BY <1>1, <1>2, <1>4, <2>1 DEF RecordWritten
  <2>2. CASE k \notin claimed
    <3>1. Quiet(ledger.deliveries[k], next.deliveries[k])
      BY <1>2, <1>4, <2>2 DEF Quiet, Settled, GivenUp
    <3> QED
      BY <1>1, <2>2, <3>1 DEF RecordWritten
  <2> QED
    BY <2>1, <2>2
<1>7. \A d \in Destinations : LeaseWritten(r, c, d, next.destinations[d].lease)
  BY <1>1, <1>2, <1>4, <1>5 DEF LeaseWritten, WorkerOps
<1> QED
  BY <1>1, <1>2, <1>4, <1>5, <1>6, <1>7 DEF KeepsPolicy, next

(* A renewal prolongs the lease its run holds.                              *)
LEMMA RenewOutcomeEffect ==
  ASSUME IInv, NEW r \in Runs, NEW c \in Commit, c.op = "renew", Placed(r, c),
         Evident(r, c)
  PROVE  LET next == Outcome(r, c)
         IN /\ ledger.revision.oid = OID(r)
            /\ \A k \in Keys : RecordWritten(r, c, k, next.deliveries[k])
            /\ \A d \in Destinations : LeaseWritten(r, c, d, next.destinations[d].lease)
            /\ next.destinations[c.dest].lease =
                 [holder |-> r, until |-> c.at + ClaimDuration]
<1> DEFINE tasks == worker[r][c.dest].tasks
           next == RenewBatch(ledger, c.dest, r, tasks, c.at)
<1>1. Outcome(r, c) = next /\ c.dest \in Destinations /\ ledger \in Ledger
  BY DEF Outcome, Placed, WorkerOps, IInv, TypeOK
<1>2. ledger.revision.oid = OID(r) /\ ledger.destinations[c.dest].lease.holder = r
  BY DEF Evident, Allowed, WorkerOps, CanRenewBatch, OwnsDestination
<1>3. ledger.destinations[c.dest].lease \in Lease
  BY <1>1 DEF Ledger, Destination
<1> HIDE DEF tasks
<1>4. /\ \A k \in Keys : Quiet(ledger.deliveries[k], next.deliveries[k])
      /\ next.destinations[c.dest].lease =
           [ledger.destinations[c.dest].lease EXCEPT !.until = c.at + ClaimDuration]
      /\ \A e \in Destinations : e # c.dest =>
            next.destinations[e] = ledger.destinations[e]
  BY <1>1, RenewBatchEffect
<1> HIDE DEF next
<1>5. next.destinations[c.dest].lease = [holder |-> r, until |-> c.at + ClaimDuration]
  BY <1>2, <1>3, <1>4 DEF Lease
<1>6. \A k \in Keys : RecordWritten(r, c, k, next.deliveries[k])
  BY <1>4 DEF RecordWritten
<1>7. \A d \in Destinations : LeaseWritten(r, c, d, next.destinations[d].lease)
  BY <1>1, <1>2, <1>4 DEF LeaseWritten, WorkerOps
<1> QED
  BY <1>1, <1>2, <1>5, <1>6, <1>7 DEF next

(* A record answers its receipts and releases only what its run holds.      *)
LEMMA RecordOutcomeEffect ==
  ASSUME IInv, NEW r \in Runs, NEW c \in Commit, c.op = "record", Placed(r, c)
  PROVE  LET next == Outcome(r, c)
         IN /\ \A k \in Keys : RecordWritten(r, c, k, next.deliveries[k])
            /\ \A d \in Destinations : LeaseWritten(r, c, d, next.destinations[d].lease)
<1> DEFINE receipts == worker[r][c.dest].receipts
           next == RecordResults(ledger, c.dest, r, receipts, c.at)
<1>1. Outcome(r, c) = next /\ c.dest \in Destinations /\ ledger \in Ledger
  BY DEF Outcome, Placed, WorkerOps, IInv, TypeOK
<1>2. \A k \in Keys : receipts[k] # None => receipts[k] \in Result
  BY <1>1 DEF IInv, TypeOK, Worker
<1> HIDE DEF receipts
<1>3. /\ \A k \in Keys :
            /\ receipts[k] = None => next.deliveries[k] = ledger.deliveries[k]
            /\ receipts[k] # None =>
                 Answered(ledger.deliveries[k], r, receipts[k].code, next.deliveries[k])
      /\ ledger.destinations[c.dest].lease.holder # r =>
           next.destinations[c.dest] = ledger.destinations[c.dest]
      /\ \A e \in Destinations : e # c.dest =>
            next.destinations[e] = ledger.destinations[e]
  BY <1>1, <1>2, RecordResultsEffect
<1> HIDE DEF next
<1>4. \A k \in Keys : RecordWritten(r, c, k, next.deliveries[k])
  BY <1>3, QuietReflexive DEF RecordWritten, receipts
<1>5. \A d \in Destinations : LeaseWritten(r, c, d, next.destinations[d].lease)
  BY <1>1, <1>3 DEF LeaseWritten, WorkerOps
<1> QED
  BY <1>1, <1>4, <1>5 DEF next

(* The result of any commit that may be written.                            *)
LEMMA OutcomeEffect ==
  ASSUME IInv, NEW r \in Runs, NEW c \in Commit, Placed(r, c), Movable(r, c),
         Evident(r, c)
  PROVE  LET next == Outcome(r, c)
         IN /\ \A k \in Keys : RecordWritten(r, c, k, next.deliveries[k])
            /\ ledger.anchor # None /\ next.revision.oid = ledger.revision.oid =>
                 \A d \in Destinations : LeaseWritten(r, c, d, next.destinations[d].lease)
            /\ c.op \in {"claim", "renew"} =>
                 /\ ledger.revision.oid = OID(r) /\ next.revision = ledger.revision
                 /\ next.destinations[c.dest].lease =
                      [holder |-> r, until |-> c.at + ClaimDuration]
<1>1. CASE c.op \in {"activate", "reset"}
  BY <1>1, PolicyOutcomeEffect DEF LeaseWritten
<1>2. CASE c.op = "admit"
  <2>1. Outcome(r, c) = EventsAdmitted(ledger, c.events, EventTime)
    BY <1>2 DEF Outcome
  <2> QED
    BY <1>2, <2>1, EventsAdmittedQuiet DEF RecordWritten, LeaseWritten, IInv, TypeOK
<1>3. CASE c.op \in {"claim", "renew"}
  <2>1. Outcome(r, c).revision = ledger.revision
    BY <1>3, OtherOutcome DEF KeepsPolicy
  <2> QED
    BY <1>3, <2>1, ClaimOutcomeEffect, RenewOutcomeEffect
<1>4. CASE c.op = "record"
  BY <1>4, RecordOutcomeEffect
<1>5. CASE c.op = "none"
  BY <1>5, QuietReflexive DEF Outcome, RecordWritten, LeaseWritten
<1> QED
  BY <1>1, <1>2, <1>3, <1>4, <1>5 DEF Commit, Operations

-----------------------------------------------------------------------------
(* The phases of a run and the evidence of its commit. *)

Early == {"idle", "prepared", "ready"}
EarlyOps == {"activate", "reset", "admit"}

(* Workers exist only while their run dispatches; what a run does before    *)
(* that it does before that.                                                *)
Phase(r) ==
  /\ \A d \in Destinations :
        worker[r][d].pc \notin {"off", "end"} => stage[r] = "dispatching"
  /\ stage[r] \in Early => \A d \in Destinations : worker[r][d].pc = "off"
  /\ commit[r].op \in EarlyOps => stage[r] \in Early

(* A batch reads its clock no later than it commits.                        *)
Timely(r) == commit[r].op \in WorkerOps => commit[r].at <= Now(r)

Ordered ==
  \A r \in Runs : /\ Phase(r)
                  /\ Timely(r)
                  /\ commit[r].fresh => Evident(r, commit[r])

(* The evidence of a commit stands while its run and the ledger do.         *)
LEMMA EvidentKept ==
  ASSUME NEW r \in Runs, ledger' = ledger, commit'[r] = commit[r],
         commit[r].op \in WorkerOps =>
           worker'[r][commit[r].dest] = worker[r][commit[r].dest],
         Evident(r, commit[r])
  PROVE  Evident(r, commit[r])'
<1> DEFINE c == commit[r]
<1>1. CASE c.op \in WorkerOps
  <2>1. c.op \notin {"activate", "reset", "admit"}
    BY <1>1 DEF WorkerOps
  <2>2. Prepared(r, c)' = Prepared(r, c)
    BY <1>1 DEF Prepared, OID
  <2>3. Allowed(r, c)
    BY <1>1 DEF Evident
  <2>4. Allowed(r, c)'
    BY <1>1, <2>1, <2>2, <2>3 DEF Allowed, OID
  <2> QED
    BY <1>1, <2>1, <2>4 DEF Evident
<1>2. CASE c.op \notin WorkerOps
  BY <1>2 DEF Evident, OID
<1> QED
  BY <1>1, <1>2

(* A step of run r need only look after run r.                              *)
LEMMA OrderedFrame ==
  ASSUME IInv, Ordered, NEW r \in Runs, clock' \in Nat, clock' >= clock,
         \A q \in Runs : q # r =>
           /\ worker'[q] = worker[q] /\ stage'[q] = stage[q]
           /\ commit'[q].op = commit[q].op /\ commit'[q].at = commit[q].at
           /\ commit'[q].fresh => commit'[q] = commit[q] /\ ledger' = ledger,
         Phase(r)', Timely(r)', commit'[r].fresh => Evident(r, commit[r])'
  PROVE  Ordered'
<1> SUFFICES ASSUME NEW q \in Runs, q # r
             PROVE  /\ Phase(q)' /\ Timely(q)'
                    /\ commit'[q].fresh => Evident(q, commit[q])'
  BY DEF Ordered
<1>1. Phase(q)'
  BY DEF Ordered, Phase
<1>2. Timely(q)'
  <2>1. commit[q].at \in Nat /\ clock \in Nat /\ Skew[q] \in Nat
    BY RunAssumption DEF IInv, TypeOK, Commit
  <2> QED
    BY <2>1 DEF Ordered, Timely, Now
<1>3. commit'[q].fresh => Evident(q, commit[q])'
  <2> SUFFICES ASSUME commit'[q].fresh PROVE Evident(q, commit[q])'
    OBVIOUS
  <2> QED
    BY EvidentKept DEF Ordered
<1> QED
  BY <1>1, <1>2, <1>3

(* An evaluation that one of the steps of run r begins.                     *)
Attempts(r, c) ==
  /\ c \in Commit /\ Placed(r, c) /\ Evaluate(r, c)
  /\ c.op \in WorkerOps => c.at = Now(r)
  /\ c.op \in EarlyOps => stage[r] \in Early

(* Beginning a commit is an attempt.                                        *)
LEMMA BeginAttempts ==
  ASSUME IInv, NEW r \in Runs, NEW op \in Operations,
         NEW d \in Destinations \cup {None}, NEW E \in SUBSET Events,
         op \in WorkerOps => d \in Destinations /\ worker[r][d].pc = op,
         op \in EarlyOps => stage[r] \in Early,
         Begin(r, op, d, E)
  PROVE  \E c : Attempts(r, c)
<1> DEFINE c == [op |-> op, dest |-> d, events |-> E, at |-> Now(r), fresh |-> FALSE]
<1>1. c \in Commit
  BY RunTyped DEF IInv, TypeOK, Commit
<1>2. Evaluate(r, c)
  BY DEF Begin
<1> QED
  BY <1>1, <1>2 DEF Attempts, Placed

(* So is trying again after a conflict.                                     *)
LEMMA ReevaluateAttempts ==
  ASSUME IInv, Ordered, NEW r \in Runs, Reevaluate(r)
  PROVE  \E c : Attempts(r, c)
<1> DEFINE c == commit[r]
           again == IF c.op \in WorkerOps THEN [c EXCEPT !.at = Now(r)] ELSE c
<1>1. c \in Commit /\ Placed(r, c) /\ (c.op \in EarlyOps => stage[r] \in Early)
  BY DEF IInv, TypeOK, CommitShape, Placed, Ordered, Phase
<1>2. Evaluate(r, again)
  BY DEF Reevaluate
<1>3. Now(r) \in Nat
  BY RunTyped DEF IInv, TypeOK
<1> HIDE DEF c
<1>4. /\ again \in Commit /\ again.op = c.op /\ again.dest = c.dest
      /\ c.op \in WorkerOps => again.at = Now(r)
  BY <1>1, <1>3 DEF Commit
<1> HIDE DEF again
<1> QED
  BY <1>1, <1>2, <1>4 DEF Attempts, Placed

(* The steps of run r that are not attempts to commit.                      *)
Acts(r) ==
  \/ Push(r) \/ PushUnacknowledged(r) \/ CommitFails(r) \/ Crash(r)
  \/ Dispatch(r) \/ Finish(r)
  \/ \E d \in Destinations :
       \/ StopSending(r, d)
       \/ \E k \in Keys : NextSend(r, d, k)
       \/ \E code \in AttemptOutcomes \ {"canceled"}, after \in RetryAfters,
            taken \in BOOLEAN :
            Send(r, d, [code |-> code, retryAfter |-> after], taken)

(* A step is one run's attempt to commit, another step of it, or nobody's.  *)
LEMMA StepIs ==
  ASSUME IInv, Ordered, [Next]_vars
  PROVE  \/ \E r \in Runs : (\E c : Attempts(r, c)) \/ Acts(r)
         \/ /\ UNCHANGED <<ledger, stage, commit, worker, wire, mishaps, faults>>
            /\ clock' \in Nat /\ clock' >= clock
<1>1. clock \in Nat
  BY DEF IInv, TypeOK
<1>2. CASE Tick
  BY <1>1, <1>2 DEF Tick
<1>3. ASSUME NEW r \in Runs, Invoke(r) PROVE \E c : Attempts(r, c)
  <2>1. CASE Prepare(r)
    BY <2>1, BeginAttempts DEF Prepare, Operations, WorkerOps, EarlyOps, Early
  <2>2. CASE ResetRevision(r)
    BY <2>2, BeginAttempts DEF ResetRevision, Operations, WorkerOps, EarlyOps, Early
  <2>3. ASSUME NEW E \in SUBSET Events, Observe(r, E) PROVE \E c : Attempts(r, c)
    BY <2>3, BeginAttempts DEF Observe, Operations, WorkerOps, EarlyOps, Early
  <2> QED
    BY <1>3, <2>1, <2>2, <2>3 DEF Invoke
<1>4. ASSUME NEW r \in Runs, Proceed(r) PROVE (\E c : Attempts(r, c)) \/ Acts(r)
  <2>1. CASE Activate(r)
    BY <2>1, BeginAttempts DEF Activate, Operations, WorkerOps, EarlyOps, Early
  <2>2. CASE Reevaluate(r)
    BY <2>2, ReevaluateAttempts
  <2>3. ASSUME NEW d \in Destinations,
               Claim(r, d) \/ Renew(r, d) \/ RecordReceipts(r, d)
        PROVE  \E c : Attempts(r, c)
    <3>1. PICK op \in WorkerOps : worker[r][d].pc = op /\ Begin(r, op, d, {})
      BY <2>3 DEF Claim, Renew, RecordReceipts, WorkerOps
    <3>2. op \in Operations /\ op \notin EarlyOps
      BY DEF WorkerOps, Operations, EarlyOps
    <3> QED
      BY <3>1, <3>2, BeginAttempts
  <2> QED
    BY <1>4, <2>1, <2>2, <2>3 DEF Proceed, Acts
<1>5. ASSUME NEW r \in Runs, Disturb(r) PROVE Acts(r)
  BY <1>5 DEF Disturb, Acts
<1>6. CASE UNCHANGED vars
  BY <1>1, <1>6 DEF vars
<1> QED
  BY <1>1, <1>2, <1>3, <1>4, <1>5, <1>6 DEF Next

-----------------------------------------------------------------------------
(* Phases and evidence are inductive. *)

(* A commit that succeeds or fails moves its run to the next phase.         *)
LEMMA ContinuedPhase ==
  ASSUME IInv, NEW r \in Runs, NEW c \in Commit, Placed(r, c), Phase(r),
         c.op \in EarlyOps => stage[r] \in Early,
         commit'[r] = NoCommit,
         (\E next : Succeed(r, c, next)) \/ Fail(r, c)
  PROVE  Phase(r)' /\ \A q \in Runs : q # r => worker'[q] = worker[q] /\ stage'[q] = stage[q]
<1>1. NoCommit.op \notin EarlyOps
  BY DEF NoCommit, EarlyOps
<1>2. CASE c.op \in WorkerOps
  <2>1. /\ c.op \notin {"activate", "reset"} /\ c.dest \in Destinations
        /\ worker[r][c.dest].pc \notin {"off", "end"}
    BY <1>2 DEF WorkerOps, Placed
  <2>2. stage[r] = "dispatching" /\ stage' = stage
    BY <2>1 DEF Phase, Succeed, Fail, NotActivated
  <2>3. \A q \in Runs : q # r => worker'[q] = worker[q]
    BY DEF Succeed, Fail, IInv, TypeOK
  <2> QED
    BY <1>1, <2>2, <2>3 DEF Phase, Early
<1>3. CASE c.op \in EarlyOps
  <2>1. c.op \notin WorkerOps
    BY <1>3 DEF WorkerOps, EarlyOps
  <2>2. worker' = worker
    BY <2>1 DEF Succeed, Fail, WorkerOps
  <2>3. /\ stage'[r] # "dispatching"
        /\ \A q \in Runs : q # r => stage'[q] = stage[q]
    BY <1>3 DEF Succeed, Fail, NotActivated, IInv, TypeOK, Early
  <2>4. \A d \in Destinations : worker[r][d].pc = "off"
    BY <1>3 DEF Phase
  <2> QED
    BY <1>1, <2>2, <2>3, <2>4 DEF Phase
<1>4. CASE c.op = "none"
  <2>1. worker' = worker /\ stage' = stage
    BY <1>4 DEF Succeed, Fail, NotActivated, WorkerOps
  <2> QED
    BY <1>1, <2>1 DEF Phase
<1> QED
  BY <1>2, <1>3, <1>4 DEF Commit, Operations, WorkerOps, EarlyOps

(* An attempt keeps the order of a run and leaves evidence of what it found. *)
LEMMA AttemptOrdered ==
  ASSUME IInv, Ordered, NEW r \in Runs, NEW c, Attempts(r, c)
  PROVE  Ordered'
<1>1. /\ c \in Commit /\ Placed(r, c) /\ Evaluate(r, c) /\ Phase(r)
      /\ c.op \in WorkerOps => c.at = Now(r)
      /\ c.op \in EarlyOps => stage[r] \in Early
  BY DEF Attempts, Ordered
<1>2. /\ UNCHANGED <<ledger, clock, clone>> /\ clock \in Nat
      /\ commit \in [Runs -> Commit]
  BY <1>1 DEF Evaluate, IInv, TypeOK
<1>3. CASE Allowed(r, c) /\ Accepted(r, c) /\ Outcome(r, c) # ledger
  <2> DEFINE evaluated == [c EXCEPT !.fresh = TRUE]
  <2>1. /\ commit' = [commit EXCEPT ![r] = evaluated] /\ UNCHANGED <<worker, stage>>
    BY <1>1, <1>3 DEF Evaluate
  <2>2. /\ evaluated.op = c.op /\ evaluated.dest = c.dest /\ evaluated.at = c.at
        /\ evaluated.events = c.events
    BY <1>1 DEF Commit
  <2> HIDE DEF evaluated
  <2>3. commit'[r] = evaluated /\ \A q \in Runs : q # r => commit'[q] = commit[q]
    BY <1>2, <2>1
  <2>4. Phase(r)'
    BY <1>1, <2>1, <2>2, <2>3 DEF Phase
  <2>5. Timely(r)'
    <3>1. Now(r) \in Nat
      BY <1>2, RunTyped
    <3> QED
      BY <1>1, <1>2, <2>2, <2>3, <3>1 DEF Timely, Now
  <2>6. Evident(r, evaluated)'
    <3>1. CASE c.op \in WorkerOps
      <4>1. c.op \notin {"activate", "reset", "admit"}
        BY <3>1 DEF WorkerOps
      <4>2. Prepared(r, evaluated)' = Prepared(r, c)
        BY <1>2, <2>1, <2>2 DEF Prepared, OID
      <4>3. Allowed(r, evaluated)'
        BY <1>2, <1>3, <2>1, <2>2, <4>1, <4>2 DEF Allowed, OID
      <4> QED
        BY <2>2, <4>1, <4>3 DEF Evident
    <3>2. CASE c.op = "reset"
      <4>1. \/ ledger.revision = RunRevision[r]
            \/ ledger.revision.oid # OID(r) /\ Len(ledger.overrides) < MaxOverrides
        BY <1>3, <3>2 DEF Allowed, CanOverrideRevision, OID
      <4> QED
        BY <1>2, <2>2, <3>2, <4>1 DEF Evident, WorkerOps, OID
    <3> QED
      BY <2>2, <3>1, <3>2 DEF Evident
  <2>7. Evident(r, commit[r])'
    BY <2>3, <2>6
  <2> QED
    BY <1>2, <2>1, <2>3, <2>4, <2>5, <2>7, OrderedFrame
<1>4. CASE ~(Allowed(r, c) /\ Accepted(r, c) /\ Outcome(r, c) # ledger)
  <2>1. /\ commit' = [commit EXCEPT ![r] = NoCommit]
        /\ (\E next : Succeed(r, c, next)) \/ Fail(r, c)
    BY <1>1, <1>4 DEF Evaluate
  <2>2. commit'[r] = NoCommit /\ \A q \in Runs : q # r => commit'[q] = commit[q]
    BY <1>2, <2>1
  <2>3. Phase(r)' /\ \A q \in Runs : q # r => worker'[q] = worker[q] /\ stage'[q] = stage[q]
    BY <1>1, <2>1, <2>2, ContinuedPhase
  <2>4. Timely(r)' /\ ~commit'[r].fresh
    BY <2>2 DEF Timely, NoCommit, WorkerOps
  <2> QED
    BY <1>2, <2>2, <2>3, <2>4, OrderedFrame
<1> QED
  BY <1>3, <1>4

(* A write keeps the order and makes every other evidence stale.            *)
LEMMA WriteOrdered ==
  ASSUME IInv, Ordered, NEW r \in Runs, Push(r) \/ PushUnacknowledged(r)
  PROVE  Ordered'
<1> DEFINE c == commit[r]
<1>1. c \in Commit /\ Placed(r, c) /\ Phase(r) /\ (c.op \in EarlyOps => stage[r] \in Early)
  BY DEF IInv, TypeOK, CommitShape, Placed, Ordered, Phase
<1>2. clock' = clock /\ clock \in Nat
  BY DEF Push, PushUnacknowledged, IInv, TypeOK
<1>3. /\ Overtaken(r)[r] = NoCommit
      /\ \A q \in Runs : q # r => /\ Overtaken(r)[q].op = commit[q].op
                                  /\ Overtaken(r)[q].at = commit[q].at
                                  /\ ~Overtaken(r)[q].fresh
  BY DEF Overtaken, Commit, IInv, TypeOK
<1>4. CASE commit' = Overtaken(r) /\ ((\E next : Succeed(r, c, next)) \/ Fail(r, c))
  <2>1. commit'[r] = NoCommit
    BY <1>3, <1>4
  <2> HIDE DEF c
  <2>2. Phase(r)' /\ \A q \in Runs : q # r => worker'[q] = worker[q] /\ stage'[q] = stage[q]
    BY <1>1, <1>4, <2>1, ContinuedPhase
  <2>3. Timely(r)' /\ ~commit'[r].fresh
    BY <2>1 DEF Timely, NoCommit, WorkerOps
  <2> QED
    BY <1>2, <1>3, <1>4, <2>2, <2>3, OrderedFrame
<1>5. CASE /\ commit' = [Overtaken(r) EXCEPT ![r] = [c EXCEPT !.fresh = FALSE]]
           /\ UNCHANGED <<worker, stage>>
  <2> DEFINE stale == [c EXCEPT !.fresh = FALSE]
  <2>1. stale.op = c.op /\ stale.at = c.at /\ ~stale.fresh
    BY <1>1 DEF Commit
  <2> HIDE DEF stale
  <2>2. commit'[r] = stale /\ \A q \in Runs : q # r => commit'[q] = Overtaken(r)[q]
    BY <1>5 DEF Overtaken, stale
  <2>3. Phase(r)' /\ Timely(r)'
    BY <1>2, <1>5, <2>1, <2>2 DEF Ordered, Phase, Timely, Now
  <2> QED
    BY <1>2, <1>3, <1>5, <2>1, <2>2, <2>3, OrderedFrame
<1> QED
  BY <1>4, <1>5 DEF Push, PushUnacknowledged

(* A failed commit keeps the order.                                         *)
LEMMA CommitFailsOrdered ==
  ASSUME IInv, Ordered, NEW r \in Runs, CommitFails(r)
  PROVE  Ordered'
<1> DEFINE c == commit[r]
<1>1. c \in Commit /\ Placed(r, c) /\ Phase(r) /\ (c.op \in EarlyOps => stage[r] \in Early)
  BY DEF IInv, TypeOK, CommitShape, Placed, Ordered, Phase
<1>2. /\ UNCHANGED <<ledger, clock>> /\ clock \in Nat
      /\ commit' = [commit EXCEPT ![r] = NoCommit] /\ Fail(r, c)
      /\ commit \in [Runs -> Commit]
  BY DEF CommitFails, IInv, TypeOK
<1>3. commit'[r] = NoCommit /\ \A q \in Runs : q # r => commit'[q] = commit[q]
  BY <1>2
<1> HIDE DEF c
<1>4. Phase(r)' /\ \A q \in Runs : q # r => worker'[q] = worker[q] /\ stage'[q] = stage[q]
  BY <1>1, <1>2, <1>3, ContinuedPhase
<1>5. Timely(r)' /\ ~commit'[r].fresh
  BY <1>3 DEF Timely, NoCommit, WorkerOps
<1> QED
  BY <1>2, <1>3, <1>4, <1>5, OrderedFrame

(* A run that stops, by crashing or finishing, has no work left.            *)
LEMMA StopOrdered ==
  ASSUME IInv, Ordered, NEW r \in Runs, Crash(r) \/ Finish(r)
  PROVE  Ordered'
<1>1. /\ UNCHANGED <<ledger, clock>> /\ clock \in Nat
      /\ commit \in [Runs -> Commit] /\ worker \in [Runs -> [Destinations -> Worker]]
      /\ stage \in [Runs -> Stages]
  BY DEF Crash, Finish, IInv, TypeOK
<1>2. \A q \in Runs : q # r => /\ worker'[q] = worker[q] /\ stage'[q] = stage[q]
                               /\ commit'[q] = commit[q]
  BY <1>1 DEF Crash, Finish
<1>3. commit'[r].op \notin WorkerOps \cup EarlyOps
  <2>1. CASE Crash(r)
    BY <1>1, <2>1 DEF Crash, NoCommit, WorkerOps, EarlyOps
  <2>2. CASE Finish(r)
    <3>1. commit' = commit /\ stage[r] = "dispatching"
          /\ \A d \in Destinations : worker[r][d].pc = "end"
      BY <2>2 DEF Finish
    <3>2. commit[r].op \notin EarlyOps
      BY <3>1 DEF Ordered, Phase, Early
    <3>3. commit[r].op \notin WorkerOps
      BY <3>1 DEF IInv, CommitShape, WorkerOps
    <3> QED
      BY <3>1, <3>2, <3>3
  <2> QED
    BY <2>1, <2>2
<1>4. /\ stage'[r] \in {"done", "crashed"}
      /\ \A d \in Destinations : worker'[r][d].pc = "end"
  BY <1>1 DEF Crash, Finish, EndedWorker, NoWorker
<1>5. Phase(r)' /\ Timely(r)'
  BY <1>3, <1>4 DEF Phase, Timely, Early
<1>6. commit'[r].fresh => Evident(r, commit[r])'
  BY <1>3 DEF Evident, EarlyOps
<1> QED
  BY <1>1, <1>2, <1>5, <1>6, OrderedFrame

(* Dispatch starts the workers of a run that had none.                      *)
LEMMA DispatchOrdered ==
  ASSUME IInv, Ordered, NEW r \in Runs, Dispatch(r)
  PROVE  Ordered'
<1>1. /\ UNCHANGED <<ledger, clock, commit>> /\ clock \in Nat
      /\ worker \in [Runs -> [Destinations -> Worker]] /\ stage \in [Runs -> Stages]
      /\ commit[r] = NoCommit /\ stage[r] = "ready"
  BY DEF Dispatch, IInv, TypeOK
<1>2. \A q \in Runs : q # r => worker'[q] = worker[q] /\ stage'[q] = stage[q]
  BY <1>1 DEF Dispatch
<1>3. ~commit'[r].fresh /\ commit'[r].op \notin WorkerOps \cup EarlyOps
  BY <1>1 DEF NoCommit, WorkerOps, EarlyOps
<1>4. stage'[r] = "dispatching" \/ (stage'[r] = "done" /\ worker' = worker)
  BY <1>1 DEF Dispatch
<1>5. \A d \in Destinations : worker[r][d].pc = "off"
  BY <1>1 DEF Ordered, Phase, Early
<1>6. Phase(r)' /\ Timely(r)'
  BY <1>3, <1>4, <1>5 DEF Phase, Timely, Early
<1> QED
  BY <1>1, <1>2, <1>3, <1>6, OrderedFrame

(* A step of one worker leaves the commits of the others alone.             *)
LEMMA WorkerOrdered ==
  ASSUME IInv, Ordered, NEW r \in Runs, NEW d \in Destinations,
         worker[r][d].pc \in {"send", "post"},
         NEW after, worker' = [worker EXCEPT ![r][d] = after],
         UNCHANGED <<ledger, clock, stage, commit>>
  PROVE  Ordered'
<1>1. /\ clock \in Nat /\ worker \in [Runs -> [Destinations -> Worker]]
  BY DEF IInv, TypeOK
<1>2. /\ \A q \in Runs : q # r => worker'[q] = worker[q]
      /\ \A e \in Destinations : e # d => worker'[r][e] = worker[r][e]
  BY <1>1
<1>3. Phase(r)' /\ Timely(r)'
  <2>1. stage[r] = "dispatching" /\ Phase(r) /\ Timely(r)
    BY DEF Ordered, Phase
  <2> QED
    BY <2>1 DEF Phase, Timely, Early, Now
<1>4. commit'[r].fresh => Evident(r, commit[r])'
  <2>1. commit[r].op \in WorkerOps =>
          commit[r].dest \in Destinations /\ commit[r].dest # d
    BY DEF IInv, CommitShape, WorkerOps
  <2> QED
    BY <1>2, <2>1, EvidentKept DEF Ordered
<1> QED
  BY <1>1, <1>2, <1>3, <1>4, OrderedFrame

(* Phases and evidence are inductive.                                       *)
LEMMA NextOrdered == IInv /\ Ordered /\ [Next]_vars => Ordered'
<1> SUFFICES ASSUME IInv, Ordered, [Next]_vars PROVE Ordered'
  OBVIOUS
<1>1. ASSUME NEW r \in Runs, Acts(r) PROVE Ordered'
  <2>1. ASSUME NEW d \in Destinations,
               \/ StopSending(r, d) \/ \E k \in Keys : NextSend(r, d, k)
               \/ \E result, taken : Send(r, d, result, taken)
        PROVE  Ordered'
    <3>1. /\ worker[r][d].pc \in {"send", "post"}
          /\ UNCHANGED <<ledger, clock, stage, commit>>
      BY <2>1 DEF StopSending, NextSend, Send
    <3>2. \E after : worker' = [worker EXCEPT ![r][d] = after]
      <4>1. CASE StopSending(r, d)
        BY <4>1 DEF StopSending
      <4>2. ASSUME NEW k \in Keys, NextSend(r, d, k)
            PROVE  \E after : worker' = [worker EXCEPT ![r][d] = after]
        BY <4>2 DEF NextSend
      <4>3. ASSUME NEW result, NEW taken, Send(r, d, result, taken)
            PROVE  \E after : worker' = [worker EXCEPT ![r][d] = after]
        BY <4>3 DEF Send
      <4> QED
        BY <2>1, <4>1, <4>2, <4>3
    <3> QED
      BY <3>1, <3>2, WorkerOrdered
  <2> QED
    BY <1>1, <2>1, WriteOrdered, CommitFailsOrdered, StopOrdered, DispatchOrdered
       DEF Acts
<1>2. CASE /\ UNCHANGED <<ledger, stage, commit, worker, wire, mishaps, faults>>
           /\ clock' \in Nat /\ clock' >= clock
  <2>1. ASSUME NEW r \in Runs
        PROVE  /\ Phase(r)' /\ Timely(r)'
               /\ commit'[r].fresh => Evident(r, commit[r])'
    <3>1. Phase(r)'
      BY <1>2 DEF Ordered, Phase
    <3>2. Timely(r)'
      <4>1. commit[r].at \in Nat /\ clock \in Nat /\ Skew[r] \in Nat
        BY RunAssumption DEF IInv, TypeOK, Commit
      <4> QED
        BY <1>2, <4>1 DEF Ordered, Timely, Now
    <3>3. commit'[r].fresh => Evident(r, commit[r])'
      BY <1>2, EvidentKept DEF Ordered
    <3> QED
      BY <3>1, <3>2, <3>3
  <2> QED
    BY <2>1 DEF Ordered
<1> QED
  BY <1>1, <1>2, StepIs, AttemptOrdered

(* The initial states are in order.                                         *)
LEMMA InitOrdered == Init => Ordered
BY DEF Init, Ordered, Phase, Timely, Evident, NoCommit, NoWorker, Early, EarlyOps, WorkerOps

-----------------------------------------------------------------------------
(* What one step does to the workers of its run and to the ledger. *)

Sending == {"send", "renew", "post"}

(* The worker has a receipt that says the receiver accepted k.              *)
Accepts(w, k) == w.receipts[k] # None /\ w.receipts[k].code = "accepted"

(* Run r writes the result of its commit.                                   *)
Writes(r) ==
  /\ commit[r].op # "none" /\ commit[r].fresh
  /\ ledger' = Outcome(r, commit[r])
  /\ \A q \in Runs : Noted(r, commit[r])[q] \subseteq mishaps'[q]

(* Dispatch starts a worker, with work or without.                          *)
Starts(r, d) ==
  LET v == worker'[r][d]
  IN /\ stage[r] = "ready"
     /\ v.pc \in {"claim", "end"} /\ v.left = {}
     /\ \A k \in Keys : v.receipts[k] = None
     /\ \A k \in v.tasks : DestinationOf(k) = d
     /\ v.pc = "claim" =>
          /\ ledger' = ledger /\ ledger.revision.oid = OID(r)
          /\ \A k \in v.tasks :
                k \in Keys /\ ledger.deliveries[k].status \notin Terminal \cup {"absent"}

(* A worker ends before its claim, after a mishap, or with what it saw      *)
(* accepted on record.                                                      *)
Ends(r, d) ==
  LET w == worker[r][d]
  IN /\ worker'[r][d] = EndedWorker
     /\ \/ w.pc = "claim"
        \/ mishaps'[r] \cap {"crash", "receipt"} # {}
        \/ /\ w.pc = "record"
           /\ \A k \in Keys : Accepts(w, k) => ledger'.deliveries[k].status = "delivered"

(* A worker's claim is written.                                             *)
Takes(r, d) ==
  LET w == worker[r][d]
      v == worker'[r][d]
      taken == ClaimedBy(r, commit[r])
  IN /\ Writes(r) /\ commit[r].op = "claim" /\ commit[r].dest = d
     /\ w.pc = "claim" /\ v.pc = "send"
     /\ v.tasks = w.tasks /\ v.left = taken
     /\ v.leaseUntil = commit[r].at + ClaimDuration
     /\ \A k \in Keys : v.receipts[k] = IF k \in taken THEN Canceled ELSE None

(* A worker moves on in its send loop, under the lease it has or a renewed  *)
(* one.                                                                     *)
Turns(r, d) ==
  LET w == worker[r][d]
      v == worker'[r][d]
  IN /\ w.pc \in {"send", "renew"} /\ v.pc \in Sending \cup {"record"}
     /\ v.tasks = w.tasks /\ v.receipts = w.receipts /\ v.left \subseteq w.left
     /\ v.pc \in {"renew", "post"} =>
          /\ v.left = w.left
          /\ v.current \in w.left \/ (w.pc = "renew" /\ v.current = w.current)
     /\ v.pc = "post" => ledger.revision.oid = OID(r) /\ ledger'.revision.oid = OID(r)
     /\ v.pc \in Sending =>
          \/ w.pc = "send" /\ ledger' = ledger /\ v.leaseUntil = w.leaseUntil
          \/ /\ ledger.revision.oid = OID(r) /\ ledger'.revision.oid = OID(r)
             /\ ledger'.destinations[d].lease = [holder |-> r, until |-> v.leaseUntil]

(* A worker makes one POST.                                                 *)
Sent(r, w, v, code, taken) ==
  /\ w.pc = "post" /\ v.pc = "send"
  /\ ledger' = ledger
  /\ wire' = wire \cup {[run |-> r, key |-> w.current, code |-> code,
                         taken |-> taken, stale |-> ledger.revision.oid # OID(r)]}
  /\ v.tasks = w.tasks /\ v.left = w.left \ {w.current}
  /\ v.leaseUntil = w.leaseUntil
  /\ v.receipts[w.current] # None /\ v.receipts[w.current].code = code
  /\ \A k \in Keys : k # w.current => v.receipts[k] = w.receipts[k]
  /\ code = "accepted" => taken
  /\ taken /\ code # "accepted" => "reply" \in mishaps'[r]

Sends(r, d) ==
  \E code \in AttemptOutcomes \ {"canceled"}, taken \in BOOLEAN :
     Sent(r, worker[r][d], worker'[r][d], code, taken)

Moves(r, d) ==
  \/ worker'[r][d] = worker[r][d]
  \/ Starts(r, d) \/ Ends(r, d) \/ Takes(r, d) \/ Turns(r, d) \/ Sends(r, d)

(* One step of run r.                                                       *)
Step(r) ==
  /\ \A q \in Runs : q # r => worker'[q] = worker[q]
  /\ \A d \in Destinations : Moves(r, d)
  /\ \A q \in Runs : mishaps[q] \subseteq mishaps'[q]
  /\ clock' \in Nat /\ clock' >= clock
  /\ ledger' = ledger \/ Writes(r)
  /\ wire' = wire \/ \E d \in Destinations : Sends(r, d)

(* A mishap stays on record, and so does an overrun that a claim reveals.   *)
LEMMA NotedKeeps ==
  ASSUME IInv, NEW r \in Runs, NEW c, NEW q \in Runs
  PROVE  mishaps[q] \subseteq Noted(r, c)[q]
BY DEF Noted

(* A failed commit ends its worker or stops its sending.                    *)
LEMMA FailMoves ==
  ASSUME IInv, NEW r \in Runs, NEW c \in Commit, Placed(r, c), Fail(r, c),
         c.op = "record" => "receipt" \in mishaps'[r]
  PROVE  \A d \in Destinations : Moves(r, d)
<1>1. worker \in [Runs -> [Destinations -> Worker]]
  BY DEF IInv, TypeOK
<1>2. CASE c.op \notin WorkerOps
  BY <1>2 DEF Fail, WorkerOps, Moves
<1>3. CASE c.op = "renew"
  <2> DEFINE w == worker[r][c.dest]
             after == GivesUp(w)
  <2>1. worker' = [worker EXCEPT ![r][c.dest] = after]
    BY <1>1, <1>3 DEF Fail
  <2>2. c.dest \in Destinations /\ w.pc = "renew" /\ w \in Worker
    BY <1>1, <1>3 DEF Placed, WorkerOps
  <2>3. /\ after.pc = "record" /\ after.tasks = w.tasks
        /\ after.receipts = w.receipts /\ after.left = w.left
    BY <2>2 DEF GivesUp, Worker
  <2> HIDE DEF after
  <2>4. worker'[r][c.dest] = after /\ \A e \in Destinations : e # c.dest => worker'[r][e] = worker[r][e]
    BY <1>1, <2>1, <2>2
  <2>5. Turns(r, c.dest)
    BY <2>2, <2>3, <2>4 DEF Turns, Sending
  <2> QED
    BY <2>4, <2>5 DEF Moves
<1>4. CASE c.op \in {"claim", "record"}
  <2>1. worker' = [worker EXCEPT ![r][c.dest] = EndedWorker]
    BY <1>1, <1>4 DEF Fail
  <2>2. c.dest \in Destinations /\ worker[r][c.dest].pc = c.op
    BY <1>4 DEF Placed, WorkerOps
  <2>3. /\ worker'[r][c.dest] = EndedWorker
        /\ \A e \in Destinations : e # c.dest => worker'[r][e] = worker[r][e]
    BY <1>1, <2>1, <2>2
  <2>4. Ends(r, c.dest)
    BY <1>4, <2>2, <2>3 DEF Ends
  <2> QED
    BY <2>3, <2>4 DEF Moves
<1> QED
  BY <1>2, <1>3, <1>4 DEF WorkerOps

(* The check before a POST, against the new ledger.                         *)
LEMMA CheckedTurns ==
  ASSUME NEW r, NEW d, NEW w \in Worker, NEW k \in Keys, NEW l,
         NEW v, v = Checked(r, d, w, k, l)
  PROVE  /\ v.pc \in {"send", "post", "record"}
         /\ v.tasks = w.tasks /\ v.receipts = w.receipts
         /\ v.left \subseteq w.left /\ v.leaseUntil = w.leaseUntil
         /\ v.pc = "post" => /\ v.left = w.left /\ v.current = k
                             /\ l.revision.oid = OID(r)
<1>1. CheckBatchSend(l, OID(r), d, r, k, Now(r)) = "send" => l.revision.oid = OID(r)
  BY DEF CheckBatchSend, OwnsDestination
<1> QED
  BY <1>1 DEF Checked, Worker

(* A claim that may be made changes the ledger: its attempt is new.         *)
LEMMA ClaimWrites ==
  ASSUME IInv, NEW r \in Runs, NEW c \in Commit, Placed(r, c), c.op = "claim",
         Allowed(r, c)
  PROVE  Outcome(r, c) # ledger
<1> DEFINE tasks == worker[r][c.dest].tasks
           prepared == Prepared(r, c)
<1>1. CanClaimBatch(prepared, OID(r), c.dest, r, tasks, c.at)
  BY DEF Allowed
<1>2. /\ KeepsAttempts(ledger, prepared) /\ c.dest \in Destinations
      /\ tasks \subseteq Keys
  <2>1. c.dest \in Destinations /\ worker[r][c.dest] \in Worker
    BY DEF Placed, WorkerOps, IInv, TypeOK
  <2>2. ledger \in Ledger /\ OID(r) \in Configs /\ tasks \subseteq Keys
    BY <2>1, RunTyped DEF IInv, TypeOK, Worker
  <2>3. prepared = MessagesSaved(ledger, OID(r), tasks)
    BY DEF Prepared
  <2> HIDE DEF prepared, tasks
  <2>4. KeepsAttempts(ledger, prepared)
    BY <2>2, <2>3, MessagesSavedTyped
  <2> QED
    BY <2>1, <2>2, <2>4
<1>3. PICK k \in Claimable(prepared, c.dest, tasks, c.at) :
              r \notin prepared.deliveries[k].attemptIDs
  BY <1>1 DEF CanClaimBatch
<1>4. k \in Keys /\ k \in ClaimedBy(r, c)
  BY <1>2 DEF ClaimedBy, Claimable
<1>5. r \notin ledger.deliveries[k].attemptIDs
  BY <1>2, <1>3, <1>4 DEF KeepsAttempts
<1>6. r \in Outcome(r, c).deliveries[k].attemptIDs
  BY <1>4, OtherOutcome
<1> QED
  BY <1>5, <1>6

(* A commit that succeeds, with or without a write, lets its worker go on.  *)
LEMMA SucceedMoves ==
  ASSUME IInv, IInv', NEW r \in Runs, NEW c \in Commit, Placed(r, c), Movable(r, c),
         Evident(r, c), c.op \in WorkerOps => c.at <= Now(r),
         Succeed(r, c, ledger'), ledger' = Outcome(r, c),
         c.op = "claim" => c = commit[r] /\ Writes(r)
  PROVE  \A d \in Destinations : Moves(r, d)
<1>1. /\ worker \in [Runs -> [Destinations -> Worker]] /\ ledger' \in Ledger
      /\ Now(r) \in Nat /\ c.at \in Nat
  BY RunTyped DEF IInv, TypeOK, Commit
<1>2. CASE c.op \notin WorkerOps
  BY <1>2 DEF Succeed, Moves
<1>3. CASE c.op \in WorkerOps
  <2> DEFINE d == c.dest
             w == worker[r][d]
             after == WorkerAfter(r, c, ledger')
  <2>1. d \in Destinations /\ w.pc = c.op /\ w \in Worker
    BY <1>1, <1>3 DEF Placed
  <2>2. /\ worker'[r][d] = after
        /\ \A e \in Destinations : e # d => worker'[r][e] = worker[r][e]
    <3> HIDE DEF after
    <3>1. worker' = [worker EXCEPT ![r][d] = after]
      BY <1>3 DEF Succeed, after
    <3> QED
      BY <1>1, <2>1, <3>1
  <2>3. /\ \A k \in Keys : RecordWritten(r, c, k, ledger'.deliveries[k])
        /\ c.op \in {"claim", "renew"} =>
             /\ ledger.revision.oid = OID(r) /\ ledger'.revision = ledger.revision
             /\ ledger'.destinations[d].lease = [holder |-> r, until |-> c.at + ClaimDuration]
    BY OutcomeEffect
  <2>4. CASE c.op = "claim"
    <3> DEFINE receipts == [k \in Keys |-> IF k \in ClaimedBy(r, c) THEN Canceled ELSE None]
               until == ledger'.destinations[d].lease.until
    <3>1. after = [w EXCEPT !.pc = "send", !.left = ClaimedBy(r, c),
                            !.leaseUntil = until, !.receipts = receipts]
      BY <2>4 DEF WorkerAfter
    <3> HIDE DEF receipts, until, w
    <3>2. /\ after.pc = "send" /\ after.tasks = w.tasks /\ after.left = ClaimedBy(r, c)
          /\ after.leaseUntil = until /\ after.receipts = receipts
      BY <2>1, <3>1 DEF Worker
    <3>3. until = c.at + ClaimDuration
      BY <2>3, <2>4 DEF until
    <3> HIDE DEF after
    <3>4. Takes(r, d)
      BY <2>1, <2>2, <2>4, <3>2, <3>3 DEF Takes, receipts, w
    <3> QED
      BY <2>2, <3>4 DEF Moves
  <2>5. CASE c.op = "renew"
    <3> DEFINE until == ledger'.destinations[d].lease.until
               renewed == [w EXCEPT !.leaseUntil = until]
    <3>1. after = Checked(r, d, renewed, w.current, ledger')
      BY <2>5 DEF WorkerAfter, Renewed
    <3>2. until \in Nat /\ until = c.at + ClaimDuration
      BY <1>1, <2>1, <2>3, <2>5 DEF Ledger, Destination, Lease
    <3>3. w.current \in Keys
      BY <2>1, <2>5 DEF IInv, Sound
    <3> HIDE DEF w, until
    <3>4. /\ renewed \in Worker /\ renewed.tasks = w.tasks /\ renewed.left = w.left
          /\ renewed.receipts = w.receipts /\ renewed.leaseUntil = until
      BY <2>1, <3>2 DEF Worker
    <3> HIDE DEF renewed, after
    <3>5. /\ after.pc \in {"send", "post", "record"}
          /\ after.tasks = w.tasks /\ after.receipts = w.receipts
          /\ after.left \subseteq w.left /\ after.leaseUntil = until
          /\ after.pc = "post" => /\ after.left = w.left /\ after.current = w.current
                                  /\ ledger'.revision.oid = OID(r)
      BY <3>1, <3>3, <3>4, CheckedTurns
    <3>6. Turns(r, d)
      BY <2>1, <2>2, <2>3, <2>5, <3>2, <3>5 DEF Turns, Sending, w
    <3> QED
      BY <2>2, <3>6 DEF Moves
  <2>6. CASE c.op = "record"
    <3>1. after = EndedWorker
      BY <2>6 DEF WorkerAfter
    <3>2. \A k \in Keys : Accepts(w, k) => ledger'.deliveries[k].status = "delivered"
      BY <2>3, <2>6 DEF Accepts, RecordWritten, Answered
    <3> HIDE DEF after
    <3>3. Ends(r, d)
      BY <2>1, <2>2, <2>6, <3>1, <3>2 DEF Ends
    <3> QED
      BY <2>2, <3>3 DEF Moves
  <2> QED
    BY <1>3, <2>4, <2>5, <2>6 DEF WorkerOps
<1> QED
  BY <1>2, <1>3

(* An attempt to commit is a step.                                          *)
LEMMA AttemptStep ==
  ASSUME IInv, IInv', Ordered, NEW r \in Runs, NEW c, Attempts(r, c)
  PROVE  Step(r)
<1>1. /\ c \in Commit /\ Placed(r, c) /\ Evaluate(r, c)
      /\ c.op \in WorkerOps => c.at = Now(r)
  BY DEF Attempts
<1>2. /\ UNCHANGED <<ledger, clock, wire>>
      /\ clock' \in Nat /\ clock' >= clock /\ Now(r) \in Nat
  <2>1. UNCHANGED <<ledger, clock, wire>> /\ clock \in Nat
    BY <1>1 DEF Evaluate, IInv, TypeOK
  <2>2. Now(r) \in Nat
    BY <2>1, RunTyped
  <2> QED
    BY <2>1, <2>2
<1>3. CASE Allowed(r, c) /\ Accepted(r, c) /\ Outcome(r, c) # ledger
  BY <1>1, <1>2, <1>3 DEF Evaluate, Step, Moves
<1>4. CASE Allowed(r, c) /\ Accepted(r, c) /\ Outcome(r, c) = ledger
  <2>1. Succeed(r, c, ledger') /\ mishaps' = mishaps /\ commit'[r] = NoCommit
    BY <1>1, <1>2, <1>4 DEF Evaluate, IInv, TypeOK
  <2>2. Movable(r, c) /\ c.op # "claim"
    BY <1>1, <1>4, EvaluatedMovable, ClaimWrites
  <2>3. Evident(r, c)
    BY <1>4 DEF Evident, Allowed, CanOverrideRevision, OID
  <2>4. \A d \in Destinations : Moves(r, d)
    BY <1>1, <1>2, <1>4, <2>1, <2>2, <2>3, SucceedMoves
  <2>5. \A q \in Runs : q # r => worker'[q] = worker[q]
    BY <2>1 DEF Succeed, IInv, TypeOK
  <2> QED
    BY <1>2, <2>1, <2>4, <2>5 DEF Step
<1>5. CASE ~(Allowed(r, c) /\ Accepted(r, c))
  <2>1. Fail(r, c) /\ mishaps' = AfterFailure(r, c, mishaps)
    BY <1>1, <1>5 DEF Evaluate
  <2>2. /\ \A q \in Runs : mishaps[q] \subseteq mishaps'[q]
        /\ c.op = "record" => "receipt" \in mishaps'[r]
    BY <2>1 DEF AfterFailure, IInv, TypeOK
  <2>3. \A d \in Destinations : Moves(r, d)
    BY <1>1, <2>1, <2>2, FailMoves
  <2>4. \A q \in Runs : q # r => worker'[q] = worker[q]
    BY <2>1 DEF Fail, IInv, TypeOK
  <2> QED
    BY <1>2, <2>2, <2>3, <2>4 DEF Step
<1> QED
  BY <1>3, <1>4, <1>5

(* So is a write, acknowledged or not.                                      *)
LEMMA WriteStep ==
  ASSUME IInv, IInv', Ordered, NEW r \in Runs, Push(r) \/ PushUnacknowledged(r)
  PROVE  Step(r)
<1> DEFINE c == commit[r]
<1>1. /\ c \in Commit /\ Placed(r, c) /\ Movable(r, c) /\ Evident(r, c)
      /\ c.op # "none" /\ c.fresh
  BY WriteSound DEF Push, PushUnacknowledged, Ordered
<1>2. /\ ledger' = Outcome(r, c) /\ UNCHANGED <<clock, wire>>
      /\ clock' \in Nat /\ clock' >= clock
      /\ c.op \in WorkerOps => c.at <= Now(r)
  BY DEF Push, PushUnacknowledged, IInv, TypeOK, Ordered, Timely
<1>3. \A q \in Runs : mishaps[q] \subseteq Noted(r, c)[q]
  BY NotedKeeps
<1>4. Noted(r, c) \in [Runs -> SUBSET Mishaps]
  BY <1>1, WriteSound
<1>5. CASE Push(r)
  <2>1. Succeed(r, c, ledger') /\ mishaps' = Noted(r, c)
    BY <1>5 DEF Push
  <2>2. Writes(r)
    BY <1>1, <1>2, <2>1 DEF Writes
  <2>3. \A d \in Destinations : Moves(r, d)
    BY <1>1, <1>2, <2>1, <2>2, SucceedMoves
  <2>4. \A q \in Runs : q # r => worker'[q] = worker[q]
    BY <2>1 DEF Succeed, IInv, TypeOK
  <2> QED
    BY <1>2, <1>3, <2>1, <2>2, <2>3, <2>4 DEF Step
<1>6. CASE PushUnacknowledged(r) /\ mishaps' = Noted(r, c) /\ UNCHANGED worker
  BY <1>1, <1>2, <1>3, <1>6 DEF Step, Writes, Moves
<1>7. CASE Fail(r, c) /\ mishaps' = AfterFailure(r, c, Noted(r, c))
  <2>1. \A q \in Runs : Noted(r, c)[q] \subseteq mishaps'[q]
    BY <1>4, <1>7 DEF AfterFailure
  <2>2. c.op = "record" => "receipt" \in mishaps'[r]
    BY <1>4, <1>7 DEF AfterFailure
  <2>3. Writes(r)
    BY <1>1, <1>2, <2>1 DEF Writes
  <2>4. \A d \in Destinations : Moves(r, d)
    BY <1>1, <1>7, <2>2, FailMoves
  <2>5. \A q \in Runs : q # r => worker'[q] = worker[q]
    BY <1>7 DEF Fail, IInv, TypeOK
  <2> QED
    BY <1>2, <1>3, <2>1, <2>3, <2>4, <2>5 DEF Step
<1> QED
  BY <1>5, <1>6, <1>7 DEF PushUnacknowledged

(* And a failed commit, a crash and the end of a run.                       *)
LEMMA FailureStep ==
  ASSUME IInv, NEW r \in Runs, CommitFails(r) \/ Crash(r) \/ Finish(r)
  PROVE  Step(r)
<1>1. /\ UNCHANGED <<ledger, clock, wire>> /\ clock' \in Nat /\ clock' >= clock
      /\ worker \in [Runs -> [Destinations -> Worker]]
      /\ mishaps \in [Runs -> SUBSET Mishaps]
  BY DEF CommitFails, Crash, Finish, IInv, TypeOK
<1>2. CASE CommitFails(r)
  <2> DEFINE c == commit[r]
  <2>1. c \in Commit /\ Placed(r, c) /\ Fail(r, c) /\ mishaps' = AfterFailure(r, c, mishaps)
    BY <1>2 DEF CommitFails, IInv, TypeOK, CommitShape, Placed
  <2>2. /\ \A q \in Runs : mishaps[q] \subseteq mishaps'[q]
        /\ c.op = "record" => "receipt" \in mishaps'[r]
    BY <1>1, <2>1 DEF AfterFailure
  <2>3. \A d \in Destinations : Moves(r, d)
    BY <2>1, <2>2, FailMoves
  <2>4. \A q \in Runs : q # r => worker'[q] = worker[q]
    BY <2>1 DEF Fail
  <2> QED
    BY <1>1, <2>2, <2>3, <2>4 DEF Step
<1>3. CASE Crash(r)
  <2>1. /\ \A d \in Destinations : worker'[r][d] = EndedWorker
        /\ \A q \in Runs : q # r => worker'[q] = worker[q]
        /\ \A q \in Runs : mishaps[q] \subseteq mishaps'[q]
        /\ "crash" \in mishaps'[r]
    BY <1>1, <1>3 DEF Crash
  <2> QED
    BY <1>1, <2>1 DEF Step, Moves, Ends
<1>4. CASE Finish(r)
  BY <1>1, <1>4 DEF Finish, Step, Moves
<1> QED
  BY <1>2, <1>3, <1>4

(* And the start of the workers.                                            *)
LEMMA DispatchStep ==
  ASSUME IInv, NEW r \in Runs, Dispatch(r)
  PROVE  Step(r)
<1>1. /\ UNCHANGED <<ledger, clock, wire, mishaps>> /\ clock' \in Nat /\ clock' >= clock
      /\ worker \in [Runs -> [Destinations -> Worker]] /\ stage[r] = "ready"
  <2>1. UNCHANGED <<ledger, clock, wire, mishaps>> /\ stage[r] = "ready"
    BY DEF Dispatch
  <2> QED
    BY <2>1 DEF IInv, TypeOK
<1>2. CASE worker' = worker
  BY <1>1, <1>2 DEF Step, Moves
<1>3. CASE worker' # worker
  <2> DEFINE due(d) == {k \in DueDeliveries(ledger, Now(r)) :
                          DestinationOf(k) = d /\ Policy[OID(r)][d].enabled}
             started(d) == IF due(d) = {} THEN EndedWorker
                           ELSE [NoWorker EXCEPT !.pc = "claim", !.tasks = due(d)]
  <2>1. worker' = [worker EXCEPT ![r] = [d \in Destinations |-> started(d)]]
    BY <1>3 DEF Dispatch
  <2>2. ASSUME NEW d \in Destinations PROVE Starts(r, d)
    <3>1. \A k \in due(d) :
            /\ DestinationOf(k) = d
            /\ k \in Keys /\ ledger.deliveries[k].status \notin Terminal \cup {"absent"}
      BY DEF DueDeliveries, Due
    <3>2. worker'[r][d] = started(d) /\ ledger.revision.oid = OID(r)
      BY <1>1, <1>3, <2>1 DEF Dispatch
    <3> HIDE DEF due
    <3>3. /\ started(d).pc \in {"claim", "end"} /\ started(d).left = {}
          /\ \A k \in Keys : started(d).receipts[k] = None
          /\ started(d).tasks \subseteq due(d)
      BY DEF EndedWorker, NoWorker
    <3> HIDE DEF started
    <3> QED
      BY <1>1, <3>1, <3>2, <3>3 DEF Starts
  <2>3. \A q \in Runs : q # r => worker'[q] = worker[q]
    BY <1>1, <2>1
  <2> QED
    BY <1>1, <2>2, <2>3 DEF Step, Moves
<1> QED
  BY <1>2, <1>3

(* And the turns of a send loop.                                            *)
LEMMA TurnStep ==
  ASSUME IInv, NEW r \in Runs, NEW d \in Destinations,
         StopSending(r, d) \/ \E k \in Keys : NextSend(r, d, k)
  PROVE  Step(r)
<1> DEFINE w == worker[r][d]
<1>1. /\ UNCHANGED <<ledger, clock, wire, mishaps>> /\ clock' \in Nat /\ clock' >= clock
      /\ worker \in [Runs -> [Destinations -> Worker]] /\ w.pc = "send" /\ w \in Worker
  <2>1. UNCHANGED <<ledger, clock, wire, mishaps>> /\ w.pc = "send"
    BY DEF StopSending, NextSend
  <2> QED
    BY <2>1 DEF IInv, TypeOK
<1>2. SUFFICES ASSUME NEW after, worker' = [worker EXCEPT ![r][d] = after],
                      worker'[r][d] = after => Turns(r, d)
               PROVE  Step(r)
  <2>1. CASE StopSending(r, d)
    <3> DEFINE after == [w EXCEPT !.pc = "record"]
    <3>1. worker' = [worker EXCEPT ![r][d] = after]
      BY <1>1, <2>1 DEF StopSending
    <3>2. /\ after.pc = "record" /\ after.tasks = w.tasks
          /\ after.receipts = w.receipts /\ after.left = w.left
      BY <1>1 DEF Worker
    <3> HIDE DEF after
    <3>3. worker'[r][d] = after => Turns(r, d)
      BY <1>1, <3>2 DEF Turns, Sending
    <3> QED
      BY <1>2, <3>1, <3>3
  <2>2. ASSUME NEW k \in Keys, NextSend(r, d, k) PROVE Step(r)
    <3> DEFINE checked == Checked(r, d, w, k, ledger)
               renewing == [w EXCEPT !.pc = "renew", !.current = k]
               after == IF 2 * w.leaseUntil < 2 * Now(r) + ClaimDuration
                        THEN renewing ELSE checked
    <3>1. worker' = [worker EXCEPT ![r][d] = after] /\ k \in w.left
      BY <2>2 DEF NextSend
    <3> HIDE DEF w
    <3>2. /\ renewing.pc = "renew" /\ renewing.tasks = w.tasks
          /\ renewing.receipts = w.receipts /\ renewing.left = w.left
          /\ renewing.leaseUntil = w.leaseUntil /\ renewing.current = k
      BY <1>1 DEF Worker
    <3>3. /\ checked.pc \in {"send", "post", "record"}
          /\ checked.tasks = w.tasks /\ checked.receipts = w.receipts
          /\ checked.left \subseteq w.left /\ checked.leaseUntil = w.leaseUntil
          /\ checked.pc = "post" => /\ checked.left = w.left /\ checked.current = k
                                    /\ ledger.revision.oid = OID(r)
      <4>1. checked = Checked(r, d, w, k, ledger)
        OBVIOUS
      <4>2. w \in Worker
        BY <1>1
      <4> HIDE DEF checked
      <4> QED
        BY <4>1, <4>2, CheckedTurns
    <3>4. after \in {renewing, checked}
      OBVIOUS
    <3> HIDE DEF after, renewing, checked
    <3>5. worker'[r][d] = after => Turns(r, d)
      BY <1>1, <3>1, <3>2, <3>3, <3>4 DEF Turns, Sending, w
    <3> QED
      BY <1>2, <3>1, <3>5
  <2> QED
    BY <2>1, <2>2
<1>3. /\ worker'[r][d] = after
      /\ \A e \in Destinations : e # d => worker'[r][e] = worker[r][e]
      /\ \A q \in Runs : q # r => worker'[q] = worker[q]
  BY <1>1, <1>2
<1> QED
  BY <1>1, <1>2, <1>3 DEF Step, Moves

(* And a POST.                                                              *)
LEMMA SendStep ==
  ASSUME IInv, NEW r \in Runs, NEW d \in Destinations,
         NEW code \in AttemptOutcomes \ {"canceled"}, NEW after \in RetryAfters,
         NEW taken \in BOOLEAN,
         Send(r, d, [code |-> code, retryAfter |-> after], taken)
  PROVE  Step(r)
<1> DEFINE w == worker[r][d]
           result == [code |-> code, retryAfter |-> after]
           v == [w EXCEPT !.pc = "send", !.current = None,
                          !.left = @ \ {w.current},
                          !.receipts[w.current] = result]
<1>1. /\ UNCHANGED <<ledger, clock>> /\ clock' \in Nat /\ clock' >= clock
      /\ worker \in [Runs -> [Destinations -> Worker]] /\ w \in Worker
      /\ mishaps \in [Runs -> SUBSET Mishaps]
      /\ w.pc = "post" /\ w.current \in Keys
  BY DEF Send, IInv, TypeOK, Sound
<1>2. /\ worker' = [worker EXCEPT ![r][d] = v]
      /\ wire' = wire \cup {[run |-> r, key |-> w.current, code |-> code,
                             taken |-> taken, stale |-> ledger.revision.oid # OID(r)]}
      /\ code = "accepted" => taken
      /\ taken /\ code # "accepted" => mishaps' = [mishaps EXCEPT ![r] = @ \cup {"reply"}]
      /\ ~(taken /\ code # "accepted") => mishaps' = mishaps
  BY DEF Send
<1>3. result \in Result /\ result # None /\ result.code = code
  BY RunAssumption, ReceiptAssumption DEF Result
<1>4. /\ \A q \in Runs : mishaps[q] \subseteq mishaps'[q]
      /\ taken /\ code # "accepted" => "reply" \in mishaps'[r]
  BY <1>1, <1>2
<1> HIDE DEF w, result
<1>5. /\ v.pc = "send" /\ v.tasks = w.tasks /\ v.left = w.left \ {w.current}
      /\ v.leaseUntil = w.leaseUntil
      /\ v.receipts[w.current] = result
      /\ \A k \in Keys : k # w.current => v.receipts[k] = w.receipts[k]
  BY <1>1 DEF Worker
<1> HIDE DEF v
<1>6. /\ worker'[r][d] = v
      /\ \A e \in Destinations : e # d => worker'[r][e] = worker[r][e]
      /\ \A q \in Runs : q # r => worker'[q] = worker[q]
  BY <1>1, <1>2
<1>7. Sends(r, d)
  BY <1>1, <1>2, <1>3, <1>4, <1>5, <1>6 DEF Sends, Sent, w
<1> QED
  BY <1>1, <1>4, <1>6, <1>7 DEF Step, Moves

(* Every step is a step of one run, or leaves all but the clock alone.      *)
LEMMA NextSteps ==
  ASSUME IInv, Ordered, [Next]_vars
  PROVE  \/ \E r \in Runs : Step(r)
         \/ /\ UNCHANGED <<ledger, stage, commit, worker, wire, mishaps, faults>>
            /\ clock' \in Nat /\ clock' >= clock
<1>1. IInv'
  BY NextSound
<1>2. ASSUME NEW r \in Runs, Acts(r) PROVE Step(r)
  BY <1>1, <1>2, WriteStep, FailureStep, DispatchStep, TurnStep, SendStep DEF Acts
<1> QED
  BY <1>1, <1>2, StepIs, AttemptStep

-----------------------------------------------------------------------------
(* A batch: its records, its receipts and the posts they stand for. *)

(* What a worker has in hand is of its destination and has a receipt, and   *)
(* every receipt but the one it was claimed with stands for a POST.         *)
Batch(r, d) ==
  LET w == worker[r][d]
  IN /\ \A k \in w.tasks : DestinationOf(k) = d
     /\ \A k \in w.left : w.receipts[k] # None
     /\ w.pc \in {"renew", "post"} => w.current \in w.left
     /\ \A k \in Keys : w.receipts[k] # None =>
          /\ DestinationOf(k) = d
          /\ \/ w.receipts[k].code = "canceled"
             \/ \E v \in wire : /\ v.run = r /\ v.key = k
                                /\ v.code = w.receipts[k].code

Batches == \A r \in Runs, d \in Destinations : Batch(r, d)

(* What a post that was made leaves of its worker and its record.           *)
Posted(v) ==
  LET w == worker[v.run][DestinationOf(v.key)]
  IN /\ w.pc \notin {"off", "claim"}
     /\ v.key \notin w.left
     /\ v.taken /\ v.code # "accepted" => "reply" \in mishaps[v.run]
     /\ v.code = "accepted" =>
          IF w.pc = "end"
          THEN \/ mishaps[v.run] \cap {"crash", "receipt"} # {}
               \/ ledger.deliveries[v.key].status = "delivered"
          ELSE Accepts(w, v.key)

PostsKept == \A v \in wire : Posted(v)

(* Run q may send k, or has an acceptance of it to record, or the receiver  *)
(* has taken it from q.                                                     *)
Involved(q, k) ==
  LET w == worker[q][DestinationOf(k)]
  IN \/ w.pc \in Sending /\ w.receipts[k] # None
     \/ w.pc = "record" /\ Accepts(w, k)
     \/ \E v \in wire : v.run = q /\ v.key = k /\ v.taken

(* Who is involved has the record, unless it is settled or it went wrong.   *)
Owned ==
  \A q \in Runs, k \in Keys : Involved(q, k) =>
     \/ mishaps[q] # {}
     \/ ledger.deliveries[k].status \in Terminal
     \/ /\ ledger.deliveries[k].lease.holder = q
        /\ worker[q][DestinationOf(k)].pc \notin {"off", "end"}

(* Two runs are involved with one delivery only after a mishap of one.      *)
Exclusive ==
  \A q, r \in Runs, k \in Keys :
     q # r /\ Involved(q, k) /\ Involved(r, k) => mishaps[q] \cup mishaps[r] # {}

DInv == Ordered /\ Batches /\ PostsKept /\ Owned /\ Exclusive /\ GivenUpOnlyIfRefused

(* A key names a destination.                                               *)
LEMMA KeyDestination == \A k \in Keys : DestinationOf(k) \in Destinations
BY DEF Keys, DestinationOf

(* What is written is the result of a commit that may be made.              *)
LEMMA WriteEffect ==
  ASSUME IInv, Ordered, NEW r \in Runs, Writes(r)
  PROVE  LET c == commit[r]
         IN /\ c.op \in WorkerOps => c.at <= Now(r)
            /\ c \in Commit /\ Placed(r, c) /\ Movable(r, c) /\ Evident(r, c)
            /\ \A k \in Keys : RecordWritten(r, c, k, ledger'.deliveries[k])
            /\ ledger.anchor # None /\ ledger'.revision.oid = ledger.revision.oid =>
                 \A d \in Destinations : LeaseWritten(r, c, d, ledger'.destinations[d].lease)
            /\ c.op \in {"claim", "renew"} =>
                 /\ ledger.revision.oid = OID(r) /\ ledger'.revision = ledger.revision
                 /\ ledger'.destinations[c.dest].lease =
                      [holder |-> r, until |-> c.at + ClaimDuration]
<1> DEFINE c == commit[r]
<1>1. c \in Commit /\ Placed(r, c) /\ Movable(r, c)
  BY WriteSound DEF Writes
<1>2. Evident(r, c) /\ (c.op \in WorkerOps => c.at <= Now(r))
  BY DEF Ordered, Timely, Writes
<1>3. ledger' = Outcome(r, c)
  BY DEF Writes
<1> HIDE DEF c
<1> QED
  BY <1>1, <1>2, <1>3, OutcomeEffect DEF c

(* No step unsettles a record.                                              *)
LEMMA StepSettled ==
  ASSUME IInv, Ordered, NEW r \in Runs, Step(r), NEW k \in Keys
  PROVE  Settled(ledger.deliveries[k], ledger'.deliveries[k])
<1>1. CASE ledger' = ledger
  BY <1>1 DEF Settled
<1>2. CASE Writes(r)
  <2>1. RecordWritten(r, commit[r], k, ledger'.deliveries[k])
    BY <1>2, WriteEffect
  <2> QED
    BY <2>1 DEF RecordWritten, Quiet, Answered, Settled, Terminal
<1> QED
  BY <1>1, <1>2 DEF Step

(* A POST is recorded and its worker goes back to its send loop.            *)
LEMMA SendsEffect ==
  ASSUME NEW r, NEW d, Sends(r, d)
  PROVE  worker[r][d].pc = "post" /\ worker'[r][d].pc = "send" /\ wire \subseteq wire'
<1> DEFINE w == worker[r][d]
           v == worker'[r][d]
<1>1. PICK code \in AttemptOutcomes \ {"canceled"}, taken \in BOOLEAN :
        Sent(r, w, v, code, taken)
  BY DEF Sends
<1> HIDE DEF w, v
<1>2. w.pc = "post" /\ v.pc = "send" /\ wire \subseteq wire'
  BY <1>1 DEF Sent
<1> QED
  BY <1>2 DEF w, v

(* What was posted stays posted, and what is new was just sent.             *)
LEMMA StepWire ==
  ASSUME NEW r, Step(r)
  PROVE  wire \subseteq wire'
BY SendsEffect DEF Step

(* The records a claim takes are tasks of its worker.                       *)
LEMMA ClaimedTasks ==
  ASSUME IInv, Batches, NEW r \in Runs, Writes(r), commit[r].op = "claim",
         NEW k \in ClaimedBy(r, commit[r])
  PROVE  /\ k \in Keys /\ commit[r].dest \in Destinations
         /\ DestinationOf(k) = commit[r].dest
         /\ worker[r][commit[r].dest].pc = "claim"
<1>1. /\ commit[r].dest \in Destinations
      /\ worker[r][commit[r].dest].pc = "claim"
      /\ worker[r][commit[r].dest] \in Worker
  BY DEF IInv, TypeOK, CommitShape, WorkerOps
<1>2. k \in worker[r][commit[r].dest].tasks
  BY DEF ClaimedBy, Claimable
<1> QED
  BY <1>1, <1>2 DEF Batches, Batch, Worker

(* What holds of the batch of one worker.                                   *)
LEMMA BatchHolds ==
  ASSUME DInv, NEW r \in Runs, NEW d \in Destinations
  PROVE  Batch(r, d)
BY DEF DInv, Batches

(* The key a worker renews or posts is left of its batch, with a receipt.   *)
LEMMA BatchCurrent ==
  ASSUME DInv, NEW r \in Runs, NEW d \in Destinations,
         worker[r][d].pc \in {"renew", "post"}
  PROVE  /\ worker[r][d].current \in worker[r][d].left
         /\ worker[r][d].receipts[worker[r][d].current] # None
BY BatchHolds DEF Batch

(* A receipt is of a key of its destination, and of a POST on the wire       *)
(* unless the run was canceled.                                             *)
LEMMA BatchReceipts ==
  ASSUME DInv, NEW r \in Runs, NEW d \in Destinations, NEW k \in Keys,
         NEW w, w = worker[r][d], NEW receipt, receipt = w.receipts[k], receipt # None
  PROVE  /\ DestinationOf(k) = d
         /\ \/ receipt.code = "canceled"
            \/ \E v \in wire : v.run = r /\ v.key = k /\ v.code = receipt.code
BY BatchHolds DEF Batch

(* A step keeps every batch in order.                                       *)
LEMMA StepBatches ==
  ASSUME IInv, IInv', DInv, NEW r \in Runs, Step(r)
  PROVE  Batches'
<1> SUFFICES ASSUME NEW q \in Runs, NEW d \in Destinations PROVE Batch(q, d)'
  BY DEF Batches
<1> DEFINE w == worker[q][d]
           v == worker'[q][d]
<1>1. Batch(q, d) /\ wire \subseteq wire' /\ w \in Worker /\ v \in Worker
  BY StepWire DEF DInv, Batches, IInv, TypeOK
<1>2. CASE v = w
  BY <1>1, <1>2 DEF Batch
<1>3. CASE q = r /\ Starts(r, d)
  BY <1>3 DEF Starts, Batch
<1>4. CASE q = r /\ Ends(r, d)
  BY <1>4 DEF Ends, Batch, EndedWorker, NoWorker
<1>5. CASE q = r /\ Takes(r, d)
  <2>1. \A k \in ClaimedBy(r, commit[r]) : k \in Keys /\ DestinationOf(k) = d
    BY <1>5, ClaimedTasks DEF Takes, DInv
  <2>2. Canceled # None /\ Canceled.code = "canceled"
    BY ReceiptAssumption DEF Canceled, Result, AttemptOutcomes, Transient
  <2> QED
    BY <1>1, <1>5, <2>1, <2>2 DEF Takes, Batch
<1>6. CASE q = r /\ Turns(r, d)
  BY <1>1, <1>6 DEF Turns, Batch
<1>7. CASE q = r /\ Sends(r, d)
  <2>a. PICK code \in AttemptOutcomes \ {"canceled"}, taken \in BOOLEAN :
          Sent(r, w, v, code, taken)
    BY <1>7 DEF Sends
  <2> HIDE DEF w, v
  <2>1. /\ w.pc = "post" /\ v.pc = "send"
        /\ wire' = wire \cup {[run |-> r, key |-> w.current, code |-> code,
                              taken |-> taken, stale |-> ledger.revision.oid # OID(r)]}
        /\ v.tasks = w.tasks /\ v.left = w.left \ {w.current}
        /\ v.receipts[w.current] # None /\ v.receipts[w.current].code = code
        /\ \A k \in Keys : k # w.current => v.receipts[k] = w.receipts[k]
    BY <2>a DEF Sent
  <2>2. w.current \in w.left /\ w.current \in Keys /\ w.left \subseteq Keys
    BY <1>1, <1>7, <2>1, BatchCurrent DEF Worker, w
  <2>3. \E p \in wire' : p.run = r /\ p.key = w.current /\ p.code = code
    <3> DEFINE post == [run |-> r, key |-> w.current, code |-> code,
                        taken |-> taken, stale |-> ledger.revision.oid # OID(r)]
    <3>1. post \in wire' /\ post.run = r /\ post.key = w.current /\ post.code = code
      BY <2>1
    <3> QED
      BY <3>1
  <2>4. \A k \in Keys : v.receipts[k] # None =>
          /\ DestinationOf(k) = d
          /\ \/ v.receipts[k].code = "canceled"
             \/ \E p \in wire' : p.run = r /\ p.key = k /\ p.code = v.receipts[k].code
    <3> SUFFICES ASSUME NEW k \in Keys, v.receipts[k] # None
                 PROVE  /\ DestinationOf(k) = d
                        /\ \/ v.receipts[k].code = "canceled"
                           \/ \E p \in wire' : /\ p.run = r /\ p.key = k
                                               /\ p.code = v.receipts[k].code
      OBVIOUS
    <3>1. w = worker[r][d]
      BY <1>7 DEF w
    <3>2. CASE k = w.current
      <4>1. DestinationOf(k) = d
        BY <1>7, <2>1, <3>1, <3>2, BatchCurrent, BatchReceipts
      <4> QED
        BY <2>1, <2>3, <3>2, <4>1
    <3>3. CASE k # w.current
      <4> DEFINE receipt == w.receipts[k]
      <4>1. v.receipts[k] = receipt
        BY <2>1, <3>3
      <4>2. receipt # None
        BY <4>1
      <4> HIDE DEF receipt
      <4>3. /\ DestinationOf(k) = d
            /\ \/ receipt.code = "canceled"
               \/ \E p \in wire : p.run = r /\ p.key = k /\ p.code = receipt.code
        BY <1>7, <3>1, <4>2, BatchReceipts DEF receipt
      <4> QED
        BY <1>1, <4>1, <4>3
    <3> QED
      BY <3>2, <3>3
  <2>5. \A k \in v.left : v.receipts[k] # None
    BY <1>1, <2>1, <2>2 DEF Batch, w
  <2>6. \A k \in v.tasks : DestinationOf(k) = d
    BY <1>1, <2>1 DEF Batch, w
  <2> QED
    BY <1>7, <2>1, <2>4, <2>5, <2>6 DEF Batch, v
<1> QED
  BY <1>2, <1>3, <1>4, <1>5, <1>6, <1>7 DEF Step, Moves

(* A step keeps what is known of an earlier post.                           *)
LEMMA StepOldPost ==
  ASSUME IInv, IInv', DInv, NEW r \in Runs, Step(r), NEW p \in wire
  PROVE  Posted(p)'
<1> DEFINE q == p.run
           k == p.key
           d == DestinationOf(k)
           w == worker[q][d]
           v == worker'[q][d]
<1>1. /\ q \in Runs /\ k \in Keys /\ d \in Destinations
      /\ w \in Worker /\ v \in Worker
  BY KeyDestination DEF IInv, TypeOK, Post
<1>2. /\ w.pc \notin {"off", "claim"} /\ k \notin w.left
      /\ p.taken /\ p.code # "accepted" => "reply" \in mishaps[q]
      /\ p.code = "accepted" =>
           IF w.pc = "end"
           THEN \/ mishaps[q] \cap {"crash", "receipt"} # {}
                \/ ledger.deliveries[k].status = "delivered"
           ELSE Accepts(w, k)
  BY DEF DInv, PostsKept, Posted
<1>3. /\ mishaps[q] \subseteq mishaps'[q]
      /\ ledger.deliveries[k].status = "delivered" =>
           ledger'.deliveries[k].status = "delivered"
  BY <1>1, StepSettled DEF Step, DInv, Settled
<1>4. SUFFICES /\ v.pc \notin {"off", "claim"} /\ k \notin v.left
               /\ p.code = "accepted" =>
                    IF v.pc = "end"
                    THEN \/ mishaps'[q] \cap {"crash", "receipt"} # {}
                         \/ ledger'.deliveries[k].status = "delivered"
                    ELSE Accepts(v, k)
  BY <1>2, <1>3 DEF Posted, Accepts
<1>5. w = worker[q][d] /\ v = worker'[q][d] /\ d = DestinationOf(k)
  OBVIOUS
<1> HIDE DEF q, k, d, w, v
<1>6. CASE v = w
  BY <1>2, <1>3, <1>6
<1>7. CASE q = r /\ Starts(r, d)
  <2>1. w.pc = "off"
    BY <1>5, <1>1, <1>7 DEF Starts, DInv, Ordered, Phase, Early
  <2> QED
    BY <1>2, <2>1
<1>8. CASE q = r /\ Ends(r, d)
  <2>1. v.pc = "end" /\ v.left = {}
    BY <1>5, <1>8 DEF Ends, EndedWorker, NoWorker
  <2> QED
    BY <1>5, <1>1, <1>2, <1>8, <2>1 DEF Ends
<1>9. CASE q = r /\ Takes(r, d)
  BY <1>5, <1>2, <1>9 DEF Takes
<1>10. CASE q = r /\ Turns(r, d)
  BY <1>5, <1>2, <1>10 DEF Turns, Sending, Accepts
<1>11. CASE q = r /\ Sends(r, d)
  <2>1. w.current \in w.left
    BY <1>5, <1>1, <1>11, BatchCurrent DEF Sends, Sent
  <2>2. k # w.current
    BY <1>2, <2>1
  <2> QED
    BY <1>5, <1>1, <1>2, <1>11, <2>2 DEF Sends, Sent, Accepts
<1> QED
  BY <1>5, <1>1, <1>6, <1>7, <1>8, <1>9, <1>10, <1>11 DEF Step, Moves

(* A new post has its receipt.                                              *)
LEMMA StepNewPost ==
  ASSUME IInv, IInv', DInv, NEW r \in Runs, Step(r), NEW p \in wire', p \notin wire
  PROVE  /\ Posted(p)'
         /\ p.run = r /\ p.key \in Keys
         /\ p.taken => Involved(r, p.key)
<1>1. PICK d \in Destinations : Sends(r, d)
  BY DEF Step
<1> DEFINE w == worker[r][d]
           v == worker'[r][d]
<1>2. PICK code \in AttemptOutcomes \ {"canceled"}, taken \in BOOLEAN :
        /\ w.pc = "post" /\ v.pc = "send"
        /\ p = [run |-> r, key |-> w.current, code |-> code,
                taken |-> taken, stale |-> ledger.revision.oid # OID(r)]
        /\ v.left = w.left \ {w.current}
        /\ v.receipts[w.current] # None /\ v.receipts[w.current].code = code
        /\ taken /\ code # "accepted" => "reply" \in mishaps'[r]
  <2>1. PICK code \in AttemptOutcomes \ {"canceled"}, taken \in BOOLEAN :
          Sent(r, w, v, code, taken)
    BY <1>1 DEF Sends
  <2> HIDE DEF w, v
  <2> QED
    BY <2>1 DEF Sent
<1>3. /\ p.run = r /\ p.key = w.current /\ p.code = code /\ p.taken = taken
  BY <1>2
<1>4. /\ w.current \in Keys /\ w.receipts[w.current] # None
      /\ DestinationOf(w.current) = d
  <2>1. Sound(w) /\ Batch(r, d)
    BY DEF IInv, DInv, Batches
  <2>2. w.current \in w.left /\ w.left \subseteq Keys
    BY <1>2, <2>1 DEF Batch, Sound, Worker
  <2> QED
    BY <2>1, <2>2 DEF Batch
<1>5. Posted(p)'
  <2>1. v.pc = "send" /\ p.key \notin v.left
    BY <1>2, <1>3
  <2>2. taken /\ code # "accepted" => "reply" \in mishaps'[p.run]
    BY <1>2, <1>3
  <2>3. code = "accepted" => Accepts(v, p.key)
    BY <1>2, <1>3 DEF Accepts
  <2>4. v = worker'[p.run][DestinationOf(p.key)]
    BY <1>3, <1>4
  <2> HIDE DEF w, v
  <2> QED
    BY <1>3, <2>1, <2>2, <2>3, <2>4 DEF Posted
<1>6. Involved(r, p.key)
  BY <1>2, <1>3, <1>4 DEF Involved, Sending
<1> QED
  BY <1>3, <1>4, <1>5, <1>6

(* Who is involved after a step was before, or has just claimed.            *)
LEMMA StepInvolves ==
  ASSUME IInv, IInv', DInv, NEW r \in Runs, Step(r), NEW q \in Runs, NEW k \in Keys,
         Involved(q, k)'
  PROVE  \/ Involved(q, k)
         \/ /\ q = r /\ Takes(r, DestinationOf(k))
            /\ k \in ClaimedBy(r, commit[r])
<1> DEFINE d == DestinationOf(k)
           w == worker[q][d]
           v == worker'[q][d]
<1>1. /\ d \in Destinations /\ w \in Worker /\ v \in Worker
  BY KeyDestination DEF IInv, TypeOK
<1>2. CASE \E p \in wire' : p.run = q /\ p.key = k /\ p.taken
  <2>1. PICK p \in wire' : p.run = q /\ p.key = k /\ p.taken
    BY <1>2
  <2>2. CASE p \in wire
    BY <2>1, <2>2 DEF Involved
  <2>3. CASE p \notin wire
    BY <2>1, <2>3, StepNewPost
  <2> QED
    BY <2>2, <2>3
<1>3. CASE \/ v.pc \in Sending /\ v.receipts[k] # None
           \/ v.pc = "record" /\ Accepts(v, k)
  <2>1. CASE v = w
    BY <1>3, <2>1 DEF Involved
  <2>2. CASE q = r /\ Starts(r, d)
    BY <1>3, <2>2 DEF Starts, Sending
  <2>3. CASE q = r /\ Ends(r, d)
    BY <1>3, <2>3 DEF Ends, EndedWorker, NoWorker, Sending
  <2>4. CASE q = r /\ Takes(r, d)
    BY <1>3, <2>4 DEF Takes, Accepts
  <2>5. CASE q = r /\ Turns(r, d)
    BY <1>3, <2>5 DEF Turns, Involved, Sending, Accepts
  <2>6. CASE q = r /\ Sends(r, d)
    <3>1. w.current \in w.left /\ w.receipts[w.current] # None /\ w.pc = "post" /\ v.pc = "send"
      BY <1>1, <2>6, BatchCurrent DEF Sends, Sent
    <3>2. w.receipts[k] # None
      BY <1>3, <2>6, <3>1 DEF Sends, Sent
    <3> QED
      BY <3>1, <3>2 DEF Involved, Sending
  <2> QED
    BY <1>1, <2>1, <2>2, <2>3, <2>4, <2>5, <2>6 DEF Step, Moves
<1> QED
  BY <1>2, <1>3 DEF Involved

(* A claim reveals the overrun of whoever held the records it takes.        *)
LEMMA TakenFrom ==
  ASSUME IInv, DInv, NEW r \in Runs, Writes(r), commit[r].op = "claim",
         NEW k \in ClaimedBy(r, commit[r]), NEW q \in Runs, q # r, Involved(q, k)
  PROVE  mishaps'[q] # {}
<1> DEFINE c == commit[r]
<1>1. /\ k \in Keys /\ DestinationOf(k) = c.dest
      /\ RecordWritten(r, c, k, ledger'.deliveries[k])
  BY ClaimedTasks, WriteEffect DEF DInv
<1>2. ledger.deliveries[k].status \notin Terminal
  BY <1>1 DEF RecordWritten
<1>3. \/ mishaps[q] # {}
      \/ /\ ledger.deliveries[k].lease.holder = q
         /\ worker[q][c.dest].pc \notin {"off", "end"}
  BY <1>1, <1>2 DEF DInv, Owned
<1>4. mishaps[q] \subseteq Noted(r, c)[q] /\ Noted(r, c)[q] \subseteq mishaps'[q]
  BY NotedKeeps DEF Writes
<1>5. CASE mishaps[q] # {}
  BY <1>4, <1>5
<1>6. CASE /\ ledger.deliveries[k].lease.holder = q
           /\ worker[q][c.dest].pc \notin {"off", "end"}
  <2>1. "overrun" \in Noted(r, c)[q]
    BY <1>6 DEF Noted, Superseded
  <2> QED
    BY <1>4, <2>1
<1> QED
  BY <1>3, <1>5, <1>6

(* A step keeps the ownership of a delivery.                                *)
LEMMA StepOwned ==
  ASSUME IInv, IInv', DInv, NEW r \in Runs, Step(r)
  PROVE  Owned'
<1> SUFFICES ASSUME NEW q \in Runs, NEW k \in Keys, Involved(q, k)',
                    mishaps'[q] = {}, ledger'.deliveries[k].status \notin Terminal
             PROVE  /\ ledger'.deliveries[k].lease.holder = q
                    /\ worker'[q][DestinationOf(k)].pc \notin {"off", "end"}
  BY DEF Owned
<1> DEFINE d == DestinationOf(k)
           w == worker[q][d]
           v == worker'[q][d]
           c == commit[r]
<1>1. /\ d \in Destinations /\ w \in Worker /\ v \in Worker
      /\ mishaps[q] \subseteq mishaps'[q]
  BY KeyDestination DEF IInv, TypeOK, Step
<1>2. mishaps[q] = {} /\ ledger.deliveries[k].status \notin Terminal
  BY <1>1, StepSettled DEF Settled, DInv
<1>3. CASE ~Involved(q, k)
  <2>1. q = r /\ Takes(r, d) /\ k \in ClaimedBy(r, c)
    BY <1>3, StepInvolves
  <2>2. RecordWritten(r, c, k, ledger'.deliveries[k])
    BY <2>1, WriteEffect DEF Takes, DInv
  <2> QED
    BY <2>1, <2>2 DEF Takes, RecordWritten
<1>4. CASE Involved(q, k)
  <2>1. ledger.deliveries[k].lease.holder = q /\ w.pc \notin {"off", "end"}
    BY <1>2, <1>4 DEF DInv, Owned
  <2>2. q \in ledger.deliveries[k].attemptIDs
    BY <1>1, <1>4 DEF Involved, Accepts, IInv, WorkersClaimed, Holds, PostsAreClaimed
  <2>3. ledger.deliveries[k].status # "absent"
    BY <2>2 DEF IInv, AbsentUntouched
  <2>4. \A p \in wire : p.run = q /\ p.key = k /\ p.taken => p.code = "accepted"
    BY <1>1, <1>2 DEF DInv, PostsKept, Posted
  <2>5. w.pc # "claim"
    <3>1. \A p \in wire : p.run = q /\ p.key = k => w.pc # "claim"
      BY DEF DInv, PostsKept, Posted
    <3> QED
      BY <1>4, <3>1 DEF Involved, Sending
  <2>6. w.pc = "record" => Accepts(w, k)
    <3>1. \A p \in wire : p.run = q /\ p.key = k /\ p.taken =>
            w.pc = "end" \/ Accepts(w, k)
      BY <2>4 DEF DInv, PostsKept, Posted
    <3> QED
      BY <1>4, <2>1, <3>1 DEF Involved, Sending
  <2>7. v.pc \notin {"off", "end"}
    <3>1. CASE v = w
      BY <2>1, <3>1
    <3>2. CASE q = r /\ Starts(r, d)
      BY <1>1, <2>1, <3>2 DEF Starts, DInv, Ordered, Phase, Early
    <3>3. CASE q = r /\ Ends(r, d)
      <4>1. w.pc = "record" /\ (Accepts(w, k) => ledger'.deliveries[k].status = "delivered")
        BY <2>5, <3>3 DEF Ends
      <4> QED
        BY <2>6, <4>1 DEF Terminal
    <3>4. CASE q = r /\ (Takes(r, d) \/ Turns(r, d) \/ Sends(r, d))
      BY <3>4, SendsEffect DEF Takes, Turns, Sending
    <3> QED
      BY <1>1, <3>1, <3>2, <3>3, <3>4 DEF Step, Moves
  <2>8. ledger'.deliveries[k].lease.holder = q
    <3>1. CASE ledger' = ledger
      BY <2>1, <3>1
    <3>2. CASE Writes(r)
      <4>1. RecordWritten(r, c, k, ledger'.deliveries[k])
        BY <3>2, WriteEffect DEF DInv
      <4>2. CASE c.op = "claim" /\ k \in ClaimedBy(r, c)
        <5>1. q = r
          BY <1>4, <3>2, <4>2, TakenFrom
        <5>2. w.pc = "claim"
          BY <3>2, <4>2, <5>1, ClaimedTasks DEF DInv
        <5> QED
          BY <2>5, <5>2
      <4>3. CASE c.op = "record" /\ worker[r][c.dest].receipts[k] # None
        <5> DEFINE receipt == worker[r][c.dest].receipts[k]
        <5>1. Answered(ledger.deliveries[k], r, receipt.code, ledger'.deliveries[k])
          BY <4>1, <4>3 DEF RecordWritten
        <5>2. c.dest \in Destinations /\ worker[r][c.dest].pc = "record"
          BY <4>3 DEF IInv, CommitShape, WorkerOps
        <5>3. c.dest = d
          BY <4>3, <5>2, BatchReceipts
        <5>4. q = r => receipt.code = "accepted"
          BY <2>6, <5>2, <5>3 DEF Accepts
        <5>5. ledger.deliveries[k].lease.holder # r \/ receipt.code = "accepted"
          BY <2>1, <5>4
        <5> QED
          BY <2>1, <5>1, <5>5 DEF Answered, Terminal
      <4>4. CASE Quiet(ledger.deliveries[k], ledger'.deliveries[k])
        BY <2>1, <2>3, <4>4 DEF Quiet
      <4> QED
        BY <4>1, <4>2, <4>3, <4>4 DEF RecordWritten
    <3> QED
      BY <3>1, <3>2 DEF Step
  <2> QED
    BY <2>7, <2>8
<1> QED
  BY <1>3, <1>4

(* A step keeps one run in charge of each delivery.                         *)
LEMMA StepExclusive ==
  ASSUME IInv, IInv', DInv, NEW r \in Runs, Step(r)
  PROVE  Exclusive'
<1>1. ASSUME NEW p \in Runs, NEW q \in Runs, p # q, NEW k \in Keys,
             Involved(p, k)', Involved(q, k)', ~Involved(p, k)
      PROVE  mishaps'[q] # {}
  <2>1. p = r /\ Takes(r, DestinationOf(k)) /\ k \in ClaimedBy(r, commit[r])
    BY <1>1, StepInvolves
  <2>2. Involved(q, k)
    BY <1>1, <2>1, StepInvolves
  <2> QED
    BY <1>1, <2>1, <2>2, TakenFrom DEF Takes
<1>2. ASSUME NEW p \in Runs, NEW q \in Runs, p # q, NEW k \in Keys,
             Involved(p, k)', Involved(q, k)'
      PROVE  mishaps'[p] \cup mishaps'[q] # {}
  <2>1. CASE Involved(p, k) /\ Involved(q, k)
    <3>1. mishaps[p] \cup mishaps[q] # {}
      BY <1>2, <2>1 DEF DInv, Exclusive
    <3> QED
      BY <3>1 DEF Step
  <2>2. CASE ~Involved(p, k)
    BY <1>1, <1>2, <2>2
  <2>3. CASE ~Involved(q, k)
    BY <1>1, <1>2, <2>3
  <2> QED
    BY <2>1, <2>2, <2>3
<1> QED
  BY <1>2 DEF Exclusive

(* A step gives a delivery up only with the refusal in hand.                *)
LEMMA StepGivesUp ==
  ASSUME IInv, IInv', DInv, NEW r \in Runs, Step(r)
  PROVE  GivenUpOnlyIfRefused'
<1> DEFINE Refused(w, k) ==
             w.key = k /\ w.code \in AttemptOutcomes \ (Transient \cup {"accepted"})
<1>1. SUFFICES ASSUME NEW k \in Keys, GivenUp(ledger'.deliveries[k])
               PROVE  \E w \in wire' : /\ Refused(w, k)
                                       /\ ledger'.deliveries[k].code = "abandoned" =>
                                            ledger'.deliveries[k].attempts >= MaxAttempts
  BY DEF GivenUpOnlyIfRefused, GivenUp
<1> DEFINE before == ledger.deliveries[k]
           after == ledger'.deliveries[k]
           c == commit[r]
<1>2. wire \subseteq wire'
  BY StepWire
<1>3. CASE GivenUp(before) /\ after.code = before.code /\ after.attempts = before.attempts
  <2>1. PICK w \in wire : Refused(w, k) /\ (before.code = "abandoned" =>
                                               before.attempts >= MaxAttempts)
    <3>1. GivenUpOnlyIfRefused
      BY DEF DInv
    <3>2. before.status = "skipped" /\ before.code # "subscription-retired"
      BY <1>3 DEF GivenUp
    <3> HIDE DEF before
    <3> QED
      BY <3>1, <3>2 DEF GivenUpOnlyIfRefused, before
  <2> QED
    BY <1>2, <1>3, <2>1
<1>4. CASE ~(GivenUp(before) /\ after.code = before.code /\ after.attempts = before.attempts)
  <2>1. Writes(r)
    BY <1>1, <1>4 DEF Step
  <2>2. RecordWritten(r, c, k, after)
    BY <2>1, WriteEffect DEF DInv
  <2>3. /\ c.op = "record" /\ worker[r][c.dest].receipts[k] # None
        /\ Answered(before, r, worker[r][c.dest].receipts[k].code, after)
    BY <1>1, <1>4, <2>2 DEF RecordWritten, Quiet, GivenUp
  <2> DEFINE receipt == worker[r][c.dest].receipts[k]
  <2>4. /\ receipt.code \in AttemptOutcomes \ (Transient \cup {"accepted"})
        /\ after.code = "abandoned" => after.attempts >= MaxAttempts
    BY <1>1, <1>4, <2>3 DEF Answered
  <2>5. c.dest \in Destinations
    BY <2>3 DEF IInv, CommitShape, WorkerOps
  <2>6. receipt.code # "canceled"
    BY <2>4 DEF Transient
  <2>7. PICK p \in wire : p.run = r /\ p.key = k /\ p.code = receipt.code
    <3> DEFINE w == worker[r][c.dest]
    <3>1. w = worker[r][c.dest] /\ receipt = w.receipts[k] /\ receipt # None
      BY <2>3
    <3> HIDE DEF receipt, w, c
    <3> QED
      BY <2>5, <2>6, <3>1, BatchReceipts
  <2> QED
    BY <1>2, <2>4, <2>7
<1> QED
  BY <1>3, <1>4

-----------------------------------------------------------------------------
(* The deliveries of a specification. *)

(* A step keeps what is known of every post.                                *)
LEMMA StepPosts ==
  ASSUME IInv, IInv', DInv, NEW r \in Runs, Step(r)
  PROVE  PostsKept'
<1> SUFFICES ASSUME NEW p \in wire' PROVE Posted(p)'
  BY DEF PostsKept
<1>1. CASE p \in wire
  BY <1>1, StepOldPost
<1>2. CASE p \notin wire
  BY <1>2, StepNewPost
<1> QED
  BY <1>1, <1>2

(* Nothing the delivery invariant reads but Ordered depends on the clock.   *)
LEMMA DeliveryFrame ==
  ASSUME DInv, Ordered', UNCHANGED <<ledger, stage, commit, worker, wire, mishaps>>
  PROVE  DInv'
<1>1. Batches'
  BY DEF DInv, Batches, Batch
<1>2. PostsKept'
  BY DEF DInv, PostsKept, Posted, Accepts
<1>3. Owned' /\ Exclusive'
  BY DEF DInv, Owned, Exclusive, Involved, Accepts
<1>4. GivenUpOnlyIfRefused'
  BY DEF DInv, GivenUpOnlyIfRefused
<1> QED
  BY <1>1, <1>2, <1>3, <1>4 DEF DInv

(* Every step keeps the delivery invariant.                                 *)
LEMMA NextDelivers == IInv /\ DInv /\ [Next]_vars => DInv'
<1> SUFFICES ASSUME IInv, DInv, [Next]_vars PROVE DInv'
  OBVIOUS
<1>1. IInv' /\ Ordered'
  BY NextSound, NextOrdered DEF DInv
<1>2. CASE \E r \in Runs : Step(r)
  <2>1. PICK r \in Runs : Step(r)
    BY <1>2
  <2> QED
    BY <1>1, <2>1, StepBatches, StepPosts, StepOwned, StepExclusive, StepGivesUp DEF DInv
<1>3. CASE UNCHANGED <<ledger, stage, commit, worker, wire, mishaps>>
  BY <1>1, <1>3, DeliveryFrame
<1> QED
  BY <1>2, <1>3, NextSteps DEF DInv

(* Nothing is delivered at first.                                           *)
LEMMA InitDelivers == Init => DInv
<1> SUFFICES ASSUME Init PROVE DInv
  OBVIOUS
<1>1. Ordered
  BY InitOrdered
<1>2. /\ wire = {}
      /\ \A r \in Runs, d \in Destinations : worker[r][d] = NoWorker
  BY DEF Init
<1>3. Batches
  BY <1>2 DEF Batches, Batch, NoWorker
<1>4. \A q \in Runs, k \in Keys : ~Involved(q, k)
  BY <1>2, KeyDestination DEF Involved, NoWorker, Sending
<1>5. GivenUpOnlyIfRefused
  BY DEF Init, AbsentLedger, NoRecord, GivenUpOnlyIfRefused
<1> QED
  BY <1>1, <1>2, <1>3, <1>4, <1>5 DEF DInv, PostsKept, Owned, Exclusive

(* The delivery invariant holds in every reachable state.                   *)
LEMMA Delivers == Spec => [](IInv /\ DInv)
<1>1. Init => IInv /\ DInv
  BY InitSound, InitDelivers
<1>2. IInv /\ DInv /\ [Next]_vars => (IInv /\ DInv)'
  BY NextSound, NextDelivers
<1> QED
  BY <1>1, <1>2, PTL DEF Spec

(* A receiver takes a delivery from two runs only after a mishap of one of  *)
(* them: the claim, the lease on the record and the receipt written at the  *)
(* end of a batch keep one run at a time in charge of it (Claim, Send and   *)
(* RecordReceipts of notification_delivery.go).                             *)
THEOREM TakenOnce == Spec => []TakenOnceUnlessMishap
<1>1. IInv /\ DInv => TakenOnceUnlessMishap
  BY DEF IInv, TypeOK, Post, DInv, Exclusive, Involved, TakenOnceUnlessMishap
<1> QED
  BY <1>1, Delivers, PTL

(* An acceptance that was seen is never lost: when its worker has ended     *)
(* with its receipts written the record is delivered, for good.             *)
THEOREM AcceptanceKept == Spec => []SuccessWins
<1>1. DInv => SuccessWins
  BY DEF DInv, PostsKept, Posted, SuccessWins
<1> QED
  BY <1>1, Delivers, PTL

(* A delivery is abandoned or skipped as a permanent failure only after a   *)
(* receiver refused it; no number of canceled attempts and network failures *)
(* gives it up.                                                             *)
THEOREM GivenUpRefused == Spec => []GivenUpOnlyIfRefused
<1>1. DInv => GivenUpOnlyIfRefused
  BY DEF DInv
<1> QED
  BY <1>1, Delivers, PTL

-----------------------------------------------------------------------------
(* Fences: the lease of a destination, and the posts of an old policy. *)

(* Some clock says that the lease p sends under has run out.                *)
Expired(p, d) == \E s \in Runs : Now(s) >= worker[p][d].leaseUntil

(* Unless a reset may have brought its commit back, a run that sends under  *)
(* the accepted policy holds the destination until its lease runs out, and  *)
(* once the policy has left its commit it stays away.                       *)
Fence(p, d) ==
  LET w == worker[p][d]
      lease == ledger.destinations[d].lease
  IN w.pc \in {"send", "post"} =>
       /\ ledger.anchor # None
       /\ Reinstated(p) = {} =>
            \/ ~Leads(ledger.revision.oid, p)
            \/ /\ ledger.revision.oid = OID(p)
               /\ Expired(p, d) \/ (lease.holder = p /\ lease.until >= w.leaseUntil)

StaleAt(r, d) == {w \in wire : w.run = r /\ w.stale /\ DestinationOf(w.key) = d}

(* The stale posts of a worker are paid for: by the one reading of the      *)
(* policy that it may have outlived, and by the resets that brought it back.*)
Stale(p, d) ==
  LET n == Cardinality(Reinstated(p))
      s == Cardinality(StaleAt(p, d))
  IN IF worker[p][d].pc = "post"
     THEN /\ s <= n
          /\ Leads(ledger.revision.oid, p) /\ ledger.revision.oid # OID(p) => s <= n - 1
     ELSE /\ s <= n + 1
          /\ Leads(ledger.revision.oid, p) => s <= n

FInv ==
  /\ IsFiniteSet(wire)
  /\ \A p \in Runs, d \in Destinations : Fence(p, d) /\ Stale(p, d)

(* The overrides of a ledger are a sequence, so those that matter to a run  *)
(* are finitely many.                                                       *)
LEMMA ReinstatedFinite ==
  ASSUME NEW overrides \in Seq(Override), NEW p
  PROVE  LET R == {i \in DOMAIN overrides : Leads(overrides[i].accepted, p)}
         IN IsFiniteSet(R) /\ Cardinality(R) \in Nat
<1> DEFINE R == {i \in DOMAIN overrides : Leads(overrides[i].accepted, p)}
<1>1. R \subseteq 1..Len(overrides) /\ Len(overrides) \in Nat
  OBVIOUS
<1>2. IsFiniteSet(1..Len(overrides))
  BY <1>1, FS_Interval
<1> HIDE DEF R
<1>3. IsFiniteSet(R) /\ Cardinality(R) \in Nat
  BY <1>1, <1>2, FS_Subset, FS_CardinalityType
<1> QED
  BY <1>3 DEF R

(* What a write does to the accepted policy and to its audit trail.         *)
LEMMA PolicyWritten ==
  ASSUME IInv, Ordered, NEW r \in Runs, Writes(r), ledger.anchor # None
  PROVE  /\ ledger'.anchor # None
         /\ \/ /\ ledger'.revision.oid = ledger.revision.oid
               /\ ledger'.overrides = ledger.overrides
            \/ /\ <<ledger.revision.oid, ledger'.revision.oid>> \in Ancestry
               /\ ledger'.overrides = ledger.overrides
            \/ ledger'.overrides = Append(ledger.overrides,
                 [prior |-> ledger.revision.oid, accepted |-> ledger'.revision.oid])
<1> DEFINE c == commit[r]
<1>1. c \in Commit /\ Placed(r, c) /\ Movable(r, c) /\ ledger' = Outcome(r, c)
  BY WriteEffect DEF Writes
<1> HIDE DEF c
<1>2. CASE c.op = "activate"
  BY <1>1, <1>2, ActivateOutcome DEF Movable, OID
<1>3. CASE c.op = "reset"
  <2>1. /\ ledger'.anchor = ledger.anchor /\ ledger'.revision = RunRevision[r]
        /\ ledger.revision # RunRevision[r] => ledger'.overrides =
             Append(ledger.overrides, [prior |-> ledger.revision.oid, accepted |-> OID(r)])
    BY <1>1, <1>3, ResetOutcome
  <2>2. CASE ledger.revision = RunRevision[r]
    BY <1>1, <1>3, <2>2 DEF Outcome
  <2> QED
    BY <2>1, <2>2 DEF OID
<1>4. CASE c.op \notin {"activate", "reset"}
  BY <1>1, <1>4, OtherOutcome DEF KeepsPolicy
<1> QED
  BY <1>2, <1>3, <1>4

(* Seen from a run p, the policy stays, leaves the commit of p, comes       *)
(* closer to it, or is moved by one more reset that counts.                 *)
Drift(p) ==
  /\ Reinstated(p) \subseteq Reinstated(p)'
  /\ \/ ledger'.revision.oid = ledger.revision.oid /\ Reinstated(p)' = Reinstated(p)
     \/ ~Leads(ledger'.revision.oid, p) /\ Reinstated(p)' = Reinstated(p)
     \/ /\ Leads(ledger.revision.oid, p) /\ ledger.revision.oid # OID(p)
        /\ Reinstated(p)' = Reinstated(p)
     \/ \E i : i \notin Reinstated(p) /\ Reinstated(p)' = Reinstated(p) \cup {i}

LEMMA PolicyDrifts ==
  ASSUME IInv, IInv', Ordered, NEW r \in Runs, Step(r), ledger.anchor # None,
         NEW p \in Runs
  PROVE  ledger'.anchor # None /\ Drift(p)
<1> DEFINE oid == ledger.revision.oid
           next == ledger'.revision.oid
<1>1. CASE ledger' = ledger
  BY <1>1 DEF Drift, Reinstated
<1>2. CASE Writes(r)
  <2>1. ledger'.anchor # None
    BY <1>2, PolicyWritten
  <2>2. CASE next = oid /\ ledger'.overrides = ledger.overrides
    BY <2>1, <2>2 DEF Drift, Reinstated
  <2>3. CASE <<oid, next>> \in Ancestry /\ ledger'.overrides = ledger.overrides
    <3>1. Reinstated(p)' = Reinstated(p)
      BY <2>3 DEF Reinstated
    <3>2. Leads(next, p) => Leads(oid, p) /\ oid # OID(p)
      BY <2>3, AncestryAssumption DEF Leads
    <3> QED
      BY <2>1, <3>1, <3>2 DEF Drift
  <2>4. CASE ledger'.overrides = Append(ledger.overrides, [prior |-> oid, accepted |-> next])
    <3> DEFINE old == ledger.overrides
               new == ledger'.overrides
    <3>1. old \in Seq(Override) /\ new \in Seq(Override)
      BY DEF IInv, TypeOK, Ledger
    <3>2. new = Append(old, [prior |-> oid, accepted |-> next])
      BY <2>4
    <3> HIDE DEF old, new
    <3>3. /\ DOMAIN new = DOMAIN old \cup {Len(old) + 1} /\ Len(old) + 1 \notin DOMAIN old
          /\ \A i \in DOMAIN old : new[i] = old[i]
          /\ new[Len(old) + 1] = [prior |-> oid, accepted |-> next]
      BY <3>1, <3>2
    <3>4. /\ Reinstated(p) = {i \in DOMAIN old : Leads(old[i].accepted, p)}
          /\ Reinstated(p)' = {i \in DOMAIN new : Leads(new[i].accepted, p)}
      BY DEF Reinstated, Leads, old, new
    <3>5. CASE Leads(next, p)
      <4>1. Reinstated(p)' = Reinstated(p) \cup {Len(old) + 1}
        BY <3>3, <3>4, <3>5
      <4> QED
        BY <2>1, <3>3, <3>4, <4>1 DEF Drift
    <3>6. CASE ~Leads(next, p)
      <4>1. Reinstated(p)' = Reinstated(p)
        BY <3>3, <3>4, <3>6
      <4> QED
        BY <2>1, <3>6, <4>1 DEF Drift
    <3> QED
      BY <3>5, <3>6
  <2> QED
    BY <1>2, <2>2, <2>3, <2>4, PolicyWritten
<1> QED
  BY <1>1, <1>2 DEF Step

(* Without a ledger nothing is sent.                                        *)
LEMMA NothingSent ==
  ASSUME IInv, FInv, ledger.anchor = None
  PROVE  /\ wire = {} /\ ledger.revision.oid = None
         /\ \A p \in Runs, d \in Destinations : worker[p][d].pc \notin {"send", "post"}
<1>1. ledger = AbsentLedger
  BY DEF IInv, Anchored
<1>2. wire = {}
  BY <1>1 DEF IInv, TypeOK, Post, PostsAreClaimed, AbsentLedger, NoRecord
<1>3. \A p \in Runs, d \in Destinations : worker[p][d].pc \notin {"send", "post"}
  BY DEF FInv, Fence
<1> QED
  BY <1>1, <1>2, <1>3 DEF AbsentLedger, NoRevision

(* A clock that has passed a lease has passed it for good.                  *)
LEMMA ExpiredKept ==
  ASSUME IInv, NEW p \in Runs, NEW d \in Destinations, Expired(p, d),
         clock' \in Nat, clock' >= clock,
         worker'[p][d].leaseUntil = worker[p][d].leaseUntil
  PROVE  Expired(p, d)'
<1>1. PICK s \in Runs : clock + Skew[s] >= worker[p][d].leaseUntil
  BY DEF Expired, Now
<1>2. clock \in Nat /\ Skew[s] \in Nat /\ worker[p][d].leaseUntil \in Nat
  BY RunAssumption DEF IInv, TypeOK, Worker
<1>3. clock' + Skew[s] >= worker[p][d].leaseUntil
  BY <1>1, <1>2
<1> QED
  BY <1>3 DEF Expired, Now

(* A step keeps the fence of a worker that keeps its lease.                 *)
LEMMA StepHeldFence ==
  ASSUME IInv, IInv', DInv, NEW r \in Runs, Step(r), NEW p \in Runs,
         NEW d \in Destinations, worker[p][d].pc \in {"send", "post"}, Fence(p, d),
         worker'[p][d].leaseUntil = worker[p][d].leaseUntil
  PROVE  Fence(p, d)'
<1> DEFINE w == worker[p][d]
           lease == ledger.destinations[d].lease
           next == ledger'.destinations[d].lease
           oid == ledger.revision.oid
<1>1. ledger.anchor # None /\ clock' \in Nat /\ clock' >= clock
  BY DEF Fence, Step
<1>2. ledger'.anchor # None /\ Drift(p)
  BY <1>1, PolicyDrifts DEF DInv
<1>3. SUFFICES ASSUME Reinstated(p)' = {}, Leads(ledger'.revision.oid, p)
               PROVE  /\ ledger'.revision.oid = OID(p)
                      /\ Expired(p, d)' \/ (next.holder = p /\ next.until >= w.leaseUntil)
  BY <1>2 DEF Fence, Leads
<1>4. Reinstated(p) = {} /\ ledger'.revision.oid = oid
  <2>1. Reinstated(p) = {}
    BY <1>2, <1>3 DEF Drift
  <2>2. ~Leads(oid, p) \/ oid = OID(p)
    BY <2>1 DEF Fence
  <2> QED
    BY <1>2, <1>3, <2>1, <2>2 DEF Drift
<1>5. /\ oid = OID(p)
      /\ Expired(p, d) \/ (lease.holder = p /\ lease.until >= w.leaseUntil)
  BY <1>3, <1>4 DEF Fence
<1>6. CASE Expired(p, d)
  BY <1>1, <1>4, <1>5, <1>6, ExpiredKept
<1>7. CASE lease.holder = p /\ lease.until >= w.leaseUntil
  <2>1. CASE next = lease
    BY <1>4, <1>5, <1>7, <2>1
  <2>2. CASE next # lease
    <3> DEFINE c == commit[r]
    <3>1. Writes(r)
      BY <2>2 DEF Step
    <3>2. /\ c.op \in WorkerOps /\ c.dest = d /\ c.at <= Now(r) /\ c \in Commit
          /\ c.op = "claim" => lease.until <= c.at
          /\ c.op \in {"renew", "record"} => lease.holder = r
      BY <1>1, <1>4, <2>2, <3>1, WriteEffect DEF LeaseWritten, DInv
    <3>3. worker[r][d].pc = c.op
      BY <3>2 DEF IInv, CommitShape
    <3>4. c.op = "claim"
      BY <1>7, <3>2, <3>3 DEF WorkerOps
    <3>5. Expired(p, d)
      <4>1. lease.until \in Nat /\ c.at \in Nat /\ Now(r) \in Nat /\ w.leaseUntil \in Nat
        <5>1. ledger \in Ledger /\ w \in Worker
          BY DEF IInv, TypeOK
        <5>2. lease.until \in Nat
          BY <5>1 DEF Ledger, Destination, Lease
        <5>3. clock \in Nat /\ Skew[r] \in Nat
          BY RunAssumption DEF IInv, TypeOK
        <5> QED
          BY <3>2, <5>1, <5>2, <5>3 DEF Commit, Worker, Now
      <4>2. lease.until <= c.at /\ c.at <= Now(r)
        BY <3>2, <3>4
      <4>3. Now(r) >= w.leaseUntil
        BY <1>7, <4>1, <4>2
      <4> QED
        BY <4>3 DEF Expired
    <3> QED
      BY <1>1, <1>4, <1>5, <3>5, ExpiredKept
  <2> QED
    BY <2>1, <2>2
<1> QED
  BY <1>5, <1>6, <1>7

(* A step keeps every fence.                                                *)
LEMMA StepFence ==
  ASSUME IInv, IInv', DInv, NEW r \in Runs, Step(r), NEW p \in Runs,
         NEW d \in Destinations, Fence(p, d)
  PROVE  Fence(p, d)'
<1> DEFINE w == worker[p][d]
           v == worker'[p][d]
           next == ledger'.destinations[d].lease
<1>1. SUFFICES ASSUME v.pc \in {"send", "post"} PROVE Fence(p, d)'
  BY DEF Fence
<1>2. CASE w.pc \in {"send", "post"} /\ v.leaseUntil = w.leaseUntil
  BY <1>2, StepHeldFence
<1>3. CASE /\ ledger'.revision.oid = OID(p)
           /\ next = [holder |-> p, until |-> v.leaseUntil]
  <2>1. v.leaseUntil \in Nat
    BY DEF IInv, TypeOK, Worker
  <2>2. ledger'.anchor # None
    <3>1. ledger'.anchor = None => ledger' = AbsentLedger
      BY DEF IInv, Anchored
    <3>2. AbsentLedger.revision.oid = None /\ OID(p) # None
      BY RunTyped DEF AbsentLedger, NoRevision
    <3> QED
      BY <1>3, <3>1, <3>2
  <2> QED
    BY <1>3, <2>1, <2>2 DEF Fence
<1>4. CASE v = w
  BY <1>1, <1>2, <1>4
<1>5. CASE p = r /\ (Starts(r, d) \/ Ends(r, d))
  BY <1>1, <1>5 DEF Starts, Ends, EndedWorker, NoWorker
<1>6. CASE p = r /\ Takes(r, d)
  BY <1>3, <1>6, WriteEffect DEF Takes, DInv
<1>7. CASE p = r /\ Turns(r, d)
  BY <1>1, <1>2, <1>3, <1>7 DEF Turns, Sending
<1>8. CASE p = r /\ Sends(r, d)
  BY <1>2, <1>8 DEF Sends, Sent
<1> QED
  BY <1>4, <1>5, <1>6, <1>7, <1>8 DEF Step, Moves

(* How the stale posts of one worker grow.                                  *)
LEMMA StepStaleAt ==
  ASSUME IInv, IInv', DInv, FInv, NEW r \in Runs, Step(r), NEW p \in Runs,
         NEW d \in Destinations
  PROVE  /\ IsFiniteSet(wire')
         /\ IsFiniteSet(StaleAt(p, d)) /\ Cardinality(StaleAt(p, d)) \in Nat
         /\ Cardinality(StaleAt(p, d)') \in Nat
         /\ \/ StaleAt(p, d)' = StaleAt(p, d)
            \/ /\ p = r /\ Sends(r, d) /\ ledger.revision.oid # OID(r)
               /\ Cardinality(StaleAt(p, d)') <= Cardinality(StaleAt(p, d)) + 1
<1>1. IsFiniteSet(wire) /\ StaleAt(p, d) \subseteq wire
  BY DEF FInv, StaleAt
<1>2. IsFiniteSet(StaleAt(p, d)) /\ Cardinality(StaleAt(p, d)) \in Nat
  BY <1>1, FS_Subset, FS_CardinalityType
<1>3. CASE wire' = wire
  <2>1. StaleAt(p, d)' = StaleAt(p, d)
    BY <1>3 DEF StaleAt
  <2> QED
    BY <1>1, <1>2, <1>3, <2>1
<1>4. ASSUME NEW e \in Destinations, Sends(r, e)
      PROVE  /\ IsFiniteSet(wire')
             /\ Cardinality(StaleAt(p, d)') \in Nat
             /\ \/ StaleAt(p, d)' = StaleAt(p, d)
                \/ /\ p = r /\ Sends(r, d) /\ ledger.revision.oid # OID(r)
                   /\ Cardinality(StaleAt(p, d)') <= Cardinality(StaleAt(p, d)) + 1
  <2> DEFINE k == worker[r][e].current
  <2>1. PICK code \in AttemptOutcomes, taken \in BOOLEAN :
          wire' = wire \cup {[run |-> r, key |-> k, code |-> code, taken |-> taken,
                              stale |-> ledger.revision.oid # OID(r)]}
    BY <1>4 DEF Sends, Sent
  <2> DEFINE post == [run |-> r, key |-> k, code |-> code, taken |-> taken,
                      stale |-> ledger.revision.oid # OID(r)]
  <2>2. DestinationOf(k) = e
    <3>1. Batch(r, e) /\ worker[r][e] \in Worker /\ worker[r][e].pc = "post"
      BY <1>4 DEF DInv, Batches, IInv, TypeOK, Sends, Sent
    <3>2. k \in worker[r][e].left /\ k \in Keys
      BY <3>1 DEF Batch, Worker
    <3>3. worker[r][e].receipts[k] # None
      BY <3>1, <3>2 DEF Batch
    <3> QED
      BY <3>1, <3>2, <3>3 DEF Batch
  <2>3. wire' = wire \cup {post}
    BY <2>1
  <2>4. IsFiniteSet(wire')
    BY <1>1, <2>3, FS_AddElement
  <2>5. /\ post.run = r /\ post.key = k /\ post.stale = (ledger.revision.oid # OID(r))
    OBVIOUS
  <2> HIDE DEF post, k
  <2>6. CASE post.run = p /\ post.stale /\ DestinationOf(post.key) = d
    <3>1. StaleAt(p, d)' = StaleAt(p, d) \cup {post}
      BY <2>3, <2>6 DEF StaleAt
    <3>2. /\ IsFiniteSet(StaleAt(p, d)')
          /\ Cardinality(StaleAt(p, d)') <= Cardinality(StaleAt(p, d)) + 1
      <4> DEFINE S == StaleAt(p, d)
                 T == StaleAt(p, d)'
      <4>1. IsFiniteSet(S) /\ Cardinality(S) \in Nat /\ T = S \cup {post}
        BY <1>2, <3>1
      <4> HIDE DEF S, T
      <4>2. IsFiniteSet(T) /\ Cardinality(T) \in {Cardinality(S), Cardinality(S) + 1}
        BY <4>1, FS_AddElement
      <4> QED
        BY <4>1, <4>2 DEF S, T
    <3>3. Cardinality(StaleAt(p, d)') \in Nat
      BY <3>2, FS_CardinalityType
    <3> QED
      BY <1>4, <2>2, <2>4, <2>5, <2>6, <3>2, <3>3
  <2>7. CASE ~(post.run = p /\ post.stale /\ DestinationOf(post.key) = d)
    <3>1. StaleAt(p, d)' = StaleAt(p, d)
      BY <2>3, <2>7 DEF StaleAt
    <3> QED
      BY <1>2, <2>4, <3>1
  <2> QED
    BY <2>6, <2>7
<1> QED
  BY <1>2, <1>3, <1>4 DEF Step

(* A step keeps the stale posts paid for.                                   *)
LEMMA StepStale ==
  ASSUME IInv, IInv', DInv, FInv, NEW r \in Runs, Step(r), NEW p \in Runs,
         NEW d \in Destinations
  PROVE  Stale(p, d)'
<1> DEFINE R == Reinstated(p)
           R1 == Reinstated(p)'
           n == Cardinality(R)
           n1 == Cardinality(R1)
           s == Cardinality(StaleAt(p, d))
           s1 == Cardinality(StaleAt(p, d)')
           oid == ledger.revision.oid
           next == ledger'.revision.oid
           pc == worker[p][d].pc
           pc1 == worker'[p][d].pc
<1>1. /\ IsFiniteSet(R) /\ n \in Nat /\ n1 \in Nat /\ s \in Nat /\ s1 \in Nat
  <2>1. ledger.overrides \in Seq(Override) /\ ledger'.overrides \in Seq(Override)
    BY DEF IInv, TypeOK, Ledger
  <2>2. IsFiniteSet(R) /\ n \in Nat
    BY <2>1, ReinstatedFinite DEF Reinstated
  <2>3. R1 = {i \in DOMAIN ledger'.overrides : Leads(ledger'.overrides[i].accepted, p)}
    BY DEF Reinstated, Leads
  <2>4. n1 \in Nat
    BY <2>1, <2>3, ReinstatedFinite
  <2> QED
    BY <2>2, <2>4, StepStaleAt
<1>2. pc1 = "post" => pc = "post" \/ (oid = OID(p) /\ next = OID(p))
  <2>1. CASE p # r
    BY <2>1 DEF Step
  <2>2. CASE p = r
    <3>1. CASE worker'[r][d] = worker[r][d]
      BY <2>2, <3>1
    <3>2. CASE Starts(r, d) \/ Ends(r, d)
      BY <2>2, <3>2 DEF Starts, Ends, EndedWorker, NoWorker
    <3>3. CASE Takes(r, d) \/ Turns(r, d) \/ Sends(r, d)
      BY <2>2, <3>3 DEF Takes, Turns, Sends, Sent
    <3> QED
      BY <3>1, <3>2, <3>3 DEF Step, Moves
  <2> QED
    BY <2>1, <2>2
<1>3. \/ s1 = s
      \/ s1 <= s + 1 /\ oid # OID(p) /\ ledger' = ledger /\ pc = "post" /\ pc1 = "send"
  BY StepStaleAt DEF Sends, Sent
<1>4. /\ pc = "post" => /\ s <= n
                        /\ Leads(oid, p) /\ oid # OID(p) => s <= n - 1
      /\ pc # "post" => /\ s <= n + 1
                        /\ Leads(oid, p) => s <= n
  BY DEF FInv, Stale
<1>5. Leads(OID(p), p)
  BY DEF Leads
<1>6. SUFFICES /\ pc1 = "post" => /\ s1 <= n1
                                  /\ Leads(next, p) /\ next # OID(p) => s1 <= n1 - 1
               /\ pc1 # "post" => /\ s1 <= n1 + 1
                                  /\ Leads(next, p) => s1 <= n1
  BY DEF Stale, Leads
<1>7. CASE ledger.anchor = None
  <2>1. wire = {} /\ oid = None /\ pc \notin {"send", "post"}
    BY <1>7, NothingSent
  <2>2. s = 0
    BY <2>1, FS_EmptySet DEF StaleAt
  <2>3. s1 = 0
    BY <1>3, <2>1, <2>2
  <2>4. pc1 # "post"
    BY <1>2, <2>1, RunTyped
  <2> QED
    BY <1>1, <2>3, <2>4
<1>8. CASE ledger.anchor # None
  <2>1. Drift(p)
    BY <1>8, PolicyDrifts DEF DInv
  <2>2. CASE next = oid /\ R1 = R
    <3>1. n1 = n
      BY <2>2
    <3> HIDE DEF n, n1, s, s1, oid, next, pc, pc1
    <3> QED
      BY <1>1, <1>2, <1>3, <1>4, <1>5, <2>2, <3>1
  <2>3. CASE ledger' # ledger /\ s1 = s
    <3>1. CASE ~Leads(next, p) /\ R1 = R
      <4>1. n1 = n
        BY <3>1
      <4> HIDE DEF n, n1, s, s1, oid, next, pc, pc1
      <4> QED
        BY <1>1, <1>2, <1>4, <1>5, <2>3, <3>1, <4>1
    <3>2. CASE Leads(oid, p) /\ oid # OID(p) /\ R1 = R
      <4>1. n1 = n
        BY <3>2
      <4> HIDE DEF n, n1, s, s1, oid, next, pc, pc1
      <4> QED
        BY <1>1, <1>2, <1>4, <1>5, <2>3, <3>2, <4>1
    <3>3. CASE \E i : i \notin R /\ R1 = R \cup {i}
      <4>1. n1 = n + 1
        BY <1>1, <3>3, FS_AddElement
      <4> HIDE DEF n, n1, s, s1, oid, next, pc, pc1
      <4> QED
        BY <1>1, <1>2, <1>4, <1>5, <2>3, <4>1
    <3> QED
      BY <2>1, <2>2, <3>1, <3>2, <3>3 DEF Drift
  <2>4. ledger' = ledger => next = oid /\ R1 = R
    BY DEF Reinstated, Leads
  <2> QED
    BY <1>3, <2>2, <2>3, <2>4
<1> QED
  BY <1>7, <1>8

(* Every step keeps the fences and what is paid for.                        *)
LEMMA NextFences == IInv /\ DInv /\ FInv /\ [Next]_vars => FInv'
<1> SUFFICES ASSUME IInv, DInv, FInv, [Next]_vars PROVE FInv'
  OBVIOUS
<1>1. IInv'
  BY NextSound
<1>2. ASSUME NEW r \in Runs, Step(r) PROVE FInv'
  <2>1. ASSUME NEW p \in Runs, NEW d \in Destinations PROVE Fence(p, d)' /\ Stale(p, d)'
    BY <1>1, <1>2, <2>1, StepFence, StepStale DEF FInv
  <2>2. IsFiniteSet(wire')
    <3>1. wire' = wire \/ \E d \in Destinations : Sends(r, d)
      BY <1>2 DEF Step
    <3>2. CASE wire' = wire
      BY <3>2 DEF FInv
    <3>3. ASSUME NEW d \in Destinations, Sends(r, d) PROVE IsFiniteSet(wire')
      BY <1>1, <1>2, StepStaleAt
    <3> QED
      BY <3>1, <3>2, <3>3
  <2> QED
    BY <2>1, <2>2 DEF FInv
<1>3. CASE /\ UNCHANGED <<ledger, stage, commit, worker, wire, mishaps, faults>>
           /\ clock' \in Nat /\ clock' >= clock
  <2>1. ASSUME NEW p \in Runs, NEW d \in Destinations PROVE Fence(p, d)' /\ Stale(p, d)'
    <3>1. Reinstated(p)' = Reinstated(p) /\ StaleAt(p, d)' = StaleAt(p, d)
      BY <1>3 DEF Reinstated, StaleAt
    <3>2. Stale(p, d)'
      BY <1>3, <3>1 DEF FInv, Stale
    <3>3. Expired(p, d) => Expired(p, d)'
      BY <1>3, ExpiredKept
    <3>4. Fence(p, d)
      BY DEF FInv
    <3>5. Fence(p, d)'
      BY <1>3, <3>1, <3>3, <3>4 DEF Fence, Leads
    <3> QED
      BY <3>2, <3>5
  <2> QED
    BY <1>3, <2>1 DEF FInv
<1> QED
  BY <1>2, <1>3, NextSteps DEF DInv

(* At first nothing is fenced and nothing stale.                            *)
LEMMA InitFences == Init => FInv
<1> SUFFICES ASSUME Init PROVE FInv
  OBVIOUS
<1>1. IsFiniteSet(wire) /\ \A p \in Runs, d \in Destinations : StaleAt(p, d) = {}
  BY FS_EmptySet DEF Init, StaleAt
<1>2. ASSUME NEW p \in Runs PROVE Reinstated(p) = {}
  BY DEF Init, AbsentLedger, Reinstated
<1>3. Cardinality({}) = 0
  BY FS_EmptySet
<1>4. \A p \in Runs, d \in Destinations : worker[p][d].pc = "off"
  BY DEF Init, NoWorker
<1> QED
  BY <1>1, <1>2, <1>3, <1>4 DEF FInv, Fence, Stale

(* The fences hold in every reachable state.                                *)
LEMMA Fences == Spec => [](IInv /\ FInv)
<1>1. Init => IInv /\ DInv /\ FInv
  BY InitSound, InitDelivers, InitFences
<1>2. IInv /\ DInv /\ FInv /\ [Next]_vars => (IInv /\ DInv /\ FInv)'
  BY NextSound, NextDelivers, NextFences
<1> QED
  BY <1>1, <1>2, PTL DEF Spec

(* Two runs of the accepted policy never both send to one destination under *)
(* leases that every clock says are running: CheckBatchSend reads the lease *)
(* back before each POST, and only a reset to an earlier commit gives a     *)
(* destination away while its lease runs.                                   *)
THEOREM LeaseFences == Spec => []LeaseFencesSends
<1>1. ASSUME IInv, FInv PROVE LeaseFencesSends
  <2> SUFFICES ASSUME NEW q \in Runs, NEW r \in Runs, NEW d \in Destinations, q # r,
                      worker[q][d].pc = "post", worker[r][d].pc = "post",
                      OID(q) = ledger.revision.oid, OID(r) = ledger.revision.oid,
                      Reinstated(q) = {}, Reinstated(r) = {}
               PROVE  \E p \in {q, r}, s \in Runs : Now(s) >= worker[p][d].leaseUntil
    BY DEF LeaseFencesSends
  <2>1. ASSUME NEW p \in {q, r}
        PROVE  Expired(p, d) \/ ledger.destinations[d].lease.holder = p
    BY <1>1 DEF FInv, Fence, Leads
  <2> QED
    BY <2>1 DEF Expired
<1> QED
  BY <1>1, Fences, PTL

(* After a newer policy is accepted a batch of the old one sends at most    *)
(* the one payload it had checked already, and one more for each reset on   *)
(* record that let its commit come back.                                    *)
THEOREM StalePostsBounded == Spec => []AtMostOneStalePost
<1>1. ASSUME IInv, FInv PROVE AtMostOneStalePost
  <2> SUFFICES ASSUME NEW r \in Runs, NEW d \in Destinations
               PROVE  Cardinality(StaleAt(r, d)) <= 1 + Cardinality(Reinstated(r))
    BY DEF AtMostOneStalePost, StaleAt
  <2>1. Cardinality(StaleAt(r, d)) \in Nat
    BY <1>1, FS_Subset, FS_CardinalityType DEF FInv, StaleAt
  <2>2. ledger.overrides \in Seq(Override)
    BY <1>1 DEF IInv, TypeOK, Ledger
  <2>3. Cardinality(Reinstated(r)) \in Nat
    BY <2>2, ReinstatedFinite DEF Reinstated
  <2>4. Stale(r, d)
    BY <1>1 DEF FInv
  <2> QED
    BY <2>1, <2>3, <2>4 DEF Stale
<1> QED
  BY <1>1, Fences, PTL

-----------------------------------------------------------------------------
(* Work in force: what the accepted policy, its destinations and the records *)
(* that are left to send say of each other. *)

Live(record) == record.status \notin Terminal \cup {"absent"}
Dropped(record) == record.code = "subscription-retired"

(* An active destination is what the accepted policy says, and is of a      *)
(* generation with the same endpoint.                                       *)
Destined(l, d) ==
  LET destination == l.destinations[d]
  IN destination.active =>
       /\ l.revision.oid \in Configs /\ destination.generation \in Configs
       /\ Policy[l.revision.oid][d].enabled
       /\ destination.subscriptions = Policy[l.revision.oid][d].kinds
       /\ destination.fingerprint = Policy[l.revision.oid][d].fingerprint
       /\ destination.fingerprint = Policy[destination.generation][d].fingerprint

(* What is left to send is for a subscription of its destination.           *)
Employed(l, k) ==
  LET destination == l.destinations[DestinationOf(k)]
  IN Live(l.deliveries[k]) => /\ destination.active
                              /\ destination.generation = GenerationOf(k)
                              /\ Subscribed(destination, EventOf(k))

PInv(l) ==
  /\ \A d \in Destinations : Destined(l, d)
  /\ \A k \in Keys : Employed(l, k)

(* A reducer that is not about policies leaves the identity of a            *)
(* destination alone.                                                       *)
SameIdentity(x, y) ==
  /\ y.active = x.active /\ y.generation = x.generation
  /\ y.fingerprint = x.fingerprint /\ y.subscriptions = x.subscriptions

(* And it neither makes work nor retires it.                                *)
SameWork(before, after) ==
  /\ Live(after) => Live(before)
  /\ Dropped(after) => Dropped(before)

KeepsWork(l, m) ==
  /\ m.revision = l.revision
  /\ \A d \in Destinations : SameIdentity(l.destinations[d], m.destinations[d])
  /\ \A k \in Keys : SameWork(l.deliveries[k], m.deliveries[k])

(* What such a reducer keeps.                                               *)
LEMMA WorkKept ==
  ASSUME NEW l, NEW m, KeepsWork(l, m)
  PROVE  /\ PInv(l) => PInv(m)
         /\ \A k \in Keys : Dropped(m.deliveries[k]) => Dropped(l.deliveries[k])
<1>1. ASSUME NEW d \in Destinations, Destined(l, d) PROVE Destined(m, d)
  BY <1>1 DEF KeepsWork, SameIdentity, Destined
<1>2. ASSUME NEW k \in Keys, Employed(l, k) PROVE Employed(m, k)
  <2>1. /\ Live(m.deliveries[k]) => Live(l.deliveries[k])
        /\ SameIdentity(l.destinations[DestinationOf(k)], m.destinations[DestinationOf(k)])
    BY KeyDestination DEF KeepsWork, SameWork
  <2> QED
    BY <1>2, <2>1 DEF Employed, SameIdentity, Subscribed
<1> QED
  BY <1>1, <1>2 DEF PInv, KeepsWork, SameWork

(* Rendering is such a reducer.                                             *)
LEMMA MessagesSavedWork ==
  ASSUME NEW l \in Ledger, NEW oid, NEW tasks
  PROVE  KeepsWork(l, MessagesSaved(l, oid, tasks))
<1>1. MessagesSaved(l, oid, tasks).revision = l.revision
  BY DEF MessagesSaved, Ledger
<1> QED
  BY <1>1, MessagesSavedQuiet DEF KeepsWork, SameIdentity, SameWork, Live, Dropped

(* What a batch writes of a destination keeps its identity.                 *)
LEMMA BatchWork ==
  ASSUME NEW l \in Ledger, NEW d \in Destinations, NEW deliveries, NEW destination,
         SameIdentity(l.destinations[d], destination),
         \A k \in Keys : SameWork(l.deliveries[k], deliveries[k])
  PROVE  KeepsWork(l, [l EXCEPT !.deliveries = deliveries,
                                !.destinations[d] = destination])
<1> DEFINE m == [l EXCEPT !.deliveries = deliveries, !.destinations[d] = destination]
<1>1. /\ m.revision = l.revision /\ m.deliveries = deliveries
      /\ m.destinations[d] = destination
      /\ \A e \in Destinations : e # d => m.destinations[e] = l.destinations[e]
  BY DEF Ledger
<1> HIDE DEF m
<1>2. \A e \in Destinations : SameIdentity(l.destinations[e], m.destinations[e])
  BY <1>1 DEF SameIdentity
<1>3. KeepsWork(l, m)
  BY <1>1, <1>2 DEF KeepsWork
<1> QED
  BY <1>3 DEF m

(* A claim is one.                                                          *)
LEMMA ClaimBatchWork ==
  ASSUME NEW l \in Ledger, NEW d \in Destinations, NEW run, NEW tasks, NEW now
  PROVE  KeepsWork(l, ClaimBatch(l, d, run, tasks, now))
<1> DEFINE lease == [holder |-> run, until |-> now + ClaimDuration]
           claimed == Claimable(l, d, tasks, now)
           deliveries == [k \in Keys |->
              IF k \in claimed
              THEN [l.deliveries[k] EXCEPT
                      !.status = "claimed", !.attempts = @ + 1,
                      !.attemptIDs = @ \cup {run}, !.lease = lease]
              ELSE l.deliveries[k]]
           destination == [l.destinations[d] EXCEPT
              !.lease = lease, !.nextSendAt = now + SendSpacing]
<1>1. ClaimBatch(l, d, run, tasks, now) =
        [l EXCEPT !.deliveries = deliveries, !.destinations[d] = destination]
  BY DEF ClaimBatch, Ledger
<1>2. \A k \in claimed : Live(l.deliveries[k])
  BY DEF Claimable, Live
<1> HIDE DEF lease, claimed
<1>3. \A record \in Record :
        LET after == [record EXCEPT !.status = "claimed", !.attempts = @ + 1,
                        !.attemptIDs = @ \cup {run}, !.lease = lease]
        IN after.code = record.code
  BY DEF Record
<1>4. \A k \in Keys : SameWork(l.deliveries[k], deliveries[k])
  BY <1>2, <1>3 DEF SameWork, Dropped, Ledger
<1>5. SameIdentity(l.destinations[d], destination)
  BY DEF SameIdentity, Ledger, Destination
<1> HIDE DEF deliveries, destination
<1>6. KeepsWork(l, [l EXCEPT !.deliveries = deliveries, !.destinations[d] = destination])
  BY <1>4, <1>5, BatchWork
<1> QED
  BY <1>1, <1>6

(* A renewal is one.                                                        *)
LEMMA RenewBatchWork ==
  ASSUME NEW l \in Ledger, NEW d \in Destinations, NEW run, NEW tasks, NEW now
  PROVE  KeepsWork(l, RenewBatch(l, d, run, tasks, now))
<1> DEFINE owned(k) == k \in tasks /\ OwnsRecord(l, d, run, k, now)
           until == now + ClaimDuration
           deliveries == [k \in Keys |->
              IF owned(k) THEN [l.deliveries[k] EXCEPT !.lease.until = until]
              ELSE l.deliveries[k]]
           destination == [l.destinations[d] EXCEPT !.lease.until = until]
<1>1. RenewBatch(l, d, run, tasks, now) =
        [l EXCEPT !.deliveries = deliveries, !.destinations[d] = destination]
  BY DEF RenewBatch, Ledger
<1> HIDE DEF until
<1>2. \A record \in Record : SameWork(record, [record EXCEPT !.lease.until = until])
  BY DEF SameWork, Live, Dropped, Record
<1>3. \A k \in Keys : SameWork(l.deliveries[k], deliveries[k])
  BY <1>2 DEF SameWork, Ledger
<1>4. SameIdentity(l.destinations[d], destination)
  BY DEF SameIdentity, Ledger, Destination
<1> HIDE DEF deliveries, destination
<1>5. KeepsWork(l, [l EXCEPT !.deliveries = deliveries, !.destinations[d] = destination])
  BY <1>3, <1>4, BatchWork
<1> QED
  BY <1>1, <1>5

(* And so is the record of the results.                                     *)
LEMMA RecordResultsWork ==
  ASSUME NEW l \in Ledger, NEW d \in Destinations, NEW run, NEW receipts, NEW now,
         \A k \in Keys : l.deliveries[k].status = "absent" => receipts[k] = None,
         \A k \in Keys : receipts[k] # None => receipts[k] \in Result
  PROVE  KeepsWork(l, RecordResults(l, d, run, receipts, now))
<1> DEFINE deliveries == [k \in Keys |->
              IF receipts[k] # None
              THEN ResultApplied(l.deliveries[k], run, receipts[k], now)
              ELSE l.deliveries[k]]
           old == l.destinations[d]
           destination ==
              IF old.lease.holder = run
              THEN [old EXCEPT !.lease = NoLease, !.nextSendAt = now + SendSpacing]
              ELSE old
<1>1. RecordResults(l, d, run, receipts, now) =
        [l EXCEPT !.deliveries = deliveries, !.destinations[d] = destination]
  BY DEF RecordResults, Ledger
<1>2. ASSUME NEW record \in Record, NEW result \in Result, record.status # "absent"
      PROVE  SameWork(record, ResultApplied(record, run, result, now))
  BY <1>2 DEF SameWork, Live, Dropped, ResultApplied, TerminalFailure, Record, Terminal,
              Result, AttemptOutcomes, Transient
<1>3. \A k \in Keys : SameWork(l.deliveries[k], deliveries[k])
  <2> SUFFICES ASSUME NEW k \in Keys PROVE SameWork(l.deliveries[k], deliveries[k])
    OBVIOUS
  <2>1. CASE receipts[k] = None
    BY <2>1 DEF SameWork
  <2>2. CASE receipts[k] # None
    BY <1>2, <2>2 DEF Ledger
  <2> QED
    BY <2>1, <2>2
<1>4. SameIdentity(l.destinations[d], destination)
  BY DEF SameIdentity, Ledger, Destination
<1> HIDE DEF deliveries, destination
<1>5. KeepsWork(l, [l EXCEPT !.deliveries = deliveries, !.destinations[d] = destination])
  BY <1>3, <1>4, BatchWork
<1> QED
  BY <1>1, <1>5

(* An admission makes work only for the subscriptions in force.             *)
LEMMA EventsAdmittedWork ==
  ASSUME NEW l \in Ledger, PInv(l), NEW E \in SUBSET Events, NEW time
  PROVE  LET m == EventsAdmitted(l, E, time)
         IN /\ PInv(m)
            /\ \A k \in Keys : Dropped(m.deliveries[k]) => Dropped(l.deliveries[k])
<1> DEFINE m == EventsAdmitted(l, E, time)
           earned == [e \in E |-> Admitted(l, e, time[e])]
           new(k) == /\ EventOf(k) \in E /\ k \in earned[EventOf(k)]
                     /\ l.deliveries[k].status = "absent"
           deliveries == [k \in Keys |->
              IF new(k) THEN [NoRecord EXCEPT !.status = "pending"]
              ELSE l.deliveries[k]]
           events == l.events \cup {e \in E : earned[e] # {}}
<1>1. m = [l EXCEPT !.deliveries = deliveries, !.events = events]
  BY DEF EventsAdmitted, Ledger
<1>2. \A k \in Keys : \/ deliveries[k] = l.deliveries[k]
                      \/ new(k) /\ deliveries[k].code = "none"
  BY DEF NoRecord
<1>3. ASSUME NEW k \in Keys, new(k)
      PROVE  LET destination == l.destinations[DestinationOf(k)]
             IN /\ destination.active /\ destination.generation = GenerationOf(k)
                /\ Subscribed(destination, EventOf(k))
  <2>1. k \in Admitted(l, EventOf(k), time[EventOf(k)])
    BY <1>3
  <2>2. PICK d \in Destinations :
          /\ k = <<EventOf(k), d, l.destinations[d].generation>>
          /\ l.destinations[d].active /\ Subscribed(l.destinations[d], EventOf(k))
    BY <2>1 DEF Admitted
  <2>3. DestinationOf(k) = d /\ GenerationOf(k) = l.destinations[d].generation
    BY <2>2 DEF DestinationOf, GenerationOf
  <2> QED
    BY <2>2, <2>3
<1> HIDE DEF deliveries, events, new, m
<1>4. /\ m.destinations = l.destinations /\ m.revision = l.revision
      /\ m.deliveries = deliveries
  BY <1>1 DEF Ledger
<1>5. \A d \in Destinations : Destined(m, d)
  BY <1>4 DEF PInv, Destined
<1>6. ASSUME NEW k \in Keys PROVE Employed(m, k)
  <2>1. Employed(l, k)
    BY DEF PInv
  <2> QED
    BY <1>2, <1>3, <1>4, <2>1 DEF Employed
<1> QED
  BY <1>2, <1>4, <1>5, <1>6 DEF PInv, Dropped, m

(* A destination under a newly accepted policy.                             *)
LEMMA AcceptedDestinationIdentity ==
  ASSUME NEW old \in Destination, NEW d \in Destinations, NEW oid \in Configs, NEW now
  PROVE  LET p == Policy[oid][d]
             next == AcceptedDestination(old, d, oid, now)
         IN /\ next.active <=> p.enabled
            /\ p.enabled => /\ next.subscriptions = p.kinds
                            /\ next.fingerprint = p.fingerprint
                            /\ IF old.active /\ old.fingerprint = p.fingerprint
                               THEN next.generation = old.generation
                               ELSE next.generation = oid
<1> DEFINE p == Policy[oid][d]
           base == IF old.active /\ old.fingerprint = p.fingerprint
                   THEN old
                   ELSE [NoDestination EXCEPT !.active = TRUE, !.generation = oid,
                                              !.fingerprint = p.fingerprint]
           cutoff == [kind \in Kinds |->
                IF kind \notin p.kinds THEN 0
                ELSE IF kind \in base.subscriptions THEN base.cutoff[kind]
                ELSE now]
           none == [kind \in Kinds |-> 0]
<1>1. p \in [enabled: BOOLEAN, fingerprint: Fingerprints, kinds: SUBSET Kinds]
  BY PolicyAssumption
<1>2. base \in Destination
  <2>1. NoDestination \in Destination
    BY DEF NoDestination, Destination, Lease, NoLease
  <2> QED
    BY <1>1, <2>1 DEF Destination
<1>3. /\ base.active /\ base.fingerprint = p.fingerprint
      /\ IF old.active /\ old.fingerprint = p.fingerprint
         THEN base.generation = old.generation ELSE base.generation = oid
  BY DEF NoDestination
<1>4. AcceptedDestination(old, d, oid, now) =
        IF p.enabled THEN [base EXCEPT !.subscriptions = p.kinds, !.cutoff = cutoff]
        ELSE [old EXCEPT !.active = FALSE, !.subscriptions = {}, !.cutoff = none]
  BY DEF AcceptedDestination
<1> HIDE DEF base, cutoff, none
<1>5. LET next == [base EXCEPT !.subscriptions = p.kinds, !.cutoff = cutoff]
      IN /\ next.subscriptions = p.kinds /\ next.active = base.active
         /\ next.fingerprint = base.fingerprint /\ next.generation = base.generation
  BY <1>2 DEF Destination
<1>6. [old EXCEPT !.active = FALSE, !.subscriptions = {}, !.cutoff = none].active = FALSE
  BY DEF Destination
<1> HIDE DEF p
<1>7. CASE p.enabled
  BY <1>3, <1>4, <1>5, <1>7 DEF p
<1>8. CASE ~p.enabled
  BY <1>4, <1>6, <1>8 DEF p
<1> QED
  BY <1>7, <1>8

(* What accepting a policy retires, and what it keeps.                      *)
LEMMA PolicyAppliedWork ==
  ASSUME NEW l \in Ledger, PInv(l), NEW incoming \in [oid: Configs, digest: Digests],
         NEW now
  PROVE  LET m == PolicyApplied(l, incoming, now)
         IN /\ PInv(m)
            /\ \A k \in Keys : Dropped(m.deliveries[k]) =>
                 Dropped(l.deliveries[k]) \/ ~InForce(incoming.oid, k)
<1> DEFINE m == PolicyApplied(l, incoming, now)
           destinations == [d \in Destinations |->
              AcceptedDestination(l.destinations[d], d, incoming.oid, now)]
           deliveries == [k \in Keys |->
              Retired(l.deliveries[k], k, destinations[DestinationOf(k)])]
<1>1. m = [l EXCEPT !.destinations = destinations,
                    !.deliveries = deliveries, !.revision = incoming]
  BY DEF PolicyApplied
<1>2. ASSUME NEW d \in Destinations
      PROVE  LET p == Policy[incoming.oid][d]
                 old == l.destinations[d]
                 next == destinations[d]
             IN /\ next.active <=> p.enabled
                /\ p.enabled => /\ next.subscriptions = p.kinds
                                /\ next.fingerprint = p.fingerprint
                                /\ IF old.active /\ old.fingerprint = p.fingerprint
                                   THEN next.generation = old.generation
                                   ELSE next.generation = incoming.oid
  <2>1. l.destinations[d] \in Destination /\ incoming.oid \in Configs
    BY DEF Ledger
  <2> QED
    BY <2>1, AcceptedDestinationIdentity
<1>3. \A k \in Keys : deliveries[k] =
        Retired(l.deliveries[k], k, destinations[DestinationOf(k)])
  OBVIOUS
<1> HIDE DEF destinations, deliveries, m
<1>4. /\ m.destinations = destinations /\ m.deliveries = deliveries
      /\ m.revision = incoming
  BY <1>1 DEF Ledger
<1>5. ASSUME NEW d \in Destinations PROVE Destined(m, d)
  <2>1. Destined(l, d) /\ incoming.oid \in Configs
    BY DEF PInv
  <2> QED
    BY <1>2, <1>4, <2>1 DEF Destined
<1>6. ASSUME NEW k \in Keys PROVE Employed(m, k)
  <2>1. l.deliveries[k] \in Record
    BY DEF Ledger
  <2> QED
    BY <1>3, <1>4, <2>1 DEF Employed, Live, Retired, Terminal, Record
<1>7. ASSUME NEW k \in Keys, Dropped(m.deliveries[k]), ~Dropped(l.deliveries[k])
      PROVE  ~InForce(incoming.oid, k)
  <2> DEFINE d == DestinationOf(k)
             old == l.destinations[d]
             next == destinations[d]
             p == Policy[incoming.oid][d]
  <2>1. d \in Destinations
    BY KeyDestination
  <2>2. /\ Live(l.deliveries[k])
        /\ \/ ~next.active \/ next.generation # GenerationOf(k)
           \/ ~Subscribed(next, EventOf(k))
    BY <1>3, <1>4, <1>7 DEF Retired, Dropped, Live
  <2>3. old.active /\ old.generation = GenerationOf(k)
    BY <2>2 DEF PInv, Employed
  <2>4. old.fingerprint = Policy[GenerationOf(k)][d].fingerprint
    BY <2>1, <2>3 DEF PInv, Destined
  <2>5. /\ next.active <=> p.enabled
        /\ p.enabled => /\ next.subscriptions = p.kinds
                        /\ p.fingerprint = old.fingerprint =>
                             next.generation = old.generation
    BY <1>2, <2>1, <2>3
  <2> HIDE DEF d, old, next, p
  <2>6. InForce(incoming.oid, k) =>
          p.enabled /\ KindOf[EventOf(k)] \in p.kinds /\ p.fingerprint = old.fingerprint
    BY <2>4 DEF InForce, p, d
  <2> QED
    BY <2>2, <2>3, <2>5, <2>6 DEF Subscribed
<1> QED
  BY <1>4, <1>5, <1>6, <1>7 DEF PInv, m

(* What a commit does to the work in force.                                 *)
LEMMA OutcomeWork ==
  ASSUME IInv, PInv(ledger), NEW r \in Runs, NEW c \in Commit, Placed(r, c)
  PROVE  LET next == Outcome(r, c)
         IN /\ PInv(next)
            /\ \A k \in Keys : Dropped(next.deliveries[k]) =>
                 Dropped(ledger.deliveries[k]) \/ ~InForce(next.revision.oid, k)
<1> DEFINE next == Outcome(r, c)
<1>1. ledger \in Ledger /\ RunRevision[r] \in [oid: Configs, digest: Digests]
  BY RunTyped DEF IInv, TypeOK
<1>2. CASE c.op = "activate"
  <2> DEFINE base == ActivationBase(r)
  <2>1. /\ next = IF base.revision = RunRevision[r] THEN base
                  ELSE PolicyApplied(base, RunRevision[r], c.at)
        /\ next.revision = RunRevision[r]
    BY <1>2, ActivateOutcome DEF Outcome, AcceptPolicy
  <2>2. base \in Ledger /\ PInv(base) /\ base.deliveries = ledger.deliveries
    <3>1. base \in Ledger
      BY ActivationBaseTyped
    <3>2. CASE ledger.anchor = None
      <4>1. ledger = AbsentLedger /\ base = NewLedger(OID(r))
        BY <3>2 DEF IInv, Anchored, ActivationBase
      <4>2. /\ base.deliveries = ledger.deliveries
            /\ \A d \in Destinations : ~base.destinations[d].active
            /\ \A k \in Keys : base.deliveries[k].status = "absent"
        BY <4>1 DEF NewLedger, AbsentLedger, NoDestination, NoRecord
      <4> QED
        BY <3>1, <4>2 DEF PInv, Destined, Employed, Live
    <3>3. CASE ledger.anchor # None
      BY <1>1, <3>3 DEF ActivationBase
    <3> QED
      BY <3>2, <3>3
  <2> HIDE DEF base, next
  <2>3. CASE base.revision = RunRevision[r]
    BY <2>1, <2>2, <2>3 DEF next
  <2>4. CASE base.revision # RunRevision[r]
    BY <1>1, <2>1, <2>2, <2>4, PolicyAppliedWork DEF next
  <2> QED
    BY <2>3, <2>4
<1>3. CASE c.op = "reset"
  <2> DEFINE applied == PolicyApplied(ledger, RunRevision[r], c.at)
  <2>1. /\ PInv(applied)
        /\ \A k \in Keys : Dropped(applied.deliveries[k]) =>
             Dropped(ledger.deliveries[k]) \/ ~InForce(OID(r), k)
    BY <1>1, PolicyAppliedWork DEF OID
  <2>2. CASE ledger.revision = RunRevision[r]
    BY <1>3, <2>2 DEF Outcome
  <2>3. CASE ledger.revision # RunRevision[r]
    <3>1. next = OverrideRevision(ledger, RunRevision[r], c.at)
      BY <1>3, <2>3 DEF Outcome
    <3>2. applied \in Ledger /\ applied.revision = RunRevision[r]
      BY <1>1, PolicyAppliedTyped DEF Commit
    <3> HIDE DEF applied, next
    <3>3. /\ next.revision = applied.revision /\ next.deliveries = applied.deliveries
          /\ next.destinations = applied.destinations
      BY <3>1, <3>2 DEF OverrideRevision, Ledger, applied
    <3>4. PInv(next)
      BY <2>1, <3>3 DEF PInv, Destined, Employed
    <3> QED
      BY <2>1, <3>2, <3>3, <3>4 DEF OID, next
  <2> QED
    BY <2>2, <2>3
<1>4. CASE c.op = "admit"
  <2>1. next = EventsAdmitted(ledger, c.events, EventTime) /\ c.events \in SUBSET Events
    BY <1>4 DEF Outcome, Commit
  <2> QED
    BY <1>1, <2>1, EventsAdmittedWork
<1>5. CASE c.op \in {"claim", "renew", "record"}
  <2> DEFINE d == c.dest
             w == worker[r][d]
  <2>1. d \in Destinations /\ w.pc = c.op
    BY <1>5 DEF Placed, WorkerOps
  <2>2. CASE c.op = "claim"
    <3> DEFINE prepared == Prepared(r, c)
    <3>1. KeepsWork(ledger, prepared) /\ prepared \in Ledger
      BY <1>1, MessagesSavedWork, MessagesSavedTyped, RunTyped DEF Prepared
    <3>2. next = ClaimBatch(prepared, d, r, w.tasks, c.at)
      BY <2>2 DEF Outcome
    <3> HIDE DEF prepared, d, w
    <3>3. KeepsWork(prepared, next)
      BY <2>1, <3>1, <3>2, ClaimBatchWork
    <3> QED
      BY <3>1, <3>3, WorkKept
  <2>3. CASE c.op = "renew"
    <3>1. next = RenewBatch(ledger, d, r, w.tasks, c.at)
      BY <2>3 DEF Outcome
    <3> QED
      BY <1>1, <2>1, <3>1, RenewBatchWork, WorkKept
  <2>4. CASE c.op = "record"
    <3>1. next = RecordResults(ledger, d, r, w.receipts, c.at)
      BY <2>4 DEF Outcome
    <3>2. \A k \in Keys : w.receipts[k] # None =>
            /\ w.receipts[k] \in Result
            /\ ledger.deliveries[k].status # "absent"
      <4>1. w.receipts \in [Keys -> Result \cup {None}]
        BY <2>1 DEF IInv, TypeOK, Worker
      <4>2. \A k \in Keys : w.receipts[k] # None => r \in ledger.deliveries[k].attemptIDs
        BY <2>1 DEF IInv, WorkersClaimed, Holds
      <4> QED
        BY <4>1, <4>2 DEF IInv, AbsentUntouched
    <3> HIDE DEF d, w
    <3> DEFINE receipts == w.receipts
    <3>3. \A k \in Keys : ledger.deliveries[k].status = "absent" => receipts[k] = None
      BY <3>2
    <3>4. \A k \in Keys : receipts[k] # None => receipts[k] \in Result
      BY <3>2
    <3>5. next = RecordResults(ledger, d, r, receipts, c.at)
      BY <3>1
    <3> HIDE DEF receipts
    <3>6. KeepsWork(ledger, next)
      BY <1>1, <2>1, <3>3, <3>4, <3>5, RecordResultsWork
    <3> QED
      BY <3>6, WorkKept
  <2> QED
    BY <1>5, <2>2, <2>3, <2>4
<1>6. CASE c.op = "none"
  BY <1>6 DEF Outcome
<1> QED
  BY <1>2, <1>3, <1>4, <1>5, <1>6 DEF Commit, Operations

(* What one step may retire.                                                *)
RetirementStep ==
  \A k \in Keys :
    ledger'.deliveries[k].code = "subscription-retired" =>
      \/ ledger.deliveries[k].code = "subscription-retired"
      \/ ~InForce(ledger'.revision.oid, k)

(* Every step keeps the work in force.                                      *)
LEMMA NextWork ==
  IInv /\ DInv /\ PInv(ledger) /\ [Next]_vars => PInv(ledger') /\ RetirementStep
<1> SUFFICES ASSUME IInv, DInv, PInv(ledger), [Next]_vars
             PROVE  PInv(ledger') /\ RetirementStep
  OBVIOUS
<1>1. CASE ledger' = ledger
  BY <1>1 DEF RetirementStep
<1>2. ASSUME NEW r \in Runs, Writes(r) PROVE PInv(ledger') /\ RetirementStep
  <2> DEFINE c == commit[r]
  <2>1. c \in Commit /\ Placed(r, c) /\ ledger' = Outcome(r, c)
    BY <1>2, WriteSound DEF Writes
  <2> HIDE DEF c
  <2> QED
    BY <2>1, OutcomeWork DEF RetirementStep, Dropped
<1>3. (\E r \in Runs : Writes(r)) \/ ledger' = ledger
  BY NextSteps DEF DInv, Step
<1> QED
  BY <1>1, <1>2, <1>3

(* At first there is no work.                                               *)
LEMMA InitWork == Init => PInv(ledger)
BY DEF Init, AbsentLedger, NoDestination, NoRecord, PInv, Destined, Employed, Live

(* The work in force, in every reachable state.                             *)
LEMMA WorkInForce == Spec => [](IInv /\ DInv /\ PInv(ledger))
<1>1. Init => IInv /\ DInv /\ PInv(ledger)
  BY InitSound, InitDelivers, InitWork
<1>2. IInv /\ DInv /\ PInv(ledger) /\ [Next]_vars => (IInv /\ DInv /\ PInv(ledger))'
  BY NextSound, NextDelivers, NextWork
<1> QED
  BY <1>1, <1>2, PTL DEF Spec

(* Whatever is left to send belongs to a subscription of the accepted       *)
(* policy and to its endpoint and generation: acceptPolicy retires the rest *)
(* in the same write, so that no record is stranded or sent to an endpoint  *)
(* it was not admitted for.                                                 *)
THEOREM WorkFollowsPolicy == Spec => []WorkIsInForce
<1>1. ASSUME PInv(ledger) PROVE WorkIsInForce
  <2> SUFFICES ASSUME NEW k \in Keys,
                      ledger.deliveries[k].status \notin Terminal \cup {"absent"}
               PROVE  /\ InForce(ledger.revision.oid, k)
                      /\ ledger.destinations[DestinationOf(k)].active
                      /\ ledger.destinations[DestinationOf(k)].generation = GenerationOf(k)
    BY DEF WorkIsInForce
  <2>1. Destined(ledger, DestinationOf(k)) /\ Employed(ledger, k)
    BY <1>1, KeyDestination DEF PInv
  <2> QED
    BY <2>1 DEF Destined, Employed, Live, Subscribed, InForce
<1> QED
  BY <1>1, WorkInForce, PTL

(* A delivery is retired only by the acceptance of a policy that dropped    *)
(* its subscription or moved its endpoint; no claim, result, renewal or     *)
(* admission of any run retires one.                                        *)
THEOREM PolicyRetires == Spec => RetiredOnlyByPolicy
<1>1. IInv /\ DInv /\ PInv(ledger) /\ [Next]_vars => [RetirementStep]_vars
  BY NextWork
<1>2. [][RetirementStep]_vars <=> RetiredOnlyByPolicy
  BY DEF RetirementStep, RetiredOnlyByPolicy
<1> QED
  BY <1>1, <1>2, WorkInForce, PTL DEF Spec

-----------------------------------------------------------------------------
(***************************************************************************)
(* The guards of the store: every record stays one that the codec accepts, *)
(* each reducer only appends to it, and what a run has set out to claim is *)
(* asked for by the policy in force.  Together they show that store.Commit *)
(* never refuses the result of a reducer.                                  *)
(***************************************************************************)
(* The record of k is what the codec accepts; besides, no attempt was ever  *)
(* made without a message.                                                  *)
Whole(l, k) ==
  LET record == l.deliveries[k]
  IN /\ IsFiniteSet(record.attemptIDs)
     /\ record.attemptIDs # {} => record.message # None
     /\ record.status # "absent" => ValidRecord(l, k, record)

(* The audit is within its bound and every record whole.                    *)
VInv(l) ==
  /\ Len(l.overrides) <= MaxOverrides
  /\ \A i \in DOMAIN l.overrides : l.overrides[i].prior # l.overrides[i].accepted
  /\ \A k \in Keys : Whole(l, k)

(* A record that was retired before it had a message.                       *)
Stranded(record) == record.status = "skipped" /\ record.message = None

(* The record of k may become that of m.                                    *)
Grows(l, m, k) == Whole(m, k) /\ RecordAppends(l.deliveries[k], m.deliveries[k])

(* The attempts of a record are counted.                                    *)
LEMMA AttemptsCounted ==
  ASSUME NEW S, IsFiniteSet(S), NEW run
  PROVE  /\ Cardinality(S) \in Nat
         /\ run \in S => Cardinality(S) > 0
         /\ IsFiniteSet(S \cup {run})
         /\ run \notin S => Cardinality(S \cup {run}) = Cardinality(S) + 1
<1>1. Cardinality(S) \in Nat /\ (Cardinality(S) = 0 <=> S = {})
  BY FS_CardinalityType, FS_EmptySet
<1>2. IsFiniteSet(S \cup {run}) /\ (run \notin S => Cardinality(S \cup {run}) = Cardinality(S) + 1)
  BY FS_AddElement
<1> QED
  BY <1>1, <1>2

(* A record that stays stays whole.                                         *)
LEMMA RecordStays ==
  ASSUME NEW l \in Ledger, NEW m, NEW k \in Keys, Whole(l, k),
         m.deliveries[k] = l.deliveries[k], l.events \subseteq m.events
  PROVE  Grows(l, m, k)
<1>1. l.deliveries[k] \in Record
  BY DEF Ledger
<1>2. RecordAppends(l.deliveries[k], m.deliveries[k])
  BY <1>1 DEF RecordAppends, Record
<1>3. Whole(m, k)
  BY DEF Whole, ValidRecord
<1> QED
  BY <1>2, <1>3 DEF Grows

(* Retirement is an append.                                                 *)
LEMMA RetiredGrows ==
  ASSUME NEW l \in Ledger, NEW m, NEW k \in Keys, NEW destination, Whole(l, k),
         m.deliveries[k] = Retired(l.deliveries[k], k, destination),
         l.events \subseteq m.events
  PROVE  Grows(l, m, k)
<1>1. CASE m.deliveries[k] = l.deliveries[k]
  BY <1>1, RecordStays
<1>2. CASE m.deliveries[k] # l.deliveries[k]
  <2> DEFINE before == l.deliveries[k]
             after == m.deliveries[k]
  <2>1. before \in Record
    BY DEF Ledger
  <2>2. /\ before.status \notin Terminal \cup {"absent"}
        /\ after = [before EXCEPT !.status = "skipped", !.code = "subscription-retired"]
    BY <1>2 DEF Retired
  <2> HIDE DEF before, after
  <2>3. /\ after.status = "skipped" /\ after.code = "subscription-retired"
        /\ after.attempts = before.attempts /\ after.attemptIDs = before.attemptIDs
        /\ after.message = before.message /\ after.lease = before.lease
        /\ before.attempts \in Nat
    BY <2>1, <2>2 DEF Record
  <2>4. RecordAppends(before, after)
    BY <2>2, <2>3 DEF RecordAppends, Terminal
  <2>5. Whole(m, k)
    BY <2>2, <2>3 DEF Whole, ValidRecord, before, after
  <2> QED
    BY <2>4, <2>5 DEF Grows, before, after
<1> QED
  BY <1>1, <1>2

(* So is the acceptance of a policy.                                        *)
LEMMA PolicyAppliedGrows ==
  ASSUME NEW l \in Ledger, NEW incoming, NEW now, NEW k \in Keys, Whole(l, k)
  PROVE  LET m == PolicyApplied(l, incoming, now)
         IN Grows(l, m, k) /\ m.events = l.events
<1> DEFINE destinations == [d \in Destinations |->
              AcceptedDestination(l.destinations[d], d, incoming.oid, now)]
           deliveries == [j \in Keys |->
              Retired(l.deliveries[j], j, destinations[DestinationOf(j)])]
           m == PolicyApplied(l, incoming, now)
<1>1. m = [l EXCEPT !.destinations = destinations,
                    !.deliveries = deliveries, !.revision = incoming]
  BY DEF PolicyApplied
<1>2. deliveries[k] = Retired(l.deliveries[k], k, destinations[DestinationOf(k)])
  OBVIOUS
<1> HIDE DEF destinations, deliveries, m
<1>3. m.deliveries = deliveries /\ m.events = l.events
  BY <1>1 DEF Ledger
<1>4. Grows(l, m, k)
  BY <1>2, <1>3, RetiredGrows
<1> QED
  BY <1>3, <1>4 DEF m

(* And an admission.                                                        *)
LEMMA EventsAdmittedGrows ==
  ASSUME NEW l \in Ledger, NEW E, NEW time, NEW k \in Keys, Whole(l, k)
  PROVE  LET m == EventsAdmitted(l, E, time)
         IN Grows(l, m, k) /\ l.events \subseteq m.events
<1> DEFINE earned == [e \in E |-> Admitted(l, e, time[e])]
           new(j) == /\ EventOf(j) \in E /\ j \in earned[EventOf(j)]
                     /\ l.deliveries[j].status = "absent"
           deliveries == [j \in Keys |->
              IF new(j) THEN [NoRecord EXCEPT !.status = "pending"]
              ELSE l.deliveries[j]]
           events == l.events \cup {e \in E : earned[e] # {}}
           m == EventsAdmitted(l, E, time)
<1>1. m = [l EXCEPT !.deliveries = deliveries, !.events = events]
  BY DEF EventsAdmitted
<1>2. new(k) => EventOf(k) \in events
  OBVIOUS
<1>3. deliveries[k] = IF new(k) THEN [NoRecord EXCEPT !.status = "pending"]
                      ELSE l.deliveries[k]
  OBVIOUS
<1>4. new(k) => l.deliveries[k].status = "absent"
  OBVIOUS
<1>5. l.events \subseteq events
  OBVIOUS
<1> HIDE DEF new, deliveries, events, m
<1>6. m.deliveries = deliveries /\ m.events = events
  BY <1>1 DEF Ledger
<1>7. CASE new(k)
  <2>1. m.deliveries[k] = [NoRecord EXCEPT !.status = "pending"]
    BY <1>3, <1>6, <1>7
  <2>2. Cardinality({}) = 0 /\ IsFiniteSet({})
    BY FS_EmptySet
  <2>3. Whole(m, k)
    BY <1>2, <1>6, <1>7, <2>1, <2>2 DEF Whole, ValidRecord, NoRecord, NoLease
  <2>4. RecordAppends(l.deliveries[k], m.deliveries[k])
    BY <1>4, <1>7 DEF RecordAppends
  <2> QED
    BY <1>5, <1>6, <2>3, <2>4 DEF Grows, m
<1>8. CASE ~new(k)
  BY <1>3, <1>5, <1>6, <1>8, RecordStays DEF m
<1> QED
  BY <1>7, <1>8

(* Appends compose.                                                         *)
LEMMA AppendsCompose ==
  ASSUME NEW a \in Record, NEW b \in Record, NEW c \in Record,
         RecordAppends(a, b), RecordAppends(b, c)
  PROVE  RecordAppends(a, c)
<1>1. a.attempts \in Nat /\ b.attempts \in Nat /\ c.attempts \in Nat
  BY DEF Record
<1>2. CASE a.status = "absent"
  BY <1>2 DEF RecordAppends
<1>3. CASE a.status # "absent"
  <2>1. b.status # "absent" /\ c.status # "absent"
    BY <1>3 DEF RecordAppends
  <2>2. a.attempts <= c.attempts
    BY <1>1, <1>3, <2>1 DEF RecordAppends
  <2>3. a.attemptIDs \subseteq c.attemptIDs /\ (a.message # None => c.message = a.message)
    BY <1>3, <2>1 DEF RecordAppends
  <2>4. a.status = "delivered" => c = a
    BY <1>3, <2>1 DEF RecordAppends
  <2>5. a.status = "skipped" =>
          \/ c = a
          \/ /\ c.status = "delivered"
             /\ c.attempts = a.attempts /\ c.attemptIDs = a.attemptIDs
    BY <1>3, <2>1 DEF RecordAppends
  <2> QED
    BY <1>1, <2>1, <2>2, <2>3, <2>4, <2>5 DEF RecordAppends
<1> QED
  BY <1>2, <1>3

(* Rendering leaves every record whole, and appends to all but those that   *)
(* were retired before they had a message.                                  *)
LEMMA MessagesSavedGrows ==
  ASSUME NEW l \in Ledger, NEW oid, oid # None, NEW tasks, NEW k \in Keys, Whole(l, k)
  PROVE  LET m == MessagesSaved(l, oid, tasks)
             before == l.deliveries[k]
         IN /\ m.events = l.events
            /\ Whole(m, k)
            /\ ~(k \in tasks /\ Stranded(before)) =>
                  RecordAppends(before, m.deliveries[k])
<1> DEFINE saved(j) == /\ j \in tasks
                       /\ l.revision.oid = oid
                       /\ l.deliveries[j].status # "absent"
                       /\ l.deliveries[j].message = None
                       /\ <<oid, EventOf(j)>> \in Renderable
           deliveries == [j \in Keys |->
              IF saved(j) THEN [l.deliveries[j] EXCEPT !.message = oid]
              ELSE l.deliveries[j]]
           m == MessagesSaved(l, oid, tasks)
           before == l.deliveries[k]
<1>1. m = [l EXCEPT !.deliveries = deliveries]
  BY DEF MessagesSaved
<1>2. deliveries[k] = IF saved(k) THEN [before EXCEPT !.message = oid] ELSE before
  OBVIOUS
<1>3. saved(k) => k \in tasks /\ before.status # "absent" /\ before.message = None
  OBVIOUS
<1> HIDE DEF saved, deliveries, m
<1>4. m.deliveries = deliveries /\ m.events = l.events
  BY <1>1 DEF Ledger
<1>5. before \in Record
  BY DEF Ledger
<1>6. CASE ~saved(k)
  <2>1. m.deliveries[k] = before
    BY <1>2, <1>4, <1>6
  <2> HIDE DEF before
  <2>2. Grows(l, m, k)
    BY <1>4, <2>1, RecordStays DEF before
  <2> QED
    BY <1>4, <2>2 DEF Grows, m, before
<1>7. CASE saved(k)
  <2> DEFINE after == m.deliveries[k]
  <2>1. after = [before EXCEPT !.message = oid]
    BY <1>2, <1>4, <1>7
  <2> HIDE DEF before, after
  <2>2. /\ after.status = before.status /\ after.attempts = before.attempts
        /\ after.attemptIDs = before.attemptIDs /\ after.lease = before.lease
        /\ after.code = before.code /\ after.message = oid
        /\ before.attempts \in Nat
    BY <1>5, <2>1 DEF Record
  <2>3. Whole(m, k)
    BY <1>3, <1>4, <1>7, <2>2 DEF Whole, ValidRecord, before, after
  <2>4. before.status # "delivered"
    BY <1>3, <1>7 DEF Whole, ValidRecord, before
  <2>5. ~Stranded(before) => RecordAppends(before, after)
    BY <1>3, <1>7, <2>2, <2>4 DEF RecordAppends, Stranded
  <2> QED
    BY <1>3, <1>4, <1>7, <2>3, <2>5 DEF m, before, after
<1> QED
  BY <1>6, <1>7

(* A claim that may be made appends an attempt to each record it takes.     *)
LEMMA ClaimBatchGrows ==
  ASSUME NEW l \in Ledger, NEW d \in Destinations, NEW run \in Runs, NEW tasks, NEW now,
         \A k \in Claimable(l, d, tasks, now) : run \notin l.deliveries[k].attemptIDs,
         NEW k \in Keys, Whole(l, k)
  PROVE  LET m == ClaimBatch(l, d, run, tasks, now)
         IN Grows(l, m, k) /\ m.events = l.events
<1> DEFINE lease == [holder |-> run, until |-> now + ClaimDuration]
           claimed == Claimable(l, d, tasks, now)
           taken(record) == [record EXCEPT !.status = "claimed", !.attempts = @ + 1,
                                           !.attemptIDs = @ \cup {run}, !.lease = lease]
           deliveries == [j \in Keys |->
              IF j \in claimed
              THEN [l.deliveries[j] EXCEPT
                      !.status = "claimed", !.attempts = @ + 1,
                      !.attemptIDs = @ \cup {run}, !.lease = lease]
              ELSE l.deliveries[j]]
           destination == [l.destinations[d] EXCEPT
              !.lease = lease, !.nextSendAt = now + SendSpacing]
           m == [l EXCEPT !.deliveries = deliveries, !.destinations[d] = destination]
           before == l.deliveries[k]
<1>1. ClaimBatch(l, d, run, tasks, now) = m
  BY DEF ClaimBatch, Ledger
<1>2. k \in claimed => /\ before.status \notin Terminal \cup {"absent"}
                       /\ before.message # None
                       /\ run \notin before.attemptIDs
  BY DEF Claimable
<1>3. deliveries[k] = IF k \in claimed THEN taken(before) ELSE before
  OBVIOUS
<1>4. lease.holder = run
  OBVIOUS
<1> HIDE DEF lease, claimed, deliveries, destination
<1>5. m.deliveries = deliveries
  BY BatchFields
<1>6. m.events = l.events
  BY DEF Ledger
<1>7. before \in Record
  BY DEF Ledger
<1> HIDE DEF m
<1>8. CASE k \notin claimed
  BY <1>1, <1>3, <1>5, <1>6, <1>8, RecordStays
<1>9. CASE k \in claimed
  <2> DEFINE after == m.deliveries[k]
  <2>1. after = taken(before)
    BY <1>3, <1>5, <1>9
  <2> HIDE DEF before, after
  <2>2. /\ after.status = "claimed" /\ after.attempts = before.attempts + 1
        /\ after.attemptIDs = before.attemptIDs \cup {run} /\ after.lease = lease
        /\ after.code = before.code /\ after.message = before.message
        /\ before.attempts \in Nat
    BY <1>7, <2>1 DEF Record
  <2>3. /\ IsFiniteSet(before.attemptIDs)
        /\ ValidRecord(l, k, before)
    BY <1>2, <1>9 DEF Whole, before
  <2>4. /\ IsFiniteSet(after.attemptIDs)
        /\ Cardinality(after.attemptIDs) = Cardinality(before.attemptIDs) + 1
    <3>1. run \notin before.attemptIDs
      BY <1>2, <1>9
    <3>2. /\ IsFiniteSet(before.attemptIDs \cup {run})
          /\ Cardinality(before.attemptIDs \cup {run}) = Cardinality(before.attemptIDs) + 1
      BY <2>3, <3>1, AttemptsCounted, Zenon
    <3> QED
      BY <2>2, <3>2
  <2>5. after.lease.holder = run /\ run # None
    BY <1>4, <2>2, NoneAssumption
  <2>6. ValidRecord(m, k, after)
    <3>1. before.status # "skipped" /\ before.message # None
      BY <1>2, <1>9 DEF Terminal
    <3>2. /\ EventOf(k) \in m.events
          /\ Cardinality(after.attemptIDs) = after.attempts
          /\ after.code \notin {"subscription-retired", "abandoned"}
      BY <1>6, <2>2, <2>3, <2>4, <3>1 DEF ValidRecord
    <3> QED
      BY <2>2, <2>5, <3>1, <3>2 DEF ValidRecord
  <2>7. Whole(m, k)
    BY <1>2, <1>9, <2>2, <2>4, <2>6 DEF Whole, after
  <2>8. RecordAppends(before, after)
    BY <1>2, <1>9, <2>2 DEF RecordAppends, Terminal
  <2> QED
    BY <1>1, <1>6, <2>7, <2>8 DEF Grows, before, after
<1> QED
  BY <1>8, <1>9

(* A renewal appends: it moves the ends of leases.                          *)
LEMMA RenewBatchGrows ==
  ASSUME NEW l \in Ledger, NEW d \in Destinations, NEW run, NEW tasks, NEW now,
         NEW k \in Keys, Whole(l, k)
  PROVE  LET m == RenewBatch(l, d, run, tasks, now)
         IN Grows(l, m, k) /\ m.events = l.events
<1> DEFINE owned(j) == j \in tasks /\ OwnsRecord(l, d, run, j, now)
           until == now + ClaimDuration
           deliveries == [j \in Keys |->
              IF owned(j) THEN [l.deliveries[j] EXCEPT !.lease.until = until]
              ELSE l.deliveries[j]]
           destination == [l.destinations[d] EXCEPT !.lease.until = until]
           m == [l EXCEPT !.deliveries = deliveries, !.destinations[d] = destination]
           before == l.deliveries[k]
<1>1. RenewBatch(l, d, run, tasks, now) = m
  BY DEF RenewBatch, Ledger
<1>2. owned(k) => before.status = "claimed"
  BY DEF OwnsRecord
<1>3. deliveries[k] = IF owned(k) THEN [before EXCEPT !.lease.until = until] ELSE before
  OBVIOUS
<1> HIDE DEF owned, until, deliveries, destination
<1>4. m.deliveries = deliveries
  BY BatchFields
<1>5. m.events = l.events
  BY DEF Ledger
<1>6. before \in Record
  BY DEF Ledger
<1> HIDE DEF m
<1>7. CASE ~owned(k)
  BY <1>1, <1>3, <1>4, <1>5, <1>7, RecordStays
<1>8. CASE owned(k)
  <2> DEFINE after == m.deliveries[k]
  <2>1. after = [before EXCEPT !.lease.until = until]
    BY <1>3, <1>4, <1>8
  <2> HIDE DEF before, after
  <2>2. /\ after.status = before.status /\ after.attempts = before.attempts
        /\ after.attemptIDs = before.attemptIDs /\ after.message = before.message
        /\ after.code = before.code /\ after.lease.holder = before.lease.holder
        /\ before.attempts \in Nat
    BY <1>6, <2>1 DEF Record, Lease
  <2>3. Whole(m, k)
    BY <1>2, <1>5, <1>8, <2>2 DEF Whole, ValidRecord, before, after
  <2>4. RecordAppends(before, after)
    BY <1>2, <1>8, <2>2 DEF RecordAppends
  <2> QED
    BY <1>1, <1>5, <2>3, <2>4 DEF Grows, before, after
<1> QED
  BY <1>7, <1>8

(* A result appends to a record that its run attempted.                     *)
LEMMA ResultAppliedGrows ==
  ASSUME NEW l \in Ledger, NEW m, NEW run, NEW result \in Result, NEW now,
         NEW k \in Keys, Whole(l, k), l.deliveries[k].status # "absent",
         run \in l.deliveries[k].attemptIDs, m.events = l.events,
         m.deliveries[k] = ResultApplied(l.deliveries[k], run, result, now)
  PROVE  Grows(l, m, k)
<1> DEFINE before == l.deliveries[k]
           after == m.deliveries[k]
<1>1. before \in Record /\ after = ResultApplied(before, run, result, now)
  BY DEF Ledger
<1>2. /\ IsFiniteSet(before.attemptIDs) /\ before.message # None
      /\ ValidRecord(l, k, before)
  BY DEF Whole
<1>3. Cardinality(before.attemptIDs) > 0
  BY <1>2, AttemptsCounted, Zenon
<1>4. before.attempts > 0 /\ before.attempts \in Nat
  BY <1>1, <1>2, <1>3 DEF ValidRecord, Record
<1>5. before.status # "absent" /\ run \in before.attemptIDs
  OBVIOUS
<1>6. result.code \in AttemptOutcomes
  BY DEF Result
<1>7. SUFFICES ASSUME after # before
               PROVE  ValidRecord(m, k, after) /\ RecordAppends(before, after)
                      /\ after.attemptIDs = before.attemptIDs
                      /\ after.message = before.message
  <2>1. CASE after = before
    BY <2>1, RecordStays
  <2>2. CASE after # before
    BY <1>2, <1>7, <2>2 DEF Grows, Whole
  <2> QED
    BY <2>1, <2>2
<1> HIDE DEF before, after
<1>8. before.status # "delivered"
  BY <1>1, <1>7 DEF ResultApplied
<1>9. CASE result.code = "accepted"
  <2>1. after = [before EXCEPT !.status = "delivered", !.code = "accepted",
                               !.lease = NoLease]
    BY <1>1, <1>8, <1>9 DEF ResultApplied
  <2>2. /\ after.status = "delivered" /\ after.code = "accepted"
        /\ after.lease = NoLease /\ after.attempts = before.attempts
        /\ after.attemptIDs = before.attemptIDs /\ after.message = before.message
    BY <1>1, <2>1 DEF Record
  <2> QED
    BY <1>2, <1>4, <1>5, <1>8, <2>2 DEF ValidRecord, RecordAppends, NoLease
<1>10. CASE result.code # "accepted" /\ TerminalFailure(before.attempts, result.code)
  <2>1. /\ before.status # "skipped"
        /\ after = [before EXCEPT !.status = "skipped", !.lease = NoLease,
                      !.code = IF result.code = "payload-too-large"
                               THEN result.code ELSE "abandoned"]
    BY <1>1, <1>7, <1>8, <1>10 DEF ResultApplied
  <2>2. /\ after.status = "skipped" /\ after.code \in {"abandoned", "payload-too-large"}
        /\ after.lease = NoLease /\ after.attempts = before.attempts
        /\ after.attemptIDs = before.attemptIDs /\ after.message = before.message
    BY <1>1, <2>1 DEF Record
  <2> QED
    BY <1>2, <1>4, <1>5, <1>8, <2>1, <2>2 DEF ValidRecord, RecordAppends, NoLease
<1>11. CASE result.code # "accepted" /\ ~TerminalFailure(before.attempts, result.code)
  <2> DEFINE next == now + RetryDelay(before.attempts, result)
  <2>1. /\ before.status # "skipped"
        /\ after = [before EXCEPT !.status = "retryable", !.lease = NoLease,
                      !.code = result.code, !.nextAttemptAt = next]
    BY <1>1, <1>7, <1>8, <1>11 DEF ResultApplied
  <2> HIDE DEF next
  <2>2. /\ after.status = "retryable" /\ after.code = result.code
        /\ after.lease = NoLease /\ after.attempts = before.attempts
        /\ after.attemptIDs = before.attemptIDs /\ after.message = before.message
    BY <1>1, <2>1 DEF Record
  <2>3. after.code \notin {"subscription-retired", "abandoned"}
    BY <1>6, <2>2 DEF AttemptOutcomes, Transient
  <2> QED
    BY <1>2, <1>4, <1>5, <1>8, <2>1, <2>2, <2>3 DEF ValidRecord, RecordAppends, NoLease
<1> QED
  BY <1>9, <1>10, <1>11

(* And so does the record of the results of a batch.                        *)
LEMMA RecordResultsGrows ==
  ASSUME NEW l \in Ledger, AbsentUntouched(l), NEW d \in Destinations, NEW run,
         NEW receipts \in [Keys -> Result \cup {None}], NEW now,
         CanRecordResults(l, run, receipts), NEW k \in Keys, Whole(l, k)
  PROVE  LET m == RecordResults(l, d, run, receipts, now)
         IN Grows(l, m, k) /\ m.events = l.events
<1> DEFINE deliveries == [j \in Keys |->
              IF receipts[j] # None
              THEN ResultApplied(l.deliveries[j], run, receipts[j], now)
              ELSE l.deliveries[j]]
           old == l.destinations[d]
           destination ==
              IF old.lease.holder = run
              THEN [old EXCEPT !.lease = NoLease, !.nextSendAt = now + SendSpacing]
              ELSE old
           m == [l EXCEPT !.deliveries = deliveries, !.destinations[d] = destination]
<1>1. RecordResults(l, d, run, receipts, now) = m
  BY DEF RecordResults, Ledger
<1>2. deliveries[k] = IF receipts[k] # None
                      THEN ResultApplied(l.deliveries[k], run, receipts[k], now)
                      ELSE l.deliveries[k]
  OBVIOUS
<1> HIDE DEF deliveries, destination
<1>3. m.deliveries = deliveries
  BY BatchFields
<1>4. m.events = l.events
  BY DEF Ledger
<1> HIDE DEF m
<1>5. CASE receipts[k] = None
  BY <1>1, <1>2, <1>3, <1>4, <1>5, RecordStays
<1>6. CASE receipts[k] # None
  <2>1. receipts[k] \in Result /\ run \in l.deliveries[k].attemptIDs
    BY <1>6 DEF CanRecordResults
  <2>2. l.deliveries[k].status # "absent"
    BY <2>1 DEF AbsentUntouched
  <2>3. m.deliveries[k] = ResultApplied(l.deliveries[k], run, receipts[k], now)
    BY <1>2, <1>3, <1>6
  <2> QED
    BY <1>1, <1>4, <2>1, <2>2, <2>3, ResultAppliedGrows
<1> QED
  BY <1>5, <1>6

-----------------------------------------------------------------------------
(* What a commit writes. *)

(* A new ledger differs from none only in its anchor.                       *)
LEMMA ActivationBaseFields ==
  ASSUME IInv, NEW r \in Runs
  PROVE  LET base == ActivationBase(r)
         IN /\ base.deliveries = ledger.deliveries /\ base.events = ledger.events
            /\ base.overrides = ledger.overrides
BY DEF IInv, Anchored, ActivationBase, NewLedger, AbsentLedger

(* One record in the result of a commit.                                    *)
LEMMA OutcomeGrows ==
  ASSUME IInv, VInv(ledger), NEW r \in Runs, NEW c \in Commit, Placed(r, c),
         c.op = "activate" \/ ledger.anchor # None, Evident(r, c), NEW k \in Keys
  PROVE  LET before == ledger.deliveries[k]
             next == Outcome(r, c)
         IN /\ Whole(next, k)
            /\ ~(/\ c.op = "claim" /\ k \in worker[r][c.dest].tasks
                 /\ Stranded(before)) => RecordAppends(before, next.deliveries[k])
<1> DEFINE next == Outcome(r, c)
           before == ledger.deliveries[k]
<1>1. /\ ledger \in Ledger /\ before \in Record /\ Whole(ledger, k)
      /\ AbsentUntouched(ledger)
  BY DEF IInv, TypeOK, VInv, Ledger
<1>2. OID(r) \in Configs /\ OID(r) # None
  BY RunTyped
<1>3. Grows(ledger, ledger, k)
  BY <1>1, RecordStays
<1>4. CASE c.op = "activate"
  <2> DEFINE base == ActivationBase(r)
  <2>1. /\ base \in Ledger /\ base.deliveries = ledger.deliveries
        /\ base.events = ledger.events
    BY ActivationBaseTyped, ActivationBaseFields
  <2>2. Whole(base, k)
    BY <1>1, <2>1 DEF Whole, ValidRecord
  <2> HIDE DEF base
  <2>3. Grows(base, base, k)
    BY <2>1, <2>2, RecordStays
  <2>4. next = base \/ next = PolicyApplied(base, RunRevision[r], c.at)
    BY <1>4 DEF Outcome, AcceptPolicy, base
  <2>5. Grows(base, next, k) /\ next.events = base.events
    BY <2>1, <2>2, <2>3, <2>4, PolicyAppliedGrows
  <2> QED
    BY <2>1, <2>5 DEF Grows
<1>5. CASE c.op = "reset"
  <2> DEFINE m == PolicyApplied(ledger, RunRevision[r], c.at)
  <2>1. Grows(ledger, m, k) /\ m.events = ledger.events
    BY <1>1, PolicyAppliedGrows
  <2>2. m \in Ledger
    BY <1>1, RunTyped, PolicyAppliedTyped DEF Commit
  <2> HIDE DEF m
  <2>3. \/ next = ledger
        \/ /\ next.deliveries = m.deliveries /\ next.events = m.events
    BY <1>5, <2>2 DEF Outcome, OverrideRevision, m, Ledger
  <2>4. Grows(ledger, next, k) /\ next.events = ledger.events
    BY <1>3, <2>1, <2>3 DEF Grows, Whole, ValidRecord
  <2> QED
    BY <2>4 DEF Grows
<1>6. CASE c.op = "admit"
  <2>1. next = EventsAdmitted(ledger, c.events, EventTime)
    BY <1>6 DEF Outcome
  <2>2. Grows(ledger, next, k) /\ ledger.events \subseteq next.events
    BY <1>1, <2>1, EventsAdmittedGrows
  <2> QED
    BY <2>2 DEF Grows
<1>7. CASE c.op = "claim"
  <2> DEFINE tasks == worker[r][c.dest].tasks
             mid == Prepared(r, c)
  <2>1. c.dest \in Destinations /\ Allowed(r, c)
    BY <1>7 DEF Placed, Evident, WorkerOps
  <2>2. mid = MessagesSaved(ledger, OID(r), tasks)
    BY DEF Prepared
  <2>3. /\ mid \in Ledger /\ mid.events = ledger.events /\ Whole(mid, k)
        /\ ~(k \in tasks /\ Stranded(before)) => RecordAppends(before, mid.deliveries[k])
    BY <1>1, <1>2, <2>2, MessagesSavedTyped, MessagesSavedGrows
  <2>4. CanClaimBatch(mid, OID(r), c.dest, r, tasks, c.at)
    BY <1>7, <2>1 DEF Allowed
  <2>5. next = ClaimBatch(mid, c.dest, r, tasks, c.at)
    BY <1>7 DEF Outcome
  <2> HIDE DEF mid, tasks, next
  <2>6. \A j \in Claimable(mid, c.dest, tasks, c.at) : r \notin mid.deliveries[j].attemptIDs
    BY <2>4 DEF CanClaimBatch
  <2>7. Grows(mid, next, k) /\ next.events = mid.events
    BY <2>1, <2>3, <2>5, <2>6, ClaimBatchGrows
  <2>8. next \in Ledger
    BY <1>7, OutcomeSound DEF next
  <2>9. mid.deliveries[k] \in Record /\ next.deliveries[k] \in Record
    BY <2>3, <2>8 DEF Ledger
  <2>10. RecordAppends(before, mid.deliveries[k]) => RecordAppends(before, next.deliveries[k])
    BY <1>1, <2>7, <2>9, AppendsCompose DEF Grows
  <2> QED
    BY <1>7, <2>3, <2>7, <2>10 DEF Grows, next, tasks
<1>8. CASE c.op = "renew"
  <2>1. c.dest \in Destinations
    BY <1>8 DEF Placed, WorkerOps
  <2>2. next = RenewBatch(ledger, c.dest, r, worker[r][c.dest].tasks, c.at)
    BY <1>8 DEF Outcome
  <2>3. Grows(ledger, next, k) /\ next.events = ledger.events
    BY <1>1, <2>1, <2>2, RenewBatchGrows
  <2> QED
    BY <1>8, <2>3 DEF Grows
<1>9. CASE c.op = "record"
  <2> DEFINE receipts == worker[r][c.dest].receipts
  <2>1. c.dest \in Destinations /\ Allowed(r, c)
    BY <1>9 DEF Placed, Evident, WorkerOps
  <2>2. receipts \in [Keys -> Result \cup {None}]
    BY <2>1 DEF IInv, TypeOK, Worker
  <2>3. CanRecordResults(ledger, r, receipts)
    BY <1>9, <2>1 DEF Allowed
  <2>4. next = RecordResults(ledger, c.dest, r, receipts, c.at)
    BY <1>9 DEF Outcome
  <2> HIDE DEF receipts
  <2>5. Grows(ledger, next, k) /\ next.events = ledger.events
    BY <1>1, <2>1, <2>2, <2>3, <2>4, RecordResultsGrows
  <2> QED
    BY <1>9, <2>5 DEF Grows
<1>10. CASE c.op = "none"
  <2>1. next = ledger
    BY <1>10 DEF Outcome
  <2> QED
    BY <1>3, <1>10, <2>1 DEF Grows
<1> QED
  BY <1>4, <1>5, <1>6, <1>7, <1>8, <1>9, <1>10 DEF Commit, Operations

(* The audit of a ledger grows by the resets alone.                         *)
LEMMA OutcomeAudit ==
  ASSUME IInv, NEW r \in Runs, NEW c \in Commit, Placed(r, c),
         c.op = "activate" \/ ledger.anchor # None
  PROVE  Outcome(r, c).overrides =
           IF c.op = "reset" /\ ledger.revision # RunRevision[r]
           THEN Append(ledger.overrides, [prior |-> ledger.revision.oid, accepted |-> OID(r)])
           ELSE ledger.overrides
<1>1. CASE c.op = "activate"
  <2> DEFINE base == ActivationBase(r)
  <2>1. base \in Ledger /\ base.overrides = ledger.overrides
    BY ActivationBaseTyped, ActivationBaseFields
  <2> HIDE DEF base
  <2>2. PolicyApplied(base, RunRevision[r], c.at).overrides = base.overrides
    <3>1. c.at \in Nat /\ RunRevision[r] \in [oid: Configs, digest: Digests]
      BY RunTyped DEF Commit
    <3> QED
      BY <2>1, <3>1, PolicyAppliedTyped
  <2>3. \/ Outcome(r, c) = base
        \/ Outcome(r, c) = PolicyApplied(base, RunRevision[r], c.at)
    BY <1>1 DEF Outcome, AcceptPolicy, base
  <2> QED
    BY <1>1, <2>1, <2>2, <2>3
<1>2. CASE c.op = "reset"
  <2>1. ledger.revision = RunRevision[r] => Outcome(r, c) = ledger
    BY <1>2 DEF Outcome
  <2> QED
    BY <1>2, <2>1, ResetOutcome
<1>3. CASE c.op \notin {"activate", "reset"}
  BY <1>3, OtherOutcome DEF KeepsPolicy
<1> QED
  BY <1>1, <1>2, <1>3

(* What a commit writes is whole.                                           *)
LEMMA OutcomeWhole ==
  ASSUME IInv, VInv(ledger), NEW r \in Runs, NEW c \in Commit, Placed(r, c),
         c.op = "activate" \/ ledger.anchor # None, Evident(r, c)
  PROVE  VInv(Outcome(r, c))
<1> DEFINE next == Outcome(r, c)
           audit == ledger.overrides
           entry == [prior |-> ledger.revision.oid, accepted |-> OID(r)]
<1>1. \A k \in Keys : Whole(next, k)
  BY OutcomeGrows
<1>2. next.overrides = IF c.op = "reset" /\ ledger.revision # RunRevision[r]
                       THEN Append(audit, entry) ELSE audit
  BY OutcomeAudit
<1>3. /\ audit \in Seq(Override) /\ MaxOverrides \in Nat /\ Len(audit) <= MaxOverrides
      /\ \A i \in DOMAIN audit : audit[i].prior # audit[i].accepted
      /\ ledger.revision.oid \in Configs \cup {None} /\ OID(r) \in Configs
  BY RunTyped, TimeAssumption DEF IInv, TypeOK, VInv, Ledger, Revision
<1> HIDE DEF audit, next
<1>4. CASE c.op = "reset" /\ ledger.revision # RunRevision[r]
  <2>1. ledger.revision.oid # OID(r) /\ Len(audit) < MaxOverrides
    BY <1>4 DEF Evident, audit
  <2>2. ledger.revision.oid # None
    BY <1>4 DEF IInv, Anchored
  <2>3. entry \in Override
    BY <1>3, <2>2 DEF Override
  <2>4. entry.prior # entry.accepted
    BY <2>1
  <2> HIDE DEF entry
  <2>5. /\ Append(audit, entry) \in Seq(Override)
        /\ Len(Append(audit, entry)) = Len(audit) + 1
        /\ \A i \in 1..Len(audit) : Append(audit, entry)[i] = audit[i]
        /\ Append(audit, entry)[Len(audit) + 1] = entry
    BY <1>3, <2>3, AppendProperties
  <2>6. Len(audit) \in Nat /\ DOMAIN audit = 1..Len(audit)
    BY <1>3, LenProperties
  <2>7. DOMAIN Append(audit, entry) = 1..(Len(audit) + 1)
    BY <2>5, LenProperties
  <2>8. \A i \in DOMAIN Append(audit, entry) :
           Append(audit, entry)[i].prior # Append(audit, entry)[i].accepted
    <3> SUFFICES ASSUME NEW i \in 1..(Len(audit) + 1)
                 PROVE  Append(audit, entry)[i].prior # Append(audit, entry)[i].accepted
      BY <2>7
    <3>1. CASE i = Len(audit) + 1
      BY <2>4, <2>5, <3>1
    <3>2. CASE i # Len(audit) + 1
      <4>1. i \in 1..Len(audit)
        BY <2>6, <3>2
      <4> QED
        BY <1>3, <2>5, <2>6, <4>1
    <3> QED
      BY <3>1, <3>2
  <2>9. Len(Append(audit, entry)) <= MaxOverrides
    BY <1>3, <2>1, <2>5, <2>6
  <2> QED
    BY <1>1, <1>2, <1>4, <2>8, <2>9 DEF VInv, next
<1>5. CASE ~(c.op = "reset" /\ ledger.revision # RunRevision[r])
  BY <1>1, <1>2, <1>3, <1>5 DEF VInv, next
<1> QED
  BY <1>4, <1>5

(* Every step leaves the ledger whole.                                      *)
LEMMA NextWhole ==
  IInv /\ DInv /\ VInv(ledger) /\ [Next]_vars => VInv(ledger')
<1> SUFFICES ASSUME IInv, DInv, VInv(ledger), [Next]_vars
             PROVE  VInv(ledger')
  OBVIOUS
<1>1. Ordered
  BY DEF DInv
<1>2. CASE ledger' = ledger
  BY <1>2
<1>3. ASSUME NEW r \in Runs, Writes(r)
      PROVE  VInv(ledger')
  <2>1. LET c == commit[r]
        IN /\ c \in Commit /\ Placed(r, c) /\ Movable(r, c) /\ Evident(r, c)
           /\ ledger' = Outcome(r, c)
    BY <1>1, <1>3, WriteEffect DEF Writes
  <2> QED
    BY <2>1, OutcomeWhole DEF Movable
<1>4. ledger' = ledger \/ \E r \in Runs : Writes(r)
  BY <1>1, NextSteps DEF Step
<1> QED
  BY <1>2, <1>3, <1>4

(* At first there is nothing to be whole.                                   *)
LEMMA InitWhole == Init => VInv(ledger)
<1> SUFFICES ASSUME Init
             PROVE  VInv(ledger)
  OBVIOUS
<1>1. IsFiniteSet({}) /\ MaxOverrides \in Nat
  BY FS_EmptySet, TimeAssumption
<1>2. ledger.overrides = << >> /\ \A k \in Keys : ledger.deliveries[k] = NoRecord
  BY DEF Init, AbsentLedger
<1>3. ASSUME NEW k \in Keys PROVE Whole(ledger, k)
  <2>1. ledger.deliveries[k].attemptIDs = {} /\ ledger.deliveries[k].status = "absent"
    BY <1>2 DEF NoRecord
  <2> QED
    BY <1>1, <2>1 DEF Whole
<1>4. Len(ledger.overrides) = 0 /\ DOMAIN ledger.overrides = {}
  BY <1>2
<1> QED
  BY <1>1, <1>3, <1>4 DEF VInv

-----------------------------------------------------------------------------
(* The records a run has set out to claim. *)

(* A worker has a ledger to work on.  The tasks of one that has yet to      *)
(* claim are what its policy asks for, and unless a reset may have brought  *)
(* that policy back none of them has been retired while it is in force.     *)
Tasked(p, d) ==
  LET w == worker[p][d]
  IN /\ w.pc \notin {"off", "end"} => ledger.anchor # None
     /\ w.pc = "claim" =>
          /\ \A k \in w.tasks : InForce(OID(p), k)
          /\ Reinstated(p) = {} =>
               \/ ~Leads(ledger.revision.oid, p)
               \/ /\ ledger.revision.oid = OID(p)
                  /\ \A k \in w.tasks : ~Dropped(ledger.deliveries[k])

(* What the store relies on.                                                *)
SInv ==
  /\ PInv(ledger)
  /\ VInv(ledger)
  /\ \A p \in Runs, d \in Destinations : Tasked(p, d)

(* There is a ledger once there is a policy.                                *)
LEMMA PolicyAnchors ==
  ASSUME IInv, ledger.revision.oid # None
  PROVE  ledger.anchor # None
BY DEF IInv, Anchored, AbsentLedger, NoRevision

(* The tasks a run starts with are asked for by its policy.                 *)
LEMMA StartsTasked ==
  ASSUME IInv, SInv, NEW r \in Runs, NEW d \in Destinations, Starts(r, d)
  PROVE  Tasked(r, d)'
<1> DEFINE v == worker'[r][d]
<1>1. v.pc \in {"claim", "end"}
  BY DEF Starts
<1>2. SUFFICES ASSUME v.pc = "claim" PROVE Tasked(r, d)'
  BY <1>1 DEF Tasked
<1>3. ledger' = ledger /\ ledger.revision.oid = OID(r)
  BY <1>2 DEF Starts
<1>4. ledger.anchor # None
  BY <1>3, RunTyped, PolicyAnchors
<1>5. ASSUME NEW k \in v.tasks
      PROVE  InForce(OID(r), k) /\ ~Dropped(ledger.deliveries[k])
  <2>1. k \in Keys /\ Live(ledger.deliveries[k])
    BY <1>2, <1>5 DEF Starts, Live
  <2>2. Destined(ledger, DestinationOf(k)) /\ Employed(ledger, k) /\ Whole(ledger, k)
    BY <2>1, KeyDestination DEF SInv, PInv, VInv
  <2>3. InForce(OID(r), k)
    BY <1>3, <2>1, <2>2 DEF Destined, Employed, Subscribed, InForce
  <2>4. ~Dropped(ledger.deliveries[k])
    BY <2>1, <2>2 DEF Live, Terminal, Whole, ValidRecord, Dropped
  <2> QED
    BY <2>3, <2>4
<1> QED
  BY <1>3, <1>4, <1>5 DEF Tasked

(* The tasks a run has stay asked for.                                      *)
LEMMA StepTasked ==
  ASSUME IInv, IInv', DInv, SInv, RetirementStep, NEW r \in Runs, Step(r),
         NEW p \in Runs, NEW d \in Destinations
  PROVE  Tasked(p, d)'
<1> DEFINE w == worker[p][d]
           v == worker'[p][d]
<1>1. Tasked(p, d)
  BY DEF SInv
<1>2. ledger.anchor # None => ledger'.anchor # None /\ Drift(p)
  BY PolicyDrifts DEF DInv
<1>3. CASE p = r /\ Starts(r, d)
  BY <1>3, StartsTasked
<1>4. CASE p = r /\ Ends(r, d)
  BY <1>4 DEF Ends, EndedWorker, NoWorker, Tasked
<1>5. CASE p = r /\ (Takes(r, d) \/ Turns(r, d) \/ Sends(r, d))
  <2>1. w.pc \notin {"off", "end"} /\ v.pc # "claim"
    BY <1>5 DEF Takes, Turns, Sends, Sent, Sending
  <2> QED
    BY <1>1, <1>2, <2>1 DEF Tasked
<1>6. CASE v = w
  <2>1. w.pc \notin {"off", "end"} => ledger'.anchor # None
    BY <1>1, <1>2 DEF Tasked
  <2>2. ASSUME w.pc = "claim", Reinstated(p)' = {}, Leads(ledger'.revision.oid, p),
               NEW k \in w.tasks
        PROVE  ledger'.revision.oid = OID(p) /\ ~Dropped(ledger'.deliveries[k])
    <3>1. Drift(p) /\ k \in Keys
      BY <1>1, <1>2, <2>2 DEF Tasked, IInv, TypeOK, Worker
    <3>2. Reinstated(p) = {}
      BY <2>2, <3>1 DEF Drift
    <3>3. ~Leads(ledger.revision.oid, p) \/ ledger.revision.oid = OID(p)
      BY <1>1, <2>2, <3>2 DEF Tasked
    <3>4. ledger'.revision.oid = ledger.revision.oid
      BY <2>2, <3>1, <3>2, <3>3 DEF Drift
    <3>5. ledger'.revision.oid = OID(p) /\ InForce(OID(p), k) /\ ~Dropped(ledger.deliveries[k])
      BY <1>1, <2>2, <3>2, <3>3, <3>4 DEF Tasked
    <3> QED
      BY <3>1, <3>5 DEF RetirementStep, Dropped
  <2>3. ASSUME w.pc = "claim", Reinstated(p)' = {}, Leads(ledger'.revision.oid, p)
        PROVE  ledger'.revision.oid = OID(p)
    <3>1. Drift(p)
      BY <1>1, <1>2, <2>3 DEF Tasked
    <3> QED
      BY <1>1, <2>3, <3>1 DEF Tasked, Drift
  <2>4. w.pc = "claim" => \A k \in w.tasks : InForce(OID(p), k)
    BY <1>1 DEF Tasked
  <2>5. /\ Reinstated(p)' = {i \in DOMAIN ledger'.overrides : Leads(ledger'.overrides[i].accepted, p)}
        /\ Tasked(p, d)' <=>
             /\ v.pc \notin {"off", "end"} => ledger'.anchor # None
             /\ v.pc = "claim" =>
                  /\ \A k \in v.tasks : InForce(OID(p), k)
                  /\ Reinstated(p)' = {} =>
                       \/ ~Leads(ledger'.revision.oid, p)
                       \/ /\ ledger'.revision.oid = OID(p)
                          /\ \A k \in v.tasks : ~Dropped(ledger'.deliveries[k])
    BY DEF Tasked, Reinstated
  <2> QED
    BY <1>6, <2>1, <2>2, <2>3, <2>4, <2>5
<1> QED
  BY <1>3, <1>4, <1>5, <1>6 DEF Step, Moves

(* Every step keeps what the store relies on.                               *)
LEMMA NextStorable == IInv /\ DInv /\ SInv /\ [Next]_vars => SInv'
<1> SUFFICES ASSUME IInv, DInv, SInv, [Next]_vars
             PROVE  SInv'
  OBVIOUS
<1>1. IInv' /\ Ordered
  BY NextSound DEF DInv
<1>2. PInv(ledger') /\ RetirementStep /\ VInv(ledger')
  BY NextWork, NextWhole DEF SInv
<1>3. ASSUME NEW p \in Runs, NEW d \in Destinations PROVE Tasked(p, d)'
  <2>1. CASE \E r \in Runs : Step(r)
    BY <1>1, <1>2, <2>1, StepTasked
  <2>2. CASE UNCHANGED <<ledger, worker>>
    BY <2>2 DEF SInv, Tasked, Reinstated
  <2> QED
    BY <1>1, <2>1, <2>2, NextSteps
<1>4. PInv(ledger)' /\ VInv(ledger)'
  BY <1>2
<1> QED
  BY <1>3, <1>4 DEF SInv

(* Nobody works at first.                                                   *)
LEMMA InitStorable == Init => SInv
<1> SUFFICES ASSUME Init
             PROVE  SInv
  OBVIOUS
<1>1. \A p \in Runs, d \in Destinations : worker[p][d].pc = "off"
  BY DEF Init, NoWorker
<1> QED
  BY <1>1, InitWork, InitWhole DEF SInv, Tasked

-----------------------------------------------------------------------------
(* What may be written is accepted. *)

(* A commit that may be evaluated, of a transition that does not fail, has  *)
(* the evidence of a write.                                                 *)
LEMMA CandidateSound ==
  ASSUME IInv, SInv, NEW r \in Runs, NEW c \in Candidates(r), Allowed(r, c)
  PROVE  /\ c \in Commit /\ Placed(r, c) /\ Evident(r, c)
         /\ c.op = "activate" \/ ledger.anchor # None
<1>1. c \in Commit /\ Placed(r, c)
  <2>1. CASE commit[r] # NoCommit
    <3>1. c = commit[r]
      BY <2>1 DEF Candidates
    <3>2. commit[r] \in Commit /\ CommitShape(r)
      BY DEF IInv, TypeOK
    <3> QED
      BY <3>1, <3>2 DEF CommitShape, Placed
  <2>2. CASE commit[r] = NoCommit
    <3> DEFINE try(op, d, E) ==
          [op |-> op, dest |-> d, events |-> E, at |-> Now(r), fresh |-> FALSE]
    <3>1. \/ c = try("activate", None, {}) \/ c = try("reset", None, {})
          \/ \E E \in SUBSET Events : c = try("admit", None, E)
          \/ \E d \in Destinations :
               worker[r][d].pc \in WorkerOps /\ c = try(worker[r][d].pc, d, {})
      BY <2>2 DEF Candidates
    <3>2. Now(r) \in Nat
      BY RunTyped DEF IInv, TypeOK
    <3>3. CASE \/ c = try("activate", None, {}) \/ c = try("reset", None, {})
               \/ \E E \in SUBSET Events : c = try("admit", None, E)
      <4>1. c.op \in {"activate", "reset", "admit"}
        BY <3>3
      <4>2. c \in Commit
        <5>1. \A op \in Operations, E \in SUBSET Events : try(op, None, E) \in Commit
          BY <3>2 DEF Commit
        <5>2. {} \in SUBSET Events /\ {"activate", "reset", "admit"} \subseteq Operations
          BY DEF Operations
        <5> HIDE DEF try
        <5> QED
          BY <3>3, <5>1, <5>2
      <4> QED
        BY <4>1, <4>2 DEF Placed, WorkerOps
    <3>4. CASE \E d \in Destinations :
                 worker[r][d].pc \in WorkerOps /\ c = try(worker[r][d].pc, d, {})
      BY <3>2, <3>4 DEF Commit, Operations, Placed, WorkerOps
    <3> QED
      BY <3>1, <3>3, <3>4
  <2> QED
    BY <2>1, <2>2
<1>2. CASE c.op = "activate"
  BY <1>1, <1>2 DEF Evident, WorkerOps
<1>3. CASE c.op = "reset"
  <2>1. \/ ledger.revision = RunRevision[r]
        \/ /\ ledger.revision.oid \notin {None, OID(r)}
           /\ Len(ledger.overrides) < MaxOverrides
    BY <1>3 DEF Allowed, CanOverrideRevision, OID
  <2>2. ledger.revision.oid # None
    BY <2>1, RunTyped DEF OID
  <2> QED
    BY <1>1, <1>3, <2>1, <2>2, PolicyAnchors DEF Evident, WorkerOps
<1>4. CASE c.op = "admit"
  <2>1. ledger.revision.oid = OID(r)
    BY <1>4 DEF Allowed, CanAdmitEvents
  <2> QED
    BY <1>1, <1>4, <2>1, RunTyped, PolicyAnchors DEF Evident, WorkerOps
<1>5. CASE c.op \in WorkerOps
  <2>1. Tasked(r, c.dest) /\ worker[r][c.dest].pc \notin {"off", "end"}
    BY <1>1, <1>5 DEF Placed, SInv, WorkerOps
  <2> QED
    BY <1>1, <1>5, <2>1 DEF Tasked, Evident, WorkerOps
<1> QED
  BY <1>2, <1>3, <1>4, <1>5 DEF Allowed, WorkerOps

(* The revision of its result is one the store lets replace the accepted    *)
(* one, and its audit trail is the one that justifies it.                   *)
LEMMA OutcomeReplaces ==
  ASSUME IInv, NEW r \in Runs, NEW c \in Commit, Placed(r, c), ledger.anchor # None,
         Allowed(r, c)
  PROVE  LET next == Outcome(r, c)
             relation == Relation(r, next.revision.oid)
         IN /\ next.anchor = ledger.anchor
            /\ CheckRevision(ledger.revision, next.revision, relation)
            /\ AuditAppends(ledger, next, relation)
<1> DEFINE next == Outcome(r, c)
           relation == Relation(r, next.revision.oid)
<1>1. next.overrides =
        IF c.op = "reset" /\ ledger.revision # RunRevision[r]
        THEN Append(ledger.overrides, [prior |-> ledger.revision.oid, accepted |-> OID(r)])
        ELSE ledger.overrides
  BY OutcomeAudit
<1>2. CASE c.op = "activate"
  <2>1. ActivationBase(r) = ledger /\ next.revision = RunRevision[r]
    BY <1>2, ActivationBaseTyped, ActivateOutcome
  <2>2. next.revision.oid = OID(r)
    BY <2>1 DEF OID
  <2>3. CheckRevision(ledger.revision, RunRevision[r], relation) /\ relation # "override"
    BY <1>2, <2>1, <2>2 DEF Allowed, CanAcceptPolicy
  <2>4. next.anchor = ledger.anchor
    <3>1. c.at \in Nat /\ RunRevision[r] \in [oid: Configs, digest: Digests]
      BY RunTyped DEF Commit
    <3>2. ledger \in Ledger
      BY DEF IInv, TypeOK
    <3>3. PolicyApplied(ledger, RunRevision[r], c.at).anchor = ledger.anchor
      BY <3>1, <3>2, PolicyAppliedTyped
    <3> QED
      BY <1>2, <2>1, <3>3 DEF Outcome, AcceptPolicy
  <2> QED
    BY <1>1, <1>2, <2>1, <2>3, <2>4 DEF AuditAppends
<1>3. CASE c.op = "reset"
  <2>1. next.anchor = ledger.anchor /\ next.revision = RunRevision[r]
    BY <1>3, ResetOutcome
  <2>2. next.revision.oid = OID(r)
    BY <2>1 DEF OID
  <2>3. CASE ledger.revision = RunRevision[r]
    <3>1. relation = "unneeded"
      BY <2>2, <2>3 DEF Relation, OID
    <3> QED
      BY <1>1, <2>1, <2>3, <3>1 DEF CheckRevision, AuditAppends
  <2>4. CASE ledger.revision # RunRevision[r]
    <3>1. relation = "override" /\ ledger.revision.oid # OID(r)
      BY <1>3, <2>2, <2>4 DEF Allowed, CanOverrideRevision, OID
    <3> QED
      BY <1>1, <1>3, <2>1, <2>2, <2>4, <3>1 DEF CheckRevision, AuditAppends
  <2> QED
    BY <2>3, <2>4
<1>4. CASE c.op \notin {"activate", "reset"}
  <2>1. next.anchor = ledger.anchor /\ next.revision = ledger.revision
    BY <1>4, OtherOutcome DEF KeepsPolicy
  <2>2. relation = "unneeded"
    BY <2>1 DEF Relation
  <2> QED
    BY <1>1, <1>4, <2>1, <2>2 DEF CheckRevision, AuditAppends
<1> QED
  BY <1>2, <1>3, <1>4

(* Its events are those there were and those it admits.                     *)
LEMMA OutcomeEvents ==
  ASSUME IInv, NEW r \in Runs, NEW c \in Commit, Placed(r, c)
  PROVE  ledger.events \subseteq Outcome(r, c).events
<1>1. ledger \in Ledger /\ OID(r) \in Configs
  BY RunTyped DEF IInv, TypeOK
<1>2. \A l \in Ledger : \A oid, tasks : MessagesSaved(l, oid, tasks).events = l.events
  BY DEF MessagesSaved, Ledger
<1>3. \A l \in Ledger : \A incoming, now : PolicyApplied(l, incoming, now).events = l.events
  BY DEF PolicyApplied, Ledger
<1>4. CASE c.op = "activate"
  <2>1. ActivationBase(r) \in Ledger /\ ActivationBase(r).events = ledger.events
    BY ActivationBaseTyped, ActivationBaseFields
  <2> QED
    BY <1>3, <1>4, <2>1 DEF Outcome, AcceptPolicy
<1>5. CASE c.op = "reset"
  <2> DEFINE m == PolicyApplied(ledger, RunRevision[r], c.at)
  <2>1. c.at \in Nat /\ RunRevision[r] \in [oid: Configs, digest: Digests]
    BY RunTyped DEF Commit
  <2>2. m \in Ledger /\ m.events = ledger.events
    BY <1>1, <1>3, <2>1, PolicyAppliedTyped
  <2> HIDE DEF m
  <2>3. Outcome(r, c) = ledger \/ Outcome(r, c).events = m.events
    BY <1>5, <2>2 DEF Outcome, OverrideRevision, m, Ledger
  <2> QED
    BY <2>2, <2>3
<1>6. CASE c.op = "admit"
  BY <1>1, <1>6 DEF Outcome, EventsAdmitted, Ledger
<1>7. CASE c.op = "claim"
  <2>1. Prepared(r, c) \in Ledger /\ Prepared(r, c).events = ledger.events
    BY <1>1, <1>2, MessagesSavedTyped DEF Prepared
  <2>2. \A l \in Ledger : \A d, tasks, now : ClaimBatch(l, d, r, tasks, now).events = l.events
    BY DEF ClaimBatch, Ledger
  <2> QED
    BY <1>7, <2>1, <2>2 DEF Outcome
<1>8. CASE c.op = "renew"
  <2>1. \A l \in Ledger : \A d, tasks, now : RenewBatch(l, d, r, tasks, now).events = l.events
    BY DEF RenewBatch, Ledger
  <2> QED
    BY <1>1, <1>8, <2>1 DEF Outcome
<1>9. CASE c.op = "record"
  <2>1. \A l \in Ledger : \A d, receipts, now :
           RecordResults(l, d, r, receipts, now).events = l.events
    BY DEF RecordResults, Ledger
  <2> QED
    BY <1>1, <1>9, <2>1 DEF Outcome
<1>10. CASE c.op = "none"
  BY <1>10 DEF Outcome
<1> QED
  BY <1>4, <1>5, <1>6, <1>7, <1>8, <1>9, <1>10 DEF Commit, Operations

(* A record that a claim renders too late was retired underneath it.        *)
LEMMA StrandedUnderneath ==
  ASSUME IInv, SInv, NEW r \in Runs, NEW c \in Commit, c.op = "claim", Placed(r, c),
         Allowed(r, c), NEW k \in Keys, k \in worker[r][c.dest].tasks,
         Stranded(ledger.deliveries[k])
  PROVE  RetiredUnderneath(r, c.dest)
<1>1. c.dest \in Destinations /\ worker[r][c.dest].pc = "claim"
  BY DEF Placed, WorkerOps
<1>2. Dropped(ledger.deliveries[k])
  <2>1. Whole(ledger, k)
    BY DEF SInv, VInv
  <2> QED
    BY <2>1 DEF Whole, ValidRecord, Stranded, Dropped
<1>3. ledger.revision.oid = OID(r)
  <2>1. ledger \in Ledger
    BY DEF IInv, TypeOK
  <2>2. Prepared(r, c).revision = ledger.revision
    <3>1. OID(r) \in Configs
      BY RunTyped
    <3> QED
      BY <2>1, <3>1, MessagesSavedTyped DEF Prepared, KeepsPolicy
  <2> QED
    BY <2>2 DEF Allowed, CanClaimBatch
<1>4. Reinstated(r) # {}
  <2>1. Tasked(r, c.dest) /\ Leads(ledger.revision.oid, r)
    BY <1>1, <1>3 DEF SInv, Leads
  <2> QED
    BY <1>1, <1>2, <2>1 DEF Tasked
<1> QED
  BY <1>2, <1>4 DEF RetiredUnderneath, Stranded, Dropped

(* The store accepts what its reducers make, but for such a claim.          *)
LEMMA CandidateAccepted ==
  ASSUME IInv, SInv, NEW r \in Runs, NEW c \in Candidates(r), Allowed(r, c)
  PROVE  Accepted(r, c) \/ (c.op = "claim" /\ RetiredUnderneath(r, c.dest))
<1> DEFINE next == Outcome(r, c)
           relation == Relation(r, next.revision.oid)
<1>1. /\ c \in Commit /\ Placed(r, c) /\ Evident(r, c)
      /\ c.op = "activate" \/ ledger.anchor # None
  BY CandidateSound
<1>2. VInv(next)
  BY <1>1, OutcomeWhole DEF SInv
<1>3. ledger.anchor # None => /\ next.anchor = ledger.anchor
                              /\ CheckRevision(ledger.revision, next.revision, relation)
                              /\ AuditAppends(ledger, next, relation)
  BY <1>1, OutcomeReplaces
<1>4. ValidLedger(next)
  <2>1. Anchored(next)
    BY <1>1, OutcomeSound
  <2>2. next.anchor # None
    BY <1>1, <1>3, ActivateOutcome
  <2> QED
    BY <1>2, <2>1, <2>2 DEF Anchored, ValidLedger, VInv, Whole
<1>5. CASE ledger.anchor = None
  <2>1. ledger.overrides = << >> /\ c.op # "reset"
    BY <1>1, <1>5 DEF IInv, Anchored, AbsentLedger
  <2>2. next.overrides = << >>
    BY <1>1, <2>1, OutcomeAudit
  <2> QED
    BY <1>4, <1>5, <2>2 DEF Accepted, Storable
<1>6. CASE ledger.anchor # None /\ \A k \in Keys :
             ~(/\ c.op = "claim" /\ k \in worker[r][c.dest].tasks
               /\ Stranded(ledger.deliveries[k]))
  <2>1. \A k \in Keys : RecordAppends(ledger.deliveries[k], next.deliveries[k])
    BY <1>1, <1>6, OutcomeGrows DEF SInv
  <2>2. ledger.events \subseteq next.events
    BY <1>1, OutcomeEvents
  <2> QED
    BY <1>3, <1>4, <1>6, <2>1, <2>2 DEF Accepted, Storable, ValidAppend
<1>7. CASE ledger.anchor # None /\ \E k \in Keys :
             /\ c.op = "claim" /\ k \in worker[r][c.dest].tasks
             /\ Stranded(ledger.deliveries[k])
  BY <1>1, <1>7, StrandedUnderneath
<1> QED
  BY <1>5, <1>6, <1>7

(* What the store relies on holds in every reachable state.                 *)
LEMMA StorableAlways == Spec => [](IInv /\ DInv /\ SInv)
<1>1. Init => IInv /\ DInv /\ SInv
  BY InitSound, InitDelivers, InitStorable
<1>2. IInv /\ DInv /\ SInv /\ [Next]_vars => (IInv /\ DInv /\ SInv)'
  BY NextSound, NextDelivers, NextStorable
<1> QED
  BY <1>1, <1>2, PTL DEF Spec

(* The guards of store.Commit (validateAppend, CheckRevision and the codec  *)
(* Validate) never refuse what a reducer returned: whatever the runs do, a  *)
(* transition that did not fail by itself is written or met a conflict, but *)
(* for the claim of a record that was retired underneath it.                *)
THEOREM StoreRefusesNothing == Spec => []StoreNeverRefuses
<1>1. IInv /\ SInv => StoreNeverRefuses
  BY CandidateAccepted DEF StoreNeverRefuses
<1> QED
  BY <1>1, StorableAlways, PTL
=============================================================================
