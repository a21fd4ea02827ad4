---------------------------- MODULE Observation ----------------------------
(***************************************************************************)
(* How a reconcile run finds the creations and the merges it announces:    *)
(* Activate, FinalizeNotifications, Observe and recordObservation of       *)
(* internal/reconcile, the lifecycle readers of both forges, and the rules *)
(* that admit an event.  Several runs work on one ledger, each may stop    *)
(* anywhere, and every read of the forge may fail.                         *)
(*                                                                         *)
(* Time is counted in ticks, Second of them to a second.  Azure DevOps     *)
(* stamps what happens with the instant, GitHub with its second.  A ledger *)
(* commit is one step here: NotesStore shows that it is atomic.            *)
(***************************************************************************)
EXTENDS Integers, Sequences, FiniteSets

CONSTANTS
  Requests,    \* managed requests
  Old,         \* those of them opened before notifications were enabled
  Runs,        \* reconcile runs that may overlap
  Policies,    \* Policies[p]: the subscriptions <<destination, kind>> of revision p
  Hosts,       \* the forges the instance looks at
  Second,      \* ticks in a second
  PageLimit,   \* entries of one page of a GitHub listing (100 in the code)
  PartitionLimit, \* entries a partition on Azure DevOps stays below (100 in the code)
  PageBudget,  \* pages one run may read (98 in the code)
  MaxPending,  \* pending partitions of a cursor (64 in the code)
  MaxTime,     \* bound on the clock,
  Horizon,     \*   and Horizon[h] that on forge h
  MaxFaults,   \* bound on failed reads and lost runs
  Recurring    \* the runs that begin again when they have ended

Kinds == {"created", "merged"}
Subs == UNION {Policies[p] : p \in DOMAIN Policies}
KindOf(s) == s[2]
Time == 0..MaxTime

ASSUME PoliciesAssumption ==
  /\ Policies \in Seq(SUBSET Subs) /\ Policies # <<>>
  /\ \A s \in Subs : KindOf(s) \in Kinds
ASSUME RequestsAssumption == Old \subseteq Requests /\ IsFiniteSet(Old)
ASSUME HostsAssumption == Hosts \subseteq {"github", "azuredevops"}
ASSUME BoundsAssumption ==
  /\ Second \in Nat \ {0} /\ PageLimit \in Nat \ {0} /\ PartitionLimit \in Nat \ {0}
  /\ PageBudget \in Nat \ {0}
  /\ MaxPending \in Nat \ {0} /\ MaxTime \in Nat /\ MaxFaults \in Nat
  /\ Horizon \in [Hosts -> 0..MaxTime]
  /\ Recurring \subseteq Runs

VARIABLES
  host,      \* the forge of this repository
  clock,     \* the time, the same for the forge and the runs
  tip,       \* the revision of the configuration a new run pins
  request,   \* the requests on the forge
  order,     \* the requests in the order of their creation
  ledger,    \* the ledger: policy, cutoffs, known requests, scans, deliveries
  run,       \* what each run is doing
  faults,    \* failures so far
  scanned    \* history: the latest Through a scan began with

vars == <<host, clock, tip, request, order, ledger, run, faults, scanned>>

Never == -1
States == {"absent", "open", "merged"}
Larger(a, b) == IF a < b THEN b ELSE a

(***************************************************************************)
(* The forge.  A stamp is what the forge says of an instant.  A request    *)
(* has an origin when the run that created it had notifications enabled.   *)
(***************************************************************************)
NoRequest == [state |-> "absent", created |-> Never, merged |-> Never,
              origin |-> Never, due |-> {}, late |-> {}]

Stamp(t) == IF host = "github" THEN (t \div Second) * Second ELSE t

When(q, k) == IF k = "created" THEN request[q].created ELSE request[q].merged

\* History of an event of kind k that happens now: the subscriptions in force, to
\* which it is due as long as they stay, and whether it falls into the second of
\* a scan that began before it.
DueNow(k) == {s \in DOMAIN ledger.cutoff : KindOf(s) = k}
LateNow(k) == IF scanned > Stamp(clock) THEN {k} ELSE {}

Occurred(q, k) ==
  IF k = "created" THEN request[q].state # "absent" /\ request[q].origin # Never
                   ELSE request[q].state = "merged"

Within(t, from, through) == from <= t /\ t <= through

(***************************************************************************)
(* Admission.                                                              *)
(***************************************************************************)
EventAdmissionTime(q, k) ==
  LET when == Stamp(When(q, k))
      origin == request[q].origin
  IN  IF k = "created" /\ origin > when /\ Stamp(origin) = when
        THEN origin ELSE when

\* The event of kind k that the fact f of a request gives a run at `now`.
EventFrom(f, k, now) ==
  IF k = "created"
    THEN /\ request[f.id].origin # Never
         /\ Stamp(request[f.id].created) <= now
    ELSE f.state = "merged"

\* Mutant: the cutoff is not compared.
AdmitEventBackfilled(q, k) ==
  {<<q, s>> : s \in {s \in DOMAIN ledger.cutoff : KindOf(s) = k}}

AdmitEvent(q, k) ==
  {<<q, s>> : s \in {s \in DOMAIN ledger.cutoff :
     KindOf(s) = k /\ EventAdmissionTime(q, k) >= ledger.cutoff[s]}}

\* The earliest occurrence that may still be admitted; `now` without a subscription.
EarliestAdmissibleTime(k, now) ==
  LET cutoffs == {ledger.cutoff[s] : s \in {s \in DOMAIN ledger.cutoff : KindOf(s) = k}}
  IN  IF cutoffs = {} THEN now
      ELSE (CHOOSE c \in cutoffs : \A d \in cutoffs : c <= d) - Second

AcceptPolicy(p, now) ==
  [s \in Policies[p] |->
     IF s \in DOMAIN ledger.cutoff THEN ledger.cutoff[s] ELSE now]

(***************************************************************************)
(* Scans.  A query is a frozen interval and a cursor into it; progress is  *)
(* a query that may be complete.                                           *)
(***************************************************************************)
Start == [page |-> 1, pending |-> <<>>]
NoScan == [from |-> 0, through |-> 0, cursor |-> Start, complete |-> TRUE]

\* Mutant: a scan that was not complete is not resumed.
QueryAnew(k, now) ==
  [from |-> Larger(ledger.scan[k].through, EarliestAdmissibleTime(k, now)),
   through |-> now, cursor |-> Start]

Query(k, now) ==
  LET prev == ledger.scan[k]
  IN  IF ~prev.complete
        THEN [from |-> prev.from, through |-> prev.through, cursor |-> prev.cursor]
        ELSE [from |-> Larger(prev.through, EarliestAdmissibleTime(k, now)),
              through |-> now, cursor |-> Start]

Listed(k) ==
  IF k = "created" THEN {q \in Requests : request[q].state # "absent"}
                   ELSE {q \in Requests : request[q].state = "merged"}

\* GitHub: pages in creation order, the one before the cursor read again.  The
\* walk stops at a request created after the interval.
GithubPage(k, q) ==
  LET page == q.cursor.page
      walked == ((Larger(1, page - 1) - 1) * PageLimit + 1 .. page * PageLimit)
                  \cap DOMAIN order
      beyond == \E i \in walked : Stamp(request[order[i]].created) > q.through
      complete == beyond \/ page * PageLimit >= Len(order)
  IN  [ok |-> TRUE, complete |-> complete, pages |-> IF page = 1 THEN 1 ELSE 2,
       found |-> {r \in Listed(k) : /\ \E i \in walked : order[i] = r
                                    /\ Within(Stamp(When(r, k)), q.from, q.through)},
       cursor |-> IF complete THEN Start ELSE [Start EXCEPT !.page = page + 1]]

\* Mutant: of a cursor only the first partition is taken up again.
PendingFirst(q) ==
  IF q.cursor.pending = <<>> THEN << <<q.from, q.through>> >> ELSE <<Head(q.cursor.pending)>>

Pending(q) ==
  IF q.cursor.pending = <<>> THEN << <<q.from, q.through>> >> ELSE q.cursor.pending

\* Azure DevOps: partitions of the interval, halved until one fits a page.  A
\* partition that neither fits nor can be halved keeps the scan where it is.
AzurePage(k, q) ==
  LET pending == Pending(q)
      part == Head(pending)
      hits == {r \in Listed(k) : Within(Stamp(When(r, k)), part[1], part[2])}
      full == Cardinality(hits) >= PartitionLimit
      mid == (part[1] + part[2]) \div 2
      halves == << <<part[1], mid>>, <<mid, part[2]>> >>
      next == IF full THEN halves \o Tail(pending) ELSE Tail(pending)
  IN  IF full /\ (part[2] - part[1] <= 1 \/ Len(pending) >= MaxPending)
        THEN [ok |-> FALSE, complete |-> FALSE, pages |-> 1, found |-> {},
              cursor |-> [Start EXCEPT !.pending = pending]]
        ELSE [ok |-> TRUE, complete |-> next = <<>>,
              pages |-> IF full THEN 1 ELSE 2,
              found |-> IF full THEN {} ELSE hits,
              cursor |-> [Start EXCEPT !.pending = next]]

ListLifecyclePage(k, q) ==
  IF host = "github" THEN GithubPage(k, q) ELSE AzurePage(k, q)

GetLifecycleRequest(q) == [id |-> q, state |-> request[q].state]

(***************************************************************************)
(* Runs.  A run pins a revision (cfg), reads the clock (now), activates    *)
(* the policy, creates requests (outs), and then observes: the known open  *)
(* requests (todo) first, the scans of both kinds (q) after them.  What it *)
(* read (facts, progress) is committed by a later step.                    *)
(***************************************************************************)
NoQuery == [from |-> 0, through |-> 0, cursor |-> Start]
Idle == [pc |-> "idle", cfg |-> 0, now |-> 0, outs |-> {}, todo |-> {},
         kind |-> "created", q |-> [k \in Kinds |-> NoQuery], pages |-> 0,
         facts |-> {}, progress |-> {}, broke |-> FALSE]

Ended(r) == IF r \in Recurring THEN Idle ELSE [Idle EXCEPT !.pc = "done"]

Init ==
  /\ host \in Hosts
  /\ clock = 0 /\ tip = 1
  /\ request = [q \in Requests |->
       IF q \in Old THEN [NoRequest EXCEPT !.state = "open", !.created = 0] ELSE NoRequest]
  /\ order \in [1..Cardinality(Old) -> Old]
  /\ \A i, j \in DOMAIN order : i # j => order[i] # order[j]
  /\ ledger = [policy |-> 0, cutoff |-> <<>>, known |-> [q \in Requests |-> "absent"],
               scan |-> [k \in Kinds |-> NoScan], delivered |-> {}]
  /\ run = [r \in Runs |-> Idle]
  /\ faults = 0
  /\ scanned = 0

Forge == <<request, order>>
World == <<host, clock, tip>>

\* A run begins: PrepareNotifications accepts the policy of the revision the run
\* pins.  The cutoff is the clock of a moment before the commit.  (History: a
\* subscription that is dropped is owed nothing more, even when it comes back.)
Begin(r) ==
  /\ run[r].pc = "idle"
  /\ run' = [run EXCEPT ![r] = [Idle EXCEPT !.pc = "core", !.cfg = tip]]
  /\ \/ /\ ledger.policy < tip
        /\ \E now \in Larger(0, clock - 1)..clock :
             ledger' = [ledger EXCEPT !.policy = tip, !.cutoff = AcceptPolicy(tip, now)]
        /\ request' = [q \in Requests |-> [request[q] EXCEPT !.due = @ \cap Policies[tip]]]
     \/ ledger.policy >= tip /\ UNCHANGED <<ledger, request>>
  /\ UNCHANGED <<World, order, faults, scanned>>

\* The core of the run creates a request; the origin it carries was read just
\* before the POST.
CreateRequest(r, q) ==
  /\ run[r].pc = "core" /\ run[r].outs = {}
  /\ request[q].state = "absent"
  /\ request' = [request EXCEPT ![q] =
       [state |-> "open", created |-> clock, merged |-> Never, origin |-> clock,
        due |-> DueNow("created"), late |-> LateNow("created")]]
  /\ order' = Append(order, q)
  /\ run' = [run EXCEPT ![r].outs = {q}]
  /\ UNCHANGED <<World, ledger, faults, scanned>>

\* FinalizeNotifications: the run's own request is read back and recorded before
\* any scan.  (Its second Activate refuses what the commit refuses too.)
ReadOutcome(r) ==
  /\ run[r].pc = "core"
  /\ \E q \in run[r].outs :
       run' = [run EXCEPT ![r] = [run[r] EXCEPT !.pc = "recordOutcome", !.outs = @ \ {q},
                                  !.now = clock, !.facts = {GetLifecycleRequest(q)}]]
  /\ UNCHANGED <<World, Forge, ledger, faults, scanned>>

\* Observe reads the ledger and the clock once, and freezes both queries.
StartObserve(r) ==
  /\ run[r].pc \in {"core", "outcome"} /\ run[r].outs = {}
  /\ IF ledger.policy # run[r].cfg
       THEN run' = [run EXCEPT ![r] = Ended(r)] /\ UNCHANGED scanned
       ELSE /\ run' = [run EXCEPT ![r] = [run[r] EXCEPT !.pc = "observe", !.now = clock,
                 !.todo = {q \in Requests : ledger.known[q] = "open"},
                 !.q = [k \in Kinds |-> Query(k, clock)]]]
            /\ scanned' = IF \E k \in Kinds : ledger.scan[k].complete
                            THEN clock ELSE scanned
  /\ UNCHANGED <<World, Forge, ledger, faults>>

PollKnown(r) ==
  /\ run[r].pc = "observe"
  /\ \E q \in run[r].todo :
       run' = [run EXCEPT ![r] = [run[r] EXCEPT !.pc = "record", !.todo = @ \ {q},
                                  !.facts = {GetLifecycleRequest(q)}]]
  /\ UNCHANGED <<World, Forge, ledger, faults, scanned>>

\* One page of the scan of the current kind; `part` is what was read of it.
PageRead(r, page, part, failed) ==
  LET q == run[r].q[run[r].kind]
      progress == [from |-> q.from, through |-> q.through,
                   cursor |-> IF failed /\ page.ok THEN q.cursor ELSE page.cursor,
                   complete |-> page.complete /\ ~failed]
  IN  run' = [run EXCEPT ![r] = [run[r] EXCEPT !.pc = "record",
                !.facts = {GetLifecycleRequest(x) : x \in part},
                !.progress = {progress}, !.pages = @ + page.pages,
                !.broke = failed \/ ~page.ok]]

ReadPage(r) ==
  /\ run[r].pc = "observe" /\ run[r].todo = {}
  /\ LET page == ListLifecyclePage(run[r].kind, run[r].q[run[r].kind])
     IN  PageRead(r, page, page.found, FALSE)
  /\ UNCHANGED <<World, Forge, ledger, faults, scanned>>

\* The commit of recordObservation: requests and progress are written over
\* whatever another run recorded meanwhile.
Recorded(r) ==
  LET facts == run[r].facts
      events == UNION {AdmitEvent(f.id, k) : f \in facts, k \in Kinds}
      admissible == {e \in events : \E f \in facts : f.id = e[1] /\
                                      EventFrom(f, KindOf(e[2]), run[r].now)}
      stateOf(q) == IF \E f \in facts : f.id = q
                      THEN (CHOOSE f \in facts : f.id = q).state ELSE ledger.known[q]
      scanOf(k) == IF run[r].progress # {} /\ k = run[r].kind
                     THEN CHOOSE p \in run[r].progress : TRUE ELSE ledger.scan[k]
  IN  [ledger EXCEPT !.known = [q \in Requests |-> stateOf(q)],
                     !.scan = [k \in Kinds |-> scanOf(k)],
                     !.delivered = @ \cup admissible]

\* What Observe does after a page: the next page, the other kind, or nothing more.
AfterPage(r, x) ==
  LET p == CHOOSE p \in x.progress : TRUE
      idle == [x EXCEPT !.pc = "observe", !.facts = {}, !.progress = {}, !.broke = FALSE]
  IN  IF x.pages >= PageBudget THEN Ended(r)
      ELSE IF ~x.broke /\ ~p.complete THEN [idle EXCEPT !.q[x.kind].cursor = p.cursor]
      ELSE IF x.kind = "created" THEN [idle EXCEPT !.kind = "merged"]
      ELSE Ended(r)

RecordObservation(r) ==
  /\ run[r].pc \in {"recordOutcome", "record"}
  /\ IF ledger.policy # run[r].cfg
       THEN run' = [run EXCEPT ![r] = Ended(r)] /\ UNCHANGED ledger
       ELSE /\ ledger' = Recorded(r)
            /\ run' = [run EXCEPT ![r] =
                 IF run[r].progress # {} THEN AfterPage(r, run[r])
                 ELSE [run[r] EXCEPT !.facts = {},
                         !.pc = IF @ = "recordOutcome" THEN "outcome" ELSE "observe"]]
  /\ UNCHANGED <<World, Forge, faults, scanned>>

\* A read of the forge fails: the request is left out of this run, a page is
\* recorded as far as it was read and ends the scan of its kind.
FailedRead(r) ==
  /\ faults < MaxFaults /\ faults' = faults + 1
  /\ \/ /\ run[r].pc = "core" /\ run[r].outs # {}
        /\ run' = [run EXCEPT ![r] = [run[r] EXCEPT !.pc = "outcome", !.outs = {}]]
     \/ /\ run[r].pc = "observe"
        /\ \E q \in run[r].todo : run' = [run EXCEPT ![r].todo = @ \ {q}]
     \/ /\ run[r].pc = "observe" /\ run[r].todo = {}
        /\ LET page == ListLifecyclePage(run[r].kind, run[r].q[run[r].kind])
           IN  \E part \in SUBSET page.found : PageRead(r, page, part, TRUE)
  /\ UNCHANGED <<World, Forge, ledger, scanned>>

\* The process of a run ends: killed, out of its budget, or off the network.
Crash(r) ==
  /\ faults < MaxFaults /\ faults' = faults + 1
  /\ run[r].pc \notin {"idle", "done"}
  /\ run' = [run EXCEPT ![r] = Ended(r)]
  /\ UNCHANGED <<World, Forge, ledger, scanned>>

(***************************************************************************)
(* What goes on around the runs: time passes, the configuration advances,  *)
(* people merge requests.  (One they close is to the runs like one that is *)
(* never merged.)                                                          *)
(***************************************************************************)
Tick ==
  /\ clock < Horizon[host] /\ clock' = clock + 1
  /\ UNCHANGED <<host, tip, Forge, ledger, run, faults, scanned>>

AdvanceConfig ==
  /\ tip < Len(Policies) /\ tip' = tip + 1
  /\ UNCHANGED <<host, clock, Forge, ledger, run, faults, scanned>>

Merge(q) ==
  /\ request[q].state = "open"
  /\ request' = [request EXCEPT ![q] =
       [request[q] EXCEPT !.state = "merged", !.merged = clock,
                 !.due = @ \cup DueNow("merged"), !.late = @ \cup LateNow("merged")]]
  /\ UNCHANGED <<World, order, ledger, run, faults, scanned>>

Step(r) ==
  \/ ReadOutcome(r) \/ StartObserve(r)
  \/ PollKnown(r) \/ ReadPage(r) \/ RecordObservation(r)

Next ==
  \/ Tick \/ AdvanceConfig
  \/ \E q \in Requests : Merge(q)
  \/ \E r \in Runs : \/ Begin(r) \/ Step(r) \/ FailedRead(r) \/ Crash(r)
                     \/ \E q \in Requests : CreateRequest(r, q)

Spec == Init /\ [][Next]_vars

\* Runs are scheduled again and again, and one that is not killed goes on: its
\* reads and commits have time limits.  Nothing is assumed of people.
FairSpec == Spec /\ \A r \in Runs : WF_vars(Begin(r)) /\ WF_vars(Step(r))

----------------------------------------------------------------------------
(***************************************************************************)
(* Types.                                                                  *)
(***************************************************************************)
Moment == Time \cup {Never}
Cursors == [page : Nat \ {0}, pending : Seq(Int \X Int)]
Queries == [from : Int, through : Time, cursor : Cursors]
Progress == [from : Int, through : Time, cursor : Cursors, complete : BOOLEAN]
Facts == [id : Requests, state : States]

RequestType == [state : States, created : Moment, merged : Moment,
                origin : Moment, due : SUBSET Subs, late : SUBSET Kinds]
RunType == [pc : {"idle", "done", "core", "outcome", "observe", "recordOutcome", "record"},
            cfg : 0..Len(Policies), now : Time, outs : SUBSET Requests,
            todo : SUBSET Requests, kind : Kinds, q : [Kinds -> Queries],
            pages : Nat, facts : SUBSET Facts, progress : SUBSET Progress,
            broke : BOOLEAN]

Accepted(policy) == IF policy = 0 THEN {} ELSE Policies[policy]
LedgerType == [policy : 0..Len(Policies), cutoff : UNION {[S -> Time] : S \in SUBSET Subs},
               known : [Requests -> States], scan : [Kinds -> Progress],
               delivered : SUBSET (Requests \X Subs)]

\* The type invariant of a repository's forge, ledger and runs.
TypeOK ==
  /\ host \in Hosts /\ clock \in Time /\ tip \in 1..Len(Policies)
  /\ request \in [Requests -> RequestType]
  /\ order \in Seq(Requests)
  /\ ledger \in LedgerType /\ DOMAIN ledger.cutoff = Accepted(ledger.policy)
  /\ run \in [Runs -> RunType]
  /\ faults \in 0..MaxFaults
  /\ scanned \in Time

(***************************************************************************)
(* Properties.                                                             *)
(***************************************************************************)
\* The ledger owes subscription s the event of request q: the subscription has
\* been in force since it happened, and its stamp admits it.
OwedExactly(q, s) ==
  /\ s \in DOMAIN ledger.cutoff \cap request[q].due
  /\ Occurred(q, KindOf(s))
  /\ EventAdmissionTime(q, KindOf(s)) >= ledger.cutoff[s]

\* The same, except for what GitHub stamps with the second of an earlier scan.
Owed(q, s) == OwedExactly(q, s) /\ KindOf(s) \notin request[q].late

Position(q) == CHOOSE i \in DOMAIN order : order[i] = q

\* What a scan of kind k that recorded progress p has left behind.
Passed(p, q, k) ==
  LET t == Stamp(When(q, k))
  IN  \/ t < p.from
      \/ p.complete /\ t < p.through
      \/ /\ ~p.complete /\ t < p.through
         /\ IF host = "github" THEN Position(q) <= (p.cursor.page - 1) * PageLimit
            ELSE \A i \in DOMAIN Pending(p) : ~Within(t, Pending(p)[i][1], Pending(p)[i][2])

\* Whatever the recorded progress of a scan has passed, every subscription that
\* is owed it has got: the watermark of Observe never runs ahead of what
\* recordObservation admitted, through overlapping runs that write over one
\* another's progress, failed pages, lost runs and new policies.
WatermarkSound ==
  \A q \in Requests : \A s \in Subs :
    Owed(q, s) /\ Passed(ledger.scan[KindOf(s)], q, KindOf(s)) => <<q, s>> \in ledger.delivered

\* Nothing that happened before a subscription's activation is announced to it,
\* although stamps round down, origins round up and scans start a second early.
NoBackfill ==
  [][\A e \in ledger'.delivered \ ledger.delivered :
       /\ e[2] \in DOMAIN ledger.cutoff
       /\ When(e[1], KindOf(e[2])) >= ledger.cutoff[e[2]]]_vars

\* A partition that neither fits a page nor can be halved: documented to fail
\* closed, its scan waits for an operator.
Dense(k) ==
  /\ host = "azuredevops"
  /\ \E t \in Time : Cardinality({q \in Listed(k) : When(q, k) \in {t, t + 1}})
                      >= PartitionLimit

\* What a subscription is owed it gets in the end, whatever runs were lost, as
\* long as runs are scheduled: missed runs are recovered by later observation.
EventuallyDelivered ==
  []<>(\A q \in Requests : \A s \in Subs :
         Owed(q, s) => <<q, s>> \in ledger.delivered \/ Dense(KindOf(s)))
============================================================================
