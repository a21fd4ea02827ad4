------------------------- MODULE ObservationProofs -------------------------
(***************************************************************************)
(* What holds of Observation on either forge, for any number of runs,      *)
(* requests, subscriptions and revisions and any sizes of page and budget: *)
(* its types, that recorded progress never passes an event that is owed    *)
(* (WatermarkSound), and that nothing older than an activation is          *)
(* announced (NoBackfill).                                                 *)
(*                                                                         *)
(* A run may record progress at any time after it read the page, over that *)
(* of another run.  So the invariant speaks of every progress there is, on *)
(* record or in the hands of a run: Covered, and Covers while its facts    *)
(* are not yet recorded.  Two lemmas carry it.  No step makes a progress   *)
(* pass an event it had not passed before (OlderProgress), and a page      *)
(* finds all that it passes (PageFindsAll).                                *)
(***************************************************************************)
EXTENDS Observation, SequenceTheorems, FunctionTheorems, FiniteSetTheorems, WellFoundedInduction, TLAPS

(* A scan, as the progress it has made, began before the latest one did.   *)
Bounded(p) == p.from <= p.through /\ p.through <= scanned

AsProgress(q) ==
  [from |-> q.from, through |-> q.through, cursor |-> q.cursor, complete |-> FALSE]

(* Progress p of a scan of kind k has passed the event of q, which s is    *)
(* owed.                                                                   *)
OwedAndPassed(p, k, q, s) == KindOf(s) = k /\ Owed(q, s) /\ Passed(p, q, k)

(* All that progress p has passed was admitted.                            *)
Covered(p, k) ==
  \A q \in Requests : \A s \in Subs :
    OwedAndPassed(p, k, q, s) => <<q, s>> \in ledger.delivered

(* The facts of run state x let it admit the event of q.                   *)
Noted(x, q, k) == \E f \in x.facts : f.id = q /\ EventFrom(f, k, x.now)

(* All that progress p has passed was admitted or is with the facts of x.  *)
Covers(x, p, k) ==
  \A q \in Requests : \A s \in Subs :
    OwedAndPassed(p, k, q, s) => <<q, s>> \in ledger.delivered \/ Noted(x, q, k)

(* A request has the times its state says.                                 *)
RequestInv(x) ==
  /\ x.state # "absent" => x.created \in 0..clock /\ x.origin \in {Never, x.created}
  /\ x.state = "absent" => x.origin = Never
  /\ x.state = "merged" => x.merged \in x.created..clock
  /\ x.due \subseteq DOMAIN ledger.cutoff

(* The listing has every request once, in the order of creation.           *)
OrderInv ==
  /\ \A i \in DOMAIN order : request[order[i]].state # "absent"
  /\ \A q \in Requests : request[q].state # "absent" => \E i \in DOMAIN order : order[i] = q
  /\ \A i, j \in DOMAIN order : order[i] = order[j] => i = j
  /\ \A i, j \in DOMAIN order :
       i < j => request[order[i]].created <= request[order[j]].created

ForgeInv ==
  /\ scanned <= clock
  /\ \A s \in DOMAIN ledger.cutoff : ledger.cutoff[s] <= clock
  /\ \A q \in Requests : RequestInv(request[q])
  /\ OrderInv

ScanInv == \A k \in Kinds : Bounded(ledger.scan[k]) /\ Covered(ledger.scan[k], k)

(* What a run read is still true.                                          *)
FactsInv(x) ==
  \A f \in x.facts : f.state = "merged" => request[f.id].state = "merged"

QueriesInv(x) ==
  \A k \in Kinds : /\ Bounded(x.q[k]) /\ x.q[k].through <= x.now
                   /\ Covered(AsProgress(x.q[k]), k)

ProgressInv(x) ==
  \A p \in x.progress : /\ p.from = x.q[x.kind].from /\ p.through = x.q[x.kind].through
                        /\ Covers(x, p, x.kind)

RunInv(x) ==
  /\ x.now <= clock
  /\ FactsInv(x)
  /\ x.pc # "record" => x.progress = {}
  /\ x.pc \in {"observe", "record"} => QueriesInv(x) /\ ProgressInv(x)

Invariant == TypeOK /\ ForgeInv /\ ScanInv /\ \A r \in Runs : RunInv(run[r])

----------------------------------------------------------------------------
(***************************************************************************)
(* Stamps, cutoffs and queries.                                            *)
(***************************************************************************)

(* A forge stamps an event with its instant or with the second it is in.   *)
LEMMA StampLaw ==
  ASSUME NEW t \in Nat
  PROVE  Stamp(t) \in Nat /\ Stamp(t) <= t /\ t < Stamp(t) + Second
<1> DEFINE n == t \div Second
<1>1. n \in Nat /\ Second * n <= t /\ t < Second * n + Second
  BY BoundsAssumption, SMT
<1>2. n * Second = Second * n /\ n * Second \in Nat
  BY <1>1, BoundsAssumption, SMT
<1> QED
  BY <1>1, <1>2, BoundsAssumption DEF Stamp

(* Stamps keep the order of the instants.                                  *)
LEMMA StampMonotone ==
  ASSUME NEW t \in Nat, NEW u \in Nat, t <= u
  PROVE  Stamp(t) <= Stamp(u)
<1> DEFINE m == t \div Second
           n == u \div Second
<1>1. m \in Nat /\ n \in Nat /\ Second * m <= t /\ u < Second * n + Second
  BY BoundsAssumption, SMT
<1>2. m <= n
  <2>1. SUFFICES ASSUME n + 1 <= m PROVE FALSE
    BY <1>1
  <2> HIDE DEF m, n
  <2>2. Second * (n + 1) <= Second * m
    BY <1>1, <2>1, BoundsAssumption, SMT
  <2> QED
    BY <1>1, <2>2, BoundsAssumption, SMT
<1>3. m * Second <= n * Second
  <2> HIDE DEF m, n
  <2> QED
    BY <1>1, <1>2, BoundsAssumption, SMT
<1> QED
  BY <1>3, BoundsAssumption DEF Stamp

(* A nonempty set of natural numbers has a least one.                      *)
LEMMA LeastElement ==
  ASSUME NEW S \in SUBSET Nat, S # {}
  PROVE  \E c \in S : \A d \in S : c <= d
<1>1. PICK c \in S : \A d \in S : <<d, c>> \notin OpToRel(<, Nat)
  BY NatLessThanWellFounded, WFMin
<1>2. ASSUME NEW d \in S PROVE c <= d
  <2>1. d \in Nat /\ c \in Nat
    OBVIOUS
  <2>2. ~(d < c)
    BY <1>1, <2>1 DEF OpToRel
  <2> QED
    BY <2>1, <2>2
<1> QED
  BY <1>2

(* The cutoffs of a ledger are moments of the subscriptions it accepted.   *)
LEMMA CutoffTyped ==
  ASSUME TypeOK
  PROVE  /\ ledger.cutoff \in [DOMAIN ledger.cutoff -> Time]
         /\ DOMAIN ledger.cutoff \subseteq Subs
<1>1. PICK S \in SUBSET Subs : ledger.cutoff \in [S -> Time]
  BY DEF TypeOK, LedgerType
<1> QED
  BY <1>1

(* No subscription admits an event before the earliest admissible time of  *)
(* its kind.                                                               *)
LEMMA EarliestLaw ==
  ASSUME TypeOK, NEW k \in Kinds, NEW now \in Time
  PROVE  /\ EarliestAdmissibleTime(k, now) \in Int
         /\ \A s \in DOMAIN ledger.cutoff :
              KindOf(s) = k => EarliestAdmissibleTime(k, now) <= ledger.cutoff[s] - Second
         /\ (\A s \in DOMAIN ledger.cutoff : ledger.cutoff[s] <= now)
              => EarliestAdmissibleTime(k, now) <= now
<1> DEFINE mine == {s \in DOMAIN ledger.cutoff : KindOf(s) = k}
           cutoffs == {ledger.cutoff[s] : s \in mine}
<1>1. cutoffs \subseteq Time
  BY CutoffTyped
<1>2. EarliestAdmissibleTime(k, now) =
        IF cutoffs = {} THEN now
        ELSE (CHOOSE c \in cutoffs : \A d \in cutoffs : c <= d) - Second
  BY DEF EarliestAdmissibleTime
<1>3. CASE cutoffs = {}
  <2>1. mine = {}
    BY <1>3
  <2> QED
    BY <1>2, <1>3, <2>1 DEF Time
<1>4. CASE cutoffs # {}
  <2>1. cutoffs \in SUBSET Nat
    BY <1>1, BoundsAssumption DEF Time
  <2>2. \E c \in cutoffs : \A d \in cutoffs : c <= d
    <3> HIDE DEF cutoffs
    <3> QED
      BY <1>4, <2>1, LeastElement
  <2>3. PICK c \in cutoffs : /\ \A d \in cutoffs : c <= d
                             /\ EarliestAdmissibleTime(k, now) = c - Second
    <3> HIDE DEF cutoffs
    <3> QED
      BY <1>2, <1>4, <2>2
  <2>4. c \in Nat /\ c - Second \in Int /\ c - Second <= c
    BY <2>1, BoundsAssumption
  <2>5. ASSUME NEW s \in DOMAIN ledger.cutoff, KindOf(s) = k
        PROVE  c - Second <= ledger.cutoff[s] - Second
    <3>1. ledger.cutoff[s] \in cutoffs
      BY <2>5
    <3>2. c <= ledger.cutoff[s] /\ ledger.cutoff[s] \in Nat
      BY <2>1, <2>3, <3>1
    <3> QED
      BY <2>4, <3>2, BoundsAssumption
  <2>6. (\A s \in DOMAIN ledger.cutoff : ledger.cutoff[s] <= now) => c - Second <= now
    <3>1. PICK s \in mine : c = ledger.cutoff[s]
      OBVIOUS
    <3> QED
      BY <2>4, <3>1, BoundsAssumption DEF Time
  <2> QED
    BY <2>3, <2>4, <2>5, <2>6
<1> QED
  BY <1>3, <1>4

(* A scan starts with a cursor, which each forge moves in its own field.   *)
LEMMA StartTyped ==
  /\ Start \in Cursors
  /\ \A n \in Nat \ {0} : [Start EXCEPT !.page = n] \in Cursors
  /\ \A s \in Seq(Int \X Int) : [Start EXCEPT !.pending = s] \in Cursors
<1>1. <<>> \in Seq(Int \X Int) /\ 1 \in Nat \ {0}
  OBVIOUS
<1> QED
  BY <1>1 DEF Start, Cursors

(* A query is frozen with an interval and a cursor.                        *)
LEMMA QueryTyped ==
  ASSUME TypeOK, NEW k \in Kinds, NEW now \in Time
  PROVE  Query(k, now) \in Queries
<1>1. ledger.scan[k] \in Progress
  BY DEF TypeOK, LedgerType
<1>2. EarliestAdmissibleTime(k, now) \in Int
  BY EarliestLaw
<1>3. Larger(ledger.scan[k].through, EarliestAdmissibleTime(k, now)) \in Int
  BY <1>1, <1>2 DEF Larger, Progress, Time
<1>4. Start \in Cursors
  BY StartTyped
<1> QED
  BY <1>1, <1>3, <1>4 DEF Query, Queries, Progress

----------------------------------------------------------------------------
(***************************************************************************)
(* Pages.                                                                  *)
(***************************************************************************)

(* A page of a listing, of either forge.                                   *)
Pages == [ok : BOOLEAN, complete : BOOLEAN, pages : Nat,
          found : SUBSET Requests, cursor : Cursors]

(* The partitions that are still to be read are intervals, at least one.   *)
LEMMA PendingTyped ==
  ASSUME NEW q, q.from \in Int, q.through \in Time, q.cursor \in Cursors
  PROVE  Pending(q) \in Seq(Int \X Int) /\ Pending(q) # <<>>
<1>1. q.through \in Int
  BY DEF Time
<1>2. << <<q.from, q.through>> >> \in Seq(Int \X Int)
  BY <1>1
<1> QED
  BY <1>2 DEF Pending, Cursors

(* A page of the listing of GitHub has the type of a page.                 *)
LEMMA GithubPageTyped ==
  ASSUME NEW k \in Kinds, NEW q \in Queries
  PROVE  GithubPage(k, q) \in Pages
<1>1. q.cursor.page \in Nat \ {0}
  BY DEF Queries, Cursors
<1>2. Start \in Cursors /\ [Start EXCEPT !.page = q.cursor.page + 1] \in Cursors
  BY <1>1, StartTyped DEF Start
<1>3. Listed(k) \subseteq Requests
  BY DEF Listed
<1> QED
  BY <1>2, <1>3 DEF GithubPage, Pages

(* A page of the listing of Azure DevOps has the type of a page.           *)
LEMMA AzurePageTyped ==
  ASSUME NEW k \in Kinds, NEW q \in Queries
  PROVE  AzurePage(k, q) \in Pages
<1> DEFINE pending == Pending(q)
           part == Head(pending)
           mid == (part[1] + part[2]) \div 2
           halves == << <<part[1], mid>>, <<mid, part[2]>> >>
<1>1. pending \in Seq(Int \X Int) /\ pending # <<>>
  BY PendingTyped DEF Queries
<1>2. part \in Int \X Int /\ Tail(pending) \in Seq(Int \X Int)
  <2> HIDE DEF pending
  <2> QED
    BY <1>1
<1>3. halves \in Seq(Int \X Int)
  <2>1. part[1] \in Int /\ part[2] \in Int
    BY <1>2
  <2>2. mid \in Int
    <3> HIDE DEF part
    <3> QED
      BY <2>1
  <2> HIDE DEF mid, part
  <2> QED
    BY <2>1, <2>2
<1>4. halves \o Tail(pending) \in Seq(Int \X Int)
  <2> HIDE DEF halves, pending
  <2> QED
    BY <1>2, <1>3
<1>5. ASSUME NEW s \in Seq(Int \X Int)
      PROVE  [Start EXCEPT !.pending = s] \in Cursors
  BY StartTyped DEF Start
<1>6. Listed(k) \subseteq Requests
  BY DEF Listed
<1> HIDE DEF pending, part, mid, halves
<1>7. /\ [Start EXCEPT !.pending = pending] \in Cursors
      /\ [Start EXCEPT !.pending = halves \o Tail(pending)] \in Cursors
      /\ [Start EXCEPT !.pending = Tail(pending)] \in Cursors
  BY <1>1, <1>2, <1>4, <1>5
<1> QED
  BY <1>6, <1>7 DEF AzurePage, Pages, pending, part, mid, halves

(* Either forge returns a page.                                            *)
LEMMA PageTyped ==
  ASSUME NEW k \in Kinds, NEW q \in Queries
  PROVE  ListLifecyclePage(k, q) \in Pages
BY GithubPageTyped, AzurePageTyped DEF ListLifecyclePage

----------------------------------------------------------------------------
(***************************************************************************)
(* Types.                                                                  *)
(***************************************************************************)

(* A run begins and ends with nothing in its hands.                        *)
LEMMA IdleTyped ==
  Idle \in RunType /\ \A r \in Runs : Ended(r) \in RunType
<1>1. 0 \in Time /\ 0 \in 0..Len(Policies) /\ 0 \in Nat
  BY PoliciesAssumption, BoundsAssumption DEF Time
<1>2. NoQuery \in Queries
  BY <1>1, StartTyped DEF NoQuery, Queries
<1>3. Idle \in RunType
  BY <1>1, <1>2 DEF Idle, RunType, Kinds
<1> QED
  BY <1>3 DEF Ended, Idle, RunType

(* What was read of a request is a fact.                                   *)
LEMMA FactTyped ==
  ASSUME TypeOK, NEW q \in Requests
  PROVE  GetLifecycleRequest(q) \in Facts
BY DEF TypeOK, RequestType, GetLifecycleRequest, Facts

(* The revisions name subscriptions.                                       *)
LEMMA PolicyTyped ==
  ASSUME NEW p \in 1..Len(Policies)
  PROVE  Policies[p] \subseteq Subs /\ p # 0 /\ p \in 0..Len(Policies)
BY PoliciesAssumption DEF Subs

(* The initial state has its types.                                        *)
LEMMA InitTyped == Init => TypeOK
<1> SUFFICES ASSUME Init PROVE TypeOK
  OBVIOUS
<1>1. 0 \in Time /\ 0 \in Moment /\ Never \in Moment /\ 0 \in 0..MaxFaults
  BY BoundsAssumption DEF Time, Moment
<1>2. tip \in 1..Len(Policies) /\ 0 \in 0..Len(Policies)
  BY PoliciesAssumption DEF Init
<1>3. request \in [Requests -> RequestType]
  BY <1>1 DEF Init, NoRequest, RequestType, States
<1>4. order \in Seq(Requests)
  <2>1. Cardinality(Old) \in Nat
    BY RequestsAssumption, FS_CardinalityType
  <2>2. order \in [1..Cardinality(Old) -> Requests]
    BY RequestsAssumption DEF Init
  <2> QED
    BY <2>1, <2>2
<1>5. ledger \in LedgerType /\ DOMAIN ledger.cutoff = Accepted(ledger.policy)
  <2>1. <<>> \in [{} -> Time] /\ DOMAIN <<>> = {}
    OBVIOUS
  <2>2. <<>> \in UNION {[S -> Time] : S \in SUBSET Subs}
    BY <2>1
  <2>3. NoScan \in Progress
    BY <1>1, StartTyped DEF NoScan, Progress
  <2>4. [q \in Requests |-> "absent"] \in [Requests -> States]
    BY DEF States
  <2>5. [k \in Kinds |-> NoScan] \in [Kinds -> Progress]
    BY <2>3
  <2>6. /\ ledger = [policy |-> 0, cutoff |-> <<>>, known |-> [q \in Requests |-> "absent"],
                     scan |-> [k \in Kinds |-> NoScan], delivered |-> {}]
        /\ Accepted(0) = {}
    BY DEF Init, Accepted
  <2> QED
    BY <1>2, <2>1, <2>2, <2>4, <2>5, <2>6 DEF LedgerType
<1>6. run \in [Runs -> RunType]
  BY IdleTyped DEF Init
<1> QED
  BY <1>1, <1>2, <1>3, <1>4, <1>5, <1>6 DEF Init, TypeOK

(* The acceptance of the pinned policy at the start of a run.              *)
LEMMA BeginTyped ==
  ASSUME TypeOK, NEW r \in Runs, Begin(r)
  PROVE  TypeOK'
<1>1. UNCHANGED <<host, clock, tip, order, faults, scanned>>
  BY DEF Begin, World
<1>2. run' \in [Runs -> RunType]
  <2>1. [Idle EXCEPT !.pc = "core", !.cfg = tip] \in RunType
    <3>1. tip \in 0..Len(Policies)
      BY PolicyTyped DEF TypeOK
    <3> QED
      BY <3>1, IdleTyped DEF Idle, RunType
  <2>2. run' = [run EXCEPT ![r] = [Idle EXCEPT !.pc = "core", !.cfg = tip]]
    BY DEF Begin
  <2> HIDE DEF Idle
  <2> QED
    BY <2>1, <2>2 DEF TypeOK
<1>3. CASE UNCHANGED <<ledger, request>>
  BY <1>1, <1>2, <1>3 DEF TypeOK
<1>4. CASE \E now \in Larger(0, clock - 1)..clock :
             /\ ledger' = [ledger EXCEPT !.policy = tip, !.cutoff = AcceptPolicy(tip, now)]
             /\ request' = [q \in Requests |-> [request[q] EXCEPT !.due = @ \cap Policies[tip]]]
  <2>1. PICK now \in Larger(0, clock - 1)..clock :
          ledger' = [ledger EXCEPT !.policy = tip, !.cutoff = AcceptPolicy(tip, now)]
    BY <1>4
  <2>2. now \in Time
    BY BoundsAssumption DEF Larger, Time, TypeOK
  <2>3. Policies[tip] \in SUBSET Subs /\ tip # 0 /\ tip \in 0..Len(Policies)
    BY PolicyTyped DEF TypeOK
  <2>4. AcceptPolicy(tip, now) \in [Policies[tip] -> Time]
    BY <2>2, CutoffTyped DEF AcceptPolicy
  <2>5. ledger' \in LedgerType /\ ledger'.policy = tip /\ ledger'.cutoff = AcceptPolicy(tip, now)
    <3>1. ledger \in LedgerType
      BY DEF TypeOK
    <3>2. AcceptPolicy(tip, now) \in UNION {[S -> Time] : S \in SUBSET Subs}
      BY <2>3, <2>4
    <3> QED
      BY <2>1, <2>3, <3>1, <3>2 DEF LedgerType
  <2>6. DOMAIN ledger'.cutoff = Accepted(ledger'.policy)
    BY <2>3, <2>4, <2>5 DEF Accepted
  <2>7. request' \in [Requests -> RequestType]
    <3>1. ASSUME NEW q \in Requests
          PROVE  [request[q] EXCEPT !.due = @ \cap Policies[tip]] \in RequestType
      <4>1. request[q] \in RequestType
        BY DEF TypeOK
      <4> QED
        BY <4>1 DEF RequestType
    <3> QED
      BY <1>4, <3>1
  <2> QED
    BY <1>1, <1>2, <2>5, <2>6, <2>7 DEF TypeOK
<1> QED
  BY <1>3, <1>4 DEF Begin

(* The requests people and runs create and merge.                          *)
LEMMA RequestsTyped ==
  ASSUME TypeOK, NEW q \in Requests,
         (\E r \in Runs : CreateRequest(r, q)) \/ Merge(q)
  PROVE  TypeOK'
<1>1. clock \in Moment /\ Never \in Moment /\ request[q] \in RequestType
  BY DEF TypeOK, Moment
<1>2. /\ DueNow("created") \subseteq Subs /\ LateNow("created") \subseteq Kinds
      /\ DueNow("merged") \subseteq Subs /\ LateNow("merged") \subseteq Kinds
  BY CutoffTyped DEF DueNow, LateNow, Kinds
<1>3. ASSUME NEW r \in Runs, CreateRequest(r, q) PROVE TypeOK'
  <2>1. UNCHANGED <<host, clock, tip, ledger, faults, scanned>>
    BY <1>3 DEF CreateRequest, World
  <2>2. request' \in [Requests -> RequestType]
    BY <1>1, <1>2, <1>3 DEF CreateRequest, TypeOK, RequestType, States
  <2>3. order' \in Seq(Requests)
    BY <1>3 DEF CreateRequest, TypeOK
  <2>4. run' \in [Runs -> RunType]
    <3>1. run[r] \in RunType
      BY DEF TypeOK
    <3>2. [run[r] EXCEPT !.outs = {q}] \in RunType
      BY <3>1 DEF RunType
    <3> QED
      BY <1>3, <3>2 DEF CreateRequest, TypeOK
  <2> QED
    BY <2>1, <2>2, <2>3, <2>4 DEF TypeOK
<1>4. ASSUME Merge(q) PROVE TypeOK'
  <2>1. UNCHANGED <<host, clock, tip, order, ledger, run, faults, scanned>>
    BY <1>4 DEF Merge, World
  <2>2. request' \in [Requests -> RequestType]
    <3>1. [request[q] EXCEPT !.state = "merged", !.merged = clock,
             !.due = @ \cup DueNow("merged"), !.late = @ \cup LateNow("merged")] \in RequestType
      BY <1>1, <1>2 DEF RequestType, States
    <3> QED
      BY <1>4, <3>1 DEF Merge, TypeOK
  <2> QED
    BY <2>1, <2>2 DEF TypeOK
<1> QED
  BY <1>3, <1>4

(* What a run has in its hands after it read a page.                       *)
LEMMA PageReadTyped ==
  ASSUME TypeOK, NEW r \in Runs, NEW page \in Pages, NEW part \in SUBSET Requests,
         NEW failed \in BOOLEAN, PageRead(r, page, part, failed)
  PROVE  run' \in [Runs -> RunType]
<1> DEFINE q == run[r].q[run[r].kind]
           progress == [from |-> q.from, through |-> q.through,
                        cursor |-> IF failed /\ page.ok THEN q.cursor ELSE page.cursor,
                        complete |-> page.complete /\ ~failed]
           facts == {GetLifecycleRequest(x) : x \in part}
           pages == run[r].pages + page.pages
           broke == failed \/ ~page.ok
<1>1. run[r] \in RunType /\ q \in Queries
  BY DEF TypeOK, RunType
<1>2. progress \in Progress
  BY <1>1 DEF Queries, Progress, Pages
<1>3. facts \subseteq Facts
  BY FactTyped
<1>4. pages \in Nat /\ broke \in BOOLEAN
  BY <1>1 DEF RunType, Pages
<1>5. run' = [run EXCEPT ![r] = [run[r] EXCEPT !.pc = "record", !.facts = facts,
                !.progress = {progress}, !.pages = pages, !.broke = broke]]
  BY DEF PageRead
<1> HIDE DEF q, progress, facts, pages, broke
<1>6. [run[r] EXCEPT !.pc = "record", !.facts = facts, !.progress = {progress},
         !.pages = pages, !.broke = broke] \in RunType
  BY <1>1, <1>2, <1>3, <1>4 DEF RunType
<1> QED
  BY <1>5, <1>6 DEF TypeOK

(* What a run does after a page.                                           *)
LEMMA AfterPageTyped ==
  ASSUME NEW r \in Runs, NEW x \in RunType, x.progress # {}
  PROVE  AfterPage(r, x) \in RunType
<1> DEFINE p == CHOOSE p \in x.progress : TRUE
           idle == [x EXCEPT !.pc = "observe", !.facts = {}, !.progress = {}, !.broke = FALSE]
<1>1. p \in Progress
  BY DEF RunType
<1>2. idle \in RunType
  BY DEF RunType
<1>3. [idle EXCEPT !.q[x.kind].cursor = p.cursor] \in RunType
  <2>1. x.kind \in Kinds /\ idle.q \in [Kinds -> Queries] /\ p.cursor \in Cursors
    BY <1>1, <1>2 DEF RunType, Progress
  <2>2. [idle.q[x.kind] EXCEPT !.cursor = p.cursor] \in Queries
    <3>1. idle.q[x.kind] \in Queries
      BY <2>1
    <3> HIDE DEF p, idle
    <3> QED
      BY <2>1, <3>1 DEF Queries
  <2>3. [idle.q EXCEPT ![x.kind] = [idle.q[x.kind] EXCEPT !.cursor = p.cursor]]
          \in [Kinds -> Queries]
    <3> HIDE DEF p, idle
    <3> QED
      BY <2>1, <2>2
  <2>4. [idle EXCEPT !.q = [idle.q EXCEPT ![x.kind] = [idle.q[x.kind] EXCEPT !.cursor = p.cursor]]]
          \in RunType
    <3> HIDE DEF p, idle
    <3> QED
      BY <1>2, <2>3 DEF RunType
  <2> QED
    BY <2>4
<1>4. [idle EXCEPT !.kind = "merged"] \in RunType
  <2> HIDE DEF idle
  <2> QED
    BY <1>2 DEF RunType, Kinds
<1> HIDE DEF p, idle
<1> QED
  BY <1>3, <1>4, IdleTyped DEF AfterPage, p, idle

(* What a run does besides pages and its commits.                          *)
LEMMA ReadsTyped ==
  ASSUME TypeOK, NEW r \in Runs,
         ReadOutcome(r) \/ StartObserve(r) \/ PollKnown(r) \/ Crash(r)
  PROVE  TypeOK'
<1>1. run[r] \in RunType /\ clock \in Time /\ Ended(r) \in RunType
  BY IdleTyped DEF TypeOK
<1>2. ASSUME NEW x \in RunType, run' = [run EXCEPT ![r] = x],
             UNCHANGED <<host, clock, tip, request, order, ledger>>,
             faults' \in 0..MaxFaults, scanned' \in Time
      PROVE  TypeOK'
  BY <1>2 DEF TypeOK
<1>3. ASSUME ReadOutcome(r) PROVE TypeOK'
  <2>1. PICK q \in run[r].outs :
          run' = [run EXCEPT ![r] = [run[r] EXCEPT !.pc = "recordOutcome", !.outs = @ \ {q},
                                       !.now = clock, !.facts = {GetLifecycleRequest(q)}]]
    BY <1>3 DEF ReadOutcome
  <2>2. GetLifecycleRequest(q) \in Facts
    BY <1>1, FactTyped DEF RunType
  <2>3. [run[r] EXCEPT !.pc = "recordOutcome", !.outs = @ \ {q}, !.now = clock,
           !.facts = {GetLifecycleRequest(q)}] \in RunType
    BY <1>1, <2>2 DEF RunType
  <2> QED
    BY <1>2, <1>3, <2>1, <2>3 DEF ReadOutcome, World, Forge, TypeOK
<1>4. ASSUME StartObserve(r) PROVE TypeOK'
  <2>1. CASE run' = [run EXCEPT ![r] = Ended(r)] /\ UNCHANGED scanned
    BY <1>1, <1>2, <1>4, <2>1 DEF StartObserve, World, Forge, TypeOK
  <2>2. CASE /\ run' = [run EXCEPT ![r] = [run[r] EXCEPT !.pc = "observe", !.now = clock,
                          !.todo = {q \in Requests : ledger.known[q] = "open"},
                          !.q = [k \in Kinds |-> Query(k, clock)]]]
             /\ scanned' \in {clock, scanned}
    <3>1. [k \in Kinds |-> Query(k, clock)] \in [Kinds -> Queries]
      BY <1>1, QueryTyped
    <3>2. [run[r] EXCEPT !.pc = "observe", !.now = clock,
             !.todo = {q \in Requests : ledger.known[q] = "open"},
             !.q = [k \in Kinds |-> Query(k, clock)]] \in RunType
      BY <1>1, <3>1 DEF RunType
    <3> QED
      BY <1>1, <1>2, <1>4, <2>2, <3>2 DEF StartObserve, World, Forge, TypeOK
  <2> QED
    BY <1>4, <2>1, <2>2 DEF StartObserve
<1>5. ASSUME PollKnown(r) PROVE TypeOK'
  <2>1. PICK q \in run[r].todo :
          run' = [run EXCEPT ![r] = [run[r] EXCEPT !.pc = "record", !.todo = @ \ {q},
                                       !.facts = {GetLifecycleRequest(q)}]]
    BY <1>5 DEF PollKnown
  <2>2. GetLifecycleRequest(q) \in Facts
    BY <1>1, FactTyped DEF RunType
  <2>3. [run[r] EXCEPT !.pc = "record", !.todo = @ \ {q},
           !.facts = {GetLifecycleRequest(q)}] \in RunType
    BY <1>1, <2>2 DEF RunType
  <2> QED
    BY <1>2, <1>5, <2>1, <2>3 DEF PollKnown, World, Forge, TypeOK
<1>6. ASSUME Crash(r) PROVE TypeOK'
  <2>1. faults' \in 0..MaxFaults
    BY <1>6, BoundsAssumption DEF Crash, TypeOK
  <2> QED
    BY <1>1, <1>2, <1>6, <2>1 DEF Crash, World, Forge, TypeOK
<1> QED
  BY <1>3, <1>4, <1>5, <1>6

(* A page, read to its end or not.                                         *)
LEMMA PagesTyped ==
  ASSUME TypeOK, NEW r \in Runs, ReadPage(r) \/ FailedRead(r)
  PROVE  TypeOK'
<1> DEFINE page == ListLifecyclePage(run[r].kind, run[r].q[run[r].kind])
<1>1. run[r] \in RunType /\ page \in Pages
  BY PageTyped DEF TypeOK, RunType
<1>2. UNCHANGED <<host, clock, tip, request, order, ledger, scanned>>
  BY DEF ReadPage, FailedRead, World, Forge
<1>3. faults' \in 0..MaxFaults
  <2>1. UNCHANGED faults \/ (faults < MaxFaults /\ faults' = faults + 1)
    BY DEF ReadPage, FailedRead
  <2> QED
    BY <2>1, BoundsAssumption DEF TypeOK
<1>4. run' \in [Runs -> RunType]
  <2>1. CASE ReadPage(r)
    <3>1. PageRead(r, page, page.found, FALSE)
      BY <2>1 DEF ReadPage
    <3>2. page.found \in SUBSET Requests
      BY <1>1 DEF Pages
    <3> HIDE DEF page
    <3> QED
      BY <1>1, <3>1, <3>2, PageReadTyped
  <2>2. CASE run' = [run EXCEPT ![r] = [run[r] EXCEPT !.pc = "outcome", !.outs = {}]]
    <3>1. [run[r] EXCEPT !.pc = "outcome", !.outs = {}] \in RunType
      BY <1>1 DEF RunType
    <3> QED
      BY <2>2, <3>1 DEF TypeOK
  <2>3. CASE \E q \in run[r].todo : run' = [run EXCEPT ![r].todo = @ \ {q}]
    <3>1. PICK q : run' = [run EXCEPT ![r] = [run[r] EXCEPT !.todo = @ \ {q}]]
      BY <2>3
    <3>2. [run[r] EXCEPT !.todo = @ \ {q}] \in RunType
      BY <1>1 DEF RunType
    <3> QED
      BY <3>1, <3>2 DEF TypeOK
  <2>4. CASE \E part \in SUBSET page.found : PageRead(r, page, part, TRUE)
    <3>1. page.found \in SUBSET Requests
      BY <1>1 DEF Pages
    <3> HIDE DEF page
    <3> QED
      BY <1>1, <2>4, <3>1, PageReadTyped
  <2> QED
    BY <2>1, <2>2, <2>3, <2>4 DEF FailedRead
<1> QED
  BY <1>2, <1>3, <1>4 DEF TypeOK

(* The commit of an observation.                                           *)
LEMMA RecordTyped ==
  ASSUME TypeOK, NEW r \in Runs
  PROVE  /\ Recorded(r) \in LedgerType
         /\ Recorded(r).policy = ledger.policy /\ Recorded(r).cutoff = ledger.cutoff
         /\ ledger.delivered \subseteq Recorded(r).delivered
<1> DEFINE facts == run[r].facts
           events == UNION {AdmitEvent(f.id, k) : f \in facts, k \in Kinds}
           admissible == {e \in events : \E f \in facts : f.id = e[1] /\
                                           EventFrom(f, KindOf(e[2]), run[r].now)}
           stateOf(q) == IF \E f \in facts : f.id = q
                           THEN (CHOOSE f \in facts : f.id = q).state ELSE ledger.known[q]
           scanOf(k) == IF run[r].progress # {} /\ k = run[r].kind
                          THEN CHOOSE p \in run[r].progress : TRUE ELSE ledger.scan[k]
<1>1. ledger \in LedgerType /\ run[r] \in RunType
  BY DEF TypeOK
<1>2. ASSUME NEW q \in Requests PROVE stateOf(q) \in States
  BY <1>1 DEF RunType, Facts, LedgerType
<1>3. ASSUME NEW k \in Kinds PROVE scanOf(k) \in Progress
  <2>1. CASE run[r].progress # {}
    BY <1>1, <2>1 DEF RunType, LedgerType
  <2>2. CASE run[r].progress = {}
    BY <1>1, <2>2 DEF LedgerType
  <2> QED
    BY <2>1, <2>2
<1>4. admissible \subseteq Requests \X Subs
  <2>1. ASSUME NEW f \in facts, NEW k \in Kinds
        PROVE  AdmitEvent(f.id, k) \subseteq Requests \X Subs
    BY <1>1, CutoffTyped DEF AdmitEvent, RunType, Facts
  <2>2. events \subseteq Requests \X Subs
    BY <2>1
  <2> QED
    BY <2>2
<1>5. Recorded(r) = [ledger EXCEPT !.known = [q \in Requests |-> stateOf(q)],
                                   !.scan = [k \in Kinds |-> scanOf(k)],
                                   !.delivered = @ \cup admissible]
  BY DEF Recorded
<1>6. /\ [q \in Requests |-> stateOf(q)] \in [Requests -> States]
      /\ [k \in Kinds |-> scanOf(k)] \in [Kinds -> Progress]
  BY <1>2, <1>3
<1> HIDE DEF facts, events, admissible, stateOf, scanOf
<1> QED
  BY <1>1, <1>4, <1>5, <1>6 DEF LedgerType

(* The step that commits it.                                               *)
LEMMA RecordObservationTyped ==
  ASSUME TypeOK, NEW r \in Runs, RecordObservation(r)
  PROVE  TypeOK'
<1>1. run[r] \in RunType /\ Ended(r) \in RunType
  BY IdleTyped DEF TypeOK
<1>2. UNCHANGED <<host, clock, tip, request, order, faults, scanned>>
  BY DEF RecordObservation, World, Forge
<1>3. run' \in [Runs -> RunType]
  <2>1. CASE run' = [run EXCEPT ![r] = Ended(r)]
    BY <1>1, <2>1 DEF TypeOK
  <2>2. CASE run[r].progress # {} /\ run' = [run EXCEPT ![r] = AfterPage(r, run[r])]
    BY <1>1, <2>2, AfterPageTyped DEF TypeOK
  <2>3. CASE run' = [run EXCEPT ![r] = [run[r] EXCEPT !.facts = {},
                       !.pc = IF @ = "recordOutcome" THEN "outcome" ELSE "observe"]]
    <3>1. [run[r] EXCEPT !.facts = {},
             !.pc = IF @ = "recordOutcome" THEN "outcome" ELSE "observe"] \in RunType
      BY <1>1 DEF RunType
    <3> QED
      BY <2>3, <3>1 DEF TypeOK
  <2> QED
    BY <2>1, <2>2, <2>3 DEF RecordObservation
<1>4. ledger' \in LedgerType /\ DOMAIN ledger'.cutoff = Accepted(ledger'.policy)
  BY RecordTyped DEF RecordObservation, TypeOK
<1> QED
  BY <1>2, <1>3, <1>4 DEF TypeOK

(* Every step keeps the types.                                             *)
LEMMA NextTyped == TypeOK /\ [Next]_vars => TypeOK'
<1> SUFFICES ASSUME TypeOK, [Next]_vars PROVE TypeOK'
  OBVIOUS
<1>1. CASE UNCHANGED vars
  BY <1>1 DEF vars, TypeOK
<1>2. CASE Tick
  BY <1>2, BoundsAssumption DEF Tick, Forge, TypeOK, Time
<1>3. CASE AdvanceConfig
  BY <1>3, PoliciesAssumption DEF AdvanceConfig, Forge, TypeOK
<1>4. CASE \E q \in Requests : Merge(q)
  BY <1>4, RequestsTyped
<1>5. ASSUME NEW r \in Runs, Begin(r) PROVE TypeOK'
  BY <1>5, BeginTyped
<1>6. ASSUME NEW r \in Runs, Step(r) PROVE TypeOK'
  BY <1>6, ReadsTyped, PagesTyped, RecordObservationTyped DEF Step
<1>7. ASSUME NEW r \in Runs, FailedRead(r) \/ Crash(r) PROVE TypeOK'
  BY <1>7, ReadsTyped, PagesTyped
<1>8. ASSUME NEW r \in Runs, NEW q \in Requests, CreateRequest(r, q) PROVE TypeOK'
  BY <1>8, RequestsTyped
<1> QED
  BY <1>1, <1>2, <1>3, <1>4, <1>5, <1>6, <1>7, <1>8 DEF Next

(* The types hold throughout.                                              *)
THEOREM ObservationTypeCorrect == Spec => []TypeOK
<1> QED
  BY InitTyped, NextTyped, PTL DEF Spec

----------------------------------------------------------------------------
(***************************************************************************)
(* What each step does to the forge and to the cutoffs.                    *)
(***************************************************************************)

(* A step of a run that neither creates a request nor accepts a policy, or *)
(* one of the clock or the configuration.                                  *)
Quiet ==
  /\ UNCHANGED <<host, request, order>>
  /\ ledger'.cutoff = ledger.cutoff
  /\ clock' \in {clock, clock + 1}
  /\ scanned' \in {scanned, clock}

(* A run accepts the policy of its revision.                               *)
Accepts ==
  /\ UNCHANGED <<host, clock, order, scanned>>
  /\ \E now \in Larger(0, clock - 1)..clock : ledger'.cutoff = AcceptPolicy(tip, now)
  /\ request' = [q \in Requests |-> [request[q] EXCEPT !.due = @ \cap Policies[tip]]]
  /\ tip \in 1..Len(Policies)

(* A run creates q, or somebody merges it.                                 *)
Creates(q) ==
  /\ UNCHANGED <<host, clock, ledger, scanned>>
  /\ request[q].state = "absent"
  /\ request' = [request EXCEPT ![q] =
       [state |-> "open", created |-> clock, merged |-> Never, origin |-> clock,
        due |-> DueNow("created"), late |-> LateNow("created")]]
  /\ order' = Append(order, q)

Merges(q) ==
  /\ UNCHANGED <<host, clock, ledger, order, scanned>>
  /\ request[q].state = "open"
  /\ request' = [request EXCEPT ![q] =
       [request[q] EXCEPT !.state = "merged", !.merged = clock,
          !.due = @ \cup DueNow("merged"), !.late = @ \cup LateNow("merged")]]

(* There is no other step.                                                 *)
LEMMA StepKinds ==
  ASSUME TypeOK, [Next]_vars
  PROVE  Quiet \/ Accepts \/ \E q \in Requests : Creates(q) \/ Merges(q)
<1>1. CASE UNCHANGED vars
  BY <1>1 DEF vars, Quiet
<1>2. CASE Tick \/ AdvanceConfig
  BY <1>2 DEF Tick, AdvanceConfig, Forge, Quiet
<1>3. CASE \E q \in Requests : Merge(q)
  BY <1>3 DEF Merge, World, Merges
<1>4. ASSUME NEW r \in Runs, Begin(r) PROVE Quiet \/ Accepts
  <2>1. UNCHANGED <<host, clock, order, scanned>>
    BY <1>4 DEF Begin, World
  <2>2. CASE UNCHANGED <<ledger, request>>
    BY <2>1, <2>2 DEF Quiet
  <2>3. CASE /\ \E now \in Larger(0, clock - 1)..clock :
                  ledger' = [ledger EXCEPT !.policy = tip, !.cutoff = AcceptPolicy(tip, now)]
             /\ request' = [q \in Requests |-> [request[q] EXCEPT !.due = @ \cap Policies[tip]]]
    <3>1. PICK now \in Larger(0, clock - 1)..clock :
            ledger' = [ledger EXCEPT !.policy = tip, !.cutoff = AcceptPolicy(tip, now)]
      BY <2>3
    <3>2. ledger'.cutoff = AcceptPolicy(tip, now)
      BY <3>1 DEF TypeOK, LedgerType
    <3> QED
      BY <2>1, <2>3, <3>2 DEF Accepts, TypeOK
  <2> QED
    BY <1>4, <2>2, <2>3 DEF Begin
<1>5. ASSUME NEW r \in Runs, ReadOutcome(r) \/ PollKnown(r) \/ ReadPage(r) \/ FailedRead(r) \/ Crash(r)
      PROVE  Quiet
  BY <1>5 DEF ReadOutcome, PollKnown, ReadPage, FailedRead, Crash, World, Forge, Quiet
<1>6. ASSUME NEW r \in Runs, StartObserve(r) PROVE Quiet
  <2>1. UNCHANGED <<host, clock, request, order, ledger>> /\ scanned' \in {scanned, clock}
    BY <1>6 DEF StartObserve, World, Forge
  <2> QED
    BY <2>1 DEF Quiet
<1>7. ASSUME NEW r \in Runs, RecordObservation(r) PROVE Quiet
  <2>1. ledger'.cutoff = ledger.cutoff
    BY <1>7, RecordTyped DEF RecordObservation
  <2> QED
    BY <1>7, <2>1 DEF RecordObservation, World, Forge, Quiet
<1>8. ASSUME NEW r \in Runs, NEW q \in Requests, CreateRequest(r, q) PROVE Creates(q)
  BY <1>8 DEF CreateRequest, World, Creates
<1> QED
  BY <1>1, <1>2, <1>3, <1>4, <1>5, <1>6, <1>7, <1>8 DEF Next, Step

(* What a policy leaves of the cutoffs, and what is due under it.          *)
LEMMA AcceptsLaw ==
  ASSUME TypeOK, ForgeInv, Accepts
  PROVE  /\ \A s \in DOMAIN ledger'.cutoff : ledger'.cutoff[s] <= clock
         /\ \A q \in Requests : \A s \in request'[q].due :
              /\ s \in request[q].due
              /\ s \in DOMAIN ledger.cutoff \cap DOMAIN ledger'.cutoff
              /\ ledger'.cutoff[s] = ledger.cutoff[s]
<1>1. PICK now \in Larger(0, clock - 1)..clock : ledger'.cutoff = AcceptPolicy(tip, now)
  BY DEF Accepts
<1>2. now <= clock
  BY BoundsAssumption DEF TypeOK, Time, Larger
<1>3. /\ DOMAIN ledger'.cutoff = Policies[tip]
      /\ \A s \in Policies[tip] :
           ledger'.cutoff[s] = IF s \in DOMAIN ledger.cutoff THEN ledger.cutoff[s] ELSE now
  BY <1>1 DEF AcceptPolicy
<1>4. \A s \in DOMAIN ledger'.cutoff : ledger'.cutoff[s] <= clock
  BY <1>2, <1>3 DEF ForgeInv
<1>5. ASSUME NEW q \in Requests, NEW s \in request'[q].due
      PROVE  s \in request[q].due /\ s \in Policies[tip] /\ s \in DOMAIN ledger.cutoff
  <2>1. request[q] \in RequestType /\ RequestInv(request[q])
    BY DEF TypeOK, ForgeInv
  <2>2. request'[q].due = request[q].due \cap Policies[tip]
    BY <2>1 DEF Accepts, RequestType
  <2> QED
    BY <2>1, <2>2 DEF RequestInv
<1> QED
  BY <1>3, <1>4, <1>5

(* A request keeps the times its state says.                               *)
LEMMA RequestKept ==
  ASSUME TypeOK, ForgeInv, Quiet \/ Accepts \/ (\E c \in Requests : Creates(c) \/ Merges(c)),
         NEW q \in Requests
  PROVE  RequestInv(request[q])'
<1>1. clock \in Nat /\ request[q] \in RequestType /\ RequestInv(request[q])
  BY BoundsAssumption DEF TypeOK, Time, ForgeInv
<1>2. CASE Quiet
  BY <1>1, <1>2 DEF Quiet, RequestInv
<1>3. CASE Accepts
  <2>1. clock' = clock /\ request'[q] = [request[q] EXCEPT !.due = @ \cap Policies[tip]]
    BY <1>3 DEF Accepts
  <2>2. request'[q].due \subseteq DOMAIN ledger'.cutoff
    BY <1>3, AcceptsLaw
  <2> QED
    BY <1>1, <2>1, <2>2 DEF RequestInv, RequestType
<1>4. ASSUME NEW c \in Requests, Creates(c) PROVE RequestInv(request[q])'
  <2>1. UNCHANGED <<clock, ledger>>
    BY <1>4 DEF Creates
  <2>2. CASE q # c
    BY <1>1, <1>4, <2>1, <2>2 DEF Creates, RequestInv, TypeOK
  <2>3. CASE q = c
    <3>1. request'[q] = [state |-> "open", created |-> clock, merged |-> Never, origin |-> clock,
                         due |-> DueNow("created"), late |-> LateNow("created")]
      BY <1>4, <2>3 DEF Creates, TypeOK
    <3>2. DueNow("created") \subseteq DOMAIN ledger'.cutoff
      BY <2>1 DEF DueNow
    <3> QED
      BY <1>1, <2>1, <3>1, <3>2 DEF RequestInv
  <2> QED
    BY <2>2, <2>3
<1>5. ASSUME NEW c \in Requests, Merges(c) PROVE RequestInv(request[q])'
  <2>1. UNCHANGED <<clock, ledger>>
    BY <1>5 DEF Merges
  <2>2. CASE q # c
    BY <1>1, <1>5, <2>1, <2>2 DEF Merges, RequestInv, TypeOK
  <2>3. CASE q = c
    <3>1. /\ request'[q].state = "merged" /\ request'[q].merged = clock
          /\ request'[q].created = request[q].created
          /\ request'[q].origin = request[q].origin
          /\ request'[q].due = request[q].due \cup DueNow("merged")
      BY <1>1, <1>5, <2>3 DEF Merges, TypeOK, RequestType
    <3>2. DueNow("merged") \subseteq DOMAIN ledger'.cutoff
      BY <2>1 DEF DueNow
    <3>3. request[q].state = "open"
      BY <1>5, <2>3 DEF Merges
    <3> QED
      BY <1>1, <2>1, <3>1, <3>2, <3>3 DEF RequestInv
  <2> QED
    BY <2>2, <2>3
<1> QED
  BY <1>2, <1>3, <1>4, <1>5

(* The listing stays in the order of creation.                             *)
LEMMA OrderKept ==
  ASSUME TypeOK, ForgeInv, Quiet \/ Accepts \/ (\E c \in Requests : Creates(c) \/ Merges(c))
  PROVE  OrderInv'
<1>1. OrderInv /\ order \in Seq(Requests) /\ clock \in Nat
  BY BoundsAssumption DEF TypeOK, Time, ForgeInv
<1>2. CASE Quiet
  BY <1>1, <1>2 DEF Quiet, OrderInv
<1>3. ASSUME order' = order,
             \A q \in Requests : /\ request'[q].state = "absent" <=> request[q].state = "absent"
                                 /\ request'[q].created = request[q].created
      PROVE  OrderInv'
  <2>1. \A i \in DOMAIN order : order[i] \in Requests
    BY <1>1
  <2> QED
    BY <1>1, <1>3, <2>1 DEF OrderInv
<1>4. CASE Accepts
  <2>1. ASSUME NEW q \in Requests
        PROVE  request'[q].state = request[q].state /\ request'[q].created = request[q].created
    <3>1. request[q] \in RequestType
      BY DEF TypeOK
    <3> QED
      BY <1>4, <3>1 DEF Accepts, RequestType
  <2> QED
    BY <1>3, <1>4, <2>1 DEF Accepts
<1>5. ASSUME NEW c \in Requests, Merges(c) PROVE OrderInv'
  <2>1. ASSUME NEW q \in Requests
        PROVE  /\ request'[q].state = "absent" <=> request[q].state = "absent"
               /\ request'[q].created = request[q].created
    <3>1. request[q] \in RequestType
      BY DEF TypeOK
    <3> QED
      BY <1>5, <3>1 DEF Merges, RequestType, TypeOK
  <2> QED
    BY <1>3, <1>5, <2>1 DEF Merges
<1>6. ASSUME NEW c \in Requests, Creates(c) PROVE OrderInv'
  <2> DEFINE n == Len(order) + 1
  <2>1. /\ DOMAIN order = 1..Len(order) /\ DOMAIN order' = 1..n /\ Len(order) \in Nat
        /\ order'[n] = c
        /\ \A i \in DOMAIN order : order'[i] = order[i] /\ order[i] \in Requests
    BY <1>1, <1>6 DEF Creates
  <2>2. /\ request'[c].state = "open" /\ request'[c].created = clock
        /\ \A q \in Requests : q # c => request'[q] = request[q]
    BY <1>6 DEF Creates, TypeOK
  <2>3. \A i \in DOMAIN order : /\ order[i] # c /\ request'[order[i]] = request[order[i]]
                                /\ request[order[i]].state # "absent"
    BY <1>1, <1>6, <2>1, <2>2 DEF Creates, OrderInv
  <2>4. \A i \in DOMAIN order' : i \in DOMAIN order \/ i = n
    BY <2>1
  <2> HIDE DEF n
  <2>5. \A i \in DOMAIN order' : request'[order'[i]].state # "absent"
    BY <2>1, <2>2, <2>3, <2>4
  <2>6. ASSUME NEW q \in Requests, request'[q].state # "absent"
        PROVE  \E i \in DOMAIN order' : order'[i] = q
    <3>1. n \in DOMAIN order' /\ DOMAIN order \subseteq DOMAIN order'
      BY <2>1 DEF n
    <3>2. CASE q = c
      BY <2>1, <3>1, <3>2
    <3>3. CASE q # c
      <4>1. PICK i \in DOMAIN order : order[i] = q
        BY <1>1, <2>2, <2>6, <3>3 DEF OrderInv
      <4> QED
        BY <2>1, <3>1, <4>1
    <3> QED
      BY <3>2, <3>3
  <2>7. \A i, j \in DOMAIN order' : order'[i] = order'[j] => i = j
    BY <1>1, <2>1, <2>3, <2>4 DEF OrderInv
  <2>8. ASSUME NEW i \in DOMAIN order', NEW j \in DOMAIN order', i < j
        PROVE  request'[order'[i]].created <= request'[order'[j]].created
    <3>1. i \in DOMAIN order
      BY <2>1, <2>8 DEF n
    <3>2. request[order[i]].created <= clock
      <4>1. order[i] \in Requests /\ request[order[i]].state # "absent"
        BY <2>1, <2>3, <3>1
      <4>2. RequestInv(request[order[i]])
        BY <4>1 DEF ForgeInv
      <4> QED
        BY <1>1, <4>1, <4>2 DEF RequestInv
    <3>3. CASE j = n
      BY <2>1, <2>2, <2>3, <3>1, <3>2, <3>3
    <3>4. CASE j \in DOMAIN order
      BY <1>1, <2>1, <2>3, <2>8, <3>1, <3>4 DEF OrderInv
    <3> QED
      BY <2>4, <3>3, <3>4
  <2> QED
    BY <2>5, <2>6, <2>7, <2>8 DEF OrderInv
<1> QED
  BY <1>2, <1>4, <1>5, <1>6

(* What holds of the forge keeps holding.                                  *)
LEMMA ForgeKept ==
  ASSUME TypeOK, ForgeInv, [Next]_vars
  PROVE  ForgeInv'
<1>1. Quiet \/ Accepts \/ (\E c \in Requests : Creates(c) \/ Merges(c))
  BY StepKinds
<1>2. scanned \in Nat /\ clock \in Nat
  BY BoundsAssumption DEF TypeOK, Time
<1>3. scanned' <= clock'
  <2>1. scanned' \in {scanned, clock} /\ clock' \in {clock, clock + 1}
    BY <1>1 DEF Quiet, Accepts, Creates, Merges
  <2> QED
    BY <1>2, <2>1 DEF ForgeInv
<1>4. \A s \in DOMAIN ledger'.cutoff : ledger'.cutoff[s] <= clock'
  <2>1. CASE Accepts
    BY <2>1, AcceptsLaw DEF Accepts
  <2>2. CASE ledger'.cutoff = ledger.cutoff /\ clock' \in {clock, clock + 1}
    <3>1. \A s \in DOMAIN ledger.cutoff : ledger.cutoff[s] \in Nat
      BY CutoffTyped, BoundsAssumption DEF Time
    <3> QED
      BY <1>2, <2>2, <3>1 DEF ForgeInv
  <2> QED
    BY <1>1, <2>1, <2>2 DEF Quiet, Creates, Merges
<1> QED
  BY <1>1, <1>3, <1>4, RequestKept, OrderKept DEF ForgeInv

----------------------------------------------------------------------------
(***************************************************************************)
(* No step makes a progress pass an event it had not passed.               *)
(***************************************************************************)

(* An event that stays as it is, in a listing that keeps its place.        *)
LEMMA SameEvent ==
  ASSUME NEW p, NEW k \in Kinds, NEW q \in Requests, NEW s \in Subs,
         OwedAndPassed(p, k, q, s)', host' = host,
         request'[q].created = request[q].created, request'[q].origin = request[q].origin,
         k = "created" => (request'[q].state = "absent" <=> request[q].state = "absent"),
         k = "merged" => /\ request'[q].state = request[q].state
                         /\ request'[q].merged = request[q].merged,
         request[q].late \cap {k} \subseteq request'[q].late,
         Position(q)' = Position(q),
         s \in request[q].due, s \in DOMAIN ledger.cutoff, ledger'.cutoff[s] = ledger.cutoff[s]
  PROVE  OwedAndPassed(p, k, q, s)
<1>1. KindOf(s) = k /\ Owed(q, s)' /\ Passed(p, q, k)'
  BY DEF OwedAndPassed, KindOf
<1>2. When(q, k)' = When(q, k)
  BY DEF When, Kinds
<1>3. Stamp(When(q, k))' = Stamp(When(q, k))
  BY <1>2 DEF Stamp
<1>4. EventAdmissionTime(q, k)' = EventAdmissionTime(q, k)
  <2>1. Stamp(request[q].origin)' = Stamp(request[q].origin)
    BY DEF Stamp
  <2> QED
    BY <1>3, <2>1 DEF EventAdmissionTime
<1>5. Occurred(q, k)' = Occurred(q, k)
  BY DEF Occurred, Kinds
<1>6. Owed(q, s)
  BY <1>1, <1>4, <1>5 DEF Owed, OwedExactly, KindOf
<1>7. Passed(p, q, k)
  BY <1>1, <1>3 DEF Passed, Pending, Within
<1> QED
  BY <1>1, <1>6, <1>7 DEF OwedAndPassed

(* What happens now no scan that has begun passes, unless it is late.      *)
LEMMA NewEvent ==
  ASSUME TypeOK, NEW p \in Progress, Bounded(p), NEW k \in Kinds, NEW q \in Requests, NEW s \in Subs,
         host' = host, When(q, k)' = clock, LateNow(k) \subseteq request'[q].late
  PROVE  ~OwedAndPassed(p, k, q, s)'
<1> SUFFICES ASSUME OwedAndPassed(p, k, q, s)' PROVE FALSE
  OBVIOUS
<1>1. k \notin request'[q].late /\ Passed(p, q, k)'
  BY DEF OwedAndPassed, Owed, KindOf
<1>2. clock \in Nat /\ scanned \in Nat /\ p.from \in Int /\ p.through \in Nat
  BY BoundsAssumption DEF TypeOK, Time, Progress
<1>3. scanned <= Stamp(clock) /\ Stamp(clock) \in Nat
  BY <1>1, <1>2, StampLaw DEF LateNow
<1>4. Stamp(When(q, k))' = Stamp(clock)
  BY DEF Stamp
<1>5. Stamp(clock) < p.from \/ Stamp(clock) < p.through
  BY <1>1, <1>4 DEF Passed
<1> QED
  BY <1>2, <1>3, <1>5 DEF Bounded

(* A request in the listing keeps its place when another one is appended.  *)
LEMMA PositionKept ==
  ASSUME order \in Seq(Requests), OrderInv, NEW c \in Requests, NEW q \in Requests, q # c,
         order' = Append(order, c), \E i \in DOMAIN order : order[i] = q
  PROVE  Position(q)' = Position(q)
<1>1. PICK i \in DOMAIN order : order[i] = q
  OBVIOUS
<1>2. \A j \in DOMAIN order : order[j] = q => j = i
  BY <1>1 DEF OrderInv
<1>3. /\ i \in DOMAIN order' /\ order'[i] = q
      /\ \A j \in DOMAIN order' : order'[j] = q => j = i
  <2>1. /\ DOMAIN order = 1..Len(order) /\ DOMAIN order' = 1..(Len(order) + 1) /\ Len(order) \in Nat
        /\ order'[Len(order) + 1] = c
        /\ \A j \in DOMAIN order : order'[j] = order[j]
    OBVIOUS
  <2> QED
    BY <1>1, <1>2, <2>1
<1>4. Position(q) = i
  BY <1>1, <1>2 DEF Position
<1>5. Position(q)' = i
  BY <1>3 DEF Position
<1> QED
  BY <1>4, <1>5

(* A progress of a scan that has begun passes nothing new.                 *)
LEMMA OlderProgress ==
  ASSUME TypeOK, ForgeInv, [Next]_vars, NEW p \in Progress, Bounded(p), NEW k \in Kinds,
         NEW q \in Requests, NEW s \in Subs, OwedAndPassed(p, k, q, s)'
  PROVE  OwedAndPassed(p, k, q, s)
<1>1. /\ KindOf(s) = k /\ s \in request'[q].due /\ s \in DOMAIN ledger'.cutoff
      /\ Occurred(q, k)'
  BY DEF OwedAndPassed, Owed, OwedExactly, KindOf
<1>2. request[q] \in RequestType /\ RequestInv(request[q])
  BY DEF TypeOK, ForgeInv
<1>3. CASE Quiet
  <2>1. Position(q)' = Position(q)
    BY <1>3 DEF Quiet, Position
  <2>2. s \in request[q].due /\ request'[q] = request[q] /\ host' = host
        /\ s \in DOMAIN ledger.cutoff /\ ledger'.cutoff[s] = ledger.cutoff[s]
    BY <1>1, <1>3 DEF Quiet
  <2> QED
    BY <2>1, <2>2, SameEvent
<1>4. CASE Accepts
  <2>1. Position(q)' = Position(q) /\ host' = host
    BY <1>4 DEF Accepts, Position
  <2>2. /\ s \in request[q].due /\ s \in DOMAIN ledger.cutoff
        /\ ledger'.cutoff[s] = ledger.cutoff[s]
    BY <1>1, <1>4, AcceptsLaw
  <2>3. /\ request'[q].created = request[q].created /\ request'[q].origin = request[q].origin
        /\ request'[q].state = request[q].state /\ request'[q].merged = request[q].merged
        /\ request'[q].late = request[q].late
    BY <1>2, <1>4 DEF Accepts, RequestType
  <2> QED
    BY <2>1, <2>2, <2>3, SameEvent
<1>5. ASSUME NEW c \in Requests, Creates(c) PROVE OwedAndPassed(p, k, q, s)
  <2>1. CASE q = c
    <3>1. request'[c] = [state |-> "open", created |-> clock, merged |-> Never, origin |-> clock,
                         due |-> DueNow("created"), late |-> LateNow("created")]
      BY <1>5 DEF Creates, TypeOK
    <3>2. k = "created"
      BY <1>1, <2>1, <3>1 DEF Occurred, Kinds
    <3>3. host' = host /\ When(q, k)' = clock /\ LateNow(k) \subseteq request'[q].late
      BY <1>5, <2>1, <3>1, <3>2 DEF Creates, When
    <3> QED
      BY <3>3, NewEvent
  <2>2. CASE q # c
    <3>1. request'[q] = request[q] /\ host' = host /\ ledger' = ledger
      BY <1>5, <2>2 DEF Creates, TypeOK
    <3>2. request[q].state # "absent"
      BY <1>1, <3>1 DEF Occurred, Kinds
    <3>3. Position(q)' = Position(q)
      BY <1>5, <2>2, <3>2, PositionKept DEF Creates, TypeOK, ForgeInv, OrderInv
    <3> QED
      BY <1>1, <3>1, <3>3, SameEvent
  <2> QED
    BY <2>1, <2>2
<1>6. ASSUME NEW c \in Requests, Merges(c) PROVE OwedAndPassed(p, k, q, s)
  <2>1. Position(q)' = Position(q) /\ host' = host /\ ledger' = ledger
    BY <1>6 DEF Merges, Position
  <2>2. CASE q = c /\ k = "merged"
    <3>1. request'[c].merged = clock /\ request'[c].late = request[c].late \cup LateNow("merged")
      BY <1>2, <1>6, <2>2 DEF Merges, TypeOK, RequestType
    <3>2. When(q, k)' = clock /\ LateNow(k) \subseteq request'[q].late
      BY <2>2, <3>1 DEF When
    <3> QED
      BY <2>1, <3>2, NewEvent
  <2>3. CASE q = c /\ k = "created"
    <3>1. /\ request'[q].created = request[q].created /\ request'[q].origin = request[q].origin
          /\ request'[q].state # "absent" /\ request[q].state # "absent"
          /\ request[q].late \subseteq request'[q].late
          /\ request'[q].due = request[q].due \cup DueNow("merged")
      BY <1>2, <1>6, <2>3 DEF Merges, TypeOK, RequestType
    <3>2. s \in request[q].due
      BY <1>1, <2>3, <3>1 DEF DueNow
    <3> QED
      BY <1>1, <2>1, <2>3, <3>1, <3>2, SameEvent
  <2>4. CASE q # c
    <3>1. request'[q] = request[q]
      BY <1>6, <2>4 DEF Merges, TypeOK
    <3> QED
      BY <1>1, <2>1, <3>1, SameEvent
  <2> QED
    BY <2>2, <2>3, <2>4 DEF Kinds
<1> QED
  BY <1>3, <1>4, <1>5, <1>6, StepKinds

----------------------------------------------------------------------------
(***************************************************************************)
(* A page finds all that it passes.                                        *)
(***************************************************************************)

(* An event is admitted by its stamp or, in the same second, by what its   *)
(* request carries, and never by an instant after it happened.             *)
LEMMA EventLaw ==
  ASSUME TypeOK, ForgeInv, NEW q \in Requests, NEW k \in Kinds, Occurred(q, k)
  PROVE  /\ When(q, k) \in Nat /\ Stamp(When(q, k)) \in Nat
         /\ request[q].created \in Nat /\ request[q].created <= When(q, k)
         /\ Stamp(When(q, k)) <= When(q, k)
         /\ EventAdmissionTime(q, k) \in Nat /\ EventAdmissionTime(q, k) <= When(q, k)
         /\ EventAdmissionTime(q, k) < Stamp(When(q, k)) + Second
<1>1. request[q] \in RequestType /\ RequestInv(request[q]) /\ clock \in Nat
  BY BoundsAssumption DEF TypeOK, Time, ForgeInv
<1>2. request[q].state # "absent"
  BY DEF Occurred, Kinds
<1>3. When(q, k) \in Nat /\ request[q].created \in Nat /\ request[q].created <= When(q, k)
  BY <1>1, <1>2 DEF Occurred, When, RequestInv, Kinds
<1>4. Stamp(When(q, k)) \in Nat /\ Stamp(When(q, k)) <= When(q, k)
      /\ When(q, k) < Stamp(When(q, k)) + Second
  BY <1>3, StampLaw
<1>5. EventAdmissionTime(q, k) \in {When(q, k), Stamp(When(q, k))}
  <2>1. CASE k = "created"
    <3>1. request[q].origin = request[q].created
      BY <1>1, <1>2, <2>1 DEF Occurred, RequestInv
    <3> QED
      BY <2>1, <3>1 DEF EventAdmissionTime, When
  <2>2. CASE k # "created"
    BY <2>2 DEF EventAdmissionTime
  <2> QED
    BY <2>1, <2>2
<1> QED
  BY <1>3, <1>4, <1>5, BoundsAssumption

(* An event that has occurred has its request in the listing.              *)
LEMMA PlaceOf ==
  ASSUME TypeOK, ForgeInv, NEW q \in Requests, request[q].state # "absent"
  PROVE  Position(q) \in 1..Len(order) /\ order[Position(q)] = q /\ Len(order) \in Nat
<1>1. \E i \in DOMAIN order : order[i] = q
  BY DEF ForgeInv, OrderInv
<1>2. DOMAIN order = 1..Len(order) /\ Len(order) \in Nat
  BY DEF TypeOK
<1> QED
  BY <1>1, <1>2 DEF Position

(* On GitHub: the walk begins a page early and ends at the cursor, at the  *)
(* end of the listing or after a request that is too young.                *)
LEMMA GithubFindsAll ==
  ASSUME TypeOK, ForgeInv, host = "github", NEW k \in Kinds, NEW q \in Queries,
         NEW x \in Requests, Occurred(x, k),
         NEW p \in Progress, p.from = q.from, p.through = q.through,
         p.cursor = GithubPage(k, q).cursor, p.complete = GithubPage(k, q).complete,
         Passed(p, x, k)
  PROVE  Passed(AsProgress(q), x, k) \/ x \in GithubPage(k, q).found
<1> DEFINE page == q.cursor.page
           t == Stamp(When(x, k))
           i == Position(x)
           first == (Larger(1, page - 1) - 1) * PageLimit + 1
           walked == (first .. page * PageLimit) \cap DOMAIN order
           beyond == \E j \in walked : Stamp(request[order[j]].created) > q.through
           complete == beyond \/ page * PageLimit >= Len(order)
<1>1. page \in Nat \ {0} /\ PageLimit \in Nat \ {0} /\ q.from \in Int /\ q.through \in Nat
  BY BoundsAssumption DEF Queries, Cursors, Time
<1>2. request[x].state # "absent"
  BY DEF Occurred, Kinds
<1>3. i \in 1..Len(order) /\ order[i] = x /\ Len(order) \in Nat /\ DOMAIN order = 1..Len(order)
  BY <1>2, PlaceOf DEF TypeOK
<1>4. t \in Nat /\ request[x].created \in Nat /\ request[x].created <= When(x, k)
      /\ When(x, k) \in Nat
  BY EventLaw
<1>5. /\ GithubPage(k, q).complete = complete
      /\ GithubPage(k, q).found = {r \in Listed(k) : /\ \E j \in walked : order[j] = r
                                                     /\ Within(Stamp(When(r, k)), q.from, q.through)}
      /\ ~complete => GithubPage(k, q).cursor.page = page + 1
  BY DEF GithubPage, Start
<1>6. /\ AsProgress(q).from = q.from /\ AsProgress(q).through = q.through
      /\ AsProgress(q).cursor = q.cursor /\ AsProgress(q).complete = FALSE
  BY DEF AsProgress
<1>7. CASE t < q.from
  BY <1>6, <1>7 DEF Passed
<1>8. CASE i <= (page - 1) * PageLimit /\ t < q.through
  BY <1>6, <1>8 DEF Passed
<1>9. CASE ~(t < q.from) /\ ~(i <= (page - 1) * PageLimit)
  <2>1. t < q.through
    BY <1>9 DEF Passed
  <2>2. first \in Int /\ first <= (page - 1) * PageLimit + 1 /\ page * PageLimit \in Nat
        /\ (page - 1) * PageLimit \in Int
    <3>1. Larger(1, page - 1) - 1 \in Nat /\ Larger(1, page - 1) - 1 <= page - 1
      BY <1>1 DEF Larger
    <3>2. (Larger(1, page - 1) - 1) * PageLimit <= (page - 1) * PageLimit
          /\ (Larger(1, page - 1) - 1) * PageLimit \in Nat /\ (page - 1) * PageLimit \in Nat
          /\ page * PageLimit \in Nat
      <4> HIDE DEF page
      <4>1. \A a, b \in Nat : a <= b => a * PageLimit <= b * PageLimit /\ a * PageLimit \in Nat
        BY BoundsAssumption, SMT
      <4> QED
        BY <1>1, <3>1, <4>1
    <3> QED
      BY <3>2
  <2>3. i <= page * PageLimit
    <3>1. CASE ~complete
      <4>1. p.cursor.page = page + 1 /\ ~p.complete
        BY <1>5, <3>1
      <4>2. i <= ((page + 1) - 1) * PageLimit
        BY <1>9, <4>1 DEF Passed
      <4> QED
        BY <1>1, <4>2
    <3>2. CASE page * PageLimit >= Len(order)
      <4> HIDE DEF page, i
      <4> QED
        BY <1>3, <2>2, <3>2
    <3>3. CASE beyond
      <4>1. PICK j \in walked : Stamp(request[order[j]].created) > q.through
        BY <3>3
      <4>2. j \in DOMAIN order /\ j <= page * PageLimit /\ order[j] \in Requests
        BY <1>3, <2>2, <4>1 DEF TypeOK
      <4>3. SUFFICES ASSUME j < i PROVE FALSE
        <5> HIDE DEF page, i, walked
        <5> QED
          BY <1>3, <2>2, <4>2
      <4>4. request[order[j]].created <= request[x].created
        BY <1>3, <4>2, <4>3 DEF ForgeInv, OrderInv
      <4>5. request[order[j]].created \in Nat
        <5>1. request[order[j]].state # "absent" /\ RequestInv(request[order[j]])
          BY <4>2 DEF ForgeInv, OrderInv
        <5> QED
          BY <5>1, BoundsAssumption DEF RequestInv, TypeOK, Time
      <4>6. Stamp(request[order[j]].created) <= t /\ Stamp(request[order[j]].created) \in Nat
        BY <1>4, <4>4, <4>5, StampLaw, StampMonotone
      <4> HIDE DEF t
      <4> QED
        BY <1>1, <1>4, <2>1, <4>1, <4>6
    <3> QED
      BY <3>1, <3>2, <3>3
  <2>4. i \in walked
    <3>1. first <= i
      <4> HIDE DEF first, i, page
      <4> QED
        BY <1>3, <1>9, <2>2
    <3> HIDE DEF first, i, page
    <3> QED
      BY <1>3, <2>2, <2>3, <3>1
  <2>5. Within(t, q.from, q.through)
    <3> HIDE DEF t
    <3> QED
      BY <1>1, <1>4, <1>9, <2>1 DEF Within
  <2>6. x \in Listed(k)
    BY DEF Listed, Occurred, Kinds
  <2> QED
    BY <1>3, <1>5, <2>4, <2>5, <2>6
<1>10. t < q.from \/ t < q.through
  BY DEF Passed
<1> QED
  BY <1>7, <1>8, <1>9, <1>10

(* On Azure DevOps: a partition is read to its end, or its halves, which   *)
(* share their middle, take its place.                                     *)
LEMMA AzureFindsAll ==
  ASSUME TypeOK, ForgeInv, host \in Hosts, host # "github", NEW k \in Kinds, NEW q \in Queries,
         NEW x \in Requests, Occurred(x, k),
         NEW p \in Progress, p.from = q.from, p.through = q.through,
         p.cursor = AzurePage(k, q).cursor, p.complete = AzurePage(k, q).complete,
         Passed(p, x, k)
  PROVE  Passed(AsProgress(q), x, k) \/ x \in AzurePage(k, q).found
<1> DEFINE t == Stamp(When(x, k))
           pending == Pending(q)
           part == Head(pending)
           hits == {r \in Listed(k) : Within(Stamp(When(r, k)), part[1], part[2])}
           full == Cardinality(hits) >= PartitionLimit
           mid == (part[1] + part[2]) \div 2
           halves == << <<part[1], mid>>, <<mid, part[2]>> >>
           next == IF full THEN halves \o Tail(pending) ELSE Tail(pending)
           stuck == full /\ (part[2] - part[1] <= 1 \/ Len(pending) >= MaxPending)
           page == AzurePage(k, q)
<1>1. pending \in Seq(Int \X Int) /\ pending # <<>>
  BY PendingTyped DEF Queries
<1>2. /\ Len(pending) \in Nat \ {0} /\ DOMAIN pending = 1..Len(pending)
      /\ part = pending[1] /\ part \in Int \X Int
      /\ Tail(pending) \in Seq(Int \X Int) /\ Len(Tail(pending)) = Len(pending) - 1
      /\ \A i \in 1..(Len(pending) - 1) : Tail(pending)[i] = pending[i + 1]
  <2> HIDE DEF pending
  <2> QED
    BY <1>1
<1>3. Len(pending) \in Nat \ {0} /\ DOMAIN pending = 1..Len(pending)
  BY <1>2
<1>4. part[1] \in Int /\ part[2] \in Int /\ mid \in Int
  <2>1. part[1] \in Int /\ part[2] \in Int
    BY <1>2
  <2> HIDE DEF part
  <2> QED
    BY <2>1
<1>5. t \in Nat /\ q.from \in Int /\ q.through \in Nat
  BY EventLaw, BoundsAssumption DEF Queries, Time
<1>6. /\ page.complete = (IF stuck THEN FALSE ELSE next = <<>>)
      /\ page.found = (IF stuck \/ full THEN {} ELSE hits)
      /\ page.cursor.pending = (IF stuck THEN pending ELSE next)
  BY DEF AzurePage, Start
<1>7. AsProgress(q).from = q.from /\ AsProgress(q).through = q.through
      /\ AsProgress(q).complete = FALSE /\ Pending(AsProgress(q)) = pending
  BY DEF AsProgress, Pending
<1>8. Pending(p) = IF p.cursor.pending = <<>> THEN << <<q.from, q.through>> >> ELSE p.cursor.pending
  BY DEF Pending
<1>9. t < q.from \/ t < q.through
  BY DEF Passed
<1>10. (t < q.from \/ (t < q.through /\ \A i \in DOMAIN pending : ~Within(t, pending[i][1], pending[i][2])))
        => Passed(AsProgress(q), x, k)
  <2> HIDE DEF pending
  <2> QED
    BY <1>7 DEF Passed
<1>11. SUFFICES ASSUME ~(t < q.from), t < q.through, x \notin page.found
                PROVE  \A i \in DOMAIN pending : ~Within(t, pending[i][1], pending[i][2])
  <2> HIDE DEF t, pending
  <2> QED
    BY <1>5, <1>9, <1>10
<1>12. p.complete \/ \A i \in DOMAIN Pending(p) : ~Within(t, Pending(p)[i][1], Pending(p)[i][2])
  BY <1>11 DEF Passed
<1>13. x \in Listed(k)
  BY DEF Listed, Occurred, Kinds
<1> HIDE DEF pending, part, mid, hits, page, t
<1>14. CASE stuck
  <2>1. ~p.complete /\ Pending(p) = pending
    BY <1>1, <1>6, <1>8, <1>14 DEF page
  <2> QED
    BY <1>12, <2>1
<1>15. CASE ~stuck /\ full
  <2> DEFINE rest == Tail(pending)
             both == halves \o rest
  <2>1. next = both /\ both # <<>> /\ Len(both) = Len(pending) + 1
        /\ both[1] = <<part[1], mid>> /\ both[2] = <<mid, part[2]>>
        /\ \A i \in 1..(Len(pending) - 1) : both[i + 2] = pending[i + 1]
    <3>1. halves \in Seq(Int \X Int) /\ Len(halves) = 2
          /\ halves[1] = <<part[1], mid>> /\ halves[2] = <<mid, part[2]>>
      BY <1>4
    <3>2. rest \in Seq(Int \X Int) /\ Len(rest) = Len(pending) - 1
          /\ \A i \in 1..(Len(pending) - 1) : rest[i] = pending[i + 1]
      BY <1>2
    <3> HIDE DEF halves, rest
    <3>3. /\ Len(both) = Len(halves) + Len(rest)
          /\ \A i \in 1..(Len(halves) + Len(rest)) :
               both[i] = IF i <= Len(halves) THEN halves[i] ELSE rest[i - Len(halves)]
      BY <3>1, <3>2, ConcatProperties, Zenon
    <3>4. next = both
      BY <1>15 DEF next, both, rest
    <3> HIDE DEF both, next
    <3>5. Len(rest) \in Nat /\ Len(both) = Len(pending) + 1
      BY <1>3, <3>1, <3>2, <3>3
    <3>6. both # <<>> /\ both[1] = halves[1] /\ both[2] = halves[2]
      <4>1. /\ 1 \in 1..(Len(halves) + Len(rest)) /\ 2 \in 1..(Len(halves) + Len(rest))
            /\ 1 <= Len(halves) /\ 2 <= Len(halves)
        BY <3>1, <3>5
      <4>2. Len(both) # 0
        BY <1>3, <3>5
      <4> QED
        BY <3>3, <4>1, <4>2
    <3>7. ASSUME NEW i \in 1..Len(rest) PROVE both[i + 2] = rest[i]
      <4>1. /\ i + 2 \in 1..(Len(halves) + Len(rest)) /\ ~(i + 2 <= Len(halves))
            /\ (i + 2) - Len(halves) = i
        BY <3>1, <3>5
      <4> QED
        BY <3>3, <4>1
    <3>8. \A i \in 1..(Len(pending) - 1) : both[i + 2] = pending[i + 1]
      BY <3>2, <3>7
    <3> QED
      BY <3>1, <3>4, <3>5, <3>6, <3>8
  <2> HIDE DEF next, both, rest, halves
  <2>2. ~p.complete /\ Pending(p) = both
    BY <1>6, <1>8, <1>15, <2>1 DEF page
  <2>3. DOMAIN both = 1..(Len(pending) + 1)
    BY <1>2, <1>4, <2>1 DEF both, halves, rest
  <2>4. \A i \in 1..(Len(pending) + 1) : ~Within(t, both[i][1], both[i][2])
    BY <1>12, <2>2, <2>3
  <2>5. ASSUME NEW i \in DOMAIN pending PROVE ~Within(t, pending[i][1], pending[i][2])
    <3>1. CASE i = 1
      <4>1. ~Within(t, part[1], mid) /\ ~Within(t, mid, part[2])
        BY <1>2, <2>1, <2>4
      <4> QED
        BY <1>2, <1>4, <1>5, <3>1, <4>1 DEF Within
    <3>2. CASE i # 1
      <4>1. i - 1 \in 1..(Len(pending) - 1) /\ (i - 1) + 1 = i /\ (i - 1) + 2 = i + 1
            /\ i + 1 \in 1..(Len(pending) + 1)
        BY <1>3, <3>2
      <4>2. both[i + 1] = pending[i]
        BY <2>1, <4>1
      <4> QED
        BY <2>4, <4>1, <4>2
    <3> QED
      BY <3>1, <3>2
  <2> QED
    BY <2>5
<1>16. CASE ~full
  <2>1. ~Within(t, part[1], part[2])
    <3>1. x \notin hits
      BY <1>6, <1>11, <1>16 DEF page
    <3> QED
      BY <1>13, <3>1 DEF hits, t
  <2>2. \A i \in 1..(Len(pending) - 1) : ~Within(t, pending[i + 1][1], pending[i + 1][2])
    <3>1. CASE Tail(pending) = <<>>
      <4>1. Len(pending) - 1 = 0
        BY <1>2, <3>1
      <4>2. 1..0 = {}
        OBVIOUS
      <4> QED
        BY <4>1, <4>2
    <3>2. CASE Tail(pending) # <<>>
      <4>1. ~p.complete /\ Pending(p) = Tail(pending)
        BY <1>6, <1>8, <1>16, <3>2 DEF page
      <4>2. DOMAIN Tail(pending) = 1..(Len(pending) - 1)
        BY <1>2
      <4> QED
        BY <1>2, <1>12, <4>1, <4>2
    <3> QED
      BY <3>1, <3>2
  <2>3. ASSUME NEW i \in DOMAIN pending PROVE ~Within(t, pending[i][1], pending[i][2])
    <3>1. CASE i = 1
      BY <1>2, <2>1, <3>1
    <3>2. CASE i # 1
      <4>1. i - 1 \in 1..(Len(pending) - 1) /\ (i - 1) + 1 = i
        BY <1>3, <3>2
      <4> QED
        BY <2>2, <4>1
    <3> QED
      BY <3>1, <3>2
  <2> QED
    BY <2>3
<1> QED
  BY <1>14, <1>15, <1>16

(* The progress of a page passes only what the query had passed and what   *)
(* the page found.                                                         *)
LEMMA PageFindsAll ==
  ASSUME TypeOK, ForgeInv, NEW k \in Kinds, NEW q \in Queries, NEW x \in Requests, NEW s \in Subs,
         NEW p \in Progress, p.from = q.from, p.through = q.through,
         p.cursor = ListLifecyclePage(k, q).cursor, p.complete = ListLifecyclePage(k, q).complete,
         OwedAndPassed(p, k, x, s)
  PROVE  OwedAndPassed(AsProgress(q), k, x, s) \/ x \in ListLifecyclePage(k, q).found
<1>1. Occurred(x, k) /\ Passed(p, x, k)
  BY DEF OwedAndPassed, Owed, OwedExactly, KindOf
<1>2. Passed(AsProgress(q), x, k) \/ x \in ListLifecyclePage(k, q).found
  <2>1. CASE host = "github"
    BY <1>1, <2>1, GithubFindsAll DEF ListLifecyclePage
  <2>2. CASE host # "github"
    BY <1>1, <2>2, AzureFindsAll DEF ListLifecyclePage, TypeOK
  <2> QED
    BY <2>1, <2>2
<1> QED
  BY <1>2 DEF OwedAndPassed

(* A page that was not read, because its partition cannot be halved, found *)
(* nothing and ends nothing.                                               *)
LEMMA UnreadPage ==
  ASSUME NEW k \in Kinds, NEW q \in Queries, ~ListLifecyclePage(k, q).ok
  PROVE  ~ListLifecyclePage(k, q).complete /\ ListLifecyclePage(k, q).found = {}
BY DEF ListLifecyclePage, GithubPage, AzurePage

(* What has occurred and is passed can be told from what was read of it.   *)
LEMMA PassedIsEvent ==
  ASSUME TypeOK, ForgeInv, NEW k \in Kinds, NEW x \in Requests, NEW s \in Subs, NEW p \in Progress,
         Bounded(p), OwedAndPassed(p, k, x, s), NEW now \in Time, p.through <= now
  PROVE  EventFrom(GetLifecycleRequest(x), k, now)
<1>1. Occurred(x, k) /\ Passed(p, x, k)
  BY DEF OwedAndPassed, Owed, OwedExactly, KindOf
<1>2. /\ GetLifecycleRequest(x).id = x
      /\ GetLifecycleRequest(x).state = request[x].state
  BY DEF GetLifecycleRequest
<1>3. CASE k = "created"
  <2>1. Stamp(request[x].created) \in Nat /\ When(x, k) = request[x].created
    BY <1>1, <1>3, EventLaw DEF When
  <2>2. Stamp(request[x].created) <= now
    <3>1. Stamp(request[x].created) < p.from \/ Stamp(request[x].created) < p.through
      BY <1>1, <2>1 DEF Passed
    <3>2. now \in Nat /\ p.from \in Int /\ p.through \in Nat /\ p.from <= p.through
      BY BoundsAssumption DEF Progress, Time, Bounded
    <3> QED
      BY <2>1, <3>1, <3>2
  <2> QED
    BY <1>1, <1>2, <1>3, <2>2 DEF EventFrom, Occurred
<1>4. CASE k # "created"
  BY <1>1, <1>2, <1>4 DEF EventFrom, Occurred
<1> QED
  BY <1>3, <1>4

----------------------------------------------------------------------------
(***************************************************************************)
(* The invariant.                                                          *)
(***************************************************************************)

(* What was delivered stays delivered, and a scan begins after the others. *)
LEMMA HistoryGrows ==
  ASSUME TypeOK, ForgeInv, [Next]_vars
  PROVE  /\ ledger.delivered \subseteq ledger'.delivered
         /\ scanned <= scanned' /\ scanned' \in Nat
         /\ clock <= clock' /\ clock' \in Nat
<1>1. ledger \in LedgerType /\ scanned \in Nat /\ clock \in Nat /\ scanned <= clock
  BY BoundsAssumption DEF TypeOK, Time, ForgeInv
<1>2. scanned' \in {scanned, clock} /\ clock' \in {clock, clock + 1}
  BY StepKinds DEF Quiet, Accepts, Creates, Merges
<1>3. ledger.delivered \subseteq ledger'.delivered
  <2>1. CASE ledger' = ledger
    BY <2>1
  <2>2. ASSUME NEW r \in Runs, Begin(r) PROVE ledger.delivered \subseteq ledger'.delivered
    BY <1>1, <2>2 DEF Begin, LedgerType
  <2>3. ASSUME NEW r \in Runs, RecordObservation(r)
        PROVE  ledger.delivered \subseteq ledger'.delivered
    BY <2>3, RecordTyped DEF RecordObservation
  <2>4. CASE UNCHANGED vars \/ Tick \/ AdvanceConfig \/ \E q \in Requests : Merge(q)
    BY <2>1, <2>4 DEF vars, Tick, AdvanceConfig, Merge
  <2>5. ASSUME NEW r \in Runs,
               \/ ReadOutcome(r) \/ StartObserve(r) \/ PollKnown(r) \/ ReadPage(r)
               \/ FailedRead(r) \/ Crash(r) \/ \E q \in Requests : CreateRequest(r, q)
        PROVE  ledger.delivered \subseteq ledger'.delivered
    BY <2>1, <2>5 DEF ReadOutcome, StartObserve, PollKnown, ReadPage, FailedRead, Crash,
                      CreateRequest
  <2> QED
    BY <2>2, <2>3, <2>4, <2>5 DEF Next, Step
<1> QED
  BY <1>1, <1>2, <1>3

(* Progress that is covered stays so.                                      *)
LEMMA CoveredKept ==
  ASSUME TypeOK, ForgeInv, [Next]_vars, NEW p \in Progress, NEW k \in Kinds,
         Bounded(p), Covered(p, k)
  PROVE  Bounded(p)' /\ Covered(p, k)'
<1>1. Bounded(p)'
  <2>1. p.through \in Nat /\ scanned \in Nat
    BY BoundsAssumption DEF Progress, TypeOK, Time
  <2> QED
    BY <2>1, HistoryGrows DEF Bounded
<1>2. ASSUME NEW q \in Requests, NEW s \in Subs, OwedAndPassed(p, k, q, s)'
      PROVE  <<q, s>> \in ledger'.delivered
  <2>1. OwedAndPassed(p, k, q, s)
    BY <1>2, OlderProgress
  <2> QED
    BY <2>1, HistoryGrows DEF Covered
<1> QED
  BY <1>1, <1>2 DEF Covered

(* What a run has read of a request is read for good.                      *)
LEMMA FactKept ==
  ASSUME TypeOK, ForgeInv, [Next]_vars, NEW q \in Requests
  PROVE  /\ request[q].state = "merged" => request'[q].state = "merged"
         /\ request[q].origin # Never => /\ request'[q].origin = request[q].origin
                                         /\ request'[q].created = request[q].created
         /\ host' = host
<1>1. request[q] \in RequestType /\ RequestInv(request[q])
  BY DEF TypeOK, ForgeInv
<1>2. CASE Quiet
  BY <1>2 DEF Quiet
<1>3. CASE Accepts
  BY <1>1, <1>3 DEF Accepts, RequestType
<1>4. ASSUME NEW c \in Requests, Creates(c)
      PROVE  host' = host /\ (c # q => request'[q] = request[q])
                          /\ (c = q => request[q].state = "absent")
  BY <1>4 DEF Creates, TypeOK
<1>5. ASSUME NEW c \in Requests, Merges(c)
      PROVE  /\ host' = host
             /\ c # q => request'[q] = request[q]
             /\ c = q => /\ request'[q].state = "merged"
                         /\ request'[q].origin = request[q].origin
                         /\ request'[q].created = request[q].created
  BY <1>1, <1>5 DEF Merges, TypeOK, RequestType
<1> QED
  BY <1>1, <1>2, <1>3, <1>4, <1>5, StepKinds DEF RequestInv

(* So is what a run has in its hands.                                      *)
LEMMA HandsKept ==
  ASSUME TypeOK, ForgeInv, [Next]_vars, NEW x \in RunType, RunInv(x)
  PROVE  RunInv(x)'
<1>1. x.now <= clock'
  <2>1. x.now \in Nat /\ clock \in Nat
    BY BoundsAssumption DEF RunType, TypeOK, Time
  <2> QED
    BY <2>1, HistoryGrows DEF RunInv
<1>2. \A f \in x.facts : f \in Facts /\ f.id \in Requests
  BY DEF RunType, Facts
<1>3. FactsInv(x)'
  BY <1>2, FactKept DEF RunInv, FactsInv
<1>4. ASSUME NEW f \in x.facts, NEW k \in Kinds, EventFrom(f, k, x.now)
      PROVE  EventFrom(f, k, x.now)'
  BY <1>2, <1>4, FactKept DEF EventFrom, Stamp
<1>5. ASSUME QueriesInv(x) PROVE QueriesInv(x)'
  <2>1. ASSUME NEW k \in Kinds
        PROVE  /\ Bounded(x.q[k])' /\ x.q[k].through <= x.now
               /\ Covered(AsProgress(x.q[k]), k)'
    <3>1. x.q[k] \in Queries
      BY DEF RunType
    <3>2. /\ AsProgress(x.q[k]) \in Progress
          /\ AsProgress(x.q[k]).from = x.q[k].from
          /\ AsProgress(x.q[k]).through = x.q[k].through
      BY <3>1 DEF AsProgress, Queries, Progress
    <3>3. Bounded(AsProgress(x.q[k])) /\ Covered(AsProgress(x.q[k]), k) /\ x.q[k].through <= x.now
      BY <1>5, <3>2 DEF QueriesInv, Bounded
    <3>4. Bounded(AsProgress(x.q[k]))' /\ Covered(AsProgress(x.q[k]), k)'
      BY <3>2, <3>3, CoveredKept
    <3> QED
      BY <3>2, <3>3, <3>4 DEF Bounded
  <2> QED
    BY <2>1 DEF QueriesInv
<1>6. ASSUME QueriesInv(x), ProgressInv(x) PROVE ProgressInv(x)'
  <2>1. ASSUME NEW p \in x.progress, NEW q \in Requests, NEW s \in Subs,
               OwedAndPassed(p, x.kind, q, s)'
        PROVE  <<q, s>> \in ledger'.delivered \/ Noted(x, q, x.kind)'
    <3>1. p \in Progress /\ x.kind \in Kinds
      BY DEF RunType
    <3>2. Bounded(p) /\ Covers(x, p, x.kind)
      BY <1>6, <3>1 DEF ProgressInv, QueriesInv, Bounded
    <3>3. OwedAndPassed(p, x.kind, q, s)
      BY <2>1, <3>1, <3>2, OlderProgress
    <3>4. <<q, s>> \in ledger.delivered \/ Noted(x, q, x.kind)
      BY <3>2, <3>3 DEF Covers
    <3> QED
      BY <1>4, <3>1, <3>4, HistoryGrows DEF Noted
  <2> QED
    BY <1>6, <2>1 DEF ProgressInv, Covers
<1> QED
  BY <1>1, <1>3, <1>5, <1>6 DEF RunInv

(* A frozen query has passed nothing that is owed: what is older than the  *)
(* end of the last scan was admitted, what is older than the earliest      *)
(* admissible time is not owed.                                            *)
LEMMA QueryCovered ==
  ASSUME TypeOK, ForgeInv, ScanInv, NEW k \in Kinds
  PROVE  /\ Query(k, clock).from <= Query(k, clock).through
         /\ Query(k, clock).through <= clock
         /\ ~ledger.scan[k].complete => Query(k, clock).through <= scanned
         /\ Covered(AsProgress(Query(k, clock)), k)
<1> DEFINE prev == ledger.scan[k]
           early == EarliestAdmissibleTime(k, clock)
           q == Query(k, clock)
<1>1. /\ prev \in Progress /\ clock \in Time /\ clock \in Nat /\ scanned \in Nat
      /\ prev.from \in Int /\ prev.through \in Nat
  BY BoundsAssumption DEF TypeOK, LedgerType, Time, Progress
<1>2. Bounded(prev) /\ Covered(prev, k) /\ scanned <= clock
  BY DEF ScanInv, ForgeInv
<1>3. /\ early \in Int /\ early <= clock
      /\ \A s \in DOMAIN ledger.cutoff : KindOf(s) = k => early <= ledger.cutoff[s] - Second
  BY <1>1, EarliestLaw DEF ForgeInv
<1> HIDE DEF early
<1>4. CASE ~prev.complete
  <2>1. q = [from |-> prev.from, through |-> prev.through, cursor |-> prev.cursor]
    BY <1>4 DEF Query
  <2>2. AsProgress(q) = prev
    <3>1. AsProgress(q) = [from |-> prev.from, through |-> prev.through,
                           cursor |-> prev.cursor, complete |-> FALSE]
      BY <2>1 DEF AsProgress
    <3>2. prev = [from |-> prev.from, through |-> prev.through,
                  cursor |-> prev.cursor, complete |-> prev.complete]
          /\ prev.complete = FALSE
      <4> HIDE DEF prev
      <4> QED
        BY <1>1, <1>4 DEF Progress
    <3> HIDE DEF prev, q
    <3> QED
      BY <3>1, <3>2
  <2> QED
    BY <1>1, <1>2, <2>1, <2>2 DEF Bounded
<1>5. CASE prev.complete
  <2>1. q = [from |-> Larger(prev.through, early), through |-> clock, cursor |-> Start]
    BY <1>5 DEF Query, early
  <2>2. q.from \in Int /\ q.from <= clock /\ q.through = clock /\ q.cursor = Start
        /\ q.from \in {prev.through, early}
    BY <1>1, <1>2, <1>3, <2>1 DEF Larger, Bounded
  <2>3. AsProgress(q) = [from |-> q.from, through |-> clock, cursor |-> Start, complete |-> FALSE]
    BY <2>2 DEF AsProgress
  <2>4. ASSUME NEW x \in Requests, NEW s \in Subs, OwedAndPassed(AsProgress(q), k, x, s)
        PROVE  <<x, s>> \in ledger.delivered
    <3> DEFINE t == Stamp(When(x, k))
    <3>1. /\ KindOf(s) = k /\ Owed(x, s) /\ Occurred(x, k) /\ Passed(AsProgress(q), x, k)
          /\ s \in DOMAIN ledger.cutoff /\ EventAdmissionTime(x, k) >= ledger.cutoff[s]
      BY <2>4 DEF OwedAndPassed, Owed, OwedExactly, KindOf
    <3>2. t \in Nat /\ EventAdmissionTime(x, k) \in Nat
          /\ EventAdmissionTime(x, k) < t + Second
      BY <3>1, EventLaw
    <3>3. t < q.from
      <4>1. CASE host = "github"
        <5>1. Position(x) \in 1..Len(order) /\ Len(order) \in Nat
          BY <3>1, PlaceOf DEF Occurred, Kinds
        <5>2. Start.page = 1 /\ (1 - 1) * PageLimit = 0
          BY BoundsAssumption DEF Start
        <5>3. ~(Position(x) <= (Start.page - 1) * PageLimit)
          BY <5>1, <5>2
        <5> QED
          BY <2>3, <3>1, <4>1, <5>3 DEF Passed
      <4>2. CASE host # "github"
        <5>1. Pending(AsProgress(q)) = << <<q.from, clock>> >>
          BY <2>3 DEF Pending, Start
        <5>2. SUFFICES ASSUME ~(t < q.from) PROVE FALSE
          OBVIOUS
        <5>3. t < clock /\ ~Within(t, q.from, clock)
          <6>1. t < clock /\ \A i \in 1..1 : ~Within(t, << <<q.from, clock>> >>[i][1],
                                                          << <<q.from, clock>> >>[i][2])
            BY <2>3, <3>1, <4>2, <5>1, <5>2 DEF Passed
          <6> QED
            BY <6>1
        <5> QED
          BY <1>1, <2>2, <3>2, <5>2, <5>3 DEF Within
      <4> QED
        BY <4>1, <4>2
    <3>4. CASE t < prev.through
      <4>1. Passed(prev, x, k)
        BY <1>5, <3>4 DEF Passed
      <4> QED
        BY <1>2, <3>1, <4>1 DEF Covered, OwedAndPassed
    <3>5. CASE t < early
      <4>1. ledger.cutoff[s] \in Nat
        BY <3>1, CutoffTyped, BoundsAssumption DEF Time
      <4>2. early <= ledger.cutoff[s] - Second
        BY <1>3, <3>1
      <4> HIDE DEF t
      <4> QED
        BY <1>3, <3>1, <3>2, <3>5, <4>1, <4>2, BoundsAssumption
    <3> QED
      BY <2>2, <3>3, <3>4, <3>5
  <2>5. Covered(AsProgress(q), k)
    BY <2>4 DEF Covered
  <2>6. q.through <= clock
    BY <1>1, <2>2
  <2> HIDE DEF q
  <2> QED
    BY <1>5, <2>2, <2>5, <2>6 DEF q
<1> QED
  BY <1>4, <1>5

(* The facts of a page cover its progress, however much of it was read.    *)
LEMMA PageCovers ==
  ASSUME TypeOK, ForgeInv, NEW r \in Runs, RunInv(run[r]), run[r].pc = "observe",
         NEW k \in Kinds, k = run[r].kind, NEW q \in Queries, q = run[r].q[k],
         NEW p \in Progress, p.from = q.from, p.through = q.through,
         NEW x \in RunType, x.pc = "record", x.progress = {p},
         \/ p = AsProgress(q)
         \/ /\ p.cursor = ListLifecyclePage(k, q).cursor
            /\ p.complete = ListLifecyclePage(k, q).complete
            /\ \A y \in ListLifecyclePage(k, q).found : GetLifecycleRequest(y) \in x.facts,
         \A f \in x.facts : \E y \in Requests : f = GetLifecycleRequest(y),
         x.now = run[r].now, x.q = run[r].q, x.kind = k
  PROVE  RunInv(x)
<1>1. QueriesInv(run[r]) /\ run[r].now <= clock
  BY DEF RunInv
<1>2. FactsInv(x)
  BY DEF FactsInv, GetLifecycleRequest
<1>3. q.from <= q.through /\ q.through <= scanned /\ q.through <= x.now
  BY <1>1 DEF QueriesInv, Bounded
<1>4. Covered(AsProgress(q), k)
  BY <1>1 DEF QueriesInv
<1>5. Bounded(p)
  BY <1>3 DEF Bounded
<1>6. ASSUME NEW y \in Requests, NEW s \in Subs, OwedAndPassed(p, k, y, s)
      PROVE  <<y, s>> \in ledger.delivered \/ Noted(x, y, k)
  <2>1. \/ OwedAndPassed(AsProgress(q), k, y, s)
        \/ GetLifecycleRequest(y) \in x.facts
    BY <1>6, PageFindsAll
  <2>2. CASE OwedAndPassed(AsProgress(q), k, y, s)
    BY <1>4, <2>2 DEF Covered
  <2>3. CASE GetLifecycleRequest(y) \in x.facts
    <3>1. x.now \in Time
      BY DEF RunType
    <3>2. EventFrom(GetLifecycleRequest(y), k, x.now)
      BY <1>3, <1>5, <1>6, <3>1, PassedIsEvent
    <3>3. GetLifecycleRequest(y).id = y
      BY DEF GetLifecycleRequest
    <3> QED
      BY <2>3, <3>2, <3>3 DEF Noted
  <2> QED
    BY <2>1, <2>2, <2>3
<1>7. QueriesInv(x) /\ ProgressInv(x)
  BY <1>1, <1>6 DEF QueriesInv, ProgressInv, Covers
<1> QED
  BY <1>1, <1>2, <1>7 DEF RunInv

LEMMA PageReadCovers ==
  ASSUME TypeOK, ForgeInv, NEW r \in Runs, RunInv(run[r]), run[r].pc = "observe",
         NEW failed \in BOOLEAN, NEW part,
         part \subseteq ListLifecyclePage(run[r].kind, run[r].q[run[r].kind]).found,
         failed \/ part = ListLifecyclePage(run[r].kind, run[r].q[run[r].kind]).found,
         PageRead(r, ListLifecyclePage(run[r].kind, run[r].q[run[r].kind]), part, failed)
  PROVE  \E x \in RunType : run' = [run EXCEPT ![r] = x] /\ RunInv(x)
<1>1. PICK k \in Kinds : k = run[r].kind
  BY DEF TypeOK, RunType
<1>2. PICK q \in Queries : q = run[r].q[k]
  BY DEF TypeOK, RunType
<1>3. PICK page \in Pages : page = ListLifecyclePage(k, q)
  BY PageTyped
<1>4. PageRead(r, page, part, failed) /\ (failed \/ part = page.found)
  BY <1>1, <1>2, <1>3
<1>5. part \in SUBSET Requests
  BY <1>1, <1>2, <1>3 DEF Pages
<1>6. run' \in [Runs -> RunType]
  BY <1>4, <1>5, PageReadTyped
<1> DEFINE p == [from |-> q.from, through |-> q.through,
                 cursor |-> IF failed /\ page.ok THEN q.cursor ELSE page.cursor,
                 complete |-> page.complete /\ ~failed]
           facts == {GetLifecycleRequest(y) : y \in part}
           pages == run[r].pages + page.pages
           broke == failed \/ ~page.ok
           x == [run[r] EXCEPT !.pc = "record", !.facts = facts, !.progress = {p},
                   !.pages = pages, !.broke = broke]
<1>7. run' = [run EXCEPT ![r] = x]
  BY <1>1, <1>2, <1>4 DEF PageRead
<1>8. p \in Progress
  BY DEF Queries, Progress, Pages
<1>9. p.from = q.from /\ p.through = q.through
  OBVIOUS
<1>10. \/ p = AsProgress(q)
       \/ p.cursor = page.cursor /\ p.complete = page.complete /\ part = page.found
  <2>1. CASE ~failed
    BY <1>4, <2>1 DEF Pages
  <2>2. CASE failed /\ page.ok
    BY <2>2 DEF AsProgress
  <2>3. CASE failed /\ ~page.ok
    <3>1. ~page.complete /\ page.found = {}
      BY <1>3, <2>3, UnreadPage
    <3> QED
      BY <1>1, <1>2, <1>3, <2>3, <3>1 DEF Pages
  <2> QED
    BY <2>1, <2>2, <2>3
<1>11. \A y \in part : GetLifecycleRequest(y) \in facts
  OBVIOUS
<1>12. \A f \in facts : \E y \in Requests : f = GetLifecycleRequest(y)
  BY <1>5
<1> HIDE DEF p, facts, pages, broke
<1>13. /\ x.pc = "record" /\ x.facts = facts /\ x.progress = {p} /\ x.now = run[r].now
       /\ x.q = run[r].q /\ x.kind = k
  BY <1>1 DEF TypeOK, RunType
<1> HIDE DEF x
<1>14. x \in RunType
  BY <1>6, <1>7 DEF TypeOK
<1>15. RunInv(x)
  BY <1>1, <1>2, <1>3, <1>8, <1>9, <1>10, <1>11, <1>12, <1>13, <1>14, PageCovers
<1> QED
  BY <1>7, <1>14, <1>15

(* The commit of what a run observed admits all that its progress passes.  *)
LEMMA RecordCovers ==
  ASSUME TypeOK, NEW r \in Runs, NEW p \in Progress, NEW k \in Kinds,
         Covers(run[r], p, k), NEW q \in Requests, NEW s \in Subs, OwedAndPassed(p, k, q, s)
  PROVE  <<q, s>> \in Recorded(r).delivered
<1> DEFINE facts == run[r].facts
           events == UNION {AdmitEvent(f.id, j) : f \in facts, j \in Kinds}
           admissible == {e \in events : \E f \in facts : f.id = e[1] /\
                                           EventFrom(f, KindOf(e[2]), run[r].now)}
<1>1. Recorded(r).delivered = ledger.delivered \cup admissible
  BY DEF Recorded, TypeOK, LedgerType
<1>2. KindOf(s) = k /\ s \in DOMAIN ledger.cutoff /\ EventAdmissionTime(q, k) >= ledger.cutoff[s]
  BY DEF OwedAndPassed, Owed, OwedExactly, KindOf
<1>3. CASE <<q, s>> \in ledger.delivered
  BY <1>1, <1>3
<1>4. CASE Noted(run[r], q, k)
  <2>1. PICK f \in facts : f.id = q /\ EventFrom(f, k, run[r].now)
    BY <1>4 DEF Noted
  <2>2. <<q, s>> \in AdmitEvent(f.id, k)
    BY <1>2, <2>1 DEF AdmitEvent
  <2>3. <<q, s>> \in events
    BY <2>1, <2>2
  <2>4. <<q, s>>[1] = q /\ <<q, s>>[2] = s
    OBVIOUS
  <2>5. <<q, s>> \in admissible
    <3> HIDE DEF events, facts
    <3> QED
      BY <1>2, <2>1, <2>3, <2>4 DEF admissible
  <2> QED
    BY <1>1, <2>5
<1> QED
  BY <1>3, <1>4 DEF Covers

(* A run that has ended holds nothing.                                     *)
LEMMA EndedHolds ==
  ASSUME TypeOK, NEW r \in Runs
  PROVE  RunInv(Idle) /\ RunInv(Ended(r))
<1>1. 0 <= clock
  BY BoundsAssumption DEF TypeOK, Time
<1> QED
  BY <1>1 DEF RunInv, FactsInv, Idle, Ended

(* What a step of a run leaves in its hands, besides the freezing of its   *)
(* queries and its commits, is true already when it is taken.              *)
LEMMA HandsRead ==
  ASSUME TypeOK, ForgeInv, NEW r \in Runs, RunInv(run[r]),
         \/ Begin(r) \/ ReadOutcome(r) \/ PollKnown(r) \/ ReadPage(r)
         \/ FailedRead(r) \/ Crash(r) \/ \E q \in Requests : CreateRequest(r, q)
  PROVE  \E x \in RunType : run' = [run EXCEPT ![r] = x] /\ RunInv(x)
<1>1. run[r] \in RunType /\ clock \in Time /\ tip \in 0..Len(Policies) /\ clock <= clock
  BY PolicyTyped, BoundsAssumption DEF TypeOK, Time
<1>2. CASE Begin(r)
  <2> DEFINE x == [Idle EXCEPT !.pc = "core", !.cfg = tip]
  <2>1. run' = [run EXCEPT ![r] = x]
    BY <1>2 DEF Begin
  <2>2. x \in RunType
    BY <1>1, IdleTyped DEF Idle, RunType
  <2>3. RunInv(x)
    <3>1. 0 <= clock
      BY BoundsAssumption DEF TypeOK, Time
    <3> QED
      BY <3>1 DEF RunInv, FactsInv, Idle
  <2> QED
    BY <2>1, <2>2, <2>3
<1>3. CASE ReadOutcome(r)
  <2>1. PICK q \in run[r].outs :
          run' = [run EXCEPT ![r] = [run[r] EXCEPT !.pc = "recordOutcome", !.outs = @ \ {q},
                                       !.now = clock, !.facts = {GetLifecycleRequest(q)}]]
    BY <1>3 DEF ReadOutcome
  <2> DEFINE x == [run[r] EXCEPT !.pc = "recordOutcome", !.outs = @ \ {q},
                     !.now = clock, !.facts = {GetLifecycleRequest(q)}]
  <2>2. GetLifecycleRequest(q) \in Facts
    BY <1>1, FactTyped DEF RunType
  <2>3. x \in RunType /\ x.pc = "recordOutcome" /\ x.now = clock
        /\ x.facts = {GetLifecycleRequest(q)} /\ x.progress = run[r].progress
    BY <1>1, <2>2 DEF RunType
  <2>4. run[r].progress = {}
    BY <1>3 DEF ReadOutcome, RunInv
  <2>5. FactsInv(x)
    BY <2>3 DEF FactsInv, GetLifecycleRequest
  <2> HIDE DEF x
  <2>6. RunInv(x)
    BY <1>1, <2>3, <2>4, <2>5 DEF RunInv
  <2> QED
    BY <2>1, <2>3, <2>6 DEF x
<1>4. CASE PollKnown(r)
  <2>1. PICK q \in run[r].todo :
          run' = [run EXCEPT ![r] = [run[r] EXCEPT !.pc = "record", !.todo = @ \ {q},
                                       !.facts = {GetLifecycleRequest(q)}]]
    BY <1>4 DEF PollKnown
  <2> DEFINE x == [run[r] EXCEPT !.pc = "record", !.todo = @ \ {q},
                     !.facts = {GetLifecycleRequest(q)}]
  <2>2. GetLifecycleRequest(q) \in Facts
    BY <1>1, FactTyped DEF RunType
  <2>3. x \in RunType /\ x.pc = "record" /\ x.now = run[r].now /\ x.q = run[r].q
        /\ x.facts = {GetLifecycleRequest(q)} /\ x.progress = run[r].progress
    BY <1>1, <2>2 DEF RunType
  <2>4. run[r].progress = {} /\ QueriesInv(run[r]) /\ run[r].now <= clock
    BY <1>4 DEF PollKnown, RunInv
  <2>5. FactsInv(x)
    BY <2>3 DEF FactsInv, GetLifecycleRequest
  <2> HIDE DEF x
  <2>6. QueriesInv(x) /\ ProgressInv(x)
    BY <2>3, <2>4 DEF QueriesInv, ProgressInv
  <2>7. RunInv(x)
    BY <2>3, <2>4, <2>5, <2>6 DEF RunInv
  <2> QED
    BY <2>1, <2>3, <2>7 DEF x
<1>5. ASSUME NEW x \in RunType, run' = [run EXCEPT ![r] = x], x.pc \in {run[r].pc, "outcome"},
             run[r].pc # "record",
             x.now = run[r].now, x.q = run[r].q, x.facts = run[r].facts,
             x.progress = run[r].progress, x.kind = run[r].kind
      PROVE  RunInv(x)
  BY <1>5 DEF RunInv, FactsInv, QueriesInv, ProgressInv, Covers, Noted
<1>6. ASSUME NEW q \in Requests, CreateRequest(r, q)
      PROVE  \E x \in RunType : run' = [run EXCEPT ![r] = x] /\ RunInv(x)
  <2> DEFINE x == [run[r] EXCEPT !.outs = {q}]
  <2>1. run' = [run EXCEPT ![r] = x] /\ run[r].pc = "core"
    BY <1>6 DEF CreateRequest
  <2>2. x \in RunType /\ x.pc = run[r].pc /\ x.now = run[r].now /\ x.q = run[r].q
        /\ x.facts = run[r].facts /\ x.progress = run[r].progress /\ x.kind = run[r].kind
    BY <1>1 DEF RunType
  <2> HIDE DEF x
  <2> QED
    BY <1>5, <2>1, <2>2
<1>7. CASE Crash(r)
  BY <1>7, EndedHolds, IdleTyped DEF Crash
<1>8. CASE ReadPage(r)
  <2>1. /\ ListLifecyclePage(run[r].kind, run[r].q[run[r].kind]).found
             \subseteq ListLifecyclePage(run[r].kind, run[r].q[run[r].kind]).found
        /\ FALSE \in BOOLEAN
    OBVIOUS
  <2> QED
    BY <1>8, <2>1, PageReadCovers DEF ReadPage
<1>9. CASE FailedRead(r)
  <2>1. CASE /\ run[r].pc = "core"
             /\ run' = [run EXCEPT ![r] = [run[r] EXCEPT !.pc = "outcome", !.outs = {}]]
    <3> DEFINE x == [run[r] EXCEPT !.pc = "outcome", !.outs = {}]
    <3>1. x \in RunType /\ x.pc = "outcome" /\ x.now = run[r].now /\ x.q = run[r].q
          /\ x.facts = run[r].facts /\ x.progress = run[r].progress /\ x.kind = run[r].kind
      BY <1>1 DEF RunType
    <3>2. run' = [run EXCEPT ![r] = x]
      BY <2>1
    <3> HIDE DEF x
    <3> QED
      BY <1>5, <2>1, <3>1, <3>2
  <2>2. CASE /\ run[r].pc = "observe"
             /\ \E q \in run[r].todo : run' = [run EXCEPT ![r].todo = @ \ {q}]
    <3>1. PICK q : run' = [run EXCEPT ![r] = [run[r] EXCEPT !.todo = @ \ {q}]]
      BY <2>2
    <3> DEFINE x == [run[r] EXCEPT !.todo = @ \ {q}]
    <3>2. x \in RunType /\ x.pc = run[r].pc /\ x.now = run[r].now /\ x.q = run[r].q
          /\ x.facts = run[r].facts /\ x.progress = run[r].progress /\ x.kind = run[r].kind
      BY <1>1 DEF RunType
    <3>3. run' = [run EXCEPT ![r] = x]
      BY <3>1
    <3> HIDE DEF x
    <3> QED
      BY <1>5, <2>2, <3>2, <3>3
  <2>3. ASSUME NEW part \in SUBSET ListLifecyclePage(run[r].kind, run[r].q[run[r].kind]).found,
               run[r].pc = "observe",
               PageRead(r, ListLifecyclePage(run[r].kind, run[r].q[run[r].kind]), part, TRUE)
        PROVE  \E x \in RunType : run' = [run EXCEPT ![r] = x] /\ RunInv(x)
    BY <2>3, PageReadCovers
  <2> QED
    BY <1>9, <2>1, <2>2, <2>3 DEF FailedRead
<1> QED
  BY <1>2, <1>3, <1>4, <1>6, <1>7, <1>8, <1>9

(* A step that leaves the forge and the ledger alone leaves covered what   *)
(* is covered.                                                             *)
LEMMA CoveredStill ==
  ASSUME NEW p, NEW k, Covered(p, k), UNCHANGED <<host, request, order, ledger>>
  PROVE  Covered(p, k)'
BY DEF Covered, OwedAndPassed, Owed, OwedExactly, Occurred, EventAdmissionTime,
       Stamp, When, Passed, Position

(* A run that freezes its queries.                                         *)
LEMMA StartKept ==
  ASSUME Invariant, TypeOK', [Next]_vars, NEW r \in Runs, StartObserve(r)
  PROVE  RunInv(run[r])'
<1>1. run[r] \in RunType /\ run \in [Runs -> RunType] /\ run' \in [Runs -> RunType]
      /\ clock \in Nat /\ clock \in Time /\ scanned \in Nat /\ TypeOK
  BY BoundsAssumption DEF Invariant, TypeOK, Time
<1>2. UNCHANGED <<host, clock, tip, request, order, ledger>>
  BY DEF StartObserve, World, Forge
<1>3. CASE run' = [run EXCEPT ![r] = Ended(r)]
  <2>1. run'[r] = Ended(r) /\ RunInv(Ended(r)) /\ Ended(r) \in RunType
    BY <1>1, <1>3, EndedHolds, IdleTyped DEF Invariant
  <2>2. RunInv(Ended(r))'
    BY <2>1, HandsKept DEF Invariant
  <2> QED
    BY <2>1, <2>2
<1>4. CASE /\ run' = [run EXCEPT ![r] = [run[r] EXCEPT !.pc = "observe", !.now = clock,
                        !.todo = {q \in Requests : ledger.known[q] = "open"},
                        !.q = [k \in Kinds |-> Query(k, clock)]]]
           /\ scanned' = IF \E k \in Kinds : ledger.scan[k].complete THEN clock ELSE scanned
  <2>1. PICK x \in RunType : x = run'[r]
    BY <1>1
  <2>2. x = [run[r] EXCEPT !.pc = "observe", !.now = clock,
               !.todo = {q \in Requests : ledger.known[q] = "open"},
               !.q = [k \in Kinds |-> Query(k, clock)]]
    BY <1>1, <1>4, <2>1
  <2>3. /\ x.pc = "observe" /\ x.now = clock /\ x.facts = run[r].facts
        /\ x.progress = run[r].progress /\ \A k \in Kinds : x.q[k] = Query(k, clock)
    BY <1>1, <2>2 DEF RunType
  <2>4. run[r].progress = {} /\ FactsInv(run[r])
    BY DEF Invariant, RunInv, StartObserve
  <2>5. FactsInv(x)'
    BY <1>2, <2>3, <2>4 DEF FactsInv
  <2>6. ASSUME NEW k \in Kinds, NEW q \in Queries, q = Query(k, clock)
        PROVE  /\ q.from <= q.through /\ q.through <= clock /\ q.through <= scanned'
               /\ Covered(AsProgress(q), k)'
    <3>1. /\ q.from <= q.through /\ q.through <= clock
          /\ ~ledger.scan[k].complete => q.through <= scanned
          /\ Covered(AsProgress(q), k)
      BY <2>6, QueryCovered DEF Invariant
    <3>2. q.through \in Nat /\ scanned <= clock
      BY BoundsAssumption DEF Queries, Time, Invariant, ForgeInv
    <3>3. q.through <= scanned'
      BY <1>1, <1>4, <3>1, <3>2
    <3>4. Covered(AsProgress(q), k)'
      BY <1>2, <3>1, CoveredStill
    <3> QED
      BY <3>1, <3>3, <3>4
  <2>7. QueriesInv(x)'
    <3>1. ASSUME NEW k \in Kinds
          PROVE  /\ Bounded(x.q[k])' /\ x.q[k].through <= x.now
                 /\ Covered(AsProgress(x.q[k]), k)'
      <4>1. x.q[k] \in Queries /\ x.q[k] = Query(k, clock)
        BY <2>3 DEF RunType
      <4> QED
        BY <2>3, <2>6, <4>1 DEF Bounded
    <3> QED
      BY <3>1 DEF QueriesInv
  <2>8. ProgressInv(x)'
    BY <2>3, <2>4 DEF ProgressInv
  <2>9. RunInv(x)'
    BY <1>1, <1>2, <2>3, <2>4, <2>5, <2>7, <2>8 DEF RunInv
  <2> QED
    BY <2>1, <2>9
<1> QED
  BY <1>3, <1>4 DEF StartObserve

(* The progress that a run commits is covered by what it commits with it.  *)
LEMMA CommitCovers ==
  ASSUME Invariant, [Next]_vars, NEW r \in Runs, ledger' = Recorded(r),
         NEW p \in run[r].progress, NEW k, k = run[r].kind
  PROVE  /\ p \in Progress /\ k \in Kinds /\ run[r].pc = "record"
         /\ p.from = run[r].q[k].from /\ p.through = run[r].q[k].through
         /\ Bounded(p)' /\ Covered(p, k)'
<1>1. TypeOK /\ ForgeInv /\ run[r] \in RunType /\ RunInv(run[r])
  BY DEF Invariant, TypeOK
<1>2. p \in Progress /\ k \in Kinds
  BY <1>1 DEF RunType
<1>3. run[r].pc = "record" /\ QueriesInv(run[r]) /\ ProgressInv(run[r])
  BY <1>1 DEF RunInv
<1>4. /\ p.from = run[r].q[k].from /\ p.through = run[r].q[k].through
      /\ Covers(run[r], p, k) /\ Bounded(p)
  BY <1>2, <1>3 DEF ProgressInv, QueriesInv, Bounded
<1>5. Bounded(p)'
  <2>1. p.through \in Nat /\ scanned \in Nat
    BY <1>1, <1>2, BoundsAssumption DEF Progress, TypeOK, Time
  <2> QED
    BY <1>1, <1>4, <2>1, HistoryGrows DEF Bounded
<1>6. ASSUME NEW q \in Requests, NEW s \in Subs, OwedAndPassed(p, k, q, s)'
      PROVE  <<q, s>> \in ledger'.delivered
  <2>1. OwedAndPassed(p, k, q, s)
    BY <1>1, <1>2, <1>4, <1>6, OlderProgress
  <2> QED
    BY <1>1, <1>2, <1>4, <2>1, RecordCovers
<1>7. Covered(p, k)'
  BY <1>6 DEF Covered
<1> QED
  BY <1>2, <1>3, <1>4, <1>5, <1>7

(* What is on record of the scans after a commit.                          *)
LEMMA ScansRecorded ==
  ASSUME Invariant, [Next]_vars, NEW r \in Runs, ledger' = Recorded(r)
  PROVE  ScanInv'
<1>1. TypeOK /\ ForgeInv /\ ScanInv /\ ledger \in LedgerType
  BY DEF Invariant, TypeOK
<1>2. ASSUME NEW k \in Kinds
      PROVE  Bounded(ledger.scan[k])' /\ Covered(ledger.scan[k], k)'
  <2>1. ledger'.scan[k] = IF run[r].progress # {} /\ k = run[r].kind
                            THEN CHOOSE p \in run[r].progress : TRUE ELSE ledger.scan[k]
    BY <1>1 DEF Recorded, LedgerType
  <2>2. CASE ledger'.scan[k] = ledger.scan[k]
    <3>1. PICK p \in Progress : p = ledger.scan[k]
      BY <1>1 DEF LedgerType
    <3>2. Bounded(p) /\ Covered(p, k)
      BY <1>1, <3>1 DEF ScanInv
    <3>3. Bounded(p)' /\ Covered(p, k)'
      BY <1>1, <3>2, CoveredKept
    <3> QED
      BY <2>2, <3>1, <3>3 DEF Bounded, Covered, OwedAndPassed, Passed, Pending
  <2>3. CASE run[r].progress # {} /\ k = run[r].kind
    <3>1. PICK p \in run[r].progress : p = ledger'.scan[k]
      BY <2>1, <2>3
    <3>2. Bounded(p)' /\ Covered(p, k)'
      BY <2>3, CommitCovers
    <3> QED
      BY <3>1, <3>2 DEF Bounded, Covered, OwedAndPassed, Passed, Pending
  <2> QED
    BY <2>1, <2>2, <2>3
<1> QED
  BY <1>2 DEF ScanInv

(* Progress that is covered is so as progress of a query with its cursor.  *)
LEMMA AdvancedCovered ==
  ASSUME NEW p \in Progress, ~p.complete, NEW q \in Queries, p.from = q.from, p.through = q.through
  PROVE  AsProgress([q EXCEPT !.cursor = p.cursor]) = p
<1>1. AsProgress([q EXCEPT !.cursor = p.cursor]) =
        [from |-> p.from, through |-> p.through, cursor |-> p.cursor, complete |-> FALSE]
  BY DEF AsProgress, Queries
<1>2. p = [from |-> p.from, through |-> p.through, cursor |-> p.cursor, complete |-> p.complete]
      /\ p.complete = FALSE
  BY DEF Progress
<1> QED
  BY <1>1, <1>2

(* A run after a commit: it has the same queries, or one of them with the  *)
(* cursor of the progress it committed.                                    *)
LEMMA RecordKept ==
  ASSUME Invariant, TypeOK', [Next]_vars, NEW r \in Runs, RecordObservation(r)
  PROVE  RunInv(run[r])'
<1>1. /\ TypeOK /\ ForgeInv /\ run[r] \in RunType /\ run \in [Runs -> RunType]
      /\ run' \in [Runs -> RunType] /\ RunInv(run[r])
  BY DEF Invariant, TypeOK
<1>2. PICK x \in RunType : x = run'[r]
  BY <1>1
<1>3. ASSUME RunInv(x)' PROVE RunInv(run[r])'
  BY <1>2, <1>3
<1>4. RunInv(run[r]) /\ run[r].now <= clock'
  <2>1. run[r].now \in Nat /\ clock \in Nat
    BY <1>1, BoundsAssumption DEF RunType, TypeOK, Time
  <2> QED
    BY <1>1, <2>1, HistoryGrows DEF RunInv
<1>5. CASE x = Ended(r)
  <2>1. RunInv(x)
    BY <1>1, <1>5, EndedHolds
  <2> QED
    BY <1>1, <1>3, <2>1, HandsKept
<1>6. ASSUME x.facts = {}, x.progress = {}, x.now = run[r].now,
             run[r].pc = "record" =>
               \A k \in Kinds : /\ Bounded(x.q[k])' /\ x.q[k].through <= x.now
                                /\ Covered(AsProgress(x.q[k]), k)',
             run[r].pc # "record" => x.pc = "outcome"
      PROVE  RunInv(x)'
  BY <1>4, <1>6 DEF RunInv, FactsInv, QueriesInv, ProgressInv
<1>7. ASSUME run[r].pc = "record", NEW k \in Kinds, NEW q \in Queries, q = run[r].q[k]
      PROVE  /\ Bounded(q)' /\ q.through <= run[r].now /\ Covered(AsProgress(q), k)'
  <2>1. /\ AsProgress(q) \in Progress
        /\ AsProgress(q).from = q.from /\ AsProgress(q).through = q.through
    BY DEF AsProgress, Queries, Progress
  <2>2. /\ Bounded(AsProgress(q)) /\ Covered(AsProgress(q), k) /\ q.through <= run[r].now
    BY <1>1, <1>7, <2>1 DEF RunInv, QueriesInv, Bounded
  <2>3. Bounded(AsProgress(q))' /\ Covered(AsProgress(q), k)'
    BY <1>1, <2>1, <2>2, CoveredKept
  <2> QED
    BY <2>1, <2>2, <2>3 DEF Bounded
<1>8. ASSUME x.facts = {}, x.progress = {}, x.now = run[r].now, x.q = run[r].q,
             run[r].pc # "record" => x.pc = "outcome"
      PROVE  RunInv(x)'
  <2>1. ASSUME run[r].pc = "record", NEW k \in Kinds
        PROVE  /\ Bounded(x.q[k])' /\ x.q[k].through <= x.now
               /\ Covered(AsProgress(x.q[k]), k)'
    <3>1. x.q[k] \in Queries
      BY DEF RunType
    <3> QED
      BY <1>7, <1>8, <2>1, <3>1
  <2> QED
    BY <1>6, <1>8, <2>1
<1>9. CASE /\ ledger' = Recorded(r) /\ run[r].progress = {}
           /\ run' = [run EXCEPT ![r] = [run[r] EXCEPT !.facts = {},
                        !.pc = IF @ = "recordOutcome" THEN "outcome" ELSE "observe"]]
  <2>1. x = [run[r] EXCEPT !.facts = {},
               !.pc = IF @ = "recordOutcome" THEN "outcome" ELSE "observe"]
    BY <1>1, <1>2, <1>9
  <2>2. /\ x.facts = {} /\ x.progress = {} /\ x.now = run[r].now /\ x.q = run[r].q
        /\ x.pc = IF run[r].pc = "recordOutcome" THEN "outcome" ELSE "observe"
    BY <1>1, <1>9, <2>1 DEF RunType
  <2>3. run[r].pc # "record" => x.pc = "outcome"
    BY <2>2 DEF RecordObservation
  <2> QED
    BY <1>3, <1>8, <2>2, <2>3
<1>10. CASE /\ ledger' = Recorded(r) /\ run[r].progress # {}
            /\ run' = [run EXCEPT ![r] = AfterPage(r, run[r])]
  <2>1. x = AfterPage(r, run[r])
    BY <1>1, <1>2, <1>10
  <2> DEFINE kind == run[r].kind
             idle == [run[r] EXCEPT !.pc = "observe", !.facts = {}, !.progress = {}, !.broke = FALSE]
  <2>2. /\ idle \in RunType /\ idle.facts = {} /\ idle.progress = {} /\ idle.now = run[r].now
        /\ idle.q = run[r].q /\ idle.kind = kind /\ idle.pc = "observe"
    BY <1>1 DEF RunType
  <2>3. PICK p \in run[r].progress : p = CHOOSE c \in run[r].progress : TRUE
    BY <1>10
  <2>4. /\ p \in Progress /\ kind \in Kinds /\ run[r].pc = "record"
        /\ p.from = run[r].q[kind].from /\ p.through = run[r].q[kind].through
        /\ \A k : k = kind => Bounded(p)' /\ Covered(p, k)'
    BY <1>10, CommitCovers
  <2>5. CASE x = [idle EXCEPT !.kind = "merged"]
    <3>1. x.facts = {} /\ x.progress = {} /\ x.now = run[r].now /\ x.q = run[r].q
      <4> HIDE DEF idle
      <4> QED
        BY <2>2, <2>5 DEF RunType
    <3> QED
      BY <1>3, <1>8, <2>4, <3>1
  <2>6. CASE ~p.complete /\ x = [idle EXCEPT !.q[kind].cursor = p.cursor]
    <3>1. run[r].q[kind] \in Queries /\ run[r].q \in [Kinds -> Queries]
      BY <1>1, <2>4 DEF RunType
    <3> DEFINE moved == [run[r].q[kind] EXCEPT !.cursor = p.cursor]
    <3>2. x.q = [run[r].q EXCEPT ![kind] = moved]
      <4>1. x = [idle EXCEPT !.q = [idle.q EXCEPT ![kind] = [idle.q[kind] EXCEPT !.cursor = p.cursor]]]
        <5> HIDE DEF idle, kind
        <5> QED
          BY <2>6
      <4> HIDE DEF idle
      <4> QED
        BY <2>2, <4>1 DEF RunType
    <3>3. x.facts = {} /\ x.progress = {} /\ x.now = run[r].now
      <4> HIDE DEF idle
      <4> QED
        BY <2>2, <2>6 DEF RunType
    <3>4. /\ AsProgress(moved) = p
          /\ moved.from = p.from /\ moved.through = p.through
          /\ moved.through = run[r].q[kind].through
      <4>1. AsProgress(moved) = p
        BY <2>4, <2>6, <3>1, AdvancedCovered
      <4> QED
        BY <2>4, <3>1, <4>1 DEF Queries
    <3> HIDE DEF moved, idle
    <3>5. ASSUME NEW k \in Kinds
          PROVE  /\ Bounded(x.q[k])' /\ x.q[k].through <= x.now
                 /\ Covered(AsProgress(x.q[k]), k)'
      <4>1. x.q[k] \in Queries
        BY DEF RunType
      <4>2. CASE k = kind
        <5>1. PICK q : q = moved
          OBVIOUS
        <5>2. x.q[k] = q /\ AsProgress(q) = p /\ q.from = p.from /\ q.through = p.through
          BY <3>1, <3>2, <3>4, <4>2, <5>1
        <5>3. Bounded(p)' /\ Covered(p, k)'
          BY <2>4, <4>2
        <5>4. run[r].q[k].through <= run[r].now
          BY <1>7, <2>4, <3>1
        <5> QED
          BY <2>4, <3>3, <3>4, <4>2, <5>2, <5>3, <5>4 DEF Bounded
      <4>3. CASE k # kind
        <5>1. x.q[k] = run[r].q[k]
          BY <3>1, <3>2, <4>3
        <5> QED
          BY <1>7, <2>4, <3>3, <4>1, <5>1
      <4> QED
        BY <4>2, <4>3
    <3> QED
      BY <1>3, <1>6, <2>4, <3>3, <3>5
  <2> QED
    BY <1>3, <1>5, <2>1, <2>3, <2>5, <2>6 DEF AfterPage
<1>11. CASE run' = [run EXCEPT ![r] = Ended(r)]
  BY <1>1, <1>2, <1>5, <1>11
<1> QED
  BY <1>9, <1>10, <1>11 DEF RecordObservation

(* A commit keeps what it says of the scans; other steps leave it alone.   *)
LEMMA ScansKept ==
  ASSUME Invariant, [Next]_vars
  PROVE  ScanInv'
<1>1. TypeOK /\ ForgeInv /\ ScanInv /\ ledger \in LedgerType
  BY DEF Invariant, TypeOK
<1>2. CASE ledger'.scan = ledger.scan
  <2>1. ASSUME NEW k \in Kinds PROVE Bounded(ledger.scan[k])' /\ Covered(ledger.scan[k], k)'
    <3>1. PICK p \in Progress : p = ledger.scan[k]
      BY <1>1 DEF LedgerType
    <3>2. Bounded(p)' /\ Covered(p, k)'
      BY <1>1, <3>1, CoveredKept DEF ScanInv
    <3>3. p = ledger'.scan[k]
      BY <1>2, <3>1
    <3> QED
      BY <3>2, <3>3
  <2> QED
    BY <2>1 DEF ScanInv
<1>3. CASE ledger' = ledger
  BY <1>2, <1>3
<1>4. ASSUME NEW r \in Runs, Begin(r) PROVE ScanInv'
  <2>1. ledger'.scan = ledger.scan
    BY <1>1, <1>4 DEF Begin, LedgerType
  <2> QED
    BY <1>2, <2>1
<1>5. ASSUME NEW r \in Runs, RecordObservation(r) PROVE ScanInv'
  BY <1>3, <1>5, ScansRecorded DEF RecordObservation
<1>6. CASE UNCHANGED vars \/ Tick \/ AdvanceConfig \/ \E q \in Requests : Merge(q)
  BY <1>3, <1>6 DEF vars, Tick, AdvanceConfig, Merge
<1>7. ASSUME NEW r \in Runs,
             \/ ReadOutcome(r) \/ StartObserve(r) \/ PollKnown(r) \/ ReadPage(r)
             \/ FailedRead(r) \/ Crash(r) \/ \E q \in Requests : CreateRequest(r, q)
      PROVE  ScanInv'
  BY <1>3, <1>7 DEF ReadOutcome, StartObserve, PollKnown, ReadPage, FailedRead, Crash,
                    CreateRequest
<1> QED
  BY <1>4, <1>5, <1>6, <1>7 DEF Next, Step

(* So does every step what it says of the runs.                            *)
LEMMA RunsKept ==
  ASSUME Invariant, TypeOK', [Next]_vars, NEW r \in Runs
  PROVE  RunInv(run[r])'
<1>1. /\ TypeOK /\ ForgeInv /\ run[r] \in RunType /\ run \in [Runs -> RunType]
      /\ RunInv(run[r])
  BY DEF Invariant, TypeOK
<1>2. ASSUME NEW x \in RunType, RunInv(x), run'[r] = x PROVE RunInv(run[r])'
  BY <1>1, <1>2, HandsKept
<1>3. CASE run'[r] = run[r]
  <2>1. PICK x \in RunType : x = run[r]
    BY <1>1
  <2> QED
    BY <1>1, <1>2, <1>3, <2>1
<1>4. CASE UNCHANGED vars \/ Tick \/ AdvanceConfig \/ \E q \in Requests : Merge(q)
  BY <1>3, <1>4 DEF vars, Tick, AdvanceConfig, Merge
<1>5. ASSUME NEW s \in Runs, s # r,
             Begin(s) \/ Step(s) \/ FailedRead(s) \/ Crash(s) \/ \E q \in Requests : CreateRequest(s, q)
      PROVE  RunInv(run[r])'
  <2>1. \A y : run' = [run EXCEPT ![s] = y] => run'[r] = run[r]
    BY <1>1, <1>5
  <2>2. CASE StartObserve(s)
    BY <1>3, <2>1, <2>2 DEF StartObserve
  <2>3. CASE RecordObservation(s)
    BY <1>3, <2>1, <2>3 DEF RecordObservation
  <2>4. CASE \/ Begin(s) \/ ReadOutcome(s) \/ PollKnown(s) \/ ReadPage(s)
             \/ FailedRead(s) \/ Crash(s) \/ \E q \in Requests : CreateRequest(s, q)
    <3>1. RunInv(run[s])
      BY DEF Invariant
    <3>2. \E y \in RunType : run' = [run EXCEPT ![s] = y]
      BY <1>1, <2>4, <3>1, HandsRead
    <3> QED
      BY <1>3, <2>1, <3>2
  <2> QED
    BY <1>5, <2>2, <2>3, <2>4 DEF Step
<1>6. ASSUME \/ Begin(r) \/ Step(r) \/ FailedRead(r) \/ Crash(r)
             \/ \E q \in Requests : CreateRequest(r, q)
      PROVE  RunInv(run[r])'
  <2>1. CASE StartObserve(r)
    BY <2>1, StartKept
  <2>2. CASE RecordObservation(r)
    BY <2>2, RecordKept
  <2>3. CASE \/ Begin(r) \/ ReadOutcome(r) \/ PollKnown(r) \/ ReadPage(r)
             \/ FailedRead(r) \/ Crash(r) \/ \E q \in Requests : CreateRequest(r, q)
    <3>1. PICK x \in RunType : run' = [run EXCEPT ![r] = x] /\ RunInv(x)
      BY <1>1, <2>3, HandsRead
    <3>2. run'[r] = x
      BY <1>1, <3>1
    <3> QED
      BY <1>2, <3>1, <3>2
  <2> QED
    BY <1>6, <2>1, <2>2, <2>3 DEF Step
<1> QED
  BY <1>4, <1>5, <1>6 DEF Next

(* The invariant holds at first: the requests that are there carry no      *)
(* origin, and the scans have passed nothing.                              *)
LEMMA InvariantInit == Init => Invariant
<1> SUFFICES ASSUME Init PROVE Invariant
  OBVIOUS
<1>1. TypeOK
  BY InitTyped
<1>2. ASSUME NEW q \in Requests
      PROVE  /\ request[q].state \in {"absent", "open"} /\ request[q].origin = Never
             /\ request[q].state = "open" <=> q \in Old
             /\ request[q].state = "open" => request[q].created = 0
             /\ request[q].due = {}
  BY <1>2 DEF Init, NoRequest
<1>3. ledger.cutoff = <<>> /\ ledger.scan = [k \in Kinds |-> NoScan] /\ clock = 0 /\ scanned = 0
  BY DEF Init
<1>4. \A q \in Requests : RequestInv(request[q])
  BY <1>2, <1>3 DEF RequestInv
<1>5. OrderInv
  <2>1. /\ order \in [1..Cardinality(Old) -> Old]
        /\ \A i, j \in DOMAIN order : i # j => order[i] # order[j]
    BY DEF Init
  <2>2. \A i \in DOMAIN order : order[i] \in Old
    BY <2>1
  <2>3. \A q \in Old : \E i \in DOMAIN order : order[i] = q
    <3>1. Cardinality(1..Cardinality(Old)) = Cardinality(Old) /\ IsFiniteSet(1..Cardinality(Old))
      BY RequestsAssumption, FS_CardinalityType, FS_Interval
    <3>2. order \in Injection(1..Cardinality(Old), Old)
      <4>1. \A i, j \in 1..Cardinality(Old) : order[i] = order[j] => i = j
        BY <2>1
      <4> QED
        BY <2>1, <4>1, Fun_IsInj
    <3>3. order \in Surjection(1..Cardinality(Old), Old)
      BY <3>1, <3>2, RequestsAssumption, FS_Injection
    <3> QED
      BY <2>1, <3>3 DEF Surjection
  <2> QED
    BY <1>2, <2>1, <2>2, <2>3, RequestsAssumption DEF OrderInv
<1>6. ForgeInv
  BY <1>3, <1>4, <1>5 DEF ForgeInv
<1>7. ScanInv
  <2>1. ASSUME NEW k \in Kinds, NEW q \in Requests, NEW s \in Subs, OwedAndPassed(NoScan, k, q, s)
        PROVE  FALSE
    BY <1>2, <2>1 DEF OwedAndPassed, Owed, OwedExactly
  <2> QED
    <3>1. /\ \A k \in Kinds : ledger.scan[k] = NoScan
          /\ NoScan.from = 0 /\ NoScan.through = 0
      BY <1>3 DEF NoScan
    <3>2. Bounded(NoScan) /\ \A k \in Kinds : Covered(NoScan, k)
      BY <1>3, <2>1, <3>1 DEF Bounded, Covered
    <3> QED
      BY <3>1, <3>2 DEF ScanInv
<1>8. \A r \in Runs : RunInv(run[r])
  BY <1>1, EndedHolds DEF Init
<1> QED
  BY <1>1, <1>6, <1>7, <1>8 DEF Invariant

(* Every step keeps it.                                                    *)
LEMMA InvariantNext == Invariant /\ [Next]_vars => Invariant'
<1> SUFFICES ASSUME Invariant, [Next]_vars PROVE Invariant'
  OBVIOUS
<1>1. TypeOK'
  BY NextTyped DEF Invariant
<1>2. ForgeInv'
  BY ForgeKept DEF Invariant
<1>3. ScanInv'
  BY ScansKept
<1>4. ASSUME NEW r \in Runs PROVE RunInv(run[r])'
  BY <1>1, RunsKept
<1> QED
  BY <1>1, <1>2, <1>3, <1>4 DEF Invariant

----------------------------------------------------------------------------
(***************************************************************************)
(* The theorems.                                                           *)
(***************************************************************************)

(* The invariant holds throughout.                                         *)
THEOREM ObservationInvariant == Spec => []Invariant
<1> QED
  BY InvariantInit, InvariantNext, PTL DEF Spec

(* The watermark of a scan never runs ahead of what was admitted: whatever *)
(* progress recordObservation put on record, over that of other runs and   *)
(* after failed pages, every subscription has got what it was owed there.  *)
THEOREM WatermarkHolds == Spec => []WatermarkSound
<1>1. Invariant => WatermarkSound
  <2> SUFFICES ASSUME Invariant, NEW q \in Requests, NEW s \in Subs,
                      Owed(q, s), Passed(ledger.scan[KindOf(s)], q, KindOf(s))
               PROVE  <<q, s>> \in ledger.delivered
    BY DEF WatermarkSound
  <2>1. KindOf(s) \in Kinds
    BY PoliciesAssumption
  <2>2. Covered(ledger.scan[KindOf(s)], KindOf(s))
    BY <2>1 DEF Invariant, ScanInv
  <2> QED
    BY <2>2 DEF Covered, OwedAndPassed
<1> QED
  BY <1>1, ObservationInvariant, PTL

(* A commit of recordObservation admits nothing that happened before the   *)
(* activation of the subscription it is for.                               *)
LEMMA AdmittedInTime ==
  ASSUME Invariant, NEW r \in Runs, NEW e \in Recorded(r).delivered, e \notin ledger.delivered
  PROVE  e[2] \in DOMAIN ledger.cutoff /\ When(e[1], KindOf(e[2])) >= ledger.cutoff[e[2]]
<1> DEFINE facts == run[r].facts
           events == UNION {AdmitEvent(f.id, j) : f \in facts, j \in Kinds}
<1>1. TypeOK /\ ForgeInv /\ run[r] \in RunType /\ RunInv(run[r])
  BY DEF Invariant, TypeOK
<1>2. /\ e \in events
      /\ \E f \in facts : f.id = e[1] /\ EventFrom(f, KindOf(e[2]), run[r].now)
  BY <1>1 DEF Recorded, TypeOK, LedgerType
<1>3. PICK g \in facts, k \in Kinds : e \in AdmitEvent(g.id, k)
  BY <1>2
<1>4. PICK s \in DOMAIN ledger.cutoff :
        e = <<g.id, s>> /\ KindOf(s) = k /\ EventAdmissionTime(g.id, k) >= ledger.cutoff[s]
  BY <1>3 DEF AdmitEvent
<1> HIDE DEF events
<1>5. e[1] = g.id /\ e[2] = s
  BY <1>4
<1>6. PICK f \in facts : f.id = g.id /\ EventFrom(f, k, run[r].now)
  BY <1>2, <1>4, <1>5
<1>7. f.id \in Requests /\ RequestInv(request[f.id])
  BY <1>1 DEF RunType, Facts, ForgeInv
<1>8. Occurred(f.id, k)
  <2>1. CASE k = "created"
    BY <1>6, <1>7, <2>1 DEF EventFrom, Occurred, RequestInv
  <2>2. CASE k = "merged"
    BY <1>1, <1>6, <2>2 DEF EventFrom, Occurred, RunInv, FactsInv
  <2> QED
    BY <2>1, <2>2 DEF Kinds
<1>9. /\ When(f.id, k) \in Nat /\ EventAdmissionTime(f.id, k) \in Nat
      /\ EventAdmissionTime(f.id, k) <= When(f.id, k)
  BY <1>1, <1>7, <1>8, EventLaw
<1>10. ledger.cutoff[s] \in Nat
  BY <1>1, CutoffTyped, BoundsAssumption DEF Time
<1> QED
  BY <1>4, <1>5, <1>6, <1>9, <1>10

(* Nothing that happened before a subscription was activated is announced  *)
(* to it, whatever stamps round and however early a scan starts.           *)
THEOREM NothingBackfilled == Spec => NoBackfill
<1> DEFINE InTime == \A e \in ledger'.delivered \ ledger.delivered :
                       /\ e[2] \in DOMAIN ledger.cutoff
                       /\ When(e[1], KindOf(e[2])) >= ledger.cutoff[e[2]]
<1>1. Invariant /\ [Next]_vars => [InTime]_vars
  <2> SUFFICES ASSUME Invariant, [Next]_vars PROVE InTime
    OBVIOUS
  <2>1. TypeOK /\ ledger \in LedgerType
    BY DEF Invariant, TypeOK
  <2>2. CASE ledger'.delivered = ledger.delivered
    BY <2>2
  <2>3. CASE ledger' = ledger
    BY <2>3
  <2>4. ASSUME NEW r \in Runs, RecordObservation(r) PROVE InTime
    BY <2>3, <2>4, AdmittedInTime DEF RecordObservation
  <2>5. ASSUME NEW r \in Runs, Begin(r) PROVE ledger'.delivered = ledger.delivered
    BY <2>1, <2>5 DEF Begin, LedgerType
  <2>6. CASE UNCHANGED vars \/ Tick \/ AdvanceConfig \/ \E q \in Requests : Merge(q)
    BY <2>3, <2>6 DEF vars, Tick, AdvanceConfig, Merge
  <2>7. ASSUME NEW r \in Runs,
               \/ ReadOutcome(r) \/ StartObserve(r) \/ PollKnown(r) \/ ReadPage(r)
               \/ FailedRead(r) \/ Crash(r) \/ \E q \in Requests : CreateRequest(r, q)
        PROVE  ledger' = ledger
    BY <2>7 DEF ReadOutcome, StartObserve, PollKnown, ReadPage, FailedRead, Crash, CreateRequest
  <2> QED
    BY <2>2, <2>3, <2>4, <2>5, <2>6, <2>7 DEF Next, Step
<1> QED
  BY <1>1, ObservationInvariant, PTL DEF Spec, NoBackfill
=============================================================================
