--------------------------- MODULE ProviderProofs ---------------------------
(***************************************************************************)
(* What holds of Provider on either forge, for any number of runs, builds, *)
(* heads, numbers, retries, failures and acts of people: its types, that a *)
(* call creates once (CreatesOnce), that an artifact nobody can find costs *)
(* a failure (OrphansCostMishaps), that consolidation leaves an artifact   *)
(* (ConsolidationKeepsOne), and that what is not oiax's own is left alone  *)
(* (ForeignSpared).                                                        *)
(*                                                                         *)
(* A run knows of its object what it read some exchanges ago, and others   *)
(* have changed it since.  So the invariant says what a run may still rely *)
(* on: the request it read a marker of is oiax's own, all markers of one   *)
(* request have one version, and each artifact a run calls a duplicate has *)
(* a labelled one before it.                                               *)
(***************************************************************************)
EXTENDS Provider, FiniteSetTheorems, WellFoundedInduction, TLAPS

CallTyped(y) == y \in CallType /\ (y.pc \in About => y.id \in Ids)
ForgeType == [pulls : [Ids -> PullType], items : [Ids -> ItemType], tip : Heads \cup {0}]

(* A marker of an object whose markers have version k, or none.            *)
Of(marker, k) == marker = NoMarker \/ marker.version = k

(* The requests of forge f: those of oiax have one version each, and those *)
(* of colleagues no marker.                                                *)
PullsInv(f, v) ==
  \A n \in Ids :
    /\ f.pulls[n].by = "oiax" => /\ f.pulls[n].state # "absent"
                                 /\ Of(f.pulls[n].desc, v[n]) /\ Of(f.pulls[n].prop, v[n])
    /\ f.pulls[n].by \in {"nobody", "colleague"} =>
         f.pulls[n].desc = NoMarker /\ f.pulls[n].prop = NoMarker

HasElder(f, n) == \E m \in Ids : m < n /\ f.items[m].labelled

(* Its artifacts: one that was closed as a duplicate has an elder.         *)
ItemsInv(f) ==
  /\ \A n \in Ids : /\ f.items[n].state = "absent" => ~f.items[n].labelled
                    /\ f.items[n].as = "dup" => HasElder(f, n)
  /\ subject # "artifact" => \A n \in Ids : f.items[n].state = "absent"

(* What the call y of run r about a request relies on.                     *)
RequestCall(r, f, v, y) ==
  /\ y.pc \in About => f.pulls[y.id].by = "oiax"
  /\ y.pc \in About \ {"get"} => Of(y.marker, v[y.id])
  /\ y.pc \in {"patch", "close"} => v[y.id] <= build[r]
  /\ y.pc = "patch" => y.marker # NoMarker

(* What a pass over artifacts relies on.                                   *)
ArtifactCall(f, y) ==
  /\ y.pc \in About => f.items[y.id].state # "absent"
  /\ y.pc \in {"mark", "cleanup"} => y.op = "create"
  /\ \A d \in y.todo : f.items[d].state # "absent" /\ (y.pc # "hydrate" => HasElder(f, d))
  /\ y.rest # 0 => f.items[y.rest].state # "absent"
  /\ y.op = "dup" => HasElder(f, y.id)

MadeOnce(y) ==
  y.made = {} \/ y.unheard \/ (y.pc \in {"mark", "cleanup"} /\ \E n \in Ids : y.made = {n})

Sound(r, f, v, y) ==
  /\ MadeOnce(y)
  /\ y.pc \in {"list", "hydrate"} => y.op = "none"
  /\ y.pc = "post" => y.op = "create"
  /\ y.pc \in {"get", "props"} => y.op \in {"update", "close", "dup"}
  /\ y.pc \in {"states", "close"} => y.op \in {"close", "dup"}
  /\ subject = "request" => RequestCall(r, f, v, y)
  /\ subject = "artifact" => ArtifactCall(f, y)

Consistent(v) ==
  /\ PullsInv(forge, v) /\ ItemsInv(forge)
  /\ \A r \in Runs : Sound(r, forge, v, call[r])

Invariant == TypeOK /\ \E v \in [Ids -> Nat] : Consistent(v)

(* Forge g has all that a call may rely on of forge f.                     *)
Grows(f, v, g, w) ==
  \A n \in Ids :
    /\ f.pulls[n].by = "oiax" => g.pulls[n].by = "oiax" /\ w[n] = v[n]
    /\ f.items[n].state # "absent" => g.items[n].state # "absent"
    /\ f.items[n].labelled => g.items[n].labelled

----------------------------------------------------------------------------
(***************************************************************************)
(* Numbers and calls.                                                      *)
(***************************************************************************)

(* A nonempty set of numbers has a lowest one.                             *)
LEMMA LowestLaw ==
  ASSUME NEW S \in SUBSET Ids, S # {}
  PROVE  Lowest(S) \in S /\ \A m \in S : Lowest(S) <= m
<1>1. S \in SUBSET Nat
  BY DEF Ids
<1>2. PICK n \in S : \A m \in S : <<m, n>> \notin OpToRel(<, Nat)
  BY <1>1, NatLessThanWellFounded, WFMin
<1>3. ASSUME NEW m \in S PROVE n <= m
  <2>1. m \in Nat /\ n \in Nat
    BY <1>1
  <2>2. ~(m < n)
    BY <1>2, <2>1 DEF OpToRel
  <2> QED
    BY <2>1, <2>2
<1> QED
  BY <1>3 DEF Lowest

(* What is called relies on no more when the forge grows.                  *)
LEMMA SoundKept ==
  ASSUME NEW r \in Runs, NEW f, NEW v, NEW g, NEW w, NEW y, CallTyped(y),
         Grows(f, v, g, w), Sound(r, f, v, y)
  PROVE  Sound(r, g, w, y)
<1>1. y.todo \subseteq Ids /\ y.rest \in Ids \cup {0} /\ (y.pc \in About => y.id \in Ids)
  BY DEF CallTyped, CallType
<1>2. \A n : HasElder(f, n) => HasElder(g, n)
  BY DEF HasElder, Grows
<1>3. ASSUME subject = "request" PROVE RequestCall(r, g, w, y)
  <2>1. RequestCall(r, f, v, y)
    BY <1>3 DEF Sound
  <2>2. {"patch", "close"} \subseteq About
    BY DEF About
  <2>3. y.pc \in About => g.pulls[y.id].by = "oiax" /\ w[y.id] = v[y.id]
    BY <1>1, <2>1 DEF RequestCall, Grows
  <2> QED
    BY <2>1, <2>2, <2>3 DEF RequestCall
<1>4. ASSUME subject = "artifact" PROVE ArtifactCall(g, y)
  <2>1. ArtifactCall(f, y)
    BY <1>4 DEF Sound
  <2> QED
    BY <1>1, <1>2, <2>1 DEF ArtifactCall, Grows
<1> QED
  BY <1>3, <1>4 DEF Sound

(* A forge that stays has all it had.                                      *)
LEMMA GrowsSame == \A f, v : Grows(f, v, f, v)
BY DEF Grows

(* No call relies on nothing.                                              *)
LEMMA NoCallSound ==
  /\ CallTyped(NoCall)
  /\ \A r, f, v : Sound(r, f, v, NoCall)
<1>1. CallTyped(NoCall)
  <2>1. 0 \in 0..MaxRetry /\ {} \in SUBSET Ids
    BY BoundsAssumption
  <2> QED
    BY <2>1 DEF CallTyped, NoCall, CallType, Exchanges, Reads, NoMarker, Markers, About
<1>2. \A r, f, v : Sound(r, f, v, NoCall)
  BY DEF Sound, MadeOnce, RequestCall, ArtifactCall, NoCall, About
<1> QED
  BY <1>1, <1>2

(* A call that has made nothing it knows of.                               *)
Clear(y) == y.made = {} \/ y.unheard

(* What a record of a call is, field by field.                             *)
LEMMA GoLaw ==
  ASSUME NEW x \in CallType, NEW pc \in Exchanges
  PROVE  /\ Go(x, pc) \in CallType
         /\ Go(x, pc).pc = pc /\ Go(x, pc).op = x.op /\ Go(x, pc).id = x.id
         /\ Go(x, pc).marker = x.marker /\ Go(x, pc).todo = x.todo
         /\ Go(x, pc).rest = x.rest /\ Go(x, pc).made = x.made
         /\ Go(x, pc).unheard = x.unheard
<1>1. 0 \in 0..MaxRetry
  BY BoundsAssumption
<1> QED
  BY <1>1 DEF Go, CallType

LEMMA WorkLaw ==
  ASSUME NEW x \in CallType, NEW op \in {"update", "close", "dup"}, NEW n \in Ids
  PROVE  /\ Work(x, op, n) \in CallType
         /\ Work(x, op, n).pc = "get" /\ Work(x, op, n).op = op /\ Work(x, op, n).id = n
         /\ Work(x, op, n).marker = x.marker /\ Work(x, op, n).todo = x.todo
         /\ Work(x, op, n).rest = x.rest /\ Work(x, op, n).made = x.made
         /\ Work(x, op, n).unheard = x.unheard
<1>1. "get" \in Exchanges
  BY DEF Exchanges, Reads
<1> DEFINE y == Go(x, "get")
<1>2. /\ y \in CallType /\ y.pc = "get" /\ y.marker = x.marker /\ y.todo = x.todo
      /\ y.rest = x.rest /\ y.made = x.made /\ y.unheard = x.unheard
  BY <1>1, GoLaw
<1> HIDE DEF y
<1>3. Work(x, op, n) = [y EXCEPT !.op = op, !.id = n]
  BY DEF Work, y
<1> DEFINE w == [y EXCEPT !.op = op, !.id = n]
<1>4. w \in CallType
  BY <1>2 DEF CallType
<1>5. /\ w.pc = y.pc /\ w.op = op /\ w.id = n /\ w.marker = y.marker /\ w.todo = y.todo
      /\ w.rest = y.rest /\ w.made = y.made /\ w.unheard = y.unheard
  BY <1>2 DEF CallType
<1> HIDE DEF w
<1>6. Work(x, op, n) = w
  BY <1>3 DEF w
<1> QED
  BY <1>2, <1>4, <1>5, <1>6

LEMMA PostLaw ==
  ASSUME NEW x \in CallType
  PROVE  LET y == [Go(x, "post") EXCEPT !.op = "create"]
         IN  /\ y \in CallType /\ y.pc = "post" /\ y.op = "create"
             /\ y.todo = x.todo /\ y.rest = x.rest /\ y.made = x.made
             /\ y.unheard = x.unheard
<1>1. "post" \in Exchanges
  BY DEF Exchanges
<1>2. Go(x, "post") \in CallType
  BY <1>1, GoLaw
<1> QED
  BY <1>1, <1>2, GoLaw DEF CallType

----------------------------------------------------------------------------
(***************************************************************************)
(* What follows an exchange relies on what is so.                          *)
(***************************************************************************)

(* The items a pass over artifacts goes through, and the one it keeps.     *)
PassSound(f, y) ==
  /\ \A d \in y.todo : f.items[d].state # "absent" /\ HasElder(f, d)
  /\ y.rest # 0 => f.items[y.rest].state # "absent"

LEMMA NextArtifactLaw ==
  ASSUME subject = "artifact", NEW r, NEW f, NEW v, NEW x \in CallType,
         Clear(x), PassSound(f, x)
  PROVE  CallTyped(NextArtifact(x)) /\ Sound(r, f, v, NextArtifact(x))
<1> DEFINE Result == NextArtifact(x)
<1>0. x.todo \subseteq Ids /\ x.rest \in Ids \cup {0} /\ 0 \notin Ids /\ Ids \subseteq Nat
  BY DEF CallType, Ids
<1>1. CASE Result = NoCall
  BY <1>1, NoCallSound
<1>2. CASE x.todo # {} /\ Result = [Work(x, "dup", Lowest(x.todo)) EXCEPT !.todo = @ \ {Lowest(x.todo)}]
  <2>1. Lowest(x.todo) \in x.todo
    BY <1>0, <1>2, LowestLaw
  <2> DEFINE w == Work(x, "dup", Lowest(x.todo))
  <2>2. /\ w \in CallType /\ w.pc = "get" /\ w.op = "dup" /\ w.id = Lowest(x.todo)
        /\ w.todo = x.todo /\ w.rest = x.rest /\ w.made = x.made /\ w.unheard = x.unheard
    <3> DEFINE l == Lowest(x.todo)
    <3>1. l \in Ids /\ "dup" \in {"update", "close", "dup"}
      BY <1>0, <2>1
    <3> HIDE DEF l
    <3> QED
      BY <3>1, WorkLaw DEF l
  <2> HIDE DEF w
  <2>3. Result = [w EXCEPT !.todo = @ \ {Lowest(x.todo)}]
    BY <1>2 DEF w
  <2>4. /\ Result \in CallType /\ Result.pc = "get" /\ Result.op = "dup"
        /\ Result.id = Lowest(x.todo) /\ Result.todo \subseteq x.todo
        /\ Result.rest = x.rest /\ Result.made = x.made /\ Result.unheard = x.unheard
    BY <2>2, <2>3 DEF CallType
  <2> HIDE DEF Result
  <2>5. CallTyped(Result)
    BY <1>0, <2>1, <2>4 DEF CallTyped
  <2>6. MadeOnce(Result)
    BY <2>4 DEF Clear, MadeOnce
  <2>7. ArtifactCall(f, Result)
    BY <2>1, <2>4 DEF PassSound, ArtifactCall
  <2> QED
    BY <2>4, <2>5, <2>6, <2>7 DEF Sound, Result
<1>3. CASE x.todo = {} /\ Result = [Go(x, "post") EXCEPT !.op = "create"]
  <2>1. /\ Result \in CallType /\ Result.pc = "post" /\ Result.op = "create"
        /\ Result.todo = {} /\ Result.rest = x.rest /\ Result.made = x.made
        /\ Result.unheard = x.unheard
    BY <1>3, PostLaw
  <2> HIDE DEF Result
  <2>2. Result.pc \notin About
    BY <2>1 DEF About
  <2>3. MadeOnce(Result)
    BY <2>1 DEF Clear, MadeOnce
  <2>4. ArtifactCall(f, Result)
    BY <2>1, <2>2 DEF PassSound, ArtifactCall
  <2> QED
    BY <2>1, <2>2, <2>3, <2>4 DEF Sound, CallTyped, Result
<1>4. ASSUME NEW op \in {"update", "close"}, x.todo = {}, x.rest # 0,
             Result = Work([x EXCEPT !.rest = 0, !.old = 0], op, x.rest)
      PROVE  CallTyped(Result) /\ Sound(r, f, v, Result)
  <2> DEFINE y == [x EXCEPT !.rest = 0, !.old = 0]
  <2>1. y \in CallType /\ y.todo = {} /\ y.rest = 0 /\ y.made = x.made /\ y.unheard = x.unheard
    BY <1>4 DEF CallType
  <2> DEFINE n == x.rest
             w == Work(y, op, n)
  <2>2. Result = w
    BY <1>4
  <2>3. n \in Ids /\ op \in {"update", "close", "dup"}
    BY <1>0, <1>4
  <2> HIDE DEF y, n, Result
  <2>4. y \in CallType
    BY <2>1
  <2>5. /\ w \in CallType /\ w.pc = "get" /\ w.op = op /\ w.id = n /\ w.todo = y.todo
        /\ w.rest = y.rest /\ w.made = y.made /\ w.unheard = y.unheard
    <3>1. CASE op = "update"
      BY <2>4, <2>3, <3>1, WorkLaw
    <3>2. CASE op = "close"
      BY <2>4, <2>3, <3>2, WorkLaw
    <3> QED
      BY <2>3, <3>1, <3>2
  <2> HIDE DEF w
  <2>6. n = x.rest
    BY DEF n
  <2>7. /\ Result \in CallType /\ Result.pc = "get" /\ Result.op = op
        /\ Result.id = x.rest /\ Result.todo = {}
        /\ Result.rest = 0 /\ Result.made = x.made /\ Result.unheard = x.unheard
    BY <2>1, <2>2, <2>5, <2>6
  <2>8. CallTyped(Result)
    BY <1>0, <1>4, <2>7 DEF CallTyped
  <2>9. MadeOnce(Result)
    BY <2>7 DEF Clear, MadeOnce
  <2>10. ArtifactCall(f, Result)
    BY <1>4, <2>7 DEF PassSound, ArtifactCall
  <2>11. Sound(r, f, v, Result)
    BY <1>4, <2>7, <2>9, <2>10 DEF Sound
  <2> QED
    BY <2>8, <2>11
<1>5. \/ Result = NoCall
      \/ x.todo # {} /\ Result = [Work(x, "dup", Lowest(x.todo)) EXCEPT !.todo = @ \ {Lowest(x.todo)}]
      \/ x.todo = {} /\ Result = [Go(x, "post") EXCEPT !.op = "create"]
      \/ x.todo = {} /\ x.rest # 0 /\ Result = Work([x EXCEPT !.rest = 0, !.old = 0], "update", x.rest)
      \/ x.todo = {} /\ x.rest # 0 /\ Result = Work([x EXCEPT !.rest = 0, !.old = 0], "close", x.rest)
  BY DEF NextArtifact, Ended
<1> QED
  BY <1>1, <1>2, <1>3, <1>4, <1>5

(* A pass begins with artifacts that were listed: all but the lowest have a *)
(* labelled one before them.                                               *)
LEMMA PlanArtifactLaw ==
  ASSUME subject = "artifact", forge \in ForgeType, NEW r, NEW v, NEW x \in CallType,
         Clear(x), PassSound(forge, x), NEW found \in SUBSET ListConflictArtifacts
  PROVE  CallTyped(PlanArtifact(x, found)) /\ Sound(r, forge, v, PlanArtifact(x, found))
<1>1. CASE found = {}
  <2> DEFINE y == [x EXCEPT !.op = "list"]
  <2>1. /\ y \in CallType /\ y.todo = x.todo /\ y.rest = x.rest
        /\ y.made = x.made /\ y.unheard = x.unheard
    BY DEF CallType
  <2>2. PlanArtifact(x, found) = NextArtifact(y)
    BY <1>1 DEF PlanArtifact
  <2> HIDE DEF y
  <2>3. Clear(y) /\ PassSound(forge, y)
    BY <2>1 DEF Clear, PassSound
  <2> QED
    BY <2>1, <2>2, <2>3, NextArtifactLaw
<1>2. CASE found # {}
  <2> DEFINE n == Canonical(found)
             y == [x EXCEPT !.op = "list", !.todo = found \ {n}, !.rest = n,
                            !.old = forge.items[n].marker.head]
  <2>1. \A m \in found : m \in Ids /\ forge.items[m].state = "open" /\ forge.items[m].labelled
    BY DEF ListConflictArtifacts, ConflictMarker
  <2>2. found \in SUBSET Ids
    BY <2>1
  <2>3. n \in found /\ \A m \in found : n <= m
    BY <1>2, <2>2, LowestLaw DEF Canonical
  <2>4. PlanArtifact(x, found) = NextArtifact(y)
    BY <1>2 DEF PlanArtifact
  <2> HIDE DEF n
  <2>5. n \in Ids /\ forge.items[n].marker.head \in Heads \cup {0}
    BY <2>2, <2>3 DEF ForgeType, ItemType, Markers
  <2>6. /\ y \in CallType /\ y.todo = found \ {n} /\ y.rest = n
        /\ y.made = x.made /\ y.unheard = x.unheard
    BY <2>2, <2>5 DEF CallType
  <2> HIDE DEF y
  <2>7. \A d \in found \ {n} : HasElder(forge, d)
    BY <2>1, <2>2, <2>3, <2>5 DEF HasElder, Ids
  <2>8. Clear(y) /\ PassSound(forge, y)
    BY <2>1, <2>3, <2>6, <2>7 DEF Clear, PassSound
  <2> QED
    BY <2>4, <2>6, <2>8, NextArtifactLaw
<1> QED
  BY <1>1, <1>2

(* A request that was listed is oiax's own, and its marker has the version *)
(* of its other markers.                                                   *)
LEMMA PlanRequestLaw ==
  ASSUME subject = "request", forge \in ForgeType, NEW r, NEW v, NEW x \in CallType,
         Clear(x), PullsInv(forge, v), NEW found \in SUBSET ListManagedRequests
  PROVE  CallTyped(PlanRequest(x, found)) /\ Sound(r, forge, v, PlanRequest(x, found))
<1> DEFINE Result == PlanRequest(x, found)
<1>1. CASE Result = NoCall
  BY <1>1, NoCallSound
<1>2. CASE Result = [Go(x, "post") EXCEPT !.op = "create"]
  <2>1. /\ Result \in CallType /\ Result.pc = "post" /\ Result.op = "create"
        /\ Result.made = x.made /\ Result.unheard = x.unheard
    BY <1>2, PostLaw
  <2> HIDE DEF Result
  <2>2. Result.pc \notin About
    BY <2>1 DEF About
  <2>3. MadeOnce(Result) /\ RequestCall(r, forge, v, Result)
    BY <2>1, <2>2 DEF Clear, MadeOnce, RequestCall
  <2> QED
    BY <2>1, <2>2, <2>3 DEF Sound, CallTyped, Result
<1>3. ASSUME NEW op \in {"close", "update"}, found # {}, Result = Work(x, op, Lowest(found))
      PROVE  CallTyped(Result) /\ Sound(r, forge, v, Result)
  <2> DEFINE n == Lowest(found)
  <2>1. found \in SUBSET Ids
    BY DEF ListManagedRequests
  <2>2. n \in found
    BY <1>3, <2>1, LowestLaw
  <2> HIDE DEF n
  <2>3. n \in Ids /\ forge.pulls[n].by = "oiax"
    <3>1. n \in Ids /\ forge.pulls[n].desc # NoMarker /\ forge.pulls[n].by # "fork"
      BY <2>2 DEF ListManagedRequests, Recognised
    <3> QED
      BY <3>1 DEF PullsInv, ForgeType, PullType
  <2>4. /\ Result \in CallType /\ Result.pc = "get" /\ Result.op = op /\ Result.id = n
        /\ Result.marker = x.marker
        /\ Result.made = x.made /\ Result.unheard = x.unheard
    BY <1>3, <2>3, WorkLaw DEF n
  <2> HIDE DEF Result
  <2>5. MadeOnce(Result) /\ RequestCall(r, forge, v, Result)
    BY <2>3, <2>4 DEF Clear, MadeOnce, RequestCall, Of
  <2> QED
    BY <1>3, <2>3, <2>4, <2>5 DEF Sound, CallTyped
<1>4. \/ Result = NoCall
      \/ Result = [Go(x, "post") EXCEPT !.op = "create"]
      \/ found # {} /\ Result = Work(x, "close", Lowest(found))
      \/ found # {} /\ Result = Work(x, "update", Lowest(found))
  BY DEF PlanRequest, Ended
<1> QED
  BY <1>1, <1>2, <1>3, <1>4

(* What a call may rely on that has read the object it is about.           *)
ReadSound(r, f, v, x) ==
  /\ Clear(x) /\ x.id \in Ids /\ x.op \in {"update", "close", "dup"}
  /\ subject = "request" => f.pulls[x.id].by = "oiax" /\ Of(x.marker, v[x.id])
  /\ subject = "artifact" => /\ f.items[x.id].state # "absent" /\ PassSound(f, x)
                             /\ x.op = "dup" => HasElder(f, x.id)

LEMMA FinishedLaw ==
  ASSUME NEW r, NEW f, NEW v, NEW x \in CallType, Clear(x),
         subject = "artifact" => PassSound(f, x)
  PROVE  CallTyped(Finished(x)) /\ Sound(r, f, v, Finished(x))
<1>1. CASE subject = "artifact"
  BY <1>1, NextArtifactLaw DEF Finished
<1>2. CASE subject # "artifact"
  BY <1>2, NoCallSound DEF Finished, Ended
<1> QED
  BY <1>1, <1>2

(* A call goes on with what is its own and not of a newer schema.          *)
LEMMA CheckedLaw ==
  ASSUME NEW r \in Runs, build \in [Runs -> Nat \ {0}], NEW f, NEW v \in [Ids -> Nat],
         NEW x \in CallType, NEW own \in BOOLEAN,
         ReadSound(r, f, v, x), own => x.marker # NoMarker
  PROVE  CallTyped(Checked(r, x, own)) /\ Sound(r, f, v, Checked(r, x, own))
<1> DEFINE Result == Checked(r, x, own)
<1>0. build[r] \in Nat /\ x.marker.version \in Nat
  BY BuildsAssumption DEF CallType, Markers
<1>1. CASE ~own \/ x.marker.version > build[r]
  <2>1. Result = Finished(x)
    BY <1>1 DEF Checked
  <2> QED
    BY <2>1, FinishedLaw DEF ReadSound
<1>2. CASE own /\ x.marker.version <= build[r] /\ x.op = "update"
  <2>1. Result = Go(x, "patch")
    BY <1>0, <1>2 DEF Checked
  <2>2. "patch" \in Exchanges
    BY DEF Exchanges
  <2>3. /\ Result \in CallType /\ Result.pc = "patch" /\ Result.op = x.op /\ Result.id = x.id
        /\ Result.marker = x.marker /\ Result.todo = x.todo /\ Result.rest = x.rest
        /\ Result.made = x.made /\ Result.unheard = x.unheard
    BY <2>1, <2>2, GoLaw
  <2> HIDE DEF Result
  <2>4. MadeOnce(Result)
    BY <2>3 DEF ReadSound, Clear, MadeOnce
  <2>5. ASSUME subject = "request" PROVE RequestCall(r, f, v, Result)
    BY <1>0, <1>2, <2>3, <2>5 DEF ReadSound, RequestCall, Of
  <2>6. ASSUME subject = "artifact" PROVE ArtifactCall(f, Result)
    BY <2>3, <2>6 DEF ReadSound, PassSound, ArtifactCall
  <2>7. CallTyped(Result)
    BY <2>3 DEF CallTyped, ReadSound
  <2> QED
    BY <2>3, <2>4, <2>5, <2>6, <2>7 DEF Sound, Result
<1>3. ASSUME NEW pc \in {"states", "close"}, own, x.marker.version <= build[r], x.op # "update",
             Result = Go([x EXCEPT !.marker = NoMarker], pc)
      PROVE  CallTyped(Result) /\ Sound(r, f, v, Result)
  <2> DEFINE y == [x EXCEPT !.marker = NoMarker]
  <2>1. /\ y \in CallType /\ y.op = x.op /\ y.id = x.id /\ y.marker = NoMarker
        /\ y.todo = x.todo /\ y.rest = x.rest /\ y.made = x.made /\ y.unheard = x.unheard
    BY DEF CallType, NoMarker, Markers
  <2> HIDE DEF y
  <2>2. pc \in Exchanges
    BY <1>3 DEF Exchanges, Reads
  <2>3. Result = Go(y, pc)
    BY <1>3 DEF y
  <2>4. /\ Result \in CallType /\ Result.pc = pc /\ Result.op = x.op /\ Result.id = x.id
        /\ Result.marker = NoMarker /\ Result.todo = x.todo /\ Result.rest = x.rest
        /\ Result.made = x.made /\ Result.unheard = x.unheard
    BY <2>1, <2>2, <2>3, GoLaw
  <2> HIDE DEF Result
  <2>5. MadeOnce(Result)
    BY <2>4 DEF ReadSound, Clear, MadeOnce
  <2>6. ASSUME subject = "request" PROVE RequestCall(r, f, v, Result)
    BY <1>0, <1>3, <2>4, <2>6 DEF ReadSound, RequestCall, Of
  <2>7. ASSUME subject = "artifact" PROVE ArtifactCall(f, Result)
    BY <1>3, <2>4, <2>7 DEF ReadSound, PassSound, ArtifactCall
  <2>8. CallTyped(Result)
    BY <2>4 DEF CallTyped, ReadSound
  <2>9. Result.op \in {"close", "dup"}
    BY <1>3, <2>4 DEF ReadSound
  <2> QED
    BY <1>3, <2>4, <2>5, <2>6, <2>7, <2>8, <2>9 DEF Sound
<1>4. CASE own /\ x.marker.version <= build[r] /\ x.op # "update"
  <2>1. \/ Result = Go([x EXCEPT !.marker = NoMarker], "states")
        \/ Result = Go([x EXCEPT !.marker = NoMarker], "close")
    BY <1>0, <1>4 DEF Checked
  <2> QED
    BY <1>3, <1>4, <2>1
<1> QED
  BY <1>0, <1>1, <1>2, <1>4

(* The same where a call fails for good, and where it is sent again.       *)
LEMMA FailedLaw ==
  ASSUME NEW r \in Runs, build \in [Runs -> Nat \ {0}], forge \in ForgeType, NEW v \in [Ids -> Nat],
         NEW x, CallTyped(x), Sound(r, forge, v, x), x.pc = "props" => subject = "request"
  PROVE  CallTyped(Failed(r, x)) /\ Sound(r, forge, v, Failed(r, x))
<1> DEFINE Result == Failed(r, x)
<1>0. x \in CallType /\ MadeOnce(x)
  BY DEF CallTyped, Sound
<1>1. CASE x.pc = "props"
  <2>1. Result = Checked(r, x, Recognised(forge.pulls[x.id], x.marker))
    BY <1>1 DEF Failed
  <2>2. x.pc \in About \ {"get"} /\ x.id \in Ids
    BY <1>1 DEF CallTyped, About
  <2>3. ReadSound(r, forge, v, x)
    BY <1>0, <1>1, <2>2 DEF ReadSound, Sound, RequestCall, MadeOnce, Clear
  <2> QED
    BY <1>0, <2>1, <2>3, CheckedLaw DEF Recognised
<1>2. CASE x.pc = "mark" /\ subject = "artifact"
  <2>1. Result = Go(x, "cleanup")
    BY <1>2 DEF Failed
  <2>2. "cleanup" \in Exchanges /\ x.pc \in About
    BY <1>2 DEF Exchanges, About
  <2>3. /\ Result \in CallType /\ Result.pc = "cleanup" /\ Result.op = x.op /\ Result.id = x.id
        /\ Result.todo = x.todo /\ Result.rest = x.rest
        /\ Result.made = x.made /\ Result.unheard = x.unheard
    BY <1>0, <2>1, <2>2, GoLaw
  <2> HIDE DEF Result
  <2>4. MadeOnce(Result)
    BY <1>0, <2>3 DEF MadeOnce
  <2>5. ArtifactCall(forge, Result)
    <3>1. ArtifactCall(forge, x)
      BY <1>2 DEF Sound
    <3> QED
      BY <1>2, <2>2, <2>3, <3>1 DEF ArtifactCall
  <2>6. CallTyped(Result)
    BY <2>2, <2>3 DEF CallTyped
  <2> QED
    BY <1>2, <2>3, <2>4, <2>5, <2>6 DEF Sound, Result
<1>3. CASE Result = NoCall
  BY <1>3, NoCallSound
<1>4. CASE Result = Finished(x) /\ x.pc # "cleanup" /\ ~(x.pc = "mark" /\ subject = "artifact")
  <2>1. CASE subject = "artifact" /\ x.pc # "hydrate"
    <3>1. Clear(x)
      BY <1>0, <1>4, <2>1 DEF MadeOnce, Clear
    <3>2. PassSound(forge, x)
      BY <2>1 DEF Sound, ArtifactCall, PassSound
    <3> QED
      BY <1>0, <1>4, <3>1, <3>2, FinishedLaw
  <2>2. CASE subject # "artifact"
    <3>1. Result = NoCall
      BY <1>4, <2>2 DEF Finished, Ended
    <3> QED
      BY <3>1, NoCallSound
  <2>3. CASE subject = "artifact" /\ x.pc = "hydrate"
    <3>1. x.op \notin {"dup", "update", "close"}
      BY <2>3 DEF Sound
    <3>2. Result = NoCall
      BY <2>3, <3>1 DEF Failed, Ended
    <3> QED
      BY <3>2, NoCallSound
  <2> QED
    BY <2>1, <2>2, <2>3
<1>5. \/ x.pc = "props"
      \/ x.pc = "mark" /\ subject = "artifact"
      \/ Result = NoCall
      \/ Result = Finished(x) /\ x.pc # "cleanup" /\ ~(x.pc = "mark" /\ subject = "artifact")
  BY DEF Failed, Ended
<1> QED
  BY <1>1, <1>2, <1>3, <1>4, <1>5

LEMMA AgainLaw ==
  ASSUME NEW r \in Runs, build \in [Runs -> Nat \ {0}], forge \in ForgeType, NEW v \in [Ids -> Nat],
         NEW x, CallTyped(x), Sound(r, forge, v, x), x.pc = "props" => subject = "request"
  PROVE  CallTyped(Again(r, x)) /\ Sound(r, forge, v, Again(r, x))
<1>1. CASE Retried(x)
  <2> DEFINE y == [x EXCEPT !.tries = @ + 1]
  <2>1. x \in CallType /\ x.tries + 1 \in 0..MaxRetry
    BY <1>1, BoundsAssumption DEF CallTyped, CallType, Retried
  <2>2. /\ y \in CallType /\ y.pc = x.pc /\ y.op = x.op /\ y.id = x.id /\ y.marker = x.marker
        /\ y.todo = x.todo /\ y.rest = x.rest /\ y.made = x.made /\ y.unheard = x.unheard
    BY <2>1 DEF CallType
  <2>3. Again(r, x) = y
    BY <1>1 DEF Again
  <2> HIDE DEF y
  <2>4. CallTyped(y)
    BY <2>2 DEF CallTyped
  <2>5. Sound(r, forge, v, y)
    BY <2>2 DEF Sound, MadeOnce, RequestCall, ArtifactCall
  <2> QED
    BY <2>3, <2>4, <2>5
<1>2. CASE ~Retried(x)
  BY <1>2, FailedLaw DEF Again
<1> QED
  BY <1>1, <1>2

----------------------------------------------------------------------------
(***************************************************************************)
(* A step: the forge grows, and the run that takes it relies on what is so. *)
(***************************************************************************)
LEMMA Steps ==
  ASSUME TypeOK, TypeOK', NEW v \in [Ids -> Nat], Consistent(v), NEW after, forge' = after,
         NEW w \in [Ids -> Nat], PullsInv(after, w), ItemsInv(after), Grows(forge, v, after, w),
         UNCHANGED <<subject, build>>,
         \A q \in Runs : call'[q] = call[q] \/ Sound(q, after, w, call'[q])
  PROVE  Invariant'
<1>1. ASSUME NEW q \in Runs PROVE Sound(q, after, w, call'[q])
  <2>1. CallTyped(call[q])
    BY DEF TypeOK, CallTyped
  <2>2. Sound(q, forge, v, call[q])
    BY DEF Consistent
  <2>3. Sound(q, after, w, call[q])
    BY <2>1, <2>2, SoundKept
  <2> QED
    BY <2>3
<1>2. ASSUME NEW q \in Runs PROVE Sound(q, forge, w, call[q])'
  BY <1>1, <1>2 DEF Sound, RequestCall, ArtifactCall, MadeOnce, HasElder, Of
<1>3. PullsInv(forge, w)' /\ ItemsInv(forge)'
  BY DEF PullsInv, ItemsInv, HasElder, Of
<1>4. Consistent(w)'
  BY <1>2, <1>3 DEF Consistent
<1> QED
  BY <1>4 DEF Invariant

LEMMA RunSteps ==
  ASSUME TypeOK, NEW v \in [Ids -> Nat], Consistent(v), NEW r \in Runs,
         NEW after \in ForgeType, NEW w \in [Ids -> Nat],
         PullsInv(after, w), ItemsInv(after), Grows(forge, v, after, w),
         NEW y, CallTyped(y), Sound(r, after, w, y),
         forge' = after, call' = [call EXCEPT ![r] = y], mishaps' \in 0..MaxMishaps,
         UNCHANGED <<host, subject, build, denied, wanted, source, events>>
  PROVE  Invariant'
<1>1. TypeOK'
  <2>1. call' \in [Runs -> CallType]
    BY DEF TypeOK, CallTyped
  <2>2. \A q \in Runs : call'[q].pc \in About => call'[q].id \in Ids
    BY DEF TypeOK, CallTyped
  <2> QED
    BY <2>1, <2>2 DEF TypeOK, ForgeType
<1>2. \A q \in Runs : call'[q] = call[q] \/ Sound(q, after, w, call'[q])
  BY DEF TypeOK
<1> QED
  BY <1>1, <1>2, Steps

(* The numbers that an exchange gives out.                                 *)
New(after) ==
  {n \in Free : after.pulls[n].state # "absent" \/ after.items[n].state # "absent"}
Made(y, after) == IF y = NoCall THEN y ELSE [y EXCEPT !.made = @ \cup New(after)]

(* Only the creation of an object makes one, and is followed by its mark,  *)
(* if by anything.                                                         *)
Gives(r, after, next) ==
  \/ New(after) = {}
  \/ /\ call[r].pc = "post" /\ \E n \in Ids : New(after) = {n}
     /\ next = NoCall \/ (next.pc = "mark" /\ Clear(next))

(* What becomes of run r at an exchange: it was answered, or something of  *)
(* it was lost.                                                            *)
Outcome(r, after, next, y) ==
  LET x == call[r]
  IN  \/ y = Made(next, after) /\ UNCHANGED mishaps
      \/ /\ Mishap
         /\ y = Made(IF New(after) = {} THEN Again(r, x)
                     ELSE Again(r, [x EXCEPT !.unheard = TRUE]), after)
      \/ Mishap /\ y = Made(Failed(r, x), after)

LEMMA ExchangeLaw ==
  ASSUME NEW r, NEW after, NEW next, Exchange(r, after, next)
  PROVE  /\ UNCHANGED <<host, subject, build, denied, wanted, source, events>>
         /\ \/ \E y : /\ call' = [call EXCEPT ![r] = y] /\ forge' = after
                      /\ Outcome(r, after, next, y)
            \/ /\ Mishap /\ forge' = forge
               /\ call' = [call EXCEPT ![r] = Again(r, call[r])]
<1>1. Exchange(r, after, next) <=>
        /\ \/ forge' = after /\ Become(r, Made(next, after)) /\ UNCHANGED mishaps
           \/ /\ Mishap /\ forge' = after
              /\ Become(r, Made(IF New(after) = {} THEN Again(r, call[r])
                                ELSE Again(r, [call[r] EXCEPT !.unheard = TRUE]), after))
           \/ Mishap /\ forge' = forge /\ Become(r, Again(r, call[r]))
           \/ Decoded(call[r]) /\ Mishap /\ forge' = after
              /\ Become(r, Made(Undecoded(r, call[r]), after))
        /\ UNCHANGED <<host, subject, build, denied, wanted, source, events>>
  BY DEF Exchange, Made, New
<1> QED
  BY <1>1 DEF Become, Outcome, Undecoded

(* What is called after it is told what it made.                           *)
LEMMA MadeLaw ==
  ASSUME NEW r, NEW f, NEW v, NEW after, NEW y, CallTyped(y), Sound(r, f, v, y),
         \/ New(after) = {}
         \/ y = NoCall
         \/ y.pc = "mark" /\ Clear(y) /\ \E n \in Ids : New(after) = {n}
  PROVE  CallTyped(Made(y, after)) /\ Sound(r, f, v, Made(y, after))
<1> DEFINE z == [y EXCEPT !.made = @ \cup New(after)]
<1>1. CASE y = NoCall
  BY <1>1 DEF Made
<1>2. CASE y # NoCall
  <2>1. New(after) \in SUBSET Ids
    BY DEF New, Free
  <2>2. y \in CallType
    BY DEF CallTyped
  <2>3. /\ z \in CallType /\ z.pc = y.pc /\ z.op = y.op /\ z.id = y.id /\ z.marker = y.marker
        /\ z.todo = y.todo /\ z.rest = y.rest /\ z.unheard = y.unheard
        /\ z.made = y.made \cup New(after)
    BY <2>1, <2>2 DEF CallType
  <2>4. Made(y, after) = z
    BY <1>2 DEF Made
  <2> HIDE DEF z
  <2>5. CallTyped(z)
    BY <2>3 DEF CallTyped
  <2>6. MadeOnce(z)
    <3>1. CASE New(after) = {}
      <4>1. z.made = y.made
        BY <2>3, <3>1
      <4> QED
        BY <2>3, <4>1 DEF Sound, MadeOnce
    <3>2. CASE y.pc = "mark" /\ Clear(y) /\ \E n \in Ids : New(after) = {n}
      <4>1. y.unheard \/ z.made = New(after)
        BY <2>3, <3>2 DEF Clear
      <4> QED
        BY <2>3, <3>2, <4>1 DEF MadeOnce
    <3> QED
      BY <1>2, <3>1, <3>2
  <2>7. Sound(r, f, v, z)
    BY <2>3, <2>6 DEF Sound, RequestCall, ArtifactCall
  <2> QED
    BY <2>4, <2>5, <2>7
<1> QED
  BY <1>1, <1>2

(* Nothing is told twice: the creation of an object that failed is over.   *)
LEMMA FailedPost ==
  ASSUME NEW r, NEW x, x.pc = "post", x.op = "create"
  PROVE  Failed(r, x) = NoCall
BY DEF Failed, Ended

LEMMA ExchangeKept ==
  ASSUME TypeOK, NEW v \in [Ids -> Nat], Consistent(v), NEW r \in Runs,
         NEW after \in ForgeType, NEW w \in [Ids -> Nat],
         PullsInv(after, w), ItemsInv(after), Grows(forge, v, after, w),
         NEW next, CallTyped(next), Sound(r, after, w, next), Gives(r, after, next),
         call[r].pc = "props" => subject = "request",
         Exchange(r, after, next)
  PROVE  Invariant'
<1> DEFINE x == call[r]
<1>0. /\ CallTyped(x) /\ Sound(r, forge, v, x) /\ build \in [Runs -> Nat \ {0}] /\ forge \in ForgeType
      /\ mishaps \in 0..MaxMishaps
  BY BuildsAssumption DEF TypeOK, Consistent, CallTyped, ForgeType
<1>1. CallTyped(Again(r, x)) /\ Sound(r, forge, v, Again(r, x))
  BY <1>0, AgainLaw
<1>2. CallTyped(Failed(r, x)) /\ Sound(r, forge, v, Failed(r, x))
  BY <1>0, FailedLaw
<1>3. Mishap => mishaps' \in 0..MaxMishaps
  BY <1>0, BoundsAssumption DEF Mishap
<1>4. UNCHANGED <<host, subject, build, denied, wanted, source, events>>
  BY ExchangeLaw
<1>5. ASSUME NEW y, CallTyped(y), Sound(r, forge, v, y),
             New(after) = {} \/ y = NoCall, Mishap,
             forge' = after, call' = [call EXCEPT ![r] = Made(y, after)]
      PROVE  Invariant'
  <2>1. Sound(r, after, w, y)
    BY <1>5, SoundKept
  <2>2. CallTyped(Made(y, after)) /\ Sound(r, after, w, Made(y, after))
    BY <1>5, <2>1, MadeLaw
  <2> QED
    BY <1>3, <1>4, <1>5, <2>2, RunSteps
<1>6. CASE forge' = after /\ mishaps' = mishaps /\ call' = [call EXCEPT ![r] = Made(next, after)]
  <2>1. CallTyped(Made(next, after)) /\ Sound(r, after, w, Made(next, after))
    BY MadeLaw DEF Gives
  <2> QED
    BY <1>0, <1>4, <1>6, <2>1, RunSteps
<1>7. CASE /\ Mishap /\ forge' = after
           /\ call' = [call EXCEPT ![r] =
                Made(IF New(after) = {} THEN Again(r, x)
                     ELSE Again(r, [x EXCEPT !.unheard = TRUE]), after)]
  <2>1. CASE New(after) = {}
    BY <1>1, <1>5, <1>7, <2>1
  <2>2. CASE New(after) # {}
    <3> DEFINE u == [x EXCEPT !.unheard = TRUE]
    <3>1. x.pc = "post" /\ x.op = "create" /\ x \in CallType /\ New(after) \in SUBSET Ids
      BY <1>0, <2>2 DEF Gives, Sound, CallTyped, New, Free
    <3>2. /\ u \in CallType /\ u.pc = x.pc /\ u.op = x.op /\ u.id = x.id /\ u.marker = x.marker
          /\ u.todo = x.todo /\ u.rest = x.rest /\ u.made = x.made /\ u.unheard
      BY <3>1 DEF CallType
    <3> HIDE DEF u
    <3>3. CallTyped(u) /\ Sound(r, forge, v, u)
      BY <1>0, <3>1, <3>2 DEF CallTyped, Sound, MadeOnce, RequestCall, ArtifactCall, About
    <3>4. CallTyped(Again(r, u)) /\ Sound(r, forge, v, Again(r, u))
      BY <1>0, <3>1, <3>2, <3>3, AgainLaw
    <3> DEFINE a == Again(r, u)
               z == [a EXCEPT !.made = @ \cup New(after)]
    <3>5. CASE a = NoCall
      BY <1>5, <1>7, <2>2, <3>4, <3>5 DEF u
    <3>6. CASE a # NoCall
      <4>1. a = [u EXCEPT !.tries = @ + 1]
        BY <3>1, <3>2, <3>6, FailedPost DEF Again
      <4>2. a \in CallType
        BY <3>4 DEF CallTyped
      <4>3. a.unheard /\ a.pc = "post"
        BY <3>1, <3>2, <4>1 DEF CallType
      <4> HIDE DEF a
      <4>4. /\ z \in CallType /\ z.pc = a.pc /\ z.op = a.op /\ z.id = a.id /\ z.marker = a.marker
            /\ z.todo = a.todo /\ z.rest = a.rest /\ z.unheard = a.unheard
        BY <3>1, <4>2 DEF CallType
      <4>5. Made(a, after) = z
        BY <3>6 DEF Made
      <4> HIDE DEF z
      <4>6. Sound(r, after, w, a)
        BY <3>4, SoundKept DEF a
      <4>7. CallTyped(z) /\ Sound(r, after, w, z)
        BY <3>4, <4>3, <4>4, <4>6 DEF CallTyped, Sound, MadeOnce, RequestCall, ArtifactCall, About
      <4>8. call' = [call EXCEPT ![r] = z]
        BY <1>7, <2>2, <4>5 DEF a, u
      <4> QED
        BY <1>3, <1>4, <1>7, <4>7, <4>8, RunSteps
    <3> QED
      BY <3>5, <3>6
  <2> QED
    BY <2>1, <2>2
<1>8. CASE Mishap /\ forge' = after /\ call' = [call EXCEPT ![r] = Made(Failed(r, x), after)]
  <2>1. New(after) = {} \/ Failed(r, x) = NoCall
    BY <1>0, FailedPost DEF Gives, Sound
  <2> QED
    BY <1>2, <1>5, <1>8, <2>1
<1>9. CASE Mishap /\ forge' = forge /\ call' = [call EXCEPT ![r] = Again(r, x)]
  <2>1. PullsInv(forge, v) /\ ItemsInv(forge)
    BY DEF Consistent
  <2> QED
    BY <1>0, <1>1, <1>3, <1>4, <1>9, <2>1, GrowsSame, RunSteps
<1> QED
  BY <1>6, <1>7, <1>8, <1>9, ExchangeLaw DEF Outcome

----------------------------------------------------------------------------
(***************************************************************************)
(* The exchanges, one by one.                                              *)
(***************************************************************************)
LEMMA ReadKept ==
  ASSUME TypeOK, NEW v \in [Ids -> Nat], Consistent(v), NEW r \in Runs,
         NEW next, CallTyped(next), Sound(r, forge, v, next),
         call[r].pc = "props" => subject = "request",
         Read(r, next)
  PROVE  Invariant'
<1>1. New(forge) = {}
  BY DEF New, Free
<1>2. forge \in ForgeType /\ PullsInv(forge, v) /\ ItemsInv(forge)
  BY DEF TypeOK, ForgeType, Consistent
<1>3. Gives(r, forge, next)
  BY <1>1 DEF Gives
<1>4. Exchange(r, forge, next)
  BY DEF Read
<1> QED
  BY <1>2, <1>3, <1>4, GrowsSame, ExchangeKept

(* One request changes.                                                    *)
LEMMA PullChanged ==
  ASSUME NEW n \in Ids, NEW after \in ForgeType, NEW v \in [Ids -> Nat], NEW w \in [Ids -> Nat],
         after.items = forge.items, \A m \in Ids \ {n} : after.pulls[m] = forge.pulls[m],
         \A m \in Ids \ {n} : w[m] = v[m],
         PullsInv(forge, v), ItemsInv(forge),
         forge.pulls[n].by = "oiax" => after.pulls[n].by = "oiax" /\ w[n] = v[n],
         after.pulls[n].by = "oiax" => /\ after.pulls[n].state # "absent"
                                       /\ Of(after.pulls[n].desc, w[n])
                                       /\ Of(after.pulls[n].prop, w[n]),
         after.pulls[n].by \in {"nobody", "colleague"} =>
           after.pulls[n].desc = NoMarker /\ after.pulls[n].prop = NoMarker
  PROVE  PullsInv(after, w) /\ ItemsInv(after) /\ Grows(forge, v, after, w)
<1>1. PullsInv(after, w)
  BY DEF PullsInv
<1>2. ItemsInv(after)
  BY DEF ItemsInv, HasElder
<1>3. Grows(forge, v, after, w)
  BY DEF Grows
<1> QED
  BY <1>1, <1>2, <1>3

(* One artifact changes.                                                   *)
LEMMA ItemChanged ==
  ASSUME NEW n \in Ids, NEW after \in ForgeType, NEW v \in [Ids -> Nat], subject = "artifact",
         after.pulls = forge.pulls, \A m \in Ids \ {n} : after.items[m] = forge.items[m],
         PullsInv(forge, v), ItemsInv(forge),
         after.items[n].state # "absent",
         forge.items[n].labelled => after.items[n].labelled,
         after.items[n].as = "dup" => forge.items[n].as = "dup" \/ HasElder(forge, n)
  PROVE  PullsInv(after, v) /\ ItemsInv(after) /\ Grows(forge, v, after, v)
<1>1. PullsInv(after, v)
  BY DEF PullsInv
<1>2. Grows(forge, v, after, v)
  BY DEF Grows
<1>3. \A m \in Ids : HasElder(forge, m) => HasElder(after, m)
  BY DEF HasElder
<1>4. ItemsInv(after)
  BY <1>3 DEF ItemsInv
<1> QED
  BY <1>1, <1>2, <1>4

(* What is asked of an exchange that leaves the versions of requests alone. *)
Fits(r, v, after, next) ==
  /\ after \in ForgeType /\ PullsInv(after, v) /\ ItemsInv(after) /\ Grows(forge, v, after, v)
  /\ CallTyped(next) /\ Sound(r, after, v, next) /\ Gives(r, after, next)
  /\ Exchange(r, after, next)

(* Such an exchange keeps the invariant.                                   *)
LEMMA FittingKept ==
  ASSUME TypeOK, NEW v \in [Ids -> Nat], Consistent(v), NEW r \in Runs, NEW after, NEW next,
         Fits(r, v, after, next), call[r].pc = "props" => subject = "request"
  PROVE  Invariant'
BY ExchangeKept DEF Fits

(* What is known of a call before an exchange of it.                       *)
LEMMA CallNow ==
  ASSUME TypeOK, NEW v, Consistent(v), NEW r \in Runs
  PROVE  /\ CallTyped(call[r]) /\ call[r] \in CallType /\ Sound(r, forge, v, call[r])
         /\ forge \in ForgeType /\ PullsInv(forge, v) /\ ItemsInv(forge)
         /\ build \in [Runs -> Nat \ {0}] /\ build[r] \in Nat \ {0} /\ call[r].head \in Heads \cup {0}
         /\ call[r].pc \notin {"mark", "cleanup"} => Clear(call[r])
         /\ Written(r, call[r]) \in Markers /\ Written(r, call[r]) # NoMarker
<1>1. CallTyped(call[r]) /\ call[r] \in CallType /\ Sound(r, forge, v, call[r])
  BY DEF TypeOK, Consistent, CallTyped
<1>2. build \in [Runs -> Nat \ {0}] /\ build[r] \in Nat \ {0}
  BY BuildsAssumption DEF TypeOK
<1>3. call[r].head \in Heads \cup {0}
  BY <1>1 DEF CallType
<1> QED
  BY <1>1, <1>2, <1>3
     DEF TypeOK, ForgeType, Consistent, Sound, MadeOnce, Clear, Written, Markers, NoMarker

LEMMA BeginKept ==
  ASSUME TypeOK, NEW v \in [Ids -> Nat], Consistent(v), NEW r \in Runs, Begin(r)
  PROVE  Invariant'
<1> DEFINE first == IF subject # "branch" THEN "list"
                    ELSE IF wanted THEN "push"
                    ELSE IF host = "azuredevops" THEN "resolve" ELSE "delete"
<1>0. PICK full \in BOOLEAN :
        call' = [call EXCEPT ![r] = [NoCall EXCEPT !.wanted = wanted, !.head = source,
                                                   !.full = full, !.pc = first]]
  BY DEF Begin, Become, first
<1> DEFINE y == [NoCall EXCEPT !.wanted = wanted, !.head = source, !.full = full, !.pc = first]
<1>1. first \in {"list", "push", "resolve", "delete"} /\ first \in Exchanges
  BY DEF Exchanges, Reads
<1>2. NoCall \in CallType /\ wanted \in BOOLEAN /\ source \in Heads
  BY NoCallSound DEF CallTyped, TypeOK
<1> HIDE DEF first
<1>3. /\ y \in CallType /\ y.pc = first /\ y.op = "none" /\ y.todo = {} /\ y.rest = 0
      /\ y.made = {}
  BY <1>0, <1>1, <1>2 DEF NoCall, CallType
<1>4. call' = [call EXCEPT ![r] = y] /\ forge' = forge /\ mishaps' = mishaps
      /\ UNCHANGED <<host, subject, build, denied, wanted, source, events>>
  BY <1>0 DEF Begin
<1> HIDE DEF y
<1>5. y.pc \notin About
  BY <1>1, <1>3 DEF About
<1>6. CallTyped(y) /\ Sound(r, forge, v, y)
  BY <1>1, <1>3, <1>5 DEF CallTyped, Sound, MadeOnce, RequestCall, ArtifactCall, About
<1>7. mishaps' \in 0..MaxMishaps
  BY <1>4 DEF TypeOK
<1> QED
  BY <1>4, <1>6, <1>7, CallNow, GrowsSame, RunSteps

LEMMA CrashKept ==
  ASSUME TypeOK, NEW v \in [Ids -> Nat], Consistent(v), NEW r \in Runs, Crash(r)
  PROVE  Invariant'
<1>1. call' = [call EXCEPT ![r] = NoCall] /\ forge' = forge
      /\ UNCHANGED <<host, subject, build, denied, wanted, source, events>>
  BY DEF Crash, Become
<1>2. mishaps' \in 0..MaxMishaps
  BY BoundsAssumption DEF Crash, Mishap, TypeOK
<1> QED
  BY <1>1, <1>2, NoCallSound, CallNow, GrowsSame, RunSteps

LEMMA ListRequestsKept ==
  ASSUME TypeOK, NEW v \in [Ids -> Nat], Consistent(v), NEW r \in Runs, ListRequests(r)
  PROVE  Invariant'
<1> DEFINE next == PlanRequest(call[r], ListManagedRequests)
<1>1. At(r, "list", "request") /\ Read(r, next)
  BY DEF ListRequests
<1>2. CallTyped(next) /\ Sound(r, forge, v, next)
  BY <1>1, CallNow, PlanRequestLaw DEF At
<1> HIDE DEF next
<1> QED
  BY <1>1, <1>2, ReadKept DEF At

(* A call about a request that ends, or goes on to an exchange about none.  *)
LEMMA AdoptLaw ==
  ASSUME NEW r, NEW f, NEW v, NEW x \in CallType, Clear(x), subject = "request"
  PROVE  CallTyped(Go(x, "adopt")) /\ Sound(r, f, v, Go(x, "adopt"))
<1>1. "adopt" \in Exchanges /\ "adopt" \notin About
  BY DEF Exchanges, Reads, About
<1> DEFINE y == Go(x, "adopt")
<1>2. y \in CallType /\ y.pc = "adopt" /\ y.made = x.made /\ y.unheard = x.unheard
  BY <1>1, GoLaw
<1> HIDE DEF y
<1>3. CallTyped(y) /\ Sound(r, f, v, y)
  BY <1>1, <1>2 DEF CallTyped, Sound, MadeOnce, Clear, RequestCall, About
<1> QED
  BY <1>3 DEF y

LEMMA PostKept ==
  ASSUME TypeOK, NEW v \in [Ids -> Nat], Consistent(v), NEW r \in Runs,
         NEW labelled \in BOOLEAN, At(r, "post", "request"), Post(r, labelled)
  PROVE  Invariant'
<1> DEFINE x == call[r]
<1>0. subject = "request" /\ x.pc = "post" /\ Clear(x)
  BY CallNow DEF At
<1>1. CASE Taken
  <2>1. Read(r, Go(x, "adopt"))
    BY <1>1 DEF Post
  <2> QED
    BY <1>0, <2>1, CallNow, AdoptLaw, ReadKept
<1>2. CASE ~Taken
  <2> DEFINE p(n) == [NoPull EXCEPT !.by = "oiax", !.state = "open",
                                    !.desc = Written(r, x), !.labelled = labelled]
             after(n) == [forge EXCEPT !.pulls[n] = p(n)]
             next(n) == [Go(x, "mark") EXCEPT !.id = n, !.marker = Written(r, x)]
  <2>1. PICK n \in Free : Exchange(r, after(n), next(n))
    BY <1>2 DEF Post
  <2> DEFINE w == [v EXCEPT ![n] = build[r]]
             q == p(n)
             g == after(n)
             y == next(n)
  <2>2. /\ n \in Ids /\ forge.pulls[n].state = "absent" /\ forge.pulls[n].by # "oiax"
        /\ forge.items[n].state = "absent"
    <3>1. n \in Ids /\ forge.pulls[n].state = "absent" /\ forge.items[n].state = "absent"
      BY DEF Free
    <3> QED
      BY <3>1, CallNow DEF PullsInv
  <2>3. Written(r, x) \in Markers /\ Written(r, x).version = build[r] /\ build[r] \in Nat
        /\ forge \in ForgeType /\ PullsInv(forge, v) /\ ItemsInv(forge)
    BY CallNow DEF Written
  <2>4. NoMarker \in Markers
    BY DEF NoMarker, Markers
  <2>5. /\ q \in PullType /\ q.by = "oiax" /\ q.state = "open"
        /\ q.desc = Written(r, x) /\ q.prop = NoMarker
    BY <2>3, <2>4 DEF NoPull, PullType
  <2>6. g = [forge EXCEPT !.pulls[n] = q]
    OBVIOUS
  <2> HIDE DEF q
  <2>7. /\ g \in ForgeType /\ g.items = forge.items /\ g.pulls[n] = q
        /\ \A m \in Ids \ {n} : g.pulls[m] = forge.pulls[m]
    BY <2>2, <2>3, <2>5, <2>6 DEF ForgeType
  <2> HIDE DEF g
  <2>8. w \in [Ids -> Nat] /\ w[n] = build[r] /\ \A m \in Ids \ {n} : w[m] = v[m]
    BY <2>2, <2>3
  <2> HIDE DEF w
  <2>9. PullsInv(g, w) /\ ItemsInv(g) /\ Grows(forge, v, g, w)
    <3>1. Of(g.pulls[n].desc, w[n]) /\ Of(g.pulls[n].prop, w[n])
      BY <2>3, <2>5, <2>7, <2>8 DEF Of
    <3> QED
      BY <2>2, <2>3, <2>5, <2>7, <2>8, <3>1, PullChanged
  <2>10. New(g) = {n}
    BY <2>2, <2>5, <2>7 DEF New, Free
  <2>11. /\ y \in CallType /\ y.pc = "mark" /\ y.id = n /\ y.marker = Written(r, x)
         /\ y.op = "create" /\ y.made = x.made /\ y.unheard = x.unheard
    <3>1. "mark" \in Exchanges /\ x.op = "create"
      BY <1>0, CallNow DEF Exchanges, Sound
    <3> DEFINE z == Go(x, "mark")
    <3>2. z \in CallType /\ z.pc = "mark" /\ z.op = "create" /\ z.made = x.made
          /\ z.unheard = x.unheard
      BY <3>1, CallNow, GoLaw
    <3>3. y = [z EXCEPT !.id = n, !.marker = Written(r, x)]
      OBVIOUS
    <3> HIDE DEF z
    <3> QED
      BY <2>2, <2>3, <3>2, <3>3 DEF CallType
  <2> HIDE DEF y
  <2>12. CallTyped(y) /\ Clear(y)
    BY <1>0, <2>2, <2>11 DEF CallTyped, Clear
  <2>13. Sound(r, g, w, y)
    <3>1. RequestCall(r, g, w, y)
      BY <2>3, <2>5, <2>7, <2>8, <2>11 DEF RequestCall, Of
    <3> QED
      BY <1>0, <2>11, <2>12, <3>1 DEF Sound, MadeOnce, Clear
  <2>14. Gives(r, g, y)
    BY <1>0, <2>2, <2>10, <2>11, <2>12 DEF Gives
  <2>15. Exchange(r, g, y)
    BY <2>1 DEF g, y
  <2> QED
    BY <1>0, <2>7, <2>8, <2>9, <2>12, <2>13, <2>14, <2>15, ExchangeKept
<1> QED
  BY <1>1, <1>2

(* An exchange that changes the request its call is about.                 *)
LEMMA EditKept ==
  ASSUME TypeOK, NEW v \in [Ids -> Nat], Consistent(v), NEW r \in Runs,
         subject = "request", call[r].pc \in About \ {"props"},
         NEW n, n = call[r].id, NEW q \in PullType, q.by = forge.pulls[n].by,
         q.state # "absent", Of(q.desc, v[n]), Of(q.prop, v[n]),
         NEW after, after = [forge EXCEPT !.pulls[n] = q],
         NEW next, CallTyped(next), Sound(r, forge, v, next), Exchange(r, after, next)
  PROVE  Invariant'
<1>1. n \in Ids /\ forge.pulls[n].by = "oiax" /\ forge.pulls[n].state # "absent"
  BY CallNow DEF CallTyped, Sound, RequestCall, PullsInv
<1>2. forge \in ForgeType /\ PullsInv(forge, v) /\ ItemsInv(forge)
  BY CallNow
<1>3. /\ after \in ForgeType /\ after.items = forge.items /\ after.pulls[n] = q
      /\ \A m \in Ids \ {n} : after.pulls[m] = forge.pulls[m]
  BY <1>1, <1>2 DEF ForgeType
<1>4. /\ after.pulls[n].by = "oiax" /\ after.pulls[n].state # "absent"
      /\ Of(after.pulls[n].desc, v[n]) /\ Of(after.pulls[n].prop, v[n])
  BY <1>1, <1>3
<1>5. after \in ForgeType /\ after.items = forge.items
  BY <1>3
<1>6. \A m \in Ids \ {n} : after.pulls[m] = forge.pulls[m]
  BY <1>3
<1>7. PullsInv(after, v) /\ ItemsInv(after) /\ Grows(forge, v, after, v)
  BY <1>1, <1>2, <1>4, <1>5, <1>6, PullChanged
<1>8. New(after) = {}
  BY <1>1, <1>3 DEF New, Free
<1>9. Sound(r, after, v, next)
  BY <1>7, SoundKept
<1>10. Fits(r, v, after, next)
  BY <1>3, <1>7, <1>8, <1>9 DEF Fits, Gives
<1>11. call[r].pc # "props"
  OBVIOUS
<1> QED
  BY <1>10, <1>11, FittingKept

(* The request a call is about, as an exchange finds it.                   *)
LEMMA OwnRequest ==
  ASSUME TypeOK, NEW v \in [Ids -> Nat], Consistent(v), NEW r \in Runs,
         subject = "request", call[r].pc \in About
  PROVE  LET n == call[r].id
             p == forge.pulls[n]
         IN  /\ n \in Ids /\ p \in PullType /\ p.by = "oiax" /\ p.state # "absent"
             /\ Of(p.desc, v[n]) /\ Of(p.prop, v[n])
<1>1. call[r].id \in Ids /\ forge.pulls[call[r].id].by = "oiax"
  BY CallNow DEF CallTyped, Sound, RequestCall
<1> QED
  BY <1>1, CallNow DEF PullsInv, ForgeType

LEMMA AddLabelsKept ==
  ASSUME TypeOK, NEW v \in [Ids -> Nat], Consistent(v), NEW r \in Runs, AddLabels(r)
  PROVE  Invariant'
<1> DEFINE x == call[r]
           p == forge.pulls[x.id]
           q == [p EXCEPT !.labelled = TRUE]
           after == [forge EXCEPT !.pulls[x.id].labelled = TRUE]
<1>1. subject = "request" /\ x.pc = "mark" /\ x.pc \in About
  BY DEF AddLabels, On, At, About
<1>2. CASE denied
  <2>1. Read(r, Failed(r, x))
    BY <1>2 DEF AddLabels
  <2>2. CallTyped(Failed(r, x)) /\ Sound(r, forge, v, Failed(r, x))
    BY <1>1, CallNow, FailedLaw
  <2> QED
    BY <1>1, <2>1, <2>2, ReadKept
<1>3. CASE ~denied
  <2>1. /\ x.id \in Ids /\ p \in PullType /\ p.by = "oiax" /\ p.state # "absent"
        /\ Of(p.desc, v[x.id]) /\ Of(p.prop, v[x.id])
    BY <1>1, OwnRequest
  <2>2. /\ q \in PullType /\ q.by = p.by /\ q.state = p.state /\ q.desc = p.desc
        /\ q.prop = p.prop
    BY <2>1 DEF PullType
  <2>3. after = [forge EXCEPT !.pulls[x.id] = q]
    OBVIOUS
  <2>4. Exchange(r, after, NoCall)
    BY <1>3 DEF AddLabels, Ended
  <2> HIDE DEF after, q
  <2> QED
    BY <1>1, <2>1, <2>2, <2>3, <2>4, NoCallSound, EditKept
<1> QED
  BY <1>2, <1>3

LEMMA PutMarkerPropertyKept ==
  ASSUME TypeOK, NEW v \in [Ids -> Nat], Consistent(v), NEW r \in Runs, PutMarkerProperty(r)
  PROVE  Invariant'
<1> DEFINE x == call[r]
           p == forge.pulls[x.id]
           q == [p EXCEPT !.prop = x.marker]
           after == [forge EXCEPT !.pulls[x.id].prop = x.marker]
<1>1. subject = "request" /\ x.pc = "mark" /\ x.pc \in About
  BY DEF PutMarkerProperty, On, At, About
<1>2. /\ x.id \in Ids /\ p \in PullType /\ p.by = "oiax" /\ p.state # "absent"
      /\ Of(p.desc, v[x.id]) /\ Of(p.prop, v[x.id])
  BY <1>1, OwnRequest
<1>3. x.marker \in Markers /\ Of(x.marker, v[x.id])
  BY <1>1, CallNow DEF CallType, Sound, RequestCall
<1>4. /\ q \in PullType /\ q.by = p.by /\ q.state = p.state /\ q.desc = p.desc
      /\ q.prop = x.marker
  BY <1>2, <1>3 DEF PullType
<1>5. after = [forge EXCEPT !.pulls[x.id] = q]
  OBVIOUS
<1>6. Exchange(r, after, NoCall)
  BY DEF PutMarkerProperty, Ended
<1> HIDE DEF after, q
<1> QED
  BY <1>1, <1>2, <1>3, <1>4, <1>5, <1>6, NoCallSound, EditKept

(* A call that has read a marker of its request goes on with that marker.  *)
LEMMA ReadLaw ==
  ASSUME TypeOK, NEW v \in [Ids -> Nat], Consistent(v), NEW r \in Runs,
         call[r].pc \in {"get", "props"}, NEW marker \in Markers,
         NEW y, y = [call[r] EXCEPT !.marker = marker],
         subject = "request" => Of(marker, v[call[r].id]),
         subject # "branch"
  PROVE  y \in CallType /\ ReadSound(r, forge, v, y) /\ y.marker = marker
<1> DEFINE x == call[r]
<1>1. x \in CallType /\ CallTyped(x) /\ Sound(r, forge, v, x) /\ x.pc \in About
      /\ Clear(x)
  BY CallNow DEF About
<1>2. /\ y \in CallType /\ y.pc = x.pc /\ y.op = x.op /\ y.id = x.id /\ y.marker = marker
      /\ y.todo = x.todo /\ y.rest = x.rest /\ y.made = x.made /\ y.unheard = x.unheard
  BY <1>1 DEF CallType
<1>3. Clear(y) /\ y.id \in Ids /\ y.op \in {"update", "close", "dup"}
  BY <1>1, <1>2 DEF Clear, CallTyped, Sound
<1>4. ASSUME subject = "request"
      PROVE  forge.pulls[y.id].by = "oiax" /\ Of(y.marker, v[y.id])
  BY <1>1, <1>2, <1>4 DEF Sound, RequestCall
<1>5. ASSUME subject = "artifact"
      PROVE  /\ forge.items[y.id].state # "absent" /\ PassSound(forge, y)
             /\ y.op = "dup" => HasElder(forge, y.id)
  BY <1>1, <1>2, <1>5 DEF Sound, ArtifactCall, PassSound
<1> QED
  BY <1>2, <1>3, <1>4, <1>5 DEF ReadSound

LEMMA GithubGetPullKept ==
  ASSUME TypeOK, NEW v \in [Ids -> Nat], Consistent(v), NEW r \in Runs, GithubGetPull(r)
  PROVE  Invariant'
<1> DEFINE x == call[r]
           p == forge.pulls[x.id]
           y == [x EXCEPT !.marker = p.desc]
<1>1. subject = "request" /\ x.pc = "get" /\ x.pc \in About
  BY DEF GithubGetPull, On, At, About
<1>2. Read(r, Checked(r, y, Recognised(p, p.desc)))
  BY DEF GithubGetPull
<1>3. p \in PullType /\ Of(p.desc, v[x.id])
  BY <1>1, OwnRequest
<1>4. p.desc \in Markers /\ Recognised(p, p.desc) \in BOOLEAN
  BY <1>3 DEF PullType, Recognised
<1>5. y \in CallType /\ ReadSound(r, forge, v, y) /\ y.marker = p.desc
  BY <1>1, <1>3, <1>4, ReadLaw
<1> HIDE DEF y
<1>6. Recognised(p, p.desc) => y.marker # NoMarker
  BY <1>5 DEF Recognised
<1>7. CallTyped(Checked(r, y, Recognised(p, p.desc)))
      /\ Sound(r, forge, v, Checked(r, y, Recognised(p, p.desc)))
  BY <1>4, <1>5, <1>6, CallNow, CheckedLaw
<1> QED
  BY <1>1, <1>2, <1>7, ReadKept

LEMMA AzureGetPullKept ==
  ASSUME TypeOK, NEW v \in [Ids -> Nat], Consistent(v), NEW r \in Runs, AzureGetPull(r)
  PROVE  Invariant'
<1> DEFINE x == call[r]
           p == forge.pulls[x.id]
           z == Go(x, "props")
           y == [z EXCEPT !.marker = p.desc]
<1>1. subject = "request" /\ x.pc = "get" /\ x.pc \in About
  BY DEF AzureGetPull, On, At, About
<1>2. Read(r, y)
  BY DEF AzureGetPull
<1>3. /\ p \in PullType /\ Of(p.desc, v[x.id]) /\ p.by = "oiax" /\ x.id \in Ids
  BY <1>1, OwnRequest
<1>4. p.desc \in Markers
  BY <1>3 DEF PullType
<1>5. /\ z \in CallType /\ z.pc = "props" /\ z.op = x.op /\ z.id = x.id
      /\ z.made = x.made /\ z.unheard = x.unheard
  BY CallNow, GoLaw DEF Exchanges, Reads
<1> HIDE DEF z
<1>6. /\ y \in CallType /\ y.pc = "props" /\ y.op = x.op /\ y.id = x.id
      /\ y.made = x.made /\ y.unheard = x.unheard /\ y.marker = p.desc
  BY <1>4, <1>5 DEF CallType
<1> HIDE DEF y
<1>7. x.op \in {"update", "close", "dup"} /\ Clear(x)
  BY <1>1, CallNow DEF Sound
<1>8. CallTyped(y)
  BY <1>3, <1>6 DEF CallTyped
<1>9. Sound(r, forge, v, y)
  BY <1>1, <1>3, <1>6, <1>7 DEF Sound, MadeOnce, Clear, RequestCall
<1> QED
  BY <1>1, <1>2, <1>8, <1>9, ReadKept

LEMMA GetPropertiesKept ==
  ASSUME TypeOK, NEW v \in [Ids -> Nat], Consistent(v), NEW r \in Runs, GetProperties(r)
  PROVE  Invariant'
<1> DEFINE x == call[r]
           p == forge.pulls[x.id]
           marker == IF p.prop = NoMarker THEN x.marker ELSE p.prop
           y == [x EXCEPT !.marker = marker]
<1>1. subject = "request" /\ x.pc = "props" /\ x.pc \in About \ {"get"}
  BY DEF GetProperties, At, About
<1>2. p \in PullType /\ Of(p.prop, v[x.id])
  BY <1>1, OwnRequest
<1>3. x.marker \in Markers /\ Of(x.marker, v[x.id])
  BY <1>1, CallNow DEF CallType, Sound, RequestCall
<1>4. marker \in Markers /\ Of(marker, v[x.id])
  BY <1>2, <1>3 DEF PullType
<1>5. y = [x EXCEPT !.marker = IF p.prop = NoMarker THEN @ ELSE p.prop]
  BY CallNow DEF CallType
<1> HIDE DEF marker
<1>6. y \in CallType /\ ReadSound(r, forge, v, y) /\ y.marker = marker
  BY <1>1, <1>4, ReadLaw
<1>7. Read(r, Checked(r, y, Recognised(p, y.marker)))
  BY <1>5 DEF GetProperties
<1> HIDE DEF y
<1>8. Recognised(p, y.marker) \in BOOLEAN /\ (Recognised(p, y.marker) => y.marker # NoMarker)
  BY DEF Recognised
<1>9. CallTyped(Checked(r, y, Recognised(p, y.marker)))
      /\ Sound(r, forge, v, Checked(r, y, Recognised(p, y.marker)))
  BY <1>6, <1>8, CallNow, CheckedLaw
<1> QED
  BY <1>1, <1>7, <1>9, ReadKept

(* A marker that is rewritten keeps its version.                           *)
LEMMA RewrittenLaw ==
  ASSUME NEW x \in CallType
  PROVE  Rewritten(x) \in Markers /\ Rewritten(x).version = x.marker.version
BY DEF CallType, Markers, Rewritten

LEMMA UpdateRequestKept ==
  ASSUME TypeOK, NEW v \in [Ids -> Nat], Consistent(v), NEW r \in Runs,
         GithubUpdateRequest(r) \/ AzureUpdateRequest(r)
  PROVE  Invariant'
<1> DEFINE x == call[r]
           p == forge.pulls[x.id]
           q == [p EXCEPT !.desc = Rewritten(x)]
           after == Described(x)
           z == Go(x, "mark")
           y == [z EXCEPT !.marker = Rewritten(x)]
<1>1. subject = "request" /\ x.pc = "patch" /\ x.pc \in About \ {"get"}
  BY DEF GithubUpdateRequest, AzureUpdateRequest, On, At, About
<1>2. Exchange(r, after, NoCall) \/ Exchange(r, after, y)
  BY DEF GithubUpdateRequest, AzureUpdateRequest, Ended
<1>3. /\ x.id \in Ids /\ p \in PullType /\ p.by = "oiax" /\ p.state # "absent"
      /\ Of(p.desc, v[x.id]) /\ Of(p.prop, v[x.id])
  BY <1>1, OwnRequest
<1>4. /\ x.marker # NoMarker /\ Of(x.marker, v[x.id]) /\ x \in CallType
      /\ Sound(r, forge, v, x)
  BY <1>1, CallNow DEF Sound, RequestCall
<1>5. Rewritten(x) \in Markers /\ Of(Rewritten(x), v[x.id])
  BY <1>4, RewrittenLaw DEF Of
<1>6. /\ q \in PullType /\ q.by = p.by /\ q.state = p.state /\ q.desc = Rewritten(x)
      /\ q.prop = p.prop
  BY <1>3, <1>5 DEF PullType
<1>7. after = [forge EXCEPT !.pulls[x.id] = q]
  BY DEF Described
<1>8. /\ z \in CallType /\ z.pc = "mark" /\ z.op = x.op /\ z.id = x.id
      /\ z.made = x.made /\ z.unheard = x.unheard
  BY <1>4, GoLaw DEF Exchanges
<1> HIDE DEF z
<1>9. /\ y \in CallType /\ y.pc = "mark" /\ y.op = x.op /\ y.id = x.id
      /\ y.made = x.made /\ y.unheard = x.unheard /\ y.marker = Rewritten(x)
  BY <1>5, <1>8 DEF CallType
<1> HIDE DEF y
<1>10. CallTyped(y)
  BY <1>3, <1>9 DEF CallTyped
<1>11. Clear(x)
  BY <1>1, CallNow
<1>12. Sound(r, forge, v, y)
  BY <1>1, <1>3, <1>5, <1>9, <1>11 DEF Sound, MadeOnce, Clear, RequestCall
<1> HIDE DEF after, q
<1> QED
  BY <1>1, <1>2, <1>3, <1>6, <1>7, <1>5, <1>10, <1>12, NoCallSound, EditKept

LEMMA CloseRequestKept ==
  ASSUME TypeOK, NEW v \in [Ids -> Nat], Consistent(v), NEW r \in Runs,
         GithubCloseRequest(r) \/ AzureCloseRequest(r)
  PROVE  Invariant'
<1> DEFINE x == call[r]
           p == forge.pulls[x.id]
           state == IF p.state = "open" THEN "closed" ELSE p.state
           q == [p EXCEPT !.state = state]
           after == [forge EXCEPT !.pulls[x.id].state = IF @ = "open" THEN "closed" ELSE @]
<1>1. subject = "request" /\ x.pc = "close" /\ x.pc \in About
  BY DEF GithubCloseRequest, AzureCloseRequest, On, At, About
<1>2. Exchange(r, after, NoCall)
  BY DEF GithubCloseRequest, AzureCloseRequest, Closing, Ended
<1>3. /\ x.id \in Ids /\ p \in PullType /\ p.by = "oiax" /\ p.state # "absent"
      /\ Of(p.desc, v[x.id]) /\ Of(p.prop, v[x.id])
  BY <1>1, OwnRequest
<1>4. after = [forge EXCEPT !.pulls[x.id] = q]
  BY <1>3, CallNow DEF PullType, ForgeType
<1>5. state \in {"absent", "open", "closed", "merged"} /\ state # "absent"
  BY <1>3 DEF PullType
<1> HIDE DEF state
<1>6. /\ q \in PullType /\ q.by = p.by /\ q.state = state /\ q.desc = p.desc
      /\ q.prop = p.prop
  BY <1>3, <1>5 DEF PullType
<1> HIDE DEF after, q
<1> QED
  BY <1>1, <1>2, <1>3, <1>4, <1>5, <1>6, NoCallSound, EditKept

(* Artifacts. *)
LEMMA GithubListArtifactsKept ==
  ASSUME TypeOK, NEW v \in [Ids -> Nat], Consistent(v), NEW r \in Runs, GithubListArtifacts(r)
  PROVE  Invariant'
<1> DEFINE x == call[r]
           next == PlanArtifact(x, ListConflictArtifacts)
<1>1. subject = "artifact" /\ x.pc = "list" /\ Read(r, next)
  BY DEF GithubListArtifacts, On, At
<1>2. PassSound(forge, x)
  BY <1>1, CallNow DEF Sound, ArtifactCall, PassSound
<1>3. CallTyped(next) /\ Sound(r, forge, v, next)
  BY <1>1, <1>2, CallNow, PlanArtifactLaw
<1> HIDE DEF next
<1> QED
  BY <1>1, <1>3, ReadKept

LEMMA AzureListArtifactsKept ==
  ASSUME TypeOK, NEW v \in [Ids -> Nat], Consistent(v), NEW r \in Runs, AzureListArtifacts(r)
  PROVE  Invariant'
<1> DEFINE x == call[r]
           z == Go(x, "hydrate")
           found == {n \in Ids : ConflictMarker(forge.items[n])}
           y == [z EXCEPT !.todo = found]
<1>1. subject = "artifact" /\ x.pc = "list" /\ Read(r, y)
  BY DEF AzureListArtifacts, On, At
<1>2. found \in SUBSET Ids /\ \A n \in found : forge.items[n].state # "absent"
  BY CallNow DEF ItemsInv, ConflictMarker
<1>3. /\ z \in CallType /\ z.pc = "hydrate" /\ z.op = x.op /\ z.rest = x.rest
      /\ z.made = x.made /\ z.unheard = x.unheard
  BY CallNow, GoLaw DEF Exchanges, Reads
<1> HIDE DEF z, found
<1>4. /\ y \in CallType /\ y.pc = "hydrate" /\ y.op = x.op /\ y.rest = x.rest
      /\ y.made = x.made /\ y.unheard = x.unheard /\ y.todo = found
  BY <1>2, <1>3 DEF CallType
<1> HIDE DEF y
<1>5. x.op = "none" /\ Clear(x) /\ (x.rest # 0 => forge.items[x.rest].state # "absent")
  BY <1>1, CallNow DEF Sound, ArtifactCall
<1>6. CallTyped(y)
  BY <1>4 DEF CallTyped, About
<1>7. ArtifactCall(forge, y)
  BY <1>2, <1>4, <1>5 DEF ArtifactCall, About
<1>8. Sound(r, forge, v, y)
  BY <1>1, <1>4, <1>5, <1>7 DEF Sound, MadeOnce, Clear
<1> QED
  BY <1>1, <1>6, <1>8, ReadKept

LEMMA GetWorkItemsKept ==
  ASSUME TypeOK, NEW v \in [Ids -> Nat], Consistent(v), NEW r \in Runs, GetWorkItems(r)
  PROVE  Invariant'
<1> DEFINE x == call[r]
           y == [x EXCEPT !.todo = {}]
           found == x.todo \cap ListConflictArtifacts
           next == PlanArtifact(y, found)
<1>1. subject = "artifact" /\ x.pc = "hydrate" /\ Read(r, next)
  BY DEF GetWorkItems, At
<1>2. /\ y \in CallType /\ y.todo = {} /\ y.rest = x.rest
      /\ y.made = x.made /\ y.unheard = x.unheard
  BY CallNow DEF CallType
<1> HIDE DEF y
<1>3. PassSound(forge, y) /\ Clear(y)
  BY <1>1, <1>2, CallNow DEF Sound, ArtifactCall, PassSound, Clear
<1>4. CallTyped(next) /\ Sound(r, forge, v, next)
  BY <1>1, <1>2, <1>3, CallNow, PlanArtifactLaw
<1> HIDE DEF next
<1> QED
  BY <1>1, <1>4, ReadKept

LEMMA CreateArtifactKept ==
  ASSUME TypeOK, NEW v \in [Ids -> Nat], Consistent(v), NEW r \in Runs,
         AzureCreateArtifact(r) \/ GithubCreateArtifact(r)
  PROVE  Invariant'
<1> DEFINE x == call[r]
           item(b) == NewItem(r, b)
           edit(n, b) == [forge EXCEPT !.items[n] = NewItem(r, b)]
           marks(n) == [Go(x, "mark") EXCEPT !.id = n]
<1>1. subject = "artifact" /\ x.pc = "post"
  BY DEF AzureCreateArtifact, GithubCreateArtifact, On, At
<1>2. \E n \in Free : \/ Exchange(r, edit(n, TRUE), NoCall)
                      \/ Exchange(r, edit(n, FALSE), marks(n))
  BY DEF AzureCreateArtifact, GithubCreateArtifact, Ended
<1>3. PICK n \in Free, b \in BOOLEAN :
        Exchange(r, edit(n, b), NoCall) \/ Exchange(r, edit(n, b), marks(n))
  BY <1>2
<1> DEFINE q == item(b)
           after == edit(n, b)
           y == marks(n)
<1>4. /\ n \in Ids /\ forge.items[n].state = "absent" /\ forge.pulls[n].state = "absent"
      /\ ~forge.items[n].labelled
  BY CallNow DEF Free, ItemsInv
<1>5. q \in ItemType /\ q.state = "open" /\ q.as = "none" /\ q.labelled = b
  BY CallNow DEF NewItem, NoItem, ItemType
<1>6. after = [forge EXCEPT !.items[n] = q]
  OBVIOUS
<1> HIDE DEF q, item
<1>7. /\ after \in ForgeType /\ after.pulls = forge.pulls /\ after.items[n] = q
      /\ \A m \in Ids \ {n} : after.items[m] = forge.items[m]
  BY <1>4, <1>5, <1>6, CallNow DEF ForgeType
<1>8. /\ Exchange(r, after, NoCall) \/ Exchange(r, after, y)
  BY <1>3
<1> HIDE DEF after, edit
<1>9. PullsInv(after, v) /\ ItemsInv(after) /\ Grows(forge, v, after, v)
  BY <1>1, <1>4, <1>5, <1>7, CallNow, ItemChanged
<1>10. New(after) = {n}
  BY <1>4, <1>5, <1>7 DEF New, Free
<1>11. x.op = "create" /\ Clear(x) /\ ArtifactCall(forge, x)
  BY <1>1, CallNow DEF Sound
<1>12. /\ y \in CallType /\ y.pc = "mark" /\ y.op = "create" /\ y.id = n
       /\ y.todo = x.todo /\ y.rest = x.rest /\ y.made = x.made /\ y.unheard = x.unheard
  <2> DEFINE z == Go(x, "mark")
  <2>1. /\ z \in CallType /\ z.pc = "mark" /\ z.op = "create"
        /\ z.todo = x.todo /\ z.rest = x.rest /\ z.made = x.made /\ z.unheard = x.unheard
    BY <1>11, CallNow, GoLaw DEF Exchanges
  <2>2. y = [z EXCEPT !.id = n]
    OBVIOUS
  <2> HIDE DEF z
  <2> QED
    BY <1>4, <2>1, <2>2 DEF CallType
<1> HIDE DEF y, marks
<1>13. CallTyped(y) /\ Clear(y)
  BY <1>4, <1>11, <1>12 DEF CallTyped, Clear
<1>14. Sound(r, after, v, y)
  <2>1. x.todo \subseteq Ids /\ x.rest \in Ids \cup {0}
    BY CallNow DEF CallType
  <2>2. \A m : HasElder(forge, m) => HasElder(after, m)
    BY <1>9 DEF HasElder, Grows
  <2>3. ArtifactCall(after, y)
    BY <1>1, <1>5, <1>7, <1>9, <1>11, <1>12, <2>1, <2>2 DEF ArtifactCall, Grows
  <2> QED
    BY <1>1, <1>12, <1>13, <2>3 DEF Sound, MadeOnce, Clear
<1>15. Gives(r, after, NoCall) /\ Gives(r, after, y)
  BY <1>1, <1>4, <1>10, <1>12, <1>13 DEF Gives
<1>16. CallTyped(NoCall) /\ Sound(r, after, v, NoCall) /\ call[r].pc # "props"
  BY <1>1, NoCallSound
<1>17. PICK next : /\ Exchange(r, after, next) /\ CallTyped(next)
                   /\ Sound(r, after, v, next) /\ Gives(r, after, next)
  BY <1>8, <1>13, <1>14, <1>15, <1>16
<1>18. Fits(r, v, after, next)
  BY <1>7, <1>9, <1>17 DEF Fits
<1> QED
  BY <1>16, <1>18, FittingKept

(* An exchange that changes the artifact its call is about.                *)
LEMMA ItemEditKept ==
  ASSUME TypeOK, NEW v \in [Ids -> Nat], Consistent(v), NEW r \in Runs,
         subject = "artifact", call[r].pc \in About \ {"props"},
         NEW n, n = call[r].id, NEW q \in ItemType, q.state # "absent",
         forge.items[n].labelled => q.labelled,
         q.as = "dup" => forge.items[n].as = "dup" \/ HasElder(forge, n),
         NEW after, after = [forge EXCEPT !.items[n] = q],
         NEW next, CallTyped(next), Sound(r, forge, v, next), Exchange(r, after, next)
  PROVE  Invariant'
<1>1. n \in Ids /\ forge.items[n].state # "absent"
  BY CallNow DEF CallTyped, Sound, ArtifactCall
<1>2. forge \in ForgeType /\ PullsInv(forge, v) /\ ItemsInv(forge)
  BY CallNow
<1>3. /\ after \in ForgeType /\ after.pulls = forge.pulls /\ after.items[n] = q
      /\ \A m \in Ids \ {n} : after.items[m] = forge.items[m]
  BY <1>1, <1>2 DEF ForgeType
<1>4. /\ after.items[n].state # "absent"
      /\ forge.items[n].labelled => after.items[n].labelled
      /\ after.items[n].as = "dup" => forge.items[n].as = "dup" \/ HasElder(forge, n)
  BY <1>3
<1>5. after \in ForgeType /\ after.pulls = forge.pulls
  BY <1>3
<1>6. \A m \in Ids \ {n} : after.items[m] = forge.items[m]
  BY <1>3
<1>7. PullsInv(after, v) /\ ItemsInv(after) /\ Grows(forge, v, after, v)
  BY <1>1, <1>2, <1>4, <1>5, <1>6, ItemChanged
<1>8. New(after) = {}
  BY <1>1, <1>3 DEF New, Free
<1>9. Sound(r, after, v, next)
  BY <1>7, SoundKept
<1>10. Fits(r, v, after, next)
  BY <1>3, <1>7, <1>8, <1>9 DEF Fits, Gives
<1>11. call[r].pc # "props"
  OBVIOUS
<1> QED
  BY <1>10, <1>11, FittingKept

(* The artifact a call is about, as an exchange finds it.                  *)
LEMMA OwnItem ==
  ASSUME TypeOK, NEW v \in [Ids -> Nat], Consistent(v), NEW r \in Runs,
         subject = "artifact", call[r].pc \in About
  PROVE  LET n == call[r].id
             p == forge.items[n]
         IN  /\ n \in Ids /\ p \in ItemType /\ p.state # "absent"
             /\ call[r].op = "dup" => HasElder(forge, n)
             /\ PassSound(forge, call[r])
<1>1. call[r].id \in Ids /\ ArtifactCall(forge, call[r]) /\ call[r].pc # "hydrate"
  BY CallNow DEF CallTyped, Sound, About
<1>2. forge.items[call[r].id] \in ItemType
  BY <1>1, CallNow DEF ForgeType
<1> QED
  BY <1>1, <1>2 DEF ArtifactCall, PassSound

LEMMA LabelArtifactKept ==
  ASSUME TypeOK, NEW v \in [Ids -> Nat], Consistent(v), NEW r \in Runs, LabelArtifact(r)
  PROVE  Invariant'
<1> DEFINE x == call[r]
           p == forge.items[x.id]
           q == [p EXCEPT !.labelled = TRUE]
           after == [forge EXCEPT !.items[x.id].labelled = TRUE]
<1>1. subject = "artifact" /\ x.pc = "mark" /\ x.pc \in About
  BY DEF LabelArtifact, At, About
<1>2. CASE denied
  <2>1. Read(r, Failed(r, x))
    BY <1>2 DEF LabelArtifact
  <2>2. CallTyped(Failed(r, x)) /\ Sound(r, forge, v, Failed(r, x))
    BY <1>1, CallNow, FailedLaw
  <2> QED
    BY <1>1, <2>1, <2>2, ReadKept
<1>3. CASE ~denied
  <2>1. x.id \in Ids /\ p \in ItemType /\ p.state # "absent"
    BY <1>1, OwnItem
  <2>2. q \in ItemType /\ q.state = p.state /\ q.labelled /\ q.as = p.as
    BY <2>1 DEF ItemType
  <2>3. after = [forge EXCEPT !.items[x.id] = q]
    OBVIOUS
  <2>4. Exchange(r, after, NoCall)
    BY <1>3 DEF LabelArtifact, Ended
  <2> HIDE DEF after, q
  <2> QED
    BY <1>1, <2>1, <2>2, <2>3, <2>4, NoCallSound, ItemEditKept
<1> QED
  BY <1>2, <1>3

(* What shutting an artifact makes of it.                                  *)
LEMMA ShutLaw ==
  ASSUME forge \in ForgeType, NEW n \in Ids, NEW as \in {"dup", "close", "orphan", "human"}
  PROVE  \E q \in ItemType :
           /\ Shut(n, as) = [forge EXCEPT !.items[n] = q]
           /\ q.state = "closed" /\ q.labelled = forge.items[n].labelled
           /\ q.as = forge.items[n].as \/ q.as = as
<1> DEFINE p == forge.items[n]
           how == IF p.state = "open" THEN as ELSE p.as
           q == [p EXCEPT !.state = "closed", !.as = how]
<1>1. p \in ItemType
  BY DEF ForgeType
<1>2. how \in {"none", "dup", "close", "orphan", "human"} /\ (how = p.as \/ how = as)
  BY <1>1 DEF ItemType
<1>3. Shut(n, as) = [forge EXCEPT !.items[n] = q]
  BY <1>1 DEF Shut, ForgeType, ItemType
<1> HIDE DEF how
<1>4. q \in ItemType /\ q.state = "closed" /\ q.labelled = p.labelled /\ q.as = how
  BY <1>1, <1>2 DEF ItemType
<1> HIDE DEF q
<1> QED
  BY <1>2, <1>3, <1>4

LEMMA CleanupKept ==
  ASSUME TypeOK, NEW v \in [Ids -> Nat], Consistent(v), NEW r \in Runs, Cleanup(r)
  PROVE  Invariant'
<1> DEFINE x == call[r]
<1>1. subject = "artifact" /\ x.pc = "cleanup" /\ x.pc \in About \ {"props"}
      /\ Exchange(r, Shut(x.id, "orphan"), NoCall)
  BY DEF Cleanup, At, About, Ended
<1>2. x.id \in Ids /\ forge.items[x.id].state # "absent"
  BY <1>1, OwnItem
<1> DEFINE n == x.id
<1>3. n \in Ids /\ n = call[r].id /\ Exchange(r, Shut(n, "orphan"), NoCall)
  BY <1>1, <1>2
<1>4. forge \in ForgeType /\ CallTyped(NoCall) /\ Sound(r, forge, v, NoCall)
  BY CallNow, NoCallSound
<1> HIDE DEF n
<1>5. PICK q \in ItemType :
        /\ Shut(n, "orphan") = [forge EXCEPT !.items[n] = q]
        /\ q.state = "closed" /\ q.labelled = forge.items[n].labelled
        /\ q.as = forge.items[n].as \/ q.as = "orphan"
  BY <1>3, <1>4, ShutLaw
<1> DEFINE after == [forge EXCEPT !.items[n] = q]
<1>6. Exchange(r, after, NoCall)
  BY <1>3, <1>5
<1>7. /\ q.state # "absent"
      /\ forge.items[n].labelled => q.labelled
      /\ q.as = "dup" => forge.items[n].as = "dup" \/ HasElder(forge, n)
  BY <1>5
<1> HIDE DEF after
<1>8. after = [forge EXCEPT !.items[n] = q]
  BY DEF after
<1> QED
  BY <1>1, <1>3, <1>4, <1>6, <1>7, <1>8, ItemEditKept

LEMMA GetArtifactKept ==
  ASSUME TypeOK, NEW v \in [Ids -> Nat], Consistent(v), NEW r \in Runs, GetArtifact(r)
  PROVE  Invariant'
<1> DEFINE x == call[r]
           item == forge.items[x.id]
           y == [x EXCEPT !.marker = item.marker]
           next == Checked(r, y, ConflictMarker(item))
<1>1. subject = "artifact" /\ x.pc = "get" /\ x.pc \in About
  BY DEF GetArtifact, On, At, About
<1>2. Read(r, next)
  BY DEF GetArtifact
<1>3. item \in ItemType
  BY <1>1, OwnItem
<1>4. item.marker \in Markers /\ ConflictMarker(item) \in BOOLEAN
  BY <1>3 DEF ItemType, ConflictMarker
<1>5. y \in CallType /\ ReadSound(r, forge, v, y) /\ y.marker = item.marker
  BY <1>1, <1>4, ReadLaw
<1> HIDE DEF y
<1>6. ConflictMarker(item) => y.marker # NoMarker
  BY <1>5 DEF ConflictMarker
<1>7. CallTyped(next) /\ Sound(r, forge, v, next)
  BY <1>4, <1>5, <1>6, CallNow, CheckedLaw
<1> HIDE DEF next
<1> QED
  BY <1>1, <1>2, <1>7, ReadKept

LEMMA GetStatesKept ==
  ASSUME TypeOK, NEW v \in [Ids -> Nat], Consistent(v), NEW r \in Runs, GetStates(r)
  PROVE  Invariant'
<1> DEFINE x == call[r]
           y == Go(x, "close")
<1>1. subject = "artifact" /\ x.pc = "states" /\ x.pc \in About /\ Read(r, y)
  BY DEF GetStates, At, About
<1>2. /\ y \in CallType /\ y.pc = "close" /\ y.op = x.op /\ y.id = x.id
      /\ y.todo = x.todo /\ y.rest = x.rest /\ y.made = x.made /\ y.unheard = x.unheard
  BY CallNow, GoLaw DEF Exchanges
<1> HIDE DEF y
<1>3. Sound(r, forge, v, x) /\ Clear(x) /\ x.id \in Ids
  BY <1>1, CallNow DEF CallTyped
<1>4. CallTyped(y)
  BY <1>2, <1>3 DEF CallTyped
<1>5. ArtifactCall(forge, y)
  <2>1. ArtifactCall(forge, x)
    BY <1>1, <1>3 DEF Sound
  <2> QED
    BY <1>1, <1>2, <2>1 DEF ArtifactCall
<1>6. Sound(r, forge, v, y)
  BY <1>1, <1>2, <1>3, <1>5 DEF Sound, MadeOnce, Clear
<1> QED
  BY <1>1, <1>4, <1>6, ReadKept

LEMMA PatchArtifactKept ==
  ASSUME TypeOK, NEW v \in [Ids -> Nat], Consistent(v), NEW r \in Runs, PatchArtifact(r)
  PROVE  Invariant'
<1> DEFINE x == call[r]
           p == forge.items[x.id]
           q == [p EXCEPT !.marker = Written(r, x)]
           after == [forge EXCEPT !.items[x.id].marker = Written(r, x)]
<1>1. subject = "artifact" /\ x.pc = "patch" /\ x.pc \in About
      /\ Exchange(r, after, Finished(x))
  BY DEF PatchArtifact, At, About
<1>2. x.id \in Ids /\ p \in ItemType /\ p.state # "absent" /\ PassSound(forge, x)
  BY <1>1, OwnItem
<1>3. q \in ItemType /\ q.state = p.state /\ q.labelled = p.labelled /\ q.as = p.as
  BY <1>2, CallNow DEF ItemType
<1>4. after = [forge EXCEPT !.items[x.id] = q]
  OBVIOUS
<1>5. CallTyped(Finished(x)) /\ Sound(r, forge, v, Finished(x))
  BY <1>1, <1>2, CallNow, FinishedLaw
<1> HIDE DEF after, q
<1> QED
  BY <1>1, <1>2, <1>3, <1>4, <1>5, ItemEditKept

LEMMA CloseArtifactKept ==
  ASSUME TypeOK, NEW v \in [Ids -> Nat], Consistent(v), NEW r \in Runs, CloseArtifact(r)
  PROVE  Invariant'
<1> DEFINE x == call[r]
<1>1. subject = "artifact" /\ x.pc = "close" /\ x.pc \in About
      /\ Exchange(r, Shut(x.id, x.op), Finished(x))
  BY DEF CloseArtifact, At, About
<1>2. /\ x.id \in Ids /\ forge.items[x.id].state # "absent" /\ PassSound(forge, x)
      /\ x.op = "dup" => HasElder(forge, x.id)
  BY <1>1, OwnItem
<1>3. x.op \in {"dup", "close", "orphan", "human"}
  BY <1>1, CallNow DEF Sound
<1>4. PICK q \in ItemType :
        /\ Shut(x.id, x.op) = [forge EXCEPT !.items[x.id] = q]
        /\ q.state = "closed" /\ q.labelled = forge.items[x.id].labelled
        /\ q.as = forge.items[x.id].as \/ q.as = x.op
  BY <1>2, <1>3, CallNow, ShutLaw
<1>5. CallTyped(Finished(x)) /\ Sound(r, forge, v, Finished(x))
  BY <1>1, <1>2, CallNow, FinishedLaw
<1> QED
  BY <1>1, <1>2, <1>4, <1>5, ItemEditKept

(* Branches. *)
LEMMA BranchLaw ==
  ASSUME subject = "branch", NEW r, NEW f, NEW v, NEW x \in CallType, Clear(x),
         NEW tip \in Heads \cup {0}, NEW y, y = [Go(x, "delete") EXCEPT !.tip = tip]
  PROVE  CallTyped(y) /\ Sound(r, f, v, y)
<1> DEFINE z == Go(x, "delete")
<1>1. z \in CallType /\ z.pc = "delete" /\ z.made = x.made /\ z.unheard = x.unheard
  BY GoLaw DEF Exchanges
<1> HIDE DEF z
<1>2. y = [z EXCEPT !.tip = tip]
  BY DEF z
<1>3. y \in CallType /\ y.pc = "delete" /\ y.made = x.made /\ y.unheard = x.unheard
  BY <1>1, <1>2 DEF CallType
<1> QED
  BY <1>3 DEF CallTyped, About, Sound, MadeOnce, Clear

LEMMA BranchKept ==
  ASSUME TypeOK, NEW v \in [Ids -> Nat], Consistent(v), NEW r \in Runs, Branch(r)
  PROVE  Invariant'
<1> DEFINE x == call[r]
<1>1. subject = "branch" /\ x.pc \in {"push", "delete", "resolve"}
  BY DEF Branch, PushBranch, GithubDeleteBranch, ResolveRef, AzureDeleteBranch, On, At
<1>2. CASE ResolveRef(r)
  <2> DEFINE y == [Go(x, "delete") EXCEPT !.tip = forge.tip]
  <2>1. Read(r, NoCall) \/ Read(r, y)
    BY <1>2 DEF ResolveRef, Ended
  <2>2. forge.tip \in Heads \cup {0} /\ Clear(x)
    BY <1>1, CallNow DEF ForgeType
  <2>3. CallTyped(y) /\ Sound(r, forge, v, y)
    BY <1>1, <2>2, CallNow, BranchLaw
  <2> HIDE DEF y
  <2> QED
    BY <1>1, <2>1, <2>3, NoCallSound, ReadKept
<1>3. ASSUME NEW tip \in Heads \cup {0}, Exchange(r, [forge EXCEPT !.tip = tip], NoCall)
      PROVE  Invariant'
  <2> DEFINE after == [forge EXCEPT !.tip = tip]
  <2>1. after \in ForgeType /\ after.pulls = forge.pulls /\ after.items = forge.items
    BY CallNow DEF ForgeType
  <2> HIDE DEF after
  <2>2. PullsInv(after, v) /\ ItemsInv(after) /\ Grows(forge, v, after, v)
    BY <2>1, CallNow DEF PullsInv, ItemsInv, HasElder, Grows
  <2>3. New(after) = {}
    BY <2>1 DEF New, Free
  <2>4. Exchange(r, after, NoCall)
    BY <1>3 DEF after
  <2> QED
    BY <1>1, <2>1, <2>2, <2>3, <2>4, NoCallSound, ExchangeKept DEF Gives
<1>4. CASE PushBranch(r)
  <2>1. x.head \in Heads \cup {0} /\ Exchange(r, [forge EXCEPT !.tip = x.head], NoCall)
    BY <1>4, CallNow DEF PushBranch, Ended
  <2> QED
    BY <1>3, <2>1
<1>5. CASE GithubDeleteBranch(r)
  <2>1. Exchange(r, [forge EXCEPT !.tip = 0], NoCall)
    BY <1>5 DEF GithubDeleteBranch, Ended
  <2> QED
    BY <1>3, <2>1
<1>6. CASE AzureDeleteBranch(r)
  <2>1. Exchange(r, [forge EXCEPT !.tip = 0], NoCall) \/ Exchange(r, forge, NoCall)
    BY <1>6 DEF AzureDeleteBranch, Ended
  <2>2. ASSUME Exchange(r, forge, NoCall) PROVE Invariant'
    BY <1>1, <2>2, NoCallSound, ReadKept DEF Read
  <2> QED
    BY <1>3, <2>1, <2>2
<1> QED
  BY <1>2, <1>4, <1>5, <1>6 DEF Branch

----------------------------------------------------------------------------
(***************************************************************************)
(* People, and the whole next-state relation.                              *)
(***************************************************************************)
LEMMA PeopleKept ==
  ASSUME TypeOK, NEW v \in [Ids -> Nat], Consistent(v), NEW after \in ForgeType,
         PullsInv(after, v), ItemsInv(after), Grows(forge, v, after, v),
         wanted' \in BOOLEAN, source' \in Heads, People(after)
  PROVE  Invariant'
<1>1. UNCHANGED <<host, subject, build, denied, call, mishaps>> /\ forge' = after
      /\ events' \in 0..MaxEvents[subject]
  BY BoundsAssumption DEF People, TypeOK
<1>2. TypeOK'
  BY <1>1 DEF TypeOK, ForgeType
<1>3. \A q \in Runs : call'[q] = call[q] \/ Sound(q, after, v, call'[q])
  BY <1>1
<1> QED
  BY <1>1, <1>2, <1>3, Steps

LEMMA SourceKept ==
  ASSUME TypeOK, NEW v \in [Ids -> Nat], Consistent(v), MoveSource \/ Settle
  PROVE  Invariant'
<1>1. wanted' \in BOOLEAN /\ source' \in Heads /\ People(forge)
  <2>1. CASE MoveSource
    <3>1. source' \in Heads
      BY <2>1, BoundsAssumption DEF MoveSource, TypeOK, Heads
    <3> QED
      BY <2>1, <3>1 DEF MoveSource
  <2>2. CASE Settle
    BY <2>2 DEF Settle, TypeOK
  <2> QED
    BY <2>1, <2>2
<1>2. forge \in ForgeType /\ PullsInv(forge, v) /\ ItemsInv(forge)
  BY DEF TypeOK, ForgeType, Consistent
<1> QED
  BY <1>1, <1>2, GrowsSame, PeopleKept

(* People close, merge and edit requests.                                  *)
LEMMA PeopleEditKept ==
  ASSUME TypeOK, NEW v \in [Ids -> Nat], Consistent(v), NEW n \in Ids,
         forge.pulls[n].state = "open",
         NEW q \in PullType, q.by = forge.pulls[n].by, q.state # "absent",
         q.desc \in {forge.pulls[n].desc, NoMarker}, q.prop = forge.pulls[n].prop,
         NEW after, after = [forge EXCEPT !.pulls[n] = q],
         wanted' \in BOOLEAN, source' \in Heads, People(after)
  PROVE  Invariant'
<1>1. forge \in ForgeType /\ PullsInv(forge, v) /\ ItemsInv(forge)
  BY DEF TypeOK, ForgeType, Consistent
<1>2. /\ after \in ForgeType /\ after.items = forge.items /\ after.pulls[n] = q
      /\ \A m \in Ids \ {n} : after.pulls[m] = forge.pulls[m]
  BY <1>1 DEF ForgeType
<1>3. /\ q.by = "oiax" => Of(q.desc, v[n]) /\ Of(q.prop, v[n])
      /\ q.by \in {"nobody", "colleague"} => q.desc = NoMarker /\ q.prop = NoMarker
  BY <1>1 DEF PullsInv, Of
<1>4. /\ after.pulls[n].state # "absent" /\ after.pulls[n].by = forge.pulls[n].by
      /\ after.pulls[n].by = "oiax" => Of(after.pulls[n].desc, v[n]) /\ Of(after.pulls[n].prop, v[n])
      /\ after.pulls[n].by \in {"nobody", "colleague"} =>
           after.pulls[n].desc = NoMarker /\ after.pulls[n].prop = NoMarker
  BY <1>2, <1>3
<1>5. PullsInv(after, v) /\ ItemsInv(after) /\ Grows(forge, v, after, v)
  BY <1>1, <1>2, <1>4, PullChanged
<1> QED
  BY <1>2, <1>5, PeopleKept

LEMMA HandsKept ==
  ASSUME TypeOK, NEW v \in [Ids -> Nat], Consistent(v), NEW n \in Ids,
         MergeRequest(n) \/ CloseByHand(n) \/ EditMarkerOut(n)
  PROVE  Invariant'
<1> DEFINE p == forge.pulls[n]
<1>0. forge \in ForgeType /\ PullsInv(forge, v) /\ ItemsInv(forge) /\ p \in PullType
      /\ wanted \in BOOLEAN /\ source \in Heads
  BY DEF TypeOK, ForgeType, Consistent
<1>1. ASSUME NEW state \in {"merged", "closed"}, p.state = "open",
             wanted' \in BOOLEAN, source' = source,
             People([forge EXCEPT !.pulls[n].state = state])
      PROVE  Invariant'
  <2> DEFINE q == [p EXCEPT !.state = state]
             after == [forge EXCEPT !.pulls[n].state = state]
  <2>1. /\ q \in PullType /\ q.by = p.by /\ q.state = state /\ q.desc = p.desc
        /\ q.prop = p.prop
    BY <1>0 DEF PullType
  <2>2. after = [forge EXCEPT !.pulls[n] = q]
    OBVIOUS
  <2>3. People(after)
    BY <1>1
  <2> HIDE DEF q, after
  <2> QED
    BY <1>0, <1>1, <2>1, <2>2, <2>3, PeopleEditKept
<1>2. CASE MergeRequest(n)
  BY <1>0, <1>1, <1>2 DEF MergeRequest
<1>3. CASE EditMarkerOut(n)
  <2> DEFINE q == [p EXCEPT !.desc = NoMarker]
             after == [forge EXCEPT !.pulls[n].desc = NoMarker]
  <2>1. NoMarker \in Markers
    BY DEF NoMarker, Markers
  <2>2. /\ q \in PullType /\ q.by = p.by /\ q.state = p.state /\ q.desc = NoMarker
        /\ q.prop = p.prop
    BY <1>0, <2>1 DEF PullType
  <2>3. after = [forge EXCEPT !.pulls[n] = q]
    OBVIOUS
  <2>4. People(after) /\ p.state = "open" /\ wanted' = wanted /\ source' = source
    BY <1>3 DEF EditMarkerOut
  <2> HIDE DEF q, after
  <2> QED
    BY <1>0, <2>2, <2>3, <2>4, PeopleEditKept
<1>4. CASE CloseByHand(n)
  <2>1. wanted' = wanted /\ source' = source
    BY <1>4 DEF CloseByHand
  <2>2. CASE p.state = "open" /\ People([forge EXCEPT !.pulls[n].state = "closed"])
    BY <1>0, <1>1, <2>1, <2>2
  <2>3. CASE forge.items[n].state = "open" /\ People(Shut(n, "human"))
    <3>1. subject = "artifact"
      BY <1>0, <2>3 DEF ItemsInv
    <3>2. PICK q \in ItemType :
            /\ Shut(n, "human") = [forge EXCEPT !.items[n] = q]
            /\ q.state = "closed" /\ q.labelled = forge.items[n].labelled
            /\ q.as = forge.items[n].as \/ q.as = "human"
      BY <1>0, ShutLaw
    <3> DEFINE after == [forge EXCEPT !.items[n] = q]
    <3>3. /\ after \in ForgeType /\ after.pulls = forge.pulls /\ after.items[n] = q
          /\ \A m \in Ids \ {n} : after.items[m] = forge.items[m]
      BY <1>0 DEF ForgeType
    <3>4. People(after)
      BY <2>3, <3>2
    <3> HIDE DEF after
    <3>5. PullsInv(after, v) /\ ItemsInv(after) /\ Grows(forge, v, after, v)
      BY <1>0, <3>1, <3>2, <3>3, ItemChanged
    <3> QED
      BY <1>0, <2>1, <3>3, <3>4, <3>5, PeopleKept
  <2> QED
    BY <1>4, <2>2, <2>3 DEF CloseByHand
<1> QED
  BY <1>2, <1>3, <1>4

LEMMA OpenByHandKept ==
  ASSUME TypeOK, NEW v \in [Ids -> Nat], Consistent(v), NEW by \in {"colleague", "fork"},
         OpenByHand(by)
  PROVE  Invariant'
<1> DEFINE n == Lowest(Free)
           desc == IF by = "fork" THEN [version |-> 1, head |-> source] ELSE NoMarker
           q == [NoPull EXCEPT !.by = by, !.state = "open", !.desc = desc]
           after == [forge EXCEPT !.pulls[n] = q]
<1>0. forge \in ForgeType /\ PullsInv(forge, v) /\ ItemsInv(forge)
      /\ wanted \in BOOLEAN /\ source \in Heads
  BY DEF TypeOK, ForgeType, Consistent
<1>1. Free \in SUBSET Ids /\ Free # {}
  BY DEF OpenByHand, Free
<1>2. n \in Free
  BY <1>1, LowestLaw
<1>3. People(after) /\ wanted' = wanted /\ source' = source
  BY DEF OpenByHand
<1>4. desc \in Markers /\ NoMarker \in Markers /\ (by # "fork" => desc = NoMarker)
  BY <1>0 DEF NoMarker, Markers
<1> HIDE DEF n, desc
<1>5. n \in Ids /\ forge.pulls[n].state = "absent" /\ forge.pulls[n].by # "oiax"
  BY <1>0, <1>1, <1>2 DEF Free, PullsInv
<1>6. q \in PullType /\ q.by = by /\ q.desc = desc /\ q.prop = NoMarker
  BY <1>4 DEF NoPull, PullType
<1> HIDE DEF q
<1>7. /\ after \in ForgeType /\ after.items = forge.items /\ after.pulls[n] = q
      /\ \A m \in Ids \ {n} : after.pulls[m] = forge.pulls[m]
  BY <1>0, <1>5, <1>6 DEF ForgeType
<1> HIDE DEF after
<1>8. PullsInv(after, v) /\ ItemsInv(after) /\ Grows(forge, v, after, v)
  <2>1. q.by # "oiax" /\ (q.by \in {"nobody", "colleague"} => q.desc = NoMarker)
    BY <1>4, <1>6
  <2> QED
    BY <1>0, <1>4, <1>5, <1>6, <1>7, <2>1, PullChanged
<1> QED
  BY <1>0, <1>3, <1>7, <1>8, PeopleKept

LEMMA RunKept ==
  ASSUME TypeOK, NEW v \in [Ids -> Nat], Consistent(v), NEW r \in Runs,
         Begin(r) \/ Step(r) \/ Crash(r)
  PROVE  Invariant'
<1>1. CASE AdoptDuplicate(r)
  BY <1>1, NoCallSound, ReadKept DEF AdoptDuplicate, At, Ended
<1>2. CASE GithubCreateRequest(r) \/ AzureCreateRequest(r)
  BY <1>2, PostKept DEF GithubCreateRequest, AzureCreateRequest, On, At
<1>3. CASE Request(r)
  BY <1>1, <1>2, <1>3, ListRequestsKept, AddLabelsKept, PutMarkerPropertyKept,
     GithubGetPullKept, AzureGetPullKept, GetPropertiesKept, UpdateRequestKept,
     CloseRequestKept
     DEF Request
<1>4. CASE Artifact(r)
  BY <1>4, GithubListArtifactsKept, AzureListArtifactsKept, GetWorkItemsKept,
     CreateArtifactKept, LabelArtifactKept, CleanupKept, GetArtifactKept, GetStatesKept,
     PatchArtifactKept, CloseArtifactKept
     DEF Artifact
<1> QED
  BY <1>3, <1>4, BeginKept, CrashKept, BranchKept DEF Step

LEMMA InitInvariant == Init => Invariant
<1> SUFFICES ASSUME Init PROVE Invariant
  OBVIOUS
<1> DEFINE v == [n \in Ids |-> 0]
<1>1. NoPull \in PullType /\ NoItem \in ItemType
  BY DEF NoPull, NoItem, PullType, ItemType, NoMarker, Markers
<1>2. 1 \in Heads /\ 0 \in 0..MaxMishaps /\ 0 \in 0..MaxEvents[subject]
  BY BoundsAssumption DEF Heads, Init
<1>3. forge \in ForgeType
  BY <1>1 DEF Init, ForgeType
<1>4. call \in [Runs -> CallType] /\ \A r \in Runs : call[r] = NoCall
  BY NoCallSound DEF Init, CallTyped
<1>5. \A r \in Runs : call[r].pc \in About => call[r].id \in Ids
  BY <1>4, NoCallSound DEF CallTyped
<1>6. TypeOK
  BY <1>2, <1>3, <1>4, <1>5 DEF Init, TypeOK, ForgeType
<1>7. PullsInv(forge, v) /\ ItemsInv(forge)
  BY DEF Init, PullsInv, ItemsInv, NoPull, NoItem
<1>8. Consistent(v)
  BY <1>4, <1>7, NoCallSound DEF Consistent
<1>9. v \in [Ids -> Nat]
  OBVIOUS
<1> QED
  BY <1>6, <1>8, <1>9 DEF Invariant

LEMMA NextInvariant == Invariant /\ [Next]_vars => Invariant'
<1> SUFFICES ASSUME Invariant, [Next]_vars PROVE Invariant'
  OBVIOUS
<1>1. PICK v \in [Ids -> Nat] : Consistent(v)
  BY DEF Invariant
<1>2. TypeOK
  BY DEF Invariant
<1>3. CASE UNCHANGED vars
  <2>1. TypeOK'
    BY <1>2, <1>3 DEF vars, TypeOK
  <2>2. UNCHANGED <<subject, build>> /\ forge' = forge /\ call' = call
    BY <1>3 DEF vars
  <2>3. PullsInv(forge, v) /\ ItemsInv(forge)
    BY <1>1 DEF Consistent
  <2> QED
    BY <1>1, <1>2, <2>1, <2>2, <2>3, GrowsSame, Steps
<1>4. CASE Next
  BY <1>1, <1>2, <1>4, RunKept, SourceKept, HandsKept, OpenByHandKept DEF Next
<1> QED
  BY <1>3, <1>4

(* The types of the forge and of the calls, and that an exchange about an  *)
(* object has its number.                                                  *)
THEOREM ProviderTypeCorrect == Spec => []TypeOK
<1>1. Invariant => TypeOK
  BY DEF Invariant
<1> QED
  BY <1>1, InitInvariant, NextInvariant, PTL DEF Spec

(* What a run relies on is so, whatever the others have done since it read. *)
THEOREM ProviderInvariant == Spec => []Invariant
BY InitInvariant, NextInvariant, PTL DEF Spec

(* A call that creates, creates once, unless the reply of the first        *)
(* creation never came.                                                    *)
THEOREM CallsCreateOnce == Spec => []CreatesOnce
<1>1. ASSUME Invariant PROVE CreatesOnce
  <2> SUFFICES ASSUME NEW r \in Runs, Cardinality(call[r].made) > 1, ~call[r].unheard
               PROVE  FALSE
    BY DEF CreatesOnce
  <2>1. MadeOnce(call[r])
    BY <1>1 DEF Invariant, Consistent, Sound
  <2>2. CASE call[r].made = {}
    BY <2>2, FS_EmptySet
  <2>3. CASE \E n \in Ids : call[r].made = {n}
    <3>1. Cardinality(call[r].made) = 1
      BY <2>3, FS_Singleton
    <3> QED
      BY <3>1
  <2> QED
    BY <2>1, <2>2, <2>3 DEF MadeOnce
<1> QED
  BY <1>1, ProviderInvariant, PTL

(* Consolidation leaves an artifact: the lowest labelled one is nobody's   *)
(* duplicate.                                                              *)
THEOREM OneArtifactIsKept == Spec => []ConsolidationKeepsOne
<1>1. ASSUME Invariant PROVE ConsolidationKeepsOne
  <2> SUFFICES ASSUME NEW d \in Ids, forge.items[d].as = "dup"
               PROVE  \E n \in Ids : forge.items[n].labelled /\ forge.items[n].as # "dup"
    BY DEF ConsolidationKeepsOne
  <2> DEFINE marked == {n \in Ids : forge.items[n].labelled}
             n == Lowest(marked)
  <2>1. ItemsInv(forge)
    BY <1>1 DEF Invariant, Consistent
  <2>2. marked # {}
    BY <2>1 DEF ItemsInv, HasElder
  <2>3. marked \in SUBSET Ids
    OBVIOUS
  <2>4. n \in marked /\ \A m \in marked : n <= m
    BY <2>2, <2>3, LowestLaw
  <2> HIDE DEF n
  <2>5. forge.items[n].as # "dup"
    <3> SUFFICES ASSUME forge.items[n].as = "dup" PROVE FALSE
      OBVIOUS
    <3>1. PICK m \in Ids : m < n /\ forge.items[m].labelled
      BY <2>1, <2>4 DEF ItemsInv, HasElder
    <3>2. m \in Int /\ n \in Int /\ n <= m
      BY <2>4, <3>1 DEF Ids
    <3> QED
      BY <3>1, <3>2
  <2> QED
    BY <2>4, <2>5
<1> QED
  BY <1>1, ProviderInvariant, PTL

----------------------------------------------------------------------------
(***************************************************************************)
(* What a run does to the requests of others.                              *)
(***************************************************************************)
Spared(r, after) ==
  \A n \in Ids :
    /\ forge.pulls[n].state # "absent"
    /\ <<after.pulls[n].desc, after.pulls[n].state>>
         # <<forge.pulls[n].desc, forge.pulls[n].state>>
    => forge.pulls[n].by = "oiax" /\ forge.pulls[n].desc.version <= build[r]

(* An exchange about requests that leaves descriptions and states alone,   *)
(* except of one request, if that is oiax's own and of a schema the build  *)
(* knows, or new.                                                          *)
LEMMA SparedLaw ==
  ASSUME NEW r, NEW n, NEW q, forge \in ForgeType, n \in Ids,
         \/ forge.pulls[n].state = "absent"
         \/ q.desc = forge.pulls[n].desc /\ q.state = forge.pulls[n].state
         \/ forge.pulls[n].by = "oiax" /\ forge.pulls[n].desc.version <= build[r]
  PROVE  Spared(r, [forge EXCEPT !.pulls[n] = q])
<1> DEFINE after == [forge EXCEPT !.pulls[n] = q]
<1>1. after.pulls = [forge.pulls EXCEPT ![n] = q]
  BY DEF ForgeType
<1>2. after.pulls[n] = q /\ \A m \in Ids \ {n} : after.pulls[m] = forge.pulls[m]
  BY <1>1 DEF ForgeType
<1> HIDE DEF after
<1>3. Spared(r, after)
  BY <1>2 DEF Spared
<1> QED
  BY <1>3 DEF after

(* A call that rewrites or closes is sure of the version of its request.   *)
LEMMA OldEnough ==
  ASSUME TypeOK, NEW v \in [Ids -> Nat], Consistent(v), NEW r \in Runs,
         subject = "request", call[r].pc \in {"patch", "close"}
  PROVE  /\ call[r].id \in Ids /\ forge.pulls[call[r].id].by = "oiax"
         /\ forge.pulls[call[r].id].desc.version <= build[r]
<1>1. call[r].pc \in About
  BY DEF About
<1>2. /\ call[r].id \in Ids /\ forge.pulls[call[r].id].by = "oiax"
      /\ Of(forge.pulls[call[r].id].desc, v[call[r].id])
  BY <1>1, OwnRequest
<1>3. v[call[r].id] <= build[r] /\ build[r] \in Nat \ {0}
  BY CallNow DEF Sound, RequestCall
<1> QED
  BY <1>2, <1>3 DEF Of, NoMarker

LEMMA RequestSpares ==
  ASSUME TypeOK, NEW v \in [Ids -> Nat], Consistent(v), NEW r \in Runs, Request(r)
  PROVE  \E after, next : Exchange(r, after, next) /\ Spared(r, after)
<1> DEFINE x == call[r]
           p == forge.pulls[x.id]
<1>0. forge \in ForgeType /\ subject = "request"
      /\ (x.pc \in About => x.id \in Ids /\ p \in PullType)
  <2>1. subject = "request"
    BY DEF Request, ListRequests, GithubCreateRequest, AzureCreateRequest, AdoptDuplicate,
           AddLabels, PutMarkerProperty, GithubGetPull, AzureGetPull, GetProperties,
           GithubUpdateRequest, AzureUpdateRequest, GithubCloseRequest, AzureCloseRequest,
           On, At
  <2> QED
    BY <2>1, CallNow, OwnRequest
<1>1. Spared(r, forge)
  BY DEF Spared
<1>2. CASE \E next : Read(r, next)
  BY <1>1, <1>2 DEF Read
<1>3. ASSUME NEW n \in Free, NEW q, NEW next, Exchange(r, [forge EXCEPT !.pulls[n] = q], next)
      PROVE  \E after, y : Exchange(r, after, y) /\ Spared(r, after)
  <2>1. n \in Ids /\ forge.pulls[n].state = "absent"
    BY DEF Free
  <2>2. Spared(r, [forge EXCEPT !.pulls[n] = q])
    BY <1>0, <2>1, SparedLaw
  <2> QED
    BY <1>3, <2>2
<1>4. CASE \E n \in Free : \E q, next : Exchange(r, [forge EXCEPT !.pulls[n] = q], next)
  BY <1>3, <1>4
<1>5. ASSUME x.pc \in About, NEW q, NEW after, NEW next,
             after = [forge EXCEPT !.pulls[x.id] = q], Exchange(r, after, next),
             \/ q.desc = p.desc /\ q.state = p.state
             \/ x.pc \in {"patch", "close"}
      PROVE  \E g, y : Exchange(r, g, y) /\ Spared(r, g)
  <2>1. \/ q.desc = p.desc /\ q.state = p.state
        \/ p.by = "oiax" /\ p.desc.version <= build[r]
    BY <1>0, <1>5, OldEnough
  <2>2. Spared(r, [forge EXCEPT !.pulls[x.id] = q])
    BY <1>0, <1>5, <2>1, SparedLaw
  <2> QED
    BY <1>5, <2>2
<1>6. CASE AddLabels(r) /\ ~denied
  <2> DEFINE q == [p EXCEPT !.labelled = TRUE]
             after == [forge EXCEPT !.pulls[x.id].labelled = TRUE]
  <2>1. x.pc \in About /\ Exchange(r, after, NoCall)
    BY <1>6 DEF AddLabels, On, At, Ended, About
  <2>2. q.desc = p.desc /\ q.state = p.state
    BY <1>0, <2>1 DEF PullType
  <2>3. after = [forge EXCEPT !.pulls[x.id] = q]
    OBVIOUS
  <2> HIDE DEF q, after
  <2> QED
    BY <1>5, <2>1, <2>2, <2>3
<1>7. CASE PutMarkerProperty(r)
  <2> DEFINE q == [p EXCEPT !.prop = x.marker]
             after == [forge EXCEPT !.pulls[x.id].prop = x.marker]
  <2>1. x.pc \in About /\ Exchange(r, after, NoCall)
    BY <1>7 DEF PutMarkerProperty, On, At, Ended, About
  <2>2. q.desc = p.desc /\ q.state = p.state
    BY <1>0, <2>1 DEF PullType
  <2>3. after = [forge EXCEPT !.pulls[x.id] = q]
    OBVIOUS
  <2> HIDE DEF q, after
  <2> QED
    BY <1>5, <2>1, <2>2, <2>3
<1>8. CASE GithubUpdateRequest(r) \/ AzureUpdateRequest(r)
  <2> DEFINE q == [p EXCEPT !.desc = Rewritten(x)]
  <2>1. PICK next : Exchange(r, Described(x), next)
    BY <1>8 DEF GithubUpdateRequest, AzureUpdateRequest
  <2>2. x.pc = "patch" /\ x.pc \in About
    BY <1>8 DEF GithubUpdateRequest, AzureUpdateRequest, On, At, About
  <2>3. Described(x) = [forge EXCEPT !.pulls[x.id] = q]
    BY DEF Described
  <2> HIDE DEF q
  <2> QED
    BY <1>5, <2>1, <2>2, <2>3
<1>9. CASE GithubCloseRequest(r) \/ AzureCloseRequest(r)
  <2> DEFINE q == [p EXCEPT !.state = IF @ = "open" THEN "closed" ELSE @]
             after == [forge EXCEPT !.pulls[x.id].state = IF @ = "open" THEN "closed" ELSE @]
  <2>1. x.pc = "close" /\ x.pc \in About /\ Exchange(r, after, NoCall)
    BY <1>9 DEF GithubCloseRequest, AzureCloseRequest, Closing, Ended, On, At, About
  <2>2. after = [forge EXCEPT !.pulls[x.id] = q]
    BY <1>0, <2>1 DEF PullType, ForgeType
  <2> HIDE DEF q, after
  <2> QED
    BY <1>5, <2>1, <2>2
<1>10. Request(r) =>
         \/ \E next : Read(r, next)
         \/ \E n \in Free : \E q, next : Exchange(r, [forge EXCEPT !.pulls[n] = q], next)
         \/ AddLabels(r) /\ ~denied
         \/ PutMarkerProperty(r)
         \/ GithubUpdateRequest(r) \/ AzureUpdateRequest(r)
         \/ GithubCloseRequest(r) \/ AzureCloseRequest(r)
  <2>1. ASSUME NEW b, Post(r, b)
        PROVE  \/ \E next : Read(r, next)
               \/ \E n \in Free : \E q, next : Exchange(r, [forge EXCEPT !.pulls[n] = q], next)
    BY <2>1 DEF Post
  <2> QED
    BY <2>1 DEF Request, ListRequests, GithubCreateRequest, AzureCreateRequest, AdoptDuplicate,
           AddLabels, GithubGetPull, AzureGetPull, GetProperties
<1> QED
  BY <1>2, <1>4, <1>6, <1>7, <1>8, <1>9, <1>10

(* What is in the way of an artifact's discovery, and who sees to it.      *)
Loose(f, n) == f.items[n].state = "open" /\ ~f.items[n].labelled
Marks(y, n) == y.id = n /\ y.pc \in {"mark", "cleanup"}

(* The shape of an exchange about artifacts: one artifact changes, the one *)
(* the run marks if it marks any, and when the exchange is answered the    *)
(* run leaves none behind without a label.                                 *)
Tidy(r, after, next) ==
  /\ Exchange(r, after, next) /\ after.pulls = forge.pulls
  /\ \E k \in Ids : \A m \in Ids \ {k} : after.items[m] = forge.items[m] /\ ~Marks(call[r], m)
  /\ \A m \in Ids : Loose(after, m) => Marks(next, m) \/ (Loose(forge, m) /\ ~Marks(call[r], m))

LEMMA TidyRead ==
  ASSUME NEW r, call[r].pc \notin {"mark", "cleanup"}, NEW next, Read(r, next)
  PROVE  Tidy(r, forge, next)
<1>1. \A m : ~Marks(call[r], m)
  BY DEF Marks
<1>2. 1 \in Ids
  BY BoundsAssumption DEF Ids
<1> QED
  BY <1>1, <1>2 DEF Tidy, Read

LEMMA TidyEdit ==
  ASSUME forge \in ForgeType, NEW r, NEW k \in Ids, NEW q, NEW next,
         Exchange(r, [forge EXCEPT !.items[k] = q], next),
         call[r].pc \in {"mark", "cleanup"} => call[r].id = k,
         q.state = "open" /\ ~q.labelled =>
           Marks(next, k) \/ (Loose(forge, k) /\ ~Marks(call[r], k))
  PROVE  Tidy(r, [forge EXCEPT !.items[k] = q], next)
<1> DEFINE after == [forge EXCEPT !.items[k] = q]
<1>1. after.pulls = forge.pulls /\ after.items = [forge.items EXCEPT ![k] = q]
  BY DEF ForgeType
<1>2. Exchange(r, after, next)
  OBVIOUS
<1>3. after.items[k] = q /\ \A m \in Ids \ {k} : after.items[m] = forge.items[m]
  BY <1>1 DEF ForgeType
<1> HIDE DEF after
<1>4. \A m \in Ids \ {k} : ~Marks(call[r], m)
  BY DEF Marks
<1>5. ASSUME NEW m \in Ids, Loose(after, m)
      PROVE  Marks(next, m) \/ (Loose(forge, m) /\ ~Marks(call[r], m))
  BY <1>3, <1>4, <1>5 DEF Loose
<1>6. Tidy(r, after, next)
  BY <1>1, <1>2, <1>3, <1>4, <1>5 DEF Tidy
<1> QED
  BY <1>6 DEF after

LEMMA ArtifactTidy ==
  ASSUME TypeOK, NEW v \in [Ids -> Nat], Consistent(v), NEW r \in Runs, Artifact(r)
  PROVE  subject = "artifact" /\ \E after, next : Tidy(r, after, next)
<1> DEFINE x == call[r]
           p == forge.items[x.id]
<1>1. subject = "artifact"
  BY DEF Artifact, GithubListArtifacts, AzureListArtifacts, GetWorkItems, GithubCreateArtifact,
         AzureCreateArtifact, LabelArtifact, Cleanup, GetArtifact, GetStates, PatchArtifact,
         CloseArtifact, On, At
<1> SUFFICES \E after, next : Tidy(r, after, next)
  BY <1>1
<1>2. forge \in ForgeType /\ x \in CallType
      /\ (x.pc \in About => x.id \in Ids /\ p \in ItemType)
  BY <1>1, CallNow, OwnItem
<1>3. CASE x.pc \notin {"mark", "cleanup"} /\ \E next : Read(r, next)
  BY <1>3, TidyRead
<1>4. CASE AzureCreateArtifact(r)
  <2>1. PICK n \in Free : Exchange(r, [forge EXCEPT !.items[n] = NewItem(r, TRUE)], Ended(x))
    BY <1>4 DEF AzureCreateArtifact
  <2>2. x.pc = "post" /\ n \in Ids /\ NewItem(r, TRUE).labelled
    BY <1>4 DEF AzureCreateArtifact, On, At, Free, NewItem, NoItem
  <2> QED
    BY <1>2, <2>1, <2>2, TidyEdit
<1>5. CASE GithubCreateArtifact(r)
  <2> DEFINE y(n) == [Go(x, "mark") EXCEPT !.id = n]
  <2>1. PICK n \in Free : Exchange(r, [forge EXCEPT !.items[n] = NewItem(r, FALSE)], y(n))
    BY <1>5 DEF GithubCreateArtifact
  <2>2. x.pc = "post" /\ n \in Ids
    BY <1>5 DEF GithubCreateArtifact, On, At, Free
  <2>3. Marks(y(n), n)
    <3> DEFINE z == Go(x, "mark")
    <3>1. z \in CallType /\ z.pc = "mark"
      BY <1>2, GoLaw DEF Exchanges
    <3> HIDE DEF z
    <3>2. [z EXCEPT !.id = n].id = n /\ [z EXCEPT !.id = n].pc = "mark"
      BY <3>1 DEF CallType
    <3> QED
      BY <3>2 DEF Marks, z
  <2> HIDE DEF y
  <2> QED
    BY <1>2, <2>1, <2>2, <2>3, TidyEdit
<1>6. CASE LabelArtifact(r) /\ denied
  <2>1. x.pc = "mark" /\ Read(r, Failed(r, x)) /\ x.pc \in About
    BY <1>6 DEF LabelArtifact, At, About
  <2>2. Failed(r, x) = Go(x, "cleanup")
    BY <1>1, <2>1 DEF Failed
  <2>3. Go(x, "cleanup").id = x.id /\ Go(x, "cleanup").pc = "cleanup"
    BY <1>2, GoLaw DEF Exchanges
  <2>4. Marks(Failed(r, x), x.id) /\ \A m \in Ids \ {x.id} : ~Marks(x, m)
    BY <2>2, <2>3 DEF Marks
  <2>5. Tidy(r, forge, Failed(r, x))
    BY <1>2, <2>1, <2>4 DEF Tidy, Read
  <2> QED
    BY <2>5
<1>7. CASE LabelArtifact(r) /\ ~denied
  <2> DEFINE q == [p EXCEPT !.labelled = TRUE]
             after == [forge EXCEPT !.items[x.id].labelled = TRUE]
  <2>1. x.pc \in About /\ Exchange(r, after, Ended(x))
    BY <1>7 DEF LabelArtifact, At, About
  <2>2. q.labelled
    BY <1>2, <2>1 DEF ItemType
  <2>3. after = [forge EXCEPT !.items[x.id] = q]
    OBVIOUS
  <2> HIDE DEF q, after
  <2> QED
    BY <1>2, <2>1, <2>2, <2>3, TidyEdit
<1>8. ASSUME NEW as, as \in {"dup", "close", "orphan", "human"}, NEW next, x.pc \in About,
             Exchange(r, Shut(x.id, as), next)
      PROVE  \E after, y : Tidy(r, after, y)
  <2> DEFINE n == x.id
  <2>0. n \in Ids /\ forge \in ForgeType
    BY <1>2, <1>8
  <2> HIDE DEF n
  <2>1. PICK q \in ItemType :
          /\ Shut(n, as) = [forge EXCEPT !.items[n] = q]
          /\ q.state = "closed" /\ q.labelled = forge.items[n].labelled
          /\ q.as = forge.items[n].as \/ q.as = as
    BY <1>8, <2>0, ShutLaw
  <2>2. Exchange(r, [forge EXCEPT !.items[n] = q], next)
    BY <1>8, <2>1 DEF n
  <2>3. Tidy(r, [forge EXCEPT !.items[n] = q], next)
    BY <1>2, <2>0, <2>1, <2>2, TidyEdit DEF n
  <2> QED
    BY <2>3
<1>9. CASE Cleanup(r)
  BY <1>8, <1>9 DEF Cleanup, At, About
<1>10. CASE CloseArtifact(r)
  <2>1. x.pc = "close" /\ x.pc \in About /\ Exchange(r, Shut(x.id, x.op), Finished(x))
    BY <1>10 DEF CloseArtifact, At, About
  <2>2. x.op \in {"close", "dup"}
    BY <2>1, CallNow DEF Sound
  <2> QED
    BY <1>8, <2>1, <2>2
<1>11. CASE PatchArtifact(r)
  <2> DEFINE q == [p EXCEPT !.marker = Written(r, x)]
             after == [forge EXCEPT !.items[x.id].marker = Written(r, x)]
  <2>1. x.pc = "patch" /\ x.pc \in About /\ Exchange(r, after, Finished(x))
    BY <1>11 DEF PatchArtifact, At, About
  <2>2. q.labelled = p.labelled /\ q.state = p.state
    BY <1>2, <2>1 DEF ItemType
  <2>3. after = [forge EXCEPT !.items[x.id] = q]
    OBVIOUS
  <2> HIDE DEF q, after
  <2>4. ~Marks(x, x.id)
    BY <2>1 DEF Marks
  <2> QED
    BY <1>2, <2>1, <2>2, <2>3, <2>4, TidyEdit DEF Loose
<1>12. CASE GithubListArtifacts(r) \/ AzureListArtifacts(r) \/ GetWorkItems(r)
            \/ GetArtifact(r) \/ GetStates(r)
  <2>1. x.pc \notin {"mark", "cleanup"}
    BY <1>12 DEF GithubListArtifacts, AzureListArtifacts, GetWorkItems, GetArtifact, GetStates,
                 On, At
  <2>2. \E next : Read(r, next)
    BY <1>12 DEF GithubListArtifacts, AzureListArtifacts, GetWorkItems, GetArtifact, GetStates
  <2> QED
    BY <1>3, <2>1, <2>2
<1> QED
  BY <1>4, <1>5, <1>6, <1>7, <1>9, <1>10, <1>11, <1>12 DEF Artifact

(* Branches are no requests.                                               *)
LEMMA BranchSpares ==
  ASSUME TypeOK, NEW r \in Runs, Branch(r)
  PROVE  \E after, next : Exchange(r, after, next) /\ Spared(r, after)
<1>1. \/ \E next : Exchange(r, forge, next)
      \/ \E tip, next : Exchange(r, [forge EXCEPT !.tip = tip], next)
  BY DEF Branch, PushBranch, GithubDeleteBranch, ResolveRef, AzureDeleteBranch, Read
<1>2. Spared(r, forge)
  BY DEF Spared
<1>3. ASSUME NEW tip PROVE Spared(r, [forge EXCEPT !.tip = tip])
  <2>1. [forge EXCEPT !.tip = tip].pulls = forge.pulls
    BY DEF TypeOK
  <2> QED
    BY <2>1 DEF Spared
<1> QED
  BY <1>1, <1>2, <1>3

(* Whatever was read when, a run rewrites and closes requests of oiax      *)
(* alone, and none of a newer schema than its build understands.           *)
THEOREM ForeignIsSpared == Spec => ForeignSpared
<1> DEFINE Spares ==
      \A r \in Runs, n \in Ids :
        call'[r] # call[r] /\ forge.pulls[n].state # "absent"
          /\ <<forge'.pulls[n].desc, forge'.pulls[n].state>>
               # <<forge.pulls[n].desc, forge.pulls[n].state>>
        => forge.pulls[n].by = "oiax" /\ forge.pulls[n].desc.version <= build[r]
<1>1. ASSUME Invariant, [Next]_vars PROVE [Spares]_vars
  <2>0. TypeOK
    BY <1>1 DEF Invariant
  <2>1. PICK v \in [Ids -> Nat] : Consistent(v)
    BY <1>1 DEF Invariant
  <2>2. ASSUME NEW r \in Runs, NEW y, call' = [call EXCEPT ![r] = y],
               forge' = forge \/ Spared(r, forge')
        PROVE  Spares
    <3>1. \A q \in Runs : call'[q] # call[q] => q = r
      BY <2>0, <2>2 DEF TypeOK
    <3> QED
      BY <2>2, <3>1 DEF Spared
  <2>3. ASSUME NEW r \in Runs, Begin(r) \/ Crash(r) PROVE Spares
    BY <2>2, <2>3 DEF Begin, Crash, Become
  <2>4. ASSUME NEW r \in Runs, Step(r) PROVE Spares
    <3>1. PICK after, next : Exchange(r, after, next) /\ Spared(r, after)
      <4>1. CASE Request(r)
        BY <2>0, <2>1, <4>1, RequestSpares
      <4>2. CASE Artifact(r)
        BY <2>0, <2>1, <4>2, ArtifactTidy DEF Tidy, Spared
      <4>3. CASE Branch(r)
        BY <2>0, <4>3, BranchSpares
      <4> QED
        BY <2>4, <4>1, <4>2, <4>3 DEF Step
    <3>2. PICK y : call' = [call EXCEPT ![r] = y] /\ forge' \in {after, forge}
      BY <3>1, ExchangeLaw
    <3>3. forge' = forge \/ Spared(r, forge')
      BY <3>1, <3>2 DEF Spared
    <3> QED
      BY <2>2, <3>2, <3>3
  <2>5. CASE call' = call
    BY <2>5
  <2> QED
    BY <1>1, <2>3, <2>4, <2>5
       DEF Next, MoveSource, Settle, MergeRequest, CloseByHand, EditMarkerOut, OpenByHand,
           People, vars
<1>2. Spec => [][Spares]_vars
  BY <1>1, ProviderInvariant, PTL DEF Spec
<1> QED
  BY <1>2 DEF ForeignSpared

----------------------------------------------------------------------------
(***************************************************************************)
(* Artifacts that discovery cannot find and no run works on.               *)
(***************************************************************************)
Orphans == {n \in Ids : Loose(forge, n) /\ ~Working(n)}

LEMMA IdsFinite ==
  ASSUME NEW S \in SUBSET Ids
  PROVE  IsFiniteSet(S) /\ Cardinality(S) \in Nat
<1>1. IsFiniteSet(Ids)
  BY BoundsAssumption, FS_Interval DEF Ids
<1>2. IsFiniteSet(S)
  BY <1>1, FS_Subset
<1> QED
  BY <1>2, FS_CardinalityType

(* What a run makes of the numbers of a call concerns its discovery no more. *)
LEMMA MadeMarks ==
  ASSUME NEW y, CallTyped(y), NEW after, NEW n
  PROVE  Marks(Made(y, after), n) <=> Marks(y, n)
<1>1. y \in CallType
  BY DEF CallTyped
<1>2. [y EXCEPT !.made = @ \cup New(after)].pc = y.pc
      /\ [y EXCEPT !.made = @ \cup New(after)].id = y.id
  BY <1>1 DEF CallType
<1> QED
  BY <1>2 DEF Marks, Made

(* A step of one run, as far as orphans go: nothing changes but the        *)
(* artifact it marks or edits.                                             *)
LEMMA OneOrphan ==
  ASSUME TypeOK, NEW r \in Runs, NEW y, call' = [call EXCEPT ![r] = y], NEW k,
         \A m \in Ids \ {k} : /\ Loose(forge', m) => Loose(forge, m)
                              /\ ~Marks(call[r], m)
  PROVE  Orphans' \subseteq Orphans \cup {k}
<1> SUFFICES ASSUME NEW m \in Ids \ {k}, Loose(forge', m), ~Working(m)' PROVE m \in Orphans
  BY DEF Orphans, Loose
<1>1. ASSUME NEW q \in Runs, Marks(call[q], m) PROVE FALSE
  <2>1. q # r
    BY <1>1
  <2>2. call'[q] = call[q]
    BY <2>1 DEF TypeOK
  <2> QED
    BY <1>1, <2>2 DEF Working, Marks
<1> QED
  BY <1>1 DEF Orphans, Working, Marks

LEMMA NoOrphan ==
  ASSUME TypeOK, NEW r \in Runs, NEW y, call' = [call EXCEPT ![r] = y],
         \A m \in Ids : Loose(forge', m) => Marks(y, m) \/ (Loose(forge, m) /\ ~Marks(call[r], m))
  PROVE  Orphans' \subseteq Orphans
<1> SUFFICES ASSUME NEW m \in Ids, Loose(forge', m), ~Working(m)' PROVE m \in Orphans
  BY DEF Orphans, Loose
<1>1. ~Marks(y, m)
  BY DEF Working, Marks, TypeOK
<1>2. Loose(forge, m) /\ ~Marks(call[r], m)
  BY <1>1
<1>3. ASSUME NEW q \in Runs, Marks(call[q], m) PROVE FALSE
  <2>1. q # r
    BY <1>2, <1>3
  <2>2. call'[q] = call[q]
    BY <2>1 DEF TypeOK
  <2> QED
    BY <1>3, <2>2 DEF Working, Marks
<1> QED
  BY <1>2, <1>3 DEF Orphans, Working, Marks

(* A failure leaves one artifact behind at most, and nothing else does.    *)
Accounted ==
  \/ Orphans' \subseteq Orphans /\ mishaps' \in {mishaps, mishaps + 1}
  \/ mishaps' = mishaps + 1 /\ \E k : Orphans' \subseteq Orphans \cup {k}

LEMMA RunAccounted ==
  ASSUME TypeOK, NEW v \in [Ids -> Nat], Consistent(v), NEW r \in Runs, subject = "artifact",
         Begin(r) \/ Step(r) \/ Crash(r)
  PROVE  Accounted
<1> DEFINE x == call[r]
<1>1. CASE Begin(r)
  <2>1. PICK y : call' = [call EXCEPT ![r] = y] /\ forge' = forge /\ mishaps' = mishaps
                 /\ x.pc = "idle"
    BY <1>1 DEF Begin, Become
  <2>2. \A m : ~Marks(x, m)
    BY <2>1 DEF Marks
  <2>3. Orphans' \subseteq Orphans
    BY <2>1, <2>2, NoOrphan
  <2> QED
    BY <2>1, <2>3 DEF Accounted
<1>2. CASE Crash(r)
  <2>1. call' = [call EXCEPT ![r] = NoCall] /\ forge' = forge /\ mishaps' = mishaps + 1
    BY <1>2 DEF Crash, Become, Mishap
  <2>2. \A m \in Ids \ {x.id} : ~Marks(x, m)
    BY DEF Marks
  <2>3. Orphans' \subseteq Orphans \cup {x.id}
    BY <2>1, <2>2, OneOrphan
  <2> QED
    BY <2>1, <2>3 DEF Accounted
<1>3. CASE Artifact(r)
  <2>1. PICK after, next : Tidy(r, after, next)
    BY <1>3, ArtifactTidy
  <2>2. PICK k \in Ids :
          \A m \in Ids \ {k} : after.items[m] = forge.items[m] /\ ~Marks(x, m)
    BY <2>1 DEF Tidy
  <2>3. ASSUME NEW y, call' = [call EXCEPT ![r] = y], forge' \in {after, forge},
               mishaps' = mishaps + 1
        PROVE  Accounted
    <3>1. \A m \in Ids \ {k} : (Loose(forge', m) => Loose(forge, m)) /\ ~Marks(x, m)
      BY <2>2, <2>3 DEF Loose
    <3>2. Orphans' \subseteq Orphans \cup {k}
      BY <2>3, <3>1, OneOrphan
    <3> QED
      BY <2>3, <3>2 DEF Accounted
  <2>4. CASE call' = [call EXCEPT ![r] = Made(next, after)] /\ forge' = after
             /\ mishaps' = mishaps
    <3>1. \A m : Marks(Made(next, after), m) <=> Marks(next, m)
      BY DEF Marks, Made
    <3>2. Orphans' \subseteq Orphans
      BY <2>1, <2>4, <3>1, NoOrphan DEF Tidy
    <3> QED
      BY <2>4, <3>2 DEF Accounted
  <2>5. \/ \E y : /\ call' = [call EXCEPT ![r] = y] /\ forge' \in {after, forge}
                  /\ mishaps' = mishaps + 1
        \/ call' = [call EXCEPT ![r] = Made(next, after)] /\ forge' = after
           /\ mishaps' = mishaps
    BY <2>1, ExchangeLaw DEF Tidy, Outcome, Mishap
  <2> QED
    BY <2>3, <2>4, <2>5
<1>4. ~Request(r) /\ ~Branch(r)
  BY DEF Request, ListRequests, GithubCreateRequest, AzureCreateRequest, AdoptDuplicate,
         AddLabels, PutMarkerProperty, GithubGetPull, AzureGetPull, GetProperties,
         GithubUpdateRequest, AzureUpdateRequest, GithubCloseRequest, AzureCloseRequest,
         Branch, PushBranch, GithubDeleteBranch, ResolveRef, AzureDeleteBranch, On, At
<1> QED
  BY <1>1, <1>2, <1>3, <1>4 DEF Step

(* People open no artifacts, and close some.                               *)
LEMMA PeopleAccounted ==
  ASSUME TypeOK,
         \/ MoveSource \/ Settle
         \/ \E n \in Ids : MergeRequest(n) \/ CloseByHand(n) \/ EditMarkerOut(n)
         \/ \E by \in {"colleague", "fork"} : OpenByHand(by)
  PROVE  Accounted
<1>1. call' = call /\ mishaps' = mishaps
  BY DEF MoveSource, Settle, MergeRequest, CloseByHand, EditMarkerOut, OpenByHand, People
<1>2. ASSUME \A m \in Ids : Loose(forge', m) => Loose(forge, m) PROVE Accounted
  <2>1. Orphans' \subseteq Orphans
    BY <1>1, <1>2 DEF Orphans, Loose, Working
  <2> QED
    BY <1>1, <2>1 DEF Accounted
<1>3. CASE forge'.items = forge.items
  BY <1>2, <1>3 DEF Loose
<1>4. CASE \E n \in Ids : forge' = Shut(n, "human")
  <2>1. PICK n \in Ids : forge' = Shut(n, "human")
    BY <1>4
  <2>2. forge \in ForgeType
    BY DEF TypeOK, ForgeType
  <2>3. PICK q \in ItemType :
          /\ Shut(n, "human") = [forge EXCEPT !.items[n] = q]
          /\ q.state = "closed" /\ q.labelled = forge.items[n].labelled
          /\ q.as = forge.items[n].as \/ q.as = "human"
    BY <2>2, ShutLaw
  <2>4. forge'.items[n] = q /\ \A m \in Ids \ {n} : forge'.items[m] = forge.items[m]
    BY <2>1, <2>2, <2>3 DEF ForgeType
  <2>5. \A m \in Ids : Loose(forge', m) => Loose(forge, m)
    BY <2>3, <2>4 DEF Loose
  <2> QED
    BY <1>2, <2>5
<1>5. ASSUME NEW g, g.items = forge.items, People(g) PROVE forge'.items = forge.items
  BY <1>5 DEF People
<1>6. ASSUME NEW pulls PROVE [forge EXCEPT !.pulls = pulls].items = forge.items
  BY DEF TypeOK
<1>7. CASE MoveSource \/ Settle
  BY <1>3, <1>7 DEF MoveSource, Settle, People
<1>8. CASE \E n \in Ids : MergeRequest(n) \/ EditMarkerOut(n)
  <2>1. \E pulls : forge' = [forge EXCEPT !.pulls = pulls]
    BY <1>8 DEF MergeRequest, EditMarkerOut, People
  <2> QED
    BY <1>3, <1>6, <2>1
<1>9. CASE \E n \in Ids : CloseByHand(n)
  <2>1. \/ \E pulls : forge' = [forge EXCEPT !.pulls = pulls]
        \/ \E n \in Ids : forge' = Shut(n, "human")
    BY <1>9 DEF CloseByHand, People
  <2> QED
    BY <1>3, <1>4, <1>6, <2>1
<1>10. CASE \E by \in {"colleague", "fork"} : OpenByHand(by)
  <2>1. \E pulls : forge' = [forge EXCEPT !.pulls = pulls]
    BY <1>10 DEF OpenByHand, People
  <2> QED
    BY <1>3, <1>6, <2>1
<1> QED
  BY <1>7, <1>8, <1>9, <1>10

(* An artifact that discovery cannot find, and that no run still works on, *)
(* is paid for by a failure.                                               *)
THEOREM OrphansArePaidFor == Spec => []OrphansCostMishaps
<1>1. OrphansCostMishaps <=> Cardinality(Orphans) <= mishaps
  <2>1. Orphans = {n \in Ids : /\ forge.items[n].state = "open" /\ ~forge.items[n].labelled
                               /\ ~Working(n)}
    BY DEF Orphans, Loose
  <2> QED
    BY <2>1 DEF OrphansCostMishaps
<1>2. Init => OrphansCostMishaps
  <2> SUFFICES ASSUME Init PROVE Cardinality(Orphans) <= mishaps
    BY <1>1
  <2>1. Orphans = {}
    BY DEF Init, NoItem, Orphans, Loose
  <2>2. mishaps = 0
    BY DEF Init
  <2> QED
    BY <2>1, <2>2, FS_EmptySet
<1>3. Invariant /\ OrphansCostMishaps /\ [Next]_vars => OrphansCostMishaps'
  <2> SUFFICES ASSUME Invariant, Cardinality(Orphans) <= mishaps, [Next]_vars
               PROVE  Cardinality(Orphans') <= mishaps'
    <3>1. Orphans' = {n \in Ids : /\ forge'.items[n].state = "open" /\ ~forge'.items[n].labelled
                                  /\ ~Working(n)'}
      BY DEF Orphans, Loose
    <3>2. OrphansCostMishaps' <=> Cardinality(Orphans') <= mishaps'
      BY <3>1 DEF OrphansCostMishaps
    <3> QED
      BY <1>1, <3>2
  <2>0. TypeOK /\ mishaps \in Nat
    BY BoundsAssumption DEF Invariant, TypeOK
  <2>1. PICK v \in [Ids -> Nat] : Consistent(v)
    BY DEF Invariant
  <2>2. IsFiniteSet(Orphans) /\ Cardinality(Orphans) \in Nat
        /\ IsFiniteSet(Orphans') /\ Cardinality(Orphans') \in Nat
    BY IdsFinite DEF Orphans
  <2>3. ASSUME Accounted PROVE Cardinality(Orphans') <= mishaps'
    <3>1. CASE Orphans' \subseteq Orphans /\ mishaps' \in {mishaps, mishaps + 1}
      <4>1. Cardinality(Orphans') <= Cardinality(Orphans)
        BY <2>2, <3>1, FS_Subset
      <4> QED
        BY <2>0, <2>2, <3>1, <4>1
    <3>2. CASE mishaps' = mishaps + 1 /\ \E k : Orphans' \subseteq Orphans \cup {k}
      <4>1. PICK k : Orphans' \subseteq Orphans \cup {k}
        BY <3>2
      <4> DEFINE more == Orphans \cup {k}
      <4>2. IsFiniteSet(more) /\ Cardinality(more) <= Cardinality(Orphans) + 1
        <5>1. /\ IsFiniteSet(more)
              /\ Cardinality(more) = IF k \in Orphans THEN Cardinality(Orphans)
                                     ELSE Cardinality(Orphans) + 1
          BY <2>2, FS_AddElement
        <5> QED
          BY <2>2, <5>1
      <4>3. Cardinality(Orphans') <= Cardinality(more) /\ Cardinality(more) \in Nat
        BY <4>1, <4>2, FS_Subset, FS_CardinalityType
      <4> HIDE DEF more
      <4> QED
        BY <2>0, <2>2, <3>2, <4>2, <4>3
    <3> QED
      BY <2>3, <3>1, <3>2 DEF Accounted
  <2>4. CASE UNCHANGED vars
    <3>1. Orphans' = Orphans /\ mishaps' = mishaps
      BY <2>4 DEF vars, Orphans, Loose, Working
    <3> QED
      BY <3>1
  <2>5. CASE Next /\ subject = "artifact"
    <3>1. Accounted
      BY <2>0, <2>1, <2>5, RunAccounted, PeopleAccounted DEF Next
    <3> QED
      BY <2>3, <3>1
  <2>6. CASE Next /\ subject # "artifact"
    <3>1. Invariant' /\ subject' = subject
      <4>1. Invariant'
        BY NextInvariant
      <4>2. ASSUME NEW r \in Runs, Step(r) PROVE subject' = subject
        <5>1. \E after, next : Exchange(r, after, next)
          BY <2>0, <2>1, <4>2, RequestSpares, ArtifactTidy, BranchSpares DEF Step, Tidy
        <5> QED
          BY <5>1, ExchangeLaw
      <4> QED
        BY <2>6, <4>1, <4>2
           DEF Next, Begin, Crash, MoveSource, Settle, MergeRequest, CloseByHand,
               EditMarkerOut, OpenByHand, People
    <3>2. PICK w \in [Ids -> Nat] : Consistent(w)'
      BY <3>1 DEF Invariant
    <3>3. \A n \in Ids : forge'.items[n].state = "absent"
      BY <2>6, <3>1, <3>2 DEF Consistent, ItemsInv
    <3>4. Orphans' = {}
      BY <3>3 DEF Orphans, Loose
    <3>5. mishaps' \in Nat
      BY <3>1, BoundsAssumption DEF Invariant, TypeOK
    <3> QED
      BY <3>4, <3>5, FS_EmptySet
  <2> QED
    BY <2>4, <2>5, <2>6
<1> QED
  BY <1>2, <1>3, ProviderInvariant, PTL DEF Spec
=============================================================================
