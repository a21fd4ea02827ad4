------------------------------ MODULE Provider ------------------------------
(***************************************************************************)
(* The forge providers, internal/forge/github and internal/forge/          *)
(* azuredevops, exchange by exchange: how a managed request is found,      *)
(* created, adopted, rewritten and closed, how a conflict artifact is, and *)
(* how a branch under oiax/ is pushed and deleted.  Promotion and Backflow *)
(* take each of these calls for one step; here runs that overlap, people,  *)
(* lost replies, refusals and retries come between the exchanges.          *)
(*                                                                         *)
(* Requests, artifacts and branches share no state, so a behaviour looks   *)
(* at one of them, its subject, for one edge of the graph and on one host. *)
(* Listings are read in one exchange.  Texts are left out, and so is the   *)
(* comment that goes before a close and fails as the close does.           *)
(***************************************************************************)
EXTENDS Integers, FiniteSets

CONSTANTS
  Hosts,       \* the forges the instance looks at
  Subjects,    \* the kinds of objects the instance looks at
  Runs,        \* reconcile runs that may overlap, each begins again when it ends
  Builds,      \* marker versions the binaries of the runs may write, by subject
  MaxHead,     \* source heads
  MaxId,       \* numbers the forge gives out
  MaxRetry,    \* retries of one exchange (4 in the code)
  MaxMishaps,  \* lost, refused or garbled exchanges and killed runs
  MaxEvents    \* what people do, by subject

Heads == 1..MaxHead
Ids == 1..MaxId

ASSUME SortsAssumption ==
  /\ Hosts \subseteq {"github", "azuredevops"}
  /\ Subjects \subseteq {"request", "artifact", "branch"}
ASSUME BuildsAssumption == Builds \in [Subjects -> SUBSET [Runs -> Nat \ {0}]]
ASSUME BoundsAssumption ==
  /\ MaxHead \in Nat \ {0} /\ MaxId \in Nat \ {0}
  /\ MaxRetry \in Nat /\ MaxMishaps \in Nat /\ MaxEvents \in [Subjects -> Nat]

VARIABLES
  host,     \* the forge of this repository
  subject,  \* what the runs of this behaviour are about
  build,    \* build[r]: the marker version the binary of run r writes
  denied,   \* the token may not label (GitHub only)
  wanted,   \* the edge needs a request, is in conflict, or has a branch
  source,   \* the tip of the edge's source
  forge,    \* pulls, items and tip: what the forge stores
  call,     \* what each run is doing
  mishaps, events

vars == <<host, subject, build, denied, wanted, source, forge, call, mishaps, events>>

(***************************************************************************)
(* What the forge stores.  A marker is its version and its source head;    *)
(* graph, branches and type are those of the edge.  Azure DevOps keeps a   *)
(* second copy of a request's marker in its properties.  A pull request is *)
(* opened by oiax, by a colleague between the same branches, or from a     *)
(* fork with a copied marker.                                              *)
(***************************************************************************)
NoMarker == [version |-> 0, head |-> 0]
NoPull == [by |-> "nobody", state |-> "absent", desc |-> NoMarker,
           prop |-> NoMarker, labelled |-> FALSE]
NoItem == [state |-> "absent", marker |-> NoMarker, labelled |-> FALSE, as |-> "none"]

Free == {n \in Ids : forge.pulls[n].state = "absent" /\ forge.items[n].state = "absent"}
Lowest(S) == CHOOSE n \in S : \A m \in S : n <= m

\* Mutant: a marker is enough, wherever the request comes from.
RecognisedByMarker(pull, marker) == marker # NoMarker

Recognised(pull, marker) == marker # NoMarker /\ pull.by # "fork"

\* Mutant: the label, which people remove and tokens may not set, is part of it.
ListLabelledRequests ==
  {n \in Ids : /\ forge.pulls[n].state = "open" /\ forge.pulls[n].labelled
               /\ Recognised(forge.pulls[n], forge.pulls[n].desc)}

ListManagedRequests ==
  {n \in Ids : forge.pulls[n].state = "open" /\ Recognised(forge.pulls[n], forge.pulls[n].desc)}

\* The forge takes one open request between two branches of the repository.
Taken == \E n \in Ids : forge.pulls[n].state = "open" /\ forge.pulls[n].by # "fork"

ConflictMarker(item) == item.labelled /\ item.marker # NoMarker

ListConflictArtifacts ==
  {n \in Ids : forge.items[n].state = "open" /\ ConflictMarker(forge.items[n])}

(***************************************************************************)
(* A run.  It pins what is wanted and the source head, and makes its calls *)
(* one exchange at a time: pc names the exchange it waits for, op and id   *)
(* the call and its object.  A pass over artifacts first closes the        *)
(* duplicates (todo) and then sees to the canonical one (rest).  Its clone *)
(* is as old as the head it pinned; full says that it finds a newer head   *)
(* missing, as a shallow clone or one that fetched since does not.         *)
(***************************************************************************)
NoCall == [pc |-> "idle", wanted |-> FALSE, head |-> 0, full |-> FALSE, op |-> "none", id |-> 0,
           marker |-> NoMarker, tries |-> 0, todo |-> {}, rest |-> 0, old |-> 0,
           made |-> {}, unheard |-> FALSE, tip |-> 0]

Go(x, pc) == [x EXCEPT !.pc = pc, !.tries = 0]
Ended(x) == NoCall
Written(r, x) == [version |-> build[r], head |-> x.head]

Work(x, op, n) == [Go(x, "get") EXCEPT !.op = op, !.id = n]

\* The plan of the edge, from the request that was listed.
PlanRequest(x, found) ==
  IF found = {} THEN IF x.wanted THEN [Go(x, "post") EXCEPT !.op = "create"] ELSE Ended(x)
  ELSE LET n == Lowest(found)
       IN  IF ~x.wanted THEN Work(x, "close", n)
           ELSE IF forge.pulls[n].desc.head # x.head THEN Work(x, "update", n)
           ELSE Ended(x)

\* recordBackflowConflict and resolveBackflowConflicts.  A recorded head that the
\* clone lacks is taken for one that was rewritten away, and replaced.
NextArtifact(x) ==
  LET n == x.rest
      y == [x EXCEPT !.rest = 0, !.old = 0]
  IN  IF x.todo # {}
        THEN LET d == Lowest(x.todo)
             IN  [Work(x, "dup", d) EXCEPT !.todo = @ \ {d}]
      ELSE IF x.wanted /\ x.op = "list" /\ n = 0 THEN [Go(x, "post") EXCEPT !.op = "create"]
      ELSE IF n = 0 THEN Ended(x)
      ELSE IF x.wanted
        THEN IF x.old < x.head \/ (x.old > x.head /\ x.full) THEN Work(y, "update", n) ELSE Ended(x)
      ELSE IF x.old <= x.head THEN Work(y, "close", n) ELSE Ended(x)

\* Mutant: the most recent head is kept, which listings disagree about.
CanonicalByHead(found) ==
  CHOOSE n \in found : \A m \in found :
    LET a == forge.items[n].marker.head
        b == forge.items[m].marker.head
    IN  a > b \/ (a = b /\ n <= m)

Canonical(found) == Lowest(found)

PlanArtifact(x, found) ==
  NextArtifact(
    IF found = {} THEN [x EXCEPT !.op = "list"]
    ELSE LET n == Canonical(found)
         IN  [x EXCEPT !.op = "list", !.todo = found \ {n}, !.rest = n,
                       !.old = forge.items[n].marker.head])

Finished(x) == IF subject = "artifact" THEN NextArtifact(x) ELSE Ended(x)

\* update and close refuse what is not oiax's own, or of a newer schema.
Checked(r, x, own) ==
  IF ~own \/ x.marker.version > build[r] THEN Finished(x)
  ELSE IF x.op = "update" THEN Go(x, "patch")
  ELSE Go([x EXCEPT !.marker = NoMarker],
          IF subject = "artifact" /\ host = "azuredevops" THEN "states" ELSE "close")

\* Mutant: what cannot be labelled stays open.
FailedUncleaned(r, x) ==
  IF x.pc = "props" THEN Checked(r, x, Recognised(forge.pulls[x.id], x.marker))
  ELSE IF x.op \in {"dup", "update", "close"} THEN Finished(x)
  ELSE Ended(x)

\* What a call does when an exchange of it fails for good.
Failed(r, x) ==
  IF x.pc = "props" THEN Checked(r, x, Recognised(forge.pulls[x.id], x.marker))
  ELSE IF x.pc = "mark" /\ subject = "artifact" THEN Go(x, "cleanup")
  ELSE IF x.pc # "cleanup" /\ x.op \in {"dup", "update", "close"} THEN Finished(x)
  ELSE Ended(x)

(***************************************************************************)
(* One exchange: send and doOnce.  It is answered; or its reply is lost    *)
(* after it took effect; or it is refused for the moment; or its reply is  *)
(* read but does not decode.  Only reads and the creation of a request are *)
(* sent again, and only when nothing was answered or the answer says so.   *)
(***************************************************************************)
Reads == {"list", "hydrate", "adopt", "get", "props", "states", "resolve"}
Retried(x) ==
  /\ x.tries < MaxRetry
  /\ \/ x.pc \in Reads /\ ~(x.pc = "list" /\ subject = "artifact" /\ host = "azuredevops")
     \/ x.pc = "post" /\ subject = "request"
Decoded(x) ==
  \/ x.pc \in Reads \cup {"post"}
  \/ x.pc = "delete" /\ host = "azuredevops"

Again(r, x) == IF Retried(x) THEN [x EXCEPT !.tries = @ + 1] ELSE Failed(r, x)
\* Mutant: a reply that does not decode is taken for none.
UndecodedAgain(r, x) == Again(r, x)

Undecoded(r, x) == Failed(r, x)

Mishap == mishaps < MaxMishaps /\ mishaps' = mishaps + 1
Become(r, x) == call' = [call EXCEPT ![r] = x]

\* The exchange of run r, with the forge after it and the run's next state.
\* Creation adds to the history of what the call has made.
Exchange(r, after, next) ==
  LET x == call[r]
      new == {n \in Free : after.pulls[n].state # "absent" \/ after.items[n].state # "absent"}
      Kept(y) == IF y = NoCall THEN y ELSE [y EXCEPT !.made = @ \cup new]
  IN  /\ \/ forge' = after /\ Become(r, Kept(next)) /\ UNCHANGED mishaps
         \/ /\ Mishap /\ forge' = after
            /\ Become(r, Kept(IF new = {} THEN Again(r, x) ELSE Again(r, [x EXCEPT !.unheard = TRUE])))
         \/ Mishap /\ forge' = forge /\ Become(r, Again(r, x))
         \/ Decoded(x) /\ Mishap /\ forge' = after /\ Become(r, Kept(Undecoded(r, x)))
      /\ UNCHANGED <<host, subject, build, denied, wanted, source, events>>

Read(r, next) == Exchange(r, forge, next)
At(r, pc, s) == call[r].pc = pc /\ subject = s
On(h, r, pc, s) == host = h /\ At(r, pc, s)

(***************************************************************************)
(* Requests.                                                               *)
(***************************************************************************)
Begin(r) ==
  /\ call[r].pc = "idle"
  /\ \E full \in IF subject = "artifact" THEN BOOLEAN ELSE {FALSE} :
     Become(r, [NoCall EXCEPT !.wanted = wanted, !.head = source, !.full = full,
       !.pc = IF subject # "branch" THEN "list"
              ELSE IF wanted THEN "push"
              ELSE IF host = "azuredevops" THEN "resolve" ELSE "delete"])
  /\ UNCHANGED <<host, subject, build, denied, wanted, source, forge, mishaps, events>>

ListRequests(r) ==
  At(r, "list", "request") /\ Read(r, PlanRequest(call[r], ListManagedRequests))

\* A duplicate is refused, and the survivor looked for.
Post(r, labelled) ==
  IF Taken THEN Read(r, Go(call[r], "adopt"))
  ELSE \E n \in Free :
    /\ n = Lowest(Free)
    /\ Exchange(r, [forge EXCEPT !.pulls[n] =
            [NoPull EXCEPT !.by = "oiax", !.state = "open",
                           !.desc = Written(r, call[r]), !.labelled = labelled]],
         [Go(call[r], "mark") EXCEPT !.id = n, !.marker = Written(r, call[r])])

GithubCreateRequest(r) == On("github", r, "post", "request") /\ Post(r, FALSE)
AzureCreateRequest(r) == On("azuredevops", r, "post", "request") /\ Post(r, TRUE)

\* The survivor is the answer, and none is an error: both end the edge's call.
AdoptDuplicate(r) == At(r, "adopt", "request") /\ Read(r, Ended(call[r]))

\* GitHub labels the request, Azure DevOps writes the marker's second copy.
AddLabels(r) ==
  /\ On("github", r, "mark", "request")
  /\ IF denied THEN Read(r, Failed(r, call[r]))
     ELSE Exchange(r, [forge EXCEPT !.pulls[call[r].id].labelled = TRUE], Ended(call[r]))

PutMarkerProperty(r) ==
  /\ On("azuredevops", r, "mark", "request")
  /\ Exchange(r, [forge EXCEPT !.pulls[call[r].id].prop = call[r].marker], Ended(call[r]))

GithubGetPull(r) ==
  /\ On("github", r, "get", "request")
  /\ LET pull == forge.pulls[call[r].id]
     IN  Read(r, Checked(r, [call[r] EXCEPT !.marker = pull.desc], Recognised(pull, pull.desc)))

\* The second copy goes before the one in the description.
AzureGetPull(r) ==
  /\ On("azuredevops", r, "get", "request")
  /\ Read(r, [Go(call[r], "props") EXCEPT !.marker = forge.pulls[call[r].id].desc])

GetProperties(r) ==
  /\ At(r, "props", "request")
  /\ LET pull == forge.pulls[call[r].id]
         x == [call[r] EXCEPT !.marker = IF pull.prop = NoMarker THEN @ ELSE pull.prop]
     IN  Read(r, Checked(r, x, Recognised(pull, x.marker)))

Rewritten(x) == [x.marker EXCEPT !.head = x.head]
Described(x) == [forge EXCEPT !.pulls[x.id].desc = Rewritten(x)]

GithubUpdateRequest(r) ==
  /\ On("github", r, "patch", "request")
  /\ Exchange(r, Described(call[r]), Ended(call[r]))

\* The marker is replaced in the description, or put back in front of it, and
\* then its second copy is.
AzureUpdateRequest(r) ==
  /\ On("azuredevops", r, "patch", "request")
  /\ Exchange(r, Described(call[r]),
              [Go(call[r], "mark") EXCEPT !.marker = Rewritten(call[r])])

Closing(r) ==
  Exchange(r, [forge EXCEPT !.pulls[call[r].id].state = IF @ = "open" THEN "closed" ELSE @],
           Ended(call[r]))
GithubCloseRequest(r) == On("github", r, "close", "request") /\ Closing(r)
AzureCloseRequest(r) == On("azuredevops", r, "close", "request") /\ Closing(r)

(***************************************************************************)
(* Conflict artifacts.                                                     *)
(***************************************************************************)
GithubListArtifacts(r) ==
  /\ On("github", r, "list", "artifact")
  /\ Read(r, PlanArtifact(call[r], ListConflictArtifacts))

\* Azure DevOps answers the query with numbers, of closed items too.
AzureListArtifacts(r) ==
  /\ On("azuredevops", r, "list", "artifact")
  /\ Read(r, [Go(call[r], "hydrate") EXCEPT
               !.todo = {n \in Ids : ConflictMarker(forge.items[n])}])

GetWorkItems(r) ==
  /\ At(r, "hydrate", "artifact")
  /\ Read(r, PlanArtifact([call[r] EXCEPT !.todo = {}], call[r].todo \cap ListConflictArtifacts))

NewItem(r, labelled) ==
  [NoItem EXCEPT !.state = "open", !.marker = Written(r, call[r]), !.labelled = labelled]

\* Azure DevOps writes the tags with the item, GitHub needs another exchange.
AzureCreateArtifact(r) ==
  /\ On("azuredevops", r, "post", "artifact")
  /\ \E n \in Free :
       /\ n = Lowest(Free)
       /\ Exchange(r, [forge EXCEPT !.items[n] = NewItem(r, TRUE)], Ended(call[r]))

GithubCreateArtifact(r) ==
  /\ On("github", r, "post", "artifact")
  /\ \E n \in Free :
       /\ n = Lowest(Free)
       /\ Exchange(r, [forge EXCEPT !.items[n] = NewItem(r, FALSE)],
                   [Go(call[r], "mark") EXCEPT !.id = n])

LabelArtifact(r) ==
  /\ At(r, "mark", "artifact")
  /\ IF denied THEN Read(r, Failed(r, call[r]))
     ELSE Exchange(r, [forge EXCEPT !.items[call[r].id].labelled = TRUE], Ended(call[r]))

Shut(n, as) ==
  [forge EXCEPT !.items[n].state = "closed",
                !.items[n].as = IF forge.items[n].state = "open" THEN as ELSE @]

\* An artifact that cannot be labelled is closed again, as well as that goes.
Cleanup(r) ==
  At(r, "cleanup", "artifact") /\ Exchange(r, Shut(call[r].id, "orphan"), Ended(call[r]))

GetArtifact(r) ==
  /\ At(r, "get", "artifact")
  /\ LET item == forge.items[call[r].id]
     IN  Read(r, Checked(r, [call[r] EXCEPT !.marker = item.marker], ConflictMarker(item)))

\* The name of the completed state is read from the item's type.
GetStates(r) == At(r, "states", "artifact") /\ Read(r, Go(call[r], "close"))

PatchArtifact(r) ==
  /\ At(r, "patch", "artifact")
  /\ Exchange(r, [forge EXCEPT !.items[call[r].id].marker = Written(r, call[r])],
              Finished(call[r]))

CloseArtifact(r) ==
  /\ At(r, "close", "artifact")
  /\ Exchange(r, Shut(call[r].id, call[r].op), Finished(call[r]))

(***************************************************************************)
(* Branches under oiax/.                                                   *)
(***************************************************************************)
PushBranch(r) ==
  /\ At(r, "push", "branch")
  /\ Exchange(r, [forge EXCEPT !.tip = call[r].head], Ended(call[r]))

GithubDeleteBranch(r) ==
  /\ On("github", r, "delete", "branch")
  /\ Exchange(r, [forge EXCEPT !.tip = 0], Ended(call[r]))

\* A branch that is gone needs no deletion.
ResolveRef(r) ==
  /\ At(r, "resolve", "branch")
  /\ Read(r, IF forge.tip = 0 THEN Ended(call[r])
             ELSE [Go(call[r], "delete") EXCEPT !.tip = forge.tip])

\* Azure DevOps deletes the tip that was resolved and no other.
AzureDeleteBranch(r) ==
  /\ On("azuredevops", r, "delete", "branch")
  /\ Exchange(r, IF forge.tip = call[r].tip THEN [forge EXCEPT !.tip = 0] ELSE forge,
              Ended(call[r]))

Crash(r) ==
  /\ call[r].pc # "idle" /\ Mishap
  /\ Become(r, NoCall)
  /\ UNCHANGED <<host, subject, build, denied, wanted, source, forge, events>>

(***************************************************************************)
(* People: they merge, close, edit and open requests, close artifacts, and *)
(* move what the edge needs.                                               *)
(***************************************************************************)
People(after) ==
  /\ events < MaxEvents[subject] /\ events' = events + 1
  /\ forge' = after
  /\ UNCHANGED <<host, subject, build, denied, call, mishaps>>

MoveSource ==
  /\ source < MaxHead /\ source' = source + 1 /\ wanted' = TRUE
  /\ People(forge)

Settle ==
  /\ wanted /\ wanted' = FALSE /\ UNCHANGED source
  /\ People(forge)

MergeRequest(n) ==
  /\ forge.pulls[n].state = "open" /\ forge.pulls[n].by = "oiax"
  /\ wanted' = FALSE /\ UNCHANGED source
  /\ People([forge EXCEPT !.pulls[n].state = "merged"])

CloseByHand(n) ==
  /\ \/ forge.pulls[n].state = "open" /\ People([forge EXCEPT !.pulls[n].state = "closed"])
     \/ forge.items[n].state = "open" /\ People(Shut(n, "human"))
  /\ UNCHANGED <<wanted, source>>

EditMarkerOut(n) ==
  /\ forge.pulls[n].state = "open" /\ forge.pulls[n].by = "oiax"
  /\ People([forge EXCEPT !.pulls[n].desc = NoMarker])
  /\ UNCHANGED <<wanted, source>>

OpenByHand(by) ==
  /\ subject = "request" /\ Free # {}
  /\ by = "colleague" => ~Taken
  /\ People([forge EXCEPT !.pulls[Lowest(Free)] =
       [NoPull EXCEPT !.by = by, !.state = "open",
          !.desc = IF by = "fork" THEN [version |-> 1, head |-> source] ELSE NoMarker]])
  /\ UNCHANGED <<wanted, source>>

Init ==
  /\ host \in Hosts /\ subject \in Subjects /\ build \in Builds[subject]
  /\ denied \in IF host = "github" THEN BOOLEAN ELSE {FALSE}
  /\ wanted = TRUE /\ source = 1
  /\ forge = [pulls |-> [n \in Ids |-> NoPull], items |-> [n \in Ids |-> NoItem], tip |-> 0]
  /\ call = [r \in Runs |-> NoCall]
  /\ mishaps = 0 /\ events = 0

Request(r) ==
  \/ ListRequests(r) \/ GithubCreateRequest(r) \/ AzureCreateRequest(r) \/ AdoptDuplicate(r)
  \/ AddLabels(r) \/ PutMarkerProperty(r)
  \/ GithubGetPull(r) \/ AzureGetPull(r) \/ GetProperties(r)
  \/ GithubUpdateRequest(r) \/ AzureUpdateRequest(r)
  \/ GithubCloseRequest(r) \/ AzureCloseRequest(r)

Artifact(r) ==
  \/ GithubListArtifacts(r) \/ AzureListArtifacts(r) \/ GetWorkItems(r)
  \/ GithubCreateArtifact(r) \/ AzureCreateArtifact(r) \/ LabelArtifact(r) \/ Cleanup(r)
  \/ GetArtifact(r) \/ GetStates(r) \/ PatchArtifact(r) \/ CloseArtifact(r)

Branch(r) ==
  PushBranch(r) \/ GithubDeleteBranch(r) \/ ResolveRef(r) \/ AzureDeleteBranch(r)

Step(r) == Request(r) \/ Artifact(r) \/ Branch(r)

Next ==
  \/ \E r \in Runs : Begin(r) \/ Step(r) \/ Crash(r)
  \/ MoveSource \/ Settle
  \/ \E n \in Ids : MergeRequest(n) \/ CloseByHand(n) \/ EditMarkerOut(n)
  \/ \E by \in {"colleague", "fork"} : OpenByHand(by)

Spec == Init /\ [][Next]_vars

\* Runs are scheduled again and again, and every exchange ends: it has a timeout.
FairSpec == Spec /\ \A r \in Runs : WF_vars(Begin(r) \/ Step(r))

----------------------------------------------------------------------------
Markers == [version : Nat, head : Heads \cup {0}]
PullType == [by : {"nobody", "oiax", "colleague", "fork"},
             state : {"absent", "open", "closed", "merged"},
             desc : Markers, prop : Markers, labelled : BOOLEAN]
ItemType == [state : {"absent", "open", "closed"}, marker : Markers, labelled : BOOLEAN,
             as : {"none", "dup", "close", "orphan", "human"}]
Exchanges == Reads \cup {"idle", "post", "mark", "patch", "close",
                         "cleanup", "push", "delete"}
About == {"mark", "cleanup", "get", "props", "states", "patch", "close"}
CallType == [pc : Exchanges, wanted : BOOLEAN, head : Heads \cup {0}, full : BOOLEAN,
             op : {"none", "list", "create", "update", "close", "dup"},
             id : Ids \cup {0}, marker : Markers, tries : 0..MaxRetry,
             todo : SUBSET Ids, rest : Ids \cup {0}, old : Heads \cup {0},
             made : SUBSET Ids, unheard : BOOLEAN, tip : Heads \cup {0}]

\* The type invariant of the forge and of the runs' calls: an exchange about an
\* object has its number.
TypeOK ==
  /\ host \in Hosts /\ subject \in Subjects /\ build \in Builds[subject] /\ denied \in BOOLEAN
  /\ wanted \in BOOLEAN /\ source \in Heads
  /\ forge \in [pulls : [Ids -> PullType], items : [Ids -> ItemType], tip : Heads \cup {0}]
  /\ call \in [Runs -> CallType]
  /\ \A r \in Runs : call[r].pc \in About => call[r].id \in Ids
  /\ mishaps \in 0..MaxMishaps /\ events \in 0..MaxEvents[subject]

(***************************************************************************)
(* Properties.                                                             *)
(***************************************************************************)
\* A call that creates, creates once: a second object takes a first one whose
\* reply never came, and which somebody closed before the call was sent again.
CreatesOnce ==
  \A r \in Runs : Cardinality(call[r].made) > 1 => call[r].unheard

\* An artifact that discovery cannot find, and that no run still works on, is
\* paid for by a failure: a token that may not label does not pile them up.
Working(n) == \E r \in Runs : call[r].id = n /\ call[r].pc \in {"mark", "cleanup"}
OrphansCostMishaps ==
  Cardinality({n \in Ids : /\ forge.items[n].state = "open" /\ ~forge.items[n].labelled
                           /\ ~Working(n)}) <= mishaps

\* Runs that consolidate duplicates from listings of different moments never
\* close each other's canonical artifact: some artifact was not closed as a duplicate.
ConsolidationKeepsOne ==
  (\E n \in Ids : forge.items[n].as = "dup")
    => \E n \in Ids : forge.items[n].labelled /\ forge.items[n].as # "dup"

\* Whatever was read when, a run rewrites and closes requests of oiax alone, and
\* none with a marker of a newer schema than its build understands.
ForeignSpared ==
  [][\A r \in Runs, n \in Ids :
       call'[r] # call[r] /\ forge.pulls[n].state # "absent"
         /\ <<forge'.pulls[n].desc, forge'.pulls[n].state>>
              # <<forge.pulls[n].desc, forge.pulls[n].state>>
       => forge.pulls[n].by = "oiax" /\ forge.pulls[n].desc.version <= build[r]]_vars

\* Only people can bring the edge where no run helps: a request of a colleague,
\* or one whose marker was edited out, holds its place.
Held ==
  \E n \in Ids : /\ forge.pulls[n].state = "open" /\ forge.pulls[n].by # "fork"
                 /\ forge.pulls[n].desc = NoMarker

\* The instance has no number left to give out, so nothing can be created in it.
Exhausted == Free = {}

InOrder ==
  CASE subject = "request" ->
         \/ Held \/ Exhausted
         \/ IF wanted THEN \E n \in ListManagedRequests : forge.pulls[n].desc.head = source
                      ELSE ListManagedRequests = {}
    [] subject = "artifact" ->
         \/ denied \/ Exhausted
         \/ IF wanted THEN /\ Cardinality(ListConflictArtifacts) = 1
                           /\ \A n \in ListConflictArtifacts : forge.items[n].marker.head = source
                      ELSE ListConflictArtifacts = {}
    [] subject = "branch" -> forge.tip = IF wanted THEN source ELSE 0

\* When people and failures stop, the runs bring the forge in order and leave it
\* so, wherever a call was cut: the request wanted or none, one artifact or none,
\* the branch or none.
ComesToOrder == <>[]InOrder

\* The claim of the property copy: a request that carries it stays in sight.
TrackNeverLost ==
  []<>(\A n \in Ids : forge.pulls[n].state = "open" /\ forge.pulls[n].prop # NoMarker
         => n \in ListManagedRequests)
=============================================================================
