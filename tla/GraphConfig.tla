----------------------------- MODULE GraphConfig -----------------------------
(***************************************************************************)
(* GraphConfig: what becomes of a configuration document before any branch *)
(* is looked at.  A caller may apply PromotionGraph.Default or not;        *)
(* Validate reports every broken rule and looks for a promotion cycle      *)
(* (pkg/api/v1); engine.FromConfig resolves the defaults once more for the *)
(* planner.                                                                *)
(*                                                                         *)
(* A branch name is its place in the order of sort.Strings, and 0 is the   *)
(* empty string.  "other" stands for any value outside an enumeration.     *)
(* findCycle runs step by step: one step per neighbour, visit or return.   *)
(***************************************************************************)
EXTENDS Naturals, Sequences, FiniteSets

CONSTANTS
  MaxBranches,
  Malformed,    \* the names validateRefName refuses
  Families,     \* sets of documents, whose members are looked at
  None          \* an absent pointer

Names == 1..MaxBranches
Text == 0..MaxBranches

Branch == [role: {"", "source", "terminal", "other"},
           drift: {"", "forbidden", "expected", "other"}]
Methods == {"", "merge", "squash", "rebase", "other"}
Backflow == [sources: Seq(Text), target: Text, method: Methods,
             strategy: {"", "cherry-pick", "merge", "other"}]

(* A template: title and inline text are there or not; a file path may be  *)
(* one that validateTemplatePath refuses.                                  *)
Template == [title: BOOLEAN, inline: BOOLEAN, file: {"none", "clean", "unclean"}]
Slots == {"promotion", "backflow", "conflict", "message"}
Templates == [Slots -> Template \cup {None}]
Promotion == [from: Text, to: Text, method: Methods, template: Template \cup {None}]

Destination == [name: Text, type: {"teams", "slack", "webhook", "other"},
                private: BOOLEAN, enabled: BOOLEAN \cup {None},
                events: Seq({"request-created", "request-merged", "other"}) \cup {None},
                kinds: Seq({"promotion", "backflow", "other"}) \cup {None}]

Versions == {"v1", "v1alpha1"}
Document == [apiVersion: Versions \cup {"", "other"}, kind: {"", "PromotionGraph", "other"},
             named: BOOLEAN,
             branches: [Names -> Branch \cup {None}],
             promotions: Seq(Promotion), backflow: Backflow \cup {None},
             templates: Templates \cup {None}, destinations: Seq(Destination),
             labelled: SUBSET Names]

ASSUME ConfigAssumption ==
  /\ MaxBranches \in Nat
  /\ Malformed \subseteq Names
  /\ \A D \in Families : D \subseteq Document

(* An absent pointer is no value.                                          *)
ASSUME NoneAssumption ==
  /\ None \notin Branch /\ None \notin Backflow /\ None \notin BOOLEAN
  /\ None \notin Template
  /\ None \notin Seq({"request-created", "request-merged", "other"})
  /\ None \notin Seq({"promotion", "backflow", "other"})

VARIABLES
  doc,       \* the document as it was written
  seen,      \* the document Validate is given
  pc,
  colour,    \* findCycle: the state of each branch,
  stack,     \*   the branches being visited and the promotion each is at,
  cycle,     \*   what it returns
  finished,  \* when a branch was done (history)
  errors,    \* what Validate returns
  graph      \* what FromConfig returns

search == <<colour, stack, cycle, finished>>
vars == <<doc, seen, pc, search, errors, graph>>

Declared(d) == {b \in Names : d.branches[b] # None}

-----------------------------------------------------------------------------
(* Defaults. *)

DefaultBranch(b) ==
  IF b # None /\ b.drift = "" THEN [b EXCEPT !.drift = "forbidden"] ELSE b

DefaultStrategy(bf) == IF bf.strategy = "" THEN [bf EXCEPT !.strategy = "cherry-pick"] ELSE bf

MutantDefaultsEveryMethod(bf) == IF bf.method = "" THEN [bf EXCEPT !.method = "merge"] ELSE bf

DefaultMethod(bf) ==
  IF bf.strategy = "merge" /\ bf.method = "" THEN [bf EXCEPT !.method = "merge"] ELSE bf

DefaultDestination(n) ==
  [n EXCEPT !.enabled = IF @ = None THEN TRUE ELSE @,
            !.events = IF @ = None THEN <<"request-merged">> ELSE @,
            !.kinds = IF @ = None THEN <<"promotion", "backflow">> ELSE @]

(* PromotionGraph.Default.                                                 *)
Default(d) ==
  [d EXCEPT
     !.apiVersion = IF @ = "" THEN "v1" ELSE @,
     !.kind = IF @ = "" THEN "PromotionGraph" ELSE @,
     !.branches = [b \in Names |-> DefaultBranch(@[b])],
     !.backflow = IF @ = None THEN None ELSE DefaultMethod(DefaultStrategy(@)),
     !.destinations = [i \in DOMAIN @ |-> DefaultDestination(@[i])]]

(* NotificationPolicy.IsEnabled.                                           *)
Enabled(d) ==
  \E i \in DOMAIN d.destinations :
     LET n == d.destinations[i]
     IN n.enabled # FALSE /\ n.events # << >> /\ n.kinds # << >>

(* engine.FromConfig: its own defaults, on a document with or without.     *)
FromConfig(d) ==
  [branches |-> [b \in Declared(d) |->
     [role |-> d.branches[b].role,
      drift |-> IF d.branches[b].drift = "" THEN "forbidden" ELSE d.branches[b].drift]],
   promotions |-> d.promotions,
   backflow |->
     IF d.backflow = None THEN None
     ELSE LET strategy == IF d.backflow.strategy = "" THEN "cherry-pick"
                          ELSE d.backflow.strategy
          IN [d.backflow EXCEPT
                !.strategy = strategy,
                !.method = IF strategy = "merge" /\ @ = "" THEN "merge" ELSE @]]

-----------------------------------------------------------------------------
(* The rules, each the set of its violations. *)

Role(d, b) == IF b \in Declared(d) THEN d.branches[b].role ELSE ""

Repeats(s) == {i \in DOMAIN s : \E j \in DOMAIN s : j < i /\ s[j] = s[i]}

HeaderErrors(d) ==
  LET broken == [apiVersion |-> d.apiVersion \notin Versions,
                 kind |-> d.kind # "PromotionGraph",
                 name |-> ~d.named]
  IN {<<"header", rule>> : rule \in {rule \in DOMAIN broken : broken[rule]}}

BranchErrors(d) ==
  {<<"name", b>> : b \in Declared(d) \cap Malformed} \cup
  {<<"role", b>> : b \in {b \in Declared(d) : d.branches[b].role = "other"}} \cup
  {<<"drift", b>> : b \in {b \in Declared(d) : d.branches[b].drift = "other"}} \cup
  {<<"no branches">> : x \in {x \in {0} : Declared(d) = {}}}

(* validateRequestTemplate and the same checks of backflowMergeMessage.    *)
BadTemplate(t) ==
  /\ t # None
  /\ \/ ~t.title /\ ~t.inline /\ t.file = "none"
     \/ t.inline /\ t.file # "none"
     \/ t.file = "unclean"

Complete(p) == p.from # 0 /\ p.to # 0

EdgeErrors(d) ==
  LET P == d.promotions
      whole == {i \in DOMAIN P : Complete(P[i])}
      pairs == [i \in DOMAIN P |-> <<P[i].from, P[i].to>>]
  IN {<<"incomplete", i>> : i \in DOMAIN P \ whole} \cup
     {<<"undeclared", i>> : i \in
        {i \in whole : ~({P[i].from, P[i].to} \subseteq Declared(d))}} \cup
     {<<"loop", i>> : i \in {i \in whole : P[i].from = P[i].to}} \cup
     {<<"edge twice", i>> : i \in Repeats(pairs) \cap whole} \cup
     {<<"method", i>> : i \in {i \in whole : P[i].method = "other"}} \cup
     {<<"edge template", i>> : i \in {i \in whole : BadTemplate(P[i].template)}} \cup
     {<<"leaves terminal", i>> : i \in {i \in whole : Role(d, P[i].from) = "terminal"}} \cup
     {<<"enters source", i>> : i \in {i \in whole : Role(d, P[i].to) = "source"}}

MutantSourceMayBeTarget(d, i) ==
  LET s == d.backflow.sources[i]
  IN IF i \in Repeats(d.backflow.sources) THEN "source twice"
     ELSE IF s \notin Declared(d) THEN "source undeclared"
     ELSE IF d.branches[s].drift = "expected" THEN "source drifts"
     ELSE "none"

(* validateBackflow: of each source, the first thing wrong.                *)
SourceError(d, i) ==
  LET s == d.backflow.sources[i]
  IN IF i \in Repeats(d.backflow.sources) THEN "source twice"
     ELSE IF s = d.backflow.target THEN "source is target"
     ELSE IF s \notin Declared(d) THEN "source undeclared"
     ELSE IF d.branches[s].drift = "expected" THEN "source drifts"
     ELSE "none"

BackflowErrors(d) ==
  IF d.backflow = None THEN {}
  ELSE LET bf == d.backflow
           broken == [strategy |-> bf.strategy = "other",
                      method |-> bf.method = "other",
                      merge |-> bf.strategy = "merge" /\ bf.method \notin {"", "merge"},
                      target |-> Role(d, bf.target) # "source",
                      sources |-> bf.sources = << >>]
       IN {<<"backflow", rule>> : rule \in {rule \in DOMAIN broken : broken[rule]}} \cup
          ({<<SourceError(d, i), i>> : i \in DOMAIN bf.sources}
             \ {<<"none", i>> : i \in DOMAIN bf.sources})

TemplateErrors(d) ==
  IF d.templates = None THEN {}
  ELSE LET T == d.templates
           given == {slot \in Slots : T[slot] # None}
       IN {<<"template", slot>> : slot \in {slot \in Slots : BadTemplate(T[slot])}} \cup
          {<<"needs backflow", slot>> : slot \in
             {slot \in given \cap {"backflow", "conflict"} : d.backflow = None}} \cup
          {<<"needs merge", slot>> : slot \in
             {slot \in given \cap {"message"} :
                d.backflow = None \/ d.backflow.strategy # "merge"}}

(* ValidateNotifications: nil selections are valid, empty ones too.        *)
BadSelection(s) == s # None /\ (Repeats(s) # {} \/ \E i \in DOMAIN s : s[i] = "other")

NotificationErrors(d) ==
  LET D == d.destinations
      names == [i \in DOMAIN D |-> D[i].name]
  IN {<<"label", b>> : b \in d.labelled \ Declared(d)} \cup
     {<<"destination name", i>> : i \in {i \in DOMAIN D : D[i].name = 0} \cup Repeats(names)} \cup
     {<<"type", i>> : i \in {i \in DOMAIN D : D[i].type = "other"}} \cup
     {<<"private", i>> : i \in {i \in DOMAIN D : D[i].private /\ D[i].type # "webhook"}} \cup
     {<<"selection", i>> : i \in
        {i \in DOMAIN D : BadSelection(D[i].events) \/ BadSelection(D[i].kinds)}}

RuleErrors(d) ==
  HeaderErrors(d) \cup BranchErrors(d) \cup EdgeErrors(d) \cup BackflowErrors(d)
    \cup TemplateErrors(d) \cup NotificationErrors(d)

-----------------------------------------------------------------------------
(* findCycle. *)

(* The promotions it follows; the others are reported separately.          *)
Edges(d) == {i \in DOMAIN d.promotions :
               Complete(d.promotions[i]) /\ d.promotions[i].from # d.promotions[i].to}

Roots == {n \in Names : colour[n] = "unvisited" /\
                        \E i \in Edges(seen) : seen.promotions[i].from = n}

Top == stack[Len(stack)]
To(i) == seen.promotions[i].to
Onwards == {i \in Edges(seen) : i > Top.at /\ seen.promotions[i].from = Top.node}

Enter(n) == [node |-> n, at |-> 0]
At(i) == [stack EXCEPT ![Len(stack)] = [@ EXCEPT !.at = i]]

VisitRoot ==
  /\ pc = "search" /\ stack = << >>
  /\ \E n \in Roots :
       /\ \A m \in Roots : n <= m
       /\ stack' = <<Enter(n)>>
       /\ colour' = [colour EXCEPT ![n] = "visiting"]
  /\ UNCHANGED <<doc, seen, pc, cycle, finished, errors, graph>>

MutantWholeStack(k, n) == [j \in 1..(Len(stack) + 1) |-> IF j > Len(stack) THEN n ELSE stack[j].node]

(* The stack from the branch met again, and that branch.                   *)
ClosedAt(k, n) ==
  [j \in 1..(Len(stack) - k + 2) |->
     IF j = Len(stack) - k + 2 THEN n ELSE stack[k + j - 1].node]

Neighbour ==
  /\ pc = "search" /\ stack # << >>
  /\ \E i \in Onwards :
       /\ \A j \in Onwards : i <= j
       /\ \/ /\ colour[To(i)] = "unvisited"
             /\ stack' = Append(At(i), Enter(To(i)))
             /\ colour' = [colour EXCEPT ![To(i)] = "visiting"]
             /\ UNCHANGED <<cycle, pc>>
          \/ /\ colour[To(i)] = "done"
             /\ stack' = At(i)
             /\ UNCHANGED <<colour, cycle, pc>>
          \/ /\ colour[To(i)] = "visiting"
             /\ \E k \in DOMAIN stack :
                  stack[k].node = To(i) /\ cycle' = ClosedAt(k, To(i))
             /\ pc' = "report"
             /\ UNCHANGED <<colour, stack>>
  /\ UNCHANGED <<doc, seen, finished, errors, graph>>

Return ==
  /\ pc = "search" /\ stack # << >> /\ Onwards = {}
  /\ colour' = [colour EXCEPT ![Top.node] = "done"]
  /\ finished' = [finished EXCEPT ![Top.node] = Cardinality({n \in Names : colour[n] = "done"}) + 1]
  /\ stack' = SubSeq(stack, 1, Len(stack) - 1)
  /\ UNCHANGED <<doc, seen, pc, cycle, errors, graph>>

NoCycle ==
  /\ pc = "search" /\ stack = << >> /\ Roots = {}
  /\ pc' = "report"
  /\ UNCHANGED <<doc, seen, search, errors, graph>>

-----------------------------------------------------------------------------
(* The specification. *)

Init ==
  /\ \E D \in Families : doc \in D
  /\ seen = doc
  /\ pc = "start"
  /\ colour = [n \in Names |-> "unvisited"]
  /\ stack = << >> /\ cycle = << >>
  /\ finished = [n \in Names |-> 0]
  /\ errors = {} /\ graph = None

(* The caller applies the defaults, or does not.                           *)
Start ==
  /\ pc = "start"
  /\ seen' \in {seen, Default(seen)}
  /\ pc' = "search"
  /\ UNCHANGED <<doc, search, errors, graph>>

Report ==
  /\ pc = "report"
  /\ errors' = RuleErrors(seen) \cup (IF cycle = << >> THEN {} ELSE {<<"cycle", cycle>>})
  /\ graph' = FromConfig(seen)
  /\ pc' = "end"
  /\ UNCHANGED <<doc, seen, search>>

Done == pc = "end" /\ UNCHANGED vars

Next == Start \/ VisitRoot \/ Neighbour \/ Return \/ NoCycle \/ Report \/ Done

Spec == Init /\ [][Next]_vars

-----------------------------------------------------------------------------
(* Properties. *)

Joined(d, m, n) ==
  \E i \in Edges(d) : d.promotions[i].from = m /\ d.promotions[i].to = n

(* findCycle finds a cycle exactly if there is one.  What it returns is a   *)
(* walk along promotions that meets a branch again, and only that one; and  *)
(* if it returns nothing, the order in which it finished with the branches  *)
(* ranks every promotion, so that no walk comes back.                       *)
CycleVerdict ==
  pc \in {"report", "end"} =>
    IF cycle = << >>
    THEN \A i \in Edges(doc) :
           finished[doc.promotions[i].to] < finished[doc.promotions[i].from]
    ELSE /\ cycle[1] = cycle[Len(cycle)]
         /\ \A j \in 1..(Len(cycle) - 1) : Joined(doc, cycle[j], cycle[j + 1])
         /\ \A j, k \in 1..(Len(cycle) - 1) : cycle[j] = cycle[k] => j = k

(* What Default fills in although Validate asks for it.                     *)
Unset(d) == {<<"header", field>> : field \in {field \in {"apiVersion", "kind"} : d[field] = ""}}

(* The defaults are written down three times and must agree: Validate finds *)
(* the same in a document with or without Default applied, but for an unset *)
(* apiVersion and kind, which it refuses exactly without; the planner's     *)
(* graph is the same, with nothing left open, and Default turns no          *)
(* notification on or off and changes nothing a second time.                *)
DefaultsAgree ==
  pc = "end" =>
    /\ (errors \ {<<"cycle", cycle>>}) \cup Unset(doc) = RuleErrors(doc)
    /\ errors \cap Unset(doc) = Unset(seen)
    /\ Unset(Default(doc)) = {}
    /\ graph = FromConfig(doc) /\ graph = FromConfig(Default(doc))
    /\ \A b \in DOMAIN graph.branches : graph.branches[b].drift # ""
    /\ Enabled(seen) = Enabled(doc)
    /\ Default(seen) = Default(doc)

(* What planning and applying rely on in an accepted document: a pair of    *)
(* branches is one edge, of one kind (Apply tells a diverged backflow from  *)
(* a diverged promotion by its pair alone); promotions and returns never    *)
(* lead into the same branch; what a source has is returned, not ignored;   *)
(* the merge strategy expects a merge commit; and no promotions lead round, *)
(* for finished ranks the branches along them.                              *)
AcceptedGraph ==
  pc = "end" /\ errors = {} =>
    LET P == graph.promotions
        bf == graph.backflow
    IN /\ \A i, j \in DOMAIN P : P[i].from = P[j].from /\ P[i].to = P[j].to => i = j
       /\ \A i \in DOMAIN P : {P[i].from, P[i].to} \subseteq DOMAIN graph.branches
       /\ \A i \in DOMAIN P : finished[P[i].to] < finished[P[i].from]
       /\ bf # None =>
            /\ bf.sources # << >>
            /\ \A i \in DOMAIN P : P[i].to # bf.target
            /\ \A k \in DOMAIN bf.sources :
                 /\ bf.sources[k] # bf.target
                 /\ graph.branches[bf.sources[k]].drift = "forbidden"
            /\ bf.strategy = "merge" => bf.method = "merge"
=============================================================================
