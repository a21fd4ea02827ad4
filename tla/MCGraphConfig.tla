---------------------------- MODULE MCGraphConfig ----------------------------
(***************************************************************************)
(* Documents for the run of GraphConfig.                                   *)
(***************************************************************************)
EXTENDS GraphConfig, SequencesExt

Plain == [role |-> "", drift |-> ""]
Branches(f) == [b \in Names |-> IF b \in DOMAIN f THEN f[b] ELSE None]
Edge(m, n) == [from |-> m, to |-> n, method |-> "", template |-> None]
NoTemplates == [slot \in Slots |-> None]
Blank == [apiVersion |-> "v1", kind |-> "PromotionGraph", named |-> TRUE,
          branches |-> [b \in Names |-> Plain], promotions |-> << >>,
          backflow |-> None, templates |-> None, destinations |-> << >>,
          labelled |-> {}]

(* Every list of up to four promotions among the branches.                 *)
Graphs ==
  LET edges == {e \in {Edge(m, n) : m, n \in Names} : e.from # e.to}
  IN {[Blank EXCEPT !.promotions = P] : P \in BoundedSeq(edges, 4)}

(* Promotions that are incomplete, of a branch to itself, undeclared,      *)
(* repeated or with a method, and branches with a role.                    *)
Malformations ==
  {[Blank EXCEPT !.branches = Branches([b \in B |-> [Plain EXCEPT !.role = role]]),
                 !.promotions = P] :
     B \in {{}, {1}, {1, 2}}, role \in {"", "source", "terminal", "other"},
     P \in BoundedSeq({[Edge(m, n) EXCEPT !.method = x] :
                         m \in 0..2, n \in 1..2, x \in {"", "other"}}, 2)}

(* A promotion or none, two branches of every role and drift, and every    *)
(* backflow policy between them, with a merge message or without.          *)
Policies ==
  {[Blank EXCEPT !.branches = Branches(<<b, c>>), !.promotions = P, !.backflow = bf,
                 !.templates = t] :
     b \in [role: {"", "source"}, drift: {"", "expected"}],
     c \in [role: {"", "source", "terminal"}, drift: {"", "forbidden", "expected"}],
     P \in {<< >>, <<Edge(1, 2)>>, <<Edge(2, 1)>>},
     bf \in {None} \cup [strategy: {"", "cherry-pick", "merge"},
                         method: {"", "merge", "squash", "other"},
                         target: 0..1, sources: {<< >>, <<1>>, <<2>>, <<2, 2>>}],
     t \in {None, [NoTemplates EXCEPT
                      !.message = [title |-> FALSE, inline |-> TRUE, file |-> "none"]]}}

(* Destinations with selections that are absent, empty, repeated or wrong, *)
(* labels and templates.                                                   *)
Presentations ==
  {[Blank EXCEPT !.branches = Branches(<<Plain>>), !.destinations = D, !.labelled = L] :
     L \in {{}, {1}, {2}},
     D \in BoundedSeq([name: 0..1, type: {"slack", "webhook"}, private: BOOLEAN,
                       enabled: {None, FALSE}, kinds: {None, << >>},
                       events: {None, << >>, <<"other">>,
                                <<"request-merged", "request-merged">>}], 1)}
  \cup
  {[Blank EXCEPT !.templates = [NoTemplates EXCEPT !.backflow = t, !.conflict = u]] :
     t \in {None} \cup Template, u \in {None} \cup Template}
  \cup
  {[Blank EXCEPT !.promotions = <<[Edge(1, 2) EXCEPT !.template = t]>>,
                 !.templates = [NoTemplates EXCEPT !.promotion = u]] :
     t \in {None} \cup Template, u \in {None} \cup Template}

(* Headers that are set, left out or wrong, on a document with a promotion *)
(* cycle, a backflow policy that leaves its strategy open, or neither.     *)
Headers ==
  {[Blank EXCEPT !.branches = Branches(<<[Plain EXCEPT !.role = "source"], Plain>>),
                 !.apiVersion = version, !.kind = kind, !.named = named,
                 !.promotions = P, !.backflow = bf] :
     version \in Versions \cup {"", "other"}, kind \in {"", "PromotionGraph", "other"},
     named \in BOOLEAN, P \in {<<Edge(1, 2)>>, <<Edge(1, 2), Edge(2, 1)>>},
     bf \in {None, [strategy |-> "", method |-> "", target |-> 1, sources |-> <<2>>]}}

AllFamilies == {Graphs, Malformations, Policies, Presentations, Headers}
=============================================================================
