--------------------------- MODULE PromotionGraph ---------------------------
(***************************************************************************)
(* The whole graph over one history: several promotion edges, the backflow *)
(* of their sources, and people who commit, pick, revert and merge what    *)
(* Oiax proposes.  What one request brings, another edge sees: a returned  *)
(* hotfix is promoted forward, a promoted change shows up downstream, and  *)
(* each edge has its own view of the same commits.                         *)
(*                                                                         *)
(* A run is one step here, Coordinator.Plan and Coordinator.Apply on a     *)
(* fresh full clone; Promotion and Backflow take the runs of one edge      *)
(* apart.  Branches grow from one root, are not force-pushed, and picks    *)
(* do not conflict.  Nobody opts a commit or a branch out (skip trailer,   *)
(* drift: expected).                                                       *)
(***************************************************************************)
EXTENDS EquivalenceLadder

CONSTANTS
  Branches,
  Settings,     \* the graphs an instance looks at
  MaxCommits    \* bound on objects, larger than any history the settings make

(* promotions, sources and upstream (Backflow.Target) are the document's;  *)
(* methods is how people merge requests for promotion, returnMethods those *)
(* for backflow; work bounds the commits people make and reverts those of  *)
(* them that take something out.                                           *)
Methods == {"merge", "squash", "rebase"}
Setting == [promotions: SUBSET (Branches \X Branches), sources: SUBSET Branches,
            upstream: Branches, strategy: {"cherry-pick", "merge"},
            methods: SUBSET Methods, returnMethods: SUBSET Methods,
            work: Nat, reverts: Nat]

ASSUME GraphAssumption ==
  /\ Settings \subseteq Setting
  /\ \A s \in Settings : s.upstream \notin s.sources
  /\ MaxCommits \in Nat
  /\ None \notin Nat

VARIABLES
  setting,     \* chosen at the start
  provenance,  \* provenance[n]: the commits that n's message names as its origin
  head,        \* the heads of the branches
  open,        \* open[e]: the head on record in the open request of edge e, or None
  latest,      \* latest[e]: that of the newest merged request, or None
  request,     \* request[s]: the open backflow request of source s, or None
  returned,    \* the commits that merged backflow requests carried (history),
  unnamed,     \*   and those that a squash carried without naming any
  retracted,   \* the changes somebody took out (history)
  work         \* the commits people made

objects == <<commits, provenance>>
forge == <<open, latest, request>>
history == <<returned, unnamed, retracted, work>>
vars == <<setting, objects, head, forge, history>>

Edges == setting.promotions
Sources == setting.sources
Upstream == setting.upstream
Merging == setting.strategy = "merge"
Used == {Upstream} \cup UNION {{e[1], e[2]} : e \in Edges}
Into(s) == {e \in Edges : e[2] = s}

(* A backflow request is its branch: named after the head of the source,   *)
(* and a replay of picks on a commit of the target.                        *)
Request == [name: Nat, base: Nat, picks: SUBSET Nat]

TypeOK ==
  /\ setting \in Settings
  /\ commits \in Seq(Commit) /\ provenance \in Seq(SUBSET Nat)
  /\ Len(provenance) = Len(commits)
  /\ head \in [Branches -> DOMAIN commits]
  /\ open \in [Edges -> Nat \cup {None}] /\ latest \in [Edges -> Nat \cup {None}]
  /\ request \in [Sources -> Request \cup {None}]
  /\ returned \subseteq Nat /\ unnamed \subseteq Nat /\ retracted \subseteq Changes
  /\ work \in Nat

Init ==
  /\ setting \in Settings
  /\ commits = <<Root>> /\ provenance = <<{}>>
  /\ head = [b \in Branches |-> 1]
  /\ open = [e \in Edges |-> None] /\ latest = [e \in Edges |-> None]
  /\ request = [s \in Sources |-> None]
  /\ returned = {} /\ unnamed = {} /\ retracted = {}
  /\ work = 0

-----------------------------------------------------------------------------
(* Plan. *)

Clone(e) == [source |-> head[e[1]], target |-> head[e[2]]]

Behind(e) == Unpromoted(Clone(e), latest[e])

EdgePlan(e) ==
  Planned(Behind(e), IF open[e] = None THEN None ELSE [baseline |-> open[e]], head[e[1]])

(* The commits of from..to that carry a diff.                              *)
Returnable(e) == {n \in UniqueCommits(head[e[1]], head[e[2]]) : HasPatch(n)}

(* The range ends at the merge base of target and source (#85).            *)
MutantMergeBaseRange(candidates) ==
  UNION {UniqueCommits(MergeBase(head[s], head[Upstream]), head[Upstream]) : s \in Sources}

(* The target without the common ancestors of the candidates.              *)
ReturnedRange(candidates) ==
  {n \in Reach(head[Upstream]) : \E c \in candidates : ~IsAncestor(n, c)}

IsReturned(n, range) ==
  \/ \E m \in range : n \in provenance[m]
  \/ \E m \in range : HasPatch(m) /\ Diff(m) = Diff(n)

EdgeToReturn(e) ==
  IF Merging THEN UniqueCommits(head[Upstream], head[e[2]])
  ELSE LET range == ReturnedRange(Returnable(e))
       IN {n \in Returnable(e) : ~IsReturned(n, range)}

MutantEveryEdge(s) ==
  {n \in UniqueCommits(head[Upstream], head[s]) : \A e \in Into(s) : n \in EdgeToReturn(e)}

(* backflowActionState: the union over the edges into the source, ordered  *)
(* by, and so cut down to, target..source.                                 *)
ToReturn(s) ==
  (UNION {EdgeToReturn(e) : e \in Into(s)}) \cap UniqueCommits(head[Upstream], head[s])

(* Only edges into a branch that is no source are reported.                *)
Diverged == {e \in Edges : e[2] \notin Sources /\ Drifted(Clone(e)) # {}}

-----------------------------------------------------------------------------
(* Replays. *)

(* The last pick that touches a change decides.                            *)
TreeAfter(base, picks) ==
  {x \in Changes :
     LET touching == {n \in picks : x \in Diff(n).added \cup Diff(n).removed}
     IN IF touching = {} THEN x \in Tree(base) ELSE x \in Diff(Max(touching)).added}

MutantKeepsEmpty(base, picks) == picks

(* git cherry-pick -x --empty=drop keeps the picks that change something.   *)
Kept(base, picks) ==
  {n \in picks : TreeAfter(base, {m \in picks : m <= n})
                   # TreeAfter(base, {m \in picks : m < n})}

(* Oldest first; there is one such order.                                  *)
Replays(base, picks) ==
  LET kept == Kept(base, picks)
  IN {s \in [1..Cardinality(kept) -> kept] : \A i, j \in DOMAIN s : i < j => s[i] < s[j]}

(* What provenanceSHAs finds in the message of a pick of n: the line for n *)
(* joins the last paragraph and hides the line that ended it.              *)
NamedBy(n) ==
  {n} \cup IF provenance[n] = {} THEN {} ELSE provenance[n] \ {Max(provenance[n])}

(* The commits of a replay on base.                                        *)
Chain(base, replay) ==
  [i \in DOMAIN replay |->
     [parents |-> <<IF i = 1 THEN base ELSE Len(commits) + i - 1>>,
      tree |-> TreeAfter(base, {replay[j] : j \in 1..i}),
      reach |-> Reach(base) \cup Len(commits) + 1 .. Len(commits) + i]]

ThreeWay(base, a, b) == (a \cap b) \cup ((a \cup b) \ base)

-----------------------------------------------------------------------------
(* Apply. *)

MutantNeverCloses(e) ==
  IF EdgePlan(e) \in {"create", "update"} THEN head[e[1]] ELSE open[e]

AfterPlan(e) ==
  CASE EdgePlan(e) \in {"create", "update"} -> head[e[1]]
    [] EdgePlan(e) = "close" -> None
    [] OTHER -> open[e]

(* There is something to push.                                             *)
Proposes(s) ==
  /\ ToReturn(s) # {}
  /\ Merging \/ Kept(head[Upstream], ToReturn(s)) # {}

(* A new head of the source means a new request, and the older is closed.  *)
AfterApply(s) ==
  IF Proposes(s)
  THEN [name |-> head[s], base |-> head[Upstream], picks |-> ToReturn(s)]
  ELSE request[s]

Run ==
  /\ open' = [e \in Edges |-> AfterPlan(e)]
  /\ request' = [s \in Sources |-> AfterApply(s)]
  /\ UNCHANGED <<setting, objects, head, latest, history>>

-----------------------------------------------------------------------------
(* People merge what is proposed. *)

Lands(b, new, names) ==
  /\ Len(commits) + Len(new) <= MaxCommits
  /\ commits' = commits \o new
  /\ provenance' = provenance \o names
  /\ head' = [head EXCEPT ![b] = Len(commits) + Len(new)]

(* The forge merges the live branch; the record is what Oiax last wrote.   *)
(* The message of a squash repeats those of the commits, or is the title    *)
(* and the body of the request, and then names no origin.                  *)
MergePromotion(e, method) ==
  LET from == head[e[1]]
      to == head[e[2]]
      range == UniqueCommits(to, from)
  IN /\ open[e] # None /\ method \in setting.methods /\ range # {}
     /\ \/ /\ method = "merge"
           /\ Lands(e[2], <<MergeOf(to, from, MergedTree(to, from))>>, <<{}>>)
        \/ /\ method = "squash"
           /\ \E names \in {UNION {provenance[n] : n \in range}, {}} :
                Lands(e[2], <<Child(to, MergedTree(to, from))>>, <<names>>)
        \/ /\ method = "rebase"
           /\ \A n \in range : ~IsMerge(n)
           /\ Kept(to, range) # {}
           /\ \E replay \in Replays(to, range) :
                Lands(e[2], Chain(to, replay), [i \in DOMAIN replay |-> provenance[replay[i]]])
     /\ open' = [open EXCEPT ![e] = None]
     /\ latest' = [latest EXCEPT ![e] = open[e]]
     /\ UNCHANGED <<setting, request, history>>

(* The branch of a request holds a replay on the base of its last push,    *)
(* or with strategy: merge a merge of the source into that base, which has *)
(* to land as a merge commit (expectedMergeMethod).                        *)
ReplayBranch(q) ==
  {<<Chain(q.base, replay), [i \in DOMAIN replay |-> NamedBy(replay[i])]>> :
     replay \in Replays(q.base, q.picks)}

(* The forge merges the branch with a tree into the upstream.               *)
MergeInto(branch, tree) ==
  LET top == Len(commits) + Len(branch)
  IN Append(branch, [parents |-> <<head[Upstream], top>>, tree |-> tree,
                     reach |-> Reach(head[Upstream]) \cup branch[Len(branch)].reach \cup {top + 1}])

Carried(q, method) ==
  IF Merging THEN q.picks
  ELSE Kept(IF method = "rebase" THEN head[Upstream] ELSE q.base, q.picks)

(* named: the message of the squash names the picks.  People keep the names *)
(* when picks come back that they squashed without: else a hotfix and its  *)
(* revert, whose squash is empty, could be proposed for ever.              *)
MergeReturn(s, method, named) ==
  LET q == request[s]
      to == head[Upstream]
      picked == TreeAfter(q.base, q.picks)
      back == MergeOf(q.base, q.name, MergedTree(q.base, q.name))
  IN /\ q # None /\ method \in setting.returnMethods
     /\ Carried(q, method) # {}
     /\ named \/ (method = "squash" /\ ~(Carried(q, method) \subseteq unnamed))
     /\ \/ /\ Merging /\ method = "merge"
           /\ Lands(Upstream, MergeInto(<<back>>, ThreeWay(Tree(q.base), Tree(to), back.tree)),
                    <<{}, {}>>)
        \/ /\ ~Merging /\ method = "merge"
           /\ \E branch \in ReplayBranch(q) :
                Lands(Upstream, MergeInto(branch[1], ThreeWay(Tree(q.base), Tree(to), picked)),
                      Append(branch[2], {}))
        \/ /\ ~Merging /\ method = "squash"
           /\ Lands(Upstream, <<Child(to, ThreeWay(Tree(q.base), Tree(to), picked))>>,
                    <<IF named THEN UNION {NamedBy(n) : n \in Kept(q.base, q.picks)} ELSE {}>>)
        \/ /\ ~Merging /\ method = "rebase"
           /\ \E branch \in ReplayBranch([q EXCEPT !.base = to]) :
                Lands(Upstream, branch[1], branch[2])
     /\ request' = [request EXCEPT ![s] = None]
     /\ IF named THEN returned' = returned \cup Carried(q, method) /\ UNCHANGED unnamed
        ELSE unnamed' = unnamed \cup Carried(q, method) /\ UNCHANGED returned
     /\ UNCHANGED <<setting, open, latest, retracted, work>>

(* What came back another way leaves a request that Oiax does not close.   *)
CloseReturn(s) ==
  /\ request[s] # None /\ ~Merging
  /\ Kept(head[Upstream], request[s].picks) = {}
  /\ request' = [request EXCEPT ![s] = None]
  /\ UNCHANGED <<setting, objects, head, open, latest, history>>

-----------------------------------------------------------------------------
(* People commit. *)

Made == UNION {Tree(n) : n \in DOMAIN commits}
Removed == UNION {Diff(n).removed : n \in DOMAIN commits \ {1}}

Write(b, tree, names) ==
  /\ work < setting.work /\ work' = work + 1
  /\ Lands(b, <<Child(head[b], tree)>>, <<names>>)
  /\ UNCHANGED <<setting, forge, returned, unnamed>>

(* A change lands upstream or, as a hotfix, anywhere downstream.            *)
Land(b, x) ==
  /\ x \notin Made
  /\ Write(b, Tree(head[b]) \cup {x}, {})
  /\ UNCHANGED retracted

(* A commit is picked to another branch by hand.                            *)
PickByHand(b, n) ==
  /\ HasPatch(n) /\ Diff(n).removed = {}
  /\ Diff(n).added \cap (Tree(head[b]) \cup Removed) = {}
  /\ Write(b, Tree(head[b]) \cup Diff(n).added, provenance[n])
  /\ UNCHANGED retracted

Revert(b, x) ==
  /\ x \in Tree(head[b])
  /\ Cardinality(retracted) < setting.reverts
  /\ retracted' = retracted \cup {x}
  /\ Write(b, Tree(head[b]) \ {x}, {})

Work ==
  \/ \E b \in Used, x \in Changes : Land(b, x) \/ Revert(b, x)
  \/ \E b \in Used, n \in UNION {Reach(head[c]) : c \in Used} : n # 1 /\ PickByHand(b, n)

Merge ==
  \/ \E e \in Edges, m \in setting.methods : MergePromotion(e, m)
  \/ \E s \in Sources, m \in setting.returnMethods, named \in BOOLEAN : MergeReturn(s, m, named)
  \/ \E s \in Sources : CloseReturn(s)

Next == Run \/ Merge \/ Work

Spec == Init /\ [][Next]_vars

(* The workflow runs on a schedule, and people merge what is proposed.     *)
FairSpec == Spec /\ WF_vars(Run) /\ WF_vars(Merge)

-----------------------------------------------------------------------------
(* backflowReturned: "That bound is what makes a return durable".  A commit *)
(* that a merged backflow request carried is never planned again, wherever  *)
(* its twin was promoted since, unless the request was squashed under a     *)
(* message that names no pick.                                              *)
ReturnIsDurable == \A s \in Sources : ToReturn(s) \cap returned = {}

Touched(n) == Diff(n).added \cup Diff(n).removed

(* "its content already reached the target through a squash": what was      *)
(* squashed under such a message is planned again, run after run, but Apply *)
(* drops its pick and proposes nothing, until somebody takes its change out *)
(* upstream or reverts it.                                                 *)
UnnamedIsDropped ==
  \A s \in Sources : \A n \in Kept(head[Upstream], ToReturn(s)) \cap unnamed :
    Touched(n) \cap retracted # {}

(* The guide on squash merges: of a squashed return "all of the returned    *)
(* commits are recognized as already-returned and none is re-proposed".     *)
SquashedReturnRecognized == \A s \in Sources : ToReturn(s) \cap unnamed = {}

Carries(n, x) == IF IsMerge(n) THEN x \in Tree(n) ELSE x \in Diff(n).added

(* Promotions lead from a to b: a is in every set of branches that b is in  *)
(* and that has with a branch the ones promoted into it.                   *)
Leads(a, b) ==
  \A B \in SUBSET Branches :
    b \in B /\ (\A e \in Edges : e[2] \in B => e[1] \in B) => a \in B

(* The branches that get what is upstream, and those that feed them.  A     *)
(* document may also have others, which no return can reach.               *)
Fed == {b \in Used : Leads(Upstream, b)}
Joined == {b \in Used : \E c \in Fed : Leads(b, c)}

(* backflowActionState: a change that a source has and the upstream lacks  *)
(* is among the commits to return, or some edge reports it: content one    *)
(* edge takes for promoted is not dropped when another shows it is not.    *)
NoHotfixOverlooked ==
  \A s \in Sources \cap Fed : \A x \in Tree(head[s]) \ (Tree(head[Upstream]) \cup retracted) :
    \/ \E q \in Sources : \E n \in ToReturn(q) : Carries(n, x)
    \/ \E e \in Diverged : \E n \in Drifted(Clone(e)) : Carries(n, x)

(* Nothing is left to do and nothing to merge.                             *)
Quiet ==
  /\ \A e \in Edges : open[e] = None /\ EdgePlan(e) = "none"
  /\ \A s \in Sources : request[s] = None /\ ~Proposes(s)

(* BuildPlan "derives the actions required to converge": when a run finds  *)
(* nothing to do, nothing to report and nothing to wait for, every branch  *)
(* of the graph holds the same changes, but for those taken out by hand.   *)
EverythingEverywhere ==
  Quiet /\ Diverged = {} =>
    \A b \in Joined, c \in Fed : Tree(head[b]) \ Tree(head[c]) \subseteq retracted

(* Requests do not breed requests for ever: once people stop committing,   *)
(* promotion and backflow of the same history come to rest.                *)
Settles == <>[]Quiet
=============================================================================
