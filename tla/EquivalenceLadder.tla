-------------------------- MODULE EquivalenceLadder --------------------------
(***************************************************************************)
(* What the engine makes of one promotion edge (internal/engine): the      *)
(* equivalence ladder of EvaluateEdge, the filter of the divergence report *)
(* and planPromotion.  A clone is the two heads of the edge; baseline is   *)
(* the recorded head of the newest merged request, or None.                *)
(***************************************************************************)
EXTENDS CommitGraph

CONSTANT None

(* A candidate without a patch-id is never found by content.               *)
PromotedByContent(c, patches) == HasPatch(c) /\ Diff(c) \in patches

CommitExists(clone, n) == n \in Reach(clone.source) \cup Reach(clone.target)

MutantBaselineCoversAll(clone, baseline) ==
  IF baseline = None THEN {} ELSE Reach(clone.source)

MutantAncestrySwapped(clone, baseline) ==
  IF baseline = None THEN {} ELSE {c \in Reach(clone.source) : IsAncestor(baseline, c)}

(* baselinePromoted: a recorded head that is gone switches the rung off.   *)
PromotedByBaseline(clone, baseline) ==
  IF baseline = None THEN {}
  ELSE IF ~CommitExists(clone, baseline) THEN {}
  ELSE Reach(baseline)

(* Rungs 1 to 4 of EvaluateEdge: what none of them settles.                *)
Unpromoted(clone, baseline) ==
  LET s == clone.source
      t == clone.target
      patches == PatchIDs(MergeBase(s, t), t)
      remaining == {c \in UniqueCommits(t, s) : ~PromotedByContent(c, patches)}
  IN IF Tree(s) = Tree(t) THEN {} ELSE remaining \ PromotedByBaseline(clone, baseline)

MutantMergesBenign(clone) ==
  LET patches == PatchIDs(MergeBase(clone.source, clone.target), clone.source)
  IN {c \in UniqueCommits(clone.source, clone.target) :
        HasPatch(c) /\ Diff(c) \notin patches}

(* observeDownstreamReport: what is reported as divergence.                *)
Drifted(clone) ==
  LET patches == PatchIDs(MergeBase(clone.source, clone.target), clone.source)
  IN {c \in UniqueCommits(clone.source, clone.target) :
        \/ HasPatch(c) /\ Diff(c) \notin patches
        \/ IsMerge(c) /\ ~MergeReproducible(c)}

MutantNeverUpdates(unpromoted, open, head) ==
  IF unpromoted = {} THEN IF open = None THEN "none" ELSE "close"
  ELSE IF open = None THEN "create" ELSE "none"

(* planPromotion *)
Planned(unpromoted, open, head) ==
  IF unpromoted = {} THEN IF open = None THEN "none" ELSE "close"
  ELSE IF open = None THEN "create"
  ELSE IF open.baseline # head THEN "update"
  ELSE "none"
=============================================================================
