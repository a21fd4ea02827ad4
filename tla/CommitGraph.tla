---------------------------- MODULE CommitGraph ----------------------------
(***************************************************************************)
(* What git answers about the commits of a repository (internal/git).      *)
(*                                                                         *)
(* A commit is named by its number in the order of creation, so parents    *)
(* have smaller numbers.  A tree is the set of changes it contains; a      *)
(* plain commit adds or removes some.  A stable patch-id stands for the    *)
(* diff to the first parent, which a rebase or a cherry-pick preserves.    *)
(* Trees merge three ways without conflicts.                               *)
(***************************************************************************)
EXTENDS Naturals, Sequences, FiniteSets, FiniteSetsExt

CONSTANT Changes

VARIABLE commits    \* all objects ever made, branches only point to them

Commit == [parents: Seq(Nat), tree: SUBSET Changes, reach: SUBSET Nat]

Root == [parents |-> << >>, tree |-> {}, reach |-> {1}]

Tree(n) == commits[n].tree
Reach(n) == commits[n].reach

IsAncestor(a, n) == a \in Reach(n)

(* base..tip *)
UniqueCommits(base, tip) == Reach(tip) \ Reach(base)

(* The best common ancestor; all branches grow from one root.              *)
MergeBase(a, b) ==
  LET common == Reach(a) \cap Reach(b)
  IN CHOOSE n \in common : \A m \in common : m <= n

IsMerge(n) == Len(commits[n].parents) > 1

Parent(n) == commits[n].parents[1]

Diff(n) == [added |-> Tree(n) \ Tree(Parent(n)), removed |-> Tree(Parent(n)) \ Tree(n)]

(* Merges and empty commits have no patch-id, and the root is in no range.  *)
HasPatch(n) ==
  /\ Len(commits[n].parents) = 1
  /\ Tree(n) # Tree(Parent(n))

PatchIDs(base, tip) == {Diff(n) : n \in {m \in UniqueCommits(base, tip) : HasPatch(m)}}

MergedTree(a, b) ==
  LET base == Tree(MergeBase(a, b))
  IN (Tree(a) \cap Tree(b)) \cup ((Tree(a) \cup Tree(b)) \ base)

(* Merging the parents again gives this very tree.                         *)
MergeReproducible(n) ==
  Tree(n) = MergedTree(commits[n].parents[1], commits[n].parents[2])

(* The commit that would get the next number.                              *)
NextNumber == Len(commits) + 1

Child(parent, tree) ==
  [parents |-> <<parent>>, tree |-> tree, reach |-> Reach(parent) \cup {NextNumber}]

MergeOf(a, b, tree) ==
  [parents |-> <<a, b>>, tree |-> tree, reach |-> Reach(a) \cup Reach(b) \cup {NextNumber}]
=============================================================================
