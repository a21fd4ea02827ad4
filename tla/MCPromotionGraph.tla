-------------------------- MODULE MCPromotionGraph --------------------------
(***************************************************************************)
(* The graphs of the run of PromotionGraph: loops of two branches, lines   *)
(* of three, a diamond and a join.                                         *)
(***************************************************************************)
EXTENDS PromotionGraph, TLC

CONSTANTS x1, x2, dev, st, qa, main

Loop(strategy, methods, n, reverts) ==
  [promotions |-> {<<dev, main>>}, sources |-> {main}, upstream |-> dev,
   strategy |-> strategy, methods |-> methods, returnMethods |-> Methods,
   work |-> n, reverts |-> reverts]
Line(sources, strategy, n) ==
  [promotions |-> {<<dev, st>>, <<st, main>>}, sources |-> sources, upstream |-> dev,
   strategy |-> strategy, methods |-> {"merge"}, returnMethods |-> Methods,
   work |-> n, reverts |-> 0]
Diamond ==
  [promotions |-> {<<dev, st>>, <<dev, qa>>, <<st, main>>, <<qa, main>>},
   sources |-> {main}, upstream |-> dev, strategy |-> "cherry-pick",
   methods |-> {"merge"}, returnMethods |-> {"merge"}, work |-> 2, reverts |-> 0]
Join ==
  [Diamond EXCEPT !.promotions = {<<dev, main>>, <<qa, main>>}, !.methods = {"merge", "rebase"}]
(* How requests may be merged: a merge-strategy return has to land as a    *)
(* merge commit, and some repositories keep every branch linear.           *)
Only(s, method) == [s EXCEPT !.methods = {method}, !.returnMethods = {method}]

Graphs ==
  {Loop("cherry-pick", Methods, 3, 1), Only(Loop("cherry-pick", {}, 4, 1), "rebase"),
   Line({main}, "cherry-pick", 3), Line({st, main}, "cherry-pick", 2), Diamond, Join,
   Only(Loop("merge", {}, 4, 0), "merge"), Only(Line({st, main}, "merge", 2), "merge")}
=============================================================================
