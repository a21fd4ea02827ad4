---------------------------- MODULE MCPromotion ----------------------------
(***************************************************************************)
(* Model values for the runs of Promotion.                                 *)
(***************************************************************************)
EXTENDS Promotion

CONSTANTS r1, x1, x2
=============================================================================
