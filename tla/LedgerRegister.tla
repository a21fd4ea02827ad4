--------------------------- MODULE LedgerRegister ---------------------------
(***************************************************************************)
(* What the notes reference promises: one value that only ever grows by    *)
(* whole updates, each applied to the value before it.  No update is       *)
(* overwritten, none is applied to a value that is no longer current.      *)
(***************************************************************************)
EXTENDS Sequences

CONSTANT Writers
VARIABLE history    \* the updates applied so far, in order

Init == history = << >>
Apply(w) == history' = Append(history, w)
Next == \E w \in Writers : Apply(w)
Spec == Init /\ [][Next]_history
=============================================================================
