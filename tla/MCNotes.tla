------------------------------ MODULE MCNotes ------------------------------
EXTENDS NotesStore, TLC
CONSTANTS w1, w2, w3
=============================================================================
