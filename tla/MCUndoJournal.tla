--------------------------- MODULE MCUndoJournal ---------------------------
(* Small instances of UndoJournal. *)
EXTENDS UndoJournal, TLC

CONSTANTS g1, g2, a1, a2, u1, u2, v1, v2

MCSymmetry == Permutations(Groups) \cup Permutations(Undos) \cup Permutations(Values)
=============================================================================
