------------------------------ MODULE MCFlusher -------------------------------
(* Model values for Flusher.                                                *)
EXTENDS Flusher, TLC

SlotSymmetry == Permutations(Slots)
=============================================================================
