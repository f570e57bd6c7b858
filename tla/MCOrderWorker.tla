---------------------------- MODULE MCOrderWorker ----------------------------
(* Model values for OrderWorker.                                            *)
EXTENDS OrderWorker, TLC

SymbolPermutations == Permutations(Symbols)
=============================================================================
