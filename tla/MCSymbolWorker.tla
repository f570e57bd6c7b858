---------------------------- MODULE MCSymbolWorker ----------------------------
(* Model checking SymbolWorker: the dispatcher's goroutines are             *)
(* interchangeable.                                                         *)
EXTENDS SymbolWorker, TLC

FetcherSymmetry == Permutations(Fetchers)
=============================================================================
