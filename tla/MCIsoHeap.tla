------------------------------ MODULE MCIsoHeap ------------------------------
(* IsoHeap for TLC: the constants are set by the cfg files; threads are   *)
(* interchangeable.                                                        *)
EXTENDS IsoHeap, TLC

ThreadSymmetry == Permutations(Threads)
=============================================================================
