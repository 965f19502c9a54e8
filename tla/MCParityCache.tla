---------------------------- MODULE MCParityCache ----------------------------
(***************************************************************************)
(* Instance of ParityCache for TLC: threads are interchangeable.           *)
(***************************************************************************)
EXTENDS ParityCache, TLC

ThreadSymmetry == Permutations(Threads)
=============================================================================
