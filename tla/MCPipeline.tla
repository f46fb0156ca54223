------------------------------ MODULE MCPipeline ------------------------------
(***************************************************************************)
(* Pipeline for TLC: the threads are interchangeable.                      *)
(***************************************************************************)
EXTENDS Pipeline

ThreadSymmetry == Permutations(Threads)
================================================================================
