------------------------------ MODULE MCThreadPool ------------------------------
(* ThreadPool for TLC.                                                      *)
EXTENDS ThreadPool, TLC

\* Tasks are interchangeable: nothing orders or names them.
TaskSymmetry == Permutations(Tasks)
================================================================================
