------------------------------ MODULE MCFifoQueue ------------------------------
(* FifoQueue for TLC: the values a size() of a small queue is told apart by. *)
EXTENDS FifoQueue

\* Stands in for 2^64: large enough that a size that wrapped below zero is not taken for
\* one that a small queue can have.
MCSizeModulus == 64
================================================================================
