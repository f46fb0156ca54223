------------------------------ MODULE MCThreadLife ------------------------------
(***************************************************************************)
(* ThreadLife for TLC: the clients' objects are interchangeable.           *)
(***************************************************************************)
EXTENDS ThreadLife, TLC

ObjectSymmetry == Permutations(Objects)
================================================================================
