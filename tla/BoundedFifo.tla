------------------------------ MODULE BoundedFifo ------------------------------
(***************************************************************************)
(* What a bounded queue promises to its callers: elements leave in the     *)
(* order in which they entered, none is lost, duplicated or invented, a    *)
(* push is refused exactly when the queue is full and a pop comes back     *)
(* empty-handed exactly when it is empty.                                  *)
(***************************************************************************)
EXTENDS Naturals, Sequences

CONSTANTS
    Elements,   \* what may be queued
    Capacity,   \* how many elements fit
    NoData      \* what a pop of an empty queue hands out

VARIABLES
    items,      \* the queued elements, oldest first
    answer      \* what the last call returned

Result(call, success, element) ==
    [op |-> call, ok |-> success, data |-> element]

Init ==
    /\ items = <<>>
    /\ answer = Result("none", TRUE, NoData)

Push(e) ==
    /\ Len(items) < Capacity
    /\ items' = Append(items, e)
    /\ answer' = Result("push", TRUE, e)

PushRefused(e) ==
    /\ Len(items) = Capacity
    /\ answer' = Result("push", FALSE, e)
    /\ UNCHANGED items

Pop ==
    /\ items # <<>>
    /\ items' = Tail(items)
    /\ answer' = Result("pop", TRUE, Head(items))

PopEmpty ==
    /\ items = <<>>
    /\ answer' = Result("pop", FALSE, NoData)
    /\ UNCHANGED items

Next ==
    \/ \E e \in Elements : Push(e) \/ PushRefused(e)
    \/ Pop
    \/ PopEmpty

Spec == Init /\ [][Next]_<<items, answer>>
================================================================================
