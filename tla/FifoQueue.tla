------------------------------- MODULE FifoQueue -------------------------------
(***************************************************************************)
(* structure/fifoqueue.h: a FIFO over one array of m_length slots.         *)
(*                                                                         *)
(* Pushes fill the array from the front (m_push_index). Once the array is  *)
(* full they reuse the slots that pops have vacated at its front           *)
(* (m_new_index follows m_pop_index). When pops reach the end of the array *)
(* they switch: the reused prefix becomes the queue (pop_index, lines      *)
(* 65-68).                                                                 *)
(*                                                                         *)
(* push() and pop() run under m_sync_mutex, so they exclude each other;    *)
(* size() takes no lock. A push, and a pop before the switch, stores one   *)
(* index and is one step. The switch stores four times and is four steps,  *)
(* so that a reader of size() can run between them. size() loads the three *)
(* indexes one by one. The Makefiles build without optimisation: loads and *)
(* stores happen in program order.                                         *)
(***************************************************************************)
EXTENDS Naturals

CONSTANTS
    Elements,     \* the values of Type that are pushed
    Capacity,     \* the constructor's length
    NoData,       \* uninitialised memory, and the second of an empty pair
    SizeModulus,  \* 2^64: size_t arithmetic wraps here
    Readers       \* threads that call size()

ASSUME CapacityAssumption == Capacity \in Nat
ASSUME ModulusAssumption == SizeModulus \in Nat /\ 2 * Capacity < SizeModulus
ASSUME NoDataAssumption == NoData \notin Elements

VARIABLES
    m_push_index, \* slots filled from the front
    m_pop_index,  \* slots taken out
    m_new_index,  \* slots refilled behind m_pop_index
    m_data_array, \* the slots, 0 .. Capacity - 1
    switching,    \* the next store of a switch under way, or "no"
    answer,       \* what the last push() or pop() returned
    reading,      \* per reader: the index it loads next and what it has loaded
    sized         \* per reader: what its last size() returned

indexes == <<m_push_index, m_pop_index, m_new_index>>
vars == <<indexes, m_data_array, switching, answer, reading, sized>>

Result(call, success, element) ==
    [op |-> call, ok |-> success, data |-> element]

NotReading == [next |-> "push", push |-> 0, pop |-> 0]

Init ==
    /\ m_push_index = 0
    /\ m_pop_index = 0
    /\ m_new_index = 0
    /\ m_data_array = [i \in 0 .. Capacity - 1 |-> NoData]
    /\ switching = "no"
    /\ answer = Result("none", TRUE, NoData)
    /\ reading = [r \in Readers |-> NotReading]
    /\ sized = [r \in Readers |-> 0]

--------------------------------------------------------------------------------
\* push()

\* Variants with a plausible bug, which the properties must notice: a bound off by one,
\* a refill not held behind the pops, one that may catch up with and pass them.
PushBackOneTooMany(e) ==
    /\ m_push_index <= Capacity
    /\ m_push_index' = m_push_index + 1
    /\ m_data_array' = [m_data_array EXCEPT ![m_push_index] = e]
    /\ UNCHANGED <<m_pop_index, m_new_index>>

PushFrontUnchecked(e) ==
    /\ m_push_index >= Capacity
    /\ m_new_index' = m_new_index + 1
    /\ m_data_array' = [m_data_array EXCEPT ![m_new_index] = e]
    /\ UNCHANGED <<m_push_index, m_pop_index>>

PushFrontOneTooMany(e) ==
    /\ m_push_index >= Capacity
    /\ m_new_index <= m_pop_index
    /\ m_new_index' = m_new_index + 1
    /\ m_data_array' = [m_data_array EXCEPT ![m_new_index] = e]
    /\ UNCHANGED <<m_push_index, m_pop_index>>

\* push_index, first branch: the back of the array has room.
PushBack(e) ==
    /\ m_push_index < Capacity
    /\ m_push_index' = m_push_index + 1
    /\ m_data_array' = [m_data_array EXCEPT ![m_push_index] = e]
    /\ UNCHANGED <<m_pop_index, m_new_index>>

\* push_index, second branch: a slot at the front has been vacated.
PushFront(e) ==
    /\ m_push_index >= Capacity
    /\ m_new_index < m_pop_index
    /\ m_new_index' = m_new_index + 1
    /\ m_data_array' = [m_data_array EXCEPT ![m_new_index] = e]
    /\ UNCHANGED <<m_push_index, m_pop_index>>

NoSlot == m_push_index >= Capacity /\ m_new_index >= m_pop_index

Push(e) ==
    /\ switching = "no"
    /\ \/ /\ PushBack(e) \/ PushFront(e)
          /\ answer' = Result("push", TRUE, e)
       \/ /\ NoSlot
          /\ answer' = Result("push", FALSE, e)
          /\ UNCHANGED <<indexes, m_data_array>>
    /\ UNCHANGED <<switching, reading, sized>>

--------------------------------------------------------------------------------
\* pop()

BackIsEmpty == m_pop_index >= m_push_index

\* A variant that switches to a front nobody has refilled.
SwitchOnEmpty == BackIsEmpty /\ m_push_index >= Capacity
SwitchNeeded == BackIsEmpty /\ m_push_index >= Capacity /\ m_new_index > 0

\* pop_index, first branch.
PopBack ==
    /\ switching = "no"
    /\ ~BackIsEmpty
    /\ m_pop_index' = m_pop_index + 1
    /\ answer' = Result("pop", TRUE, m_data_array[m_pop_index])
    /\ UNCHANGED <<m_push_index, m_new_index, m_data_array, switching, reading, sized>>

PopEmpty ==
    /\ switching = "no"
    /\ BackIsEmpty /\ ~SwitchNeeded
    /\ answer' = Result("pop", FALSE, NoData)
    /\ UNCHANGED <<indexes, m_data_array, switching, reading, sized>>

\* pop_index, second branch, store by store. The mutex is held throughout.
SwitchPush ==
    /\ switching = "no"
    /\ SwitchNeeded
    /\ m_push_index' = m_new_index
    /\ switching' = "new"
    /\ UNCHANGED <<m_pop_index, m_new_index, m_data_array, answer, reading, sized>>

SwitchNew ==
    /\ switching = "new"
    /\ m_new_index' = 0
    /\ switching' = "pop"
    /\ UNCHANGED <<m_push_index, m_pop_index, m_data_array, answer, reading, sized>>

SwitchPop ==
    /\ switching = "pop"
    /\ m_pop_index' = 0
    /\ switching' = "take"
    /\ UNCHANGED <<m_push_index, m_new_index, m_data_array, answer, reading, sized>>

SwitchTake ==
    /\ switching = "take"
    /\ m_pop_index' = m_pop_index + 1
    /\ switching' = "no"
    /\ answer' = Result("pop", TRUE, m_data_array[m_pop_index])
    /\ UNCHANGED <<m_push_index, m_new_index, m_data_array, reading, sized>>

--------------------------------------------------------------------------------
\* size(): m_push_index - m_pop_index + m_new_index, without the mutex

LoadPush(r) ==
    /\ reading[r].next = "push"
    /\ reading' = [reading EXCEPT ![r] = [next |-> "pop", push |-> m_push_index, pop |-> 0]]
    /\ UNCHANGED <<indexes, m_data_array, switching, answer, sized>>

LoadPop(r) ==
    /\ reading[r].next = "pop"
    /\ reading' = [reading EXCEPT ![r].next = "new", ![r].pop = m_pop_index]
    /\ UNCHANGED <<indexes, m_data_array, switching, answer, sized>>

LoadNew(r) ==
    /\ reading[r].next = "new"
    /\ sized' = [sized EXCEPT ![r] =
           (reading[r].push + (SizeModulus - reading[r].pop) + m_new_index) % SizeModulus]
    /\ reading' = [reading EXCEPT ![r] = NotReading]
    /\ UNCHANGED <<indexes, m_data_array, switching, answer>>

--------------------------------------------------------------------------------
Next ==
    \/ \E e \in Elements : Push(e)
    \/ PopBack \/ PopEmpty
    \/ SwitchPush \/ SwitchNew \/ SwitchPop \/ SwitchTake
    \/ \E r \in Readers : LoadPush(r) \/ LoadPop(r) \/ LoadNew(r)

Spec == Init /\ [][Next]_vars

--------------------------------------------------------------------------------
\* The type invariant of the three indexes, the array and the readers.
TypeOK ==
    /\ m_push_index \in 0 .. Capacity
    /\ m_pop_index \in 0 .. Capacity
    /\ m_new_index \in 0 .. Capacity
    /\ m_data_array \in [0 .. Capacity - 1 -> Elements \cup {NoData}]
    /\ switching \in {"no", "new", "pop", "take"}
    /\ answer \in [op : {"none", "push", "pop"}, ok : BOOLEAN, data : Elements \cup {NoData}]
    /\ reading \in [Readers -> [next : {"push", "pop", "new"},
                                push : 0 .. Capacity, pop : 0 .. Capacity]]
    /\ sized \in [Readers -> 0 .. SizeModulus - 1]

\* Whenever the mutex is free, pops have not overtaken pushes, refills have not overtaken
\* pops, and the front is refilled only behind a full back. While a switch is under way
\* the array's prefix is the whole queue.
IndexInv ==
    /\ switching = "no" =>
         /\ m_new_index <= m_pop_index /\ m_pop_index <= m_push_index
         /\ m_new_index > 0 => m_push_index = Capacity
    /\ switching # "no" => m_push_index > 0
    /\ switching = "new" => m_new_index = m_push_index
    /\ switching \in {"pop", "take"} => m_new_index = 0
    /\ switching = "take" => m_pop_index = 0

\* How far an unlocked size() can be off: it is a number of elements up to twice the
\* capacity, or wraps below zero by at most the capacity. Its callers (thread.cc lines
\* 337, 452 and 486) act on such a value.
TornSizeRange ==
    \A r \in Readers : sized[r] <= 2 * Capacity \/ sized[r] >= SizeModulus - Capacity

\* fifoqueue.h line 113: size() returns the used size of the queue, which is never more
\* than its length.
SizeWithinCapacity == \A r \in Readers : sized[r] <= Capacity

--------------------------------------------------------------------------------
\* The queue the indexes stand for: the back of the array from m_pop_index, then the
\* refilled front; during a switch, the prefix that the switch makes the queue.
first == IF switching = "no" THEN m_pop_index ELSE 0
back == m_push_index - first
front == IF switching = "no" THEN m_new_index ELSE 0

Items ==
    [k \in 1 .. back + front |->
        m_data_array[IF k <= back THEN first + k - 1 ELSE k - back - 1]]

Abstract == INSTANCE BoundedFifo WITH items <- Items

\* Every call of push() and pop() returns what a bounded FIFO would: the array with its
\* three indexes implements BoundedFifo, across the switch and for every interleaving
\* with unlocked readers.
ImplementsFifo == Abstract!Spec
================================================================================
