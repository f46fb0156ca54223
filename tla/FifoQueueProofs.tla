---------------------------- MODULE FifoQueueProofs ----------------------------
(***************************************************************************)
(* The queue's invariants and its refinement, for every capacity.          *)
(***************************************************************************)
EXTENDS FifoQueue, Sequences, SequenceTheorems, TLAPS

\* TypeOK needs IndexInv: the index a pop reads is in range because pops have not
\* overtaken pushes.
QueueInv == TypeOK /\ IndexInv

LEMMA QueueInvInit == Init => QueueInv
  BY CapacityAssumption, ModulusAssumption, SMT
     DEF Init, QueueInv, TypeOK, IndexInv, Result, NotReading

\* A size computed modulo SizeModulus is in range, and it is either the number of
\* elements or that number wrapped below zero.
LEMMA SizeArithmetic ==
  ASSUME NEW p \in 0 .. Capacity, NEW q \in 0 .. Capacity, NEW n \in 0 .. Capacity
  PROVE  LET s == (p + (SizeModulus - q) + n) % SizeModulus
         IN  /\ s \in 0 .. SizeModulus - 1
             /\ s <= 2 * Capacity \/ s >= SizeModulus - Capacity
  <1> DEFINE s == (p + (SizeModulus - q) + n) % SizeModulus
  <1>1. CASE p + n >= q
    <2>1. s = p + n - q
      BY <1>1, CapacityAssumption, ModulusAssumption, SMT
    <2> QED BY <2>1, <1>1, CapacityAssumption, ModulusAssumption, SMT
  <1>2. CASE p + n < q
    <2>1. s = p + (SizeModulus - q) + n
      BY <1>2, CapacityAssumption, ModulusAssumption, SMT
    <2> QED BY <2>1, <1>2, CapacityAssumption, ModulusAssumption, SMT
  <1> QED BY <1>1, <1>2, CapacityAssumption, SMT

\* The step lemma: one step per action of the queue.
LEMMA QueueInvStep == QueueInv /\ [Next]_vars => QueueInv'
  <1> SUFFICES ASSUME QueueInv, [Next]_vars PROVE QueueInv'
    OBVIOUS
  <1> USE CapacityAssumption, ModulusAssumption DEF QueueInv
  <1>1. ASSUME NEW e \in Elements, Push(e) PROVE QueueInv'
    <2>1. answer' \in [op : {"none", "push", "pop"}, ok : BOOLEAN, data : Elements \cup {NoData}]
      <3>1. CASE answer' = Result("push", TRUE, e)
        BY <3>1 DEF Result
      <3>2. CASE answer' = Result("push", FALSE, e)
        BY <3>2 DEF Result
      <3> QED BY <1>1, <3>1, <3>2, Zenon DEF Push
    <2>2. UNCHANGED <<switching, reading, sized>> /\ switching = "no"
      BY <1>1 DEF Push
    <2>3. CASE PushBack(e)
      BY <2>1, <2>2, <2>3 DEF PushBack, TypeOK, IndexInv
    <2>4. CASE PushFront(e)
      BY <2>1, <2>2, <2>4 DEF PushFront, TypeOK, IndexInv
    <2>5. CASE UNCHANGED <<indexes, m_data_array>>
      BY <2>1, <2>2, <2>5 DEF TypeOK, IndexInv, indexes
    <2> QED BY <1>1, <2>3, <2>4, <2>5 DEF Push
  <1>2. CASE PopBack
    BY <1>2 DEF PopBack, BackIsEmpty, TypeOK, IndexInv, Result
  <1>3. CASE PopEmpty
    BY <1>3 DEF PopEmpty, TypeOK, IndexInv, Result, indexes
  <1>4. CASE SwitchPush
    BY <1>4 DEF SwitchPush, SwitchNeeded, BackIsEmpty, TypeOK, IndexInv
  <1>5. CASE SwitchNew
    BY <1>5 DEF SwitchNew, TypeOK, IndexInv
  <1>6. CASE SwitchPop
    BY <1>6 DEF SwitchPop, TypeOK, IndexInv
  <1>7. CASE SwitchTake
    BY <1>7 DEF SwitchTake, TypeOK, IndexInv, Result
  <1>8. ASSUME NEW r \in Readers, LoadPush(r) PROVE QueueInv'
    BY <1>8 DEF LoadPush, TypeOK, IndexInv, indexes
  <1>9. ASSUME NEW r \in Readers, LoadPop(r) PROVE QueueInv'
    BY <1>9 DEF LoadPop, TypeOK, IndexInv, indexes
  <1>10. ASSUME NEW r \in Readers, LoadNew(r) PROVE QueueInv'
    <2> DEFINE s == (reading[r].push + (SizeModulus - reading[r].pop) + m_new_index)
                      % SizeModulus
    <2>1. reading[r].push \in 0 .. Capacity /\ reading[r].pop \in 0 .. Capacity
      BY DEF TypeOK
    <2>2. s \in 0 .. SizeModulus - 1
      BY <2>1, SizeArithmetic DEF TypeOK
    <2> HIDE DEF s
    <2>3. sized' = [sized EXCEPT ![r] = s]
      BY <1>10 DEF LoadNew, s
    <2>4. sized' \in [Readers -> 0 .. SizeModulus - 1]
      BY <2>2, <2>3 DEF TypeOK
    <2>5. reading' = [reading EXCEPT ![r] = NotReading]
      BY <1>10 DEF LoadNew
    <2> QED BY <1>10, <2>4, <2>5 DEF LoadNew, NotReading, TypeOK, IndexInv, indexes
  <1>11. CASE UNCHANGED vars
    BY <1>11 DEF vars, indexes, TypeOK, IndexInv
  <1> QED BY <1>1, <1>2, <1>3, <1>4, <1>5, <1>6, <1>7, <1>8, <1>9, <1>10, <1>11 DEF Next

\* The indexes keep their order and every access to the array stays inside it, for every
\* capacity and any number of pushes, pops and unlocked readers.
THEOREM QueueIndexes == Spec => [](TypeOK /\ IndexInv)
  BY QueueInvInit, QueueInvStep, PTL DEF Spec, QueueInv

\* Every index stays between 0 and m_length, and what an unlocked size() has loaded too.
THEOREM QueueTypes == Spec => []TypeOK
  BY QueueIndexes, PTL

\* An unlocked size() is off by a bounded amount, for every capacity: what its callers
\* may be misled by.
THEOREM TornSizes == Spec => []TornSizeRange
  <1>1. Init => TornSizeRange
    BY CapacityAssumption DEF Init, TornSizeRange
  <1>2. QueueInv /\ TornSizeRange /\ [Next]_vars => TornSizeRange'
    <2> SUFFICES ASSUME QueueInv, TornSizeRange, [Next]_vars PROVE TornSizeRange'
      OBVIOUS
    <2>1. CASE UNCHANGED sized
      BY <2>1 DEF TornSizeRange
    <2>2. ASSUME NEW r \in Readers, LoadNew(r) PROVE TornSizeRange'
      <3> DEFINE s == (reading[r].push + (SizeModulus - reading[r].pop) + m_new_index)
                        % SizeModulus
      <3>1. reading[r].push \in 0 .. Capacity /\ reading[r].pop \in 0 .. Capacity
        BY DEF QueueInv, TypeOK
      <3>2. s <= 2 * Capacity \/ s >= SizeModulus - Capacity
        BY <3>1, SizeArithmetic DEF QueueInv, TypeOK
      <3> HIDE DEF s
      <3>3. sized' = [sized EXCEPT ![r] = s]
        BY <2>2 DEF LoadNew, s
      <3>4. \A q \in Readers : sized'[q] = s \/ sized'[q] = sized[q]
        BY <3>3 DEF QueueInv, TypeOK
      <3> QED BY <3>2, <3>4 DEF TornSizeRange
    <2> QED BY <2>1, <2>2
        DEF Next, Push, PopBack, PopEmpty, SwitchPush, SwitchNew, SwitchPop, SwitchTake,
            LoadPush, LoadPop, vars
  <1> QED BY <1>1, <1>2, QueueIndexes, PTL DEF Spec, QueueInv

--------------------------------------------------------------------------------
\* The refinement

\* The refinement mapping is a sequence of back + front slots.
ItemsShape ==
    /\ first \in Nat /\ back \in Nat /\ front \in Nat
    /\ first + back = m_push_index /\ front <= Capacity
    /\ Items \in Seq(Elements \cup {NoData})
    /\ Len(Items) = back + front

LEMMA ItemsSequence == QueueInv => ItemsShape
  <1> SUFFICES ASSUME QueueInv PROVE ItemsShape
    OBVIOUS
  <1>1. /\ first \in Nat /\ back \in Nat /\ front \in Nat
        /\ first + back = m_push_index /\ front <= Capacity
    BY CapacityAssumption DEF QueueInv, TypeOK, IndexInv, first, back, front
  <1>2. \A k \in 1 .. back + front : Items[k] \in Elements \cup {NoData}
    <2> TAKE k \in 1 .. back + front
    <2>1. (IF k <= back THEN first + k - 1 ELSE k - back - 1) \in 0 .. Capacity - 1
      BY <1>1, CapacityAssumption DEF QueueInv, TypeOK
    <2> QED BY <2>1 DEF Items, QueueInv, TypeOK
  <1>3. Items = [k \in 1 .. back + front |-> Items[k]]
    BY DEF Items
  <1>4. Items \in Seq(Elements \cup {NoData})
    BY <1>1, <1>2, <1>3, IsASeq
  <1>5. Len(Items) = back + front
    BY <1>1, <1>4, LenProperties DEF Items
  <1> QED BY <1>1, <1>4, <1>5 DEF ItemsShape

LEMMA MapInit == Init => Abstract!Init
  BY CapacityAssumption, SMT
     DEF Init, Abstract!Init, Result, Abstract!Result, Items, first, back, front

\* A push into the array is a push at the end of the sequence.
LEMMA MapPush ==
  ASSUME QueueInv, QueueInv', NEW e \in Elements, Push(e)
  PROVE  Abstract!Push(e) \/ Abstract!PushRefused(e)
  <1> USE CapacityAssumption
  <1>1. Items \in Seq(Elements \cup {NoData}) /\ Len(Items) = back + front
    BY ItemsSequence DEF ItemsShape
  <1>2. Items' \in Seq(Elements \cup {NoData}) /\ Len(Items') = back' + front'
    <2>1. ItemsShape'
      BY ItemsSequence, PTL
    <2> QED BY <2>1 DEF ItemsShape
  <1>3. CASE PushBack(e) \/ PushFront(e)
    <2>1. Len(Items) < Capacity /\ Len(Items') = Len(Items) + 1
      <3>1. CASE PushBack(e)
        BY <1>1, <1>2, <3>1
           DEF Push, PushBack, QueueInv, TypeOK, IndexInv, first, back, front
      <3>2. CASE PushFront(e)
        BY <1>1, <1>2, <3>2
           DEF Push, PushFront, QueueInv, TypeOK, IndexInv, first, back, front
      <3> QED BY <1>3, <3>1, <3>2
    <2>2. ASSUME NEW k \in 1 .. Len(Items) PROVE Items'[k] = Items[k]
      <3>1. CASE PushBack(e)
        BY <1>1, <1>2, <2>1, <3>1
           DEF Push, PushBack, QueueInv, TypeOK, IndexInv, Items, first, back, front
      <3>2. CASE PushFront(e)
        BY <1>1, <1>2, <2>1, <3>2
           DEF Push, PushFront, QueueInv, TypeOK, IndexInv, Items, first, back, front
      <3> QED BY <1>3, <3>1, <3>2
    <2>3. Items'[Len(Items) + 1] = e
      <3>1. CASE PushBack(e)
        BY <1>1, <1>2, <2>1, <3>1
           DEF Push, PushBack, QueueInv, TypeOK, IndexInv, Items, first, back, front
      <3>2. CASE PushFront(e)
        BY <1>1, <1>2, <2>1, <3>2
           DEF Push, PushFront, QueueInv, TypeOK, IndexInv, Items, first, back, front
      <3> QED BY <1>3, <3>1, <3>2
    <2>4. Items' = Append(Items, e)
      <3>1. /\ Append(Items, e) \in Seq(Elements \cup {NoData})
            /\ Len(Append(Items, e)) = Len(Items) + 1
            /\ \A k \in 1 .. Len(Items) : Append(Items, e)[k] = Items[k]
            /\ Append(Items, e)[Len(Items) + 1] = e
        BY <1>1, AppendProperties
      <3>2. \A k \in 1 .. Len(Items') : Items'[k] = Append(Items, e)[k]
        BY <1>1, <2>1, <2>2, <2>3, <3>1
      <3> QED BY <1>2, <2>1, <3>1, <3>2, SeqEqual
    <2>5. answer' = Abstract!Result("push", TRUE, e)
      BY <1>3 DEF Push, PushBack, PushFront, NoSlot, Result, Abstract!Result,
                  QueueInv, TypeOK
    <2> QED BY <2>1, <2>4, <2>5 DEF Abstract!Push
  <1>4. CASE ~(PushBack(e) \/ PushFront(e))
    <2>1. NoSlot /\ UNCHANGED <<indexes, m_data_array, switching>>
      BY <1>4 DEF Push
    <2>2. Len(Items) = Capacity
      BY <1>1, <2>1 DEF NoSlot, Push, QueueInv, TypeOK, IndexInv, first, back, front
    <2>3. Items' = Items
      BY <2>1 DEF Items, first, back, front, indexes
    <2>4. answer' = Abstract!Result("push", FALSE, e)
      BY <1>4 DEF Push, Result, Abstract!Result
    <2> QED BY <2>2, <2>3, <2>4 DEF Abstract!PushRefused
  <1> QED BY <1>3, <1>4

\* A pop, with or without the switch, takes the first element of the sequence.
LEMMA MapTake ==
  ASSUME QueueInv, QueueInv', PopBack \/ SwitchTake
  PROVE  Abstract!Pop
  <1> USE CapacityAssumption
  <1>1. Items \in Seq(Elements \cup {NoData}) /\ Len(Items) = back + front
    BY ItemsSequence DEF ItemsShape
  <1>2. Items' \in Seq(Elements \cup {NoData}) /\ Len(Items') = back' + front'
    <2>1. ItemsShape'
      BY ItemsSequence, PTL
    <2> QED BY <2>1 DEF ItemsShape
  <1>3. Len(Items) > 0 /\ Len(Items') = Len(Items) - 1
    <2>1. CASE PopBack
      BY <1>1, <1>2, <2>1
         DEF PopBack, BackIsEmpty, QueueInv, TypeOK, IndexInv, first, back, front
    <2>2. CASE SwitchTake
      BY <1>1, <1>2, <2>2 DEF SwitchTake, QueueInv, TypeOK, IndexInv, first, back, front
    <2> QED BY <2>1, <2>2
  <1>4. Items[1] = m_data_array[m_pop_index]
    <2>1. CASE PopBack
      BY <1>1, <1>3, <2>1
         DEF PopBack, BackIsEmpty, QueueInv, TypeOK, IndexInv, Items, first, back, front
    <2>2. CASE SwitchTake
      BY <1>1, <1>3, <2>2
         DEF SwitchTake, QueueInv, TypeOK, IndexInv, Items, first, back, front
    <2> QED BY <2>1, <2>2
  <1>5. \A k \in 1 .. Len(Items') : Items'[k] = Items[k + 1]
    <2> TAKE k \in 1 .. Len(Items')
    <2>1. CASE PopBack
      BY <1>1, <1>2, <1>3, <2>1
         DEF PopBack, BackIsEmpty, QueueInv, TypeOK, IndexInv, Items, first, back, front
    <2>2. CASE SwitchTake
      BY <1>1, <1>2, <1>3, <2>2
         DEF SwitchTake, QueueInv, TypeOK, IndexInv, Items, first, back, front
    <2> QED BY <2>1, <2>2
  <1>6. Items # <<>> /\ Items[1] = Head(Items)
    BY <1>1, <1>3, EmptySeq, HeadTailProperties
  <1>7. Items' = Tail(Items)
    <2>1. /\ Tail(Items) \in Seq(Elements \cup {NoData})
          /\ Len(Tail(Items)) = Len(Items) - 1
          /\ \A k \in 1 .. Len(Tail(Items)) : Tail(Items)[k] = Items[k + 1]
      BY <1>1, <1>6, HeadTailProperties
    <2> QED BY <1>2, <1>3, <1>5, <2>1, SeqEqual
  <1>8. answer' = Abstract!Result("pop", TRUE, Head(Items))
    BY <1>4, <1>6 DEF PopBack, SwitchTake, Result, Abstract!Result
  <1> QED BY <1>6, <1>7, <1>8 DEF Abstract!Pop

LEMMA MapPopEmpty ==
  ASSUME QueueInv, PopEmpty
  PROVE  Abstract!PopEmpty
  <1>1. Items \in Seq(Elements \cup {NoData}) /\ Len(Items) = back + front
    BY ItemsSequence DEF ItemsShape
  <1>2. back + front = 0
    BY DEF PopEmpty, BackIsEmpty, SwitchNeeded, QueueInv, TypeOK, IndexInv,
           first, back, front
  <1>3. Items = <<>>
    BY <1>1, <1>2, EmptySeq
  <1>4. Items' = Items
    BY DEF PopEmpty, Items, first, back, front, indexes
  <1>5. answer' = Abstract!Result("pop", FALSE, NoData)
    BY DEF PopEmpty, Result, Abstract!Result
  <1> QED BY <1>3, <1>4, <1>5 DEF Abstract!PopEmpty

\* The first three stores of a switch change no element of the sequence.
LEMMA MapSwitch ==
  ASSUME QueueInv, SwitchPush \/ SwitchNew \/ SwitchPop
  PROVE  UNCHANGED <<Items, answer>>
  <1>1. CASE SwitchPush
    <2>1. m_push_index = Capacity /\ m_pop_index = Capacity /\ m_new_index \in Nat
      BY <1>1, CapacityAssumption
         DEF SwitchPush, SwitchNeeded, BackIsEmpty, QueueInv, TypeOK, IndexInv
    <2>2. back = 0 /\ front = m_new_index /\ back' = m_new_index /\ front' = 0
      BY <1>1, <2>1, CapacityAssumption DEF SwitchPush, first, back, front
    <2>3. \A k \in 1 .. m_new_index :
              (IF k <= back THEN first + k - 1 ELSE k - back - 1) = k - 1
      BY <2>1, <2>2
    <2>4. \A k \in 1 .. m_new_index :
              (IF k <= back' THEN first' + k - 1 ELSE k - back' - 1) = k - 1
      BY <1>1, <2>1, <2>2 DEF SwitchPush, first
    <2>5. Items = [k \in 1 .. m_new_index |-> m_data_array[k - 1]]
      BY <2>1, <2>2, <2>3 DEF Items
    <2>6. Items' = [k \in 1 .. m_new_index |-> m_data_array[k - 1]]
      BY <1>1, <2>1, <2>2, <2>4 DEF Items, SwitchPush
    <2> QED BY <1>1, <2>5, <2>6 DEF SwitchPush
  <1>2. CASE SwitchNew \/ SwitchPop
    BY <1>2 DEF SwitchNew, SwitchPop, Items, first, back, front
  <1> QED BY <1>1, <1>2

\* Every step of the queue is a step of the abstract queue or leaves it as it is.
LEMMA MapStep ==
  ASSUME QueueInv, QueueInv', [Next]_vars
  PROVE  [Abstract!Next]_<<Items, answer>>
  <1>1. ASSUME NEW e \in Elements, Push(e) PROVE Abstract!Next
    BY <1>1, MapPush DEF Abstract!Next
  <1>2. CASE PopBack \/ SwitchTake
    BY <1>2, MapTake DEF Abstract!Next
  <1>3. CASE PopEmpty
    BY <1>3, MapPopEmpty DEF Abstract!Next
  <1>4. CASE SwitchPush \/ SwitchNew \/ SwitchPop
    BY <1>4, MapSwitch
  <1>5. ASSUME NEW r \in Readers, LoadPush(r) \/ LoadPop(r) \/ LoadNew(r)
        PROVE  UNCHANGED <<Items, answer>>
    BY <1>5 DEF LoadPush, LoadPop, LoadNew, Items, first, back, front, indexes
  <1>6. CASE UNCHANGED vars
    BY <1>6 DEF vars, indexes, Items, first, back, front
  <1> QED BY <1>1, <1>2, <1>3, <1>4, <1>5, <1>6 DEF Next

\* push() and pop() are those of a bounded FIFO of m_length elements, for every capacity,
\* every interleaving of callers and any number of unlocked readers.
THEOREM QueueImplementsFifo == Spec => ImplementsFifo
  <1>1. QueueInv /\ QueueInv' /\ [Next]_vars => [Abstract!Next]_<<Items, answer>>
    BY MapStep
  <1>2. Spec => []QueueInv
    BY QueueIndexes DEF QueueInv
  <1> QED BY <1>1, <1>2, MapInit, PTL DEF Spec, ImplementsFifo, Abstract!Spec
================================================================================
