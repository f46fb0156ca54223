----------------------------- MODULE ByteBufProofs -----------------------------
(***************************************************************************)
(* The buffer's indexes, bytes and results, for every number of threads    *)
(* and all capacities and lengths.                                         *)
(***************************************************************************)
EXTENDS ByteBuf, FiniteSets, FiniteSetTheorems, TLAPS

--------------------------------------------------------------------------------
\* The inductive invariant

PCs == {"idle", "read", "reading", "load", "write", "writing", "store", "observe", "clear",
        "resize", "resizing"}
Answers == {"none", "bytes", "default", "garbage"}
Calls == [op : {"none", "read", "write", "readable", "clear", "resize"}, len : Nat,
          free : BOOLEAN, kind : Kinds \cup {"bytes"}, n : Int, at : Nat,
          failed : BOOLEAN, answer : Answers, disturbed : BOOLEAN]

\* TypeOK but for the bound of written, and that pc and call are functions.
Types ==
    /\ m_capacity \in Capacities
    /\ m_buf \in [Slots -> Nat] /\ due \in [Slots -> Nat]
    /\ m_read_index \in Nat /\ m_write_index \in Nat
    /\ m_read_index <= m_write_index /\ m_write_index <= m_capacity
    /\ m_rmutex \in Threads \cup {Nobody} /\ m_wmutex \in Threads \cup {Nobody}
    /\ asked \in Nat /\ asked <= MaxBytes /\ written \in Nat /\ taken \in Nat
    /\ pc \in [Threads -> PCs] /\ call \in [Threads -> Calls]

\* Who is inside a call holds its mutex, and who clears is alone but for observers.
Owners ==
    \A t \in Threads :
        /\ pc[t] \in {"reading", "load", "resizing"} => m_rmutex = t
        /\ pc[t] \in {"writing", "store"} => m_wmutex = t
        /\ pc[t] = "clear" =>
              /\ m_read_index = 0
              /\ m_rmutex = Nobody /\ m_wmutex = Nobody
              /\ \A u \in Threads \ {t} : pc[u] \in {"idle", "observe"}

\* A call of each kind, from where it enters to where it returns. A read that wants all or
\* nothing keeps enough bytes ahead of it, a write enough room.
Reading(t) ==
    /\ pc[t] \in {"read", "reading", "load"} => call[t].op = "read" /\ 1 <= call[t].len
    /\ pc[t] = "reading" =>
          /\ 0 <= call[t].n /\ call[t].n <= call[t].len
          /\ call[t].failed => call[t].n = 0 /\ call[t].free
          /\ call[t].free /\ ~call[t].failed => call[t].len - call[t].n <= Readable
    /\ pc[t] = "load" =>
          /\ 0 <= call[t].n /\ call[t].n < call[t].len /\ ~call[t].failed
          /\ call[t].at = m_read_index - 1
          /\ call[t].free => call[t].len - call[t].n - 1 <= Readable
    /\ pc[t] = "read" => call[t].n = 0

Writing(t) ==
    /\ pc[t] \in {"write", "writing", "store"} =>
          call[t].op = "write" /\ 1 <= call[t].len /\ call[t].kind = "bytes"
    /\ pc[t] = "writing" =>
          /\ 0 <= call[t].n /\ call[t].n <= call[t].len
          /\ call[t].failed => call[t].n = 0 /\ call[t].free
          /\ call[t].free /\ ~call[t].failed => call[t].len - call[t].n <= Writeable
    /\ pc[t] = "store" =>
          /\ 0 <= call[t].n /\ call[t].n < call[t].len /\ ~call[t].failed
          /\ call[t].at = m_write_index - 1 /\ due[call[t].at] = written
          /\ call[t].free => call[t].len - call[t].n - 1 <= Writeable
    /\ pc[t] = "write" => call[t].n = 0

Observing(t) ==
    /\ pc[t] = "observe" =>
          call[t].op = "readable" /\ (call[t].at <= m_write_index \/ call[t].disturbed)
    /\ pc[t] = "clear" => call[t].op = "clear"
    /\ pc[t] \in {"resize", "resizing"} => call[t].op = "resize" /\ call[t].len \in Capacities

\* The bytes: those counted are numbered in the order of their slots and beyond the last one
\* taken, and a slot holds its byte or an older one.
Ordered ==
    /\ taken <= written
    /\ \A i \in Slots : m_buf[i] <= due[i] /\ due[i] <= written
    /\ \A i, j \in Slots : i < j /\ j < m_write_index => due[i] < due[j]
    /\ (\A t \in Threads : pc[t] # "clear") =>
          \A i \in Slots : m_read_index <= i /\ i < m_write_index => taken < due[i]
    /\ \A t \in Threads : pc[t] = "load" => taken < due[call[t].at]

CallsInv == \A t \in Threads : Reading(t) /\ Writing(t) /\ Observing(t)

BufInv ==
    /\ Types /\ Owners /\ CallsInv
    /\ AllOrNothing /\ ReadableNotOverstated
    /\ AnnouncedBytesPresent /\ Ordered

--------------------------------------------------------------------------------
\* There is a slot for every index below any capacity.
LEMMA SlotsSuffice ==
  /\ Slots \subseteq Nat
  /\ \A c \in Capacities, i \in Nat : i < c => i \in Slots
  <1> DEFINE greatest == CHOOSE c \in Capacities : \A d \in Capacities : d <= c
  <1>1. greatest \in Capacities /\ \A d \in Capacities : d <= greatest
    BY SizesAssumption
  <1> HIDE DEF greatest
  <1>2. Slots = 0 .. greatest - 1
    BY DEF Slots, greatest
  <1>3. Capacities \subseteq Nat
    BY SizesAssumption
  <1> QED BY <1>1, <1>2, <1>3

LEMMA WidthsPositive == \A k \in Kinds : Width[k] \in Nat \ {0}
  BY SizesAssumption DEF Width

\* What a step does to the call of its thread leaves it a call.
LEMMA CallsKept ==
  ASSUME call \in [Threads -> Calls], m_write_index \in Nat, m_read_index \in Nat,
         NEW t \in Threads
  PROVE  /\ \A i \in Nat : [call EXCEPT ![t].at = i] \in [Threads -> Calls]
         /\ \A b \in BOOLEAN : [call EXCEPT ![t].failed = b] \in [Threads -> Calls]
         /\ [call EXCEPT ![t].answer = Answer(call[t])] \in [Threads -> Calls]
         /\ [call EXCEPT ![t].n = @ + 1, ![t].at = 0] \in [Threads -> Calls]
         /\ \A i \in Int : [call EXCEPT ![t].n = i, ![t].at = 0] \in [Threads -> Calls]
         /\ Disturb \in [Threads -> Calls]
  <1> DEFINE c == call[t]
  <1>1. c \in Calls
    OBVIOUS
  <1>2. c.n + 1 \in Int
    BY <1>1 DEF Calls
  <1> HIDE DEF c
  <1>3. \A i \in Nat : [c EXCEPT !.at = i] \in Calls
    BY <1>1 DEF Calls
  <1>4. \A b \in BOOLEAN : [c EXCEPT !.failed = b] \in Calls
    BY <1>1 DEF Calls
  <1>9. [c EXCEPT !.answer = Answer(c)] \in Calls
    <2>1. Answer(c) \in Answers
      BY DEF Answer, Answers
    <2> QED BY <1>1, <2>1 DEF Calls
  <1>5. \A i \in Int : [c EXCEPT !.n = i, !.at = 0] \in Calls
    BY <1>1 DEF Calls
  <1>6. [c EXCEPT !.n = @ + 1, !.at = 0] \in Calls
    BY <1>2, <1>5
  <1>7. Disturb \in [Threads -> Calls]
    BY DEF Disturb, Calls
  <1>8. \A r \in Calls : [call EXCEPT ![t] = r] \in [Threads -> Calls]
    OBVIOUS
  <1> QED BY <1>3, <1>4, <1>5, <1>6, <1>7, <1>8, <1>9 DEF c

LEMMA CallsBegin ==
  ASSUME NEW op \in {"read", "write", "readable", "clear", "resize"},
         NEW len \in Nat, NEW free \in BOOLEAN, NEW kind \in Kinds \cup {"bytes"}, NEW i \in Nat
  PROVE  /\ Call(op, len, free, kind) \in Calls
         /\ [Call(op, len, free, kind) EXCEPT !.at = i] \in Calls
  <1>1. Call(op, len, free, kind) \in Calls
    BY DEF Call, Calls, Answers
  <1>2. ASSUME NEW c \in Calls PROVE [c EXCEPT !.at = i] \in Calls
    BY DEF Calls
  <1> QED BY <1>1, <1>2

LEMMA CallTypes ==
  ASSUME Types, [Next]_vars
  PROVE  call' \in [Threads -> Calls]
  <1> USE DEF Types, Goes
  <1>1. ASSUME NEW t \in Threads, ReadEnter(t) PROVE call' \in [Threads -> Calls]
    <2>1. (call[t].free /\ Readable < call[t].len) \in BOOLEAN
      OBVIOUS
    <2> QED BY CallsKept, <2>1, <1>1 DEF ReadEnter, ReadEnterUnlocked
  <1>2. ASSUME NEW t \in Threads, ReadLoad(t) PROVE call' \in [Threads -> Calls]
    BY CallsKept, <1>2 DEF ReadLoad
  <1>3. ASSUME NEW t \in Threads, ReadReturn(t) PROVE call' \in [Threads -> Calls]
    BY CallsKept, <1>3 DEF ReadReturn
  <1>10. ASSUME NEW t \in Threads, WriteReturn(t) PROVE call' \in [Threads -> Calls]
    BY CallsKept, <1>10 DEF WriteReturn
  <1>4. ASSUME NEW t \in Threads, WriteEnter(t) PROVE call' \in [Threads -> Calls]
    BY CallsKept, <1>4 DEF WriteEnter
  <1>5. ASSUME NEW t \in Threads, ReadClaim(t) PROVE call' \in [Threads -> Calls]
    BY CallsKept, <1>5 DEF ReadClaim
  <1>9. ASSUME NEW t \in Threads, WriteClaim(t) PROVE call' \in [Threads -> Calls]
    BY CallsKept, <1>9 DEF WriteClaim
  <1>6. ASSUME NEW t \in Threads, WriteStore(t) PROVE call' \in [Threads -> Calls]
    BY CallsKept, <1>6 DEF WriteStore
  <1>7. ASSUME NEW t \in Threads, ObserveRead(t) PROVE call' \in [Threads -> Calls]
    <2>1. (call[t].at - m_read_index) - Readable \in Int
      <3>1. call[t] \in Calls
        OBVIOUS
      <3> QED BY <3>1 DEF Calls, Readable
    <2> QED BY CallsKept, <2>1, <1>7 DEF ObserveRead
  <1>8. ASSUME NEW t \in Threads, ClearWrite(t) \/ ResizeApply(t) PROVE call' \in [Threads -> Calls]
    BY CallsKept, <1>8 DEF ClearWrite, ResizeApply
  <1>11. ASSUME NEW t \in Threads, ReadBytes(t) \/ ReadValue(t) \/ ReadString(t)
         PROVE  call' \in [Threads -> Calls]
    <2>1. PICK len \in Nat, free \in BOOLEAN, kind \in Kinds \cup {"bytes"} :
              BeginRead(t, len, free, kind)
      BY <1>11, SizesAssumption, WidthsPositive DEF ReadBytes, ReadValue, ReadString
    <2>2. Call("read", len, free, kind) \in Calls
      BY CallsBegin
    <2> QED BY <2>1, <2>2 DEF BeginRead, Begins
  <1>12. ASSUME NEW t \in Threads, WriteBytes(t) \/ WriteValue(t) \/ WriteString(t)
         PROVE  call' \in [Threads -> Calls]
    <2>1. PICK len \in Nat, free \in BOOLEAN : BeginWrite(t, len, free)
      BY <1>12, SizesAssumption, WidthsPositive DEF WriteBytes, WriteValue, WriteString
    <2>2. Call("write", len, free, "bytes") \in Calls
      BY CallsBegin
    <2> QED BY <2>1, <2>2 DEF BeginWrite, Begins
  <1>13. ASSUME NEW t \in Threads, Clear(t) \/ Resize(t)
         PROVE  call' \in [Threads -> Calls]
    <2>1. \A c \in Nat : Call("resize", c, FALSE, "bytes") \in Calls
      BY CallsBegin
    <2>2. Call("clear", 0, FALSE, "bytes") \in Calls
      BY CallsBegin
    <2> QED BY <2>1, <2>2, <1>13, SizesAssumption DEF Clear, Resize, Begins
  <1>14. ASSUME NEW t \in Threads, Observe(t)
         PROVE  call' \in [Threads -> Calls]
    BY <1>14, CallsBegin DEF Observe, Begins
  <1>15. ASSUME NEW t \in Threads, ResizeEnter(t) \/ ResizeSame(t)
         PROVE  call' \in [Threads -> Calls]
    BY <1>15 DEF ResizeEnter, ResizeSame
  <1>16. CASE UNCHANGED vars
    BY <1>16 DEF vars
  <1> QED BY <1>1, <1>2, <1>3, <1>4, <1>5, <1>6, <1>7, <1>8, <1>9, <1>10, <1>11, <1>12,
             <1>13, <1>14, <1>15, <1>16 DEF Next, Enter, Proceed

\* A read or write that is about to return has moved all or none where it should.
ReturnsSoundly(t) ==
    /\ call[t].op \in {"read", "write"}
    /\ 0 <= call[t].n /\ call[t].n <= call[t].len
    /\ call[t].failed => call[t].n = 0
    /\ call[t].free /\ ~call[t].failed => call[t].n = call[t].len

LEMMA AnswerKept ==
  ASSUME call \in [Threads -> Calls], pc \in [Threads -> PCs],
         AllOrNothing, ReadableNotOverstated, NEW t \in Threads, ReturnsSoundly(t),
         call' = [call EXCEPT ![t].answer = Answer(call[t])],
         \A u \in Threads \ {t} : pc'[u] = pc[u] /\ call'[u] = call[u]
  PROVE  AllOrNothing' /\ ReadableNotOverstated'
  <1>1. call[t] \in Calls
    OBVIOUS
  <1>2. /\ call'[t].op = call[t].op /\ call'[t].len = call[t].len /\ call'[t].n = call[t].n
        /\ call'[t].free = call[t].free /\ call'[t].kind = call[t].kind
        /\ call'[t].answer = Answer(call[t])
    BY <1>1 DEF Calls
  <1>3. call[t].n \in Int /\ call[t].len \in Nat
    BY <1>1 DEF Calls
  <1>4. AllOrNothing'
    BY <1>2, <1>3 DEF AllOrNothing, ReturnsSoundly, Answer
  <1> QED BY <1>2, <1>4 DEF ReturnsSoundly, ReadableNotOverstated

\* Being disturbed changes nothing else about a call.
Disturbs(c, d) ==
    /\ d.op = c.op /\ d.len = c.len /\ d.free = c.free /\ d.kind = c.kind
    /\ d.n = c.n /\ d.at = c.at /\ d.failed = c.failed
    /\ d.answer = c.answer
    /\ c.disturbed => d.disturbed

LEMMA Disturbed ==
  ASSUME call \in [Threads -> Calls], NEW u \in Threads
  PROVE  /\ Disturbs(call[u], Disturb[u])
         /\ pc[u] = "observe" => Disturb[u].disturbed
  <1>1. Disturb[u] = [call[u] EXCEPT !.disturbed = @ \/ pc[u] = "observe"]
    BY DEF Disturb
  <1>2. call[u] \in Calls
    OBVIOUS
  <1>3. Disturb[u].disturbed = (call[u].disturbed \/ pc[u] = "observe")
    BY <1>1, <1>2 DEF Calls
  <1>4. call[u].disturbed \/ pc[u] = "observe" => Disturb[u].disturbed
    BY <1>3, Zenon
  <1> QED BY <1>1, <1>2, <1>4 DEF Calls, Disturbs

\* An index that goes back leaves every call in order: no thread is reading or writing.
LEMMA CallsUndone ==
  ASSUME Types, CallsInv, AllOrNothing, ReadableNotOverstated,
         call' = Disturb, NEW t \in Threads, call[t].op \in {"clear", "resize"},
         pc' = [pc EXCEPT ![t] = "idle"],
         \A u \in Threads : pc'[u] \notin {"reading", "load", "writing", "store", "clear"}
  PROVE  CallsInv' /\ AllOrNothing' /\ ReadableNotOverstated'
  <1>1. call \in [Threads -> Calls] /\ call' \in [Threads -> Calls]
    BY DEF Types, Disturb, Calls
  <1>2. \A u \in Threads : Disturbs(call[u], call'[u])
    BY <1>1, Disturbed
  <1>3. \A u \in Threads : pc[u] = "observe" => call'[u].disturbed
    BY <1>1, Disturbed
  <1>4. pc'[t] = "idle" /\ \A u \in Threads \ {t} : pc'[u] = pc[u]
    BY DEF Types
  <1>5. CallsInv'
    BY <1>1, <1>2, <1>3, <1>4
    DEF Types, Calls, Disturbs, CallsInv, Reading, Writing, Observing
  <1>6. call'[t].op \in {"clear", "resize"}
    BY <1>1, <1>2 DEF Disturbs
  <1>7. ReadableNotOverstated'
    BY <1>1, <1>2, <1>4, <1>6 DEF Types, Calls, Disturbs, ReadableNotOverstated
  <1>8. AllOrNothing'
    BY <1>1, <1>2, <1>4, <1>6 DEF Types, Calls, Disturbs, AllOrNothing
  <1> QED BY <1>5, <1>7, <1>8

--------------------------------------------------------------------------------
LEMMA BufInit == Init => BufInv
  <1> SUFFICES ASSUME Init PROVE BufInv
    OBVIOUS
  <1> USE SizesAssumption, ThreadsAssumption DEF Init, Call
  <1>1. Types
    BY DEF Types, PCs, Calls, Answers
  <1>2. Owners /\ CallsInv
    BY DEF Owners, CallsInv, Reading, Writing, Observing
  <1>3. AllOrNothing /\ ReadableNotOverstated /\ AnnouncedBytesPresent
    BY DEF AllOrNothing, ReadableNotOverstated, AnnouncedBytesPresent
  <1>4. Ordered
    <2>1. /\ taken = 0 /\ written = 0 /\ m_read_index = 0 /\ m_write_index = 0
          /\ m_buf = [i \in Slots |-> 0] /\ due = m_buf
      OBVIOUS
    <2>2. \A t \in Threads : pc[t] = "idle"
      OBVIOUS
    <2> QED BY <2>1, <2>2, SlotsSuffice DEF Ordered
  <1> QED BY <1>1, <1>2, <1>3, <1>4 DEF BufInv

LEMMA BufStep ==
  ASSUME BufInv, [Next]_vars
  PROVE  BufInv'
  <1> USE SizesAssumption, ThreadsAssumption, SlotsSuffice
      DEF BufInv, Readable, Writeable
  <1>1. ASSUME NEW t \in Threads, NEW len \in Nat \ {0}, NEW free \in BOOLEAN,
              NEW kind \in Kinds \cup {"bytes"}, BeginRead(t, len, free, kind)
        PROVE  BufInv'
    <2> USE <1>1 DEF BeginRead, Goes, Begins, Call, indexes, mutexes, Types, PCs, Calls
    <2>1. Types'
      BY CallTypes
    <2>2. Owners'
      BY DEF Owners
    <2>3. CallsInv'
      BY DEF Owners, CallsInv, Reading, Writing, Observing
    <2>4. AllOrNothing' /\ ReadableNotOverstated'
      BY DEF CallsInv, Reading, Writing, Observing, AllOrNothing, ReadableNotOverstated
    <2>5. AnnouncedBytesPresent'
      BY DEF Owners, CallsInv, Writing, AnnouncedBytesPresent
    <2>6. Ordered'
      BY DEF Owners, CallsInv, Reading, Writing, Ordered
    <2> QED BY <2>1, <2>2, <2>3, <2>4, <2>5, <2>6
  <1>2. ASSUME NEW t \in Threads, ReadEnter(t)
        PROVE  BufInv'
    <2> USE <1>2 DEF ReadEnter, Goes, ReadEnterUnlocked, indexes, mutexes, Types, PCs, Calls
    <2>1. Types'
      BY CallTypes
    <2>2. Owners'
      BY DEF Owners
    <2>3. CallsInv'
      BY DEF Owners, CallsInv, Reading, Writing, Observing
    <2>4. AllOrNothing' /\ ReadableNotOverstated'
      BY DEF CallsInv, Reading, Writing, Observing, AllOrNothing, ReadableNotOverstated
    <2>5. AnnouncedBytesPresent'
      BY DEF Owners, CallsInv, Writing, AnnouncedBytesPresent
    <2>6. Ordered'
      BY DEF Owners, CallsInv, Reading, Writing, Ordered
    <2> QED BY <2>1, <2>2, <2>3, <2>4, <2>5, <2>6
  <1>3. ASSUME NEW t \in Threads, ReadClaim(t)
        PROVE  BufInv'
    <2> USE <1>3 DEF ReadClaim, Goes, ReadsOn, indexes, mutexes, Types, PCs, Calls
    <2>0. \A u \in Threads \ {t} : /\ pc'[u] = pc[u] /\ call'[u] = call[u]
                                  /\ pc[u] \notin {"reading", "load", "clear"}
      BY DEF Owners
    <2>1. Types'
      BY CallTypes
    <2>2. Owners'
      BY DEF Owners
    <2>3. CallsInv'
      <3>1. ASSUME NEW u \in Threads, u # t PROVE (Reading(u) /\ Writing(u) /\ Observing(u))'
        BY <2>0, <3>1 DEF CallsInv, Reading, Writing, Observing
      <3>2. /\ pc[t] = "reading" /\ pc'[t] = "load"
            /\ call'[t] = [call[t] EXCEPT !.at = m_read_index]
        OBVIOUS
      <3>3. (Reading(t) /\ Writing(t) /\ Observing(t))'
        BY <3>2 DEF CallsInv, Reading, Writing, Observing
      <3> QED BY <3>1, <3>3 DEF CallsInv
    <2>4. AllOrNothing' /\ ReadableNotOverstated'
      BY DEF CallsInv, Reading, Writing, Observing, AllOrNothing, ReadableNotOverstated
    <2>5. AnnouncedBytesPresent'
      BY DEF Owners, CallsInv, Writing, AnnouncedBytesPresent
    <2>6. Ordered'
      <3>1. m_read_index \in Slots /\ taken < due[m_read_index]
        BY <2>0 DEF Ordered
      <3>2. \A u \in Threads : pc'[u] = "load" => taken' < due'[call'[u].at]
        BY <2>0, <3>1
      <3> QED BY <2>0, <3>2, SlotsSuffice DEF Ordered
    <2> QED BY <2>1, <2>2, <2>3, <2>4, <2>5, <2>6
  <1>4. ASSUME NEW t \in Threads, ReadLoad(t)
        PROVE  BufInv'
    <2> USE <1>4 DEF ReadLoad, Goes, indexes, mutexes, Types, PCs, Calls
    <2>0. \A u \in Threads \ {t} : /\ pc'[u] = pc[u] /\ call'[u] = call[u]
                                  /\ pc[u] \notin {"reading", "load", "clear"}
      BY DEF Owners
    <2>1. Types'
      BY CallTypes
    <2>2. Owners'
      BY DEF Owners
    <2>3. CallsInv'
      BY DEF Owners, CallsInv, Reading, Writing, Observing
    <2>4. AllOrNothing' /\ ReadableNotOverstated'
      BY DEF CallsInv, Reading, Writing, Observing, AllOrNothing, ReadableNotOverstated
    <2>5. AnnouncedBytesPresent'
      BY DEF Owners, CallsInv, Writing, AnnouncedBytesPresent
    <2>6. Ordered'
      <3>1. call[t].at = m_read_index - 1 /\ call[t].at \in Slots /\ taken < due[call[t].at]
        BY DEF CallsInv, Reading, Ordered
      <3>2. \A i \in Slots : m_read_index <= i /\ i < m_write_index => due[call[t].at] < due[i]
        BY <3>1 DEF Ordered
      <3>3. \A u \in Threads : pc'[u] # "load"
        BY <2>0
      <3> QED BY <2>0, <3>1, <3>2, <3>3 DEF Ordered
    <2> QED BY <2>1, <2>2, <2>3, <2>4, <2>5, <2>6
  <1>5. ASSUME NEW t \in Threads, ReadReturn(t)
        PROVE  BufInv'
    <2> USE <1>5 DEF ReadReturn, Goes, ReadsOn, indexes, mutexes, Types, PCs, Calls
    <2>1. Types'
      BY CallTypes
    <2>2. Owners'
      BY DEF Owners
    <2>3. CallsInv'
      BY DEF Owners, CallsInv, Reading, Writing, Observing
    <2>4. AllOrNothing' /\ ReadableNotOverstated'
      <3>1. /\ call[t].op = "read" /\ 1 <= call[t].len
            /\ 0 <= call[t].n /\ call[t].n <= call[t].len
            /\ call[t].failed => call[t].n = 0 /\ call[t].free
            /\ call[t].free /\ ~call[t].failed =>
                  call[t].len - call[t].n <= m_write_index - m_read_index
        BY DEF CallsInv, Reading
      <3>2. \A u \in Threads \ {t} : pc'[u] = pc[u] /\ call'[u] = call[u]
        OBVIOUS
      <3>3. call[t].free /\ ~call[t].failed => call[t].n = call[t].len
        <4>1. ~(~call[t].failed /\ call[t].n < call[t].len /\ m_write_index - m_read_index > 0)
          OBVIOUS
        <4>2. call[t].n \in Int /\ call[t].len \in Nat /\ m_write_index - m_read_index \in Int
          OBVIOUS
        <4> HIDE <1>5 DEF BufInv, Types
        <4> QED BY <3>1, <4>1, <4>2
      <3>4. ReturnsSoundly(t)
        BY <3>1, <3>3 DEF ReturnsSoundly
      <3> QED BY <3>2, <3>4, AnswerKept
    <2>5. AnnouncedBytesPresent'
      BY DEF Owners, CallsInv, Writing, AnnouncedBytesPresent
    <2>6. Ordered'
      BY DEF Owners, CallsInv, Reading, Writing, Ordered
    <2> QED BY <2>1, <2>2, <2>3, <2>4, <2>5, <2>6
  <1>6. ASSUME NEW t \in Threads, NEW len \in Nat \ {0}, NEW free \in BOOLEAN,
              BeginWrite(t, len, free)
        PROVE  BufInv'
    <2> USE <1>6 DEF BeginWrite, Goes, Begins, Call, indexes, mutexes, Types, PCs, Calls
    <2>1. Types'
      BY CallTypes
    <2>2. Owners'
      BY DEF Owners
    <2>3. CallsInv'
      BY DEF Owners, CallsInv, Reading, Writing, Observing
    <2>4. AllOrNothing' /\ ReadableNotOverstated'
      BY DEF CallsInv, Reading, Writing, Observing, AllOrNothing, ReadableNotOverstated
    <2>5. AnnouncedBytesPresent'
      BY DEF Owners, CallsInv, Writing, AnnouncedBytesPresent
    <2>6. Ordered'
      BY DEF Owners, CallsInv, Reading, Writing, Ordered
    <2> QED BY <2>1, <2>2, <2>3, <2>4, <2>5, <2>6
  <1>7. ASSUME NEW t \in Threads, WriteEnter(t)
        PROVE  BufInv'
    <2> USE <1>7 DEF WriteEnter, Goes, indexes, mutexes, Types, PCs, Calls
    <2>1. Types'
      BY CallTypes
    <2>2. Owners'
      BY DEF Owners
    <2>3. CallsInv'
      BY DEF Owners, CallsInv, Reading, Writing, Observing
    <2>4. AllOrNothing' /\ ReadableNotOverstated'
      BY DEF CallsInv, Reading, Writing, Observing, AllOrNothing, ReadableNotOverstated
    <2>5. AnnouncedBytesPresent'
      BY DEF Owners, CallsInv, Writing, AnnouncedBytesPresent
    <2>6. Ordered'
      BY DEF Owners, CallsInv, Reading, Writing, Ordered
    <2> QED BY <2>1, <2>2, <2>3, <2>4, <2>5, <2>6
  <1>8. ASSUME NEW t \in Threads, WriteClaim(t)
        PROVE  BufInv'
    <2> USE <1>8 DEF WriteClaim, Goes, WritesOn, indexes, mutexes, Types, PCs, Calls
    <2>0. \A u \in Threads \ {t} : /\ pc'[u] = pc[u] /\ call'[u] = call[u]
                                  /\ pc[u] \notin {"writing", "store", "clear"}
      BY DEF Owners
    <2>1. Types'
      BY CallTypes
    <2>2. Owners'
      BY DEF Owners
    <2>3. CallsInv'
      <3>1. ASSUME NEW u \in Threads, u # t PROVE (Reading(u) /\ Writing(u) /\ Observing(u))'
        BY <2>0, <3>1 DEF CallsInv, Reading, Writing, Observing
      <3>2. /\ pc[t] = "writing" /\ pc'[t] = "store"
            /\ call'[t] = [call[t] EXCEPT !.at = m_write_index]
            /\ due'[m_write_index] = written'
        OBVIOUS
      <3>3. (Reading(t) /\ Writing(t) /\ Observing(t))'
        BY <3>2 DEF CallsInv, Reading, Writing, Observing
      <3> QED BY <3>1, <3>3 DEF CallsInv
    <2>4. AllOrNothing' /\ ReadableNotOverstated'
      BY DEF CallsInv, Reading, Writing, Observing, AllOrNothing, ReadableNotOverstated
    <2>5. AnnouncedBytesPresent'
      <3>1. m_write_index \in Slots /\ pc'[t] = "store" /\ call'[t].at = m_write_index
        OBVIOUS
      <3>2. \A i \in 0 .. m_write_index - 1 : m_buf[i] = due[i] /\ due'[i] = due[i]
        BY <2>0 DEF AnnouncedBytesPresent
      <3> QED BY <3>1, <3>2 DEF AnnouncedBytesPresent
    <2>6. Ordered'
      <3>1. /\ m_write_index \in Slots /\ due'[m_write_index] = written + 1
            /\ \A i \in Slots : i # m_write_index => due'[i] = due[i]
        OBVIOUS
      <3>2. \A u \in Threads : pc'[u] = "load" => taken < due'[call'[u].at]
        BY <2>0, <3>1 DEF CallsInv, Reading, Ordered
      <3>3. \A i, j \in Slots : i < j /\ j < m_write_index' => due'[i] < due'[j]
        BY <3>1 DEF Ordered
      <3>4. \A i \in Slots : m_buf'[i] <= due'[i] /\ due'[i] <= written'
        BY <3>1 DEF Ordered
      <3>5. \A i \in Slots : m_read_index <= i /\ i < m_write_index' => taken < due'[i]
        <4>1. \A u \in Threads : pc[u] # "clear"
          BY <2>0
        <4>2. \A i \in Slots : m_read_index <= i /\ i < m_write_index => taken < due[i]
          BY <4>1 DEF Ordered
        <4>3. taken < written + 1
          BY DEF Ordered
        <4>4. ASSUME NEW i \in Slots, m_read_index <= i, i < m_write_index'
              PROVE  taken < due'[i]
          <5>1. CASE i = m_write_index
            BY <5>1, <4>3, <3>1
          <5>2. CASE i < m_write_index
            BY <5>2, <4>2, <4>4, <3>1
          <5> QED BY <4>4, <5>1, <5>2, SlotsSuffice
        <4> QED BY <4>4
      <3> QED BY <3>2, <3>3, <3>4, <3>5 DEF Ordered
    <2> QED BY <2>1, <2>2, <2>3, <2>4, <2>5, <2>6
  <1>9. ASSUME NEW t \in Threads, WriteStore(t)
        PROVE  BufInv'
    <2> USE <1>9 DEF WriteStore, Goes, indexes, mutexes, Types, PCs, Calls
    <2>1. Types'
      BY CallTypes
    <2>2. Owners'
      BY DEF Owners
    <2>3. CallsInv'
      BY DEF Owners, CallsInv, Reading, Writing, Observing
    <2>4. AllOrNothing' /\ ReadableNotOverstated'
      BY DEF CallsInv, Reading, Writing, Observing, AllOrNothing, ReadableNotOverstated
    <2>5. AnnouncedBytesPresent'
      BY DEF Owners, CallsInv, Writing, AnnouncedBytesPresent
    <2>6. Ordered'
      BY DEF Owners, CallsInv, Reading, Writing, Ordered
    <2> QED BY <2>1, <2>2, <2>3, <2>4, <2>5, <2>6
  <1>10. ASSUME NEW t \in Threads, WriteReturn(t)
        PROVE  BufInv'
    <2> USE <1>10 DEF WriteReturn, Goes, WritesOn, indexes, mutexes, Types, PCs, Calls
    <2>1. Types'
      BY CallTypes
    <2>2. Owners'
      BY DEF Owners
    <2>3. CallsInv'
      BY DEF Owners, CallsInv, Reading, Writing, Observing
    <2>4. AllOrNothing' /\ ReadableNotOverstated'
      <3>1. /\ call[t].op = "write" /\ call[t].kind = "bytes" /\ 1 <= call[t].len
            /\ 0 <= call[t].n /\ call[t].n <= call[t].len
            /\ call[t].failed => call[t].n = 0 /\ call[t].free
            /\ call[t].free /\ ~call[t].failed =>
                  call[t].len - call[t].n <= m_capacity - m_write_index
        BY DEF CallsInv, Writing
      <3>3. call[t].free /\ ~call[t].failed => call[t].n = call[t].len
        <4>1. ~(~call[t].failed /\ call[t].n < call[t].len /\ m_capacity - m_write_index > 0)
          OBVIOUS
        <4>2. call[t].n \in Int /\ call[t].len \in Nat /\ m_capacity - m_write_index \in Int
          OBVIOUS
        <4> HIDE <1>10 DEF BufInv, Types
        <4> QED BY <3>1, <4>1, <4>2
      <3>2. \A u \in Threads \ {t} : pc'[u] = pc[u] /\ call'[u] = call[u]
        OBVIOUS
      <3>4. ReturnsSoundly(t)
        BY <3>1, <3>3 DEF ReturnsSoundly
      <3> QED BY <3>2, <3>4, AnswerKept
    <2>5. AnnouncedBytesPresent'
      BY DEF Owners, CallsInv, Writing, AnnouncedBytesPresent
    <2>6. Ordered'
      BY DEF Owners, CallsInv, Reading, Writing, Ordered
    <2> QED BY <2>1, <2>2, <2>3, <2>4, <2>5, <2>6
  <1>11. ASSUME NEW t \in Threads, Observe(t)
        PROVE  BufInv'
    <2> USE <1>11 DEF Observe, Goes, Begins, Call, indexes, mutexes, Types, PCs, Calls
    <2>1. Types'
      BY CallTypes
    <2>2. Owners'
      BY DEF Owners
    <2>3. CallsInv'
      BY DEF Owners, CallsInv, Reading, Writing, Observing
    <2>4. AllOrNothing' /\ ReadableNotOverstated'
      BY DEF CallsInv, Reading, Writing, Observing, AllOrNothing, ReadableNotOverstated
    <2>5. AnnouncedBytesPresent'
      BY DEF Owners, CallsInv, Writing, AnnouncedBytesPresent
    <2>6. Ordered'
      BY DEF Owners, CallsInv, Reading, Writing, Ordered
    <2> QED BY <2>1, <2>2, <2>3, <2>4, <2>5, <2>6
  <1>12. ASSUME NEW t \in Threads, ObserveRead(t)
        PROVE  BufInv'
    <2> USE <1>12 DEF ObserveRead, Goes, indexes, mutexes, Types, PCs, Calls
    <2>1. Types'
      BY CallTypes
    <2>2. Owners'
      BY DEF Owners
    <2>3. CallsInv'
      BY DEF Owners, CallsInv, Reading, Writing, Observing
    <2>4. AllOrNothing' /\ ReadableNotOverstated'
      BY DEF CallsInv, Reading, Writing, Observing, AllOrNothing, ReadableNotOverstated
    <2>5. AnnouncedBytesPresent'
      BY DEF Owners, CallsInv, Writing, AnnouncedBytesPresent
    <2>6. Ordered'
      BY DEF Owners, CallsInv, Reading, Writing, Ordered
    <2> QED BY <2>1, <2>2, <2>3, <2>4, <2>5, <2>6
  <1>13. ASSUME NEW t \in Threads, Clear(t)
        PROVE  BufInv'
    <2> USE <1>13 DEF Clear, Goes, Begins, Call, indexes, mutexes, Types, PCs, Calls
    <2>1. Types'
      BY CallTypes
    <2>2. Owners'
      BY DEF Owners
    <2>3. CallsInv'
      BY DEF Owners, CallsInv, Reading, Writing, Observing
    <2>4. AllOrNothing' /\ ReadableNotOverstated'
      BY DEF CallsInv, Reading, Writing, Observing, AllOrNothing, ReadableNotOverstated
    <2>5. AnnouncedBytesPresent'
      BY DEF Owners, CallsInv, Writing, AnnouncedBytesPresent
    <2>6. Ordered'
      BY DEF Owners, CallsInv, Reading, Writing, Ordered
    <2> QED BY <2>1, <2>2, <2>3, <2>4, <2>5, <2>6
  <1>14. ASSUME NEW t \in Threads, ClearWrite(t)
        PROVE  BufInv'
    <2> USE <1>14 DEF ClearWrite, Goes, indexes, mutexes, Types, PCs, Calls
    <2>1. Types'
      BY CallTypes DEF Owners
    <2>2. Owners'
      BY DEF Owners
    <2>3. CallsInv' /\ AllOrNothing' /\ ReadableNotOverstated'
      <3>1. /\ call[t].op = "clear"
            /\ \A u \in Threads :
                  pc'[u] \notin {"reading", "load", "writing", "store", "clear"}
        BY DEF Owners, CallsInv, Observing
      <3> QED BY <3>1, CallsUndone
    <2>5. AnnouncedBytesPresent'
      BY DEF Owners, CallsInv, Writing, AnnouncedBytesPresent
    <2>6. Ordered'
      <3>1. \A u \in Threads : pc'[u] # "load"
        BY DEF Owners
      <3> QED BY <3>1 DEF Ordered
    <2> QED BY <2>1, <2>2, <2>3, <2>5, <2>6
  <1>15. ASSUME NEW t \in Threads, Resize(t)
        PROVE  BufInv'
    <2> USE <1>15 DEF Resize, Goes, Begins, Call, indexes, mutexes, Types, PCs, Calls
    <2>1. Types'
      BY CallTypes
    <2>2. Owners'
      BY DEF Owners
    <2>3. CallsInv'
      BY DEF Owners, CallsInv, Reading, Writing, Observing
    <2>4. AllOrNothing' /\ ReadableNotOverstated'
      BY DEF CallsInv, Reading, Writing, Observing, AllOrNothing, ReadableNotOverstated
    <2>5. AnnouncedBytesPresent'
      BY DEF Owners, CallsInv, Writing, AnnouncedBytesPresent
    <2>6. Ordered'
      <3>1. /\ \A u \in Threads : pc'[u] = "load" => pc[u] = "load" /\ call'[u] = call[u]
            /\ (\A u \in Threads : pc'[u] # "clear") => \A u \in Threads : pc[u] # "clear"
        OBVIOUS
      <3> QED BY <3>1 DEF Ordered
    <2> QED BY <2>1, <2>2, <2>3, <2>4, <2>5, <2>6
  <1>16. ASSUME NEW t \in Threads, ResizeEnter(t)
        PROVE  BufInv'
    <2> USE <1>16 DEF ResizeEnter, Goes, indexes, mutexes, Types, PCs, Calls
    <2>1. Types'
      BY CallTypes
    <2>2. Owners'
      BY DEF Owners
    <2>3. CallsInv'
      BY DEF Owners, CallsInv, Reading, Writing, Observing
    <2>4. AllOrNothing' /\ ReadableNotOverstated'
      BY DEF CallsInv, Reading, Writing, Observing, AllOrNothing, ReadableNotOverstated
    <2>5. AnnouncedBytesPresent'
      BY DEF Owners, CallsInv, Writing, AnnouncedBytesPresent
    <2>6. Ordered'
      BY DEF Owners, CallsInv, Reading, Writing, Ordered
    <2> QED BY <2>1, <2>2, <2>3, <2>4, <2>5, <2>6
  <1>17. ASSUME NEW t \in Threads, ResizeSame(t)
        PROVE  BufInv'
    <2> USE <1>17 DEF ResizeSame, Goes, indexes, mutexes, Types, PCs, Calls
    <2>1. Types'
      BY CallTypes
    <2>2. Owners'
      BY DEF Owners
    <2>3. CallsInv'
      BY DEF Owners, CallsInv, Reading, Writing, Observing
    <2>4. AllOrNothing' /\ ReadableNotOverstated'
      BY DEF CallsInv, Reading, Writing, Observing, AllOrNothing, ReadableNotOverstated
    <2>5. AnnouncedBytesPresent'
      BY DEF Owners, CallsInv, Writing, AnnouncedBytesPresent
    <2>6. Ordered'
      BY DEF Owners, CallsInv, Reading, Writing, Ordered
    <2> QED BY <2>1, <2>2, <2>3, <2>4, <2>5, <2>6
  <1>18. ASSUME NEW t \in Threads, ResizeApply(t)
        PROVE  BufInv'
    <2> USE <1>18 DEF ResizeApply, Goes, Clip, indexes, mutexes, Types, PCs, Calls
    <2>1. Types'
      <3>1. call[t].len \in Capacities
        BY DEF CallsInv, Observing
      <3> QED BY <3>1, CallTypes
    <2>2. Owners'
      BY DEF Owners
    <2>3. CallsInv' /\ AllOrNothing' /\ ReadableNotOverstated'
      <3>1. /\ call[t].op = "resize"
            /\ \A u \in Threads :
                  pc'[u] \notin {"reading", "load", "writing", "store", "clear"}
        BY DEF Owners, CallsInv, Observing
      <3> QED BY <3>1, CallsUndone
    <2>5. AnnouncedBytesPresent'
      BY DEF Owners, CallsInv, Writing, AnnouncedBytesPresent
    <2>6. Ordered'
      BY DEF Owners, CallsInv, Reading, Writing, Ordered
    <2> QED BY <2>1, <2>2, <2>3, <2>5, <2>6
  <1>19. CASE UNCHANGED vars
    BY <1>19 DEF vars, indexes, mutexes, Types, Owners, CallsInv, Reading, Writing, Observing,
                AllOrNothing, ReadableNotOverstated, AnnouncedBytesPresent, Ordered
  <1>20. ASSUME NEW t \in Threads, ReadBytes(t) \/ ReadValue(t) \/ ReadString(t)
         PROVE  BufInv'
    BY <1>1, <1>20, WidthsPositive DEF ReadBytes, ReadValue, ReadString
  <1>21. ASSUME NEW t \in Threads, WriteBytes(t) \/ WriteValue(t) \/ WriteString(t)
         PROVE  BufInv'
    BY <1>6, <1>21, WidthsPositive DEF WriteBytes, WriteValue, WriteString
  <1> QED BY <1>2, <1>3, <1>4, <1>5, <1>7, <1>8, <1>9, <1>10, <1>11, <1>12, <1>13, <1>14,
             <1>15, <1>16, <1>17, <1>18, <1>19, <1>20, <1>21 DEF Next, Enter, Proceed

--------------------------------------------------------------------------------
\* How many bytes the writes under way still have to count, and one pair for each of them.
Left(t) == CASE pc[t] = "write" -> call[t].len
             [] pc[t] = "writing" -> call[t].len - call[t].n
             [] pc[t] = "store" -> call[t].len - call[t].n - 1
             [] OTHER -> 0

Pending == {p \in Threads \X Nat : p[2] < Left(p[1])}

\* No more bytes are counted than were asked for, those still to come included.
Asked == IsFiniteSet(Pending) /\ written + Cardinality(Pending) <= asked

\* A step that gives no thread more bytes to write, and counts none, keeps Asked.
LEMMA AskedKept ==
  ASSUME Types, Asked, UNCHANGED <<written, asked>>,
         \A t \in Threads : Left(t)' \in Int /\ Left(t) \in Int /\ Left(t)' <= Left(t)
  PROVE  Asked'
  <1>1. Pending' \subseteq Pending
    BY DEF Pending
  <1>2. IsFiniteSet(Pending') /\ Cardinality(Pending') <= Cardinality(Pending)
    BY <1>1, FS_Subset DEF Asked
  <1>3. Cardinality(Pending) \in Nat /\ Cardinality(Pending') \in Nat
    BY <1>2, FS_CardinalityType DEF Asked
  <1> QED BY <1>2, <1>3 DEF Asked, Types

LEMMA LeftInt == Types => \A t \in Threads : Left(t) \in Int
  BY DEF Types, Calls, PCs, Left

LEMMA AskedStep ==
  ASSUME BufInv, BufInv', Asked, [Next]_vars
  PROVE  Asked'
  <1> USE DEF BufInv
  <1>3. Types /\ Types'
    OBVIOUS
  <1>0. \A u \in Threads : Left(u) \in Int /\ Left(u)' \in Int
    <2>1. Types' => \A u \in Threads : Left(u)' \in Int
      BY DEF Types, Calls, PCs, Left
    <2> QED BY <2>1, LeftInt, <1>3
  <1>1. ASSUME NEW t \in Threads, NEW len \in Nat \ {0}, NEW free \in BOOLEAN,
               BeginWrite(t, len, free)
        PROVE  Asked'
    <2>1. /\ Left(t) = 0 /\ Left(t)' = len
          /\ \A u \in Threads \ {t} : Left(u)' = Left(u)
      BY <1>1 DEF BeginWrite, Begins, Goes, Call, Types, Left
    <2>2. Pending' = Pending \cup ({t} \X (0 .. (len - 1)))
      BY <2>1, <1>0 DEF Pending
    <2>3. IsFiniteSet({t} \X (0 .. (len - 1))) /\ Cardinality({t} \X (0 .. (len - 1))) = len
      <3>1. /\ IsFiniteSet({t}) /\ Cardinality({t}) = 1
            /\ IsFiniteSet(0 .. (len - 1)) /\ Cardinality(0 .. (len - 1)) = len
        <4>1. 0 \in Int /\ len - 1 \in Int /\ ~(0 > len - 1) /\ len - 1 - 0 + 1 = len
          OBVIOUS
        <4> QED BY <4>1, FS_Singleton, FS_Interval
      <3> QED BY <3>1, FS_Product
    <2>4. Pending \cap ({t} \X (0 .. (len - 1))) = {}
      BY <2>1 DEF Pending
    <2>5. /\ IsFiniteSet(Pending')
          /\ Cardinality(Pending') = Cardinality(Pending) + len - Cardinality({})
      BY <2>2, <2>3, <2>4, FS_Union DEF Asked
    <2>6. Cardinality({}) = 0 /\ Cardinality(Pending) \in Nat
      BY FS_EmptySet, FS_CardinalityType DEF Asked
    <2>7. asked' = asked + len /\ written' = written
      BY <1>1 DEF BeginWrite
    <2> QED BY <2>5, <2>6, <2>7 DEF Asked, Types
  <1>2. ASSUME NEW t \in Threads, WriteClaim(t) PROVE Asked'
    <2>1. /\ Left(t) > 0 /\ Left(t)' = Left(t) - 1
          /\ \A u \in Threads \ {t} : Left(u)' = Left(u)
      BY <1>2 DEF WriteClaim, WritesOn, Goes, CallsInv, Writing, Types, Calls, Left
    <2>2. <<t, Left(t) - 1>> \in Pending /\ Pending' = Pending \ {<<t, Left(t) - 1>>}
      BY <2>1, <1>0 DEF Pending
    <2>3. IsFiniteSet(Pending') /\ Cardinality(Pending') = Cardinality(Pending) - 1
      BY <2>2, FS_RemoveElement DEF Asked
    <2>4. Cardinality(Pending) \in Nat
      BY FS_CardinalityType DEF Asked
    <2>5. asked' = asked /\ written' = written + 1
      BY <1>2 DEF WriteClaim
    <2> QED BY <2>3, <2>4, <2>5 DEF Asked, Types
  <1>4. ASSUME NEW t \in Threads,
               \/ WriteEnter(t) \/ WriteStore(t) \/ WriteReturn(t)
        PROVE  Asked'
    <2>1. \A u \in Threads : Left(u)' <= Left(u)
      BY <1>4, <1>0 DEF WriteEnter, WriteStore, WriteReturn, Goes, CallsInv, Writing, Types, Calls, Left
    <2>2. UNCHANGED <<written, asked>>
      BY <1>4 DEF WriteEnter, WriteStore, WriteReturn
    <2> QED BY <1>0, <1>3, <2>1, <2>2, AskedKept
  <1>5. ASSUME NEW t \in Threads,
               \/ ReadBytes(t) \/ ReadValue(t) \/ ReadString(t)
               \/ Observe(t) \/ Clear(t) \/ Resize(t)
               \/ ReadEnter(t) \/ ResizeEnter(t) \/ ResizeSame(t)
               \/ ReadClaim(t) \/ ReadLoad(t) \/ ReadReturn(t) \/ ObserveRead(t)
        PROVE  Asked'
    <2> DEFINE writes == {"write", "writing", "store"}
    <2>1. /\ pc[t] \notin writes /\ pc'[t] \notin writes
          /\ \A u \in Threads \ {t} : pc'[u] = pc[u] /\ call'[u] = call[u]
      BY <1>5 DEF ReadBytes, ReadValue, ReadString, BeginRead, Observe, Clear, Resize, Begins,
                  ReadEnter, ReadEnterUnlocked, ResizeEnter, ResizeSame, ReadClaim, ReadLoad,
                  ReadReturn, ObserveRead, Goes, Types
    <2>2. \A u \in Threads : Left(u)' = Left(u)
      BY <2>1 DEF Left
    <2>3. UNCHANGED <<written, asked>>
      BY <1>5 DEF ReadBytes, ReadValue, ReadString, BeginRead, Observe, Clear, Resize,
                  ReadEnter, ReadEnterUnlocked, ResizeEnter, ResizeSame, ReadClaim, ReadLoad,
                  ReadReturn, ObserveRead
    <2> QED BY <1>0, <1>3, <2>2, <2>3, AskedKept
  <1>6. ASSUME NEW t \in Threads, ClearWrite(t) \/ ResizeApply(t) PROVE Asked'
    <2>1. \A u \in Threads : Disturbs(call[u], call'[u])
      BY <1>6, Disturbed DEF ClearWrite, ResizeApply, Types
    <2>2. \A u \in Threads : Left(u)' = Left(u)
      BY <1>6, <2>1 DEF ClearWrite, ResizeApply, Goes, Types, Disturbs, Left
    <2>3. UNCHANGED <<written, asked>>
      BY <1>6 DEF ClearWrite, ResizeApply
    <2> QED BY <1>0, <1>3, <2>2, <2>3, AskedKept
  <1>7. CASE UNCHANGED vars
    BY <1>7 DEF vars, Asked, Pending, Left
  <1>8. ASSUME NEW t \in Threads, WriteBytes(t) \/ WriteValue(t) \/ WriteString(t)
        PROVE  Asked'
    BY <1>1, <1>8, SizesAssumption, WidthsPositive DEF WriteBytes, WriteValue, WriteString
  <1> QED BY <1>2, <1>4, <1>5, <1>6, <1>7, <1>8 DEF Next, Enter, Proceed

LEMMA AskedInit == Init => Asked
  <1> SUFFICES ASSUME Init PROVE Asked
    OBVIOUS
  <1>1. \A t \in Threads : Left(t) = 0
    BY DEF Init, Left
  <1>2. Pending = {}
    BY <1>1 DEF Pending
  <1> QED BY <1>2, FS_EmptySet DEF Asked, Init

LEMMA Invariant == Spec => [](BufInv /\ Asked)
  <1>1. Init => BufInv /\ Asked
    BY BufInit, AskedInit
  <1>2. BufInv /\ Asked /\ [Next]_vars => (BufInv /\ Asked)'
    BY BufStep, AskedStep
  <1> QED BY <1>1, <1>2, PTL DEF Spec

--------------------------------------------------------------------------------
\* The indexes stay in order and within the capacity, and no more bytes are counted than
\* were asked to be written, whatever the threads call.
THEOREM BufferTypes == Spec => []TypeOK
  <1>1. BufInv /\ Asked => TypeOK
    <2> SUFFICES ASSUME BufInv, Asked PROVE TypeOK
      OBVIOUS
    <2>1. written <= asked
      <3>1. Cardinality(Pending) \in Nat
        BY FS_CardinalityType DEF Asked
      <3> QED BY <3>1 DEF Asked, BufInv, Types
    <2>2. \A i \in Slots : m_buf[i] \in Bytes /\ due[i] \in Bytes
      BY <2>1, SizesAssumption DEF BufInv, Ordered, Types, Bytes
    <2>3. taken \in Bytes /\ asked \in Bytes /\ written \in 0 .. asked
      BY <2>1, SizesAssumption DEF BufInv, Ordered, Types, Bytes
    <2>4. \A t \in Threads : /\ pc[t] \in PCs /\ call[t].n \in Int
                             /\ call[t].at \in Nat /\ call[t].len \in Nat
      BY DEF BufInv, Types, Calls
    <2> QED BY <2>2, <2>3, <2>4 DEF BufInv, Types, PCs, TypeOK
  <1> QED BY <1>1, Invariant, PTL

\* What lies below the write index of ByteBuf is there to be read: only the byte that a
\* write has just counted may still be on its way.
THEOREM BytesPresent == Spec => []AnnouncedBytesPresent
  <1>1. BufInv => AnnouncedBytesPresent
    BY DEF BufInv
  <1> QED BY <1>1, Invariant, PTL

\* readBytes() and writeBytes() with the all-or-nothing flag, and the reads and writes of
\* values and strings built on them, never move a part, next to any other calls.
THEOREM NeverAPart == Spec => []AllOrNothing
  <1>1. BufInv => AllOrNothing
    BY DEF BufInv
  <1> QED BY <1>1, Invariant, PTL

\* readable() called without a mutex overstates only if clear() or resize() ran into it.
THEOREM ReadableIsSafe == Spec => []ReadableNotOverstated
  <1>1. BufInv => ReadableNotOverstated
    BY DEF BufInv
  <1> QED BY <1>1, Invariant, PTL

\* No byte is due to two reads, and reads take the bytes in the order of the writes.
THEOREM TakenOnce == Spec => BytesTakenOnce
  <1> DEFINE Takes(t) == pc[t] = "load" /\ pc'[t] = "reading" =>
                             taken < taken' /\ m_buf[call[t].at] <= taken'
  <1>1. ASSUME BufInv, [Next]_vars, NEW t \in Threads PROVE Takes(t)
    <2> SUFFICES ASSUME pc[t] = "load", pc'[t] = "reading"
                 PROVE  taken < taken' /\ m_buf[call[t].at] <= taken'
      OBVIOUS
    <2>1. ReadLoad(t)
      BY <1>1 DEF BufInv, Types, vars, Next, Enter, Proceed, Goes, Begins,
         ReadBytes, ReadValue, ReadString, BeginRead, ReadEnter, ReadEnterUnlocked, ReadClaim,
         ReadLoad, ReadReturn, WriteBytes, WriteValue, WriteString, BeginWrite, WriteEnter,
         WriteClaim, WriteStore, WriteReturn, Observe, ObserveRead, Clear, ClearWrite,
         Resize, ResizeEnter, ResizeSame, ResizeApply
    <2>2. call[t].at \in Slots /\ taken < due[call[t].at]
      BY <1>1, SlotsSuffice, SizesAssumption
      DEF BufInv, Types, Calls, CallsInv, Reading, Ordered, Owners
    <2> QED BY <1>1, <2>1, <2>2 DEF ReadLoad, BufInv, Ordered
  <1> HIDE DEF Takes
  <1>2. BufInv /\ [Next]_vars => [\A t \in Threads : Takes(t)]_vars
    BY <1>1
  <1>3. BytesTakenOnce <=> [][\A t \in Threads : Takes(t)]_vars
    BY PTL DEF BytesTakenOnce, Takes
  <1> QED BY <1>2, <1>3, Invariant, PTL DEF Spec
================================================================================
