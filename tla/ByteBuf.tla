-------------------------------- MODULE ByteBuf --------------------------------
(***************************************************************************)
(* io/buf.cc, ByteBuf, under concurrent calls, load by load and store by   *)
(* store.                                                                  *)
(*                                                                         *)
(* The buffer is linear: both indexes only grow until clear() or resize()  *)
(* takes them back. Reads serialise on m_rmutex and writes on m_wmutex, so *)
(* that one read and one write overlap. Compiled without optimisation,     *)
(* m_buf[m_write_index++] = x stores the index before the byte, and        *)
(* *p = m_buf[m_read_index++] stores the index before it loads the byte.   *)
(*                                                                         *)
(* A byte is the number of its write, the bytes being counted over the     *)
(* life of the buffer; 0 is whatever malloc left behind. readable() is     *)
(* also called by threads that hold neither mutex. clear() takes none: its *)
(* callers own the buffer or hold a mutex of their own, so here it         *)
(* overlaps only with such calls of readable().                            *)
(***************************************************************************)
EXTENDS Integers, Sequences

CONSTANTS
    Threads,
    Capacities,     \* what the constructor and resize() are given
    Lengths,        \* the lengths of the calls
    Kinds,          \* the kinds of values read
    MaxBytes,       \* bounds the bytes asked to be written
    Nobody          \* the owner of a free mutex

Width == [byte |-> 1, bool |-> 1, short |-> 2, int |-> 4, float |-> 4,
          longlong |-> 8, double |-> 8]

ASSUME ThreadsAssumption == Nobody \notin Threads
ASSUME SizesAssumption ==
    /\ Capacities \subseteq Nat \ {0} /\ Lengths \subseteq Nat \ {0}
    /\ \E c \in Capacities : \A d \in Capacities : d <= c
    /\ MaxBytes \in Nat /\ Kinds \subseteq DOMAIN Width

VARIABLES
    m_buf, m_capacity, m_read_index, m_write_index, m_rmutex, m_wmutex,
    pc,         \* per thread, where it is
    call,       \* per thread, its present or last call
    asked,      \* the bytes asked to be written so far
    written,    \* the bytes for which the write index has been advanced so far
    due,        \* per slot, the byte the write index was last advanced for there
    taken       \* the byte due to the last read (properties only)

indexes == <<m_read_index, m_write_index>>
mutexes == <<m_rmutex, m_wmutex>>
vars == <<m_buf, m_capacity, indexes, mutexes, pc, call, asked, written, due, taken>>

\* [op, len, free] as called, kind of value read, n bytes moved, the slot or index at hand,
\* whether readBytes() or writeBytes() has failed, and what the caller is answered.
Call(op, len, free, kind) ==
    [op |-> op, len |-> len, free |-> free, kind |-> kind, n |-> 0, at |-> 0,
     failed |-> FALSE, answer |-> "none", disturbed |-> FALSE]

Slots == 0 .. (CHOOSE c \in Capacities : \A d \in Capacities : d <= c) - 1
Bytes == 0 .. MaxBytes

Init ==
    /\ m_capacity \in Capacities
    /\ m_buf = [i \in Slots |-> 0]
    /\ m_read_index = 0 /\ m_write_index = 0
    /\ m_rmutex = Nobody /\ m_wmutex = Nobody
    /\ pc = [t \in Threads |-> "idle"]
    /\ call = [t \in Threads |-> Call("none", 0, FALSE, "bytes")]
    /\ asked = 0 /\ written = 0
    /\ due = m_buf
    /\ taken = 0

Readable == m_write_index - m_read_index
Writeable == m_capacity - m_write_index

Goes(t, from, to) == pc[t] = from /\ pc' = [pc EXCEPT ![t] = to]

\* Thread t calls: not while some thread is inside clear(), see above.
Begins(t, to, c) ==
    /\ Goes(t, "idle", to)
    /\ call' = [call EXCEPT ![t] = c]
    /\ to # "observe" => \A u \in Threads : pc[u] # "clear"

--------------------------------------------------------------------------------
\* readBytes(), and the reads of values and strings, which want all bytes or none.

BeginRead(t, len, free, kind) ==
    /\ Begins(t, "read", Call("read", len, free, kind))
    /\ UNCHANGED <<m_buf, m_capacity, indexes, mutexes, asked, written, due, taken>>

ReadBytes(t) == \E len \in Lengths, free \in BOOLEAN : BeginRead(t, len, free, "bytes")
ReadValue(t) == \E k \in Kinds : BeginRead(t, Width[k], TRUE, k)
ReadString(t) == \E len \in Lengths : BeginRead(t, len, TRUE, "bytes")

\* Variant with a plausible bug: the mutex is taken after the test for enough bytes, too
\* late to keep another read out.
ReadEnterUnlocked(t) ==
    /\ Goes(t, "read", "reading")
    /\ m_rmutex' = t
    /\ call' = [call EXCEPT ![t].failed = call[t].free /\ Readable < call[t].len]
    /\ UNCHANGED <<m_buf, m_capacity, indexes, m_wmutex, asked, written, due, taken>>

\* The mutex, and the test for enough bytes when the caller wants all or nothing.
ReadEnter(t) ==
    /\ m_rmutex = Nobody
    /\ ReadEnterUnlocked(t)

\* Variant with a plausible bug: the loop runs once more than asked for.
ReadsOnOneTooMany(t) == ~call[t].failed /\ call[t].n <= call[t].len /\ Readable > 0

ReadsOn(t) == ~call[t].failed /\ call[t].n < call[t].len /\ Readable > 0

ReadClaim(t) ==
    /\ Goes(t, "reading", "load")
    /\ ReadsOn(t)
    /\ m_read_index' = m_read_index + 1
    /\ call' = [call EXCEPT ![t].at = m_read_index]
    /\ UNCHANGED <<m_buf, m_capacity, m_write_index, mutexes, asked, written, due, taken>>

ReadLoad(t) ==
    /\ Goes(t, "load", "reading")
    /\ call' = [call EXCEPT ![t].n = @ + 1, ![t].at = 0]
    /\ taken' = due[call[t].at]
    /\ UNCHANGED <<m_buf, m_capacity, indexes, mutexes, asked, written, due>>

\* A call that fails answers the value it started from: -1 for a length, an int or a long
\* long, "" for a string, but also 0 for a byte, FALSE for a bool and 0.0 for a float or
\* double, which bytes in the buffer can stand for as well. readShort() tests the length for
\* 1 and never for failure: it answers two bytes of its stack.
Answer(c) ==
    IF ~c.failed THEN "bytes" ELSE IF c.kind = "short" THEN "garbage" ELSE "default"

\* Variant with a plausible bug: a read that fails returns with the mutex held.
ReadReturnLocked(t) ==
    /\ Goes(t, "reading", "idle")
    /\ ~ReadsOn(t)
    /\ m_rmutex' = IF call[t].failed THEN m_rmutex ELSE Nobody
    /\ call' = [call EXCEPT ![t].answer = Answer(call[t])]
    /\ UNCHANGED <<m_buf, m_capacity, indexes, m_wmutex, asked, written, due, taken>>

ReadReturn(t) ==
    /\ Goes(t, "reading", "idle")
    /\ ~ReadsOn(t)
    /\ m_rmutex' = Nobody
    /\ call' = [call EXCEPT ![t].answer = Answer(call[t])]
    /\ UNCHANGED <<m_buf, m_capacity, indexes, m_wmutex, asked, written, due, taken>>

--------------------------------------------------------------------------------
\* writeBytes(), to which all other writes come down: those of values and strings want all
\* bytes or none.

BeginWrite(t, len, free) ==
    /\ asked + len <= MaxBytes
    /\ asked' = asked + len
    /\ Begins(t, "write", Call("write", len, free, "bytes"))
    /\ UNCHANGED <<m_buf, m_capacity, indexes, mutexes, written, due, taken>>

WriteBytes(t) == \E len \in Lengths, free \in BOOLEAN : BeginWrite(t, len, free)
WriteValue(t) == \E k \in Kinds : BeginWrite(t, Width[k], TRUE)
WriteString(t) == \E len \in Lengths : BeginWrite(t, len, TRUE)

WriteEnter(t) ==
    /\ Goes(t, "write", "writing")
    /\ m_wmutex = Nobody
    /\ m_wmutex' = t
    /\ call' = [call EXCEPT ![t].failed = call[t].free /\ Writeable < call[t].len]
    /\ UNCHANGED <<m_buf, m_capacity, indexes, m_rmutex, asked, written, due, taken>>

WritesOn(t) == ~call[t].failed /\ call[t].n < call[t].len /\ Writeable > 0

WriteClaim(t) ==
    /\ Goes(t, "writing", "store")
    /\ WritesOn(t)
    /\ m_write_index' = m_write_index + 1
    /\ written' = written + 1
    /\ due' = [due EXCEPT ![m_write_index] = written']
    /\ call' = [call EXCEPT ![t].at = m_write_index]
    /\ UNCHANGED <<m_buf, m_capacity, m_read_index, mutexes, asked, taken>>

\* Variant with a plausible bug: the byte goes to where the write index stands now.
WriteStoreAtIndex(t) ==
    /\ Goes(t, "store", "writing")
    /\ m_buf' = [i \in DOMAIN m_buf |-> IF i = m_write_index THEN written ELSE m_buf[i]]
    /\ call' = [call EXCEPT ![t].n = @ + 1, ![t].at = 0]
    /\ UNCHANGED <<m_capacity, indexes, mutexes, asked, written, due, taken>>

WriteStore(t) ==
    /\ Goes(t, "store", "writing")
    /\ m_buf' = [m_buf EXCEPT ![call[t].at] = due[call[t].at]]
    /\ call' = [call EXCEPT ![t].n = @ + 1, ![t].at = 0]
    /\ UNCHANGED <<m_capacity, indexes, mutexes, asked, written, due, taken>>

WriteReturn(t) ==
    /\ Goes(t, "writing", "idle")
    /\ ~WritesOn(t)
    /\ m_wmutex' = Nobody
    /\ call' = [call EXCEPT ![t].answer = Answer(call[t])]
    /\ UNCHANGED <<m_buf, m_capacity, indexes, m_rmutex, asked, written, due, taken>>

--------------------------------------------------------------------------------
\* Variant with a plausible bug: the capacity stands where the write index should.
ObserveCapacity(t) ==
    /\ Begins(t, "observe", [Call("readable", 0, FALSE, "bytes") EXCEPT !.at = m_capacity])
    /\ UNCHANGED <<m_buf, m_capacity, indexes, mutexes, asked, written, due, taken>>

\* readable() without a mutex: the write index is loaded before the read index.
Observe(t) ==
    /\ Begins(t, "observe", [Call("readable", 0, FALSE, "bytes") EXCEPT !.at = m_write_index])
    /\ UNCHANGED <<m_buf, m_capacity, indexes, mutexes, asked, written, due, taken>>

\* n is by how much the result exceeds what is there to read now.
ObserveRead(t) ==
    /\ Goes(t, "observe", "idle")
    /\ call' = [call EXCEPT ![t].n = (call[t].at - m_read_index) - Readable, ![t].at = 0]
    /\ UNCHANGED <<m_buf, m_capacity, indexes, mutexes, asked, written, due, taken>>

\* The calls of readable() under way see an index go back.
Disturb == [u \in Threads |-> [call[u] EXCEPT !.disturbed = @ \/ pc[u] = "observe"]]

--------------------------------------------------------------------------------
\* clear() and resize()

Clear(t) ==
    /\ \A u \in Threads \ {t} : pc[u] \in {"idle", "observe"}
    /\ m_rmutex = Nobody /\ m_wmutex = Nobody
    /\ Begins(t, "clear", Call("clear", 0, FALSE, "bytes"))
    /\ m_read_index' = 0
    /\ UNCHANGED <<m_buf, m_capacity, m_write_index, mutexes, asked, written, due, taken>>

ClearWrite(t) ==
    /\ Goes(t, "clear", "idle")
    /\ m_write_index' = 0
    /\ call' = Disturb
    /\ UNCHANGED <<m_buf, m_capacity, m_read_index, mutexes, asked, written, due, taken>>

Resize(t) ==
    /\ \E c \in Capacities : Begins(t, "resize", Call("resize", c, FALSE, "bytes"))
    /\ UNCHANGED <<m_buf, m_capacity, indexes, mutexes, asked, written, due, taken>>

ResizeEnter(t) ==
    /\ Goes(t, "resize", "resizing")
    /\ m_rmutex = Nobody
    /\ m_rmutex' = t
    /\ UNCHANGED <<m_buf, m_capacity, indexes, m_wmutex, call, asked, written, due, taken>>

\* Variant with a plausible bug: the indexes are left beyond the new capacity.
ClipNot(index, capacity) == index

Clip(index, capacity) == IF index > capacity THEN capacity ELSE index

\* To the present capacity: returns with both mutexes held.
ResizeSame(t) ==
    /\ Goes(t, "resizing", "idle")
    /\ m_wmutex = Nobody
    /\ call[t].len = m_capacity
    /\ m_wmutex' = t
    /\ UNCHANGED <<m_buf, m_capacity, indexes, m_rmutex, call, asked, written, due, taken>>

\* malloc() leaves the slots above the old capacity as they come.
ResizeApply(t) ==
    /\ Goes(t, "resizing", "idle")
    /\ m_wmutex = Nobody
    /\ call[t].len # m_capacity
    /\ m_rmutex' = Nobody
    /\ m_capacity' = call[t].len
    /\ m_buf' = [i \in Slots |-> IF i < m_capacity THEN m_buf[i] ELSE 0]
    /\ m_read_index' = Clip(m_read_index, call[t].len)
    /\ m_write_index' = Clip(m_write_index, call[t].len)
    /\ call' = Disturb
    /\ UNCHANGED <<m_wmutex, asked, written, due, taken>>

--------------------------------------------------------------------------------
Enter(t) == ReadEnter(t) \/ WriteEnter(t) \/ ResizeEnter(t) \/ ResizeSame(t) \/ ResizeApply(t)

Proceed(t) ==
    \/ ReadClaim(t) \/ ReadLoad(t) \/ ReadReturn(t)
    \/ WriteClaim(t) \/ WriteStore(t) \/ WriteReturn(t)
    \/ ObserveRead(t) \/ ClearWrite(t)

Next == \E t \in Threads :
    \/ ReadBytes(t) \/ ReadValue(t) \/ ReadString(t)
    \/ WriteBytes(t) \/ WriteValue(t) \/ WriteString(t)
    \/ Observe(t) \/ Clear(t) \/ Resize(t)
    \/ Enter(t) \/ Proceed(t)

\* A thread inside a call goes on, and a mutex that is free again and again is obtained.
\* Nothing makes a thread begin a call.
Fairness == \A t \in Threads : SF_vars(Enter(t)) /\ WF_vars(Proceed(t))

Spec == Init /\ [][Next]_vars /\ Fairness

--------------------------------------------------------------------------------
\* Types; the indexes are in order in every state a thread can see.
TypeOK ==
    /\ m_capacity \in Capacities
    /\ m_buf \in [Slots -> Bytes] /\ due \in [Slots -> Bytes]
    /\ 0 <= m_read_index /\ m_read_index <= m_write_index /\ m_write_index <= m_capacity
    /\ m_rmutex \in Threads \cup {Nobody} /\ m_wmutex \in Threads \cup {Nobody}
    /\ asked \in Bytes /\ written \in 0 .. asked
    /\ taken \in Bytes
    /\ \A t \in Threads :
          /\ pc[t] \in {"idle", "read", "reading", "load", "write", "writing", "store",
                        "observe", "clear", "resize", "resizing"}
          /\ call[t].n \in Int /\ call[t].at \in Nat /\ call[t].len \in Nat

\* Below the write index every byte is in its slot, but for the one byte, the last, that a
\* write in progress has counted and not yet stored: however reads, writes, clear() and
\* resize() follow each other, no other slot is exposed before its byte is there.
AnnouncedBytesPresent ==
    \A i \in 0 .. m_write_index - 1 :
        \/ m_buf[i] = due[i]
        \/ i = m_write_index - 1 /\ \E t \in Threads : pc[t] = "store" /\ call[t].at = i

\* Each byte written is due to at most one read, in the order of the writes; a read that
\* overtakes a write gets what was in the slot before, never a byte still to come.
BytesTakenOnce ==
    [][\A t \in Threads : pc[t] = "load" /\ pc'[t] = "reading" =>
          taken < taken' /\ m_buf[call[t].at] <= taken']_vars

\* A read or write that asks for all or nothing moves all its bytes or none, whatever runs
\* next to it, and answers bytes just when it moved them; the other kind never moves more
\* than it was asked to. What it answers otherwise is the value it started from, except that
\* a short is garbage: no kind of call answers a part, or bytes it did not take.
AllOrNothing ==
    \A t \in Threads : pc[t] = "idle" /\ call[t].op \in {"read", "write"} =>
        /\ call[t].n \in 0 .. call[t].len
        /\ call[t].free =>
              /\ call[t].answer = "bytes" => call[t].n = call[t].len
              /\ call[t].answer # "bytes" => call[t].n = 0
              /\ call[t].answer = "garbage" => call[t].kind = "short"

\* readable() without a mutex may say less than there is to read, even less than nothing,
\* but more only if clear() or resize() has run into it.
ReadableNotOverstated ==
    \A t \in Threads : pc[t] = "idle" /\ call[t].op = "readable" =>
        call[t].n <= 0 \/ call[t].disturbed

\* Every call returns, unless a resize() to the capacity the buffer already had has left
\* both mutexes locked.
MutexesLeaked == \E t \in Threads : m_rmutex = t /\ m_wmutex = t
CallsReturn == \A t \in Threads : pc[t] # "idle" ~> (pc[t] = "idle" \/ MutexesLeaked)
================================================================================
