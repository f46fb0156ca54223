---------------------------- MODULE NioSocketChannel ----------------------------
(***************************************************************************)
(* io/niosocketchannel.cc, io/channel.cc and io/socket.cc: one connection, *)
(* its two user-space buffers, and the threads that use it.                *)
(*                                                                         *)
(* The selector polls the channel: tryRead() takes a single byte off the   *)
(* socket into m_read_buffer and hands a read event to a worker unless one *)
(* is waiting; tryWrite() looks for output left in m_buffer. A worker that *)
(* takes a read event drains m_read_buffer and then the socket, and passes *)
(* the bytes to the pipeline when read() says there are some. Workers      *)
(* write as the pipeline's head does: flush(), write(), flush().           *)
(*                                                                         *)
(* The selector writes m_read_buffer under its m_wmutex and workers read   *)
(* it under its m_rmutex, so they overlap, store by store as in ByteBuf;   *)
(* m_buffer is used under m_write_mutex only.                              *)
(*                                                                         *)
(* The socket, set to O_NONBLOCK when accepted, is external: it holds the  *)
(* bytes of the peer, takes all or some of what is written, or returns -1  *)
(* (EAGAIN, or a lost connection). Bytes are numbered in the order sent;   *)
(* -b is what the slot of byte b holds until b is stored in it.            *)
(***************************************************************************)
EXTENDS Buf, FiniteSets

CONSTANTS
    Workers,
    Selector,       \* the thread that runs workerSelect()
    Nobody,
    Capacity,       \* of each of the two buffers
    ReadLength,     \* writeable() of the buffer that read() is given
    MaxIn,          \* bounds the bytes the peer sends
    MaxOut,         \* bounds the bytes the workers write
    Messages,       \* the lengths of the messages they write
    Ages            \* bytes that have gone through each buffer of an older connection

ASSUME CapacityAssumption == Capacity \in Nat /\ Capacity >= 2 /\ ReadLength \in Nat \ {0}
ASSUME AgesAssumption == Ages \subseteq 0 .. Capacity
ASSUME BoundsAssumption == MaxIn \in Nat /\ MaxOut \in Nat /\ Messages \subseteq Nat
ASSUME ThreadsAssumption == Selector \notin Workers /\ Nobody \notin Workers \cup {Selector}

VARIABLES
    received,       \* the socket's bytes from the peer, not yet read
    sent,           \* how many bytes the peer has sent
    eof,            \* whether it has closed its side
    wire,           \* what the socket has taken for the peer
    m_fg,           \* Socket: 1 connected, 3 closed
    m_f,            \* SocketChannel: its state
    m_read_buffer, m_buffer,
    m_write_mutex,  \* its owner
    readEvent, writeEvent,  \* whether such an event waits for a worker
    pc, hand,       \* per thread, where it is and the bytes it has taken off the socket
    delivered,      \* the bytes passed to the pipeline
    dropped,        \* the bytes taken off the socket and thrown away
    overtaken,      \* the bytes whose slot was read before they were stored in it
    accepted,       \* the bytes that write() has put into m_buffer
    asked,          \* how many it has been given
    short,          \* whether the socket has ever taken less than all of a write
    overlapped      \* whether two threads have been between m_read_buffer and the socket
                    \* at once (from delivered on, read by the properties only)

socket == <<received, sent, eof>>
state == <<m_fg, m_f>>
events == <<readEvent, writeEvent>>
input == <<m_read_buffer, hand, delivered, dropped, overtaken, overlapped>>
output == <<wire, m_buffer, m_write_mutex, accepted, asked, short>>
vars == <<socket, state, events, input, output, pc>>

Threads == Workers \cup {Selector}

\* A buffer through which n bytes have gone since it was new or cleared.
Worn(n) == [cap |-> Capacity, r |-> n, bytes |-> [i \in 1 .. n |-> 0]]

Init ==
    /\ received = <<>> /\ sent = 0 /\ eof = FALSE /\ wire = <<>>
    /\ m_fg = 1 /\ m_f = "connected"
    /\ \E n \in Ages : m_read_buffer = Worn(n) /\ m_buffer = Worn(n)
    /\ m_write_mutex = Nobody
    /\ readEvent = FALSE /\ writeEvent = FALSE
    /\ pc = [t \in Threads |-> "idle"] /\ hand = [t \in Threads |-> <<>>]
    /\ delivered = <<>> /\ dropped = {} /\ overtaken = {} /\ accepted = <<>> /\ asked = 0
    /\ short = FALSE /\ overlapped = FALSE

Goes(t, from, to) == pc[t] = from /\ pc' = [pc EXCEPT ![t] = to]
Bytes(s) == {s[i] : i \in DOMAIN s}

\* The byte that x is or is in place of.
Due(x) == IF x < 0 THEN -x ELSE x
Dues(s) == {Due(s[i]) : i \in DOMAIN s}

--------------------------------------------------------------------------------
\* The peer

PeerSend ==
    /\ ~eof /\ sent < MaxIn
    /\ sent' = sent + 1
    /\ received' = Append(received, sent')
    /\ UNCHANGED <<eof, state, events, input, output, pc>>

PeerClose ==
    /\ ~eof
    /\ eof' = TRUE
    /\ UNCHANGED <<received, sent, state, events, input, output, pc>>

\* What the system's read() and recv() find: nothing to read is -1, the end is 0.
NothingToRead == m_fg # 1 \/ (received = <<>> /\ ~eof)
AtEnd == m_fg = 1 /\ received = <<>> /\ eof

--------------------------------------------------------------------------------
\* The selector: tryRead() and tryWrite(), an event for each unless one waits.

TryReadBuffered ==
    /\ pc[Selector] = "idle" /\ ~readEvent
    /\ Readable(m_read_buffer) > 0
    /\ readEvent' = TRUE
    /\ UNCHANGED <<socket, state, writeEvent, input, output, pc>>

\* Between m_read_buffer and the socket; whoever is in "load" or "more" holds m_rmutex.
InsideRead(t) == pc[t] \in {"received", "storing", "take", "load", "more", "check", "socket"}
Overlaps(t) == overlapped' = (overlapped \/ \E u \in Threads \ {t} : InsideRead(u))

TryRecv ==
    /\ ~readEvent
    /\ Readable(m_read_buffer) = 0
    /\ m_fg = 1 /\ received # <<>>
    /\ Goes(Selector, "idle", "received")
    /\ hand' = [hand EXCEPT ![Selector] = <<Head(received)>>]
    /\ received' = Tail(received)
    /\ Overlaps(Selector)
    /\ UNCHANGED <<sent, eof, state, events, m_read_buffer, delivered, dropped, overtaken,
                   output>>

TryRecvEnd ==
    /\ pc[Selector] = "idle" /\ ~readEvent
    /\ Readable(m_read_buffer) = 0 /\ AtEnd
    /\ m_f' = "closed"
    /\ UNCHANGED <<m_fg, socket, events, input, output, pc>>

\* Variant with a plausible bug: the byte is stored where the buffer has no room.
TryClaimUnchecked ==
    /\ Goes(Selector, "received", "storing")
    /\ m_read_buffer' = AfterClaim(m_read_buffer, -hand[Selector][1])
    /\ UNCHANGED <<socket, state, events, hand, delivered, dropped, overtaken, overlapped,
                   output>>

\* The write index goes on before the byte is there.
TryClaim ==
    /\ Goes(Selector, "received", "storing")
    /\ Writeable(m_read_buffer) > 0
    /\ m_read_buffer' = AfterClaim(m_read_buffer, -hand[Selector][1])
    /\ UNCHANGED <<socket, state, events, hand, delivered, dropped, overtaken, overlapped,
                   output>>

\* m_read_buffer is never cleared: once its write index is at the end the byte is dropped,
\* and the event raised all the same.
TryNoRoom ==
    /\ Goes(Selector, "received", "idle")
    /\ Writeable(m_read_buffer) = 0
    /\ dropped' = dropped \cup Bytes(hand[Selector])
    /\ hand' = [hand EXCEPT ![Selector] = <<>>]
    /\ readEvent' = TRUE
    /\ UNCHANGED <<socket, state, writeEvent, m_read_buffer, delivered, overtaken, overlapped,
                   output>>

\* The slots that no worker has loaded yet, the one whose load is under way included.
Unread ==
    {i \in DOMAIN m_read_buffer.bytes :
        \/ i > m_read_buffer.r
        \/ i = m_read_buffer.r /\ \E t \in Threads : pc[t] = "load"}

\* Comes too late for a worker that has loaded the slot.
TryStore ==
    /\ Goes(Selector, "storing", "idle")
    /\ m_read_buffer' = AfterStore(m_read_buffer, hand[Selector][1])
    /\ overtaken' = IF Len(m_read_buffer.bytes) \in Unread THEN overtaken
                    ELSE overtaken \cup Bytes(hand[Selector])
    /\ hand' = [hand EXCEPT ![Selector] = <<>>]
    /\ readEvent' = TRUE
    /\ UNCHANGED <<socket, state, writeEvent, delivered, dropped, overlapped, output>>

\* Between the stores of a clear() of m_buffer it finds output where there is none.
TryWrite ==
    /\ pc[Selector] = "idle" /\ ~writeEvent
    /\ Readable(m_buffer) > 0 \/ (m_buffer.bytes = <<>> /\ accepted # <<>>)
    /\ writeEvent' = TRUE
    /\ UNCHANGED <<socket, state, readEvent, input, output, pc>>

--------------------------------------------------------------------------------
\* read() in a worker

\* The worker takes the event, which lets the selector raise the next one.
TakeReadEvent(t) ==
    /\ readEvent
    /\ Goes(t, "idle", "read")
    /\ readEvent' = FALSE
    /\ UNCHANGED <<socket, state, writeEvent, input, output>>

\* The two loads of readable() without a mutex count as one: only the selector moves the
\* write index, and only from an empty buffer, so that the result was right at a moment
\* between them.
ReadTest(t) ==
    /\ Goes(t, "read", IF Readable(m_read_buffer) > 0 THEN "take" ELSE "socket")
    /\ hand' = [hand EXCEPT ![t] = <<>>]
    /\ Overlaps(t)
    /\ UNCHANGED <<socket, state, events, m_read_buffer, delivered, dropped, overtaken, output>>

\* readBytes(): thread t has m_rmutex, or gets it now; its loop goes on as long as there is
\* something, and may find what the selector claims meanwhile.
HasReadMutex(t) ==
    \/ pc[t] = "more"
    \/ pc[t] = "take" /\ \A u \in Threads : pc[u] \notin {"load", "more"}

ReadsOn(t) == Len(hand[t]) < ReadLength /\ Readable(m_read_buffer) > 0

\* Variant with a plausible bug: readers do not exclude each other.
ReadClaimUnlocked(t) ==
    /\ Goes(t, "take", "load") \/ Goes(t, "more", "load")
    /\ ReadsOn(t)
    /\ m_read_buffer' = AfterRead(m_read_buffer, 1)
    /\ UNCHANGED <<socket, state, events, hand, delivered, dropped, overtaken, overlapped,
                   output>>

ReadClaim(t) ==
    /\ HasReadMutex(t)
    /\ ReadsOn(t)
    /\ pc' = [pc EXCEPT ![t] = "load"]
    /\ m_read_buffer' = AfterRead(m_read_buffer, 1)
    /\ UNCHANGED <<socket, state, events, hand, delivered, dropped, overtaken, overlapped,
                   output>>

ReadLoad(t) ==
    /\ Goes(t, "load", "more")
    /\ hand' = [hand EXCEPT ![t] = Append(@, m_read_buffer.bytes[m_read_buffer.r])]
    /\ UNCHANGED <<socket, state, events, m_read_buffer, delivered, dropped, overtaken,
                   overlapped, output>>

ReadTaken(t) ==
    /\ HasReadMutex(t)
    /\ ~ReadsOn(t)
    /\ pc' = [pc EXCEPT ![t] = "check"]
    /\ UNCHANGED <<socket, state, events, input, output>>

ReadEnough(t) == Len(hand[t]) = ReadLength \/ Readable(m_read_buffer) > 0

\* The bytes go to the pipeline, and the worker's read() is over.
Deliver(t, bytes) ==
    /\ delivered' = delivered \o bytes
    /\ hand' = [hand EXCEPT ![t] = <<>>]

ReadReturnsBuffered(t) ==
    /\ Goes(t, "check", "idle")
    /\ ReadEnough(t)
    /\ Deliver(t, hand[t])
    /\ UNCHANGED <<socket, state, events, m_read_buffer, dropped, overtaken, overlapped,
                   output>>

ReadGoesOn(t) ==
    /\ Goes(t, "check", "socket")
    /\ ~ReadEnough(t)
    /\ UNCHANGED <<socket, state, events, input, output>>

\* Variant with a plausible bug: the socket's bytes are put before the buffered ones.
ReadSocketFirst(t) ==
    LET n == Lesser(ReadLength - Len(hand[t]), Len(received)) IN
    /\ m_fg = 1 /\ n > 0
    /\ Goes(t, "socket", "idle")
    /\ Deliver(t, SubSeq(received, 1, n) \o hand[t])
    /\ received' = SubSeq(received, n + 1, Len(received))
    /\ UNCHANGED <<sent, eof, state, events, m_read_buffer, dropped, overtaken, overlapped,
                   output>>

ReadSocket(t) ==
    LET n == Lesser(ReadLength - Len(hand[t]), Len(received)) IN
    /\ m_fg = 1 /\ n > 0
    /\ Goes(t, "socket", "idle")
    /\ Deliver(t, hand[t] \o SubSeq(received, 1, n))
    /\ received' = SubSeq(received, n + 1, Len(received))
    /\ UNCHANGED <<sent, eof, state, events, m_read_buffer, dropped, overtaken, overlapped,
                   output>>

\* read() adds the -1 of the socket to the number of bytes it already has; the pipeline's
\* head goes on only if the sum is positive, and otherwise deletes the bytes.
ReadSum(t) == Len(hand[t]) - 1

\* Variant with a plausible bug: the -1 of the socket fails the whole read().
ReadNothingFailing(t) ==
    /\ NothingToRead
    /\ Goes(t, "socket", "idle")
    /\ Deliver(t, <<>>)
    /\ dropped' = dropped \cup Dues(hand[t])
    /\ UNCHANGED <<socket, state, events, m_read_buffer, overtaken, overlapped, output>>

ReadNothing(t) ==
    /\ NothingToRead
    /\ Goes(t, "socket", "idle")
    /\ Deliver(t, IF ReadSum(t) > 0 THEN hand[t] ELSE <<>>)
    /\ dropped' = IF ReadSum(t) > 0 THEN dropped ELSE dropped \cup Dues(hand[t])
    /\ UNCHANGED <<socket, state, events, m_read_buffer, overtaken, overlapped, output>>

\* The end of the stream is an exception, whatever was read before it.
ReadEnd(t) ==
    /\ AtEnd
    /\ Goes(t, "socket", "idle")
    /\ m_f' = "closed"
    /\ Deliver(t, <<>>)
    /\ dropped' = dropped \cup Dues(hand[t])
    /\ UNCHANGED <<m_fg, socket, events, m_read_buffer, overtaken, overlapped, output>>

--------------------------------------------------------------------------------
\* write() and flush(), each under m_write_mutex

\* SocketChannel::write(): the bytes leave the buffer whatever the socket makes of them.
\* SocketTakes is how many it takes, -1 for an error.
SocketTakes(n) == IF m_fg = 1 THEN {-1} \cup 1 .. n ELSE {-1}

\* Variant with a plausible bug: the bytes are copied out and not taken.
WholeOutputCopied(b) == b

WholeOutput(b) == AfterRead(b, Readable(b))

WriteToSocket(b, k) ==
    /\ wire' = wire \o SubSeq(Content(b), 1, k)
    /\ m_f' = IF k = -1 THEN "closed" ELSE m_f
    /\ short' = (short \/ k # Readable(b))

\* An output of a worker: flush(), write() and flush(), as writeFlush() makes them.
BeginWrite(t) ==
    /\ \E n \in Messages :
          /\ asked + n <= MaxOut
          /\ asked' = asked + n
          /\ hand' = [hand EXCEPT ![t] = [i \in 1 .. n |-> asked + i]]
    /\ Goes(t, "idle", "flushFirst")
    /\ UNCHANGED <<socket, state, events, m_read_buffer, delivered, dropped, overtaken, overlapped,
                   wire, m_buffer, m_write_mutex, accepted, short>>

\* write(): what fits is put into m_buffer, the rest is not. Half full, it is written out
\* and cleared; not so when the socket fails: the exception leaves the mutex locked.
Write(t) ==
    /\ Goes(t, "write", "flush")
    /\ m_write_mutex = Nobody
    /\ hand' = [hand EXCEPT ![t] = <<>>]
    /\ accepted' = accepted \o WrittenBytes(m_buffer, hand[t])
    /\ LET filled == AfterWrite(m_buffer, hand[t]) IN
          /\ Readable(filled) < Capacity \div 2
          /\ m_buffer' = filled
    /\ UNCHANGED <<socket, state, events, m_read_buffer, delivered, dropped, overtaken, overlapped,
                   wire, m_write_mutex, asked, short>>

WriteThrough(t) ==
    /\ m_write_mutex = Nobody
    /\ hand' = [hand EXCEPT ![t] = <<>>]
    /\ accepted' = accepted \o WrittenBytes(m_buffer, hand[t])
    /\ LET filled == AfterWrite(m_buffer, hand[t]) IN
          /\ Readable(filled) >= Capacity \div 2
          /\ \E k \in SocketTakes(Readable(filled)) :
                /\ WriteToSocket(filled, k)
                /\ m_buffer' = IF k = -1 THEN WholeOutput(filled) ELSE Clear(filled)
                /\ m_write_mutex' = IF k = -1 THEN t ELSE Nobody
                /\ Goes(t, "write", IF k = -1 THEN "idle" ELSE "flush")
    /\ UNCHANGED <<m_fg, socket, events, m_read_buffer, delivered, dropped, overtaken,
                   overlapped, asked>>

\* Variant with a plausible bug: nothing is done for a channel that is closed.
FlushUnlessClosed ==
    /\ m_write_mutex = Nobody
    /\ IF Readable(m_buffer) = 0 \/ m_f = "closed"
       THEN UNCHANGED <<m_f, wire, short, m_buffer>>
       ELSE \E k \in SocketTakes(Readable(m_buffer)) :
                /\ WriteToSocket(m_buffer, k)
                /\ m_buffer' = WholeOutput(m_buffer)
    /\ UNCHANGED <<m_fg, socket, m_read_buffer, delivered, dropped, overtaken, overlapped,
                   m_write_mutex, accepted, asked>>

\* flush() swallows the exception and never clears the buffer.
Flush ==
    /\ m_write_mutex = Nobody
    /\ IF Readable(m_buffer) = 0
       THEN UNCHANGED <<m_f, wire, short, m_buffer>>
       ELSE \E k \in SocketTakes(Readable(m_buffer)) :
                /\ WriteToSocket(m_buffer, k)
                /\ m_buffer' = WholeOutput(m_buffer)
    /\ UNCHANGED <<m_fg, socket, m_read_buffer, delivered, dropped, overtaken, overlapped,
                   m_write_mutex, accepted, asked>>

\* The flushes of an output, of a write event, and of close().
FlushStep(t) ==
    /\ \/ Goes(t, "flushFirst", "write")
       \/ Goes(t, "flush", "idle")
       \/ Goes(t, "close", "closing")
    /\ Flush
    /\ UNCHANGED <<events, hand>>

TakeWriteEvent(t) ==
    /\ writeEvent
    /\ Goes(t, "idle", "flush")
    /\ writeEvent' = FALSE
    /\ UNCHANGED <<socket, state, readEvent, input, output>>

Close(t) ==
    /\ m_fg = 1
    /\ Goes(t, "idle", "close")
    /\ UNCHANGED <<socket, state, events, input, output>>

\* Socket::close()
SocketClose == m_fg' = 3

CloseSocket(t) ==
    /\ Goes(t, "closing", "idle")
    /\ SocketClose /\ m_f' = "closed"
    /\ UNCHANGED <<socket, events, input, output>>

--------------------------------------------------------------------------------
SelectorStep ==
    \/ TryReadBuffered \/ TryRecv \/ TryRecvEnd \/ TryClaim \/ TryNoRoom \/ TryStore
    \/ TryWrite

WorkerStep(t) ==
    \/ TakeReadEvent(t)
    \/ ReadTest(t) \/ ReadClaim(t) \/ ReadLoad(t) \/ ReadTaken(t)
    \/ ReadReturnsBuffered(t) \/ ReadGoesOn(t)
    \/ ReadSocket(t) \/ ReadNothing(t) \/ ReadEnd(t)
    \/ Write(t) \/ WriteThrough(t) \/ FlushStep(t) \/ TakeWriteEvent(t) \/ CloseSocket(t)

Next ==
    \/ PeerSend \/ PeerClose
    \/ SelectorStep
    \/ \E t \in Workers : WorkerStep(t) \/ BeginWrite(t) \/ Close(t)

\* The selector's loop goes on, and so do the workers, which take waiting events and obtain
\* m_write_mutex when it is free again and again. Nobody must write or close.
Fairness == WF_vars(SelectorStep) /\ \A t \in Workers : SF_vars(WorkerStep(t))

Spec == Init /\ [][Next]_vars /\ Fairness

--------------------------------------------------------------------------------
\* In the selector's hand until there is a slot for it.
InHand(t) == IF InsideRead(t) /\ pc[t] # "storing" THEN Dues(hand[t]) ELSE {}
InHands == UNION {InHand(t) : t \in Threads}
InSlots == {Due(m_read_buffer.bytes[i]) : i \in Unread}
Storing == IF pc[Selector] = "storing" THEN Bytes(hand[Selector]) ELSE {}

TypeOK ==
    /\ sent \in 0 .. MaxIn /\ Bytes(received) \subseteq 1 .. sent /\ eof \in BOOLEAN
    /\ m_fg \in {1, 3} /\ m_f \in {"connected", "closed"}
    /\ \A b \in {m_read_buffer, m_buffer} :
          b.cap = Capacity /\ Len(b.bytes) <= Capacity /\ b.r \in 0 .. Len(b.bytes)
    /\ m_write_mutex \in Workers \cup {Nobody}
    /\ \A t \in Threads :
          pc[t] \in {"idle", "received", "storing", "read", "take", "load", "more", "check",
                     "socket", "flushFirst", "write", "flush", "close", "closing"}
    /\ asked \in 0 .. MaxOut /\ Bytes(accepted) \subseteq 1 .. asked
    /\ {readEvent, writeEvent, short, overlapped} \subseteq BOOLEAN

\* Every byte of the peer, or what was read in place of it, is in one place: the socket, an
\* unread slot of m_read_buffer, the hands of one thread, the pipeline, or thrown away. The
\* pipeline never gets a byte twice, and something else in place of it just when a worker
\* has loaded the slot before the selector's store, by which the byte is lost.
InputConserved ==
    LET places == <<Bytes(received), InSlots, InHands, Dues(delivered), dropped>> IN
    /\ \A b \in 1 .. sent : Cardinality({i \in DOMAIN places : b \in places[i]}) = 1
    /\ Cardinality(Dues(delivered)) = Len(delivered)
    /\ \A x \in Bytes(delivered) : x < 0 <=> Due(x) \in overtaken \cup Storing
    /\ overtaken # {} => overlapped

\* Bytes are lost in four ways only: the byte that tryRead() took off the socket alone is
\* thrown away when nothing has followed it by the time its worker reads on, or when
\* m_read_buffer is worn out; it is overtaken; and the end of the stream throws away what
\* the same read() took before it. But for the end, they are lost one at a time.
LostBytes == dropped \cup overtaken
DropsAreLoneBytes ==
    [][/\ Cardinality(LostBytes') <= Cardinality(LostBytes) + 1 \/ AtEnd
       /\ dropped' # dropped =>
             received = <<>> \/ m_fg = 3 \/ Writeable(m_read_buffer) = 0
       /\ overtaken' # overtaken => Readable(m_read_buffer) = 0]_vars

\* What one read() has in hand is in the order sent and older than what the socket has left,
\* whatever other threads do. As long as no two threads have been between m_read_buffer and
\* the socket at once, the pipeline sees all bytes in that order.
Ascending(s) == \A j, k \in DOMAIN s : j < k => Due(s[j]) < Due(s[k])
InOrder ==
    /\ \A t \in Threads : InsideRead(t) =>
          /\ Ascending(hand[t])
          /\ \A a \in Dues(hand[t]), b \in Bytes(received) : a < b
    /\ ~overlapped => Ascending(delivered)

\* As long as the socket takes what it is given, it gets the bytes that write() accepted,
\* all of them but those still in m_buffer, in that order; in any case it gets them in
\* order and none twice, whatever flushes and writes run at once.
OutputInOrder ==
    /\ ~short => accepted = wire \o Content(m_buffer)
    /\ \A j, k \in DOMAIN wire :
          j < k => \E i, n \in DOMAIN accepted : i < n /\ accepted[i] = wire[j] /\ accepted[n] = wire[k]

\* Output that is left in m_buffer does not stay there, although nobody writes again,
\* unless the exception of a failed write has left m_write_mutex locked.
MutexLeaked == \E t \in Workers : m_write_mutex = t
OutputLeaves == Readable(m_buffer) > 0 ~> (Readable(m_buffer) = 0 \/ MutexLeaked)
================================================================================
