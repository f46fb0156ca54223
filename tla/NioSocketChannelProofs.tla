------------------------- MODULE NioSocketChannelProofs -------------------------
(***************************************************************************)
(* One connection's bytes, for every number of workers and all capacities, *)
(* lengths and messages: what TLC checks of NioSocketChannel but for the   *)
(* liveness.                                                               *)
(***************************************************************************)
EXTENDS NioSocketChannel, FiniteSetTheorems, SequenceTheorems, TLAPS

--------------------------------------------------------------------------------
\* The inductive invariant

\* A buffer as the calls of Buf leave it.
WellFormed(b) ==
    /\ b \in [cap : {Capacity}, r : Nat, bytes : Seq(Int)]
    /\ Len(b.bytes) <= Capacity /\ b.r <= Len(b.bytes)

Outside == {"idle", "read", "flushFirst", "write", "flush", "close", "closing"}
Inside == {"take", "load", "more", "check", "socket"}
SelectorPlaces == {"idle", "received", "storing"}

\* The selector only takes a byte and stores it, which no worker does.
ThreadTypes ==
    /\ hand \in [Threads -> Seq(Int)] /\ pc \in [Threads -> Outside \cup Inside \cup SelectorPlaces]
    /\ pc[Selector] \in SelectorPlaces
    /\ \A t \in Workers : pc[t] \in Outside \cup Inside

Types ==
    /\ received \in Seq(Int) /\ sent \in 0 .. MaxIn /\ eof \in BOOLEAN
    /\ m_fg \in {1, 3} /\ m_f \in {"connected", "closed"}
    /\ WellFormed(m_read_buffer) /\ WellFormed(m_buffer)
    /\ m_write_mutex \in Workers \cup {Nobody}
    /\ asked \in 0 .. MaxOut
    /\ delivered \in Seq(Int) /\ wire \in Seq(Int) /\ accepted \in Seq(Int)

Flags ==
    /\ readEvent \in BOOLEAN /\ writeEvent \in BOOLEAN
    /\ short \in BOOLEAN /\ overlapped \in BOOLEAN

\* The socket holds the youngest bytes, in the order sent.
Fresh == sent - Len(received)

ReceivedRuns ==
    /\ Len(received) <= sent
    /\ \A i \in 1 .. Len(received) : received[i] = Fresh + i

\* tryRead() takes one byte, and only when m_read_buffer is empty; one worker at a time is in
\* readBytes(), between the load of a slot and the claim of the next.
Reads(t) == pc[t] \in {"load", "more"}
Slot == Len(m_read_buffer.bytes)

HandInv ==
    /\ pc[Selector] \in {"received", "storing"} =>
          /\ Len(hand[Selector]) = 1
          /\ hand[Selector][1] \in 1 .. Fresh
    /\ pc[Selector] = "received" => Readable(m_read_buffer) = 0
    /\ pc[Selector] = "storing" => Slot >= 1 /\ Due(m_read_buffer.bytes[Slot]) = hand[Selector][1]
    /\ \A t \in Threads : pc[t] = "take" => hand[t] = <<>>
    /\ \A t, u \in Threads : Reads(t) /\ Reads(u) => t = u
    /\ \A t \in Threads : pc[t] = "load" => m_read_buffer.r >= 1

\* What a thread holds, and what the slots hold that are still to be read.
Held == [t \in Threads |-> IF InsideRead(t) /\ pc[t] # "storing" THEN hand[t] ELSE <<>>]
Slots == [i \in Unread |-> m_read_buffer.bytes[i]]
SlotDues(s) == {Due(s[i]) : i \in DOMAIN s}
HandDues(h) == [t \in Threads |-> Dues(h[t])]

\* The bytes taken off the socket are divided between the slots, B, the hands, H, the
\* pipeline, D, and the bin, X.
Divided(n, B, H, D, X) ==
    /\ B \cup (UNION {H[u] : u \in Threads}) \cup D \cup X = 1 .. n
    /\ B \cap D = {} /\ B \cap X = {} /\ D \cap X = {}
    /\ \A t \in Threads : H[t] \cap (B \cup D \cup X) = {}
    /\ \A t, u \in Threads : t # u => H[t] \cap H[u] = {}

Distinct(s) == \A j, k \in 1 .. Len(s) : Due(s[j]) = Due(s[k]) => j = k

InputInv ==
    /\ ReceivedRuns
    /\ Divided(Fresh, SlotDues(Slots), HandDues(Held), Dues(delivered), dropped)
    /\ Distinct(delivered)

\* A slot's byte is younger than those before it, and what the selector has received is the
\* youngest; what a worker in readBytes() has is older than all it may still find.
Older(A, B) == \A a \in A, b \in B : a < b

OrderInv ==
    /\ Ascending(Slots)
    /\ \A t \in Threads : Ascending(Held[t])
    /\ \A t \in Threads : Reads(t) => Older(Dues(hand[t]), SlotDues(Slots))
    /\ pc[Selector] = "received" =>
          /\ Older(SlotDues(Slots), Dues(hand[Selector]))
          /\ \A t \in Threads : Reads(t) => Older(Dues(hand[t]), Dues(hand[Selector]))

\* Something else is read in place of a byte just when its store is still to come or has
\* come too late.
Faithful(x, late) == x < 0 <=> Due(x) \in late

SignInv ==
    /\ \A i \in Unread : Faithful(Slots[i], Storing)
    /\ \A t \in Threads : \A x \in Bytes(Held[t]) : Faithful(x, overtaken \cup Storing)
    /\ \A x \in Bytes(delivered) : Faithful(x, overtaken \cup Storing)
    /\ overtaken \subseteq 1 .. Fresh /\ overtaken \cap SlotDues(Slots) = {}

\* As long as nobody has overlapped, who is inside is alone, what the pipeline has is older
\* than all that follows, and no store came too late.
AloneInv ==
    ~overlapped =>
        /\ \A t, u \in Threads : InsideRead(t) /\ InsideRead(u) => t = u
        /\ \A t \in Workers : InsideRead(t) => Older(Dues(hand[t]), SlotDues(Slots))
        /\ \A t \in Workers : pc[t] = "socket" => Unread = {}
        /\ Ascending(delivered)
        /\ Older(Dues(delivered), SlotDues(Slots))
        /\ \A t \in Threads : Older(Dues(delivered), Dues(Held[t]))
        /\ overtaken = {}
        /\ pc[Selector] = "storing" => Slot \in Unread

\* What write() has accepted, A, ends in the content C of m_buffer; what is before that has
\* been given to the socket, which has taken some of it, W, in order.
Written(A, W, C) ==
    /\ Len(C) <= Len(A)
    /\ \A i \in 1 .. Len(C) : A[Len(A) - Len(C) + i] = C[i]
    /\ \A j \in 1 .. Len(W) : \E i \in 1 .. Len(A) - Len(C) : A[i] = W[j]
    /\ \A j, k \in 1 .. Len(W) : j < k =>
          \E i, n \in 1 .. Len(A) - Len(C) : i < n /\ A[i] = W[j] /\ A[n] = W[k]

OutputInv ==
    /\ Written(accepted, wire, Content(m_buffer))
    /\ ~short => accepted = wire \o Content(m_buffer)

\* The bytes of an output are numbered as asked for.
AskedInv ==
    /\ Bytes(accepted) \subseteq 1 .. asked
    /\ \A t \in Threads : pc[t] \in {"flushFirst", "write"} => Bytes(hand[t]) \subseteq 1 .. asked

BaseInv == Types /\ Flags /\ ThreadTypes /\ HandInv
ReadInv == InputInv /\ OrderInv /\ SignInv /\ AloneInv
ChannelInv == BaseInv /\ ReadInv /\ OutputInv /\ AskedInv
--------------------------------------------------------------------------------
\* Bytes of sequences, and the calls of Buf

LEMMA BytesOf ==
  ASSUME NEW s \in Seq(Int)
  PROVE  /\ Bytes(s) = {s[i] : i \in 1 .. Len(s)} /\ Bytes(s) \subseteq Int
         /\ Len(s) = 0 => Bytes(s) = {} /\ s = <<>>
         /\ Len(s) = 1 => Bytes(s) = {s[1]}
  <1>1. DOMAIN s = 1 .. Len(s) /\ Len(s) \in Nat
    BY LenProperties
  <1>2. Bytes(s) = {s[i] : i \in 1 .. Len(s)}
    BY <1>1 DEF Bytes
  <1>3. \A i \in 1 .. Len(s) : s[i] \in Int
    BY ElementOfSeq
  <1>4. ASSUME Len(s) = 0 PROVE s = <<>>
    BY <1>4, EmptySeq
  <1>5. ASSUME Len(s) = 1 PROVE Bytes(s) = {s[1]}
    <2>1. \A i \in 1 .. Len(s) : i = 1
      BY <1>5
    <2>2. 1 \in 1 .. Len(s)
      BY <1>5
    <2> QED BY <1>2, <2>1, <2>2
  <1>6. Len(s) = 0 => 1 .. Len(s) = {}
    BY <1>1
  <1> QED BY <1>2, <1>3, <1>4, <1>5, <1>6

LEMMA ConcatBytes ==
  ASSUME NEW s \in Seq(Int), NEW r \in Seq(Int)
  PROVE  /\ s \o r \in Seq(Int) /\ Len(s \o r) = Len(s) + Len(r)
         /\ Len(s) \in Nat /\ Len(r) \in Nat
         /\ \A i \in 1 .. Len(s) : (s \o r)[i] = s[i]
         /\ \A i \in 1 .. Len(r) : (s \o r)[Len(s) + i] = r[i]
         /\ Bytes(s \o r) = Bytes(s) \cup Bytes(r)
  <1>1. /\ s \o r \in Seq(Int) /\ Len(s \o r) = Len(s) + Len(r)
        /\ Len(s) \in Nat /\ Len(r) \in Nat
        /\ \A i \in 1 .. Len(s) + Len(r) :
              (s \o r)[i] = IF i <= Len(s) THEN s[i] ELSE r[i - Len(s)]
    BY ConcatProperties, LenProperties
  <1>2. \A i \in 1 .. Len(s) : i \in 1 .. Len(s) + Len(r) /\ (s \o r)[i] = s[i]
    BY <1>1
  <1>3. ASSUME NEW i \in 1 .. Len(r)
        PROVE  Len(s) + i \in 1 .. Len(s) + Len(r) /\ (s \o r)[Len(s) + i] = r[i]
    <2>1. Len(s) + i \in 1 .. Len(s) + Len(r) /\ ~(Len(s) + i <= Len(s)) /\ Len(s) + i - Len(s) = i
      BY <1>1
    <2>2. (s \o r)[Len(s) + i] = r[Len(s) + i - Len(s)]
      BY <1>1, <2>1
    <2> QED BY <2>1, <2>2
  <1>4. /\ Bytes(s) = {s[i] : i \in 1 .. Len(s)} /\ Bytes(r) = {r[i] : i \in 1 .. Len(r)}
        /\ Bytes(s \o r) = {(s \o r)[i] : i \in 1 .. Len(s) + Len(r)}
    BY <1>1, BytesOf
  <1>5. \A x \in Bytes(s \o r) : x \in Bytes(s) \cup Bytes(r)
    <2> SUFFICES ASSUME NEW i \in 1 .. Len(s) + Len(r)
                 PROVE  (s \o r)[i] \in Bytes(s) \cup Bytes(r)
      BY <1>4
    <2>1. CASE i <= Len(s)
      BY <1>1, <1>2, <1>4, <2>1
    <2>2. CASE ~(i <= Len(s))
      <3>1. i - Len(s) \in 1 .. Len(r) /\ (s \o r)[i] = r[i - Len(s)]
        BY <1>1, <2>2
      <3> QED BY <1>4, <3>1
    <2> QED BY <2>1, <2>2
  <1>6. Bytes(s) \cup Bytes(r) \subseteq Bytes(s \o r)
    BY <1>2, <1>3, <1>4
  <1> QED BY <1>1, <1>2, <1>3, <1>5, <1>6

\* A stretch of a sequence.
LEMMA StretchSeq ==
  ASSUME NEW s \in Seq(Int), NEW r \in Nat, NEW n \in Nat, r + n <= Len(s)
  PROVE  /\ SubSeq(s, r + 1, r + n) \in Seq(Int) /\ Len(SubSeq(s, r + 1, r + n)) = n
         /\ \A i \in 1 .. n : SubSeq(s, r + 1, r + n)[i] = s[r + i]
  <1>1. Len(s) \in Nat /\ \A i \in 1 .. Len(s) : s[i] \in Int
    BY LenProperties, ElementOfSeq
  <1>2. \A i \in r + 1 .. r + n : s[i] \in Int
    BY <1>1
  <1>3. r + 1 \in Int /\ r + n \in Int
    OBVIOUS
  <1>4. /\ SubSeq(s, r + 1, r + n) \in Seq(Int)
        /\ Len(SubSeq(s, r + 1, r + n)) = IF r + 1 <= r + n THEN r + n - (r + 1) + 1 ELSE 0
        /\ \A i \in 1 .. r + n - (r + 1) + 1 : SubSeq(s, r + 1, r + n)[i] = s[r + 1 + i - 1]
    BY <1>2, <1>3, SubSeqProperties
  <1>5. r + n - (r + 1) + 1 = n /\ \A i \in 1 .. n : r + 1 + i - 1 = r + i
    OBVIOUS
  <1>6. \A i \in 1 .. n : SubSeq(s, r + 1, r + n)[i] = s[r + i]
    BY <1>4, <1>5
  <1>7. Len(SubSeq(s, r + 1, r + n)) = n
    BY <1>4, <1>5
  <1> QED BY <1>4, <1>6, <1>7

\* The first n of a sequence, and what follows them.
LEMMA SplitSeq ==
  ASSUME NEW s \in Seq(Int), NEW n \in 0 .. Len(s)
  PROVE  /\ SubSeq(s, 1, n) \in Seq(Int) /\ Len(SubSeq(s, 1, n)) = n
         /\ \A i \in 1 .. n : SubSeq(s, 1, n)[i] = s[i]
         /\ SubSeq(s, n + 1, Len(s)) \in Seq(Int)
         /\ Len(SubSeq(s, n + 1, Len(s))) = Len(s) - n
         /\ \A i \in 1 .. Len(s) - n : SubSeq(s, n + 1, Len(s))[i] = s[n + i]
  <1> DEFINE k == Len(s) - n
  <1>1. Len(s) \in Nat /\ n \in Nat /\ n <= Len(s) /\ k \in Nat /\ n + k = Len(s)
        /\ n + k <= Len(s)
    BY LenProperties
  <1>2. 0 + 1 = 1 /\ 0 + n = n /\ \A i \in 1 .. n : 0 + i = i
    BY <1>1
  <1> HIDE DEF k
  <1>3. /\ SubSeq(s, 0 + 1, 0 + n) \in Seq(Int) /\ Len(SubSeq(s, 0 + 1, 0 + n)) = n
        /\ \A i \in 1 .. n : SubSeq(s, 0 + 1, 0 + n)[i] = s[0 + i]
    BY <1>1, <1>2, StretchSeq
  <1>4. /\ SubSeq(s, n + 1, n + k) \in Seq(Int) /\ Len(SubSeq(s, n + 1, n + k)) = k
        /\ \A i \in 1 .. k : SubSeq(s, n + 1, n + k)[i] = s[n + i]
    BY <1>1, StretchSeq
  <1>5. /\ SubSeq(s, 1, n) \in Seq(Int) /\ Len(SubSeq(s, 1, n)) = n
        /\ \A i \in 1 .. n : SubSeq(s, 1, n)[i] = s[i]
    BY <1>2, <1>3
  <1>6. /\ SubSeq(s, n + 1, Len(s)) \in Seq(Int) /\ Len(SubSeq(s, n + 1, Len(s))) = k
        /\ \A i \in 1 .. k : SubSeq(s, n + 1, Len(s))[i] = s[n + i]
    BY <1>1, <1>4
  <1> QED BY <1>5, <1>6 DEF k

LEMMA BufContent ==
  ASSUME NEW b, WellFormed(b)
  PROVE  /\ b.bytes \in Seq(Int) /\ b.r \in 0 .. Len(b.bytes) /\ b.cap = Capacity
         /\ Len(b.bytes) \in Nat /\ Capacity \in Nat
         /\ Readable(b) \in Nat /\ Writeable(b) \in Nat
         /\ Content(b) \in Seq(Int) /\ Len(Content(b)) = Readable(b)
         /\ \A i \in 1 .. Readable(b) : Content(b)[i] = b.bytes[b.r + i]
  <1>1. /\ b.bytes \in Seq(Int) /\ b.r \in 0 .. Len(b.bytes) /\ b.cap = Capacity
        /\ Len(b.bytes) \in Nat /\ Capacity \in Nat
        /\ Readable(b) \in Nat /\ Writeable(b) \in Nat
    BY CapacityAssumption, LenProperties DEF WellFormed, Readable, Writeable
  <1> QED BY <1>1, SplitSeq DEF Content, Readable

\* After n bytes have been read.
LEMMA AfterReadProps ==
  ASSUME NEW b, WellFormed(b), NEW n \in 0 .. Readable(b)
  PROVE  /\ WellFormed(AfterRead(b, n)) /\ Readable(AfterRead(b, n)) = Readable(b) - n
         /\ Writeable(AfterRead(b, n)) = Writeable(b)
  <1>1. b.r \in Nat /\ Len(b.bytes) \in Nat /\ Readable(b) \in Nat
    BY BufContent
  <1>2. /\ AfterRead(b, n).bytes = b.bytes /\ AfterRead(b, n).cap = b.cap
        /\ AfterRead(b, n).r = b.r + n
    BY DEF AfterRead, WellFormed
  <1>3. AfterRead(b, n) \in [cap : {Capacity}, r : Nat, bytes : Seq(Int)]
    BY <1>1 DEF AfterRead, WellFormed
  <1> QED BY <1>1, <1>2, <1>3 DEF WellFormed, Readable, Writeable

\* After as much of s as there is room for has been written.
LEMMA AfterWriteProps ==
  ASSUME NEW b, WellFormed(b), NEW s \in Seq(Int)
  PROVE  /\ WrittenBytes(b, s) \in Seq(Int)
         /\ Len(WrittenBytes(b, s)) = Lesser(Len(s), Writeable(b))
         /\ \A i \in 1 .. Lesser(Len(s), Writeable(b)) : WrittenBytes(b, s)[i] = s[i]
         /\ WellFormed(AfterWrite(b, s))
         /\ Readable(AfterWrite(b, s)) = Readable(b) + Lesser(Len(s), Writeable(b))
         /\ Content(AfterWrite(b, s)) = Content(b) \o WrittenBytes(b, s)
  <1> DEFINE n == Lesser(Len(s), Writeable(b))
             w == WrittenBytes(b, s)
             a == AfterWrite(b, s)
  <1>1. /\ b.bytes \in Seq(Int) /\ b.r \in Nat /\ Len(b.bytes) \in Nat
        /\ Writeable(b) \in Nat /\ Readable(b) \in Nat /\ Len(s) \in Nat
        /\ b.r <= Len(b.bytes)
        /\ Content(b) \in Seq(Int) /\ Len(Content(b)) = Readable(b)
        /\ \A i \in 1 .. Readable(b) : Content(b)[i] = b.bytes[b.r + i]
    BY BufContent, LenProperties
  <1>2. n \in 0 .. Len(s) /\ n <= Writeable(b) /\ n \in Nat
    BY <1>1 DEF Lesser
  <1>3. w \in Seq(Int) /\ Len(w) = n /\ \A i \in 1 .. n : w[i] = s[i]
    <2>1. w = SubSeq(s, 1, n)
      BY DEF WrittenBytes
    <2> HIDE DEF n
    <2> QED BY <1>2, <2>1, SplitSeq
  <1> HIDE DEF n, w
  <1>4. /\ b.bytes \o w \in Seq(Int) /\ Len(b.bytes \o w) = Len(b.bytes) + n
        /\ \A i \in 1 .. Len(b.bytes) : (b.bytes \o w)[i] = b.bytes[i]
        /\ \A i \in 1 .. n : (b.bytes \o w)[Len(b.bytes) + i] = w[i]
    BY <1>1, <1>3, ConcatBytes
  <1>5. a.bytes = b.bytes \o w /\ a.cap = b.cap /\ a.r = b.r
    BY DEF AfterWrite, WellFormed, w
  <1>6. a \in [cap : {Capacity}, r : Nat, bytes : Seq(Int)]
    BY <1>4 DEF AfterWrite, WellFormed, w
  <1> HIDE DEF a
  <1>7. WellFormed(a) /\ Readable(a) = Readable(b) + n
    <2>1. Len(a.bytes) = Len(b.bytes) + n /\ Writeable(b) = Capacity - Len(b.bytes)
      BY <1>4, <1>5, BufContent DEF Writeable
    <2>2. Len(a.bytes) <= Capacity /\ a.r <= Len(a.bytes)
      BY <1>1, <1>2, <1>5, <2>1, CapacityAssumption
    <2>3. Readable(a) = Readable(b) + n
      BY <1>1, <1>2, <1>5, <2>1 DEF Readable
    <2> QED BY <1>6, <2>2, <2>3 DEF WellFormed
  <1>8. /\ Content(a) \in Seq(Int) /\ Len(Content(a)) = Readable(b) + n
        /\ \A i \in 1 .. Readable(b) + n : Content(a)[i] = (b.bytes \o w)[b.r + i]
    BY <1>5, <1>7, BufContent
  <1>9. Len(b.bytes) = b.r + Readable(b)
    BY <1>1 DEF Readable
  <1> DEFINE c == Content(b)
             d == Content(a)
             R == Readable(b)
             r == b.r
             p == b.bytes
  <1>10. /\ c \in Seq(Int) /\ Len(c) = R /\ R \in Nat /\ r \in Nat /\ Len(p) = r + R
         /\ d \in Seq(Int) /\ Len(d) = R + n
         /\ \A i \in 1 .. R + n : d[i] = (p \o w)[r + i]
         /\ \A i \in 1 .. R : c[i] = p[r + i]
         /\ \A i \in 1 .. Len(p) : (p \o w)[i] = p[i]
         /\ \A i \in 1 .. n : (p \o w)[Len(p) + i] = w[i]
    BY <1>1, <1>4, <1>8, <1>9
  <1> HIDE DEF c, d, R, r, p
  <1>11. /\ c \o w \in Seq(Int) /\ Len(c \o w) = R + n
         /\ \A i \in 1 .. R : (c \o w)[i] = c[i]
         /\ \A i \in 1 .. n : (c \o w)[R + i] = w[i]
    BY <1>3, <1>10, ConcatBytes
  <1>12. ASSUME NEW i \in 1 .. R + n PROVE d[i] = (c \o w)[i]
    <2>1. CASE i <= R
      <3>1. r + i \in 1 .. Len(p) /\ i \in 1 .. R
        BY <1>10, <2>1
      <3> QED BY <1>10, <1>11, <3>1
    <2>2. CASE ~(i <= R)
      <3> DEFINE m == i - R
      <3>1. m \in 1 .. n /\ R + m = i /\ r + i = Len(p) + m
        BY <1>2, <1>10, <2>2
      <3>2. (p \o w)[r + i] = w[m]
        BY <1>10, <3>1
      <3>3. (c \o w)[i] = w[m]
        BY <1>11, <3>1
      <3> QED BY <1>10, <3>2, <3>3
    <2> QED BY <2>1, <2>2
  <1>13. d = c \o w
    BY <1>10, <1>11, <1>12, SeqEqual
  <1> QED BY <1>3, <1>7, <1>13 DEF n, w, a, c, d

LEMMA ClearProps ==
  ASSUME NEW b, WellFormed(b)
  PROVE  WellFormed(Clear(b)) /\ Readable(Clear(b)) = 0
  <1>1. Clear(b).r = 0 /\ Clear(b).bytes = <<>> /\ Clear(b).cap = b.cap
    BY DEF Clear, WellFormed
  <1>2. <<>> \in Seq(Int) /\ Len(<<>>) = 0
    BY EmptySeq
  <1>3. Clear(b) \in [cap : {Capacity}, r : Nat, bytes : Seq(Int)]
    BY <1>2 DEF Clear, WellFormed
  <1> QED BY <1>1, <1>2, <1>3, CapacityAssumption DEF WellFormed, Readable

--------------------------------------------------------------------------------
\* The bytes that the elements of a sequence are or are in place of

LEMMA DueFacts ==
  ASSUME NEW x \in Int
  PROVE  Due(x) \in Nat /\ Due(-x) = Due(x) /\ (x >= 0 => Due(x) = x)
  BY DEF Due

LEMMA DuesOf ==
  ASSUME NEW s \in Seq(Int)
  PROVE  /\ Dues(s) = {Due(s[i]) : i \in 1 .. Len(s)} /\ Dues(s) \subseteq Nat
         /\ Dues(s) = {Due(x) : x \in Bytes(s)}
         /\ Len(s) = 0 => Dues(s) = {}
         /\ Len(s) = 1 => Dues(s) = {Due(s[1])}
         /\ \A i \in 1 .. Len(s) : s[i] \in Int /\ Due(s[i]) \in Nat
  <1>1. DOMAIN s = 1 .. Len(s) /\ Bytes(s) = {s[i] : i \in 1 .. Len(s)}
        /\ Bytes(s) \subseteq Int
        /\ (Len(s) = 0 => Bytes(s) = {}) /\ (Len(s) = 1 => Bytes(s) = {s[1]})
    BY LenProperties, BytesOf
  <1>2. Dues(s) = {Due(s[i]) : i \in 1 .. Len(s)}
    BY <1>1 DEF Dues
  <1>3. Dues(s) = {Due(x) : x \in Bytes(s)}
    BY <1>1, <1>2
  <1>4. \A i \in 1 .. Len(s) : s[i] \in Int /\ Due(s[i]) \in Nat
    BY <1>1, DueFacts
  <1> QED BY <1>1, <1>2, <1>3, <1>4

LEMMA NoBytes == <<>> \in Seq(Int) /\ Len(<<>>) = 0 /\ Dues(<<>>) = {} /\ Bytes(<<>>) = {}
  <1> DEFINE e == <<>>
  <1>1. e \in Seq(Int) /\ Len(e) = 0
    BY EmptySeq
  <1> HIDE DEF e
  <1>2. Dues(e) = {} /\ Bytes(e) = {}
    BY <1>1, DuesOf, BytesOf
  <1> QED BY <1>1, <1>2 DEF e

LEMMA ConcatDues ==
  ASSUME NEW s \in Seq(Int), NEW r \in Seq(Int)
  PROVE  Dues(s \o r) = Dues(s) \cup Dues(r)
  <1> DEFINE c == s \o r
  <1>1. c \in Seq(Int) /\ Bytes(c) = Bytes(s) \cup Bytes(r)
    BY ConcatBytes
  <1> HIDE DEF c
  <1>2. Dues(c) = {Due(x) : x \in Bytes(c)} /\ Dues(s) = {Due(x) : x \in Bytes(s)}
        /\ Dues(r) = {Due(x) : x \in Bytes(r)}
    BY <1>1, DuesOf
  <1> QED BY <1>1, <1>2 DEF c

LEMMA AscendingSeq ==
  ASSUME NEW s \in Seq(Int)
  PROVE  /\ Ascending(s) <=> \A j, k \in 1 .. Len(s) : j < k => Due(s[j]) < Due(s[k])
         /\ Len(s) <= 1 => Ascending(s)
  <1>1. DOMAIN s = 1 .. Len(s) /\ Len(s) \in Nat
    BY LenProperties
  <1> QED BY <1>1 DEF Ascending

LEMMA JoinAscending ==
  ASSUME NEW s \in Seq(Int), NEW r \in Seq(Int), Ascending(s), Ascending(r),
         Older(Dues(s), Dues(r))
  PROVE  Ascending(s \o r)
  <1>1. /\ s \o r \in Seq(Int) /\ Len(s \o r) = Len(s) + Len(r)
        /\ Len(s) \in Nat /\ Len(r) \in Nat
        /\ \A i \in 1 .. Len(s) : (s \o r)[i] = s[i]
        /\ \A i \in 1 .. Len(r) : (s \o r)[Len(s) + i] = r[i]
    BY ConcatBytes
  <1>2. /\ \A i \in 1 .. Len(s) : Due(s[i]) \in Dues(s)
        /\ \A i \in 1 .. Len(r) : Due(r[i]) \in Dues(r)
    BY DuesOf
  <1> SUFFICES ASSUME NEW j \in 1 .. Len(s) + Len(r), NEW k \in 1 .. Len(s) + Len(r), j < k
               PROVE  Due((s \o r)[j]) < Due((s \o r)[k])
    BY <1>1, AscendingSeq
  <1>3. CASE k \in 1 .. Len(s)
    <2>1. j \in 1 .. Len(s)
      BY <1>1, <1>3
    <2>2. Due(s[j]) < Due(s[k])
      BY <1>3, <2>1, AscendingSeq
    <2> QED BY <1>1, <1>3, <2>1, <2>2
  <1>4. CASE k \notin 1 .. Len(s)
    <2> DEFINE m == k - Len(s)
    <2>1. m \in 1 .. Len(r) /\ k = Len(s) + m
      BY <1>1, <1>4
    <2>2. (s \o r)[k] = r[m]
      BY <1>1, <2>1
    <2>3. CASE j \in 1 .. Len(s)
      BY <1>1, <1>2, <2>1, <2>2, <2>3 DEF Older
    <2>4. CASE j \notin 1 .. Len(s)
      <3> DEFINE i == j - Len(s)
      <3>1. i \in 1 .. Len(r) /\ j = Len(s) + i /\ i < m
        BY <1>1, <2>1, <2>4
      <3>2. (s \o r)[j] = r[i]
        BY <1>1, <3>1
      <3>3. Due(r[i]) < Due(r[m])
        BY <2>1, <3>1, AscendingSeq
      <3> QED BY <2>2, <3>2, <3>3
    <2> QED BY <2>3, <2>4
  <1> QED BY <1>3, <1>4

LEMMA AscendingIsDistinct ==
  ASSUME NEW s \in Seq(Int), Ascending(s)
  PROVE  Distinct(s)
  <1>1. Len(s) \in Nat /\ \A i \in 1 .. Len(s) : Due(s[i]) \in Nat
    BY LenProperties, DuesOf
  <1>2. \A j, k \in 1 .. Len(s) : j < k => Due(s[j]) < Due(s[k])
    BY AscendingSeq
  <1> SUFFICES ASSUME NEW j \in 1 .. Len(s), NEW k \in 1 .. Len(s), Due(s[j]) = Due(s[k])
               PROVE  j = k
    BY DEF Distinct
  <1>3. ~(j < k) /\ ~(k < j)
    BY <1>1, <1>2
  <1> QED BY <1>1, <1>3

LEMMA JoinDistinct ==
  ASSUME NEW s \in Seq(Int), NEW r \in Seq(Int), Distinct(s), Distinct(r),
         Dues(s) \cap Dues(r) = {}
  PROVE  Distinct(s \o r)
  <1>1. /\ Len(s \o r) = Len(s) + Len(r) /\ Len(s) \in Nat /\ Len(r) \in Nat
        /\ \A i \in 1 .. Len(s) : (s \o r)[i] = s[i]
        /\ \A i \in 1 .. Len(r) : (s \o r)[Len(s) + i] = r[i]
    BY ConcatBytes
  <1>2. /\ \A i \in 1 .. Len(s) : Due(s[i]) \in Dues(s)
        /\ \A i \in 1 .. Len(r) : Due(r[i]) \in Dues(r)
    BY DuesOf
  <1> SUFFICES ASSUME NEW j \in 1 .. Len(s) + Len(r), NEW k \in 1 .. Len(s) + Len(r),
                      Due((s \o r)[j]) = Due((s \o r)[k])
               PROVE  j = k
    BY <1>1 DEF Distinct
  <1>3. \A i \in 1 .. Len(s) + Len(r) : i \in 1 .. Len(s) \/ \E m \in 1 .. Len(r) : i = Len(s) + m
    <2> SUFFICES ASSUME NEW i \in 1 .. Len(s) + Len(r), i \notin 1 .. Len(s)
                 PROVE  \E m \in 1 .. Len(r) : i = Len(s) + m
      OBVIOUS
    <2>1. i - Len(s) \in 1 .. Len(r) /\ i = Len(s) + (i - Len(s))
      BY <1>1
    <2> QED BY <2>1
  <1>4. CASE j \in 1 .. Len(s) /\ k \in 1 .. Len(s)
    BY <1>1, <1>4 DEF Distinct
  <1>5. CASE j \in 1 .. Len(s) /\ k \notin 1 .. Len(s)
    <2>1. PICK m \in 1 .. Len(r) : k = Len(s) + m
      BY <1>3, <1>5
    <2> QED BY <1>1, <1>2, <1>5, <2>1
  <1>6. CASE j \notin 1 .. Len(s) /\ k \in 1 .. Len(s)
    <2>1. PICK m \in 1 .. Len(r) : j = Len(s) + m
      BY <1>3, <1>6
    <2> QED BY <1>1, <1>2, <1>6, <2>1
  <1>7. CASE j \notin 1 .. Len(s) /\ k \notin 1 .. Len(s)
    <2>1. PICK m \in 1 .. Len(r) : j = Len(s) + m
      BY <1>3, <1>7
    <2>2. PICK i \in 1 .. Len(r) : k = Len(s) + i
      BY <1>3, <1>7
    <2>3. Due(r[m]) = Due(r[i])
      BY <1>1, <2>1, <2>2
    <2> QED BY <2>1, <2>2, <2>3 DEF Distinct
  <1> QED BY <1>4, <1>5, <1>6, <1>7

\* A thread moves bytes between the socket, the buffer, its hand, the pipeline and the bin.
LEMMA MoveBytes ==
  ASSUME NEW n \in Nat, NEW m \in Nat, n <= m, NEW t \in Threads,
         NEW B, NEW H, NEW D, NEW X, NEW B2, NEW H2, NEW D2, NEW X2,
         Divided(n, B, H, D, X),
         \A u \in Threads : u # t => H2[u] = H[u],
         B2 \cup H2[t] \cup D2 \cup X2 = B \cup H[t] \cup D \cup X \cup (n + 1 .. m),
         B2 \cap H2[t] = {}, B2 \cap D2 = {}, B2 \cap X2 = {},
         H2[t] \cap D2 = {}, H2[t] \cap X2 = {}, D2 \cap X2 = {}
  PROVE  Divided(m, B2, H2, D2, X2)
  <1> DEFINE old == B \cup H[t] \cup D \cup X
             new == B2 \cup H2[t] \cup D2 \cup X2
  <1>1. (1 .. n) \cup (n + 1 .. m) = 1 .. m /\ (1 .. n) \cap (n + 1 .. m) = {}
    OBVIOUS
  <1>2. new = old \cup (n + 1 .. m)
    OBVIOUS
  <1>3. \A u \in Threads : u # t => H[u] \cap old = {}
    BY DEF Divided
  <1>4. \A u \in Threads : H[u] \subseteq 1 .. n
    BY DEF Divided
  <1>5. \A u \in Threads : u # t => H2[u] \cap new = {}
    BY <1>1, <1>2, <1>3, <1>4
  <1> DEFINE all2 == UNION {H2[u] : u \in Threads}
             all == UNION {H[u] : u \in Threads}
             others == UNION {H[u] : u \in Threads \ {t}}
  <1>6. all = H[t] \cup others
    OBVIOUS
  <1>7. UNION {H2[u] : u \in Threads \ {t}} = others
    OBVIOUS
  <1>8. all2 = H2[t] \cup others
    <2>1. all2 = H2[t] \cup UNION {H2[u] : u \in Threads \ {t}}
      OBVIOUS
    <2> QED BY <1>7, <2>1
  <1>9. B2 \cup all2 \cup D2 \cup X2 = 1 .. m
    <2>1. B \cup all \cup D \cup X = 1 .. n
      BY DEF Divided
    <2> HIDE DEF all, all2, others
    <2>2. B2 \cup all2 \cup D2 \cup X2 = new \cup others
      BY <1>8
    <2>3. B \cup all \cup D \cup X = old \cup others
      BY <1>6
    <2> HIDE DEF old, new
    <2> QED BY <1>1, <1>2, <2>1, <2>2, <2>3
  <1>10. \A u \in Threads : H2[u] \cap (B2 \cup D2 \cup X2) = {}
    BY <1>5
  <1>11. \A u, v \in Threads : u # v => H2[u] \cap H2[v] = {}
    <2> SUFFICES ASSUME NEW u \in Threads, NEW v \in Threads, u # v
                 PROVE  H2[u] \cap H2[v] = {}
      OBVIOUS
    <2>1. CASE u = t
      BY <1>5, <2>1
    <2>2. CASE v = t
      BY <1>5, <2>2
    <2>3. CASE u # t /\ v # t
      BY <2>3 DEF Divided
    <2> QED BY <2>1, <2>2, <2>3
  <1>12. B2 \cap D2 = {} /\ B2 \cap X2 = {} /\ D2 \cap X2 = {}
    OBVIOUS
  <1> QED BY <1>9, <1>10, <1>11, <1>12 DEF Divided

--------------------------------------------------------------------------------
\* What a step leaves as it is

\* Thread t moves and no other.
LEMMA GoesFacts ==
  ASSUME ThreadTypes, NEW t \in Threads, NEW from, NEW to, Goes(t, from, to)
  PROVE  pc[t] = from /\ pc'[t] = to /\ \A u \in Threads : u # t => pc'[u] = pc[u]
  BY DEF ThreadTypes, Goes

\* It alone has something else in hand.
LEMMA HandFacts ==
  ASSUME ThreadTypes, NEW t \in Threads, NEW s, hand' = [hand EXCEPT ![t] = s]
  PROVE  hand'[t] = s /\ \A u \in Threads : u # t => hand'[u] = hand[u]
  BY DEF ThreadTypes

LEMMA ThreadsFacts ==
  /\ Selector \in Threads /\ Selector \notin Workers
  /\ \A t \in Workers : t \in Threads /\ t # Selector
  /\ \A t \in Threads : t \in Workers \/ t = Selector
  BY ThreadsAssumption DEF Threads

LEMMA InsideFacts ==
  ASSUME ThreadTypes
  PROVE  /\ \A t \in Workers : InsideRead(t) <=> pc[t] \in Inside
         /\ InsideRead(Selector) <=> pc[Selector] \in {"received", "storing"}
         /\ ~Reads(Selector) /\ pc[Selector] \notin Inside
         /\ \A t \in Workers : pc[t] \notin {"received", "storing"}
         /\ \A t \in Threads : Reads(t) => InsideRead(t) /\ t \in Workers
  BY ThreadsFacts DEF ThreadTypes, InsideRead, Inside, Outside, SelectorPlaces, Reads

LEMMA WorkerTypes ==
  ASSUME ThreadTypes, NEW t \in Workers, NEW from, NEW to \in Outside \cup Inside,
         Goes(t, from, to), hand' \in [Threads -> Seq(Int)]
  PROVE  ThreadTypes'
  <1>1. t \in Threads /\ t # Selector /\ Selector \in Threads
    BY ThreadsFacts
  <1>2. pc' \in [Threads -> Outside \cup Inside \cup SelectorPlaces]
    BY <1>1 DEF ThreadTypes, Goes
  <1>3. pc'[Selector] = pc[Selector]
    BY <1>1, GoesFacts
  <1>4. ASSUME NEW u \in Workers PROVE pc'[u] \in Outside \cup Inside
    BY <1>1, GoesFacts, ThreadsFacts DEF ThreadTypes
  <1> QED BY <1>2, <1>3, <1>4 DEF ThreadTypes

LEMMA SelectorTypes ==
  ASSUME ThreadTypes, NEW from, NEW to \in SelectorPlaces, Goes(Selector, from, to),
         hand' \in [Threads -> Seq(Int)]
  PROVE  ThreadTypes'
  <1>1. pc' \in [Threads -> Outside \cup Inside \cup SelectorPlaces]
    BY ThreadsFacts DEF ThreadTypes, Goes
  <1>2. pc'[Selector] = to
    BY GoesFacts, ThreadsFacts
  <1>3. ASSUME NEW u \in Workers PROVE pc'[u] \in Outside \cup Inside
    BY GoesFacts, ThreadsFacts DEF ThreadTypes
  <1> QED BY <1>1, <1>2, <1>3 DEF ThreadTypes

\* What the threads hold.
LEMMA HeldFacts ==
  ASSUME ThreadTypes
  PROVE  /\ \A t \in Threads : Held[t] \in Seq(Int) /\ hand[t] \in Seq(Int)
         /\ \A t \in Workers : Held[t] = IF InsideRead(t) THEN hand[t] ELSE <<>>
         /\ Held[Selector] = IF pc[Selector] = "received" THEN hand[Selector] ELSE <<>>
         /\ \A t \in Threads : HandDues(Held)[t] = Dues(Held[t])
  <1>1. \A t \in Threads : hand[t] \in Seq(Int)
    BY DEF ThreadTypes
  <1>2. \A t \in Threads : Held[t] = IF InsideRead(t) /\ pc[t] # "storing" THEN hand[t] ELSE <<>>
    BY DEF Held
  <1>3. \A t \in Threads : HandDues(Held)[t] = Dues(Held[t])
    BY DEF HandDues
  <1>4. \A t \in Threads : Held[t] \in Seq(Int)
    BY <1>1, <1>2, NoBytes
  <1>5. \A t \in Workers : Held[t] = IF InsideRead(t) THEN hand[t] ELSE <<>>
    BY <1>2, ThreadsFacts, InsideFacts
  <1>6. Held[Selector] = IF pc[Selector] = "received" THEN hand[Selector] ELSE <<>>
    BY <1>2, ThreadsFacts, InsideFacts
  <1> QED BY <1>1, <1>3, <1>4, <1>5, <1>6

\* Other threads than t are where they were.
Others(t) == \A u \in Threads : u # t => pc'[u] = pc[u] /\ hand'[u] = hand[u]

LEMMA OthersKept ==
  ASSUME NEW t \in Threads, Others(t)
  PROVE  \A u \in Threads : u # t => /\ Held'[u] = Held[u]
                                     /\ HandDues(Held')[u] = HandDues(Held)[u]
                                     /\ InsideRead(u)' <=> InsideRead(u)
                                     /\ Reads(u)' <=> Reads(u)
  <1>1. \A u \in Threads : u # t => pc'[u] = pc[u] /\ hand'[u] = hand[u]
    BY DEF Others
  <1>2. \A u \in Threads : u # t => Held'[u] = Held[u]
    BY <1>1 DEF Held, InsideRead
  <1>3. \A u \in Threads : u # t => HandDues(Held')[u] = HandDues(Held)[u]
    BY <1>2 DEF HandDues
  <1> QED BY <1>1, <1>2, <1>3 DEF InsideRead, Reads

\* The slots that are still to be read.
LEMMA UnreadFacts ==
  ASSUME WellFormed(m_read_buffer)
  PROVE  /\ Slot \in Nat /\ m_read_buffer.r \in 0 .. Slot /\ m_read_buffer.bytes \in Seq(Int)
         /\ Readable(m_read_buffer) = Slot - m_read_buffer.r /\ Readable(m_read_buffer) \in Nat
         /\ Writeable(m_read_buffer) \in Nat
         /\ Unread = {i \in 1 .. Slot : \/ i > m_read_buffer.r
                                        \/ i = m_read_buffer.r /\ \E t \in Threads : pc[t] = "load"}
         /\ Unread \subseteq 1 .. Slot
         /\ DOMAIN Slots = Unread
         /\ \A i \in Unread : Slots[i] = m_read_buffer.bytes[i] /\ Slots[i] \in Int
         /\ SlotDues(Slots) = {Due(m_read_buffer.bytes[i]) : i \in Unread}
         /\ SlotDues(Slots) = {Due(Slots[i]) : i \in Unread}
  <1>1. /\ m_read_buffer.bytes \in Seq(Int) /\ Slot \in Nat /\ m_read_buffer.r \in 0 .. Slot
        /\ DOMAIN m_read_buffer.bytes = 1 .. Slot
        /\ Readable(m_read_buffer) \in Nat /\ Writeable(m_read_buffer) \in Nat
    BY BufContent, LenProperties DEF Slot
  <1>2. Unread = {i \in 1 .. Slot : \/ i > m_read_buffer.r
                                    \/ i = m_read_buffer.r /\ \E t \in Threads : pc[t] = "load"}
    BY <1>1 DEF Unread
  <1>3. Unread \subseteq 1 .. Slot
    BY <1>2
  <1>4. DOMAIN Slots = Unread /\ \A i \in Unread : Slots[i] = m_read_buffer.bytes[i]
    BY DEF Slots
  <1>5. \A i \in Unread : Slots[i] \in Int
    BY <1>1, <1>3, <1>4, ElementOfSeq DEF Slot
  <1>6. SlotDues(Slots) = {Due(m_read_buffer.bytes[i]) : i \in Unread}
    BY <1>4 DEF SlotDues
  <1>7. SlotDues(Slots) = {Due(Slots[i]) : i \in Unread}
    BY <1>4 DEF SlotDues
  <1> QED BY <1>1, <1>2, <1>3, <1>4, <1>5, <1>6, <1>7 DEF Readable, Slot

LEMMA FreshNat ==
  ASSUME Types, ReceivedRuns
  PROVE  /\ Fresh \in Nat /\ sent \in Nat /\ Len(received) \in Nat
         /\ sent = Fresh + Len(received)
  BY BoundsAssumption, LenProperties DEF Types, ReceivedRuns, Fresh

\* The division, in the form MoveBytes takes it.
LEMMA InputFacts ==
  ASSUME ChannelInv
  PROVE  /\ Fresh \in Nat /\ Len(received) \in Nat /\ sent = Fresh + Len(received)
         /\ Divided(Fresh, SlotDues(Slots), HandDues(Held), Dues(delivered), dropped)
         /\ SlotDues(Slots) \subseteq 1 .. Fresh /\ Dues(delivered) \subseteq 1 .. Fresh
         /\ dropped \subseteq 1 .. Fresh
         /\ SlotDues(Slots) \cap Dues(delivered) = {} /\ SlotDues(Slots) \cap dropped = {}
         /\ Dues(delivered) \cap dropped = {}
         /\ \A t \in Threads :
               /\ Dues(Held[t]) \subseteq 1 .. Fresh
               /\ Dues(Held[t]) \cap SlotDues(Slots) = {}
               /\ Dues(Held[t]) \cap Dues(delivered) = {}
               /\ Dues(Held[t]) \cap dropped = {}
         /\ \A t, u \in Threads : t # u => Dues(Held[t]) \cap Dues(Held[u]) = {}
         /\ Fresh + 1 .. Fresh = {}
  <1>1. Types /\ ReceivedRuns /\ ThreadTypes
    BY DEF ChannelInv, BaseInv, ReadInv, InputInv
  <1>2. Fresh \in Nat /\ Len(received) \in Nat /\ sent = Fresh + Len(received)
    BY <1>1, FreshNat
  <1>3. Divided(Fresh, SlotDues(Slots), HandDues(Held), Dues(delivered), dropped)
    BY DEF ChannelInv, ReadInv, InputInv
  <1>4. \A t \in Threads : HandDues(Held)[t] = Dues(Held[t])
    BY <1>1, HeldFacts
  <1>5. /\ SlotDues(Slots) \subseteq 1 .. Fresh /\ Dues(delivered) \subseteq 1 .. Fresh
        /\ dropped \subseteq 1 .. Fresh
        /\ SlotDues(Slots) \cap Dues(delivered) = {} /\ SlotDues(Slots) \cap dropped = {}
        /\ Dues(delivered) \cap dropped = {}
    BY <1>3 DEF Divided
  <1>6. ASSUME NEW t \in Threads
        PROVE  /\ Dues(Held[t]) \subseteq 1 .. Fresh
               /\ Dues(Held[t]) \cap SlotDues(Slots) = {}
               /\ Dues(Held[t]) \cap Dues(delivered) = {}
               /\ Dues(Held[t]) \cap dropped = {}
    BY <1>3, <1>4 DEF Divided
  <1>7. ASSUME NEW t \in Threads, NEW u \in Threads, t # u
        PROVE  Dues(Held[t]) \cap Dues(Held[u]) = {}
    BY <1>3, <1>4, <1>7 DEF Divided
  <1>8. Fresh + 1 .. Fresh = {}
    BY <1>2
  <1> QED BY <1>2, <1>3, <1>5, <1>6, <1>7, <1>8

LEMMA OutputKept ==
  ASSUME UNCHANGED <<wire, m_buffer, accepted, short>>
  PROVE  OutputInv => OutputInv'
  <1>1. Content(m_buffer)' = Content(m_buffer)
    OBVIOUS
  <1> QED BY <1>1 DEF OutputInv, Written

LEMMA AskedKept ==
  ASSUME UNCHANGED <<accepted, asked>>,
         \A u \in Threads : pc'[u] \in {"flushFirst", "write"} =>
                                pc[u] \in {"flushFirst", "write"} /\ hand'[u] = hand[u]
  PROVE  AskedInv => AskedInv'
  BY DEF AskedInv

--------------------------------------------------------------------------------
\* Steps that leave the division as it is

\* Nothing is taken, stored, delivered or thrown away.
LEMMA ViewKept ==
  ASSUME ChannelInv,
         UNCHANGED <<received, sent, delivered, dropped, overtaken>>,
         Slots' = Slots, Unread' = Unread, Held' = Held, Storing' = Storing
  PROVE  /\ InputInv' /\ SignInv'
         /\ Ascending(Slots') /\ \A t \in Threads : Ascending(Held'[t])
         /\ SlotDues(Slots)' = SlotDues(Slots) /\ Dues(delivered)' = Dues(delivered)
         /\ Fresh' = Fresh
  <1>1. InputInv /\ SignInv /\ OrderInv
    BY DEF ChannelInv, ReadInv
  <1>2. Fresh' = Fresh
    BY DEF Fresh
  <1>3. SlotDues(Slots)' = SlotDues(Slots) /\ Dues(delivered)' = Dues(delivered)
    OBVIOUS
  <1>4. Divided(Fresh, SlotDues(Slots), HandDues(Held), Dues(delivered), dropped)'
    BY <1>1, <1>2, <1>3 DEF InputInv, Divided
  <1>5. InputInv'
    BY <1>1, <1>2, <1>4 DEF InputInv, ReceivedRuns, Distinct
  <1>6. SignInv'
    BY <1>1, <1>2 DEF SignInv, Faithful
  <1> QED BY <1>1, <1>2, <1>3, <1>5, <1>6 DEF OrderInv

\* The slots are the same when the write index is, and when a read index that has moved on
\* has left the slot behind it to a load.
LEMMA SlotsKept ==
  ASSUME WellFormed(m_read_buffer), m_read_buffer'.bytes = m_read_buffer.bytes, Unread' = Unread
  PROVE  Slots' = Slots /\ Slot' = Slot
  BY DEF Slots, Slot

\* A step of worker t that leaves what it holds, and all slots, as they are.
LEMMA WorkerQuiet ==
  ASSUME ChannelInv, NEW t \in Workers, ThreadTypes', Others(t),
         UNCHANGED <<received, sent, delivered, dropped, overtaken>>,
         m_read_buffer'.bytes = m_read_buffer.bytes, Unread' = Unread,
         m_read_buffer'.r \in Nat, m_read_buffer'.r >= m_read_buffer.r,
         Held'[t] = Held[t],
         pc[Selector] = "received" => m_read_buffer'.r = m_read_buffer.r,
         pc'[t] = "take" => hand'[t] = <<>>,
         pc'[t] = "load" => m_read_buffer'.r >= 1,
         Reads(t)' => hand'[t] = hand[t] /\ (Reads(t) \/ (hand[t] = <<>> /\ \A u \in Threads : ~Reads(u))),
         ~overlapped' =>
            /\ ~overlapped
            /\ InsideRead(t)' => \/ InsideRead(t) /\ hand'[t] = hand[t]
                                 \/ hand'[t] = <<>> /\ \A u \in Threads : ~InsideRead(u)
            /\ pc'[t] = "socket" => pc[t] = "socket" \/ Unread = {}
  PROVE  HandInv' /\ ReadInv'
  <1>1. Types /\ ThreadTypes /\ HandInv /\ InputInv /\ OrderInv /\ SignInv /\ AloneInv
    BY DEF ChannelInv, BaseInv, ReadInv
  <1>2. t \in Threads /\ t # Selector /\ Selector \in Threads /\ Selector \notin Workers
    BY ThreadsFacts
  <1>3. pc'[Selector] = pc[Selector] /\ hand'[Selector] = hand[Selector]
    BY <1>2 DEF Others
  <1>4. Slots' = Slots /\ Slot' = Slot
    BY <1>1, SlotsKept DEF Types
  <1>5. Held' = Held
    <2>1. \A u \in Threads : Held'[u] = Held[u]
      BY <1>2, OthersKept
    <2> QED BY <2>1 DEF Held
  <1>6. Storing' = Storing
    BY <1>3 DEF Storing
  <1>7. /\ InputInv' /\ SignInv'
        /\ Ascending(Slots') /\ \A u \in Threads : Ascending(Held'[u])
        /\ SlotDues(Slots)' = SlotDues(Slots) /\ Dues(delivered)' = Dues(delivered)
        /\ Fresh' = Fresh
    BY <1>4, <1>5, <1>6, ViewKept
  <1>8. \A u \in Threads : u # t => pc'[u] = pc[u] /\ hand'[u] = hand[u]
    BY DEF Others
  <1>9. \A u \in Threads : u # t => (Reads(u)' <=> Reads(u)) /\ (InsideRead(u)' <=> InsideRead(u))
    BY <1>2, OthersKept
  <1>10. \A u \in Threads : Reads(u)' =>
            hand'[u] = hand[u] /\ (Reads(u) \/ (hand[u] = <<>> /\ \A v \in Threads : ~Reads(v)))
    <2> SUFFICES ASSUME NEW u \in Threads, Reads(u)'
                 PROVE  hand'[u] = hand[u] /\ (Reads(u) \/ (hand[u] = <<>> /\ \A v \in Threads : ~Reads(v)))
      OBVIOUS
    <2>1. CASE u = t
      BY <2>1
    <2>2. CASE u # t
      BY <1>8, <1>9, <2>2
    <2> QED BY <2>1, <2>2
  <1>11. HandInv'
    <2>1. pc'[Selector] \in {"received", "storing"} =>
             Len(hand'[Selector]) = 1 /\ hand'[Selector][1] \in 1 .. Fresh'
      BY <1>1, <1>3, <1>7 DEF HandInv
    <2>2. pc'[Selector] = "received" => Readable(m_read_buffer)' = 0
      BY <1>1, <1>3 DEF HandInv, Readable
    <2>3. pc'[Selector] = "storing" =>
             Slot' >= 1 /\ Due(m_read_buffer'.bytes[Slot']) = hand'[Selector][1]
      BY <1>1, <1>3, <1>4 DEF HandInv
    <2>4. \A u \in Threads : pc'[u] = "take" => hand'[u] = <<>>
      BY <1>1, <1>8 DEF HandInv
    <2>5. ASSUME NEW u \in Threads, NEW v \in Threads, Reads(u)', Reads(v)' PROVE u = v
      <3>1. CASE u # t /\ v # t
        BY <1>1, <1>9, <2>5, <3>1 DEF HandInv
      <3>2. CASE u = t /\ v # t
        <4>1. Reads(v) /\ Reads(u)
          BY <1>9, <1>10, <2>5, <3>2
        <4> QED BY <1>1, <4>1 DEF HandInv
      <3>3. CASE u # t /\ v = t
        <4>1. Reads(v) /\ Reads(u)
          BY <1>9, <1>10, <2>5, <3>3
        <4> QED BY <1>1, <4>1 DEF HandInv
      <3> QED BY <3>1, <3>2, <3>3
    <2>6. ASSUME NEW u \in Threads, pc'[u] = "load" PROVE m_read_buffer'.r >= 1
      <3>1. CASE u = t
        BY <2>6, <3>1
      <3>2. CASE u # t
        <4>1. m_read_buffer.r >= 1 /\ m_read_buffer.r \in Nat
          BY <1>1, <1>8, <2>6, <3>2 DEF HandInv, Types, WellFormed
        <4> QED BY <4>1
      <3> QED BY <3>1, <3>2
    <2> QED BY <2>1, <2>2, <2>3, <2>4, <2>5, <2>6 DEF HandInv
  <1>12. OrderInv'
    <2>1. ASSUME NEW u \in Threads, Reads(u)'
          PROVE  /\ Older(Dues(hand'[u]), SlotDues(Slots)')
                 /\ pc'[Selector] = "received" => Older(Dues(hand'[u]), Dues(hand'[Selector]))
      <3>1. CASE Reads(u)
        BY <1>1, <1>3, <1>7, <1>10, <2>1, <3>1 DEF OrderInv
      <3>2. CASE ~Reads(u)
        <4>1. hand'[u] = <<>>
          BY <1>10, <2>1, <3>2
        <4> QED BY <4>1, NoBytes DEF Older
      <3> QED BY <3>1, <3>2
    <2>2. pc'[Selector] = "received" => Older(SlotDues(Slots)', Dues(hand'[Selector]))
      BY <1>1, <1>3, <1>7 DEF OrderInv
    <2> QED BY <1>7, <2>1, <2>2 DEF OrderInv
  <1>13. AloneInv'
    <2> SUFFICES ASSUME ~overlapped' PROVE AloneInv'
      BY DEF AloneInv
    <2>1. /\ \A u, v \in Threads : InsideRead(u) /\ InsideRead(v) => u = v
          /\ \A u \in Workers : InsideRead(u) => Older(Dues(hand[u]), SlotDues(Slots))
          /\ \A u \in Workers : pc[u] = "socket" => Unread = {}
          /\ Ascending(delivered) /\ Older(Dues(delivered), SlotDues(Slots))
          /\ \A u \in Threads : Older(Dues(delivered), Dues(Held[u]))
          /\ overtaken = {} /\ (pc[Selector] = "storing" => Slot \in Unread)
      BY <1>1 DEF AloneInv
    <2>2. ASSUME NEW u \in Threads, NEW v \in Threads, InsideRead(u)', InsideRead(v)' PROVE u = v
      <3>1. CASE \A w \in Threads : ~InsideRead(w)
        BY <1>9, <2>2, <3>1
      <3>2. CASE ~(\A w \in Threads : ~InsideRead(w))
        <4>1. InsideRead(t)' => InsideRead(t)
          BY <3>2
        <4> QED BY <1>9, <2>1, <2>2, <4>1
      <3> QED BY <3>1, <3>2
    <2>3. ASSUME NEW u \in Workers, InsideRead(u)'
          PROVE  Older(Dues(hand'[u]), SlotDues(Slots)')
      <3>1. u \in Threads
        BY ThreadsFacts
      <3>2. CASE InsideRead(u) /\ hand'[u] = hand[u]
        BY <1>7, <2>1, <3>2
      <3>3. CASE hand'[u] = <<>>
        BY <3>3, NoBytes DEF Older
      <3> QED BY <1>8, <1>9, <2>3, <3>1, <3>2, <3>3
    <2>4. ASSUME NEW u \in Workers, pc'[u] = "socket" PROVE Unread' = {}
      <3>1. u \in Threads
        BY ThreadsFacts
      <3>2. pc[u] = "socket" \/ Unread = {}
        BY <1>8, <2>4, <3>1
      <3> QED BY <2>1, <3>2
    <2>5. Ascending(delivered)'
      BY <2>1 DEF Ascending
    <2>6. Older(Dues(delivered)', SlotDues(Slots)')
      BY <1>7, <2>1
    <2>7. \A u \in Threads : Older(Dues(delivered)', Dues(Held'[u]))
      BY <1>5, <1>7, <2>1
    <2>8. overtaken' = {} /\ (pc'[Selector] = "storing" => Slot' \in Unread')
      BY <1>3, <1>4, <2>1
    <2> QED BY <2>2, <2>3, <2>4, <2>5, <2>6, <2>7, <2>8 DEF AloneInv
  <1> QED BY <1>7, <1>11, <1>12, <1>13 DEF ReadInv

\* Unread depends on the buffer, and on whether a load is under way.
LEMMA UnreadKept ==
  ASSUME m_read_buffer' = m_read_buffer,
         (\E u \in Threads : pc'[u] = "load") <=> (\E u \in Threads : pc[u] = "load")
  PROVE  Unread' = Unread
  BY DEF Unread

\* A step of a worker that begins and ends outside read().
LEMMA OutsideStep ==
  ASSUME ChannelInv, NEW t \in Workers, NEW from \in Outside, NEW to \in Outside,
         Goes(t, from, to), hand' \in [Threads -> Seq(Int)],
         \A u \in Threads : u # t => hand'[u] = hand[u],
         UNCHANGED <<received, sent, m_read_buffer, delivered, dropped, overtaken, overlapped>>
  PROVE  ThreadTypes' /\ HandInv' /\ ReadInv'
  <1>1. Types /\ ThreadTypes /\ t \in Threads
    BY ThreadsFacts DEF ChannelInv, BaseInv
  <1>2. /\ pc[t] = from /\ pc'[t] = to
        /\ \A u \in Threads : u # t => pc'[u] = pc[u] /\ hand'[u] = hand[u]
    BY <1>1, GoesFacts
  <1>3. ThreadTypes'
    BY <1>1, WorkerTypes
  <1>4. Others(t)
    BY <1>2 DEF Others
  <1>5. /\ ~InsideRead(t) /\ ~InsideRead(t)' /\ ~Reads(t)'
        /\ pc[t] # "load" /\ pc'[t] # "load" /\ pc'[t] # "take" /\ pc'[t] # "socket"
    BY <1>2 DEF InsideRead, Reads, Outside
  <1>6. Unread' = Unread
    <2>1. \A u \in Threads : pc'[u] = "load" <=> pc[u] = "load"
      BY <1>2, <1>5
    <2> QED BY <2>1, UnreadKept
  <1>7. Held'[t] = Held[t]
    BY <1>1, <1>5 DEF Held
  <1>8. m_read_buffer.r \in Nat
    BY <1>1 DEF Types, WellFormed
  <1>9. HandInv' /\ ReadInv'
    BY <1>3, <1>4, <1>5, <1>6, <1>7, <1>8, WorkerQuiet
  <1> QED BY <1>3, <1>9

--------------------------------------------------------------------------------
\* read() in a worker, as long as it takes nothing

\* Overlaps(t) remembers whether another thread is inside.
LEMMA OverlapsFacts ==
  ASSUME Flags, NEW t \in Threads, Overlaps(t)
  PROVE  /\ overlapped' \in BOOLEAN
         /\ ~overlapped' => ~overlapped /\ \A u \in Threads : InsideRead(u) => u = t
  <1>1. overlapped' = (overlapped \/ \E u \in Threads \ {t} : InsideRead(u))
    BY DEF Overlaps
  <1>2. overlapped' \in BOOLEAN
    BY <1>1, Zenon DEF Flags
  <1> QED BY <1>1, <1>2

\* Nobody is loading, and nothing is readable: all slots have been read.
LEMMA NothingUnread ==
  ASSUME WellFormed(m_read_buffer), ~(Readable(m_read_buffer) > 0),
         \A u \in Threads : pc[u] # "load"
  PROVE  Unread = {}
  <1>1. m_read_buffer.r = Slot
    BY UnreadFacts
  <1>2. \A i \in 1 .. Slot : ~(i > m_read_buffer.r)
    BY <1>1, UnreadFacts
  <1> QED BY <1>2, UnreadFacts

LEMMA WorkerTestsBuffer ==
  ASSUME ChannelInv, NEW t \in Workers, ReadTest(t)
  PROVE  ChannelInv'
  <1>1. Types /\ Flags /\ ThreadTypes /\ OutputInv /\ AskedInv
    BY DEF ChannelInv, BaseInv
  <1>2. /\ hand' = [hand EXCEPT ![t] = <<>>] /\ Overlaps(t)
        /\ UNCHANGED <<received, sent, eof, m_fg, m_f, readEvent, writeEvent, m_read_buffer,
                       delivered, dropped, overtaken, wire, m_buffer, m_write_mutex, accepted,
                       asked, short>>
    BY DEF ReadTest, socket, state, events, output
  <1>3. PICK to \in {"take", "socket"} :
           Goes(t, "read", to) /\ (to = "socket" => ~(Readable(m_read_buffer) > 0))
    BY DEF ReadTest
  <1>4. t \in Threads
    BY ThreadsFacts
  <1>5. /\ pc[t] = "read" /\ pc'[t] = to /\ hand'[t] = <<>> /\ Others(t)
        /\ \A u \in Threads : u # t => pc'[u] = pc[u] /\ hand'[u] = hand[u]
    BY <1>1, <1>2, <1>3, <1>4, GoesFacts, HandFacts DEF Others
  <1>6. ThreadTypes'
    <2>1. hand' \in [Threads -> Seq(Int)]
      BY <1>1, <1>2, NoBytes DEF ThreadTypes
    <2> QED BY <1>1, <1>3, <2>1, WorkerTypes DEF Inside
  <1>7. Types'
    BY <1>1, <1>2 DEF Types
  <1>8. Flags'
    BY <1>1, <1>2, <1>4, OverlapsFacts DEF Flags
  <1>9. ~InsideRead(t) /\ ~Reads(t)' /\ pc'[t] # "load"
    BY <1>3, <1>5 DEF InsideRead, Reads
  <1>10. Unread' = Unread
    <2>1. \A u \in Threads : pc'[u] = "load" <=> pc[u] = "load"
      BY <1>5, <1>9 DEF InsideRead
    <2> QED BY <1>2, <2>1, UnreadKept
  <1>11. Held'[t] = Held[t]
    BY <1>4, <1>5, <1>9 DEF Held
  <1>12. ~overlapped' => /\ ~overlapped /\ \A u \in Threads : ~InsideRead(u)
                         /\ pc'[t] = "socket" => Unread = {}
    <2> SUFFICES ASSUME ~overlapped'
                 PROVE  /\ ~overlapped /\ \A u \in Threads : ~InsideRead(u)
                        /\ pc'[t] = "socket" => Unread = {}
      OBVIOUS
    <2>1. ~overlapped /\ \A u \in Threads : ~InsideRead(u)
      BY <1>1, <1>2, <1>4, <1>9, OverlapsFacts
    <2>2. \A u \in Threads : pc[u] # "load"
      BY <2>1 DEF InsideRead
    <2> QED BY <1>1, <1>3, <1>5, <2>1, <2>2, NothingUnread DEF Types
  <1>13. m_read_buffer.r \in Nat
    BY <1>1 DEF Types, WellFormed
  <1>14. HandInv' /\ ReadInv'
    BY <1>2, <1>5, <1>6, <1>9, <1>10, <1>11, <1>12, <1>13, WorkerQuiet
  <1>15. OutputInv'
    BY <1>1, <1>2, OutputKept
  <1>16. AskedInv'
    <2>1. \A u \in Threads : pc'[u] \in {"flushFirst", "write"} =>
                                pc[u] \in {"flushFirst", "write"} /\ hand'[u] = hand[u]
      BY <1>3, <1>5
    <2> QED BY <1>1, <1>2, <2>1, AskedKept
  <1> QED BY <1>6, <1>7, <1>8, <1>14, <1>15, <1>16 DEF ChannelInv, BaseInv

\* A claim leaves the slot behind the read index to a load.
LEMMA WorkerClaims ==
  ASSUME ChannelInv, NEW t \in Workers, ReadClaim(t)
  PROVE  ChannelInv'
  <1> DEFINE r == m_read_buffer.r
  <1>1. Types /\ Flags /\ ThreadTypes /\ HandInv /\ OutputInv /\ AskedInv
    BY DEF ChannelInv, BaseInv
  <1>2. /\ pc' = [pc EXCEPT ![t] = "load"] /\ m_read_buffer' = AfterRead(m_read_buffer, 1)
        /\ HasReadMutex(t) /\ Readable(m_read_buffer) > 0
        /\ UNCHANGED <<received, sent, eof, m_fg, m_f, readEvent, writeEvent, hand,
                       delivered, dropped, overtaken, overlapped, wire, m_buffer, m_write_mutex,
                       accepted, asked, short>>
    BY DEF ReadClaim, ReadsOn, socket, state, events, output
  <1>3. t \in Threads /\ pc[t] \in {"take", "more"}
    BY <1>2, ThreadsFacts DEF HasReadMutex
  <1>4. PICK from \in {"take", "more"} : Goes(t, from, "load")
    BY <1>2, <1>3 DEF Goes
  <1>5. /\ pc[t] = from /\ pc'[t] = "load" /\ hand'[t] = hand[t] /\ Others(t)
        /\ \A u \in Threads : u # t => pc'[u] = pc[u] /\ hand'[u] = hand[u]
    BY <1>1, <1>2, <1>3, <1>4, GoesFacts DEF Others
  <1>6. ThreadTypes'
    BY <1>1, <1>2, <1>4, WorkerTypes DEF ThreadTypes, Inside
  <1>7. /\ WellFormed(m_read_buffer') /\ m_read_buffer'.bytes = m_read_buffer.bytes
        /\ m_read_buffer'.r = r + 1 /\ r \in Nat
    <2>1. 1 \in 0 .. Readable(m_read_buffer) /\ WellFormed(m_read_buffer)
      BY <1>1, <1>2, UnreadFacts DEF Types
    <2>2. WellFormed(m_read_buffer')
      BY <1>2, <2>1, AfterReadProps
    <2> QED BY <1>2, <2>1, <2>2 DEF AfterRead, WellFormed
  <1>8. Types' /\ Flags'
    BY <1>1, <1>2, <1>7 DEF Types, Flags
  <1>9. \A u \in Threads : ~Reads(u) \/ u = t
    BY <1>1, <1>2, <1>3 DEF HasReadMutex, Reads, HandInv
  <1>10. (\A u \in Threads : pc[u] # "load") /\ \E u \in Threads : pc'[u] = "load"
    BY <1>3, <1>5, <1>9 DEF Reads
  <1>11. Unread' = Unread
    <2>1. WellFormed(m_read_buffer) /\ Slot' = Slot
      BY <1>1, <1>7 DEF Types, Slot
    <2>2. Unread = {i \in 1 .. Slot : i > r}
      BY <1>10, <2>1, UnreadFacts
    <2>3. DOMAIN m_read_buffer.bytes = 1 .. Slot /\ Slot \in Nat /\ r \in Nat
      BY <2>1, UnreadFacts, LenProperties DEF Slot
    <2>4. Unread' = {i \in 1 .. Slot : i > r + 1 \/ i = r + 1}
      BY <1>7, <1>10, <2>3 DEF Unread
    <2>5. \A i \in 1 .. Slot : i > r <=> (i > r + 1 \/ i = r + 1)
      BY <2>3
    <2> QED BY <2>2, <2>4, <2>5
  <1>12. Held'[t] = Held[t]
    BY <1>3, <1>5 DEF Held, InsideRead
  <1>13. pc[Selector] # "received"
    BY <1>1, <1>2 DEF HandInv
  <1>14. Reads(t)' => hand'[t] = hand[t] /\ (Reads(t) \/ (hand[t] = <<>> /\ \A u \in Threads : ~Reads(u)))
    <2>1. CASE pc[t] = "more"
      BY <1>5, <2>1 DEF Reads
    <2>2. CASE pc[t] = "take"
      <3>1. hand[t] = <<>> /\ ~Reads(t)
        BY <1>1, <1>3, <2>2 DEF HandInv, Reads
      <3> QED BY <1>5, <1>9, <3>1
    <2> QED BY <1>3, <2>1, <2>2
  <1>15. InsideRead(t)
    BY <1>3 DEF InsideRead
  <1>16. HandInv' /\ ReadInv'
    BY <1>2, <1>5, <1>6, <1>7, <1>11, <1>12, <1>13, <1>14, <1>15, WorkerQuiet
  <1>17. OutputInv' /\ AskedInv'
    <2>1. \A u \in Threads : pc'[u] \in {"flushFirst", "write"} =>
                                pc[u] \in {"flushFirst", "write"} /\ hand'[u] = hand[u]
      BY <1>5
    <2> QED BY <1>1, <1>2, <2>1, OutputKept, AskedKept
  <1> QED BY <1>6, <1>8, <1>16, <1>17 DEF ChannelInv, BaseInv

\* readBytes() is over, or all it was asked for is still to come from the socket.
LEMMA WorkerGoesOn ==
  ASSUME ChannelInv, NEW t \in Workers, ReadTaken(t) \/ ReadGoesOn(t)
  PROVE  ChannelInv'
  <1>1. Types /\ Flags /\ ThreadTypes /\ AloneInv /\ HandInv /\ OutputInv /\ AskedInv
    BY DEF ChannelInv, BaseInv, ReadInv
  <1>2. UNCHANGED <<received, sent, eof, m_fg, m_f, readEvent, writeEvent, m_read_buffer, hand,
                    delivered, dropped, overtaken, overlapped, wire, m_buffer, m_write_mutex,
                    accepted, asked, short>>
    BY DEF ReadTaken, ReadGoesOn, socket, state, events, input, output
  <1>3. PICK from \in {"take", "more", "check"}, to \in {"check", "socket"} :
           /\ Goes(t, from, to)
           /\ to = "socket" => from = "check" /\ ~(Readable(m_read_buffer) > 0)
    <2>1. CASE ReadTaken(t)
      BY <2>1 DEF ReadTaken, HasReadMutex, Goes
    <2>2. CASE ReadGoesOn(t)
      BY <2>2 DEF ReadGoesOn, ReadEnough
    <2> QED BY <2>1, <2>2
  <1>4. t \in Threads
    BY ThreadsFacts
  <1>5. /\ pc[t] = from /\ pc'[t] = to /\ hand'[t] = hand[t] /\ Others(t)
        /\ \A u \in Threads : u # t => pc'[u] = pc[u] /\ hand'[u] = hand[u]
    BY <1>1, <1>2, <1>3, <1>4, GoesFacts DEF Others
  <1>6. ThreadTypes'
    BY <1>1, <1>2, <1>3, WorkerTypes DEF ThreadTypes, Inside
  <1>7. Types' /\ Flags'
    BY <1>1, <1>2 DEF Types, Flags
  <1>8. InsideRead(t) /\ InsideRead(t)' /\ pc[t] # "load" /\ pc'[t] # "load" /\ ~Reads(t)'
        /\ pc'[t] # "take"
    BY <1>3, <1>5 DEF InsideRead, Reads
  <1>9. Unread' = Unread
    <2>1. \A u \in Threads : pc'[u] = "load" <=> pc[u] = "load"
      BY <1>5, <1>8
    <2> QED BY <1>2, <2>1, UnreadKept
  <1>10. Held'[t] = Held[t]
    BY <1>4, <1>5, <1>8 DEF Held
  <1>11. ~overlapped' => ~overlapped /\ (pc'[t] = "socket" => Unread = {})
    <2> SUFFICES ASSUME ~overlapped', pc'[t] = "socket" PROVE Unread = {}
      BY <1>2
    <2>1. \A u \in Threads : pc[u] # "load"
      <3> SUFFICES ASSUME NEW u \in Threads, pc[u] = "load" PROVE FALSE
        OBVIOUS
      <3>1. InsideRead(u)
        BY DEF InsideRead
      <3>2. u = t
        BY <1>1, <1>2, <1>4, <1>8, <3>1 DEF AloneInv
      <3> QED BY <1>8, <3>2
    <2> QED BY <1>1, <1>3, <1>5, <2>1, NothingUnread DEF Types
  <1>12. m_read_buffer.r \in Nat
    BY <1>1 DEF Types, WellFormed
  <1>13. HandInv' /\ ReadInv'
    BY <1>2, <1>5, <1>6, <1>8, <1>9, <1>10, <1>11, <1>12, WorkerQuiet
  <1>14. OutputInv' /\ AskedInv'
    <2>1. \A u \in Threads : pc'[u] \in {"flushFirst", "write"} =>
                                pc[u] \in {"flushFirst", "write"} /\ hand'[u] = hand[u]
      BY <1>3, <1>5
    <2> QED BY <1>1, <1>2, <2>1, OutputKept, AskedKept
  <1> QED BY <1>6, <1>7, <1>13, <1>14 DEF ChannelInv, BaseInv

--------------------------------------------------------------------------------
\* The peer, and the selector as long as it takes nothing

\* No thread moves: what may differ is what is still to be read off the socket.
LEMMA NobodyMoves ==
  ASSUME ChannelInv, UNCHANGED <<pc, input>>, Fresh' = Fresh
  PROVE  /\ ThreadTypes' /\ HandInv' /\ OrderInv' /\ SignInv' /\ AloneInv'
         /\ Slots' = Slots /\ Held' = Held
  <1>1. /\ UNCHANGED <<pc, hand, m_read_buffer, delivered, dropped, overtaken, overlapped>>
        /\ ThreadTypes /\ HandInv /\ OrderInv /\ SignInv /\ AloneInv
    BY DEF input, ChannelInv, BaseInv, ReadInv
  <1>2. Unread' = Unread
    BY <1>1, UnreadKept
  <1>3. Slots' = Slots /\ Slot' = Slot
    BY <1>1, <1>2 DEF Slots, Slot
  <1>4. /\ \A u \in Threads : (InsideRead(u)' <=> InsideRead(u)) /\ (Reads(u)' <=> Reads(u))
        /\ Held' = Held
    BY <1>1 DEF InsideRead, Reads, Held
  <1>5. Storing' = Storing
    BY <1>1 DEF Storing
  <1>6. ThreadTypes'
    BY <1>1 DEF ThreadTypes
  <1>7. HandInv'
    BY <1>1, <1>3, <1>4 DEF HandInv, Readable
  <1>8. OrderInv'
    BY <1>1, <1>3, <1>4 DEF OrderInv
  <1>9. SignInv'
    BY <1>1, <1>2, <1>3, <1>4, <1>5 DEF SignInv, Faithful
  <1>10. AloneInv'
    <2>1. /\ Ascending(delivered)' <=> Ascending(delivered)
          /\ SlotDues(Slots)' = SlotDues(Slots) /\ Dues(delivered)' = Dues(delivered)
      BY <1>1, <1>3
    <2>2. pc'[Selector] = pc[Selector] /\ overlapped' = overlapped /\ overtaken' = overtaken
      BY <1>1
    <2>3. \A u \in Threads : hand'[u] = hand[u] /\ pc'[u] = pc[u] /\ Held'[u] = Held[u]
      BY <1>1, <1>4
    <2>4. \A u \in Workers : u \in Threads
      BY ThreadsFacts
    <2> QED BY <1>1, <1>2, <1>3, <1>4, <2>1, <2>2, <2>3, <2>4 DEF AloneInv
  <1> QED BY <1>3, <1>4, <1>6, <1>7, <1>8, <1>9, <1>10

LEMMA PeerSends ==
  ASSUME ChannelInv, PeerSend
  PROVE  ChannelInv'
  <1>1. Types /\ Flags /\ InputInv /\ OutputInv /\ AskedInv
    BY DEF ChannelInv, BaseInv, ReadInv
  <1>2. /\ sent' = sent + 1 /\ sent < MaxIn /\ received' = Append(received, sent')
        /\ UNCHANGED <<eof, m_fg, m_f, readEvent, writeEvent, input, wire, m_buffer,
                       m_write_mutex, accepted, asked, short, pc>>
    BY DEF PeerSend, state, events, output
  <1>3. UNCHANGED <<m_read_buffer, hand, delivered, dropped, overtaken, overlapped>>
    BY <1>2 DEF input
  <1>4. /\ Fresh \in Nat /\ sent \in Nat /\ Len(received) \in Nat
        /\ sent = Fresh + Len(received)
    BY <1>1, FreshNat DEF InputInv
  <1>5. /\ received' \in Seq(Int) /\ Len(received') = Len(received) + 1
        /\ \A i \in 1 .. Len(received) : received'[i] = received[i]
        /\ received'[Len(received) + 1] = sent'
    <2>1. sent' \in Int /\ received \in Seq(Int)
      BY <1>1, <1>2, <1>4 DEF Types
    <2> QED BY <1>2, <2>1, AppendProperties
  <1>6. Fresh' = Fresh
    BY <1>2, <1>4, <1>5 DEF Fresh
  <1>7. ReceivedRuns'
    <2>1. \A i \in 1 .. Len(received') : i \in 1 .. Len(received) \/ i = Len(received) + 1
      BY <1>4, <1>5
    <2> QED BY <1>1, <1>2, <1>4, <1>5, <1>6, <2>1 DEF InputInv, ReceivedRuns
  <1>8. /\ ThreadTypes' /\ HandInv' /\ OrderInv' /\ SignInv' /\ AloneInv'
        /\ Slots' = Slots /\ Held' = Held
    BY <1>2, <1>6, NobodyMoves
  <1>9. InputInv'
    <2>1. SlotDues(Slots)' = SlotDues(Slots) /\ Dues(delivered)' = Dues(delivered)
      BY <1>3, <1>8
    <2>2. Divided(Fresh, SlotDues(Slots), HandDues(Held), Dues(delivered), dropped)'
      BY <1>1, <1>3, <1>6, <1>8, <2>1 DEF InputInv, Divided
    <2> QED BY <1>1, <1>3, <1>7, <2>2 DEF InputInv, Distinct
  <1>10. Types'
    BY <1>1, <1>2, <1>3, <1>4, <1>5, BoundsAssumption DEF Types
  <1>11. Flags'
    BY <1>1, <1>2, <1>3 DEF Flags
  <1>12. OutputInv' /\ AskedInv'
    BY <1>1, <1>2, <1>3, OutputKept, AskedKept
  <1> QED BY <1>8, <1>9, <1>10, <1>11, <1>12 DEF ChannelInv, BaseInv, ReadInv

\* Steps that change no more than flags and states.
LEMMA OnlyFlags ==
  ASSUME ChannelInv,
         UNCHANGED <<received, sent, input, output, pc>>,
         eof' \in BOOLEAN, m_fg' \in {1, 3}, m_f' \in {"connected", "closed"},
         readEvent' \in BOOLEAN, writeEvent' \in BOOLEAN
  PROVE  ChannelInv'
  <1>1. Types /\ Flags /\ InputInv /\ OutputInv /\ AskedInv
    BY DEF ChannelInv, BaseInv, ReadInv
  <1>2. UNCHANGED <<m_read_buffer, hand, delivered, dropped, overtaken, overlapped, wire,
                    m_buffer, m_write_mutex, accepted, asked, short>>
    BY DEF input, output
  <1>3. Types' /\ Flags'
    BY <1>1, <1>2 DEF Types, Flags
  <1>4. Fresh' = Fresh
    BY DEF Fresh
  <1>5. /\ ThreadTypes' /\ HandInv' /\ OrderInv' /\ SignInv' /\ AloneInv'
        /\ Slots' = Slots /\ Held' = Held
    BY <1>4, NobodyMoves
  <1>6. InputInv'
    <2>1. SlotDues(Slots)' = SlotDues(Slots) /\ Dues(delivered)' = Dues(delivered)
      BY <1>2, <1>5
    <2>2. Divided(Fresh, SlotDues(Slots), HandDues(Held), Dues(delivered), dropped)'
      BY <1>1, <1>2, <1>4, <1>5, <2>1 DEF InputInv, Divided
    <2> QED BY <1>1, <1>2, <1>4, <2>2 DEF InputInv, ReceivedRuns, Distinct
  <1>7. OutputInv' /\ AskedInv'
    BY <1>1, <1>2, OutputKept, AskedKept
  <1> QED BY <1>3, <1>5, <1>6, <1>7 DEF ChannelInv, BaseInv, ReadInv

LEMMA FlagSteps ==
  ASSUME ChannelInv, PeerClose \/ TryReadBuffered \/ TryRecvEnd \/ TryWrite
  PROVE  ChannelInv'
  <1>1. eof \in BOOLEAN /\ readEvent \in BOOLEAN /\ writeEvent \in BOOLEAN
    BY DEF ChannelInv, BaseInv, Types, Flags
  <1>2. m_fg \in {1, 3} /\ m_f \in {"connected", "closed"}
    BY DEF ChannelInv, BaseInv, Types
  <1>3. CASE PeerClose
    BY <1>1, <1>2, <1>3, OnlyFlags DEF PeerClose, state, events
  <1>4. CASE TryReadBuffered
    BY <1>1, <1>2, <1>4, OnlyFlags DEF TryReadBuffered, socket, state
  <1>5. CASE TryRecvEnd
    BY <1>1, <1>2, <1>5, OnlyFlags DEF TryRecvEnd, socket, events
  <1>6. CASE TryWrite
    BY <1>1, <1>2, <1>6, OnlyFlags DEF TryWrite, socket, state
  <1> QED BY <1>3, <1>4, <1>5, <1>6

--------------------------------------------------------------------------------
\* The selector's byte

LEMMA OneByte ==
  ASSUME NEW s \in Seq(Int), Len(s) = 1, NEW b \in Nat, s[1] = b
  PROVE  Dues(s) = {b} /\ Bytes(s) = {b} /\ Ascending(s)
  <1>1. Dues(s) = {Due(b)} /\ Bytes(s) = {b}
    BY DuesOf, BytesOf
  <1>2. Due(b) = b
    BY DueFacts
  <1>3. Len(s) <= 1 => Ascending(s)
    BY AscendingSeq
  <1>4. Len(s) <= 1
    OBVIOUS
  <1> QED BY <1>1, <1>2, <1>3, <1>4

LEMMA SelectorHand ==
  ASSUME ChannelInv, pc[Selector] \in {"received", "storing"}
  PROVE  /\ hand[Selector] \in Seq(Int) /\ Len(hand[Selector]) = 1
         /\ hand[Selector][1] \in 1 .. Fresh /\ hand[Selector][1] \in Nat
         /\ Dues(hand[Selector]) = {hand[Selector][1]}
         /\ Bytes(hand[Selector]) = {hand[Selector][1]}
         /\ Held[Selector] = IF pc[Selector] = "received" THEN hand[Selector] ELSE <<>>
         /\ Storing = IF pc[Selector] = "received" THEN {} ELSE {hand[Selector][1]}
  <1>1. ThreadTypes /\ HandInv
    BY DEF ChannelInv, BaseInv
  <1>2. hand[Selector] \in Seq(Int) /\ Len(hand[Selector]) = 1 /\ hand[Selector][1] \in 1 .. Fresh
    BY <1>1, ThreadsFacts DEF ThreadTypes, HandInv
  <1>3. hand[Selector][1] \in Nat
    BY <1>2, InputFacts
  <1>4. Dues(hand[Selector]) = {hand[Selector][1]} /\ Bytes(hand[Selector]) = {hand[Selector][1]}
    BY <1>2, <1>3, OneByte
  <1>5. Held[Selector] = IF pc[Selector] = "received" THEN hand[Selector] ELSE <<>>
    BY <1>1, HeldFacts
  <1>6. Storing = IF pc[Selector] = "received" THEN {} ELSE {hand[Selector][1]}
    BY <1>4 DEF Storing
  <1> QED BY <1>2, <1>3, <1>4, <1>5, <1>6

\* A step of the selector: the workers stay where they are, with what they have.
LEMMA SelectorStepFacts ==
  ASSUME ChannelInv, NEW from \in SelectorPlaces, NEW to \in SelectorPlaces,
         Goes(Selector, from, to), NEW s \in Seq(Int), hand' = [hand EXCEPT ![Selector] = s]
  PROVE  /\ ThreadTypes'
         /\ pc[Selector] = from /\ pc'[Selector] = to /\ hand'[Selector] = s /\ Others(Selector)
         /\ \A u \in Threads : u # Selector =>
               pc'[u] = pc[u] /\ hand'[u] = hand[u] /\ Held'[u] = Held[u]
         /\ \A u \in Workers : /\ u \in Threads /\ u # Selector
                               /\ pc'[u] = pc[u] /\ hand'[u] = hand[u] /\ Held'[u] = Held[u]
                               /\ InsideRead(u)' <=> InsideRead(u)
         /\ \A u \in Threads : /\ pc'[u] = "load" <=> pc[u] = "load"
                               /\ Reads(u)' <=> Reads(u)
                               /\ Reads(u) => u # Selector /\ Held[u] = hand[u]
         /\ \A u \in Threads : u # Selector => HandDues(Held')[u] = HandDues(Held)[u]
         /\ HandDues(Held)[Selector] = Dues(Held[Selector])
         /\ HandDues(Held')[Selector] = Dues(Held'[Selector])
         /\ Held'[Selector] = IF to = "received" THEN s ELSE <<>>
         /\ Storing' = IF to = "storing" THEN Bytes(s) ELSE {}
         /\ AskedInv /\ UNCHANGED <<accepted, asked>> => AskedInv'
  <1>1. ThreadTypes /\ Selector \in Threads
    BY ThreadsFacts DEF ChannelInv, BaseInv
  <1>2. /\ pc[Selector] = from /\ pc'[Selector] = to /\ hand'[Selector] = s
        /\ \A u \in Threads : u # Selector => pc'[u] = pc[u] /\ hand'[u] = hand[u]
    BY <1>1, GoesFacts, HandFacts
  <1>3. Others(Selector)
    BY <1>2 DEF Others
  <1>4. ThreadTypes'
    <2>1. hand' \in [Threads -> Seq(Int)]
      BY <1>1 DEF ThreadTypes
    <2> QED BY <1>1, <2>1, SelectorTypes
  <1>5. \A u \in Threads : u # Selector =>
           /\ Held'[u] = Held[u] /\ HandDues(Held')[u] = HandDues(Held)[u]
           /\ InsideRead(u)' <=> InsideRead(u)
           /\ Reads(u)' <=> Reads(u)
    BY <1>1, <1>3, OthersKept
  <1>6. /\ HandDues(Held)[Selector] = Dues(Held[Selector])
        /\ HandDues(Held')[Selector] = Dues(Held'[Selector])
    BY <1>1 DEF HandDues
  <1>7. ~Reads(Selector) /\ ~Reads(Selector)' /\ pc[Selector] # "load" /\ pc'[Selector] # "load"
    BY <1>2 DEF Reads, SelectorPlaces
  <1>8. \A u \in Threads : Reads(u) => Held[u] = hand[u]
    BY DEF Reads, Held, InsideRead
  <1>9. Held'[Selector] = IF to = "received" THEN s ELSE <<>>
    BY <1>1, <1>2 DEF Held, InsideRead, SelectorPlaces
  <1>10. Storing' = IF to = "storing" THEN Bytes(s) ELSE {}
    BY <1>2 DEF Storing
  <1>11. AskedInv /\ UNCHANGED <<accepted, asked>> => AskedInv'
    <2>1. to \notin {"flushFirst", "write"}
      BY DEF SelectorPlaces
    <2>2. \A u \in Threads : pc'[u] \in {"flushFirst", "write"} =>
                                pc[u] \in {"flushFirst", "write"} /\ hand'[u] = hand[u]
      BY <1>2, <2>1
    <2> QED BY <2>2, AskedKept
  <1> QED BY <1>2, <1>3, <1>4, <1>5, <1>6, <1>7, <1>8, <1>9, <1>10, <1>11, ThreadsFacts

\* tryRead() takes the oldest byte off the socket.
LEMMA SelectorReceives ==
  ASSUME ChannelInv, TryRecv
  PROVE  ChannelInv'
  <1> DEFINE t == Selector
             b == Fresh + 1
             s == <<Head(received)>>
  <1>1. /\ Types /\ Flags /\ ThreadTypes /\ HandInv /\ InputInv /\ OrderInv /\ SignInv
        /\ AloneInv /\ OutputInv /\ AskedInv
    BY DEF ChannelInv, BaseInv, ReadInv
  <1>2. /\ Goes(t, "idle", "received") /\ Readable(m_read_buffer) = 0
        /\ received # <<>> /\ received' = Tail(received)
        /\ hand' = [hand EXCEPT ![t] = s] /\ Overlaps(t)
        /\ UNCHANGED <<sent, eof, m_fg, m_f, readEvent, writeEvent, m_read_buffer, delivered,
                       dropped, overtaken, wire, m_buffer, m_write_mutex, accepted, asked,
                       short>>
    BY DEF TryRecv, state, events, output
  <1>3. t \in Threads /\ t \notin Workers
    BY ThreadsFacts
  <1>4. /\ Fresh \in Nat /\ sent \in Nat /\ Len(received) \in Nat
        /\ sent = Fresh + Len(received) /\ ReceivedRuns /\ b \in Nat
    BY <1>1, FreshNat DEF InputInv
  <1>5. /\ received' \in Seq(Int) /\ Len(received') = Len(received) - 1
        /\ \A i \in 1 .. Len(received') : received'[i] = received[i + 1]
        /\ Len(received) # 0 /\ Head(received) = received[1]
    BY <1>1, <1>2, HeadTailProperties, EmptySeq DEF Types
  <1>6. Head(received) = b /\ Fresh' = b
    BY <1>2, <1>4, <1>5 DEF ReceivedRuns, Fresh
  <1>7. s \in Seq(Int) /\ Len(s) = 1 /\ s[1] = b
    BY <1>4, <1>6
  <1>8. Dues(s) = {b} /\ Bytes(s) = {b} /\ Ascending(s)
    BY <1>4, <1>7, OneByte
  <1> HIDE DEF s, b
  <1>9. b = Fresh + 1
    BY DEF b
  <1>10. ReceivedRuns'
    <2>1. \A i \in 1 .. Len(received') : i + 1 \in 1 .. Len(received)
      BY <1>4, <1>5
    <2> QED BY <1>2, <1>4, <1>5, <1>6, <1>9, <2>1 DEF ReceivedRuns
  <1>11. /\ ThreadTypes'
         /\ pc[t] = "idle" /\ pc'[t] = "received" /\ hand'[t] = s
         /\ \A u \in Threads : u # t => pc'[u] = pc[u] /\ hand'[u] = hand[u] /\ Held'[u] = Held[u]
         /\ \A u \in Workers : /\ u \in Threads /\ u # t
                               /\ pc'[u] = pc[u] /\ hand'[u] = hand[u] /\ Held'[u] = Held[u]
                               /\ InsideRead(u)' <=> InsideRead(u)
         /\ \A u \in Threads : /\ pc'[u] = "load" <=> pc[u] = "load"
                               /\ Reads(u)' <=> Reads(u)
                               /\ Reads(u) => u # t /\ Held[u] = hand[u]
         /\ \A u \in Threads : u # t => HandDues(Held')[u] = HandDues(Held)[u]
         /\ HandDues(Held)[t] = Dues(Held[t]) /\ HandDues(Held')[t] = Dues(Held'[t])
         /\ Held'[t] = s /\ Storing' = {} /\ AskedInv'
    <2>1. "idle" \in SelectorPlaces /\ "received" \in SelectorPlaces
      BY DEF SelectorPlaces
    <2> QED BY <1>1, <1>2, <1>7, <2>1, SelectorStepFacts
  <1>12. Held[t] = <<>> /\ Storing = {}
    BY <1>1, <1>3, <1>11, HeldFacts DEF Storing
  <1>13. Unread' = Unread /\ Slots' = Slots /\ Slot' = Slot
    <2>1. Unread' = Unread
      BY <1>2, <1>11, UnreadKept
    <2> QED BY <1>2, <2>1 DEF Slots, Slot
  <1>14. SlotDues(Slots)' = SlotDues(Slots) /\ Dues(delivered)' = Dues(delivered)
    BY <1>2, <1>13
  <1>15. /\ Divided(Fresh, SlotDues(Slots), HandDues(Held), Dues(delivered), dropped)
         /\ SlotDues(Slots) \subseteq 1 .. Fresh /\ Dues(delivered) \subseteq 1 .. Fresh
         /\ dropped \subseteq 1 .. Fresh
         /\ SlotDues(Slots) \cap Dues(delivered) = {} /\ SlotDues(Slots) \cap dropped = {}
         /\ Dues(delivered) \cap dropped = {}
         /\ \A u \in Threads : Dues(Held[u]) \subseteq 1 .. Fresh
    BY InputFacts
  <1>16. b \notin 1 .. Fresh /\ Fresh + 1 .. b = {b} /\ Fresh <= b /\ \A a \in 1 .. Fresh : a < b
    BY <1>4, <1>9
  <1>17. Types' /\ Flags'
    BY <1>1, <1>2, <1>3, <1>5, OverlapsFacts DEF Types, Flags
  <1>18. HandInv'
    <2>1. Len(hand'[t]) = 1 /\ hand'[t][1] \in 1 .. Fresh'
      BY <1>4, <1>6, <1>7, <1>9, <1>11
    <2>2. Readable(m_read_buffer)' = 0
      BY <1>2
    <2>3. \A u \in Threads : pc'[u] = "take" => hand'[u] = <<>>
      BY <1>1, <1>11 DEF HandInv
    <2>4. \A u, v \in Threads : Reads(u)' /\ Reads(v)' => u = v
      BY <1>1, <1>11 DEF HandInv
    <2>5. \A u \in Threads : pc'[u] = "load" => m_read_buffer'.r >= 1
      BY <1>1, <1>2, <1>11 DEF HandInv
    <2> QED BY <1>11, <2>1, <2>2, <2>3, <2>4, <2>5 DEF HandInv
  <1>19. InputInv'
    <2>1. HandDues(Held)[t] = {} /\ HandDues(Held')[t] = {b}
      BY <1>8, <1>11, <1>12, NoBytes
    <2>2. Divided(b, SlotDues(Slots), HandDues(Held'), Dues(delivered), dropped)
      BY <1>3, <1>4, <1>11, <1>15, <1>16, <2>1, MoveBytes
    <2>3. Divided(Fresh, SlotDues(Slots), HandDues(Held), Dues(delivered), dropped)'
      BY <1>2, <1>6, <1>14, <2>2
    <2> QED BY <1>1, <1>2, <1>10, <2>3 DEF InputInv, Distinct
  <1>20. OrderInv'
    <2>1. Ascending(Slots')
      BY <1>1, <1>13 DEF OrderInv
    <2>2. \A u \in Threads : Ascending(Held'[u])
      BY <1>1, <1>8, <1>11 DEF OrderInv
    <2>3. ASSUME NEW u \in Threads, Reads(u)'
          PROVE  Older(Dues(hand'[u]), SlotDues(Slots)') /\ Older(Dues(hand'[u]), Dues(hand'[t]))
      <3>1. Reads(u) /\ u # t /\ hand'[u] = hand[u] /\ Held[u] = hand[u]
        BY <1>11, <2>3
      <3>2. Older(Dues(hand[u]), SlotDues(Slots))
        BY <1>1, <3>1 DEF OrderInv
      <3>3. Older(Dues(hand[u]), {b})
        BY <1>15, <1>16, <3>1 DEF Older
      <3> QED BY <1>8, <1>11, <1>14, <3>1, <3>2, <3>3
    <2>4. Older(SlotDues(Slots)', Dues(hand'[t]))
      BY <1>8, <1>11, <1>14, <1>15, <1>16 DEF Older
    <2> QED BY <2>1, <2>2, <2>3, <2>4 DEF OrderInv
  <1>21. SignInv'
    <2>1. Faithful(b, overtaken \cup Storing')
      <3>1. Due(b) = b /\ ~(b < 0)
        BY <1>4, DueFacts
      <3>2. b \notin overtaken
        BY <1>1, <1>16 DEF SignInv
      <3> QED BY <1>11, <3>1, <3>2 DEF Faithful
    <2>2. ASSUME NEW u \in Threads, NEW x \in Bytes(Held'[u])
          PROVE  Faithful(x, overtaken \cup Storing')
      <3>1. CASE u = t
        BY <1>8, <1>11, <2>1, <2>2, <3>1
      <3>2. CASE u # t
        BY <1>1, <1>11, <1>12, <2>2, <3>2 DEF SignInv
      <3> QED BY <3>1, <3>2
    <2>3. overtaken \subseteq 1 .. Fresh'
      <3>1. 1 .. Fresh \subseteq 1 .. b
        BY <1>4, <1>9
      <3> QED BY <1>1, <1>6, <3>1 DEF SignInv
    <2>4. \A i \in Unread' : Faithful(Slots'[i], Storing')
      BY <1>1, <1>11, <1>12, <1>13 DEF SignInv
    <2>5. \A x \in Bytes(delivered') : Faithful(x, overtaken' \cup Storing')
      BY <1>1, <1>2, <1>11, <1>12 DEF SignInv
    <2>6. overtaken' \cap SlotDues(Slots)' = {}
      BY <1>1, <1>2, <1>14 DEF SignInv
    <2> QED BY <1>2, <2>2, <2>3, <2>4, <2>5, <2>6 DEF SignInv, Faithful
  <1>22. AloneInv'
    <2> SUFFICES ASSUME ~overlapped' PROVE AloneInv'
      BY DEF AloneInv
    <2>1. ~overlapped /\ \A u \in Threads : InsideRead(u) => u = t
      BY <1>1, <1>2, <1>3, OverlapsFacts
    <2>2. \A u \in Workers : ~InsideRead(u) /\ ~InsideRead(u)'
      BY <1>11, <2>1
    <2>3. \A u, v \in Threads : InsideRead(u)' /\ InsideRead(v)' => u = v
      BY <2>2, ThreadsFacts
    <2>4. \A u \in Workers : pc'[u] # "socket"
      BY <2>2 DEF InsideRead
    <2>5. /\ Ascending(delivered)' /\ Older(Dues(delivered)', SlotDues(Slots)') /\ overtaken' = {}
      BY <1>1, <1>2, <1>14, <2>1 DEF AloneInv, Ascending
    <2>6. ASSUME NEW u \in Threads PROVE Older(Dues(delivered)', Dues(Held'[u]))
      <3>1. CASE u = t
        BY <1>8, <1>11, <1>14, <1>15, <1>16, <3>1 DEF Older
      <3>2. CASE u # t
        BY <1>1, <1>11, <1>14, <2>1, <3>2 DEF AloneInv
      <3> QED BY <3>1, <3>2
    <2> QED BY <1>11, <2>2, <2>3, <2>4, <2>5, <2>6 DEF AloneInv
  <1>23. OutputInv'
    BY <1>1, <1>2, OutputKept
  <1> QED BY <1>11, <1>17, <1>18, <1>19, <1>20, <1>21, <1>22, <1>23 DEF ChannelInv, BaseInv, ReadInv

\* The write index goes on: a slot for the byte, which is not there yet.
LEMMA SelectorClaims ==
  ASSUME ChannelInv, TryClaim
  PROVE  ChannelInv'
  <1> DEFINE t == Selector
             b == hand[t][1]
             n == Slot + 1
  <1>1. /\ Types /\ Flags /\ ThreadTypes /\ HandInv /\ InputInv /\ OrderInv /\ SignInv
        /\ AloneInv /\ OutputInv /\ AskedInv
    BY DEF ChannelInv, BaseInv, ReadInv
  <1>2. /\ Goes(t, "received", "storing") /\ Writeable(m_read_buffer) > 0
        /\ m_read_buffer' = AfterClaim(m_read_buffer, -b)
        /\ UNCHANGED <<received, sent, eof, m_fg, m_f, readEvent, writeEvent, hand, delivered,
                       dropped, overtaken, overlapped, wire, m_buffer, m_write_mutex, accepted,
                       asked, short>>
    BY DEF TryClaim, socket, state, events, output
  <1>3. t \in Threads /\ t \notin Workers /\ pc[t] = "received"
    BY <1>1, <1>2, ThreadsFacts, GoesFacts
  <1>4. /\ hand[t] \in Seq(Int) /\ Len(hand[t]) = 1 /\ b \in 1 .. Fresh /\ b \in Nat
        /\ Dues(hand[t]) = {b} /\ Bytes(hand[t]) = {b}
        /\ Held[t] = hand[t] /\ Storing = {}
    BY <1>3, SelectorHand
  <1>5. Due(b) = b /\ Due(-b) = b /\ -b \in Int /\ -b < 0
    <2>1. b \in Nat /\ b >= 1
      BY <1>4, InputFacts
    <2> HIDE DEF b
    <2> QED BY <2>1, DueFacts
  <1>6. /\ ThreadTypes'
        /\ pc'[t] = "storing" /\ hand'[t] = hand[t]
        /\ \A u \in Threads : u # t => pc'[u] = pc[u] /\ hand'[u] = hand[u] /\ Held'[u] = Held[u]
        /\ \A u \in Workers : /\ u \in Threads /\ u # t
                              /\ pc'[u] = pc[u] /\ hand'[u] = hand[u] /\ Held'[u] = Held[u]
                              /\ InsideRead(u)' <=> InsideRead(u)
        /\ \A u \in Threads : /\ pc'[u] = "load" <=> pc[u] = "load"
                              /\ Reads(u)' <=> Reads(u)
                              /\ Reads(u) => u # t /\ Held[u] = hand[u]
        /\ \A u \in Threads : u # t => HandDues(Held')[u] = HandDues(Held)[u]
        /\ HandDues(Held)[t] = Dues(Held[t]) /\ HandDues(Held')[t] = Dues(Held'[t])
        /\ Held'[t] = <<>> /\ Storing' = {b} /\ AskedInv'
    <2>1. "received" \in SelectorPlaces /\ "storing" \in SelectorPlaces
      BY DEF SelectorPlaces
    <2>2. hand' = [hand EXCEPT ![t] = hand[t]]
      BY <1>1, <1>2 DEF ThreadTypes
    <2>3. UNCHANGED <<accepted, asked>>
      BY <1>2
    <2> HIDE DEF b
    <2> QED BY <1>1, <1>2, <1>4, <2>1, <2>2, <2>3, SelectorStepFacts
  <1> HIDE DEF b
  <1>7. /\ WellFormed(m_read_buffer) /\ Slot \in Nat /\ m_read_buffer.r = Slot /\ Capacity \in Nat
        /\ m_read_buffer.bytes \in Seq(Int) /\ Slot < Capacity /\ Len(m_read_buffer.bytes) = Slot
        /\ m_read_buffer.cap = Capacity /\ DOMAIN m_read_buffer.bytes = 1 .. Slot
    <2>1. WellFormed(m_read_buffer) /\ Readable(m_read_buffer) = 0
      BY <1>1, <1>3 DEF Types, HandInv
    <2>2. /\ Slot \in Nat /\ m_read_buffer.r \in 0 .. Slot /\ m_read_buffer.bytes \in Seq(Int)
          /\ Readable(m_read_buffer) = Slot - m_read_buffer.r
      BY <2>1, UnreadFacts
    <2>3. Writeable(m_read_buffer) = Capacity - Slot /\ Capacity \in Nat /\ m_read_buffer.cap = Capacity
      BY <2>1, BufContent DEF Writeable, Slot
    <2> QED BY <1>2, <2>1, <2>2, <2>3, LenProperties DEF Slot
  <1>8. /\ m_read_buffer'.bytes = Append(m_read_buffer.bytes, -b)
        /\ m_read_buffer'.r = m_read_buffer.r /\ m_read_buffer'.cap = m_read_buffer.cap
    BY <1>1, <1>2 DEF AfterClaim, Types, WellFormed
  <1>9. /\ m_read_buffer'.bytes \in Seq(Int) /\ Len(m_read_buffer'.bytes) = n /\ Slot' = n
        /\ \A i \in 1 .. Slot : m_read_buffer'.bytes[i] = m_read_buffer.bytes[i]
        /\ m_read_buffer'.bytes[n] = -b
    BY <1>5, <1>7, <1>8, AppendProperties DEF Slot
  <1>10. WellFormed(m_read_buffer')
    <2>1. m_read_buffer' \in [cap : {Capacity}, r : Nat, bytes : Seq(Int)]
      BY <1>2, <1>5, <1>7, <1>8, <1>9 DEF WellFormed, AfterClaim
    <2> QED BY <1>7, <1>8, <1>9, <2>1 DEF WellFormed
  <1>11. /\ Unread \subseteq 1 .. Slot /\ DOMAIN Slots = Unread
         /\ SlotDues(Slots) = {Due(Slots[i]) : i \in Unread}
         /\ \A i \in Unread : Slots[i] = m_read_buffer.bytes[i] /\ Slots[i] \in Int
         /\ Unread = {i \in 1 .. Slot : \/ i > m_read_buffer.r
                                        \/ i = m_read_buffer.r /\ \E u \in Threads : pc[u] = "load"}
    BY <1>7, UnreadFacts
  <1>12. Unread' = Unread \cup {n}
    <2>1. DOMAIN m_read_buffer'.bytes = 1 .. n /\ 1 .. n = (1 .. Slot) \cup {n}
      BY <1>7, <1>9, LenProperties
    <2>2. Unread' = {i \in 1 .. n : \/ i > m_read_buffer.r
                                    \/ i = m_read_buffer.r /\ \E u \in Threads : pc[u] = "load"}
      BY <1>6, <1>8, <2>1 DEF Unread
    <2>3. n > m_read_buffer.r
      BY <1>7
    <2> HIDE DEF n
    <2> QED BY <1>11, <2>1, <2>2, <2>3
  <1>13. /\ \A i \in Unread : Slots'[i] = Slots[i] /\ i < n
         /\ Slots'[n] = -b /\ DOMAIN Slots' = Unread \cup {n} /\ n \notin Unread
    <2>1. Slots' = [i \in Unread' |-> m_read_buffer'.bytes[i]]
      BY DEF Slots
    <2>2. \A i \in Unread : i < n
      BY <1>7, <1>11
    <2>3. n \notin Unread
      BY <1>7, <2>2
    <2> HIDE DEF n
    <2> QED BY <1>9, <1>11, <1>12, <2>1, <2>2, <2>3
  <1>14. SlotDues(Slots)' = SlotDues(Slots) \cup {b} /\ Dues(delivered)' = Dues(delivered)
    <2>1. SlotDues(Slots)' = {Due(Slots'[i]) : i \in Unread \cup {n}}
      BY <1>13 DEF SlotDues
    <2>2. Due(Slots'[n]) = b /\ \A i \in Unread : Due(Slots'[i]) = Due(Slots[i])
      BY <1>5, <1>13
    <2> HIDE DEF n
    <2>3. {Due(Slots'[i]) : i \in Unread \cup {n}} = {Due(Slots'[i]) : i \in Unread} \cup {b}
      BY ONLY <2>2
    <2>4. {Due(Slots'[i]) : i \in Unread} = {Due(Slots[i]) : i \in Unread}
      BY ONLY <2>2
    <2> QED BY <1>2, <1>11, <2>1, <2>3, <2>4
  <1>15. n \in Nat /\ n >= 1
    BY <1>7
  <1> HIDE DEF n
  <1>16. Fresh' = Fresh
    BY <1>2 DEF Fresh
  <1>17. /\ Divided(Fresh, SlotDues(Slots), HandDues(Held), Dues(delivered), dropped)
         /\ SlotDues(Slots) \cap Dues(delivered) = {} /\ SlotDues(Slots) \cap dropped = {}
         /\ Dues(delivered) \cap dropped = {} /\ Fresh + 1 .. Fresh = {} /\ Fresh \in Nat
         /\ \A u \in Threads : /\ Dues(Held[u]) \cap SlotDues(Slots) = {}
                               /\ Dues(Held[u]) \cap Dues(delivered) = {}
                               /\ Dues(Held[u]) \cap dropped = {}
         /\ \A u, v \in Threads : u # v => Dues(Held[u]) \cap Dues(Held[v]) = {}
    BY InputFacts
  <1>18. /\ b \notin SlotDues(Slots) /\ b \notin Dues(delivered) /\ b \notin dropped
         /\ \A u \in Threads : u # t => b \notin Dues(Held[u])
    BY <1>3, <1>4, <1>17
  <1>19. Types' /\ Flags'
    BY <1>1, <1>2, <1>10 DEF Types, Flags
  <1>20. HandInv'
    <2>1. Len(hand'[t]) = 1 /\ hand'[t][1] \in 1 .. Fresh' /\ hand'[t][1] = b
      BY <1>4, <1>6, <1>16 DEF b
    <2>2. Slot' >= 1 /\ Due(m_read_buffer'.bytes[Slot']) = hand'[t][1]
      BY <1>5, <1>9, <1>15, <2>1
    <2>3. \A u \in Threads : pc'[u] = "take" => hand'[u] = <<>>
      BY <1>1, <1>6 DEF HandInv
    <2>4. \A u, v \in Threads : Reads(u)' /\ Reads(v)' => u = v
      BY <1>1, <1>6 DEF HandInv
    <2>5. \A u \in Threads : pc'[u] = "load" => m_read_buffer'.r >= 1
      BY <1>1, <1>6, <1>8 DEF HandInv
    <2> QED BY <1>6, <2>1, <2>2, <2>3, <2>4, <2>5 DEF HandInv
  <1>21. InputInv'
    <2>1. HandDues(Held)[t] = {b} /\ HandDues(Held')[t] = {}
      BY <1>4, <1>6, NoBytes
    <2>2. Divided(Fresh, SlotDues(Slots)', HandDues(Held'), Dues(delivered), dropped)
      <3> DEFINE B == SlotDues(Slots)
                 B2 == SlotDues(Slots)'
                 H == HandDues(Held)
                 H2 == HandDues(Held')
                 D == Dues(delivered)
      <3>1. /\ B2 = B \cup {b} /\ b \notin D /\ b \notin dropped
            /\ H[t] = {b} /\ H2[t] = {} /\ Fresh + 1 .. Fresh = {} /\ Fresh \in Nat
            /\ Divided(Fresh, B, H, D, dropped)
            /\ B \cap D = {} /\ B \cap dropped = {} /\ D \cap dropped = {}
            /\ \A u \in Threads : u # t => H2[u] = H[u]
        BY <1>6, <1>14, <1>17, <1>18, <2>1
      <3> HIDE DEF B, B2, H, H2, D
      <3>2. Divided(Fresh, B2, H2, D, dropped)
        BY <1>3, <3>1, MoveBytes
      <3> QED BY <3>2 DEF B2, H2, D
    <2>3. Divided(Fresh, SlotDues(Slots), HandDues(Held), Dues(delivered), dropped)'
      BY <1>2, <1>16, <2>2
    <2>4. ReceivedRuns'
      BY <1>1, <1>2, <1>16 DEF InputInv, ReceivedRuns
    <2> QED BY <1>1, <1>2, <2>3, <2>4 DEF InputInv, Distinct
  <1>22. Older(SlotDues(Slots), {b}) /\ \A u \in Threads : Reads(u) => Older(Dues(hand[u]), {b})
    BY <1>1, <1>3, <1>4 DEF OrderInv
  <1>23. OrderInv'
    <2>1. Ascending(Slots')
      <3> SUFFICES ASSUME NEW j \in Unread \cup {n}, NEW k \in Unread \cup {n}, j < k
                   PROVE  Due(Slots'[j]) < Due(Slots'[k])
        BY <1>13 DEF Ascending
      <3>1. j \in Unread
        BY <1>7, <1>11, <1>13, <1>15
      <3>2. CASE k \in Unread
        BY <1>1, <1>11, <1>13, <3>1, <3>2 DEF OrderInv, Ascending
      <3>3. CASE k = n
        BY <1>5, <1>11, <1>13, <1>22, <3>1, <3>3 DEF Older
      <3> QED BY <3>2, <3>3
    <2>2. ASSUME NEW u \in Threads PROVE Ascending(Held'[u])
      <3>1. CASE u = t
        BY <1>6, <3>1 DEF Ascending
      <3>2. CASE u # t
        BY <1>1, <1>6, <3>2 DEF OrderInv
      <3> QED BY <3>1, <3>2
    <2>3. ASSUME NEW u \in Threads, Reads(u)' PROVE Older(Dues(hand'[u]), SlotDues(Slots)')
      <3>1. Reads(u) /\ hand'[u] = hand[u]
        BY <1>6, <2>3
      <3>2. Older(Dues(hand[u]), SlotDues(Slots))
        BY <1>1, <3>1 DEF OrderInv
      <3> QED BY <1>14, <1>22, <3>1, <3>2 DEF Older
    <2> QED BY <1>6, <2>1, <2>2, <2>3 DEF OrderInv
  <1>24. b \notin overtaken
    <2>1. Faithful(b, overtaken)
      BY <1>1, <1>3, <1>4 DEF SignInv
    <2> QED BY <1>4, <1>5, <2>1 DEF Faithful
  <1>25. SignInv'
    <2>1. ASSUME NEW i \in Unread' PROVE Faithful(Slots'[i], Storing')
      <3>1. CASE i = n
        BY <1>5, <1>6, <1>13, <3>1 DEF Faithful
      <3>2. CASE i \in Unread
        <4>1. Faithful(Slots[i], {}) /\ Due(Slots[i]) # b
          BY <1>1, <1>4, <1>11, <1>18, <3>2 DEF SignInv
        <4> QED BY <1>6, <1>13, <3>2, <4>1 DEF Faithful
      <3> QED BY <1>12, <3>1, <3>2
    <2>2. ASSUME NEW u \in Threads, NEW x \in Bytes(Held'[u])
          PROVE  Faithful(x, overtaken' \cup Storing')
      <3>1. u # t
        BY <1>6, <2>2, NoBytes
      <3>2. Faithful(x, overtaken \cup {}) /\ x \in Bytes(Held[u])
        BY <1>1, <1>4, <1>6, <2>2, <3>1 DEF SignInv
      <3>3. Due(x) # b
        <4>1. Held[u] \in Seq(Int)
          BY <1>1, HeldFacts
        <4>2. Due(x) \in Dues(Held[u])
          BY <3>2, <4>1, DuesOf
        <4> QED BY <1>18, <3>1, <4>2
      <3> QED BY <1>2, <1>6, <3>2, <3>3 DEF Faithful
    <2>3. ASSUME NEW x \in Bytes(delivered') PROVE Faithful(x, overtaken' \cup Storing')
      <3>1. Faithful(x, overtaken \cup {}) /\ x \in Bytes(delivered)
        BY <1>1, <1>2, <1>4, <2>3 DEF SignInv
      <3>2. Due(x) # b
        <4>1. delivered \in Seq(Int)
          BY <1>1 DEF Types
        <4>2. Due(x) \in Dues(delivered)
          BY <3>1, <4>1, DuesOf
        <4> QED BY <1>18, <4>2
      <3> QED BY <1>2, <1>6, <3>1, <3>2 DEF Faithful
    <2>4. overtaken' \subseteq 1 .. Fresh' /\ overtaken' \cap SlotDues(Slots)' = {}
      BY <1>1, <1>2, <1>14, <1>16, <1>24 DEF SignInv
    <2> QED BY <2>1, <2>2, <2>3, <2>4 DEF SignInv
  <1>26. AloneInv'
    <2> SUFFICES ASSUME ~overlapped' PROVE AloneInv'
      BY DEF AloneInv
    <2>1. /\ \A u, v \in Threads : InsideRead(u) /\ InsideRead(v) => u = v
          /\ Ascending(delivered) /\ Older(Dues(delivered), SlotDues(Slots))
          /\ \A u \in Threads : Older(Dues(delivered), Dues(Held[u]))
          /\ overtaken = {}
      BY <1>1, <1>2 DEF AloneInv
    <2>2. InsideRead(t) /\ \A u \in Workers : ~InsideRead(u) /\ ~InsideRead(u)'
      <3>1. InsideRead(t)
        BY <1>3 DEF InsideRead
      <3> QED BY <1>3, <1>6, <2>1, <3>1
    <2>3. \A u, v \in Threads : InsideRead(u)' /\ InsideRead(v)' => u = v
      BY <2>2, ThreadsFacts
    <2>4. \A u \in Workers : pc'[u] # "socket"
      BY <2>2 DEF InsideRead
    <2>5. Ascending(delivered)' /\ overtaken' = {}
      BY <1>2, <2>1 DEF Ascending
    <2>6. Older(Dues(delivered)', SlotDues(Slots)')
      BY <1>3, <1>4, <1>14, <2>1 DEF Older
    <2>7. ASSUME NEW u \in Threads PROVE Older(Dues(delivered)', Dues(Held'[u]))
      <3>1. CASE u = t
        BY <1>6, <3>1, NoBytes DEF Older
      <3>2. CASE u # t
        BY <1>6, <1>14, <2>1, <3>2
      <3> QED BY <3>1, <3>2
    <2>8. Slot' \in Unread'
      BY <1>9, <1>12
    <2> QED BY <2>2, <2>3, <2>4, <2>5, <2>6, <2>7, <2>8 DEF AloneInv
  <1>27. OutputInv'
    BY <1>1, <1>2, OutputKept
  <1> QED BY <1>6, <1>19, <1>20, <1>21, <1>23, <1>25, <1>26, <1>27 DEF ChannelInv, BaseInv, ReadInv

\* m_read_buffer is worn out: the byte is thrown away.
LEMMA SelectorDrops ==
  ASSUME ChannelInv, TryNoRoom
  PROVE  ChannelInv'
  <1> DEFINE t == Selector
             b == hand[t][1]
  <1>1. /\ Types /\ Flags /\ ThreadTypes /\ HandInv /\ InputInv /\ OrderInv /\ SignInv
        /\ AloneInv /\ OutputInv /\ AskedInv
    BY DEF ChannelInv, BaseInv, ReadInv
  <1>2. /\ Goes(t, "received", "idle") /\ dropped' = dropped \cup Bytes(hand[t])
        /\ hand' = [hand EXCEPT ![t] = <<>>] /\ readEvent' = TRUE
        /\ UNCHANGED <<received, sent, eof, m_fg, m_f, writeEvent, m_read_buffer, delivered,
                       overtaken, overlapped, wire, m_buffer, m_write_mutex, accepted,
                       asked, short>>
    BY DEF TryNoRoom, socket, state, output
  <1>3. t \in Threads /\ t \notin Workers /\ pc[t] = "received"
    BY <1>1, <1>2, ThreadsFacts, GoesFacts
  <1>4. /\ Dues(hand[t]) = {b} /\ Bytes(hand[t]) = {b}
        /\ Held[t] = hand[t] /\ Storing = {}
    BY <1>3, SelectorHand
  <1>5. /\ ThreadTypes'
        /\ pc'[t] = "idle"
        /\ \A u \in Threads : u # t => pc'[u] = pc[u] /\ hand'[u] = hand[u] /\ Held'[u] = Held[u]
        /\ \A u \in Workers : /\ u \in Threads /\ u # t
                              /\ pc'[u] = pc[u] /\ hand'[u] = hand[u] /\ Held'[u] = Held[u]
                              /\ InsideRead(u)' <=> InsideRead(u)
        /\ \A u \in Threads : /\ pc'[u] = "load" <=> pc[u] = "load"
                              /\ Reads(u)' <=> Reads(u)
                              /\ Reads(u) => u # t /\ Held[u] = hand[u]
        /\ \A u \in Threads : u # t => HandDues(Held')[u] = HandDues(Held)[u]
        /\ HandDues(Held)[t] = Dues(Held[t]) /\ HandDues(Held')[t] = Dues(Held'[t])
        /\ Held'[t] = <<>> /\ Storing' = {} /\ AskedInv'
    <2>1. "received" \in SelectorPlaces /\ "idle" \in SelectorPlaces
      BY DEF SelectorPlaces
    <2>2. UNCHANGED <<accepted, asked>>
      BY <1>2
    <2> HIDE DEF b
    <2> QED BY <1>1, <1>2, <2>1, <2>2, NoBytes, SelectorStepFacts
  <1> HIDE DEF b
  <1>6. Unread' = Unread /\ Slots' = Slots /\ Slot' = Slot
    <2>1. Unread' = Unread
      BY <1>2, <1>5, UnreadKept
    <2> QED BY <1>2, <2>1 DEF Slots, Slot
  <1>7. SlotDues(Slots)' = SlotDues(Slots) /\ Dues(delivered)' = Dues(delivered) /\ Fresh' = Fresh
    BY <1>2, <1>6 DEF Fresh
  <1>8. Types' /\ Flags'
    BY <1>1, <1>2 DEF Types, Flags
  <1>9. HandInv'
    <2>1. \A u \in Threads : pc'[u] = "take" => hand'[u] = <<>>
      BY <1>1, <1>5 DEF HandInv
    <2>2. \A u, v \in Threads : Reads(u)' /\ Reads(v)' => u = v
      BY <1>1, <1>5 DEF HandInv
    <2>3. \A u \in Threads : pc'[u] = "load" => m_read_buffer'.r >= 1
      BY <1>1, <1>2, <1>5 DEF HandInv
    <2> QED BY <1>5, <2>1, <2>2, <2>3 DEF HandInv
  <1>10. InputInv'
    <2> DEFINE B == SlotDues(Slots)
               H == HandDues(Held)
               H2 == HandDues(Held')
               D == Dues(delivered)
    <2>1. /\ Divided(Fresh, B, H, D, dropped) /\ Fresh \in Nat /\ Fresh + 1 .. Fresh = {}
          /\ B \cap D = {} /\ B \cap dropped = {} /\ D \cap dropped = {}
          /\ Dues(Held[t]) \cap B = {} /\ Dues(Held[t]) \cap D = {}
      BY <1>3, InputFacts
    <2>2. /\ H[t] = {b} /\ H2[t] = {} /\ b \notin B /\ b \notin D
          /\ dropped' = dropped \cup {b} /\ \A u \in Threads : u # t => H2[u] = H[u]
      BY <1>2, <1>4, <1>5, <2>1, NoBytes
    <2> HIDE DEF B, H, H2, D
    <2>3. Divided(Fresh, B, H2, D, dropped')
      BY <1>3, <2>1, <2>2, MoveBytes
    <2>4. Divided(Fresh, SlotDues(Slots), HandDues(Held), Dues(delivered), dropped)'
      BY <1>2, <1>7, <2>3 DEF B, H2, D
    <2>5. ReceivedRuns'
      BY <1>1, <1>2, <1>7 DEF InputInv, ReceivedRuns
    <2> QED BY <1>1, <1>2, <2>4, <2>5 DEF InputInv, Distinct
  <1>11. OrderInv'
    <2>1. ASSUME NEW u \in Threads PROVE Ascending(Held'[u])
      <3>1. CASE u = t
        BY <1>5, <3>1 DEF Ascending
      <3>2. CASE u # t
        BY <1>1, <1>5, <3>2 DEF OrderInv
      <3> QED BY <3>1, <3>2
    <2>2. ASSUME NEW u \in Threads, Reads(u)' PROVE Older(Dues(hand'[u]), SlotDues(Slots)')
      BY <1>1, <1>5, <1>7, <2>2 DEF OrderInv
    <2> QED BY <1>1, <1>5, <1>6, <2>1, <2>2 DEF OrderInv
  <1>12. SignInv'
    <2>1. ASSUME NEW u \in Threads, NEW x \in Bytes(Held'[u])
          PROVE  Faithful(x, overtaken' \cup Storing')
      <3>1. u # t
        BY <1>5, <2>1, NoBytes
      <3> QED BY <1>1, <1>2, <1>4, <1>5, <2>1, <3>1 DEF SignInv
    <2>2. /\ \A i \in Unread' : Faithful(Slots'[i], Storing')
          /\ \A x \in Bytes(delivered') : Faithful(x, overtaken' \cup Storing')
      BY <1>1, <1>2, <1>4, <1>5, <1>6 DEF SignInv
    <2> QED BY <1>1, <1>2, <1>7, <2>1, <2>2 DEF SignInv
  <1>13. AloneInv'
    <2> SUFFICES ASSUME ~overlapped' PROVE AloneInv'
      BY DEF AloneInv
    <2>1. /\ \A u, v \in Threads : InsideRead(u) /\ InsideRead(v) => u = v
          /\ Ascending(delivered) /\ Older(Dues(delivered), SlotDues(Slots))
          /\ \A u \in Threads : Older(Dues(delivered), Dues(Held[u]))
          /\ overtaken = {}
      BY <1>1, <1>2 DEF AloneInv
    <2>2. \A u \in Workers : ~InsideRead(u) /\ ~InsideRead(u)'
      <3>1. InsideRead(t)
        BY <1>3 DEF InsideRead
      <3> QED BY <1>3, <1>5, <2>1, <3>1
    <2>3. \A u, v \in Threads : InsideRead(u)' /\ InsideRead(v)' => u = v
      BY <2>2, ThreadsFacts
    <2>4. \A u \in Workers : pc'[u] # "socket"
      BY <2>2 DEF InsideRead
    <2>5. Ascending(delivered)' /\ overtaken' = {}
      BY <1>2, <2>1 DEF Ascending
    <2>6. Older(Dues(delivered)', SlotDues(Slots)')
      BY <1>7, <2>1
    <2>7. ASSUME NEW u \in Threads PROVE Older(Dues(delivered)', Dues(Held'[u]))
      <3>1. CASE u = t
        BY <1>5, <3>1, NoBytes DEF Older
      <3>2. CASE u # t
        BY <1>5, <1>7, <2>1, <3>2
      <3> QED BY <3>1, <3>2
    <2> QED BY <1>5, <2>2, <2>3, <2>4, <2>5, <2>6, <2>7 DEF AloneInv
  <1>14. OutputInv'
    BY <1>1, <1>2, OutputKept
  <1> QED BY <1>5, <1>8, <1>9, <1>10, <1>11, <1>12, <1>13, <1>14 DEF ChannelInv, BaseInv, ReadInv

\* The byte comes into its slot, in time or too late.
LEMMA SelectorStores ==
  ASSUME ChannelInv, TryStore
  PROVE  ChannelInv'
  <1> DEFINE t == Selector
             b == hand[t][1]
             n == Slot
  <1>1. /\ Types /\ Flags /\ ThreadTypes /\ HandInv /\ InputInv /\ OrderInv /\ SignInv
        /\ AloneInv /\ OutputInv /\ AskedInv
    BY DEF ChannelInv, BaseInv, ReadInv
  <1>2. /\ Goes(t, "storing", "idle") /\ m_read_buffer' = AfterStore(m_read_buffer, b)
        /\ overtaken' = IF n \in Unread THEN overtaken ELSE overtaken \cup Bytes(hand[t])
        /\ hand' = [hand EXCEPT ![t] = <<>>] /\ readEvent' = TRUE
        /\ UNCHANGED <<received, sent, eof, m_fg, m_f, writeEvent, delivered, dropped,
                       overlapped, wire, m_buffer, m_write_mutex, accepted, asked, short>>
    BY DEF TryStore, socket, state, output, Slot
  <1>3. t \in Threads /\ t \notin Workers /\ pc[t] = "storing"
    BY <1>1, <1>2, ThreadsFacts, GoesFacts
  <1>4. /\ b \in 1 .. Fresh /\ b \in Nat /\ Bytes(hand[t]) = {b}
        /\ Held[t] = <<>> /\ Storing = {b}
    BY <1>3, SelectorHand
  <1>5. Due(b) = b /\ ~(b < 0)
    <2> HIDE DEF b
    <2> QED BY <1>4, DueFacts
  <1>6. /\ ThreadTypes'
        /\ pc'[t] = "idle"
        /\ \A u \in Threads : u # t => pc'[u] = pc[u] /\ hand'[u] = hand[u] /\ Held'[u] = Held[u]
        /\ \A u \in Workers : /\ u \in Threads /\ u # t
                              /\ pc'[u] = pc[u] /\ hand'[u] = hand[u] /\ Held'[u] = Held[u]
                              /\ InsideRead(u)' <=> InsideRead(u)
        /\ \A u \in Threads : /\ pc'[u] = "load" <=> pc[u] = "load"
                              /\ Reads(u)' <=> Reads(u)
                              /\ Reads(u) => u # t /\ Held[u] = hand[u]
        /\ Held'[t] = <<>> /\ Storing' = {} /\ AskedInv'
    <2>1. "storing" \in SelectorPlaces /\ "idle" \in SelectorPlaces
      BY DEF SelectorPlaces
    <2>2. UNCHANGED <<accepted, asked>>
      BY <1>2
    <2> HIDE DEF b, n
    <2> QED BY <1>1, <1>2, <2>1, <2>2, NoBytes, SelectorStepFacts
  <1>7. n >= 1 /\ Due(m_read_buffer.bytes[n]) = b
    BY <1>1, <1>3 DEF HandInv
  <1> HIDE DEF b
  <1>8. /\ WellFormed(m_read_buffer) /\ n \in Nat /\ m_read_buffer.r \in 0 .. n
        /\ m_read_buffer.bytes \in Seq(Int) /\ Len(m_read_buffer.bytes) = n
        /\ DOMAIN m_read_buffer.bytes = 1 .. n /\ n \in 1 .. n
        /\ Unread \subseteq 1 .. n /\ DOMAIN Slots = Unread
        /\ SlotDues(Slots) = {Due(Slots[i]) : i \in Unread}
        /\ \A i \in Unread : Slots[i] = m_read_buffer.bytes[i] /\ Slots[i] \in Int
        /\ Unread = {i \in 1 .. n : \/ i > m_read_buffer.r
                                    \/ i = m_read_buffer.r /\ \E u \in Threads : pc[u] = "load"}
    <2>1. WellFormed(m_read_buffer)
      BY <1>1 DEF Types
    <2>2. DOMAIN m_read_buffer.bytes = 1 .. n
      BY <2>1, UnreadFacts, LenProperties DEF Slot
    <2>3. n \in 1 .. n
      BY <1>7, <2>1, UnreadFacts
    <2> QED BY <2>1, <2>2, <2>3, UnreadFacts DEF Slot
  <1>9. /\ m_read_buffer'.bytes = [m_read_buffer.bytes EXCEPT ![n] = b]
        /\ m_read_buffer'.r = m_read_buffer.r /\ m_read_buffer'.cap = m_read_buffer.cap
    BY <1>1, <1>2 DEF AfterStore, Types, WellFormed, Slot
  <1>10. /\ m_read_buffer'.bytes \in Seq(Int) /\ Len(m_read_buffer'.bytes) = n /\ Slot' = n
         /\ DOMAIN m_read_buffer'.bytes = 1 .. n
         /\ \A i \in 1 .. n : m_read_buffer'.bytes[i] = IF i = n THEN b ELSE m_read_buffer.bytes[i]
    <2>1. b \in Int
      BY <1>4
    <2>2. m_read_buffer'.bytes \in Seq(Int) /\ Len(m_read_buffer'.bytes) = n
      BY <1>8, <1>9, <2>1, ExceptSeq
    <2>3. DOMAIN m_read_buffer'.bytes = 1 .. n
      BY <2>2, LenProperties
    <2>4. \A i \in 1 .. n : m_read_buffer'.bytes[i] = IF i = n THEN b ELSE m_read_buffer.bytes[i]
      BY <1>8, <1>9
    <2> QED BY <2>2, <2>3, <2>4 DEF Slot
  <1> HIDE DEF n
  <1>11. WellFormed(m_read_buffer')
    <2>1. m_read_buffer' \in [cap : {Capacity}, r : Nat, bytes : Seq(Int)]
      BY <1>2, <1>8, <1>9, <1>10 DEF WellFormed, AfterStore
    <2> QED BY <1>8, <1>9, <1>10, <2>1 DEF WellFormed
  <1>12. Unread' = Unread
    <2>1. Unread' = {i \in 1 .. n : \/ i > m_read_buffer.r
                                    \/ i = m_read_buffer.r /\ \E u \in Threads : pc[u] = "load"}
      BY <1>6, <1>9, <1>10 DEF Unread
    <2> QED BY <1>8, <2>1
  <1>13. /\ \A i \in Unread : Slots'[i] = (IF i = n THEN b ELSE Slots[i]) /\ Due(Slots'[i]) = Due(Slots[i])
         /\ DOMAIN Slots' = Unread
    <2>1. Slots' = [i \in Unread |-> m_read_buffer'.bytes[i]]
      BY <1>12 DEF Slots
    <2>2. \A i \in Unread : Slots'[i] = (IF i = n THEN b ELSE Slots[i])
      BY <1>8, <1>10, <2>1
    <2>3. \A i \in Unread : Due(Slots'[i]) = Due(Slots[i])
      BY <1>5, <1>7, <1>8, <2>2
    <2> QED BY <2>1, <2>2, <2>3
  <1>14. SlotDues(Slots)' = SlotDues(Slots) /\ Dues(delivered)' = Dues(delivered) /\ Fresh' = Fresh
    <2>1. SlotDues(Slots)' = {Due(Slots'[i]) : i \in Unread}
      BY <1>13 DEF SlotDues
    <2>2. {Due(Slots'[i]) : i \in Unread} = {Due(Slots[i]) : i \in Unread}
      BY ONLY <1>13
    <2> QED BY <1>2, <1>8, <2>1, <2>2 DEF Fresh
  <1>15. Held' = Held
    <2>1. \A u \in Threads : Held'[u] = Held[u]
      BY <1>4, <1>6
    <2> QED BY <2>1 DEF Held
  <1>16. n \notin Unread => Unread = {}
    <2> SUFFICES ASSUME n \notin Unread, NEW i \in Unread PROVE FALSE
      OBVIOUS
    <2>1. i \in 1 .. n /\ i >= m_read_buffer.r /\ i <= n /\ i # n
      BY <1>8
    <2>2. ~(n > m_read_buffer.r)
      BY <1>8
    <2> QED BY <1>8, <2>1, <2>2
  <1>17. overtaken' \cup {} = overtaken \cup {b} \/ (n \in Unread /\ overtaken' = overtaken)
    BY <1>2, <1>4
  <1>18. n \in Unread => b \in SlotDues(Slots)
    BY <1>7, <1>8
  <1>19. /\ SlotDues(Slots) \cap Dues(delivered) = {}
         /\ \A u \in Threads : Dues(Held[u]) \cap SlotDues(Slots) = {}
    BY InputFacts
  <1>20. Types' /\ Flags'
    BY <1>1, <1>2, <1>11 DEF Types, Flags
  <1>21. HandInv'
    <2>1. \A u \in Threads : pc'[u] = "take" => hand'[u] = <<>>
      BY <1>1, <1>6 DEF HandInv
    <2>2. \A u, v \in Threads : Reads(u)' /\ Reads(v)' => u = v
      BY <1>1, <1>6 DEF HandInv
    <2>3. \A u \in Threads : pc'[u] = "load" => m_read_buffer'.r >= 1
      BY <1>1, <1>6, <1>9 DEF HandInv
    <2> QED BY <1>6, <2>1, <2>2, <2>3 DEF HandInv
  <1>22. InputInv'
    <2>1. Divided(Fresh, SlotDues(Slots), HandDues(Held), Dues(delivered), dropped)'
      BY <1>1, <1>2, <1>14, <1>15 DEF InputInv
    <2>2. ReceivedRuns'
      BY <1>1, <1>2, <1>14 DEF InputInv, ReceivedRuns
    <2> QED BY <1>1, <1>2, <2>1, <2>2 DEF InputInv, Distinct
  <1>23. OrderInv'
    <2>1. Ascending(Slots')
      BY <1>1, <1>8, <1>13 DEF OrderInv, Ascending
    <2>2. ASSUME NEW u \in Threads, Reads(u)' PROVE Older(Dues(hand'[u]), SlotDues(Slots)')
      BY <1>1, <1>6, <1>14, <2>2 DEF OrderInv
    <2> QED BY <1>1, <1>6, <1>15, <2>1, <2>2 DEF OrderInv
  \* Of a byte that is in no unread slot, nothing changes but why something else stands for it.
  <1>24. ASSUME NEW x, Due(x) \notin SlotDues(Slots), Faithful(x, overtaken \cup Storing)
         PROVE  Faithful(x, overtaken' \cup Storing')
    BY <1>4, <1>6, <1>17, <1>18, <1>24 DEF Faithful
  <1>25. SignInv'
    <2>1. ASSUME NEW i \in Unread' PROVE Faithful(Slots'[i], Storing')
      <3>0. i \in Unread
        BY <1>12
      <3>1. CASE i = n
        BY <1>5, <1>6, <1>13, <3>0, <3>1 DEF Faithful
      <3>2. CASE i # n
        <4>1. Slots'[i] = Slots[i] /\ Faithful(Slots[i], {b}) /\ n \in Unread
          BY <1>1, <1>4, <1>13, <1>16, <3>0, <3>2 DEF SignInv
        <4>2. Due(Slots[i]) # b
          <5>1. Due(Slots[n]) = b
            BY <1>7, <1>8, <4>1
          <5>2. i < n
            BY <1>8, <3>0, <3>2
          <5>3. Due(Slots[i]) < Due(Slots[n])
            BY <1>1, <1>8, <3>0, <4>1, <5>2 DEF OrderInv, Ascending
          <5>4. Due(Slots[i]) \in Nat
            BY <1>8, <3>0, DueFacts
          <5> QED BY <1>4, <5>1, <5>3, <5>4
        <4> QED BY <1>6, <4>1, <4>2 DEF Faithful
      <3> QED BY <3>1, <3>2
    <2>2. ASSUME NEW u \in Threads, NEW x \in Bytes(Held'[u])
          PROVE  Faithful(x, overtaken' \cup Storing')
      <3>1. Faithful(x, overtaken \cup Storing) /\ x \in Bytes(Held[u]) /\ Held[u] \in Seq(Int)
        BY <1>1, <1>15, <2>2, HeldFacts DEF SignInv
      <3>2. Due(x) \in Dues(Held[u])
        BY <3>1, DuesOf
      <3> QED BY <1>19, <1>24, <3>1, <3>2
    <2>3. ASSUME NEW x \in Bytes(delivered') PROVE Faithful(x, overtaken' \cup Storing')
      <3>1. Faithful(x, overtaken \cup Storing) /\ x \in Bytes(delivered) /\ delivered \in Seq(Int)
        BY <1>1, <1>2, <2>3 DEF SignInv, Types
      <3>2. Due(x) \in Dues(delivered)
        BY <3>1, DuesOf
      <3> QED BY <1>19, <1>24, <3>1, <3>2
    <2>4. overtaken' \subseteq 1 .. Fresh'
      BY <1>1, <1>2, <1>4, <1>14 DEF SignInv
    <2>5. overtaken' \cap SlotDues(Slots)' = {}
      <3>1. CASE n \in Unread
        BY <1>1, <1>2, <1>14, <3>1 DEF SignInv
      <3>2. CASE n \notin Unread
        BY <1>8, <1>14, <1>16, <3>2
      <3> QED BY <3>1, <3>2
    <2> QED BY <2>1, <2>2, <2>3, <2>4, <2>5 DEF SignInv
  <1>26. AloneInv'
    <2> SUFFICES ASSUME ~overlapped' PROVE AloneInv'
      BY DEF AloneInv
    <2>1. /\ \A u, v \in Threads : InsideRead(u) /\ InsideRead(v) => u = v
          /\ Ascending(delivered) /\ Older(Dues(delivered), SlotDues(Slots))
          /\ \A u \in Threads : Older(Dues(delivered), Dues(Held[u]))
          /\ overtaken = {} /\ n \in Unread
      BY <1>1, <1>2, <1>3 DEF AloneInv, n
    <2>2. \A u \in Workers : ~InsideRead(u) /\ ~InsideRead(u)'
      <3>1. InsideRead(t)
        BY <1>3 DEF InsideRead
      <3> QED BY <1>3, <1>6, <2>1, <3>1
    <2>3. \A u, v \in Threads : InsideRead(u)' /\ InsideRead(v)' => u = v
      BY <2>2, ThreadsFacts
    <2>4. \A u \in Workers : pc'[u] # "socket"
      BY <2>2 DEF InsideRead
    <2>5. Ascending(delivered)' /\ overtaken' = {}
      BY <1>2, <2>1 DEF Ascending
    <2>6. Older(Dues(delivered)', SlotDues(Slots)')
      BY <1>14, <2>1
    <2>7. \A u \in Threads : Older(Dues(delivered)', Dues(Held'[u]))
      BY <1>14, <1>15, <2>1
    <2> QED BY <1>6, <2>2, <2>3, <2>4, <2>5, <2>6, <2>7 DEF AloneInv
  <1>27. OutputInv'
    BY <1>1, <1>2, OutputKept
  <1> QED BY <1>6, <1>20, <1>21, <1>22, <1>23, <1>25, <1>26, <1>27 DEF ChannelInv, BaseInv, ReadInv


--------------------------------------------------------------------------------
\* A worker takes a byte out of its slot

\* A step of a worker: the other threads stay where they are, with what they have.
LEMMA WorkerStepFacts ==
  ASSUME ChannelInv, NEW t \in Workers, NEW from, NEW to \in Outside \cup Inside,
         Goes(t, from, to), NEW s \in Seq(Int), hand' = [hand EXCEPT ![t] = s]
  PROVE  /\ ThreadTypes' /\ Storing' = Storing
         /\ t \in Threads /\ t # Selector
         /\ pc[t] = from /\ pc'[t] = to /\ hand'[t] = s
         /\ pc'[Selector] = pc[Selector] /\ hand'[Selector] = hand[Selector]
         /\ \A u \in Threads : u # t => /\ pc'[u] = pc[u] /\ hand'[u] = hand[u]
                                        /\ Held'[u] = Held[u]
                                        /\ HandDues(Held')[u] = HandDues(Held)[u]
                                        /\ InsideRead(u)' <=> InsideRead(u)
                                        /\ Reads(u)' <=> Reads(u)
         /\ HandDues(Held)[t] = Dues(Held[t]) /\ HandDues(Held')[t] = Dues(Held'[t])
         /\ Held[t] = (IF from \in Inside THEN hand[t] ELSE <<>>)
         /\ Held'[t] = (IF to \in Inside THEN s ELSE <<>>)
  <1>1. ThreadTypes /\ t \in Threads /\ t # Selector /\ Selector \in Threads
    BY ThreadsFacts DEF ChannelInv, BaseInv
  <1>2. pc[t] = from /\ pc'[t] = to /\ \A u \in Threads : u # t => pc'[u] = pc[u]
    BY <1>1, GoesFacts
  <1>3. hand'[t] = s /\ \A u \in Threads : u # t => hand'[u] = hand[u]
    BY <1>1, HandFacts
  <1>4. ThreadTypes'
    <2>1. hand' \in [Threads -> Seq(Int)]
      BY <1>1 DEF ThreadTypes
    <2> QED BY <1>1, <2>1, WorkerTypes
  <1>5. Others(t)
    BY <1>2, <1>3 DEF Others
  <1>6. Storing' = Storing
    BY <1>1, <1>2, <1>3 DEF Storing
  <1>7. Held[t] = IF from \in Inside THEN hand[t] ELSE <<>>
    BY <1>1, <1>2, HeldFacts, InsideFacts
  <1>8. Held'[t] = IF to \in Inside THEN s ELSE <<>>
    <2>1. Held'[t] = IF InsideRead(t)' /\ pc'[t] # "storing" THEN hand'[t] ELSE <<>>
      BY <1>1 DEF Held
    <2>2. InsideRead(t)' <=> to \in Inside
      BY <1>2 DEF InsideRead, Inside, Outside
    <2>3. to # "storing"
      BY DEF Inside, Outside
    <2> QED BY <1>2, <1>3, <2>1, <2>2, <2>3
  <1>9. HandDues(Held)[t] = Dues(Held[t]) /\ HandDues(Held')[t] = Dues(Held'[t])
    BY <1>1 DEF HandDues
  <1> QED BY <1>1, <1>2, <1>3, <1>4, <1>5, <1>6, <1>7, <1>8, <1>9, OthersKept

LEMMA WorkerLoads ==
  ASSUME ChannelInv, NEW t \in Workers, ReadLoad(t)
  PROVE  ChannelInv'
  <1> DEFINE r == m_read_buffer.r
             x == m_read_buffer.bytes[r]
             e == Due(x)
             s == Append(hand[t], x)
  <1>1. /\ Types /\ Flags /\ ThreadTypes /\ HandInv /\ InputInv /\ OrderInv /\ SignInv
        /\ AloneInv /\ OutputInv /\ AskedInv
    BY DEF ChannelInv, BaseInv, ReadInv
  <1>2. /\ Goes(t, "load", "more") /\ hand' = [hand EXCEPT ![t] = s]
        /\ UNCHANGED <<received, sent, eof, m_fg, m_f, readEvent, writeEvent, m_read_buffer,
                       delivered, dropped, overtaken, overlapped, wire, m_buffer, m_write_mutex,
                       accepted, asked, short>>
    <2>1. hand' = [hand EXCEPT ![t] = s]
      BY <1>1, ThreadsFacts DEF ReadLoad, ThreadTypes
    <2> QED BY <2>1 DEF ReadLoad, socket, state, events, output
  <1>3. t \in Threads /\ pc[t] = "load" /\ hand[t] \in Seq(Int)
    BY <1>1, <1>2, ThreadsFacts, GoesFacts, HeldFacts
  <1>4. /\ WellFormed(m_read_buffer) /\ Slot \in Nat /\ r \in Nat /\ r >= 1 /\ r <= Slot
        /\ Unread \subseteq 1 .. Slot /\ DOMAIN Slots = Unread
        /\ SlotDues(Slots) = {Due(Slots[i]) : i \in Unread}
        /\ \A i \in Unread : Slots[i] = m_read_buffer.bytes[i] /\ Slots[i] \in Int
        /\ Unread = {i \in 1 .. Slot : \/ i > r
                                       \/ i = r /\ \E u \in Threads : pc[u] = "load"}
        /\ DOMAIN m_read_buffer.bytes = 1 .. Slot
    <2>1. WellFormed(m_read_buffer) /\ r >= 1
      BY <1>1, <1>3 DEF Types, HandInv
    <2>2. DOMAIN m_read_buffer.bytes = 1 .. Slot
      BY <2>1, UnreadFacts, LenProperties DEF Slot
    <2> QED BY <2>1, <2>2, UnreadFacts
  <1>5. r \in Unread /\ Slots[r] = x /\ x \in Int /\ e \in Nat
    <2>1. r \in 1 .. Slot
      BY <1>4
    <2>2. r \in Unread
      BY <1>3, <1>4, <2>1
    <2>3. Slots[r] = x /\ x \in Int
      BY <1>4, <2>2
    <2> HIDE DEF x
    <2> QED BY <2>2, <2>3, DueFacts
  <1>6. s \in Seq(Int) /\ s = hand[t] \o <<x>> /\ <<x>> \in Seq(Int) /\ Len(<<x>>) = 1 /\ <<x>>[1] = x
    <2> HIDE DEF x
    <2> QED BY <1>3, <1>5, AppendProperties
  <1> HIDE DEF x, s
  <1>7. Dues(<<x>>) = {e} /\ Bytes(<<x>>) = {x} /\ Ascending(<<x>>)
    <2>1. Len(<<x>>) <= 1
      BY <1>6
    <2> QED BY <1>6, <2>1, DuesOf, BytesOf, AscendingSeq
  <1> HIDE DEF e
  <1>8. Dues(s) = Dues(hand[t]) \cup {e} /\ Bytes(s) = Bytes(hand[t]) \cup {x}
    <2>1. Dues(hand[t] \o <<x>>) = Dues(hand[t]) \cup Dues(<<x>>)
      BY ONLY <1>3, <1>6, ConcatDues
    <2>2. Bytes(hand[t] \o <<x>>) = Bytes(hand[t]) \cup Bytes(<<x>>)
      BY ONLY <1>3, <1>6, ConcatBytes
    <2> QED BY ONLY <1>6, <1>7, <2>1, <2>2
  <1>9. /\ ThreadTypes' /\ Storing' = Storing
        /\ pc'[t] = "more" /\ hand'[t] = s /\ t # Selector /\ t \in Threads
        /\ pc'[Selector] = pc[Selector] /\ hand'[Selector] = hand[Selector]
        /\ \A u \in Threads : u # t => /\ pc'[u] = pc[u] /\ hand'[u] = hand[u]
                                       /\ Held'[u] = Held[u]
                                       /\ HandDues(Held')[u] = HandDues(Held)[u]
                                       /\ InsideRead(u)' <=> InsideRead(u)
                                       /\ Reads(u)' <=> Reads(u)
        /\ HandDues(Held)[t] = Dues(Held[t]) /\ HandDues(Held')[t] = Dues(Held'[t])
        /\ Held[t] = hand[t] /\ Held'[t] = s
    <2>1. "load" \in Inside /\ "more" \in Inside
      BY DEF Inside
    <2> QED BY <1>2, <1>6, <2>1, WorkerStepFacts
  <1>10. Reads(t) /\ Reads(t)' /\ InsideRead(t) /\ InsideRead(t)'
         /\ \A u \in Threads : Reads(u) => u = t
    BY <1>1, <1>3, <1>9 DEF Reads, InsideRead, HandInv
  <1>11. \A u \in Threads : pc'[u] # "load"
    BY <1>9, <1>10 DEF Reads
  <1>12. /\ Unread' = {i \in 1 .. Slot : i > r} /\ Unread' = Unread \ {r}
         /\ \A i \in Unread' : i \in Unread /\ r < i
    <2>1. Unread' = {i \in 1 .. Slot : i > r}
      BY <1>2, <1>4, <1>11 DEF Unread, Slot
    <2>2. \A i \in 1 .. Slot : i > r <=> (i > r \/ (i = r /\ \E u \in Threads : pc[u] = "load")) /\ i # r
      BY <1>4
    <2>3. Unread' = Unread \ {r}
      BY <1>4, <2>1, <2>2
    <2> QED BY <2>1, <2>3
  <1>13. DOMAIN Slots' = Unread' /\ \A i \in Unread' : Slots'[i] = Slots[i]
    <2>1. Slots' = [i \in Unread' |-> m_read_buffer.bytes[i]]
      BY <1>2 DEF Slots
    <2> QED BY <1>4, <1>12, <2>1
  <1>14. /\ SlotDues(Slots)' = {Due(Slots[i]) : i \in Unread'}
         /\ SlotDues(Slots)' \subseteq SlotDues(Slots) /\ e \in SlotDues(Slots)
         /\ SlotDues(Slots) = SlotDues(Slots)' \cup {e}
    <2>1. SlotDues(Slots)' = {Due(Slots'[i]) : i \in Unread'}
      BY <1>13 DEF SlotDues
    <2>2. {Due(Slots'[i]) : i \in Unread'} = {Due(Slots[i]) : i \in Unread'}
      BY ONLY <1>13
    <2>3. Unread = Unread' \cup {r}
      BY <1>5, <1>12
    <2>4. {Due(Slots[i]) : i \in Unread} = {Due(Slots[i]) : i \in Unread'} \cup {Due(Slots[r])}
      BY ONLY <2>3
    <2>5. Due(Slots[r]) = e
      BY <1>5 DEF e
    <2> QED BY <1>4, <2>1, <2>2, <2>4, <2>5
  <1>15. Older({e}, SlotDues(Slots)')
    <2> SUFFICES ASSUME NEW i \in Unread' PROVE e < Due(Slots[i])
      BY <1>14 DEF Older
    <2>1. r \in DOMAIN Slots /\ i \in DOMAIN Slots /\ r < i
      BY <1>4, <1>5, <1>12
    <2>2. Due(Slots[r]) < Due(Slots[i])
      BY <1>1, <2>1 DEF OrderInv, Ascending
    <2> QED BY <1>5, <2>2 DEF e
  <1>16. e \notin SlotDues(Slots)'
    BY <1>5, <1>15 DEF Older
  <1>17. Fresh' = Fresh /\ Dues(delivered)' = Dues(delivered)
    BY <1>2 DEF Fresh
  <1>18. /\ Divided(Fresh, SlotDues(Slots), HandDues(Held), Dues(delivered), dropped)
         /\ SlotDues(Slots) \cap Dues(delivered) = {} /\ SlotDues(Slots) \cap dropped = {}
         /\ Dues(delivered) \cap dropped = {} /\ Fresh + 1 .. Fresh = {} /\ Fresh \in Nat
         /\ Dues(hand[t]) \cap SlotDues(Slots) = {}
         /\ Dues(hand[t]) \cap Dues(delivered) = {}
         /\ Dues(hand[t]) \cap dropped = {}
    BY <1>9, InputFacts
  <1>19. Types' /\ Flags'
    BY <1>1, <1>2 DEF Types, Flags
  <1>20. HandInv'
    <2>1. /\ pc'[Selector] \in {"received", "storing"} =>
                Len(hand'[Selector]) = 1 /\ hand'[Selector][1] \in 1 .. Fresh'
          /\ pc'[Selector] = "received" => Readable(m_read_buffer)' = 0
          /\ pc'[Selector] = "storing" =>
                Slot' >= 1 /\ Due(m_read_buffer'.bytes[Slot']) = hand'[Selector][1]
      BY <1>1, <1>2, <1>9, <1>17 DEF HandInv, Slot
    <2>2. \A u \in Threads : pc'[u] = "take" => hand'[u] = <<>>
      BY <1>1, <1>9 DEF HandInv
    <2>3. \A u, v \in Threads : Reads(u)' /\ Reads(v)' => u = v
      BY <1>9, <1>10
    <2> QED BY <1>11, <2>1, <2>2, <2>3 DEF HandInv
  <1>21. InputInv'
    <2> DEFINE B == SlotDues(Slots)
               B2 == SlotDues(Slots)'
               H == HandDues(Held)
               H2 == HandDues(Held')
               D == Dues(delivered)
    <2>1. /\ Divided(Fresh, B, H, D, dropped) /\ Fresh \in Nat /\ Fresh + 1 .. Fresh = {}
          /\ B = B2 \cup {e} /\ e \notin B2 /\ H2[t] = H[t] \cup {e}
          /\ B \cap D = {} /\ B \cap dropped = {} /\ D \cap dropped = {}
          /\ H[t] \cap B = {} /\ H[t] \cap D = {} /\ H[t] \cap dropped = {}
          /\ \A u \in Threads : u # t => H2[u] = H[u]
      BY <1>8, <1>9, <1>14, <1>16, <1>18
    <2> HIDE DEF B, B2, H, H2, D
    <2>2. Divided(Fresh, B2, H2, D, dropped)
      BY <1>3, <2>1, MoveBytes
    <2>3. Divided(Fresh, SlotDues(Slots), HandDues(Held), Dues(delivered), dropped)'
      BY <1>2, <1>17, <2>2 DEF B2, H2, D
    <2>4. ReceivedRuns'
      BY <1>1, <1>2, <1>17 DEF InputInv, ReceivedRuns
    <2> QED BY <1>1, <1>2, <2>3, <2>4 DEF InputInv, Distinct
  <1>22. Older(Dues(hand[t]), SlotDues(Slots))
    BY <1>1, <1>10, <1>3 DEF OrderInv
  <1>23. Older(Dues(s), SlotDues(Slots)')
    BY <1>8, <1>14, <1>15, <1>22 DEF Older
  <1>24. OrderInv'
    <2>1. Ascending(Slots')
      BY <1>1, <1>4, <1>12, <1>13 DEF OrderInv, Ascending
    <2>2. Ascending(s)
      <3>1. Ascending(hand[t])
        BY <1>1, <1>3, <1>9 DEF OrderInv
      <3>2. Older(Dues(hand[t]), Dues(<<x>>))
        BY <1>7, <1>14, <1>22 DEF Older
      <3> QED BY <1>3, <1>6, <1>7, <3>1, <3>2, JoinAscending
    <2>3. ASSUME NEW u \in Threads PROVE Ascending(Held'[u])
      <3>1. CASE u = t
        BY <1>9, <2>2, <3>1
      <3>2. CASE u # t
        BY <1>1, <1>9, <3>2 DEF OrderInv
      <3> QED BY <3>1, <3>2
    <2>4. ASSUME NEW u \in Threads, Reads(u)' PROVE u = t
      BY <1>9, <1>10, <2>4
    <2>5. pc'[Selector] = "received" =>
             /\ Older(SlotDues(Slots)', Dues(hand'[Selector]))
             /\ Older(Dues(s), Dues(hand'[Selector]))
      <3> SUFFICES ASSUME pc[Selector] = "received"
                   PROVE  /\ Older(SlotDues(Slots)', Dues(hand[Selector]))
                          /\ Older(Dues(s), Dues(hand[Selector]))
        BY <1>9
      <3>1. Older(SlotDues(Slots), Dues(hand[Selector])) /\ Older(Dues(hand[t]), Dues(hand[Selector]))
        BY <1>1, <1>3, <1>10 DEF OrderInv
      <3> QED BY <1>8, <1>14, <3>1 DEF Older
    <2> QED BY <1>9, <1>23, <2>1, <2>3, <2>4, <2>5 DEF OrderInv
  <1>25. SignInv'
    <2>1. ASSUME NEW i \in Unread' PROVE Faithful(Slots'[i], Storing')
      BY <1>1, <1>9, <1>12, <1>13 DEF SignInv
    <2>2. Faithful(x, overtaken \cup Storing)
      <3>1. Faithful(x, Storing)
        BY <1>1, <1>5 DEF SignInv
      <3>2. e \notin overtaken
        BY <1>1, <1>14 DEF SignInv
      <3> QED BY <3>1, <3>2 DEF Faithful, e
    <2>3. ASSUME NEW u \in Threads, NEW y \in Bytes(Held'[u])
          PROVE  Faithful(y, overtaken' \cup Storing')
      <3>1. y \in Bytes(Held[u]) \/ y = x
        BY <1>8, <1>9, <2>3
      <3>2. y \in Bytes(Held[u]) => Faithful(y, overtaken \cup Storing)
        BY <1>1 DEF SignInv
      <3> QED BY <1>2, <1>9, <2>2, <3>1, <3>2
    <2>4. \A y \in Bytes(delivered') : Faithful(y, overtaken' \cup Storing')
      BY <1>1, <1>2, <1>9 DEF SignInv
    <2>5. overtaken' \subseteq 1 .. Fresh' /\ overtaken' \cap SlotDues(Slots)' = {}
      BY <1>1, <1>2, <1>14, <1>17 DEF SignInv
    <2> QED BY <2>1, <2>3, <2>4, <2>5 DEF SignInv
  <1>26. AloneInv'
    <2> SUFFICES ASSUME ~overlapped' PROVE AloneInv'
      BY DEF AloneInv
    <2>1. /\ \A u, v \in Threads : InsideRead(u) /\ InsideRead(v) => u = v
          /\ Ascending(delivered) /\ Older(Dues(delivered), SlotDues(Slots))
          /\ \A u \in Threads : Older(Dues(delivered), Dues(Held[u]))
          /\ overtaken = {}
      BY <1>1, <1>2 DEF AloneInv
    <2>2. \A u \in Threads : InsideRead(u) \/ InsideRead(u)' => u = t
      BY <1>9, <1>10, <2>1
    <2>3. \A u \in Workers : InsideRead(u)' => Older(Dues(hand'[u]), SlotDues(Slots)')
      BY <1>9, <1>23, <2>2, ThreadsFacts
    <2>4. \A u \in Workers : pc'[u] # "socket"
      <3> SUFFICES ASSUME NEW u \in Workers, pc'[u] = "socket" PROVE FALSE
        OBVIOUS
      <3>1. u \in Threads /\ InsideRead(u)'
        BY ThreadsFacts DEF InsideRead
      <3> QED BY <1>9, <2>2, <3>1
    <2>5. Ascending(delivered)' /\ overtaken' = {}
      BY <1>2, <2>1 DEF Ascending
    <2>6. Older(Dues(delivered)', SlotDues(Slots)')
      BY <1>14, <1>17, <2>1 DEF Older
    <2>7. ASSUME NEW u \in Threads PROVE Older(Dues(delivered)', Dues(Held'[u]))
      <3>1. CASE u = t
        <4>1. Older(Dues(delivered), Dues(hand[t])) /\ Older(Dues(delivered), SlotDues(Slots))
          BY <1>3, <1>9, <2>1
        <4> QED BY <1>8, <1>9, <1>14, <1>17, <3>1, <4>1 DEF Older
      <3>2. CASE u # t
        BY <1>9, <1>17, <2>1, <3>2
      <3> QED BY <3>1, <3>2
    <2>8. pc'[Selector] # "storing"
      <3> SUFFICES ASSUME pc[Selector] = "storing" PROVE FALSE
        BY <1>9
      <3>1. InsideRead(Selector) /\ Selector \in Threads
        BY ThreadsFacts DEF InsideRead
      <3> QED BY <1>9, <2>2, <3>1
    <2> QED BY <2>2, <2>3, <2>4, <2>5, <2>6, <2>7, <2>8 DEF AloneInv
  <1>27. OutputInv' /\ AskedInv'
    <2>1. \A u \in Threads : pc'[u] \in {"flushFirst", "write"} =>
                                pc[u] \in {"flushFirst", "write"} /\ hand'[u] = hand[u]
      BY <1>9
    <2> QED BY <1>1, <1>2, <2>1, OutputKept, AskedKept
  <1> QED BY <1>9, <1>19, <1>20, <1>21, <1>24, <1>25, <1>26, <1>27 DEF ChannelInv, BaseInv, ReadInv

--------------------------------------------------------------------------------
\* The end of a read()

\* r is s without its first n bytes; what is in s stands for what it should.
Rest(s, n, r) ==
    /\ r \in Seq(Int) /\ Len(r) = Len(s) - n
    /\ \A i \in 1 .. Len(s) - n : r[i] = s[n + i]
AllFaithful(s) == \A y \in Bytes(s) : Faithful(y, overtaken \cup Storing)

\* Thread t takes n bytes off the socket, passes d to the pipeline and throws x away.
LEMMA ReadEnds ==
  ASSUME ChannelInv, NEW t \in Workers, NEW from \in {"check", "socket"},
         Goes(t, from, "idle"), hand' = [hand EXCEPT ![t] = <<>>],
         NEW n \in 0 .. Len(received), n = 0 \/ from = "socket", Rest(received, n, received'),
         NEW d \in Seq(Int), delivered' = delivered \o d, Ascending(d),
         AllFaithful(d),
         NEW x, dropped' = dropped \cup x,
         Dues(d) \cup x = Dues(hand[t]) \cup (Fresh + 1 .. Fresh + n), Dues(d) \cap x = {},
         m_f' \in {"connected", "closed"},
         UNCHANGED <<sent, eof, m_fg, events, m_read_buffer, overtaken, overlapped, output>>
  PROVE  ChannelInv'
  <1> DEFINE new == Fresh + 1 .. Fresh + n
             h == Dues(hand[t])
             D == Dues(delivered)
             B == SlotDues(Slots)
  <1>1. /\ Types /\ Flags /\ ThreadTypes /\ HandInv /\ InputInv /\ OrderInv /\ SignInv
        /\ AloneInv /\ OutputInv /\ AskedInv
    BY DEF ChannelInv, BaseInv, ReadInv
  <1>2. UNCHANGED <<readEvent, writeEvent, wire, m_buffer, m_write_mutex, accepted, asked, short>>
    BY DEF events, output
  <1>3. /\ ThreadTypes' /\ Storing' = Storing
        /\ t \in Threads /\ t # Selector
        /\ pc[t] = from /\ pc'[t] = "idle" /\ hand'[t] = <<>>
        /\ pc'[Selector] = pc[Selector] /\ hand'[Selector] = hand[Selector]
        /\ \A u \in Threads : u # t => /\ pc'[u] = pc[u] /\ hand'[u] = hand[u]
                                       /\ Held'[u] = Held[u]
                                       /\ HandDues(Held')[u] = HandDues(Held)[u]
                                       /\ InsideRead(u)' <=> InsideRead(u)
                                       /\ Reads(u)' <=> Reads(u)
        /\ HandDues(Held)[t] = Dues(Held[t]) /\ HandDues(Held')[t] = Dues(Held'[t])
        /\ Held[t] = hand[t] /\ Held'[t] = <<>>
    <2>1. from \in Inside /\ "idle" \in Outside /\ "idle" \notin Inside
      BY DEF Inside, Outside
    <2> QED BY <2>1, NoBytes, WorkerStepFacts
  <1>4. InsideRead(t) /\ ~InsideRead(t)' /\ ~Reads(t)' /\ pc[t] # "load"
    BY <1>3 DEF InsideRead, Reads
  <1>5. Unread' = Unread /\ Slots' = Slots /\ Slot' = Slot
    <2>1. \A u \in Threads : pc'[u] = "load" <=> pc[u] = "load"
      BY <1>3, <1>4
    <2>2. Unread' = Unread
      BY <2>1, UnreadKept
    <2> QED BY <2>2 DEF Slots, Slot
  <1>6. /\ delivered' \in Seq(Int) /\ delivered \in Seq(Int)
        /\ Bytes(delivered') = Bytes(delivered) \cup Bytes(d)
        /\ Dues(delivered') = D \cup Dues(d)
    <2>1. delivered \in Seq(Int)
      BY <1>1 DEF Types
    <2>2. /\ delivered \o d \in Seq(Int) /\ Bytes(delivered \o d) = Bytes(delivered) \cup Bytes(d)
          /\ Dues(delivered \o d) = Dues(delivered) \cup Dues(d)
      BY <2>1, ConcatBytes, ConcatDues
    <2> QED BY <2>1, <2>2
  <1>7. /\ Fresh \in Nat /\ Len(received) \in Nat /\ sent = Fresh + Len(received)
        /\ Divided(Fresh, B, HandDues(Held), D, dropped)
        /\ B \subseteq 1 .. Fresh /\ D \subseteq 1 .. Fresh
        /\ dropped \subseteq 1 .. Fresh /\ h \subseteq 1 .. Fresh
        /\ B \cap D = {} /\ B \cap dropped = {} /\ D \cap dropped = {}
        /\ h \cap B = {} /\ h \cap D = {} /\ h \cap dropped = {}
    BY <1>3, InputFacts
  <1>8. n \in Nat /\ n <= Len(received) /\ Fresh' = Fresh + n /\ Fresh + n \in Nat
    BY <1>7 DEF Fresh, Rest
  <1>9. new \cap (1 .. Fresh) = {} /\ 1 .. Fresh \subseteq 1 .. Fresh'
    BY <1>7, <1>8
  <1>10. (Dues(d) \cup x) \cap (D \cup dropped \cup B) = {}
    <2> HIDE DEF new, D, B, h
    <2>1. Dues(d) \cup x = h \cup new
      BY DEF h, new
    <2> QED BY <1>7, <1>9, <2>1
  <1>11. Types'
    BY <1>1, <1>2, <1>6 DEF Types, Rest
  <1>12. Flags'
    BY <1>1, <1>2 DEF Flags
  <1>13. HandInv'
    <2>1. /\ pc'[Selector] \in {"received", "storing"} =>
                Len(hand'[Selector]) = 1 /\ hand'[Selector][1] \in 1 .. Fresh'
          /\ pc'[Selector] = "received" => Readable(m_read_buffer)' = 0
          /\ pc'[Selector] = "storing" =>
                Slot' >= 1 /\ Due(m_read_buffer'.bytes[Slot']) = hand'[Selector][1]
      BY <1>1, <1>3, <1>5, <1>9 DEF HandInv
    <2>2. \A u \in Threads : pc'[u] = "take" => hand'[u] = <<>>
      BY <1>1, <1>3 DEF HandInv
    <2>3. \A u, v \in Threads : Reads(u)' /\ Reads(v)' => u = v
      BY <1>1, <1>3, <1>4 DEF HandInv
    <2>4. \A u \in Threads : pc'[u] = "load" => m_read_buffer'.r >= 1
      BY <1>1, <1>3 DEF HandInv
    <2> QED BY <2>1, <2>2, <2>3, <2>4 DEF HandInv
  <1>14. InputInv'
    <2> DEFINE H == HandDues(Held)
               H2 == HandDues(Held')
               D2 == Dues(delivered')
    <2>1. /\ H[t] = h /\ H2[t] = {} /\ D2 = D \cup Dues(d)
          /\ \A u \in Threads : u # t => H2[u] = H[u]
          /\ Divided(Fresh, B, H, D, dropped)
          /\ Dues(d) \cup x = h \cup new
      BY <1>3, <1>6, <1>7, NoBytes
    <2>2. Divided(Fresh + n, B, H2, D2, dropped')
      <3> HIDE DEF B, H, H2, D, D2, h, new
      <3>1. /\ B \cup H2[t] \cup D2 \cup dropped' = B \cup H[t] \cup D \cup dropped \cup new
            /\ B \cap H2[t] = {} /\ B \cap D2 = {} /\ B \cap dropped' = {}
            /\ H2[t] \cap D2 = {} /\ H2[t] \cap dropped' = {} /\ D2 \cap dropped' = {}
        BY <1>7, <1>10, <2>1
      <3>2. Fresh <= Fresh + n
        BY <1>7, <1>8
      <3> QED BY ONLY <1>3, <1>7, <1>8, <2>1, <3>1, <3>2, MoveBytes DEF new
    <2>3. Divided(Fresh, SlotDues(Slots), HandDues(Held), Dues(delivered), dropped)'
      BY <1>5, <1>8, <2>2
    <2>4. ReceivedRuns'
      <3>1. Len(received') <= sent' /\ Len(received') = Len(received) - n
        BY <1>7, <1>8 DEF Rest
      <3>2. ASSUME NEW i \in 1 .. Len(received') PROVE received'[i] = Fresh' + i
        <4>1. i \in 1 .. Len(received) - n /\ n + i \in 1 .. Len(received)
          BY <1>7, <1>8, <3>1
        <4>2. received[n + i] = Fresh + (n + i)
          BY <1>1, <4>1 DEF InputInv, ReceivedRuns
        <4> QED BY <1>7, <1>8, <4>1, <4>2 DEF Rest
      <3> QED BY <3>1, <3>2 DEF ReceivedRuns
    <2>5. Distinct(delivered')
      <3>1. Distinct(delivered) /\ Distinct(d)
        BY <1>1, AscendingIsDistinct DEF InputInv
      <3>2. Dues(delivered) \cap Dues(d) = {}
        BY <1>10
      <3>3. Distinct(delivered \o d)
        BY ONLY <1>6, <3>1, <3>2, d \in Seq(Int), JoinDistinct
      <3> QED BY <3>3
    <2> QED BY <2>3, <2>4, <2>5 DEF InputInv, Distinct
  <1>15. OrderInv'
    <2>1. ASSUME NEW u \in Threads PROVE Ascending(Held'[u])
      <3>1. CASE u = t
        BY <1>3, <3>1 DEF Ascending
      <3>2. CASE u # t
        BY <1>1, <1>3, <3>2 DEF OrderInv
      <3> QED BY <3>1, <3>2
    <2>2. ASSUME NEW u \in Threads, Reads(u)'
          PROVE  Reads(u) /\ hand'[u] = hand[u]
      BY <1>3, <1>4, <2>2
    <2>3. SlotDues(Slots)' = SlotDues(Slots) /\ Ascending(Slots')
      BY <1>1, <1>5 DEF OrderInv
    <2>4. ASSUME NEW u \in Threads, Reads(u)'
          PROVE  /\ Older(Dues(hand'[u]), SlotDues(Slots)')
                 /\ pc'[Selector] = "received" => Older(Dues(hand'[u]), Dues(hand'[Selector]))
      BY <1>1, <1>3, <2>2, <2>3, <2>4 DEF OrderInv
    <2>5. pc'[Selector] = "received" => Older(SlotDues(Slots)', Dues(hand'[Selector]))
      BY <1>1, <1>3, <2>3 DEF OrderInv
    <2> QED BY <2>1, <2>3, <2>4, <2>5 DEF OrderInv
  <1>16. SignInv'
    <2>1. ASSUME NEW u \in Threads, NEW y \in Bytes(Held'[u])
          PROVE  Faithful(y, overtaken' \cup Storing')
      <3>1. u # t
        BY <1>3, <2>1, NoBytes
      <3> QED BY <1>1, <1>3, <2>1, <3>1 DEF SignInv
    <2>2. ASSUME NEW y \in Bytes(delivered') PROVE Faithful(y, overtaken' \cup Storing')
      BY <1>1, <1>3, <1>6, <2>2 DEF SignInv, AllFaithful
    <2>3. \A i \in Unread' : Faithful(Slots'[i], Storing')
      BY <1>1, <1>3, <1>5 DEF SignInv
    <2>4. overtaken' \subseteq 1 .. Fresh' /\ overtaken' \cap SlotDues(Slots)' = {}
      BY <1>1, <1>5, <1>9 DEF SignInv
    <2> QED BY <2>1, <2>2, <2>3, <2>4 DEF SignInv
  <1>17. AloneInv'
    <2> SUFFICES ASSUME ~overlapped' PROVE AloneInv'
      BY DEF AloneInv
    <2>1. /\ \A u, v \in Threads : InsideRead(u) /\ InsideRead(v) => u = v
          /\ Older(h, B) /\ (pc[t] = "socket" => Unread = {})
          /\ Ascending(delivered) /\ Older(D, B) /\ Older(D, h)
          /\ overtaken = {}
      BY <1>1, <1>3, <1>4 DEF AloneInv
    <2>2. \A u \in Threads : ~InsideRead(u)'
      BY <1>3, <1>4, <2>1
    <2>3. \A u \in Threads : Held'[u] = <<>>
      BY <1>3, <2>2 DEF Held
    <2>4. Older(D, new)
      BY <1>7, <1>8 DEF Older
    <2>5. n > 0 => B = {}
      BY <1>1, <1>3, <2>1, UnreadFacts DEF Types
    <2>6. Older(new, B)
      <3>1. CASE n > 0
        BY <2>5, <3>1 DEF Older
      <3>2. CASE ~(n > 0)
        <4>1. new = {}
          BY <1>7, <1>8, <3>2
        <4> QED BY <4>1 DEF Older
      <3> QED BY <3>1, <3>2
    <2>7. Dues(d) \subseteq h \cup new
      OBVIOUS
    <2>8. Older(D, Dues(d)) /\ Older(D \cup Dues(d), B)
      <3> HIDE DEF D, B, h, new
      <3> QED BY <2>1, <2>4, <2>6, <2>7 DEF Older
    <2>9. Ascending(delivered')
      <3>1. Ascending(delivered \o d)
        BY <1>6, <2>1, <2>8, JoinAscending
      <3> QED BY <3>1
    <2>10. Older(Dues(delivered)', SlotDues(Slots)')
      BY <1>5, <1>6, <2>8
    <2>11. \A u \in Threads : Older(Dues(delivered)', Dues(Held'[u]))
      BY <2>3, NoBytes DEF Older
    <2>12. \A u \in Workers : ~InsideRead(u)' /\ pc'[u] # "socket"
      BY <2>2, ThreadsFacts DEF InsideRead
    <2>13. pc'[Selector] # "storing"
      BY <2>2, ThreadsFacts DEF InsideRead
    <2>14. Ascending(delivered)' /\ overtaken' = {}
      BY <2>1, <2>9 DEF Ascending
    <2> QED BY <2>2, <2>10, <2>11, <2>12, <2>13, <2>14 DEF AloneInv
  <1>18. OutputInv' /\ AskedInv'
    <2>1. \A u \in Threads : pc'[u] \in {"flushFirst", "write"} =>
                                pc[u] \in {"flushFirst", "write"} /\ hand'[u] = hand[u]
      BY <1>3
    <2> QED BY <1>1, <1>2, <2>1, OutputKept, AskedKept
  <1> QED BY <1>3, <1>11, <1>12, <1>13, <1>14, <1>15, <1>16, <1>17, <1>18
           DEF ChannelInv, BaseInv, ReadInv

\* What a worker inside read() has in hand.
LEMMA ReaderFacts ==
  ASSUME ChannelInv, NEW t \in Workers, NEW from \in {"check", "socket"}, pc[t] = from
  PROVE  /\ hand[t] \in Seq(Int) /\ Len(hand[t]) \in Nat /\ Ascending(hand[t])
         /\ Fresh \in Nat /\ Len(received) \in Nat
         /\ Dues(hand[t]) \subseteq 1 .. Fresh
         /\ AllFaithful(hand[t])
  <1>1. ThreadTypes /\ OrderInv /\ SignInv /\ t \in Threads
    BY ThreadsFacts DEF ChannelInv, BaseInv, ReadInv
  <1>2. Held[t] = hand[t] /\ hand[t] \in Seq(Int)
    BY <1>1, HeldFacts, InsideFacts DEF Inside
  <1>3. Len(hand[t]) \in Nat
    BY <1>2, LenProperties
  <1>4. Fresh \in Nat /\ Len(received) \in Nat /\ Dues(hand[t]) \subseteq 1 .. Fresh
    BY <1>1, <1>2, InputFacts
  <1>5. Ascending(hand[t]) /\ AllFaithful(hand[t])
    BY <1>1, <1>2 DEF OrderInv, SignInv, AllFaithful
  <1> QED BY <1>2, <1>3, <1>4, <1>5

\* A read() that ends without a byte of the socket.
LEMMA ReadEndsWith ==
  ASSUME ChannelInv, NEW t \in Workers, NEW from \in {"check", "socket"},
         Goes(t, from, "idle"), hand' = [hand EXCEPT ![t] = <<>>],
         \/ delivered' = delivered \o hand[t] /\ dropped' = dropped
         \/ delivered' = delivered \o <<>> /\ dropped' = dropped \cup Dues(hand[t]),
         m_f' \in {"connected", "closed"},
         UNCHANGED <<received, sent, eof, m_fg, events, m_read_buffer, overtaken, overlapped,
                     output>>
  PROVE  ChannelInv'
  <1>1. t \in Threads /\ ThreadTypes /\ received \in Seq(Int)
    BY ThreadsFacts DEF ChannelInv, BaseInv, Types
  <1>2. pc[t] = from
    BY <1>1, GoesFacts
  <1>3. /\ hand[t] \in Seq(Int) /\ Ascending(hand[t])
        /\ AllFaithful(hand[t])
        /\ Fresh \in Nat /\ Len(received) \in Nat
    BY <1>2, ReaderFacts
  <1>4. Rest(received, 0, received')
    BY <1>1, <1>3 DEF Rest
  <1>5. 0 \in 0 .. Len(received) /\ Fresh + 1 .. Fresh + 0 = {}
    BY <1>3
  <1>6. CASE delivered' = delivered \o hand[t] /\ dropped' = dropped
    <2>1. dropped' = dropped \cup {} /\ Dues(hand[t]) \cap {} = {}
          /\ Dues(hand[t]) \cup {} = Dues(hand[t]) \cup (Fresh + 1 .. Fresh + 0)
      BY <1>5, <1>6
    <2> QED BY <1>3, <1>4, <1>5, <1>6, <2>1, ReadEnds
  <1>7. CASE delivered' = delivered \o <<>> /\ dropped' = dropped \cup Dues(hand[t])
    <2>1. /\ <<>> \in Seq(Int) /\ Bytes(<<>>) = {} /\ Dues(<<>>) = {} /\ Ascending(<<>>)
          /\ AllFaithful(<<>>)
      BY NoBytes DEF Ascending, AllFaithful
    <2>2. /\ Dues(<<>>) \cap Dues(hand[t]) = {}
          /\ Dues(<<>>) \cup Dues(hand[t]) = Dues(hand[t]) \cup (Fresh + 1 .. Fresh + 0)
      BY <1>5, <2>1
    <2> QED BY <1>4, <1>5, <1>7, <2>1, <2>2, ReadEnds
  <1> QED BY <1>6, <1>7

LEMMA WorkerReadEnds ==
  ASSUME ChannelInv, NEW t \in Workers, ReadReturnsBuffered(t) \/ ReadNothing(t) \/ ReadEnd(t)
  PROVE  ChannelInv'
  <1>1. m_f \in {"connected", "closed"}
    BY DEF ChannelInv, BaseInv, Types
  <1>2. CASE ReadReturnsBuffered(t)
    BY <1>1, <1>2, ReadEndsWith DEF ReadReturnsBuffered, Deliver, socket, state
  <1>3. CASE ReadNothing(t)
    <2>1. CASE ReadSum(t) > 0
      BY <1>1, <1>3, <2>1, ReadEndsWith DEF ReadNothing, Deliver, socket, state
    <2>2. CASE ~(ReadSum(t) > 0)
      BY <1>1, <1>3, <2>2, ReadEndsWith DEF ReadNothing, Deliver, socket, state
    <2> QED BY <2>1, <2>2
  <1>4. CASE ReadEnd(t)
    BY <1>4, ReadEndsWith DEF ReadEnd, Deliver, socket
  <1> QED BY <1>2, <1>3, <1>4

\* The socket's bytes follow those in hand.
LEMMA WorkerReadsSocket ==
  ASSUME ChannelInv, NEW t \in Workers, ReadSocket(t)
  PROVE  ChannelInv'
  <1> DEFINE n == Lesser(ReadLength - Len(hand[t]), Len(received))
             h == hand[t]
             s == SubSeq(received, 1, n)
  <1>1. /\ n > 0 /\ Goes(t, "socket", "idle")
        /\ delivered' = delivered \o (h \o s) /\ hand' = [hand EXCEPT ![t] = <<>>]
        /\ received' = SubSeq(received, n + 1, Len(received))
        /\ UNCHANGED <<sent, eof, m_fg, m_f, events, m_read_buffer, dropped, overtaken,
                       overlapped, output>>
    BY DEF ReadSocket, Deliver, state
  <1>2. t \in Threads /\ ThreadTypes /\ received \in Seq(Int) /\ m_f' \in {"connected", "closed"}
    BY <1>1, ThreadsFacts DEF ChannelInv, BaseInv, Types
  <1>3. pc[t] = "socket"
    BY <1>1, <1>2, GoesFacts
  <1>4. /\ h \in Seq(Int) /\ Len(h) \in Nat /\ Ascending(h)
        /\ Fresh \in Nat /\ Len(received) \in Nat /\ Dues(h) \subseteq 1 .. Fresh
        /\ AllFaithful(h)
    BY <1>3, ReaderFacts
  <1>5. n \in 0 .. Len(received)
    BY <1>1, <1>4, CapacityAssumption DEF Lesser
  <1> HIDE DEF n, h
  <1>6. /\ s \in Seq(Int) /\ Len(s) = n /\ \A i \in 1 .. n : s[i] = received[i]
        /\ Rest(received, n, received')
    BY <1>1, <1>2, <1>5, SplitSeq DEF Rest
  <1> HIDE DEF s
  <1>7. \A i \in 1 .. n : s[i] = Fresh + i /\ s[i] \in Nat /\ Due(s[i]) = Fresh + i
    <2>1. \A i \in 1 .. n : i \in 1 .. Len(received)
      BY <1>4, <1>5
    <2>2. \A i \in 1 .. Len(received) : received[i] = Fresh + i
      BY DEF ChannelInv, ReadInv, InputInv, ReceivedRuns
    <2>3. \A i \in 1 .. n : s[i] = Fresh + i
      BY <1>6, <2>1, <2>2
    <2>4. \A i \in 1 .. n : s[i] \in Nat
      BY <1>4, <1>5, <2>3
    <2> QED BY <2>3, <2>4, DueFacts
  <1>8. Dues(s) = Fresh + 1 .. Fresh + n /\ Bytes(s) = Fresh + 1 .. Fresh + n
    <2>1. Bytes(s) = {s[i] : i \in 1 .. n} /\ Dues(s) = {Due(s[i]) : i \in 1 .. n}
      BY <1>6, BytesOf, DuesOf
    <2>2. {Due(s[i]) : i \in 1 .. n} = {s[i] : i \in 1 .. n}
      BY <1>7
    <2>3. \A b \in Bytes(s) : b \in Fresh + 1 .. Fresh + n
      BY <1>4, <1>5, <1>7, <2>1
    <2>4. ASSUME NEW b \in Fresh + 1 .. Fresh + n PROVE b \in Bytes(s)
      <3>1. b - Fresh \in 1 .. n /\ Fresh + (b - Fresh) = b
        BY <1>4, <1>5
      <3>2. s[b - Fresh] = b
        BY <1>7, <3>1
      <3> QED BY <2>1, <3>1, <3>2
    <2> QED BY <2>1, <2>2, <2>3, <2>4
  <1>9. Ascending(s)
    <2>1. \A j, k \in 1 .. n : j < k => Due(s[j]) < Due(s[k])
      BY <1>4, <1>5, <1>7
    <2> QED BY <1>6, <2>1, AscendingSeq
  <1>10. Older(Dues(h), Dues(s))
    BY <1>4, <1>5, <1>8 DEF Older
  <1>11. /\ h \o s \in Seq(Int) /\ Ascending(h \o s)
         /\ Bytes(h \o s) = Bytes(h) \cup Bytes(s) /\ Dues(h \o s) = Dues(h) \cup Dues(s)
    BY <1>4, <1>6, <1>9, <1>10, ConcatBytes, ConcatDues, JoinAscending
  <1>12. AllFaithful(h \o s)
    <2>1. overtaken \cup Storing \subseteq 1 .. Fresh
      <3>1. overtaken \subseteq 1 .. Fresh
        BY DEF ChannelInv, ReadInv, SignInv
      <3>2. Storing \subseteq 1 .. Fresh
        <4>1. CASE pc[Selector] = "storing"
          BY <4>1, SelectorHand
        <4>2. CASE pc[Selector] # "storing"
          BY <4>2 DEF Storing
        <4> QED BY <4>1, <4>2
      <3> QED BY <3>1, <3>2
    <2>2. ASSUME NEW y \in Bytes(s) PROVE Faithful(y, overtaken \cup Storing)
      <3>1. y \in Fresh + 1 .. Fresh + n
        BY <1>8, <2>2
      <3>2. ~(y < 0) /\ Due(y) = y /\ y \notin 1 .. Fresh
        BY <1>4, <1>5, <3>1 DEF Due
      <3> QED BY <2>1, <3>2 DEF Faithful
    <2> QED BY <1>4, <1>11, <2>2 DEF AllFaithful
  <1>13. /\ dropped' = dropped \cup {} /\ Dues(h \o s) \cap {} = {}
         /\ Dues(h \o s) \cup {} = Dues(h) \cup (Fresh + 1 .. Fresh + n)
    BY <1>1, <1>8, <1>11
  <1>14. Dues(h \o s) \cup {} = Dues(hand[t]) \cup (Fresh + 1 .. Fresh + n)
    BY <1>13 DEF h
  <1> DEFINE d == h \o s
             x == {}
  <1>15. /\ d \in Seq(Int) /\ delivered' = delivered \o d /\ Ascending(d)
         /\ AllFaithful(d)
         /\ Dues(d) \cup x = Dues(hand[t]) \cup (Fresh + 1 .. Fresh + n) /\ Dues(d) \cap x = {}
         /\ dropped' = dropped \cup x
    BY <1>1, <1>11, <1>12, <1>14
  <1> HIDE DEF d, x
  <1>16. UNCHANGED <<sent, eof, m_fg, events, m_read_buffer, overtaken, overlapped, output>>
    BY <1>1
  <1> QED BY <1>1, <1>2, <1>5, <1>6, <1>15, <1>16, ReadEnds

--------------------------------------------------------------------------------
\* A worker outside read()


\* An event is taken, the channel closed.
LEMMA WorkerTurns ==
  ASSUME ChannelInv, NEW t \in Workers,
         TakeReadEvent(t) \/ TakeWriteEvent(t) \/ Close(t) \/ CloseSocket(t)
  PROVE  ChannelInv'
  <1>1. Types /\ Flags /\ ThreadTypes /\ OutputInv /\ AskedInv
    BY DEF ChannelInv, BaseInv
  <1>2. /\ UNCHANGED <<received, sent, eof, m_read_buffer, hand, delivered, dropped,
                       overtaken, overlapped, wire, m_buffer, m_write_mutex, accepted, asked, short>>
        /\ m_fg' \in {1, 3} /\ m_f' \in {"connected", "closed"}
        /\ readEvent' \in BOOLEAN /\ writeEvent' \in BOOLEAN
    <2>1. /\ m_fg \in {1, 3} /\ m_f \in {"connected", "closed"}
          /\ readEvent \in BOOLEAN /\ writeEvent \in BOOLEAN
      BY <1>1 DEF Types, Flags
    <2>2. CASE TakeReadEvent(t)
      BY <2>1, <2>2 DEF TakeReadEvent, socket, state, input, output
    <2>3. CASE TakeWriteEvent(t)
      BY <2>1, <2>3 DEF TakeWriteEvent, socket, state, input, output
    <2>4. CASE Close(t)
      BY <2>1, <2>4 DEF Close, socket, state, events, input, output
    <2>5. CASE CloseSocket(t)
      BY <2>1, <2>5 DEF CloseSocket, SocketClose, socket, events, input, output
    <2> QED BY <2>2, <2>3, <2>4, <2>5
  <1>3. PICK from \in {"idle", "closing"}, to \in {"read", "flush", "close", "idle"} :
           Goes(t, from, to)
    BY DEF TakeReadEvent, TakeWriteEvent, Close, CloseSocket
  <1>4. t \in Threads
    BY ThreadsFacts
  <1>5. /\ pc'[t] = to
        /\ \A u \in Threads : u # t => pc'[u] = pc[u] /\ hand'[u] = hand[u]
    BY <1>1, <1>2, <1>3, <1>4, GoesFacts
  <1>6. /\ hand' \in [Threads -> Seq(Int)] /\ to \in Outside
        /\ from \in Outside
    BY <1>1, <1>2 DEF ThreadTypes, Outside
  <1>7. ThreadTypes' /\ HandInv' /\ ReadInv'
    BY <1>2, <1>3, <1>5, <1>6, OutsideStep
  <1>8. Types' /\ Flags'
    BY <1>1, <1>2 DEF Types, Flags
  <1>9. OutputInv'
    BY <1>1, <1>2, OutputKept
  <1>10. AskedInv'
    BY <1>1, <1>2, <1>5, AskedKept
  <1> QED BY <1>7, <1>8, <1>9, <1>10 DEF ChannelInv, BaseInv

\* An output begins: its bytes are numbered on.
LEMMA WorkerBeginsWrite ==
  ASSUME ChannelInv, NEW t \in Workers, BeginWrite(t)
  PROVE  ChannelInv'
  <1>1. Types /\ Flags /\ ThreadTypes /\ OutputInv /\ AskedInv
    BY DEF ChannelInv, BaseInv
  <1>2. PICK n \in Messages :
           /\ asked + n <= MaxOut /\ asked' = asked + n
           /\ hand' = [hand EXCEPT ![t] = [i \in 1 .. n |-> asked + i]]
    BY DEF BeginWrite
  <1>3. /\ Goes(t, "idle", "flushFirst")
        /\ UNCHANGED <<received, sent, eof, m_fg, m_f, readEvent, writeEvent, m_read_buffer,
                       delivered, dropped, overtaken, overlapped, wire, m_buffer, m_write_mutex, accepted,
                       short>>
    BY DEF BeginWrite, socket, state, events
  <1>4. t \in Threads /\ n \in Nat /\ asked \in Nat /\ MaxOut \in Nat
    BY <1>1, ThreadsFacts, BoundsAssumption DEF Types
  <1> DEFINE h == [i \in 1 .. n |-> asked + i]
  <1>5. h \in Seq(Int) /\ Bytes(h) \subseteq 1 .. asked'
    <2>1. h \in [1 .. n -> Nat]
      BY <1>4
    <2>2. h \in Seq(Int)
      BY <1>4, <2>1
    <2>3. Bytes(h) = {h[i] : i \in 1 .. n}
      BY <1>4 DEF Bytes
    <2>4. \A i \in 1 .. n : h[i] \in 1 .. asked'
      BY <1>2, <1>4
    <2> QED BY <2>2, <2>3, <2>4
  <1>6. hand'[t] = h /\ hand' \in [Threads -> Seq(Int)]
    BY <1>1, <1>2, <1>4, <1>5 DEF ThreadTypes
  <1> HIDE DEF h
  <1>7. \A u \in Threads : u # t => pc'[u] = pc[u] /\ hand'[u] = hand[u]
    BY <1>1, <1>2, <1>3, <1>4, GoesFacts DEF ThreadTypes
  <1>8. ThreadTypes' /\ HandInv' /\ ReadInv'
    BY <1>3, <1>6, <1>7, OutsideStep DEF Outside
  <1>9. Types' /\ Flags'
    BY <1>1, <1>2, <1>3, <1>4 DEF Types, Flags
  <1>10. OutputInv'
    BY <1>1, <1>3, OutputKept
  <1>11. AskedInv'
    <2>1. 1 .. asked \subseteq 1 .. asked'
      BY <1>2, <1>4
    <2>2. Bytes(accepted') \subseteq 1 .. asked'
      BY <1>1, <1>3, <2>1 DEF AskedInv
    <2>3. ASSUME NEW u \in Threads, pc'[u] \in {"flushFirst", "write"}
          PROVE  Bytes(hand'[u]) \subseteq 1 .. asked'
      <3>1. CASE u = t
        BY <1>5, <1>6, <3>1
      <3>2. CASE u # t
        BY <1>1, <1>7, <2>1, <2>3, <3>2 DEF AskedInv
      <3> QED BY <3>1, <3>2
    <2> QED BY <2>2, <2>3 DEF AskedInv
  <1> QED BY <1>8, <1>9, <1>10, <1>11 DEF ChannelInv, BaseInv

--------------------------------------------------------------------------------
\* The output

LEMMA Associative == \A s, t, u \in Seq(Int) : (s \o t) \o u = s \o (t \o u)
  BY ConcatAssociative

\* More is accepted, into the buffer.
LEMMA PutBytes ==
  ASSUME NEW A \in Seq(Int), NEW W \in Seq(Int), NEW C \in Seq(Int), NEW N \in Seq(Int),
         Written(A, W, C)
  PROVE  /\ Written(A \o N, W, C \o N) /\ A \o N \in Seq(Int)
  <1> DEFINE g == Len(A) - Len(C)
             a == A \o N
             c == C \o N
  <1>1. /\ a \in Seq(Int) /\ Len(a) = Len(A) + Len(N)
        /\ Len(A) \in Nat /\ Len(N) \in Nat
        /\ \A i \in 1 .. Len(A) : a[i] = A[i]
        /\ \A i \in 1 .. Len(N) : a[Len(A) + i] = N[i]
    BY ConcatBytes
  <1>2. /\ Len(c) = Len(C) + Len(N) /\ Len(C) \in Nat
        /\ \A i \in 1 .. Len(C) : c[i] = C[i]
        /\ \A i \in 1 .. Len(N) : c[Len(C) + i] = N[i]
    BY ConcatBytes
  <1>4. g \in Nat /\ g <= Len(A) /\ g + Len(C) = Len(A)
    BY <1>1, <1>2 DEF Written
  <1> HIDE DEF g, a, c
  <1> DEFINE la == Len(A)
             lc == Len(C)
             ln == Len(N)
  <1>l. /\ Len(a) = la + ln /\ Len(c) = lc + ln /\ g + lc = la
        /\ la \in Nat /\ lc \in Nat /\ ln \in Nat /\ g \in Nat
    BY <1>1, <1>2, <1>4
  <1> HIDE DEF la, lc, ln
  <1>5. Len(c) <= Len(a) /\ Len(a) - Len(c) = g
    BY ONLY <1>l
  <1>6. \A i \in 1 .. g : a[i] = A[i]
    BY <1>1, <1>4
  <1>7. ASSUME NEW i \in 1 .. Len(c) PROVE a[g + i] = c[i]
    <2>0. i \in 1 .. lc + ln
      BY <1>l
    <2>1. CASE i <= lc
      <3>1. i \in 1 .. lc /\ g + i \in 1 .. la
        BY ONLY <1>l, <2>0, <2>1
      <3> USE DEF la, lc
      <3>2. A[g + i] = C[i]
        BY <3>1 DEF Written, g
      <3> QED BY <1>1, <1>2, <3>1, <3>2
    <2>2. CASE ~(i <= lc)
      <3> DEFINE m == i - lc
      <3>1. m \in 1 .. ln /\ lc + m = i /\ la + m = g + i
        BY ONLY <1>l, <2>0, <2>2
      <3> HIDE DEF m
      <3> USE DEF la, lc, ln
      <3>2. c[i] = N[m] /\ a[g + i] = N[m]
        BY <1>1, <1>2, <3>1
      <3> QED BY <3>2
    <2> QED BY <2>1, <2>2
  <1>8. /\ \A j \in 1 .. Len(W) : \E i \in 1 .. g : A[i] = W[j]
        /\ \A j, k \in 1 .. Len(W) : j < k =>
              \E i, n \in 1 .. g : i < n /\ A[i] = W[j] /\ A[n] = W[k]
    BY DEF Written, g
  <1>9. \A j \in 1 .. Len(W) : \E i \in 1 .. g : a[i] = W[j]
    BY <1>6, <1>8
  <1>10. ASSUME NEW j \in 1 .. Len(W), NEW k \in 1 .. Len(W), j < k
         PROVE  \E i, n \in 1 .. g : i < n /\ a[i] = W[j] /\ a[n] = W[k]
    <2>1. PICK i \in 1 .. g, n \in 1 .. g : i < n /\ A[i] = W[j] /\ A[n] = W[k]
      BY <1>8, <1>10
    <2>2. a[i] = A[i] /\ a[n] = A[n]
      BY <1>6
    <2> QED BY <2>1, <2>2
  <1>11. Written(a, W, c)
    BY ONLY <1>5, <1>7, <1>9, <1>10 DEF Written
  <1> QED BY <1>1, <1>11 DEF a, c

\* The content of the buffer goes out, and the socket takes the first of it.
LEMMA TakeBytes ==
  ASSUME NEW A \in Seq(Int), NEW W \in Seq(Int), NEW C \in Seq(Int), Written(A, W, C),
         NEW k \in {-1} \cup 1 .. Len(C)
  PROVE  /\ Written(A, W \o SubSeq(C, 1, k), <<>>) /\ W \o SubSeq(C, 1, k) \in Seq(Int)
         /\ A = W \o C /\ k = Len(C) => A = (W \o SubSeq(C, 1, k)) \o <<>>
  <1> DEFINE S == SubSeq(C, 1, k)
             p == IF k = -1 THEN 0 ELSE k
             g == Len(A) - Len(C)
             V == W \o S
  <1>1. Len(C) \in Nat /\ Len(A) \in Nat /\ Len(W) \in Nat
    BY LenProperties
  <1>2. p \in 0 .. Len(C) /\ p \in Nat /\ p <= Len(C) /\ (k = Len(C) => p = Len(C))
    BY <1>1
  <1>3. S \in Seq(Int) /\ Len(S) = p /\ \A i \in 1 .. p : S[i] = C[i]
    <2>1. CASE k = -1
      <3>1. S = <<>>
        BY <2>1, SubSeqEmpty
      <3>2. <<>> \in Seq(Int) /\ Len(<<>>) = 0 /\ p = 0
        BY <2>1, EmptySeq
      <3> HIDE DEF S, p
      <3> QED BY <3>1, <3>2
    <2>2. CASE k # -1
      <3>1. k \in 0 .. Len(C) /\ p = k
        BY <1>1, <2>2
      <3> HIDE DEF p
      <3> QED BY <3>1, SplitSeq
    <2> QED BY <2>1, <2>2
  <1>4. g \in Nat /\ g + Len(C) = Len(A)
    BY <1>1 DEF Written
  <1>5. k = Len(C) => S = C
    <2> SUFFICES ASSUME k = Len(C) PROVE S = C
      OBVIOUS
    <2>1. Len(S) = Len(C) /\ \A i \in 1 .. Len(S) : S[i] = C[i]
      BY <1>2, <1>3
    <2> HIDE DEF S
    <2> QED BY <1>3, <2>1, SeqEqual
  <1> HIDE DEF S, p
  <1>6. /\ V \in Seq(Int) /\ Len(V) = Len(W) + p
        /\ \A i \in 1 .. Len(W) : V[i] = W[i]
        /\ \A i \in 1 .. p : V[Len(W) + i] = C[i]
    <2>1. /\ V \in Seq(Int) /\ Len(V) = Len(W) + Len(S)
          /\ \A i \in 1 .. Len(W) : V[i] = W[i]
          /\ \A i \in 1 .. Len(S) : V[Len(W) + i] = S[i]
      BY <1>3, ConcatBytes
    <2> HIDE DEF V
    <2> QED BY <1>3, <2>1
  <1>7. A = W \o C /\ k = Len(C) => A = V \o <<>>
    BY <1>5, <1>6, ConcatEmptySeq
  <1>8. /\ \A j \in 1 .. Len(W) : \E i \in 1 .. g : A[i] = W[j]
        /\ \A j, m \in 1 .. Len(W) : j < m =>
              \E i, n \in 1 .. g : i < n /\ A[i] = W[j] /\ A[n] = W[m]
        /\ \A i \in 1 .. Len(C) : A[g + i] = C[i]
    BY DEF Written
  <1> HIDE DEF g, V
  <1>9. /\ 1 .. g \subseteq 1 .. Len(A)
        /\ \A i \in 1 .. p : g + i \in 1 .. Len(A) /\ A[g + i] = C[i]
    BY <1>1, <1>2, <1>4, <1>8
  <1>10. ASSUME NEW j \in 1 .. Len(V)
         PROVE  j \in 1 .. Len(W) \/ \E m \in 1 .. p : j = Len(W) + m
    <2> SUFFICES ASSUME j \notin 1 .. Len(W) PROVE \E m \in 1 .. p : j = Len(W) + m
      OBVIOUS
    <2>1. j - Len(W) \in 1 .. p /\ j = Len(W) + (j - Len(W))
      BY <1>1, <1>2, <1>6
    <2> QED BY <2>1
  <1>11. ASSUME NEW j \in 1 .. Len(V) PROVE \E i \in 1 .. Len(A) : A[i] = V[j]
    <2>1. CASE j \in 1 .. Len(W)
      <3>1. PICK i \in 1 .. g : A[i] = W[j]
        BY <1>8, <2>1
      <3>2. i \in 1 .. Len(A) /\ V[j] = W[j]
        BY <1>6, <1>9, <2>1
      <3> QED BY <3>1, <3>2
    <2>2. CASE j \notin 1 .. Len(W)
      <3>1. PICK m \in 1 .. p : j = Len(W) + m
        BY <1>10, <2>2
      <3> QED BY <1>6, <1>9, <3>1
    <2> QED BY <2>1, <2>2
  <1>12. ASSUME NEW j \in 1 .. Len(V), NEW m \in 1 .. Len(V), j < m
         PROVE  \E i, n \in 1 .. Len(A) : i < n /\ A[i] = V[j] /\ A[n] = V[m]
    <2>1. CASE m \in 1 .. Len(W)
      <3>1. j \in 1 .. Len(W)
        BY <1>1, <1>12, <2>1
      <3>2. PICK i \in 1 .. g, n \in 1 .. g : i < n /\ A[i] = W[j] /\ A[n] = W[m]
        BY <1>8, <1>12, <2>1, <3>1
      <3> QED BY <1>6, <1>9, <2>1, <3>1, <3>2
    <2>2. CASE m \notin 1 .. Len(W) /\ j \in 1 .. Len(W)
      <3>1. PICK y \in 1 .. p : m = Len(W) + y
        BY <1>10, <2>2
      <3>2. PICK i \in 1 .. g : A[i] = W[j]
        BY <1>8, <2>2
      <3>3. i < g + y
        BY <1>2, <1>4
      <3> QED BY <1>6, <1>9, <2>2, <3>1, <3>2, <3>3
    <2>3. CASE m \notin 1 .. Len(W) /\ j \notin 1 .. Len(W)
      <3>1. PICK y \in 1 .. p : m = Len(W) + y
        BY <1>10, <2>3
      <3>2. PICK x \in 1 .. p : j = Len(W) + x
        BY <1>10, <2>3
      <3>3. g + x < g + y
        BY <1>1, <1>2, <1>4, <1>12, <3>1, <3>2
      <3> QED BY <1>6, <1>9, <3>1, <3>2, <3>3
    <2> QED BY <2>1, <2>2, <2>3
  <1>13. Len(<<>>) = 0 /\ Len(A) - 0 = Len(A) /\ 0 <= Len(A)
    BY <1>1, EmptySeq
  <1>14. Written(A, V, <<>>)
    <2> DEFINE e == <<>>
    <2>1. Len(e) = 0 /\ Len(A) - Len(e) = Len(A) /\ Len(e) <= Len(A)
      BY <1>13
    <2> HIDE DEF e
    <2>2. Written(A, V, e)
      BY <1>11, <1>12, <2>1 DEF Written
    <2> QED BY <2>2 DEF e
  <1> QED BY <1>6, <1>7, <1>14 DEF V, S

\* The whole of a buffer goes out.
LEMMA GoesOut ==
  ASSUME NEW b, WellFormed(b), NEW A \in Seq(Int), wire \in Seq(Int), short \in BOOLEAN,
         m_f \in {"connected", "closed"},
         Written(A, wire, Content(b)), ~short => A = wire \o Content(b),
         NEW k \in SocketTakes(Readable(b)), WriteToSocket(b, k),
         NEW c \in {WholeOutput(b), Clear(b)}
  PROVE  /\ wire' \in Seq(Int) /\ short' \in BOOLEAN /\ m_f' \in {"connected", "closed"}
         /\ WellFormed(c)
         /\ Written(A, wire', Content(c)) /\ (~short' => A = wire' \o Content(c))
  <1> DEFINE C == Content(b)
  <1>1. C \in Seq(Int) /\ Len(C) = Readable(b) /\ Readable(b) \in Nat
    BY BufContent
  <1>2. k \in {-1} \cup 1 .. Len(C)
    BY <1>1 DEF SocketTakes
  <1>3. /\ wire' = wire \o SubSeq(C, 1, k)
        /\ m_f' = (IF k = -1 THEN "closed" ELSE m_f)
        /\ short' = (short \/ k # Readable(b))
    BY DEF WriteToSocket
  <1>4. short' \in BOOLEAN /\ (~short' => ~short /\ k = Readable(b))
    BY <1>3, Zenon
  <1>5. WellFormed(c) /\ Readable(c) = 0
    <2>1. CASE c = WholeOutput(b)
      <3>1. Readable(b) \in 0 .. Readable(b) /\ Readable(b) - Readable(b) = 0
        BY <1>1
      <3> QED BY <2>1, <3>1, AfterReadProps DEF WholeOutput
    <2>2. CASE c = Clear(b)
      BY <2>2, ClearProps
    <2> QED BY <2>1, <2>2
  <1>6. Content(c) = <<>>
    <2>1. Content(c) \in Seq(Int) /\ Len(Content(c)) = 0
      BY <1>5, BufContent
    <2> QED BY <2>1, EmptySeq
  <1> HIDE DEF C
  <1>7. /\ Written(A, wire', <<>>) /\ wire' \in Seq(Int)
        /\ A = wire \o C /\ k = Len(C) => A = wire' \o <<>>
    <2>1. Written(A, wire, C)
      BY DEF C
    <2> QED BY <1>1, <1>2, <1>3, <2>1, TakeBytes
  <1>8. ~short' => A = wire' \o <<>>
    BY <1>1, <1>4, <1>7 DEF C
  <1>9. m_f' \in {"connected", "closed"}
    BY <1>3
  <1> QED BY <1>4, <1>5, <1>6, <1>7, <1>8, <1>9

\* flush() writes out what is in m_buffer.
LEMMA WorkerFlushes ==
  ASSUME ChannelInv, NEW t \in Workers, FlushStep(t)
  PROVE  ChannelInv'
  <1>1. Types /\ Flags /\ ThreadTypes /\ OutputInv /\ AskedInv
    BY DEF ChannelInv, BaseInv
  <1>2. UNCHANGED <<received, sent, eof, m_fg, readEvent, writeEvent, m_read_buffer, hand,
                    delivered, dropped, overtaken, overlapped, m_write_mutex, accepted, asked>>
    BY DEF FlushStep, Flush, socket, events
  <1>3. PICK from \in {"flushFirst", "flush", "close"}, to \in {"write", "idle", "closing"} :
           Goes(t, from, to) /\ (to = "write" => from = "flushFirst")
    BY DEF FlushStep
  <1>4. t \in Threads
    BY ThreadsFacts
  <1>5. /\ pc[t] = from /\ pc'[t] = to
        /\ \A u \in Threads : u # t => pc'[u] = pc[u] /\ hand'[u] = hand[u]
    BY <1>1, <1>2, <1>3, <1>4, GoesFacts
  <1>6. ThreadTypes' /\ HandInv' /\ ReadInv'
    <2>1. /\ hand' \in [Threads -> Seq(Int)] /\ to \in Outside
          /\ from \in Outside
      BY <1>1, <1>2 DEF ThreadTypes, Outside
    <2> QED BY <1>2, <1>3, <1>5, <2>1, OutsideStep
  <1>7. /\ wire' \in Seq(Int) /\ short' \in BOOLEAN /\ m_f' \in {"connected", "closed"}
        /\ WellFormed(m_buffer') /\ OutputInv'
    <2>1. CASE Readable(m_buffer) = 0
      <3>1. UNCHANGED <<m_f, wire, short, m_buffer>>
        BY <2>1 DEF FlushStep, Flush
      <3> QED BY <1>1, <1>2, <3>1, OutputKept DEF Types, Flags
    <2>2. CASE Readable(m_buffer) # 0
      <3>1. PICK k \in SocketTakes(Readable(m_buffer)) :
               WriteToSocket(m_buffer, k) /\ m_buffer' = WholeOutput(m_buffer)
        BY <2>2 DEF FlushStep, Flush
      <3>2. /\ WellFormed(m_buffer) /\ accepted \in Seq(Int) /\ wire \in Seq(Int)
            /\ short \in BOOLEAN /\ m_f \in {"connected", "closed"}
            /\ Written(accepted, wire, Content(m_buffer))
            /\ (~short => accepted = wire \o Content(m_buffer))
        BY <1>1 DEF Types, Flags, OutputInv
      <3> DEFINE c == m_buffer'
      <3>3. c \in {WholeOutput(m_buffer), Clear(m_buffer)}
        BY <3>1
      <3>4. /\ wire' \in Seq(Int) /\ short' \in BOOLEAN /\ m_f' \in {"connected", "closed"}
            /\ WellFormed(c) /\ Written(accepted, wire', Content(c))
            /\ (~short' => accepted = wire' \o Content(c))
        <4> HIDE DEF c
        <4> QED BY <3>1, <3>2, <3>3, GoesOut
      <3> QED BY <1>2, <3>4 DEF OutputInv
    <2> QED BY <2>1, <2>2
  <1>8. Types' /\ Flags'
    BY <1>1, <1>2, <1>7 DEF Types, Flags
  <1>9. AskedInv'
    BY <1>1, <1>2, <1>3, <1>5, AskedKept
  <1> QED BY <1>6, <1>7, <1>8, <1>9 DEF ChannelInv, BaseInv

\* write() puts what fits into m_buffer; half full, it is written out.
LEMMA WorkerWrites ==
  ASSUME ChannelInv, NEW t \in Workers, Write(t) \/ WriteThrough(t)
  PROVE  ChannelInv'
  <1> DEFINE h == hand[t]
             w == WrittenBytes(m_buffer, h)
             filled == AfterWrite(m_buffer, h)
  <1>1. Types /\ Flags /\ ThreadTypes /\ OutputInv /\ AskedInv
    BY DEF ChannelInv, BaseInv
  <1>2. /\ hand' = [hand EXCEPT ![t] = <<>>] /\ accepted' = accepted \o w
        /\ UNCHANGED <<received, sent, eof, m_fg, readEvent, writeEvent, m_read_buffer,
                       delivered, dropped, overtaken, overlapped, asked>>
    BY DEF Write, WriteThrough, socket, state, events
  <1>3. \/ /\ Goes(t, "write", "flush") /\ m_buffer' = filled
           /\ UNCHANGED <<m_f, wire, m_write_mutex, short>>
        \/ \E k \in SocketTakes(Readable(filled)) :
              /\ WriteToSocket(filled, k)
              /\ m_buffer' = IF k = -1 THEN WholeOutput(filled) ELSE Clear(filled)
              /\ m_write_mutex' = IF k = -1 THEN t ELSE Nobody
              /\ Goes(t, "write", IF k = -1 THEN "idle" ELSE "flush")
    BY DEF Write, WriteThrough, state
  <1>4. t \in Threads /\ h \in Seq(Int) /\ WellFormed(m_buffer)
    BY <1>1, ThreadsFacts DEF ThreadTypes, Types
  <1>5. /\ w \in Seq(Int) /\ Len(w) = Lesser(Len(h), Writeable(m_buffer))
        /\ \A i \in 1 .. Len(w) : w[i] = h[i]
        /\ WellFormed(filled) /\ Content(filled) = Content(m_buffer) \o w
    <2> HIDE DEF h
    <2> QED BY <1>4, AfterWriteProps
  <1>6. Bytes(w) \subseteq Bytes(h)
    <2>1. Len(h) \in Nat /\ Len(w) \in Nat /\ Len(w) <= Len(h)
      BY <1>4, <1>5, BufContent, LenProperties DEF Lesser
    <2>2. Bytes(w) = {w[i] : i \in 1 .. Len(w)} /\ Bytes(h) = {h[i] : i \in 1 .. Len(h)}
      BY <1>4, <1>5, BytesOf
    <2>3. \A i \in 1 .. Len(w) : i \in 1 .. Len(h)
      BY <2>1
    <2> HIDE DEF h, w
    <2> QED BY <1>5, <2>2, <2>3
  <1> HIDE DEF h, w, filled
  <1>7. PICK to \in {"flush", "idle"} : Goes(t, "write", to)
    BY <1>3
  <1>8. /\ pc[t] = "write" /\ pc'[t] = to
        /\ \A u \in Threads : u # t => pc'[u] = pc[u] /\ hand'[u] = hand[u]
    BY <1>1, <1>2, <1>4, <1>7, GoesFacts DEF ThreadTypes
  <1>9. ThreadTypes' /\ HandInv' /\ ReadInv'
    <2>1. /\ hand' \in [Threads -> Seq(Int)] /\ to \in Outside /\ "write" \in Outside
      BY <1>1, <1>2, NoBytes DEF ThreadTypes, Outside
    <2> QED BY <1>2, <1>7, <1>8, <2>1, OutsideStep
  <1>10. /\ accepted \in Seq(Int) /\ wire \in Seq(Int) /\ Content(m_buffer) \in Seq(Int)
         /\ Written(accepted, wire, Content(m_buffer))
         /\ (~short => accepted = wire \o Content(m_buffer))
         /\ short \in BOOLEAN /\ m_f \in {"connected", "closed"}
         /\ m_write_mutex \in Workers \cup {Nobody}
    BY <1>1, <1>4, BufContent DEF Types, Flags, OutputInv
  <1>11. /\ accepted' \in Seq(Int) /\ Written(accepted', wire, Content(filled))
         /\ (~short => accepted' = wire \o Content(filled))
    <2> DEFINE C == Content(m_buffer)
               D == Content(filled)
    <2>1. C \in Seq(Int) /\ Written(accepted, wire, C) /\ D = C \o w
          /\ (~short => accepted = wire \o C)
      BY <1>5, <1>10
    <2> HIDE DEF C, D
    <2>2. Written(accepted \o w, wire, C \o w) /\ accepted \o w \in Seq(Int)
      BY <1>5, <1>10, <2>1, PutBytes
    <2>3. accepted' \in Seq(Int) /\ Written(accepted', wire, D)
      BY <1>2, <2>1, <2>2
    <2>4. ~short => accepted' = wire \o D
      <3> SUFFICES ASSUME ~short PROVE accepted' = wire \o D
        OBVIOUS
      <3>1. (wire \o C) \o w = wire \o (C \o w)
        BY <1>5, <1>10, <2>1, Associative
      <3>2. accepted = wire \o C
        BY <2>1
      <3>3. accepted' = accepted \o w /\ D = C \o w
        BY <1>2, <2>1
      <3> QED BY ONLY <3>1, <3>2, <3>3, Zenon
    <2> QED BY <2>3, <2>4 DEF D
  <1>12. /\ wire' \in Seq(Int) /\ short' \in BOOLEAN /\ m_f' \in {"connected", "closed"}
         /\ WellFormed(m_buffer') /\ m_write_mutex' \in Workers \cup {Nobody} /\ OutputInv'
    <2>1. CASE m_buffer' = filled /\ UNCHANGED <<m_f, wire, m_write_mutex, short>>
      BY <1>5, <1>10, <1>11, <2>1 DEF OutputInv
    <2>2. CASE ~(m_buffer' = filled /\ UNCHANGED <<m_f, wire, m_write_mutex, short>>)
      <3>0. PICK k \in SocketTakes(Readable(filled)) :
               /\ WriteToSocket(filled, k)
               /\ m_buffer' = IF k = -1 THEN WholeOutput(filled) ELSE Clear(filled)
               /\ m_write_mutex' = IF k = -1 THEN t ELSE Nobody
        BY <1>3, <2>2
      <3> DEFINE c == m_buffer'
                 A == accepted'
      <3>1. c \in {WholeOutput(filled), Clear(filled)} /\ A \in Seq(Int)
        BY <1>11, <3>0
      <3>2. /\ wire' \in Seq(Int) /\ short' \in BOOLEAN /\ m_f' \in {"connected", "closed"}
            /\ WellFormed(c) /\ Written(A, wire', Content(c))
            /\ (~short' => A = wire' \o Content(c))
        <4>1. Written(A, wire, Content(filled)) /\ (~short => A = wire \o Content(filled))
          BY <1>11
        <4> HIDE DEF c, A
        <4> QED BY <1>5, <1>10, <3>0, <3>1, <4>1, GoesOut
      <3>3. m_write_mutex' \in Workers \cup {Nobody}
        BY <3>0
      <3> QED BY <3>2, <3>3 DEF OutputInv
    <2> QED BY <2>1, <2>2
  <1>13. Types' /\ Flags'
    BY <1>1, <1>2, <1>11, <1>12 DEF Types, Flags
  <1>14. AskedInv'
    <2>1. Bytes(h) \subseteq 1 .. asked /\ Bytes(accepted) \subseteq 1 .. asked
      BY <1>1, <1>4, <1>8 DEF AskedInv, h
    <2>2. Bytes(accepted \o w) = Bytes(accepted) \cup Bytes(w)
      BY <1>5, <1>10, ConcatBytes
    <2>3. Bytes(accepted') \subseteq 1 .. asked'
      BY <1>2, <1>6, <2>1, <2>2
    <2>4. ASSUME NEW u \in Threads, pc'[u] \in {"flushFirst", "write"}
          PROVE  Bytes(hand'[u]) \subseteq 1 .. asked'
      <3>1. u # t
        BY <1>8, <2>4
      <3> QED BY <1>1, <1>2, <1>8, <2>4, <3>1 DEF AskedInv
    <2> QED BY <2>3, <2>4 DEF AskedInv
  <1> QED BY <1>9, <1>12, <1>13, <1>14 DEF ChannelInv, BaseInv

--------------------------------------------------------------------------------
\* The invariant

LEMMA ChannelInit ==
  ASSUME Init
  PROVE  ChannelInv
  <1>1. PICK n \in Ages : m_read_buffer = Worn(n) /\ m_buffer = Worn(n)
    BY DEF Init
  <1>2. n \in Nat /\ n <= Capacity /\ Capacity \in Nat
    BY AgesAssumption, CapacityAssumption
  <1> DEFINE b == Worn(n)
  <1>3. b.bytes \in Seq(Int) /\ Len(b.bytes) = n /\ b.r = n /\ b.cap = Capacity
    BY <1>2 DEF Worn
  <1>4. b \in [cap : {Capacity}, r : Nat, bytes : Seq(Int)]
    BY <1>2, <1>3 DEF Worn
  <1>5. WellFormed(b) /\ Readable(b) = 0
    BY <1>2, <1>3, <1>4 DEF WellFormed, Readable
  <1> HIDE DEF b
  <1>6. m_read_buffer = b /\ m_buffer = b
    BY <1>1 DEF b
  <1>7. <<>> \in Seq(Int) /\ Len(<<>>) = 0
    BY EmptySeq
  <1>8. /\ received = <<>> /\ sent = 0 /\ delivered = <<>> /\ wire = <<>> /\ accepted = <<>>
        /\ dropped = {} /\ overtaken = {} /\ asked = 0
        /\ pc = [t \in Threads |-> "idle"] /\ hand = [t \in Threads |-> <<>>]
        /\ eof = FALSE /\ m_fg = 1 /\ m_f = "connected" /\ m_write_mutex = Nobody
        /\ readEvent = FALSE /\ writeEvent = FALSE /\ short = FALSE /\ overlapped = FALSE
    BY DEF Init
  <1>9. Types
    <2>1. sent \in 0 .. MaxIn /\ asked \in 0 .. MaxOut
      BY <1>8, BoundsAssumption
    <2>2. /\ received \in Seq(Int) /\ delivered \in Seq(Int) /\ wire \in Seq(Int)
          /\ accepted \in Seq(Int)
      BY <1>7, <1>8
    <2>3. /\ eof \in BOOLEAN /\ m_fg \in {1, 3} /\ m_f \in {"connected", "closed"}
          /\ m_write_mutex \in Workers \cup {Nobody}
      BY <1>8
    <2> QED BY <1>5, <1>6, <2>1, <2>2, <2>3 DEF Types
  <1>10. Flags
    BY <1>8 DEF Flags
  <1>11. ThreadTypes
    BY <1>7, <1>8 DEF ThreadTypes, Outside, SelectorPlaces, Threads
  <1>12. \A t \in Threads : pc[t] = "idle" /\ ~InsideRead(t) /\ ~Reads(t) /\ Held[t] = <<>>
    BY <1>8 DEF InsideRead, Reads, Held
  <1>13. pc[Selector] = "idle" /\ Storing = {} /\ \A t \in Workers : pc[t] = "idle"
    BY <1>12, ThreadsFacts DEF Storing
  <1>14. HandInv
    BY <1>12, <1>13 DEF HandInv
  <1>15. Unread = {}
    <2>1. WellFormed(m_read_buffer) /\ ~(Readable(m_read_buffer) > 0)
      BY <1>5, <1>6
    <2> QED BY <1>12, <2>1, NothingUnread
  <1>16. DOMAIN Slots = {} /\ SlotDues(Slots) = {}
    BY <1>15 DEF Slots, SlotDues
  <1>17. Content(m_buffer) = <<>>
    <2>1. Content(b) \in Seq(Int) /\ Len(Content(b)) = 0
      BY <1>5, BufContent
    <2> QED BY <1>6, <2>1, EmptySeq
  <1>18. Dues(delivered) = {} /\ Bytes(delivered) = {} /\ Bytes(accepted) = {}
    BY <1>8, NoBytes
  <1> DEFINE e == <<>>
  <1>19. e \in Seq(Int) /\ Len(e) = 0 /\ received = e /\ delivered = e /\ wire = e /\ accepted = e
    BY <1>7, <1>8
  <1> HIDE DEF e
  <1>20. Fresh = 0 /\ ReceivedRuns
    <2>1. Len(received) = 0 /\ sent = 0
      BY <1>8, <1>19
    <2>2. Fresh = 0 /\ Len(received) <= sent
      BY <2>1 DEF Fresh
    <2> QED BY <2>1, <2>2 DEF ReceivedRuns
  <1>21. \A t \in Threads : HandDues(Held)[t] = {} /\ Dues(Held[t]) = {} /\ Bytes(Held[t]) = {}
    BY <1>12, NoBytes DEF HandDues
  <1>22. InputInv
    <2>1. (UNION {HandDues(Held)[u] : u \in Threads}) = {}
      BY <1>21
    <2>2. 1 .. Fresh = {}
      BY <1>20
    <2>3. Divided(Fresh, SlotDues(Slots), HandDues(Held), Dues(delivered), dropped)
      BY <1>8, <1>16, <1>18, <1>21, <2>1, <2>2 DEF Divided
    <2>4. Distinct(delivered)
      BY <1>19 DEF Distinct
    <2> QED BY <1>20, <2>3, <2>4 DEF InputInv
  <1>23. OrderInv
    <2>1. \A t \in Threads : Ascending(Held[t])
      BY <1>12 DEF Ascending
    <2> QED BY <1>12, <1>13, <1>16, <2>1 DEF OrderInv, Ascending
  <1>24. SignInv
    BY <1>8, <1>15, <1>18, <1>21 DEF SignInv
  <1>25. AloneInv
    <2>1. Ascending(delivered)
      BY <1>8 DEF Ascending
    <2>2. \A t \in Workers : ~InsideRead(t) /\ pc[t] # "socket"
      BY <1>12, <1>13, ThreadsFacts
    <2>3. /\ Older(Dues(delivered), SlotDues(Slots))
          /\ \A t \in Threads : Older(Dues(delivered), Dues(Held[t]))
      BY <1>18 DEF Older
    <2>4. overtaken = {} /\ pc[Selector] # "storing"
      BY <1>8, <1>13
    <2> QED BY <1>12, <2>1, <2>2, <2>3, <2>4 DEF AloneInv
  <1>26. OutputInv
    <2>1. e \o e = e /\ Content(m_buffer) = e
      BY <1>17, <1>19, ConcatEmptySeq DEF e
    <2>2. Written(e, e, e)
      BY <1>19 DEF Written
    <2> QED BY <1>19, <2>1, <2>2 DEF OutputInv
  <1>27. AskedInv
    BY <1>12, <1>18 DEF AskedInv
  <1> QED BY <1>9, <1>10, <1>11, <1>14, <1>22, <1>23, <1>24, <1>25, <1>26, <1>27
           DEF ChannelInv, BaseInv, ReadInv

LEMMA ChannelStep ==
  ASSUME ChannelInv, [Next]_vars
  PROVE  ChannelInv'
  <1>1. CASE PeerSend
    BY <1>1, PeerSends
  <1>2. CASE PeerClose \/ TryReadBuffered \/ TryRecvEnd \/ TryWrite
    BY <1>2, FlagSteps
  <1>3. CASE TryRecv
    BY <1>3, SelectorReceives
  <1>4. CASE TryClaim \/ TryNoRoom \/ TryStore
    BY <1>4, SelectorClaims, SelectorDrops, SelectorStores
  <1>5. ASSUME NEW t \in Workers, WorkerStep(t) \/ BeginWrite(t) \/ Close(t)
        PROVE  ChannelInv'
    <2>1. CASE TakeReadEvent(t) \/ TakeWriteEvent(t) \/ Close(t) \/ CloseSocket(t)
      BY <2>1, WorkerTurns
    <2>2. CASE ReadTest(t)
      BY <2>2, WorkerTestsBuffer
    <2>3. CASE ReadClaim(t) \/ ReadLoad(t)
      BY <2>3, WorkerClaims, WorkerLoads
    <2>4. CASE ReadTaken(t) \/ ReadGoesOn(t)
      BY <2>4, WorkerGoesOn
    <2>5. CASE ReadSocket(t)
      BY <2>5, WorkerReadsSocket
    <2>6. CASE ReadReturnsBuffered(t) \/ ReadNothing(t) \/ ReadEnd(t)
      BY <2>6, WorkerReadEnds
    <2>7. CASE Write(t) \/ WriteThrough(t)
      BY <2>7, WorkerWrites
    <2>8. CASE FlushStep(t)
      BY <2>8, WorkerFlushes
    <2>9. CASE BeginWrite(t)
      BY <2>9, WorkerBeginsWrite
    <2> QED BY <1>5, <2>1, <2>2, <2>3, <2>4, <2>5, <2>6, <2>7, <2>8, <2>9 DEF WorkerStep
  <1>6. CASE UNCHANGED vars
    <2>1. /\ UNCHANGED <<received, sent, input, output, pc, eof, m_fg, m_f, readEvent, writeEvent>>
          /\ eof \in BOOLEAN /\ m_fg \in {1, 3} /\ m_f \in {"connected", "closed"}
          /\ readEvent \in BOOLEAN /\ writeEvent \in BOOLEAN
      BY <1>6 DEF vars, socket, state, events, ChannelInv, BaseInv, Types, Flags
    <2> QED BY <2>1, OnlyFlags
  <1> QED BY <1>1, <1>2, <1>3, <1>4, <1>5, <1>6 DEF Next, SelectorStep

\* In every behaviour, whatever the capacities, the lengths, and the number of workers.
THEOREM ChannelIsSound == Spec => []ChannelInv
  <1>1. Init => ChannelInv
    BY ChannelInit
  <1>2. ChannelInv /\ [Next]_vars => ChannelInv'
    BY ChannelStep
  <1> QED BY <1>1, <1>2, PTL DEF Spec

--------------------------------------------------------------------------------
\* What follows from it

\* TypeOK, of the buffers, the threads and the socket.
THEOREM ChannelTypes == Spec => []TypeOK
  <1>1. ChannelInv => TypeOK
    <2> SUFFICES ASSUME ChannelInv PROVE TypeOK
      OBVIOUS
    <2>1. Types /\ Flags /\ ThreadTypes /\ ReceivedRuns /\ AskedInv
      BY DEF ChannelInv, BaseInv, ReadInv, InputInv
    <2>2. /\ Fresh \in Nat /\ sent \in Nat /\ Len(received) \in Nat
          /\ sent = Fresh + Len(received)
      BY <2>1, FreshNat
    <2>3. Bytes(received) \subseteq 1 .. sent
      <3>1. Bytes(received) = {received[i] : i \in 1 .. Len(received)}
        BY <2>1, BytesOf DEF Types
      <3>2. \A i \in 1 .. Len(received) : received[i] \in 1 .. sent
        BY <2>1, <2>2 DEF ReceivedRuns
      <3> QED BY <3>1, <3>2
    <2>4. \A b \in {m_read_buffer, m_buffer} :
             b.cap = Capacity /\ Len(b.bytes) <= Capacity /\ b.r \in 0 .. Len(b.bytes)
      <3>1. WellFormed(m_read_buffer) /\ WellFormed(m_buffer)
        BY <2>1 DEF Types
      <3> QED BY <3>1, BufContent DEF WellFormed
    <2>5. {readEvent, writeEvent, short, overlapped} \subseteq BOOLEAN
      BY <2>1, Zenon DEF Flags
    <2>6. \A t \in Threads : pc[t] \in Outside \cup Inside \cup SelectorPlaces
      BY <2>1 DEF ThreadTypes
    <2>7. Bytes(accepted) \subseteq 1 .. asked
      BY <2>1 DEF AskedInv
    <2> QED BY <2>1, <2>3, <2>4, <2>5, <2>6, <2>7 DEF TypeOK, Types, Outside, Inside, SelectorPlaces
  <1> QED BY <1>1, ChannelIsSound, PTL

\* What is in one of five places.
LEMMA OnePlace ==
  ASSUME NEW P1, NEW P2, NEW P3, NEW P4, NEW P5, NEW b, b \in P1 \cup P2 \cup P3 \cup P4 \cup P5,
         b \in P1 => b \notin P2 /\ b \notin P3 /\ b \notin P4 /\ b \notin P5,
         b \in P2 => b \notin P3 /\ b \notin P4 /\ b \notin P5,
         b \in P3 => b \notin P4 /\ b \notin P5,
         b \in P4 => b \notin P5
  PROVE  LET places == <<P1, P2, P3, P4, P5>> IN
         Cardinality({i \in DOMAIN places : b \in places[i]}) = 1
  <1> DEFINE places == <<P1, P2, P3, P4, P5>>
             S == {i \in DOMAIN places : b \in places[i]}
  <1>1. /\ DOMAIN places = 1 .. 5
        /\ places[1] = P1 /\ places[2] = P2 /\ places[3] = P3 /\ places[4] = P4 /\ places[5] = P5
    OBVIOUS
  <1> HIDE DEF places
  <1>2. \A i \in 1 .. 5 : i = 1 \/ i = 2 \/ i = 3 \/ i = 4 \/ i = 5
    OBVIOUS
  <1>3. \E x : S = {x}
    <2>1. CASE b \in P1
      <3>1. S = {1}
        BY <1>1, <1>2, <2>1
      <3> QED BY <3>1
    <2>2. CASE b \in P2
      <3>1. S = {2}
        BY <1>1, <1>2, <2>2
      <3> QED BY <3>1
    <2>3. CASE b \in P3
      <3>1. S = {3}
        BY <1>1, <1>2, <2>3
      <3> QED BY <3>1
    <2>4. CASE b \in P4
      <3>1. S = {4}
        BY <1>1, <1>2, <2>4
      <3> QED BY <3>1
    <2>5. CASE b \in P5
      <3>1. S = {5}
        BY <1>1, <1>2, <2>5
      <3> QED BY <3>1
    <2> QED BY <2>1, <2>2, <2>3, <2>4, <2>5
  <1> HIDE DEF S
  <1>4. Cardinality(S) = 1
    BY <1>3, FS_Singleton
  <1> QED BY <1>4 DEF S, places

\* The bytes that a sequence without repetition is or stands for are as many as it is long.
LEMMA DistinctCount ==
  ASSUME NEW s \in Seq(Int), Distinct(s)
  PROVE  Cardinality(Dues(s)) = Len(s)
  <1> DEFINE n == Len(s)
             B == Dues(s)
             f == [i \in 1 .. n |-> Due(s[i])]
  <1>1. n \in Nat
    BY LenProperties
  <1>2. B = {Due(s[i]) : i \in 1 .. n}
    BY DuesOf
  <1>3. B = {f[i] : i \in 1 .. n}
    BY <1>2
  <1>4. \A i, j \in 1 .. n : f[i] = f[j] => i = j
    BY DEF Distinct
  <1>5. f \in [1 .. n -> B]
    BY <1>2
  <1> HIDE DEF n, B, f
  <1>6. f \in Injection(1 .. n, B)
    BY <1>4, <1>5 DEF Injection, IsInjective
  <1>7. f \in Surjection(1 .. n, B)
    BY <1>3, <1>5 DEF Surjection
  <1>8. ExistsBijection(1 .. n, B)
    BY <1>6, <1>7 DEF ExistsBijection, Bijection
  <1>9. IsFiniteSet(1 .. n) /\ Cardinality(1 .. n) = n
    <2>1. /\ IsFiniteSet(1 .. n)
          /\ Cardinality(1 .. n) = IF 1 > n THEN 0 ELSE n - 1 + 1
      BY <1>1, FS_Interval
    <2> QED BY <1>1, <2>1
  <1>10. Cardinality(B) = n
    BY <1>8, <1>9, FS_Bijection
  <1> QED BY <1>10 DEF B, n

\* What is left in the socket is younger than all that has been taken off it.
LEMMA ReceivedIsFresh ==
  ASSUME ChannelInv
  PROVE  /\ \A b \in Bytes(received) : b \in Nat /\ b > Fresh
         /\ \A b \in 1 .. sent : b > Fresh => b \in Bytes(received)
         /\ Fresh \in Nat
  <1>1. /\ received \in Seq(Int) /\ \A i \in 1 .. Len(received) : received[i] = Fresh + i
        /\ Fresh \in Nat /\ Len(received) \in Nat /\ sent = Fresh + Len(received)
    BY InputFacts DEF ChannelInv, BaseInv, Types, ReadInv, InputInv, ReceivedRuns
  <1>2. Bytes(received) = {received[i] : i \in 1 .. Len(received)}
    BY <1>1, BytesOf
  <1>3. \A i \in 1 .. Len(received) : received[i] \in Nat /\ received[i] > Fresh
    BY <1>1
  <1>4. ASSUME NEW b \in 1 .. sent, b > Fresh PROVE b \in Bytes(received)
    <2>1. b - Fresh \in 1 .. Len(received) /\ Fresh + (b - Fresh) = b
      BY <1>1, <1>4
    <2>2. received[b - Fresh] = b
      BY <1>1, <2>1
    <2> QED BY <1>2, <2>1, <2>2
  <1> QED BY <1>1, <1>2, <1>3, <1>4

\* Every byte of the peer is in one place, and none is delivered twice, although tryRead() and
\* the reads of any number of workers take from the socket and from m_read_buffer at once,
\* store by store; a byte is replaced by another only when it is overtaken.
THEOREM BytesConserved == Spec => []InputConserved
  <1>1. ChannelInv => InputConserved
    <2> SUFFICES ASSUME ChannelInv PROVE InputConserved
      OBVIOUS
    <2> DEFINE all == UNION {HandDues(Held)[u] : u \in Threads}
               B == SlotDues(Slots)
               D == Dues(delivered)
    <2>1. /\ Types /\ ThreadTypes /\ Distinct(delivered) /\ SignInv /\ AloneInv
          /\ Divided(Fresh, B, HandDues(Held), D, dropped) /\ Fresh \in Nat
          /\ sent \in Nat
      BY InputFacts, BoundsAssumption DEF ChannelInv, BaseInv, ReadInv, InputInv, Types
    <2>2. Cardinality(Dues(delivered)) = Len(delivered)
      BY <2>1, DistinctCount DEF Types
    <2>3. \A x \in Bytes(delivered) : x < 0 <=> Due(x) \in overtaken \cup Storing
      BY <2>1 DEF SignInv, Faithful
    <2>4. overtaken # {} => overlapped
      BY <2>1 DEF AloneInv
    <2>5. InSlots = B
      BY <2>1, UnreadFacts DEF InSlots, Types
    <2>6. InHands = all
      <3>1. \A u \in Threads : InHand(u) = HandDues(Held)[u]
        <4> SUFFICES ASSUME NEW u \in Threads PROVE InHand(u) = HandDues(Held)[u]
          OBVIOUS
        <4>1. HandDues(Held)[u] = Dues(Held[u])
          BY DEF HandDues
        <4>2. Held[u] = IF InsideRead(u) /\ pc[u] # "storing" THEN hand[u] ELSE <<>>
          BY DEF Held
        <4> QED BY <4>1, <4>2, NoBytes DEF InHand
      <3>2. {InHand(u) : u \in Threads} = {HandDues(Held)[u] : u \in Threads}
        BY ONLY <3>1
      <3> QED BY <3>2 DEF InHands
    <2>7. B \cup all \cup D \cup dropped = 1 .. Fresh
      BY <2>1 DEF Divided
    <2>8. /\ B \cap D = {} /\ B \cap dropped = {} /\ D \cap dropped = {}
          /\ all \cap (B \cup D \cup dropped) = {}
      BY <2>1 DEF Divided
    <2>9. ASSUME NEW b \in 1 .. sent
          PROVE  LET places == <<Bytes(received), InSlots, InHands, Dues(delivered), dropped>> IN
                 Cardinality({i \in DOMAIN places : b \in places[i]}) = 1
      <3> DEFINE P1 == Bytes(received)
                 P2 == InSlots
                 P3 == InHands
                 P4 == Dues(delivered)
                 P5 == dropped
      <3>0. (b \in P1 <=> b \notin 1 .. Fresh) /\ P2 \cup P3 \cup P4 \cup P5 = 1 .. Fresh
        <4>1. b \in P1 => b \notin 1 .. Fresh
          BY ReceivedIsFresh
        <4>2. b \notin 1 .. Fresh => b > Fresh
          BY <2>1
        <4>3. b \notin 1 .. Fresh => b \in P1
          BY <4>2, ReceivedIsFresh
        <4> QED BY <2>5, <2>6, <2>7, <4>1, <4>3
      <3>1. /\ P2 \cap P4 = {} /\ P2 \cap P5 = {} /\ P4 \cap P5 = {}
            /\ P3 \cap (P2 \cup P4 \cup P5) = {}
        BY <2>5, <2>6, <2>8
      <3> HIDE DEF P1, P2, P3, P4, P5, all, B, D
      <3>2. /\ b \in P1 \cup P2 \cup P3 \cup P4 \cup P5
            /\ b \in P1 => b \notin P2 /\ b \notin P3 /\ b \notin P4 /\ b \notin P5
            /\ b \in P2 => b \notin P3 /\ b \notin P4 /\ b \notin P5
            /\ b \in P3 => b \notin P4 /\ b \notin P5
            /\ b \in P4 => b \notin P5
        BY <3>0, <3>1
      <3>3. LET places == <<P1, P2, P3, P4, P5>> IN
            Cardinality({i \in DOMAIN places : b \in places[i]}) = 1
        BY <3>2, OnePlace
      <3> QED BY <3>3 DEF P1, P2, P3, P4, P5
    <2> QED BY <2>2, <2>3, <2>4, <2>9 DEF InputConserved
  <1> QED BY <1>1, ChannelIsSound, PTL

\* What a read() has in hand is in the order sent and older than what the socket has left,
\* whatever the other threads do; as long as no two threads have been between m_read_buffer
\* and the socket at once, the pipeline has the bytes in that order.
THEOREM BytesInOrder == Spec => []InOrder
  <1>1. ChannelInv => InOrder
    <2> SUFFICES ASSUME ChannelInv PROVE InOrder
      OBVIOUS
    <2>1. ThreadTypes /\ OrderInv /\ AloneInv
      BY DEF ChannelInv, BaseInv, ReadInv
    <2>2. ~overlapped => Ascending(delivered)
      BY <2>1 DEF AloneInv
    <2>3. ASSUME NEW t \in Threads, InsideRead(t)
          PROVE  Ascending(hand[t]) /\ Dues(hand[t]) \subseteq 1 .. Fresh
      <3>1. CASE pc[t] = "storing"
        <4>1. t = Selector
          BY <2>1, <3>1, InsideFacts, ThreadsFacts
        <4>2. /\ hand[t] \in Seq(Int) /\ Len(hand[t]) = 1 /\ hand[t][1] \in 1 .. Fresh
              /\ Dues(hand[t]) = {hand[t][1]}
          BY <3>1, <4>1, SelectorHand
        <4>3. Len(hand[t]) <= 1
          BY <4>2
        <4> QED BY <4>2, <4>3, AscendingSeq
      <3>2. CASE pc[t] # "storing"
        <4>1. Held[t] = hand[t]
          BY <2>3, <3>2 DEF Held
        <4> QED BY <2>1, <4>1, InputFacts DEF OrderInv
      <3> QED BY <3>1, <3>2
    <2>4. ASSUME NEW t \in Threads, InsideRead(t),
                 NEW a \in Dues(hand[t]), NEW b \in Bytes(received)
          PROVE  a < b
      <3>1. a \in 1 .. Fresh /\ b \in Nat /\ b > Fresh /\ Fresh \in Nat
        BY <2>3, <2>4, ReceivedIsFresh
      <3> QED BY <3>1
    <2> QED BY <2>2, <2>3, <2>4 DEF InOrder
  <1> QED BY <1>1, ChannelIsSound, PTL

\* The socket gets what write() has accepted in order, and all of it but what is still in
\* m_buffer as long as it takes what it is given.
THEOREM WireInOrder == Spec => []OutputInOrder
  <1>1. ChannelInv => OutputInOrder
    <2> SUFFICES ASSUME ChannelInv PROVE OutputInOrder
      OBVIOUS
    <2>1. /\ Written(accepted, wire, Content(m_buffer))
          /\ ~short => accepted = wire \o Content(m_buffer)
      BY DEF ChannelInv, OutputInv
    <2>2. /\ DOMAIN wire = 1 .. Len(wire) /\ DOMAIN accepted = 1 .. Len(accepted)
          /\ Len(accepted) \in Nat /\ Len(Content(m_buffer)) \in Nat
      BY LenProperties, BufContent DEF ChannelInv, BaseInv, Types
    <2> DEFINE g == Len(accepted) - Len(Content(m_buffer))
    <2>3. 1 .. g \subseteq 1 .. Len(accepted)
      BY <2>2
    <2>4. \A j, k \in 1 .. Len(wire) : j < k =>
             \E i, n \in 1 .. g : i < n /\ accepted[i] = wire[j] /\ accepted[n] = wire[k]
      BY <2>1 DEF Written
    <2> HIDE DEF g
    <2>5. \A j, k \in DOMAIN wire : j < k =>
             \E i, n \in DOMAIN accepted :
                i < n /\ accepted[i] = wire[j] /\ accepted[n] = wire[k]
      <3> SUFFICES ASSUME NEW j \in DOMAIN wire, NEW k \in DOMAIN wire, j < k
                   PROVE  \E i, n \in DOMAIN accepted :
                             i < n /\ accepted[i] = wire[j] /\ accepted[n] = wire[k]
        OBVIOUS
      <3>1. j \in 1 .. Len(wire) /\ k \in 1 .. Len(wire)
        BY <2>2
      <3>2. PICK i \in 1 .. g, n \in 1 .. g :
               i < n /\ accepted[i] = wire[j] /\ accepted[n] = wire[k]
        BY <2>4, <3>1
      <3>3. i \in DOMAIN accepted /\ n \in DOMAIN accepted
        BY <2>2, <2>3
      <3> QED BY <3>2, <3>3
    <2> QED BY <2>1, <2>5 DEF OutputInOrder
  <1> QED BY <1>1, ChannelIsSound, PTL

\* What a step throws away, or overtakes, is what one thread has in hand.
LEMMA LossStep ==
  ASSUME ChannelInv, [Next]_vars
  PROVE  /\ AtEnd \/ \E x : LostBytes' \subseteq LostBytes \cup {x}
         /\ dropped' # dropped =>
               received = <<>> \/ m_fg = 3 \/ Writeable(m_read_buffer) = 0
         /\ overtaken' # overtaken => Readable(m_read_buffer) = 0
  <1> USE DEF input
  <1>1. m_fg \in {1, 3} /\ WellFormed(m_read_buffer)
    BY DEF ChannelInv, BaseInv, Types
  <1>2. CASE UNCHANGED <<dropped, overtaken>>
    BY <1>2 DEF LostBytes
  <1>3. CASE TryNoRoom
    <2>1. /\ Goes(Selector, "received", "idle") /\ Writeable(m_read_buffer) = 0
          /\ dropped' = dropped \cup Bytes(hand[Selector]) /\ overtaken' = overtaken
      BY <1>3 DEF TryNoRoom
    <2>2. Bytes(hand[Selector]) = {hand[Selector][1]}
      BY <2>1, SelectorHand DEF Goes
    <2> QED BY <2>1, <2>2 DEF LostBytes
  <1>4. CASE TryStore
    <2>1. /\ Goes(Selector, "storing", "idle") /\ dropped' = dropped
          /\ overtaken' = IF Slot \in Unread THEN overtaken ELSE overtaken \cup Bytes(hand[Selector])
      BY <1>4 DEF TryStore, Slot
    <2>2. Bytes(hand[Selector]) = {hand[Selector][1]}
      BY <2>1, SelectorHand DEF Goes
    <2>3. Slot \notin Unread => Readable(m_read_buffer) = 0
      <3>1. Slot >= 1
        BY <2>1 DEF Goes, ChannelInv, BaseInv, HandInv
      <3>2. Slot \in 1 .. Slot /\ m_read_buffer.r \in 0 .. Slot
        BY <1>1, <3>1, UnreadFacts
      <3>3. Slot \notin Unread => ~(Slot > m_read_buffer.r)
        BY <1>1, <3>2, UnreadFacts
      <3>4. Readable(m_read_buffer) = Slot - m_read_buffer.r /\ Slot \in Nat
        BY <1>1, UnreadFacts
      <3> QED BY <3>2, <3>3, <3>4
    <2> QED BY <2>1, <2>2, <2>3 DEF LostBytes
  <1>5. ASSUME NEW t \in Workers, ReadNothing(t)
        PROVE  /\ \E x : LostBytes' \subseteq LostBytes \cup {x}
               /\ received = <<>> \/ m_fg = 3
               /\ overtaken' = overtaken
    <2>1. /\ NothingToRead /\ Goes(t, "socket", "idle") /\ overtaken' = overtaken
          /\ dropped' = IF ReadSum(t) > 0 THEN dropped ELSE dropped \cup Dues(hand[t])
      BY <1>5 DEF ReadNothing
    <2>2. hand[t] \in Seq(Int) /\ Len(hand[t]) \in Nat
      <3>1. "socket" \in {"check", "socket"} /\ pc[t] = "socket"
        BY <2>1 DEF Goes
      <3> QED BY <3>1, ReaderFacts
    <2>3. ReadSum(t) > 0 \/ Len(hand[t]) = 0 \/ Len(hand[t]) = 1
      <3> DEFINE n == Len(hand[t])
      <3>1. n \in Nat
        BY <2>2
      <3> HIDE DEF n
      <3>2. n - 1 > 0 \/ n = 0 \/ n = 1
        BY ONLY <3>1
      <3> QED BY <3>2 DEF n, ReadSum
    <2>4. \E x : LostBytes' \subseteq LostBytes \cup {x}
      <3>1. CASE ReadSum(t) > 0
        BY <2>1, <3>1 DEF LostBytes
      <3>2. CASE Len(hand[t]) = 0 /\ ~(ReadSum(t) > 0)
        <4>1. Dues(hand[t]) = {}
          BY <2>2, <3>2, DuesOf
        <4> QED BY <2>1, <3>2, <4>1 DEF LostBytes
      <3>3. CASE Len(hand[t]) = 1 /\ ~(ReadSum(t) > 0)
        <4>1. Dues(hand[t]) = {Due(hand[t][1])}
          BY <2>2, <3>3, DuesOf
        <4> QED BY <2>1, <3>3, <4>1 DEF LostBytes
      <3> QED BY <2>3, <3>1, <3>2, <3>3
    <2> QED BY <1>1, <2>1, <2>4 DEF NothingToRead
  <1>6. ASSUME NEW t \in Workers, ReadEnd(t)
        PROVE  AtEnd /\ received = <<>> /\ overtaken' = overtaken
    BY <1>6 DEF ReadEnd, AtEnd
  <1>7. CASE PeerSend \/ PeerClose \/ TryReadBuffered \/ TryRecv \/ TryRecvEnd \/ TryClaim \/ TryWrite
    BY <1>2, <1>7 DEF PeerSend, PeerClose, TryReadBuffered, TryRecv, TryRecvEnd, TryClaim, TryWrite
  <1>8. ASSUME NEW t \in Workers, WorkerStep(t) \/ BeginWrite(t) \/ Close(t)
        PROVE  UNCHANGED <<dropped, overtaken>> \/ ReadNothing(t) \/ ReadEnd(t)
    <2>1. CASE \/ TakeReadEvent(t) \/ TakeWriteEvent(t) \/ Close(t) \/ CloseSocket(t)
               \/ ReadGoesOn(t) \/ BeginWrite(t)
      BY <2>1 DEF TakeReadEvent, TakeWriteEvent, Close, CloseSocket, ReadGoesOn, BeginWrite
    <2>2. CASE ReadTest(t) \/ ReadClaim(t) \/ ReadLoad(t) \/ ReadTaken(t)
      BY <2>2 DEF ReadTest, ReadClaim, ReadLoad, ReadTaken
    <2>3. CASE ReadReturnsBuffered(t) \/ ReadSocket(t)
      BY <2>3 DEF ReadReturnsBuffered, ReadSocket
    <2>4. CASE Write(t) \/ WriteThrough(t) \/ FlushStep(t)
      BY <2>4 DEF Write, WriteThrough, FlushStep, Flush
    <2> QED BY <1>8, <2>1, <2>2, <2>3, <2>4 DEF WorkerStep
  <1>9. CASE \E t \in Workers : WorkerStep(t) \/ BeginWrite(t) \/ Close(t)
    <2>1. PICK t \in Workers : UNCHANGED <<dropped, overtaken>> \/ ReadNothing(t) \/ ReadEnd(t)
      BY <1>8, <1>9
    <2> QED BY <1>2, <1>5, <1>6, <2>1
  <1>10. CASE UNCHANGED vars
    BY <1>2, <1>10 DEF vars
  <1> QED BY <1>3, <1>4, <1>7, <1>9, <1>10 DEF Next, SelectorStep

\* Bytes are lost one at a time but for the end of the stream: one is thrown away when nothing
\* had followed it by the time its worker read on, the channel was closed, or m_read_buffer
\* was worn out, and overtaken only when a worker has emptied m_read_buffer.
THEOREM LostAlone == Spec => DropsAreLoneBytes
  <1> DEFINE Loss ==
               /\ Cardinality(LostBytes') <= Cardinality(LostBytes) + 1 \/ AtEnd
               /\ dropped' # dropped =>
                     received = <<>> \/ m_fg = 3 \/ Writeable(m_read_buffer) = 0
               /\ overtaken' # overtaken => Readable(m_read_buffer) = 0
  <1>1. ChannelInv /\ [Next]_vars => Loss
    <2> SUFFICES ASSUME ChannelInv, [Next]_vars PROVE Loss
      OBVIOUS
    <2> DEFINE L == LostBytes
    <2>1. IsFiniteSet(L) /\ Cardinality(L) \in Nat
      <3>1. L \subseteq 1 .. Fresh /\ Fresh \in Nat
        BY InputFacts DEF ChannelInv, ReadInv, SignInv, LostBytes
      <3>2. IsFiniteSet(1 .. Fresh)
        BY <3>1, FS_Interval
      <3>3. IsFiniteSet(L)
        BY <3>1, <3>2, FS_Subset
      <3> QED BY <3>3, FS_CardinalityType
    <2>2. ASSUME NEW x, LostBytes' \subseteq LostBytes \cup {x}
          PROVE  Cardinality(LostBytes') <= Cardinality(LostBytes) + 1
      <3> DEFINE S == L \cup {x}
                 M == LostBytes'
      <3>1. /\ IsFiniteSet(S)
            /\ Cardinality(S) = IF x \in L THEN Cardinality(L) ELSE Cardinality(L) + 1
        BY <2>1, FS_AddElement
      <3>2. M \subseteq S
        BY <2>2
      <3> HIDE DEF S, M, L
      <3>3. IsFiniteSet(M) /\ Cardinality(M) <= Cardinality(S)
        BY <3>1, <3>2, FS_Subset
      <3>4. Cardinality(M) \in Nat /\ Cardinality(S) \in Nat
        BY <3>1, <3>3, FS_CardinalityType
      <3> DEFINE m == Cardinality(M)
                 s == Cardinality(S)
                 l == Cardinality(L)
      <3>5. m \in Nat /\ s \in Nat /\ l \in Nat /\ m <= s /\ (s = l \/ s = l + 1)
        BY <2>1, <3>1, <3>3, <3>4
      <3> HIDE DEF m, s, l
      <3>6. m <= l + 1
        BY ONLY <3>5
      <3> QED BY ONLY <3>6 DEF m, l, M, L
    <2> QED BY <2>2, LossStep
  <1> HIDE DEF Loss
  <1>2. DropsAreLoneBytes <=> [][Loss]_vars
    BY PTL DEF DropsAreLoneBytes, Loss
  <1> QED BY <1>1, <1>2, ChannelIsSound, PTL DEF Spec
================================================================================
