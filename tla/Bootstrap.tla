------------------------------- MODULE Bootstrap -------------------------------
(***************************************************************************)
(* strap/bootstrap.cc: sync(), the acceptor (boos), the selector           *)
(* (workerSelect) and the workers' event handler (workerHandler), which    *)
(* share the list of channels and the maps of dispatched events.           *)
(*                                                                         *)
(* A channel is what the selector and the workers see of it: bytes that    *)
(* can be read, output left in its buffer, whether it is closed, marked    *)
(* for destruction, freed (NioSocketChannel and Pipeline have the rest).   *)
(* The worker pool is a queue that is first in first out, refuses tasks    *)
(* when it is full or shut down, and starts what it has accepted once      *)
(* (as TaskPool promises); the selector has one of its threads for good.   *)
(*                                                                         *)
(* The workers erase from the maps, and the selector inserts, under        *)
(* m_rw_map_mutex; the selector searches them without it. A search may     *)
(* miss an entry of a map from which a worker is erasing at that time, or  *)
(* follow a node that is being freed.                                      *)
(*                                                                         *)
(* What is done with a channel that has been freed, or with a pool that is *)
(* shut down twice, is undefined: the program ends, or goes on as if the   *)
(* memory were still there.                                                *)
(***************************************************************************)
EXTENDS Integers, Sequences, SequencesExt, FiniteSets

CONSTANTS
    Channels,       \* the connections that peers make
    Workers,        \* the threads of the worker pool, but the selector's
    NoChannel,
    QueueLength,    \* of the worker pool
    Talkers,        \* the connections whose peers send anything
    Busy,           \* those of them with which more happens: the peer closes, a handler
                    \* writes or closes, the selector misses an entry
    MaxSend,        \* bounds the bytes that peers send
    MaxMissed       \* bounds how often the selector misses an entry

ASSUME ConstantsAssumption ==
    /\ QueueLength \in Nat \ {0} /\ MaxSend \in Nat /\ MaxMissed \in Nat
    /\ IsFiniteSet(Workers)
    /\ Talkers \subseteq Channels /\ Busy \subseteq Talkers /\ NoChannel \notin Channels

VARIABLES
    main,           \* sync(): where its caller is
    start,          \* where its start task is
    set,            \* what has been configured
    told,           \* what the listeners of m_future were told last
    acceptor,       \* where the acceptor is, and the channel it has accepted
    sel,            \* where the selector is, and its place in the list
    list,           \* m_selector_map[ACCEPT]
    map,            \* m_read_map and m_write_map
    pool,           \* the events waiting in the worker pool's queue
    closing,        \* the pools that have been shut down
    job, pc,        \* per worker, its event and where it is
    backlog,        \* the connections not yet accepted
    sent, eof,      \* per channel, how many bytes its peer has sent, whether it has closed
    input,          \* how many of them can be read
    output,         \* whether there are bytes in m_buffer
    closed,         \* whether m_f is s_closed
    m_destroyed,    \* of its pipeline
    leaked,         \* whether m_write_mutex is left locked
    freed,
    lost,           \* the connections that were accepted and not registered
    crashed,        \* whether the program has ended
    left,           \* the entries of the maps whose event was refused, and
    missed          \* per event, how often its entry was missed and put in again
                    \* (read by the properties only)

startup == <<main, start, set, told>>
peers == <<backlog, lost, sent, eof>>
channels == <<input, output, closed, m_destroyed, leaked, freed>>
events == <<map, pool, left, missed>>
work == <<job, pc>>
vars == <<startup, acceptor, sel, list, events, closing, work, peers, channels, crashed>>

Kinds == {"read", "write"}
Event(ch, kind) == [ch |-> ch, kind |-> kind]
Events == [ch : Channels, kind : Kinds]
Pools == {"boos", "worker"}

Init ==
    /\ main = "start" /\ start = "off" /\ set = {} /\ told = "nothing"
    /\ acceptor = [at |-> "off", ch |-> NoChannel] /\ sel = [at |-> "off", i |-> 1]
    /\ list = <<>> /\ map = [k \in Kinds |-> {}] /\ pool = <<>> /\ closing = {}
    /\ job = [w \in Workers |-> Event(NoChannel, "read")] /\ pc = [w \in Workers |-> "idle"]
    /\ backlog = {} /\ lost = {} /\ sent = [ch \in Channels |-> 0] /\ eof = [ch \in Channels |-> FALSE]
    /\ input = [ch \in Channels |-> 0] /\ output = [ch \in Channels |-> FALSE]
    /\ closed = [ch \in Channels |-> FALSE] /\ m_destroyed = [ch \in Channels |-> FALSE]
    /\ leaked = [ch \in Channels |-> FALSE] /\ freed = [ch \in Channels |-> FALSE]
    /\ crashed = FALSE /\ left = {} /\ missed = [e \in Events |-> 0]

--------------------------------------------------------------------------------
\* group(), channel(), handler() and address(), in any order. sync() throws without a group.

Settings == {"group", "factory", "handler", "address"}

Configure(setting) ==
    /\ main = "start" /\ setting \notin set
    /\ set' = set \cup {setting}
    /\ UNCHANGED <<main, start, told, acceptor, sel, list, events, closing, work, peers, channels, crashed>>

\* init(), error() and done() of m_future.
Tell(state) == told' = state

Sync ==
    /\ main = "start" /\ "group" \in set
    /\ main' = "waiting" /\ start' = "queued" /\ Tell("init")
    /\ UNCHANGED <<set, acceptor, sel, list, events, closing, work, peers, channels, crashed>>

\* The start task, in the other pool. It checks the configuration, submits acceptor and
\* selector, each to a pool that may have been shut down meanwhile, and tells the listeners.
StartTask ==
    /\ start = "queued"
    /\ IF set = Settings THEN start' = "submitBoos" /\ UNCHANGED told
       ELSE start' = "ended" /\ Tell("error")
    /\ UNCHANGED <<main, set, acceptor, sel, list, events, closing, work, peers, channels, crashed>>

SubmitAcceptor ==
    /\ start = "submitBoos"
    /\ IF "boos" \in closing THEN start' = "ended" /\ UNCHANGED acceptor
       ELSE start' = "submitWorker" /\ acceptor' = [acceptor EXCEPT !.at = "bind"]
    /\ UNCHANGED <<main, set, told, sel, list, events, closing, work, peers, channels, crashed>>

SubmitSelector ==
    /\ start = "submitWorker"
    /\ IF "worker" \in closing THEN start' = "ended" /\ UNCHANGED sel
       ELSE start' = "tell" /\ sel' = [sel EXCEPT !.at = "sleep"]
    /\ UNCHANGED <<main, set, told, acceptor, list, events, closing, work, peers, channels, crashed>>

StartDone ==
    /\ start = "tell"
    /\ start' = "ended" /\ Tell("done")
    /\ UNCHANGED <<main, set, acceptor, sel, list, events, closing, work, peers, channels, crashed>>

\* shutdown() of a pool. A second call deletes what the first has deleted.
Shutdown(p) ==
    /\ closing' = closing \cup {p}
    /\ IF p \in closing THEN crashed' \in BOOLEAN ELSE UNCHANGED crashed

SyncDone ==
    /\ main = "waiting" /\ told = "done"
    /\ main' = "returned"
    /\ UNCHANGED <<start, set, told, acceptor, sel, list, events, closing, work, peers, channels, crashed>>

\* get() returned NULL: the start failed, its result was lost, or the time was over. One pool
\* is shut down after the other.
SyncGivesUp ==
    /\ \/ main = "waiting" /\ main' = "givesUp" /\ Shutdown("boos")
       \/ main = "givesUp" /\ main' = "returned" /\ Shutdown("worker")
    /\ UNCHANGED <<start, set, told, acceptor, sel, list, events, work, peers, channels>>

WaitForClose ==
    /\ main = "returned" /\ closing = Pools
    /\ main' = "closed"
    /\ UNCHANGED <<start, set, told, acceptor, sel, list, events, closing, work, peers, channels, crashed>>

--------------------------------------------------------------------------------
\* Peers, which connect to a server whose sync() has returned without shutting it down (a
\* bound: a shutdown with connections open frees the threads and queues that they use).

Known(ch) == ch \in backlog \cup {acceptor.ch} \/ Contains(list, ch)

PeerConnect(ch) ==
    /\ main = "returned" /\ acceptor.at \in {"accept", "push", "registered"} /\ closing = {}
    /\ ~Known(ch) /\ ch \notin lost /\ ~freed[ch]
    /\ backlog' = backlog \cup {ch}
    /\ UNCHANGED <<startup, acceptor, sel, list, events, closing, work, lost, sent, eof, channels, crashed>>

BytesSent == MapThenSumSet(LAMBDA ch : sent[ch], Channels)
PeerSend(ch) ==
    /\ ch \in Talkers /\ Known(ch) /\ ~eof[ch]
    /\ BytesSent < MaxSend
    /\ sent' = [sent EXCEPT ![ch] = @ + 1] /\ input' = [input EXCEPT ![ch] = @ + 1]
    /\ UNCHANGED <<startup, acceptor, sel, list, events, closing, work, backlog, lost, eof,
                   output, closed, m_destroyed, leaked, freed, crashed>>

PeerClose(ch) ==
    /\ ch \in Busy /\ Known(ch) /\ ~eof[ch]
    /\ eof' = [eof EXCEPT ![ch] = TRUE]
    /\ UNCHANGED <<startup, acceptor, sel, list, events, closing, work, backlog, lost, sent, channels, crashed>>

--------------------------------------------------------------------------------
\* The acceptor

\* The constructor of the server's channel opens the socket in two steps.
Opening == acceptor.at \in {"bind", "listen"}

Bind ==
    /\ acceptor.at = "bind"
    /\ acceptor' = [acceptor EXCEPT !.at = "listen"]
    /\ UNCHANGED <<startup, sel, list, events, closing, work, peers, channels, crashed>>

Listen ==
    /\ acceptor.at = "listen"
    /\ acceptor' = [acceptor EXCEPT !.at = "accept"]
    /\ UNCHANGED <<startup, sel, list, events, closing, work, peers, channels, crashed>>

\* Either step fails: the acceptor shuts down both pools, its own first.
BindFails ==
    /\ \/ Opening /\ acceptor' = [acceptor EXCEPT !.at = "failed"] /\ Shutdown("boos")
       \/ acceptor.at = "failed" /\ acceptor' = [acceptor EXCEPT !.at = "ended"] /\ Shutdown("worker")
    /\ UNCHANGED <<startup, sel, list, events, work, peers, channels>>

AcceptSocket(ch) == ch \in backlog /\ backlog' = backlog \ {ch}
AcceptChannel(ch, closes) == (closes => ch \in Busy) /\ closed' = [closed EXCEPT ![ch] = closes]

\* accept(), init() of the pipeline, fireConnected(), in which a handler may close the
\* channel.
Accept ==
    /\ acceptor.at = "accept"
    /\ \E ch \in Channels :
          /\ AcceptSocket(ch)
          /\ \E closes \in BOOLEAN : AcceptChannel(ch, closes)
          /\ acceptor' = [at |-> "push", ch |-> ch]
    /\ UNCHANGED <<startup, sel, list, events, closing, work, lost, sent, eof,
                   input, output, m_destroyed, leaked, freed, crashed>>

\* One of the three throws, fireConnected() for instance when a handler's write fails. The
\* acceptor goes on to the next connection; this one is in no list, and never freed.
AcceptFails ==
    /\ acceptor.at = "accept"
    /\ \E ch \in Channels : AcceptSocket(ch) /\ lost' = lost \cup {ch}
    /\ UNCHANGED <<startup, acceptor, sel, list, events, closing, work, sent, eof, channels, crashed>>

PushSelector ==
    /\ acceptor.at = "push"
    /\ list' = Append(list, acceptor.ch)
    /\ acceptor' = [acceptor EXCEPT !.at = "registered"]
    /\ UNCHANGED <<startup, sel, events, closing, work, peers, channels, crashed>>

\* fireRegistered() on a channel that the selector already has.
Registered ==
    /\ acceptor.at = "registered"
    /\ IF freed[acceptor.ch] THEN crashed' \in BOOLEAN ELSE UNCHANGED crashed
    /\ acceptor' = [at |-> "accept", ch |-> NoChannel]
    /\ UNCHANGED <<startup, sel, list, events, closing, work, peers, channels>>

--------------------------------------------------------------------------------
\* The selector, at the list's i-th channel.

Current == list[sel.i]
SelAt(at) == sel.at = at /\ sel.i <= Len(list)
GoTo(at) == sel' = [sel EXCEPT !.at = at]
NextChannel == sel' = [at |-> "visit", i |-> sel.i + 1]

\* Where the selector searches a map, tries the channel, makes an entry and submits an event.
SearchAt(kind) == IF kind = "read" THEN "searchRead" ELSE "searchWrite"
TryAt(kind) == IF kind = "read" THEN "tryRead" ELSE "tryWrite"
EnterAt(kind) == IF kind = "read" THEN "insertRead" ELSE "insertWrite"
SubmitAt(kind) == IF kind = "read" THEN "submitRead" ELSE "submitWrite"

\* m_rw_map_mutex, which a worker holds while it erases.
MapLocked == \E w \in Workers : pc[w] = "erasing"

SelectRound ==
    /\ sel.at = "sleep"
    /\ sel' = [at |-> "visit", i |-> 1]
    /\ UNCHANGED <<startup, acceptor, list, events, closing, work, peers, channels, crashed>>

\* The end of the list. Shutting down the pool interrupts its threads.
SelectRoundEnds ==
    /\ sel.at = "visit" /\ sel.i > Len(list)
    /\ GoTo(IF "worker" \in closing THEN "ended" ELSE "sleep")
    /\ UNCHANGED <<startup, acceptor, list, events, closing, work, peers, channels, crashed>>

VisitOpen ==
    /\ SelAt("visit") /\ ~closed[Current]
    /\ GoTo(SearchAt("read"))
    /\ UNCHANGED <<startup, acceptor, list, events, closing, work, peers, channels, crashed>>

\* Variant with a plausible bug: the first call of fireDestroyed() is lost.
VisitClosedUnmarked ==
    /\ SelAt("visit") /\ closed[Current] /\ ~m_destroyed[Current]
    /\ GoTo(SearchAt("read"))
    /\ UNCHANGED <<startup, acceptor, list, events, closing, work, peers, channels, crashed>>

\* The first round that finds a channel closed marks its pipeline, and tries it all the same.
VisitClosed ==
    /\ SelAt("visit") /\ closed[Current] /\ ~m_destroyed[Current]
    /\ m_destroyed' = [m_destroyed EXCEPT ![Current] = TRUE]
    /\ GoTo(SearchAt("read"))
    /\ UNCHANGED <<startup, acceptor, list, events, closing, work, peers,
                   input, output, closed, leaked, freed, crashed>>

\* The destructors: the buffers go, the socket is closed with what was in it.
FreeBuffers(ch) == output' = [output EXCEPT ![ch] = FALSE]
Free(ch) ==
    /\ FreeBuffers(ch)
    /\ input' = [input EXCEPT ![ch] = 0]
    /\ freed' = [freed EXCEPT ![ch] = TRUE]

\* Variant with a plausible bug: the loop goes on from the place of the erased element.
VisitDestroyedGoingOn ==
    /\ SelAt("visit") /\ closed[Current] /\ m_destroyed[Current]
    /\ Free(Current)
    /\ list' = RemoveAt(list, sel.i)
    /\ NextChannel
    /\ UNCHANGED <<startup, acceptor, events, closing, work, peers, closed, m_destroyed, leaked, crashed>>

\* The second destroys and frees it, and starts again at the head of the list.
VisitDestroyed ==
    /\ SelAt("visit") /\ closed[Current] /\ m_destroyed[Current]
    /\ Free(Current)
    /\ list' = RemoveAt(list, sel.i)
    /\ sel' = [at |-> "visit", i |-> 1]
    /\ UNCHANGED <<startup, acceptor, events, closing, work, peers, closed, m_destroyed, leaked, crashed>>

\* The search of a map: an entry that is there is found, unless a worker is erasing from the
\* map at that time. Then it may be missed, or a node be followed that is being freed.
Rearranged(kind) == \E w \in Workers : pc[w] = "erasing" /\ job[w].kind = kind
TimesMissed == MapThenSumSet(LAMBDA e : missed[e], Events)
AfterTry(kind) == IF kind = "read" THEN GoTo(SearchAt("write")) ELSE NextChannel

SearchFinds(kind) ==
    /\ SelAt(SearchAt(kind)) /\ Current \in map[kind]
    /\ AfterTry(kind)
    /\ UNCHANGED <<startup, acceptor, list, events, closing, work, peers, channels, crashed>>

SearchFindsNothing(kind) ==
    /\ SelAt(SearchAt(kind))
    /\ Current \in map[kind] => Rearranged(kind) /\ Current \in Busy /\ TimesMissed < MaxMissed
    /\ GoTo(TryAt(kind))
    /\ UNCHANGED <<startup, acceptor, list, events, closing, work, peers, channels, crashed>>

SearchGoesAstray(kind) ==
    /\ SelAt(SearchAt(kind)) /\ Rearranged(kind)
    /\ crashed' = TRUE
    /\ UNCHANGED <<startup, acceptor, sel, list, events, closing, work, peers, channels>>

\* tryRead() and tryWrite() of a channel for which the search has found nothing.
TryFindsNothing(kind) ==
    /\ SelAt(TryAt(kind))
    /\ IF kind = "write" THEN ~output[Current]
       ELSE closed[Current] \/ (input[Current] = 0 /\ ~eof[Current])
    /\ AfterTry(kind)
    /\ UNCHANGED <<startup, acceptor, list, events, closing, work, peers, channels, crashed>>

\* The peer has closed: closed() is called, whether or not it has been called before.
TryReadEnd ==
    /\ SelAt(TryAt("read")) /\ input[Current] = 0 /\ eof[Current]
    /\ closed' = [closed EXCEPT ![Current] = TRUE]
    /\ AfterTry("read")
    /\ UNCHANGED <<startup, acceptor, list, events, closing, work, peers,
                   input, output, m_destroyed, leaked, freed, crashed>>

TryFinds(kind) ==
    /\ SelAt(TryAt(kind))
    /\ IF kind = "write" THEN output[Current] ELSE input[Current] > 0
    /\ GoTo(EnterAt(kind))
    /\ UNCHANGED <<startup, acceptor, list, events, closing, work, peers, channels, crashed>>

\* Variant with a plausible bug: no entry is made for the event.
InsertNothing(kind) ==
    /\ SelAt(EnterAt(kind)) /\ ~MapLocked
    /\ GoTo(SubmitAt(kind))
    /\ UNCHANGED <<startup, acceptor, list, events, closing, work, peers, channels, crashed>>

\* The channel gets an entry, if it has none.
InsertEntry(kind) ==
    /\ SelAt(EnterAt(kind)) /\ ~MapLocked
    /\ map' = [map EXCEPT ![kind] = @ \cup {Current}]
    /\ missed' = [missed EXCEPT ![Event(Current, kind)] = IF Current \in map[kind] THEN @ + 1 ELSE @]
    /\ GoTo(SubmitAt(kind))
    /\ UNCHANGED <<startup, acceptor, list, pool, left, closing, work, peers, channels, crashed>>

\* submit() of the event loop group, which has the pool do it.
Submit(e) == Len(pool) < QueueLength /\ pool' = Append(pool, e)

SelectSubmit(kind) ==
    /\ SelAt(SubmitAt(kind))
    /\ Submit(Event(Current, kind))
    /\ AfterTry(kind)
    /\ UNCHANGED <<startup, acceptor, list, map, left, missed, closing, work, peers, channels, crashed>>

\* submit() throws: exceptioned() is called, the entry stays, and the selector goes on to
\* the next channel.
SelectRefused(kind) ==
    /\ SelAt(SubmitAt(kind))
    /\ Len(pool) = QueueLength
    /\ left' = left \cup {Event(Current, kind)}
    /\ NextChannel
    /\ UNCHANGED <<startup, acceptor, list, map, pool, missed, closing, work, peers, channels, crashed>>

--------------------------------------------------------------------------------
\* workerHandler()

At(w, at) == pc[w] = at
To(w, at) == pc' = [pc EXCEPT ![w] = at]

\* A step of a worker on a channel that may have been freed.
Touch(w) == IF freed[job[w].ch] THEN crashed' \in BOOLEAN ELSE UNCHANGED crashed

TakeEvent(w) ==
    /\ At(w, "idle") /\ pool # <<>>
    /\ job' = [job EXCEPT ![w] = Head(pool)]
    /\ pool' = Tail(pool)
    /\ To(w, "erase")
    /\ UNCHANGED <<startup, acceptor, sel, list, map, left, missed, closing, peers, channels, crashed>>

\* The entry goes first, which lets the selector dispatch the channel's next event.
BeginErase(w) ==
    /\ At(w, "erase") /\ ~MapLocked
    /\ Touch(w)
    /\ To(w, "erasing")
    /\ UNCHANGED <<startup, acceptor, sel, list, events, closing, job, peers, channels>>

\* Variant with a plausible bug: a read event takes the channel out of the write map.
EraseEntryOfWrites(w) ==
    /\ At(w, "erasing")
    /\ map' = [map EXCEPT !["write"] = @ \ {job[w].ch}]
    /\ left' = left \ {job[w]}
    /\ To(w, "handle")
    /\ UNCHANGED <<startup, acceptor, sel, list, pool, missed, closing, job, peers, channels, crashed>>

EraseEntry(w) ==
    /\ At(w, "erasing")
    /\ map' = [map EXCEPT ![job[w].kind] = @ \ {job[w].ch}]
    /\ left' = left \ {job[w]}
    /\ To(w, "handle")
    /\ UNCHANGED <<startup, acceptor, sel, list, pool, missed, closing, job, peers, channels, crashed>>

WriteThroughFails(ch) ==
    /\ output' = [output EXCEPT ![ch] = FALSE]
    /\ closed' = [closed EXCEPT ![ch] = TRUE]
    /\ leaked' = [leaked EXCEPT ![ch] = TRUE]

Done(w) ==
    /\ To(w, "idle")
    /\ job' = [job EXCEPT ![w] = Event(NoChannel, "read")]

\* fireChannelRead(), which a marked pipeline ignores. A handler may leave output that is
\* flushed a moment later, or close the channel, or write so much at once that it goes to the
\* socket: when that fails, the channel is closed and its write mutex left locked.
HandleRead(w) ==
    /\ At(w, "handle") /\ job[w].kind = "read"
    /\ Touch(w)
    /\ LET ch == job[w].ch IN
          \/ /\ m_destroyed[ch] \/ closed[ch] \/ (input[ch] = 0 /\ ~eof[ch])
             /\ Done(w)
             /\ UNCHANGED <<input, output, closed, leaked>>
          \/ /\ ~m_destroyed[ch] /\ input[ch] > 0
             /\ input' = [input EXCEPT ![ch] = 0]
             /\ \/ Done(w) /\ UNCHANGED <<output, closed, leaked>>
                \/ /\ ch \in Busy
                   /\ \/ output' = [output EXCEPT ![ch] = TRUE] /\ To(w, "flush") /\ UNCHANGED <<job, closed, leaked>>
                      \/ closed' = [closed EXCEPT ![ch] = TRUE] /\ Done(w) /\ UNCHANGED <<output, leaked>>
                      \/ ~leaked[ch] /\ eof[ch] /\ WriteThroughFails(ch) /\ Done(w)
          \/ /\ ~m_destroyed[ch] /\ ~closed[ch] /\ input[ch] = 0 /\ eof[ch]
             /\ closed' = [closed EXCEPT ![ch] = TRUE]
             /\ Done(w)
             /\ UNCHANGED <<input, output, leaked>>
    /\ UNCHANGED <<startup, acceptor, sel, list, events, closing, peers, m_destroyed, freed>>

\* flush(), in a write event or at the end of a handler's output: the socket takes what
\* there is, or fails and the channel is closed. It waits for ever for a mutex left locked.
\* (A bound: a write fails only when the peer has closed.)
AtFlush(w) == At(w, "flush") \/ (At(w, "handle") /\ job[w].kind = "write")

Flush(w) ==
    /\ AtFlush(w) /\ ~leaked[job[w].ch]
    /\ Touch(w)
    /\ LET ch == job[w].ch IN
          /\ output' = [output EXCEPT ![ch] = FALSE]
          /\ \E fails \in {FALSE, output[ch] /\ eof[ch]} : closed' = [closed EXCEPT ![ch] = @ \/ fails]
    /\ Done(w)
    /\ UNCHANGED <<startup, acceptor, sel, list, events, closing, peers, input, m_destroyed, leaked, freed>>

--------------------------------------------------------------------------------
StartupStep ==
    \/ \E setting \in Settings : Configure(setting)
    \/ Sync \/ SyncDone \/ SyncGivesUp \/ WaitForClose
    \/ StartTask \/ SubmitAcceptor \/ SubmitSelector \/ StartDone

AcceptorStep == Bind \/ Listen \/ BindFails \/ Accept \/ AcceptFails \/ PushSelector \/ Registered

SelectorStep ==
    \/ SelectRound \/ SelectRoundEnds
    \/ VisitOpen \/ VisitClosed \/ VisitDestroyed
    \/ TryReadEnd
    \/ \E kind \in Kinds :
          \/ SearchFinds(kind) \/ SearchFindsNothing(kind) \/ SearchGoesAstray(kind)
          \/ TryFindsNothing(kind) \/ TryFinds(kind)
          \/ InsertEntry(kind) \/ SelectSubmit(kind) \/ SelectRefused(kind)

WorkerStep(w) == TakeEvent(w) \/ BeginErase(w) \/ EraseEntry(w) \/ HandleRead(w) \/ Flush(w)

Next ==
    /\ ~crashed
    /\ \/ StartupStep \/ AcceptorStep \/ SelectorStep
       \/ \E w \in Workers : WorkerStep(w)
       \/ \E ch \in Channels : PeerConnect(ch) \/ PeerSend(ch) \/ PeerClose(ch)

\* The selector's thread runs, and the workers take what waits in their queue. Nothing is
\* asked of the acceptor, and peers need not do anything.
Fairness ==
    /\ WF_vars(~crashed /\ SelectorStep)
    /\ \A w \in Workers : WF_vars(~crashed /\ WorkerStep(w))

Spec == Init /\ [][Next]_vars /\ Fairness

--------------------------------------------------------------------------------
TypeOK ==
    /\ main \in {"start", "waiting", "givesUp", "returned", "closed"} /\ set \subseteq Settings
    /\ start \in {"off", "queued", "submitBoos", "submitWorker", "tell", "ended"}
    /\ told \in {"nothing", "init", "done", "error"} /\ closing \subseteq Pools
    /\ acceptor.at \in {"off", "bind", "listen", "accept", "push", "registered", "failed", "ended"}
    /\ acceptor.ch \in Channels \cup {NoChannel}
    /\ sel.at \in {"off", "sleep", "visit", "ended"}
                 \cup {SearchAt(k) : k \in Kinds} \cup {TryAt(k) : k \in Kinds}
                 \cup {EnterAt(k) : k \in Kinds} \cup {SubmitAt(k) : k \in Kinds}
    /\ sel.i \in 1 .. Len(list) + 1
    /\ list \in Seq({ch \in Channels : ~freed[ch]}) /\ IsInjective(list)
    /\ Len(pool) <= QueueLength
    /\ \A i \in DOMAIN pool : pool[i].ch \in Channels /\ pool[i].kind \in Kinds
    /\ \A w \in Workers : pc[w] \in {"idle", "erase", "erasing", "handle", "flush"}
    /\ \A ch \in Channels : sent[ch] \in Nat /\ input[ch] \in 0 .. sent[ch]

\* How many events of a channel are to take its entry out of the map: those in the queue,
\* those with a worker, and that which the selector is about to submit.
ToErase(w, e) == pc[w] \in {"erase", "erasing"} /\ job[w] = e
Submitting(e) == SelAt(SubmitAt(e.kind)) /\ Current = e.ch
UnderWay(e) ==
    Cardinality({i \in DOMAIN pool : pool[i] = e}) + Cardinality({w \in Workers : ToErase(w, e)})
    + (IF Submitting(e) THEN 1 ELSE 0)
Entries(e) == IF e.ch \in map[e.kind] THEN 1 ELSE 0
Refused(e) == IF e \in left THEN 1 ELSE 0

\* Every entry of the maps has an event under way that takes it out, or that was refused: no
\* channel is passed over for ever because of an entry that nobody will erase. And a channel
\* has one event under way for its entry, and one more for each time that the search of the
\* maps, which takes no mutex, missed its entry: then it is dispatched twice at a time.
OneEventPerEntry ==
    \A e \in Events :
        /\ Entries(e) = 1 => UnderWay(e) + Refused(e) >= 1
        /\ UnderWay(e) + Refused(e) <= Entries(e) + missed[e]

\* What arrives on a channel is read, or the channel is closed, unless the queue had no room
\* for an event of that channel, or all workers wait for mutexes that failed writes left
\* locked. (Here and below a connection of Busy stands for all, which can do no more.)
InputIsRead ==
    \A ch \in Busy :
        Contains(list, ch) /\ input[ch] > 0
            ~> \/ crashed \/ input[ch] = 0 \/ closed[ch] \/ Event(ch, "read") \in left
               \/ \A w \in Workers : AtFlush(w) /\ leaked[job[w].ch]

\* A channel that is closed, by its peer, by a handler or by a failed write, is destroyed
\* and freed, whatever events of it are still on their way.
ClosedIsFreed ==
    \A ch \in Busy : Contains(list, ch) /\ closed[ch] ~> crashed \/ freed[ch]
================================================================================
