-------------------------------- MODULE Pipeline --------------------------------
(***************************************************************************)
(* handle/channelcontext.cc, handle/channelcontexthandler.cc,              *)
(* handle/bytetransformhandler.h and io/defaultchannelpipeline.cc: the     *)
(* chain of handler contexts of one channel, from its making to its end,   *)
(* and the calls that walk it on several threads.                          *)
(*                                                                         *)
(* Reads and events walk from the head to the tail, writes from the tail,  *)
(* or from the middle, to the head. A handler may write while it is called *)
(* (through its context's socketChannel()), which starts a walk inside the *)
(* walk: two thread locals, m_in_outbound and m_current_context, decide    *)
(* where it starts. A handler may throw, which ends all walks of the       *)
(* thread at once; head, writing to the socket, may throw too.             *)
(*                                                                         *)
(* A transforming handler keeps the replies it makes while it is called    *)
(* for a read in a list of the thread, and encodes that list into every    *)
(* buffer that is written on the thread until its next read.               *)
(***************************************************************************)
EXTENDS Integers, Sequences, SequencesExt

CONSTANTS
    Handlers,
    Inbound,        \* those with channelRead()
    Outbound,       \* those with channelWrite()
    Callback,       \* those with connected(), closed() and the other events
    Transforming,   \* those that are ByteTransformHandlers
    m_head, m_tail,     \* the contexts at the two ends
    NULL,
    Threads,
    MaxDepth,       \* bounds the walks inside walks
    MaxReplies      \* bounds the replies of a handler to one read

ASSUME HandlersAssumption ==
    /\ Inbound \cup Outbound \cup Callback \subseteq Handlers
    /\ m_head # m_tail /\ {m_head, m_tail, NULL} \cap Handlers = {} /\ NULL \notin {m_head, m_tail}
ASSUME TransformingAssumption == Transforming \subseteq Inbound \cap Outbound
ASSUME BoundsAssumption == MaxDepth \in Nat \ {0} /\ MaxReplies \in Nat

VARIABLES
    m_next, m_prev,
    order,          \* the handlers, as the calls of addFirst() and addLast() put them
    m_elg,          \* the contexts that know their event loop group
    m_destroyed,
    deleting,       \* the context the destructor is at
    deleted,        \* the contexts it has deleted
    m_in_outbound, m_current_context,   \* per thread
    m_type_local,   \* per transforming handler and thread, how many replies its list has,
                    \* NoList if there is none
    stack,          \* per thread, its walks, the innermost last
    crashed,        \* whether the program has ended
    stale,          \* per thread, whether an exception has left its routing behind, and
    rerouted        \* whether a write inside the walk it is in has taken that walk's routing
                    \* (both are read by the properties only)

chain == <<m_next, m_prev, order, m_elg, deleting, deleted>>
routing == <<m_in_outbound, m_current_context>>
replies == <<m_type_local, crashed>>
vars == <<chain, m_destroyed, routing, replies, stack, stale, rerouted>>

Contexts == Handlers \cup {m_head, m_tail}
NoList == -1

\* A walk: what is called, the context it is at, whether that context's handler is running,
\* and for the properties where it began, whom it called, whether its buffer is that of a
\* read, how many replies each handler made in that read and how many of each are encoded in
\* the buffer, in what state the routing was, the handler whose channelWrite() wrote (the
\* tail for a write from outside), and whether that handler's walk had been rerouted.
NoReplies == [h \in Transforming |-> 0]
Walk(call, at, ofRead, made, was) ==
    [call |-> call, at |-> at, running |-> FALSE, from |-> at, called |-> <<>>,
     ofRead |-> ofRead, made |-> made, encoded |-> NoReplies, stale |-> was,
     writer |-> m_tail, again |-> FALSE]

Init ==
    /\ m_next = [c \in Contexts |-> IF c = m_head THEN m_tail ELSE NULL]
    /\ m_prev = [c \in Contexts |-> IF c = m_tail THEN m_head ELSE NULL]
    /\ order = <<>> /\ m_elg = {}
    /\ m_destroyed = FALSE /\ deleting = NULL /\ deleted = {}
    /\ m_in_outbound = [t \in Threads |-> FALSE]
    /\ m_current_context = [t \in Threads |-> NULL]
    /\ m_type_local = [h \in Transforming |-> [t \in Threads |-> NoList]]
    /\ crashed = FALSE
    /\ stack = [t \in Threads |-> <<>>]
    /\ stale = [t \in Threads |-> FALSE]
    /\ rerouted = [t \in Threads |-> FALSE]

--------------------------------------------------------------------------------
\* init(), in the acceptor, before anyone else knows the channel: initChannel() adds the
\* handlers, then all contexts but the head are told their event loop group.

Building == m_elg = {}

\* Variant with a plausible bug: the old neighbour goes on pointing past the new context.
InsertNextHalf(c, new) ==
    /\ m_next' = [m_next EXCEPT ![c] = new, ![new] = m_next[c]]
    /\ m_prev' = [m_prev EXCEPT ![new] = c]

\* c->insertNext(new) and c->insertPrev(new), with a neighbour on that side.
InsertNext(c, new) ==
    /\ m_next' = [m_next EXCEPT ![c] = new, ![new] = m_next[c]]
    /\ m_prev' = [m_prev EXCEPT ![m_next[c]] = new, ![new] = c]

InsertPrev(c, new) ==
    /\ m_prev' = [m_prev EXCEPT ![c] = new, ![new] = m_prev[c]]
    /\ m_next' = [m_next EXCEPT ![m_prev[c]] = new, ![new] = c]

AddFirst(h) ==
    /\ Building /\ h \notin ToSet(order)
    /\ InsertNext(m_head, h)
    /\ order' = <<h>> \o order
    /\ UNCHANGED <<m_elg, deleting, deleted, m_destroyed, routing, replies, stack, stale, rerouted>>

AddLast(h) ==
    /\ Building /\ h \notin ToSet(order)
    /\ InsertPrev(m_tail, h)
    /\ order' = Append(order, h)
    /\ UNCHANGED <<m_elg, deleting, deleted, m_destroyed, routing, replies, stack, stale, rerouted>>

FireEventLoopGroup ==
    /\ Building /\ ToSet(order) = Handlers
    /\ m_elg' = {m_next[c] : c \in Contexts} \ {NULL}
    /\ UNCHANGED <<m_next, m_prev, order, deleting, deleted, m_destroyed, routing, replies, stack, stale, rerouted>>

--------------------------------------------------------------------------------
\* The walks

Idle(t) == stack[t] = <<>> /\ ~Building /\ deleting = NULL /\ deleted = {}
Top(t) == Last(stack[t])
At(t, call, running) ==
    stack[t] # <<>> /\ Top(t).call = call /\ Top(t).running = running

Push(t, walk) == stack' = [stack EXCEPT ![t] = Append(@, walk)]
Pop(t) == stack' = [stack EXCEPT ![t] = Front(@)]
SetTop(t, walk) == stack' = [stack EXCEPT ![t] = Append(Front(@), walk)]

StepTo(t, c) == SetTop(t, [Top(t) EXCEPT !.at = c, !.running = FALSE])
RunHandler(t) ==
    SetTop(t, [Top(t) EXCEPT !.running = TRUE, !.called = Append(@, Top(t).at)])

SetRouting(t, outbound, current) ==
    /\ m_in_outbound' = [m_in_outbound EXCEPT ![t] = outbound]
    /\ m_current_context' = [m_current_context EXCEPT ![t] = current]

\* fireChannelRead(), after the head has read some bytes.
FireChannelRead(t) ==
    /\ Idle(t) /\ ~m_destroyed
    /\ Push(t, Walk("read", m_next[m_head], TRUE, NoReplies, stale[t]))
    /\ UNCHANGED <<chain, m_destroyed, routing, replies, stale, rerouted>>

\* fireConnected() and the events like it; fireExceptioned(), only before the destruction.
FireEvent(t) ==
    /\ Idle(t)
    /\ Push(t, Walk("event", m_next[m_head], FALSE, NoReplies, stale[t]))
    /\ UNCHANGED <<chain, m_destroyed, routing, replies, stale, rerouted>>

\* fireDestroyed(), whose first call only marks the pipeline (the second is an event).
FireDestroyed(t) ==
    /\ Idle(t) /\ ~m_destroyed
    /\ m_destroyed' = TRUE
    /\ UNCHANGED <<chain, routing, replies, stack, stale, rerouted>>

\* The list that get() finds for thread t, and set() of it.
Local(h, t) == m_type_local[h][t]
SetLocal(h, t, n) == m_type_local' = [m_type_local EXCEPT ![h][t] = n]

\* channelRead() of a transforming handler begins a new list, its channelWrite() encodes it.
BeginList(h, t) == SetLocal(h, t, 0)
Encode(walk, replied) == [walk EXCEPT !.encoded[walk.at] = @ + replied]

\* A read or an event comes to a handler: it runs, if it is of that kind.
CallHandler(t) ==
    /\ \/ /\ At(t, "read", FALSE) /\ Top(t).at \in Inbound
          /\ IF Top(t).at \in Transforming THEN BeginList(Top(t).at, t) ELSE UNCHANGED m_type_local
       \/ /\ At(t, "event", FALSE) /\ Top(t).at \in Callback
          /\ UNCHANGED m_type_local
    /\ RunHandler(t)
    /\ UNCHANGED <<chain, m_destroyed, routing, crashed, stale, rerouted>>

\* write() of the transforming handler that runs.
Reply(t) ==
    /\ At(t, "read", TRUE) /\ Top(t).at \in Transforming
    /\ Top(t).made[Top(t).at] < MaxReplies
    /\ SetLocal(Top(t).at, t, Local(Top(t).at, t) + 1)
    /\ SetTop(t, [Top(t) EXCEPT !.made[Top(t).at] = @ + 1])
    /\ UNCHANGED <<chain, m_destroyed, routing, crashed, stale, rerouted>>

PassHandler(t) ==
    /\ \/ At(t, "read", FALSE) /\ Top(t).at \in Handlers \ Inbound
       \/ At(t, "event", FALSE) /\ Top(t).at \in Handlers \ Callback
    /\ StepTo(t, m_next[Top(t).at])
    /\ UNCHANGED <<chain, m_destroyed, routing, replies, stale, rerouted>>

HandlerReturns(t) ==
    /\ \/ \E call \in {"read", "event"} : At(t, call, TRUE) /\ StepTo(t, m_next[Top(t).at])
       \/ At(t, "write", TRUE) /\ StepTo(t, m_prev[Top(t).at])
    /\ UNCHANGED <<chain, m_destroyed, routing, replies, stale, rerouted>>

\* The tail turns a read into a write of the same buffer, and ends an event.
TailRead(t) ==
    /\ At(t, "read", FALSE) /\ Top(t).at = m_tail
    /\ SetTop(t, Walk("write", m_tail, TRUE, Top(t).made, stale[t]))
    /\ rerouted' = [rerouted EXCEPT ![t] = FALSE]
    /\ UNCHANGED <<chain, m_destroyed, routing, replies, stale>>

TailEvent(t) ==
    /\ At(t, "event", FALSE) /\ Top(t).at = m_tail
    /\ Pop(t)
    /\ UNCHANGED <<chain, m_destroyed, routing, replies, stale, rerouted>>

\* write() of the context handler: by a handler that runs, or by a thread on its own.
Start(t) ==
    IF ~m_in_outbound[t] \/ m_current_context[t] = NULL THEN m_tail ELSE m_current_context[t]

Written(t) ==
    LET walk == Walk("write", Start(t), FALSE, NoReplies, stale[t]) IN
    IF At(t, "write", TRUE)
    THEN [walk EXCEPT !.writer = Top(t).at, !.again = rerouted[t]]
    ELSE walk

Write(t) ==
    /\ Idle(t) \/ (stack[t] # <<>> /\ Top(t).running)
    /\ Len(stack[t]) < MaxDepth
    /\ Push(t, Written(t))
    /\ rerouted' = [rerouted EXCEPT ![t] = FALSE]
    /\ UNCHANGED <<chain, m_destroyed, routing, replies, stale>>

TailWrite(t) ==
    /\ At(t, "write", FALSE) /\ Top(t).at = m_tail
    /\ SetRouting(t, TRUE, m_current_context[t])
    /\ StepTo(t, m_prev[m_tail])
    /\ UNCHANGED <<chain, m_destroyed, replies, stale, rerouted>>

\* A handler is skipped when it is itself the one that writes.
SkipWriter(t) ==
    /\ At(t, "write", FALSE) /\ Top(t).at \in Handlers
    /\ m_current_context[t] = Top(t).at
    /\ StepTo(t, m_prev[Top(t).at])
    /\ UNCHANGED <<chain, m_destroyed, routing, replies, stale, rerouted>>

\* Variant with a plausible bug: the current context is that of the channel, not the thread.
HandlerWriteShared(t) ==
    /\ At(t, "write", FALSE) /\ Top(t).at \in Handlers \ Transforming
    /\ m_current_context[t] # Top(t).at
    /\ m_current_context' = [u \in Threads |-> Top(t).at]
    /\ IF Top(t).at \in Outbound THEN RunHandler(t) ELSE StepTo(t, m_prev[Top(t).at])
    /\ UNCHANGED <<chain, m_destroyed, m_in_outbound, replies, stale, rerouted>>

HandlerWrite(t) ==
    /\ At(t, "write", FALSE) /\ Top(t).at \in Handlers \ Transforming
    /\ m_current_context[t] # Top(t).at
    /\ SetRouting(t, m_in_outbound[t], Top(t).at)
    /\ IF Top(t).at \in Outbound THEN RunHandler(t) ELSE StepTo(t, m_prev[Top(t).at])
    /\ UNCHANGED <<chain, m_destroyed, replies, stale, rerouted>>

\* A transforming handler encodes the list of its thread. There is none on a thread on which
\* it was never called for a read: the null pointer is followed.
TransformWrite(t) ==
    LET h == Top(t).at IN
    /\ At(t, "write", FALSE) /\ h \in Transforming
    /\ m_current_context[t] # h
    /\ SetRouting(t, m_in_outbound[t], h)
    /\ IF Local(h, t) = NoList
       THEN crashed' = TRUE /\ UNCHANGED stack
       ELSE /\ SetTop(t, [Encode(Top(t), Local(h, t)) EXCEPT !.running = TRUE, !.called = Append(@, h)])
            /\ UNCHANGED crashed
    /\ UNCHANGED <<chain, m_destroyed, m_type_local, stale, rerouted>>

\* The end of a write, or of all walks of the thread: a walk that goes on has no routing left.
EndWrite(t) ==
    /\ stale' = [stale EXCEPT ![t] = FALSE]
    /\ \/ Pop(t) /\ rerouted' = [rerouted EXCEPT ![t] = Len(stack[t]) > 1]
       \/ stack' = [stack EXCEPT ![t] = <<>>] /\ rerouted' = [rerouted EXCEPT ![t] = FALSE]

\* Variant with a plausible bug: the head resets one of the two thread locals only.
HeadWriteHalfReset(t) ==
    /\ At(t, "write", FALSE) /\ Top(t).at = m_head
    /\ SetRouting(t, FALSE, m_current_context[t])
    /\ EndWrite(t)
    /\ UNCHANGED <<chain, m_destroyed, replies>>

\* The head resets the routing, also when its walk is inside another, and writes to the
\* socket, which may throw.
HeadWrite(t) ==
    /\ At(t, "write", FALSE) /\ Top(t).at = m_head
    /\ SetRouting(t, FALSE, NULL)
    /\ EndWrite(t)
    /\ UNCHANGED <<chain, m_destroyed, replies>>

\* An exception of a handler ends the thread's walks and leaves its routing as it is.
Throw(t) ==
    /\ stack[t] # <<>> /\ Top(t).running
    /\ stack' = [stack EXCEPT ![t] = <<>>]
    /\ stale' = [stale EXCEPT ![t] = @ \/ m_in_outbound[t] \/ m_current_context[t] # NULL]
    /\ rerouted' = [rerouted EXCEPT ![t] = FALSE]
    /\ UNCHANGED <<chain, m_destroyed, routing, replies>>

--------------------------------------------------------------------------------
\* The destructor, which takes the chain apart from the head on. It begins when no thread is
\* in the pipeline (a bound: Bootstrap has the threads that use a channel being freed).

RemoveNext(c) ==
    LET n == m_next[c] IN
    IF n = NULL THEN UNCHANGED <<m_next, m_prev>>
    ELSE /\ m_next' = [m_next EXCEPT ![c] = m_next[n]]
         /\ m_prev' = IF m_next[n] = NULL THEN m_prev ELSE [m_prev EXCEPT ![m_next[n]] = c]

Destroy ==
    /\ m_destroyed /\ deleted = {} /\ deleting = NULL
    /\ \A t \in Threads : Idle(t)
    /\ deleting' = m_head
    /\ UNCHANGED <<m_next, m_prev, order, m_elg, deleted, m_destroyed, routing, replies, stack, stale, rerouted>>

DeleteContext ==
    /\ deleting # NULL
    /\ RemoveNext(deleting)
    /\ deleted' = deleted \cup {deleting}
    /\ deleting' = m_next[deleting]
    /\ UNCHANGED <<order, m_elg, m_destroyed, routing, replies, stack, stale, rerouted>>

--------------------------------------------------------------------------------
Next ==
    /\ ~crashed
    /\ \/ \E h \in Handlers : AddFirst(h) \/ AddLast(h)
       \/ FireEventLoopGroup
       \/ \E t \in Threads :
             \/ FireChannelRead(t) \/ FireEvent(t) \/ FireDestroyed(t)
             \/ CallHandler(t) \/ PassHandler(t) \/ HandlerReturns(t)
             \/ Reply(t) \/ TailRead(t) \/ TailEvent(t)
             \/ Write(t) \/ TailWrite(t) \/ SkipWriter(t)
             \/ HandlerWrite(t) \/ TransformWrite(t) \/ HeadWrite(t)
             \/ Throw(t)
       \/ Destroy \/ DeleteContext

Spec == Init /\ [][Next]_vars

--------------------------------------------------------------------------------
\* Types, and the two directions of the chain agree until it is taken apart.
TypeOK ==
    /\ m_next \in [Contexts -> Contexts \cup {NULL}] /\ m_prev \in [Contexts -> Contexts \cup {NULL}]
    /\ deleted = {} => \A c, d \in Contexts : m_next[c] = d <=> m_prev[d] = c
    /\ m_elg \subseteq Contexts /\ deleted \subseteq Contexts /\ deleting \in Contexts \cup {NULL}
    /\ m_destroyed \in BOOLEAN /\ crashed \in BOOLEAN
    /\ m_type_local \in [Transforming -> [Threads -> Int]]
    /\ m_in_outbound \in [Threads -> BOOLEAN]
    /\ stale \in [Threads -> BOOLEAN] /\ rerouted \in [Threads -> BOOLEAN]
    /\ m_current_context \in [Threads -> Handlers \cup {NULL}]
    /\ \A t \in Threads : \A i \in DOMAIN stack[t] :
          LET w == stack[t][i] IN
          w.call \in {"read", "write", "event"} /\ w.at \in Contexts /\ w.running \in BOOLEAN

\* The calls of a walk: each handler of the set at some of the places of the order, once, and
\* from the head to the tail or from the tail to the head.
CallsEach(called, places, set) ==
    /\ ToSet(called) = {order[k] : k \in places} \cap set
    /\ \A i, j \in DOMAIN called : called[i] = called[j] => i = j
Precedes(h, g, places) == \E k, l \in places : k < l /\ order[k] = h /\ order[l] = g

Forward(called, places, set) ==
    /\ CallsEach(called, places, set)
    /\ \A i, j \in DOMAIN called : i < j => Precedes(called[i], called[j], places)
Backward(called, places, set) ==
    /\ CallsEach(called, places, set)
    /\ \A i, j \in DOMAIN called : i < j => Precedes(called[j], called[i], places)

\* The places on the head's side of a context, all of them for the tail.
PlacesBefore(c) == {k \in DOMAIN order : \A j \in DOMAIN order : order[j] = c => k < j}

\* The places a write should come by: those on the head's side of its writer, all of them for
\* a write from outside. So it is for the first write that a walk leads to; the head then
\* resets the routing under that walk, and every later write that its handlers make goes from
\* the tail, past its own writer: it is called inside its own channelWrite().
WayOf(w) == IF w.again THEN PlacesBefore(m_tail) ELSE PlacesBefore(w.writer)

\* A walk that comes to its end has called every handler of its kind on its way, each once
\* and in order, whatever other walks the thread, by writes in its handlers, and other threads
\* have made meanwhile, unless an exception had left routing behind when it began. The
\* destructor, which takes apart the chain it walks, deletes all contexts.
ChainWalked ==
    /\ deleted # {} /\ deleting = NULL => deleted = Contexts
    /\ \A t \in Threads : \A i \in DOMAIN stack[t] :
          LET w == stack[t][i] IN
          /\ w.call = "read" /\ w.at = m_tail => Forward(w.called, DOMAIN order, Inbound)
          /\ w.call = "event" /\ w.at = m_tail => Forward(w.called, DOMAIN order, Callback)
          /\ w.call = "write" /\ w.at = m_head /\ ~w.stale =>
                Backward(w.called, WayOf(w), Outbound)

\* The write that a read ends in carries just the replies that each handler made in that read.
RepliesCarried ==
    \A t \in Threads : \A i \in DOMAIN stack[t] :
        LET w == stack[t][i] IN
        w.call = "write" /\ w.ofRead /\ w.at = m_head /\ ~w.stale => w.encoded = w.made

\* A walk that comes to its end has done all that it should.
WholeChain == ChainWalked /\ RepliesCarried

\* A thread that has left the pipeline has no routing left in it, however deep its writes
\* were nested and unless an exception cut them short: its next write starts at the tail.
IdleRoutingClean ==
    \A t \in Threads :
        stack[t] = <<>> /\ ~stale[t] => ~m_in_outbound[t] /\ m_current_context[t] = NULL
================================================================================
