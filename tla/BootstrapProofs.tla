---------------------------- MODULE BootstrapProofs ----------------------------
(***************************************************************************)
(* The selector's list and the maps of dispatched events, for any number   *)
(* of channels and workers and any length of the worker pool's queue.      *)
(***************************************************************************)
EXTENDS Bootstrap, FiniteSetTheorems, SequenceTheorems, TLAPS

--------------------------------------------------------------------------------
\* The inductive invariant, in four parts

AcceptorPlaces == {"off", "bind", "listen", "accept", "push", "registered", "failed", "ended"}
Submits == {"submitRead", "submitWrite"}
Trying == {"searchRead", "searchWrite", "tryRead", "tryWrite", "insertRead", "insertWrite"} \cup Submits
SelPlaces == {"off", "sleep", "visit", "ended"} \cup Trying

\* The selector does nothing before the start task has submitted it.
StartupInv ==
    /\ main \in {"start", "waiting", "givesUp", "returned", "closed"} /\ set \subseteq Settings
    /\ start \in {"off", "queued", "submitBoos", "submitWorker", "tell", "ended"}
    /\ told \in {"nothing", "init", "done", "error"} /\ closing \subseteq Pools
    /\ main = "start" => start = "off"
    /\ start \in {"off", "queued", "submitBoos", "submitWorker"} => sel.at = "off"

\* A channel is in one of the backlog, the acceptor's hands and the list, and there once,
\* and nothing of the three is freed; the selector's place is in the list, or just behind.
ListTypes ==
    /\ acceptor \in [at : AcceptorPlaces, ch : Channels \cup {NoChannel}]
    /\ sel \in [at : SelPlaces, i : Nat]
    /\ list \in Seq(Channels) /\ backlog \subseteq Channels
    /\ freed \in [Channels -> BOOLEAN]
    /\ 1 <= sel.i /\ sel.i <= Len(list) + 1
    /\ sel.at \in Trying => sel.i <= Len(list)

Listed(ch) == \E i \in 1 .. Len(list) : list[i] = ch

Apart ==
    /\ \A i, j \in 1 .. Len(list) : list[i] = list[j] => i = j
    /\ \A i \in 1 .. Len(list) : ~freed[list[i]]
    /\ \A ch \in backlog : ~freed[ch] /\ ch # acceptor.ch /\ ~Listed(ch)
    /\ acceptor.at = "push" =>
          acceptor.ch \in Channels /\ ~freed[acceptor.ch] /\ ~Listed(acceptor.ch)

ListInv == ListTypes /\ Apart

BytesInv ==
    /\ sent \in [Channels -> Nat] /\ input \in [Channels -> Nat]
    /\ \A ch \in Channels : input[ch] <= sent[ch]

\* The events. That the entries of the maps match the events under way is inductive as it
\* stands: a search that misses an entry adds one to either side.
WorkerPlaces == {"idle", "erase", "erasing", "handle", "flush"}

EventTypes ==
    /\ map \in [Kinds -> SUBSET Channels]
    /\ pool \in Seq(Events) /\ Len(pool) <= QueueLength
    /\ left \subseteq Events /\ missed \in [Events -> Nat]
    /\ job \in [Workers -> [ch : Channels \cup {NoChannel}, kind : Kinds]]
    /\ pc \in [Workers -> WorkerPlaces]
    /\ \A w \in Workers : pc[w] \in {"erase", "erasing"} => job[w] \in Events

EventInv == EventTypes /\ OneEventPerEntry

\* Where the events of a kind and a channel are.
Places(s, e) == {i \in DOMAIN s : s[i] = e}
InPool(e) == Places(pool, e)
WithWorkers(e) == {w \in Workers : ToErase(w, e)}

ServerInv == StartupInv /\ ListInv /\ BytesInv /\ EventInv

--------------------------------------------------------------------------------
\* RemoveAt takes one element out and leaves the others in their order.
LEMMA Removed ==
  ASSUME NEW S, NEW s \in Seq(S), NEW i \in 1 .. Len(s)
  PROVE  /\ RemoveAt(s, i) \in Seq(S) /\ Len(RemoveAt(s, i)) = Len(s) - 1
         /\ \A j \in 1 .. i - 1 : RemoveAt(s, i)[j] = s[j]
         /\ \A j \in i .. Len(s) - 1 : RemoveAt(s, i)[j] = s[j + 1]
  <1> DEFINE before == SubSeq(s, 1, i - 1)
             after == SubSeq(s, i + 1, Len(s))
  <1>1. /\ before \in Seq(S) /\ Len(before) = i - 1
        /\ \A j \in 1 .. i - 1 : before[j] = s[j]
    OBVIOUS
  <1>2. /\ after \in Seq(S) /\ Len(after) = Len(s) - i
        /\ \A j \in 1 .. Len(s) - i : after[j] = s[j + i]
    OBVIOUS
  <1> HIDE DEF before, after
  <1>3. RemoveAt(s, i) = before \o after
    BY DEF RemoveAt, before, after
  <1>4. before \o after \in Seq(S) /\ Len(before \o after) = Len(before) + Len(after)
    BY <1>1, <1>2, ConcatProperties
  <1>5. \A j \in 1 .. Len(s) - 1 :
            (before \o after)[j] = IF j <= i - 1 THEN before[j] ELSE after[j - (i - 1)]
    BY <1>1, <1>2
  <1>6. \A j \in i .. Len(s) - 1 : after[j - (i - 1)] = s[j + 1]
    <2> TAKE j \in i .. Len(s) - 1
    <2>1. j - (i - 1) \in 1 .. Len(s) - i /\ (j - (i - 1)) + i = j + 1
      OBVIOUS
    <2> QED BY <1>2, <2>1
  <1>7. ASSUME NEW j \in 1 .. i - 1
        PROVE  (before \o after)[j] = s[j]
    BY <1>1, <1>5
  <1>8. ASSUME NEW j \in i .. Len(s) - 1
        PROVE  (before \o after)[j] = s[j + 1]
    <2>1. j \in 1 .. Len(s) - 1 /\ ~(j <= i - 1)
      OBVIOUS
    <2> QED BY <1>5, <1>6, <2>1
  <1> QED BY <1>1, <1>2, <1>3, <1>4, <1>7, <1>8

LEMMA ServerInit == Init => ServerInv
  <1> SUFFICES ASSUME Init PROVE ServerInv
    OBVIOUS
  <1> USE ConstantsAssumption DEF Init
  <1>1. StartupInv
    BY DEF StartupInv
  <1>2. ListInv
    BY DEF ListInv, ListTypes, Apart, Listed, AcceptorPlaces, SelPlaces, Trying, Submits
  <1>3. BytesInv
    BY DEF BytesInv
  <1>4. EventTypes
    BY DEF EventTypes, WorkerPlaces, Kinds, Event
  <1>5. OneEventPerEntry
    <2> SUFFICES ASSUME NEW e \in Events
                 PROVE  /\ Entries(e) = 1 => UnderWay(e) + Refused(e) >= 1
                        /\ UnderWay(e) + Refused(e) <= Entries(e) + missed[e]
      BY DEF OneEventPerEntry
    <2>1. {i \in DOMAIN pool : pool[i] = e} = {} /\ {w \in Workers : ToErase(w, e)} = {}
      BY DEF ToErase
    <2>2. UnderWay(e) = 0
      <3>1. ~Submitting(e)
        BY DEF Submitting, SelAt, SubmitAt
      <3>2. UnderWay(e) = Cardinality({}) + Cardinality({}) + 0
        BY ONLY <2>1, <3>1 DEF UnderWay
      <3> QED BY ONLY <3>2, FS_EmptySet
    <2>3. Entries(e) = 0 /\ Refused(e) = 0 /\ missed[e] = 0
      BY DEF Entries, Refused, Events
    <2> QED BY <2>2, <2>3
  <1> QED BY <1>1, <1>2, <1>3, <1>4, <1>5 DEF ServerInv, EventInv

LEMMA StartupKept ==
  ASSUME StartupInv, ListTypes, [Next]_vars
  PROVE  StartupInv'
  <1> USE DEF StartupInv
  <1>1. CASE StartupStep
    BY <1>1 DEF StartupStep, Configure, Sync, StartTask, SubmitAcceptor, SubmitSelector, StartDone,
                SyncDone, SyncGivesUp, Shutdown, WaitForClose, Tell, ListTypes, Pools
  <1>2. CASE UNCHANGED <<startup, sel, closing>>
    BY <1>2 DEF startup
  <1>3. AcceptorStep => UNCHANGED <<startup, sel>> /\ closing' \subseteq Pools
    BY DEF AcceptorStep, Bind, Listen, BindFails, Shutdown, Accept, AcceptFails, PushSelector,
           Registered, Pools
  <1>4. CASE SelectorStep
    <2>1. sel.at # "off"
      BY <1>4 DEF SelectorStep, SelectRound, SelectRoundEnds, VisitOpen, VisitClosed,
                  VisitDestroyed, TryReadEnd, SearchFinds, SearchFindsNothing, SearchGoesAstray,
                  TryFindsNothing, TryFinds, InsertEntry, SelectSubmit, SelectRefused, SelAt,
                  SearchAt, TryAt, EnterAt, SubmitAt
    <2>2. UNCHANGED <<startup, closing>>
      BY <1>4 DEF SelectorStep, SelectRound, SelectRoundEnds, VisitOpen, VisitClosed,
                  VisitDestroyed, TryReadEnd, SearchFinds, SearchFindsNothing, SearchGoesAstray,
                  TryFindsNothing, TryFinds, InsertEntry, SelectSubmit, SelectRefused
    <2> QED BY <2>1, <2>2 DEF startup
  <1>5. \A w \in Workers : WorkerStep(w) => UNCHANGED <<startup, sel, closing>>
    BY DEF WorkerStep, TakeEvent, BeginErase, EraseEntry, HandleRead, Flush
  <1>6. \A ch \in Channels :
            PeerConnect(ch) \/ PeerSend(ch) \/ PeerClose(ch) => UNCHANGED <<startup, sel, closing>>
    BY DEF PeerConnect, PeerSend, PeerClose
  <1>7. AcceptorStep => StartupInv'
    BY <1>3 DEF startup
  <1> QED BY <1>1, <1>2, <1>4, <1>5, <1>6, <1>7 DEF Next, vars

--------------------------------------------------------------------------------
\* The list

LEMMA ListKept ==
  ASSUME ListInv, [Next]_vars
  PROVE  ListInv'
  <1> USE ConstantsAssumption DEF ListInv
  <1> DEFINE places == <<acceptor, sel, list, backlog, freed>>
             others == <<acceptor, list, backlog, freed>>
  <1>1. CASE UNCHANGED places
    BY <1>1 DEF ListTypes, Apart, Listed
  <1>2. CASE SubmitAcceptor \/ SubmitSelector
    <2> USE <1>2 DEF SubmitAcceptor, SubmitSelector, GoTo, ListTypes, channels, peers
    <2>1. ListTypes'
      BY DEF AcceptorPlaces, SelPlaces, Trying, Submits
    <2>2. Apart'
      BY DEF Apart, Listed
    <2> QED BY <2>1, <2>2
  <1>3. ASSUME NEW ch \in Channels, PeerConnect(ch) PROVE ListInv'
    <2> USE <1>3 DEF PeerConnect, Known, Contains, ListTypes, channels
    <2>1. ListTypes'
      OBVIOUS
    <2>2. Apart'
      BY DEF Apart, Listed
    <2> QED BY <2>1, <2>2
  <1>4. CASE Bind \/ Listen \/ BindFails \/ AcceptFails
    <2> USE <1>4 DEF Bind, Listen, BindFails, Opening, AcceptFails, AcceptSocket, ListTypes, channels, peers
    <2>1. ListTypes'
      BY DEF AcceptorPlaces
    <2>2. Apart'
      BY DEF Apart, Listed
    <2> QED BY <2>1, <2>2
  <1>5. CASE Accept
    <2> USE <1>5 DEF Accept, AcceptSocket, ListTypes
    <2>1. ListTypes'
      BY DEF AcceptorPlaces
    <2>2. Apart'
      BY DEF Apart, Listed
    <2> QED BY <2>1, <2>2
  <1>6. CASE PushSelector
    <2> USE <1>6 DEF PushSelector, ListTypes, channels, peers
    <2>1. acceptor.ch \in Channels
      BY DEF Apart
    <2>2. /\ Len(list') = Len(list) + 1 /\ list'[Len(list) + 1] = acceptor.ch
          /\ \A i \in 1 .. Len(list) : list'[i] = list[i]
      BY <2>1
    <2>3. ListTypes'
      BY <2>1, <2>2 DEF AcceptorPlaces
    <2>4. Apart'
      BY <2>2 DEF Apart, Listed
    <2> QED BY <2>3, <2>4
  <1>7. CASE Registered
    <2> USE <1>7 DEF Registered, ListTypes, channels, peers
    <2>1. ListTypes'
      BY DEF AcceptorPlaces
    <2>2. Apart'
      BY DEF Apart, Listed
    <2> QED BY <2>1, <2>2
  <1>8. CASE VisitDestroyed
    <2> USE <1>8 DEF VisitDestroyed, Free, SelAt, Current, ListTypes, peers
    <2> DEFINE gone == list[sel.i]
    <2>1. sel.i \in 1 .. Len(list) /\ gone \in Channels
      OBVIOUS
    <2>2. /\ list' \in Seq(Channels) /\ Len(list') = Len(list) - 1
          /\ \A j \in 1 .. sel.i - 1 : list'[j] = list[j]
          /\ \A j \in sel.i .. Len(list') : list'[j] = list[j + 1]
      <3>1. list' = RemoveAt(list, sel.i)
        OBVIOUS
      <3>2. /\ RemoveAt(list, sel.i) \in Seq(Channels)
            /\ Len(RemoveAt(list, sel.i)) = Len(list) - 1
            /\ \A j \in 1 .. sel.i - 1 : RemoveAt(list, sel.i)[j] = list[j]
            /\ \A j \in sel.i .. Len(list) - 1 : RemoveAt(list, sel.i)[j] = list[j + 1]
        <4>1. list \in Seq(Channels)
          OBVIOUS
        <4>2. sel.i \in 1 .. Len(list)
          BY <2>1
        <4> QED BY ONLY <4>1, <4>2, Removed
      <3> QED BY <3>1, <3>2, Zenon
    <2> DEFINE from(j) == IF j < sel.i THEN j ELSE j + 1
    <2>12. \A j \in 1 .. Len(list') : from(j) \in 1 .. Len(list) /\ from(j) # sel.i
                                     /\ list'[j] = list[from(j)]
      <3> TAKE j \in 1 .. Len(list')
      <3>1. CASE j < sel.i
        <4>1. j \in 1 .. sel.i - 1 /\ from(j) = j
          BY <2>1, <3>1
        <4> QED BY <2>1, <2>2, <4>1
      <3>2. CASE ~(j < sel.i)
        BY <2>1, <2>2, <3>2
      <3> QED BY <3>1, <3>2
    <2>13. \A i, j \in 1 .. Len(list') : from(i) = from(j) => i = j
      BY <2>1, <2>2
    <2> HIDE DEF from
    <2>3. ListTypes'
      BY <2>2 DEF SelPlaces, Trying, Submits
    <2>4. \A j \in 1 .. Len(list') : list'[j] # gone /\ Listed(list'[j])
      BY <2>1, <2>12 DEF Apart, Listed
    <2>5. \A i, j \in 1 .. Len(list') : list'[i] = list'[j] => i = j
      BY <2>12, <2>13 DEF Apart
    <2>6. \A ch \in Channels : ch # gone => freed'[ch] = freed[ch]
      OBVIOUS
    <2>7. \A ch \in backlog : ch # gone
      BY <2>1 DEF Apart, Listed
    <2>8. acceptor.at = "push" => acceptor.ch # gone
      BY <2>1 DEF Apart, Listed
    <2>9. \A ch : Listed(ch)' => Listed(ch)
      BY <2>4 DEF Listed
    <2>10. \A j \in 1 .. Len(list') : ~freed'[list'[j]]
      BY <2>2, <2>4, <2>6 DEF Apart, Listed
    <2>11. Apart'
      BY <2>5, <2>6, <2>7, <2>8, <2>9, <2>10 DEF Apart
    <2> QED BY <2>3, <2>11
  <1>9. ASSUME UNCHANGED others, sel' \in [at : SelPlaces, i : Nat],
               1 <= sel'.i, sel'.i <= Len(list) + 1, sel'.at \in Trying => sel'.i <= Len(list)
        PROVE  ListInv'
    BY <1>9 DEF ListTypes, Apart, Listed
  <1>10. CASE SelectRound \/ SelectRoundEnds \/ VisitOpen \/ VisitClosed \/ TryReadEnd
    <2>1. UNCHANGED others
      BY <1>10 DEF SelectRound, SelectRoundEnds, VisitOpen, VisitClosed, TryReadEnd, channels, peers
    <2>2. \/ sel' = [at |-> "visit", i |-> 1]
          \/ \E at \in {"ended", "sleep"} : sel' = [sel EXCEPT !.at = at]
          \/ sel.i <= Len(list) /\ \E at \in {"searchRead", "searchWrite"} : sel' = [sel EXCEPT !.at = at]
      BY <1>10 DEF SelectRound, SelectRoundEnds, VisitOpen, VisitClosed, TryReadEnd, AfterTry, SearchAt,
                   SelAt, GoTo
    <2> QED BY <1>9, <2>1, <2>2 DEF ListTypes, SelPlaces, Trying, Submits
  <1>11. ASSUME NEW kind \in Kinds,
                \/ SearchFinds(kind) \/ SearchFindsNothing(kind) \/ SearchGoesAstray(kind)
                \/ TryFindsNothing(kind) \/ TryFinds(kind) \/ InsertEntry(kind)
                \/ SelectSubmit(kind) \/ SelectRefused(kind)
         PROVE  ListInv'
    <2>1. UNCHANGED others
      BY <1>11 DEF SearchFinds, SearchFindsNothing, SearchGoesAstray, TryFindsNothing, TryFinds,
                   InsertEntry, SelectSubmit, SelectRefused, channels, peers
    <2>2. /\ sel.i <= Len(list)
          /\ \/ sel' = sel
             \/ \E at \in Trying : sel' = [sel EXCEPT !.at = at]
             \/ sel' = [at |-> "visit", i |-> sel.i + 1]
      BY <1>11 DEF SearchFinds, SearchFindsNothing, SearchGoesAstray, TryFindsNothing, TryFinds,
                   InsertEntry, SelectSubmit, SelectRefused, SelAt, SearchAt, TryAt, EnterAt,
                   SubmitAt, AfterTry, GoTo, NextChannel, Trying, Submits
    <2> QED BY <1>9, <2>1, <2>2 DEF ListTypes, SelPlaces, Trying, Submits
  <1>12. \A w \in Workers : WorkerStep(w) => UNCHANGED places
    BY DEF WorkerStep, TakeEvent, BeginErase, EraseEntry, HandleRead, Flush, channels, peers
  <1>13. StartupStep => SubmitAcceptor \/ SubmitSelector \/ UNCHANGED places
    BY DEF StartupStep, Configure, Sync, StartTask, StartDone, SyncDone, SyncGivesUp, WaitForClose,
           channels, peers
  <1>14. \A ch \in Channels : PeerSend(ch) \/ PeerClose(ch) => UNCHANGED places
    BY DEF PeerSend, PeerClose, channels
  <1>15. UNCHANGED vars => UNCHANGED places
    BY DEF vars, channels, peers
  <1> QED BY <1>1, <1>2, <1>3, <1>4, <1>5, <1>6, <1>7, <1>8, <1>10, <1>11, <1>12, <1>13, <1>14,
             <1>15 DEF Next, AcceptorStep, SelectorStep

--------------------------------------------------------------------------------
\* The bytes

LEMMA BytesKept ==
  ASSUME BytesInv, [Next]_vars
  PROVE  BytesInv'
  <1> USE ConstantsAssumption DEF BytesInv
  <1> DEFINE bytes == <<sent, input>>
  <1>1. CASE UNCHANGED bytes
    BY <1>1
  <1>2. ASSUME NEW ch \in Channels, PeerSend(ch) PROVE BytesInv'
    BY <1>2 DEF PeerSend
  <1>3. ASSUME NEW ch, input' = [input EXCEPT ![ch] = 0], sent' = sent PROVE BytesInv'
    <2>1. input' \in [Channels -> Nat]
      BY <1>3
    <2>2. \A c \in Channels : input'[c] \in {0, input[c]}
      BY <1>3
    <2> QED BY <1>3, <2>1, <2>2
  <1>4. CASE VisitDestroyed
    BY <1>3, <1>4 DEF VisitDestroyed, Free, peers
  <1>5. ASSUME NEW w \in Workers, HandleRead(w) PROVE BytesInv'
    <2>1. sent' = sent
      BY <1>5 DEF HandleRead, peers
    <2>2. UNCHANGED input \/ input' = [input EXCEPT ![job[w].ch] = 0]
      BY <1>5 DEF HandleRead
    <2> QED BY <1>1, <1>3, <2>1, <2>2
  <1>6. \A w \in Workers : TakeEvent(w) \/ BeginErase(w) \/ EraseEntry(w) \/ Flush(w) => UNCHANGED bytes
    BY DEF TakeEvent, BeginErase, EraseEntry, Flush, channels, peers
  <1>7. StartupStep \/ AcceptorStep => UNCHANGED bytes
    BY DEF StartupStep, Configure, Sync, StartTask, SubmitAcceptor, SubmitSelector, StartDone,
           SyncDone, SyncGivesUp, WaitForClose, AcceptorStep, Bind, Listen, BindFails, Accept,
           AcceptFails, PushSelector, Registered, channels, peers
  <1>8. SelectorStep => VisitDestroyed \/ UNCHANGED bytes
    BY DEF SelectorStep, SelectRound, SelectRoundEnds, VisitOpen, VisitClosed, TryReadEnd,
           SearchFinds, SearchFindsNothing, SearchGoesAstray, TryFindsNothing, TryFinds,
           InsertEntry, SelectSubmit, SelectRefused, channels, peers
  <1>9. \A ch \in Channels : PeerConnect(ch) \/ PeerClose(ch) => UNCHANGED bytes
    BY DEF PeerConnect, PeerClose, channels
  <1>10. UNCHANGED vars => UNCHANGED bytes
    BY DEF vars, channels, peers
  <1> QED BY <1>1, <1>2, <1>4, <1>5, <1>6, <1>7, <1>8, <1>9, <1>10 DEF Next, WorkerStep

--------------------------------------------------------------------------------
\* How many elements of a sequence are e, when the first is taken, or one is appended.
LEMMA CountFinite ==
  ASSUME NEW S, NEW s \in Seq(S), NEW e
  PROVE  IsFiniteSet(Places(s, e)) /\ Cardinality(Places(s, e)) \in Nat
  <1> USE DEF Places
  <1> DEFINE here == {i \in DOMAIN s : s[i] = e}
  <1>1. IsFiniteSet(1 .. Len(s))
    BY FS_Interval
  <1>2. here \in SUBSET (1 .. Len(s))
    OBVIOUS
  <1>3. IsFiniteSet(here)
    BY ONLY <1>1, <1>2, FS_Subset
  <1> QED BY <1>3, FS_CardinalityType

LEMMA CountTail ==
  ASSUME NEW S, NEW s \in Seq(S), Len(s) > 0, NEW e
  PROVE  Cardinality(Places(s, e)) = Cardinality(Places(Tail(s), e)) + (IF s[1] = e THEN 1 ELSE 0)
  <1> DEFINE all == {i \in DOMAIN s : s[i] = e}
             rest == {i \in DOMAIN Tail(s) : Tail(s)[i] = e}
             moved == {i \in 2 .. Len(s) : s[i] = e}
             f == [i \in rest |-> i + 1]
  <1>1. /\ Tail(s) \in Seq(S) /\ Len(Tail(s)) = Len(s) - 1
        /\ \A i \in 1 .. Len(s) - 1 : Tail(s)[i] = s[i + 1]
    OBVIOUS
  <1>2. rest = {i \in 1 .. Len(s) - 1 : s[i + 1] = e}
    BY <1>1
  <1>3. IsFiniteSet(rest) /\ Cardinality(rest) \in Nat
    BY <1>1, CountFinite DEF Places
  <1>4. ExistsBijection(rest, moved)
    <2>1. f \in [rest -> moved]
      BY <1>2
    <2>2. \A i, j \in rest : f[i] = f[j] => i = j
      BY <1>2
    <2>3. \A j \in moved : \E i \in rest : f[i] = j
      <3> TAKE j \in moved
      <3>1. j - 1 \in rest /\ f[j - 1] = j
        BY <1>2
      <3> QED BY <3>1
    <2> HIDE DEF f, rest, moved
    <2>4. f \in Bijection(rest, moved)
      BY <2>1, <2>2, <2>3 DEF Bijection, Injection, Surjection, IsInjective
    <2> QED BY <2>4 DEF ExistsBijection
  <1>5. IsFiniteSet(moved) /\ Cardinality(moved) = Cardinality(rest)
    BY ONLY <1>3, <1>4, FS_Bijection
  <1>6. all = IF s[1] = e THEN moved \cup {1} ELSE moved
    OBVIOUS
  <1>7. 1 \notin moved
    OBVIOUS
  <1> HIDE DEF all, rest, moved
  <1>8. Cardinality(moved \cup {1}) = Cardinality(moved) + 1
    BY ONLY <1>5, <1>7, FS_AddElement
  <1>9. Cardinality(all) = Cardinality(rest) + (IF s[1] = e THEN 1 ELSE 0)
    BY <1>3, <1>5, <1>6, <1>8
  <1> QED BY <1>9 DEF all, rest, Places

LEMMA CountAppend ==
  ASSUME NEW S, NEW s \in Seq(S), NEW x \in S, NEW e
  PROVE  Cardinality(Places(Append(s, x), e)) = Cardinality(Places(s, e)) + (IF x = e THEN 1 ELSE 0)
  <1> DEFINE here == {i \in DOMAIN s : s[i] = e}
             all == {i \in DOMAIN Append(s, x) : Append(s, x)[i] = e}
             last == Len(s) + 1
  <1>1. IsFiniteSet(here) /\ Cardinality(here) \in Nat
    BY CountFinite DEF Places
  <1>2. all = IF x = e THEN here \cup {last} ELSE here
    OBVIOUS
  <1>3. last \notin here
    OBVIOUS
  <1> HIDE DEF all, here, last
  <1>4. Cardinality(here \cup {last}) = Cardinality(here) + 1
    BY ONLY <1>1, <1>3, FS_AddElement
  <1>5. Cardinality(all) = Cardinality(here) + (IF x = e THEN 1 ELSE 0)
    BY <1>1, <1>2, <1>4
  <1> QED BY <1>5 DEF all, here, Places

--------------------------------------------------------------------------------
\* The events

\* The numbers that are compared.
LEMMA Numbers ==
  ASSUME EventTypes, NEW e \in Events
  PROVE  /\ IsFiniteSet(InPool(e)) /\ IsFiniteSet(WithWorkers(e))
         /\ Cardinality(InPool(e)) \in Nat /\ Cardinality(WithWorkers(e)) \in Nat
         /\ UnderWay(e) = Cardinality(InPool(e)) + Cardinality(WithWorkers(e))
                            + (IF Submitting(e) THEN 1 ELSE 0)
         /\ UnderWay(e) \in Nat /\ Entries(e) \in {0, 1} /\ Refused(e) \in {0, 1} /\ missed[e] \in Nat
  <1>1. IsFiniteSet(InPool(e)) /\ Cardinality(InPool(e)) \in Nat
    <2>1. pool \in Seq(Events)
      BY DEF EventTypes
    <2> QED BY ONLY <2>1, CountFinite DEF InPool
  <1>2. IsFiniteSet(WithWorkers(e)) /\ Cardinality(WithWorkers(e)) \in Nat
    <2>1. WithWorkers(e) \in SUBSET Workers
      BY DEF WithWorkers
    <2>2. IsFiniteSet(WithWorkers(e))
      BY <2>1, ConstantsAssumption, FS_Subset
    <2> QED BY <2>2, FS_CardinalityType
  <1>3. UnderWay(e) = Cardinality(InPool(e)) + Cardinality(WithWorkers(e))
                        + (IF Submitting(e) THEN 1 ELSE 0)
    BY DEF UnderWay, InPool, Places, WithWorkers
  <1>4. UnderWay(e) \in Nat
    BY <1>1, <1>2, <1>3
  <1> QED BY <1>1, <1>2, <1>3, <1>4 DEF Entries, Refused, EventTypes

\* A step that leaves the events where they are keeps the invariant.
LEMMA EventsStay ==
  ASSUME EventInv, UNCHANGED <<map, pool, left, missed>>,
         job' \in [Workers -> [ch : Channels \cup {NoChannel}, kind : Kinds]],
         pc' \in [Workers -> WorkerPlaces],
         \A w \in Workers :
            /\ pc'[w] \in {"erase", "erasing"} <=> pc[w] \in {"erase", "erasing"}
            /\ pc[w] \in {"erase", "erasing"} => job'[w] = job[w],
         \A e \in Events : Submitting(e)' <=> Submitting(e)
  PROVE  EventInv'
  <1> USE DEF EventInv
  <1>1. EventTypes'
    BY DEF EventTypes
  <1>2. ASSUME NEW e \in Events
        PROVE  UnderWay(e)' = UnderWay(e)
    <2>1. {w \in Workers : ToErase(w, e)'} = {w \in Workers : ToErase(w, e)}
      BY DEF ToErase
    <2> QED BY <1>2, <2>1 DEF UnderWay
  <1>3. \A e \in Events : Entries(e)' = Entries(e) /\ Refused(e)' = Refused(e) /\ missed'[e] = missed[e]
    BY DEF Entries, Refused
  <1> QED BY <1>1, <1>2, <1>3 DEF OneEventPerEntry

\* The event at the head of the queue goes to a worker.
LEMMA EventTaken ==
  ASSUME EventInv, NEW w \in Workers, TakeEvent(w)
  PROVE  EventInv'
  <1> USE DEF EventInv
  <1>1. /\ pool \in Seq(Events) /\ Len(pool) > 0 /\ pool' = Tail(pool) /\ pool[1] \in Events
        /\ pc[w] = "idle" /\ pc' = [pc EXCEPT ![w] = "erase"]
        /\ job' = [job EXCEPT ![w] = pool[1]]
        /\ UNCHANGED <<sel, list, map, left, missed>>
    BY DEF EventTypes, TakeEvent, At, To
  <1>2. EventTypes'
    <2>1. pool' \in Seq(Events) /\ Len(pool') = Len(pool) - 1
      BY <1>1
    <2>2. pc' \in [Workers -> WorkerPlaces]
      BY <1>1 DEF EventTypes, WorkerPlaces
    <2>3. job' \in [Workers -> [ch : Channels \cup {NoChannel}, kind : Kinds]]
      BY <1>1 DEF EventTypes, Events
    <2>4. \A v \in Workers : pc'[v] \in {"erase", "erasing"} => job'[v] \in Events
      BY <1>1 DEF EventTypes
    <2>5. Len(pool') <= QueueLength
      BY <2>1, <1>1, ConstantsAssumption DEF EventTypes
    <2> QED BY <1>1, <2>1, <2>2, <2>3, <2>4, <2>5 DEF EventTypes
  <1>3. ASSUME NEW e \in Events
        PROVE  UnderWay(e)' = UnderWay(e)
    <2> DEFINE one == IF pool[1] = e THEN 1 ELSE 0
    <2>1. Cardinality(InPool(e)) = Cardinality(InPool(e)') + one
      <3>1. pool \in Seq(Events) /\ Len(pool) > 0 /\ pool' = Tail(pool)
        BY <1>1
      <3>2. Cardinality(Places(pool, e)) = Cardinality(Places(Tail(pool), e)) + one
        BY ONLY <3>1, CountTail
      <3> QED BY ONLY <3>1, <3>2 DEF InPool
    <2>2. Cardinality(InPool(e)') \in Nat
      <3>1. pool' \in Seq(Events)
        BY <1>2 DEF EventTypes
      <3> QED BY ONLY <3>1, CountFinite DEF InPool
    <2>3. WithWorkers(e)' = IF pool[1] = e THEN WithWorkers(e) \cup {w} ELSE WithWorkers(e)
      BY <1>1 DEF WithWorkers, ToErase, EventTypes
    <2>4. w \notin WithWorkers(e)
      BY <1>1 DEF WithWorkers, ToErase
    <2>5. Cardinality(WithWorkers(e) \cup {w}) = Cardinality(WithWorkers(e)) + 1
      BY <2>4, Numbers, FS_AddElement
    <2>6. Cardinality(WithWorkers(e)') = Cardinality(WithWorkers(e)) + one
      BY <2>3, <2>5, Numbers
    <2>7. Submitting(e)' <=> Submitting(e)
      BY <1>1 DEF Submitting, SelAt, Current
    <2>8. UnderWay(e)' = Cardinality(InPool(e)') + Cardinality(WithWorkers(e)')
                           + (IF Submitting(e) THEN 1 ELSE 0)
      BY <2>7 DEF UnderWay, InPool, Places, WithWorkers
    <2> QED BY <2>1, <2>2, <2>6, <2>8, Numbers
  <1>4. \A e \in Events : Entries(e)' = Entries(e) /\ Refused(e)' = Refused(e) /\ missed'[e] = missed[e]
    BY <1>1 DEF Entries, Refused
  <1> QED BY <1>2, <1>3, <1>4 DEF OneEventPerEntry

\* The worker takes the entry of its event out of the map, whichever event it was made for.
LEMMA EventErased ==
  ASSUME EventInv, NEW w \in Workers, EraseEntry(w)
  PROVE  EventInv'
  <1> USE DEF EventInv
  <1>7. ToErase(w, job[w]) /\ job[w] \in Events
    BY DEF EventTypes, EraseEntry, At, ToErase
  <1>8. PICK e \in Events : e = job[w]
    BY <1>7
  <1>1. /\ job[w] = e /\ pc[w] = "erasing" /\ pc' = [pc EXCEPT ![w] = "handle"]
        /\ map' = [map EXCEPT ![e.kind] = @ \ {e.ch}] /\ left' = left \ {e}
        /\ UNCHANGED <<sel, list, pool, missed, job>>
    BY <1>8 DEF EventTypes, EraseEntry, At, To
  <1>2. EventTypes'
    <2>1. pc' \in [Workers -> WorkerPlaces]
      BY <1>1 DEF EventTypes, WorkerPlaces
    <2>2. map' \in [Kinds -> SUBSET Channels]
      BY <1>1 DEF EventTypes, Events
    <2>3. \A v \in Workers : pc'[v] \in {"erase", "erasing"} => job'[v] \in Events
      BY <1>1 DEF EventTypes
    <2> QED BY <1>1, <2>1, <2>2, <2>3 DEF EventTypes
  <1>3. ASSUME NEW f \in Events
        PROVE  UnderWay(f)' = UnderWay(f) - (IF f = e THEN 1 ELSE 0)
    <2>1. WithWorkers(f)' = IF f = e THEN WithWorkers(f) \ {w} ELSE WithWorkers(f)
      BY <1>1 DEF WithWorkers, ToErase, EventTypes
    <2>2. f = e => w \in WithWorkers(f)
      BY <1>1 DEF WithWorkers, ToErase
    <2>3. f = e => Cardinality(WithWorkers(f) \ {w}) = Cardinality(WithWorkers(f)) - 1
      BY <2>2, Numbers, FS_RemoveElement
    <2>4. InPool(f)' = InPool(f) /\ (Submitting(f)' <=> Submitting(f))
      BY <1>1 DEF InPool, Submitting, SelAt, Current
    <2>5. UnderWay(f)' = Cardinality(InPool(f)) + Cardinality(WithWorkers(f)')
                           + (IF Submitting(f) THEN 1 ELSE 0)
      BY <2>4 DEF UnderWay, InPool, Places, WithWorkers
    <2> QED BY <2>1, <2>3, <2>5, Numbers
  <1>4. Entries(e)' = 0 /\ Refused(e)' = 0
    BY <1>1 DEF Entries, Refused, EventTypes, Events
  <1>5. \A f \in Events \ {e} : Entries(f)' = Entries(f) /\ Refused(f)' = Refused(f)
    <2> TAKE f \in Events \ {e}
    <2>1. f.ch # e.ch \/ f.kind # e.kind
      BY DEF Events
    <2>2. f.ch \in map'[f.kind] <=> f.ch \in map[f.kind]
      BY <1>1, <2>1 DEF EventTypes, Events
    <2>3. f \in left' <=> f \in left
      BY <1>1
    <2> QED BY <2>2, <2>3 DEF Entries, Refused
  <1>6. ASSUME NEW f \in Events
        PROVE  /\ Entries(f)' = 1 => UnderWay(f)' + Refused(f)' >= 1
               /\ UnderWay(f)' + Refused(f)' <= Entries(f)' + missed'[f]
    <2>1. /\ Entries(f) = 1 => UnderWay(f) + Refused(f) >= 1
          /\ UnderWay(f) + Refused(f) <= Entries(f) + missed[f]
      BY DEF OneEventPerEntry
    <2>2. missed'[f] = missed[f]
      BY <1>1
    <2>3. CASE f = e
      BY <1>3, <1>4, <2>1, <2>2, <2>3, Numbers
    <2>4. CASE f # e
      BY <1>3, <1>5, <2>1, <2>2, <2>4, Numbers
    <2> QED BY <2>3, <2>4
  <1> QED BY <1>2, <1>6 DEF OneEventPerEntry

\* The selector makes an entry for the event that it is going to submit. An entry that is
\* there has been missed.
LEMMA EventEntered ==
  ASSUME ListInv, EventInv, NEW kind \in Kinds, InsertEntry(kind)
  PROVE  EventInv'
  <1> USE DEF EventInv
  <1>9. Current \in Channels /\ Event(Current, kind) \in Events
    BY DEF ListInv, ListTypes, SelAt, Current, Event, Events, InsertEntry
  <1>10. PICK e \in Events : e = Event(Current, kind)
    BY <1>9
  <1>1. /\ Current \in Channels /\ e.ch = Current /\ e.kind = kind
        /\ sel.at = EnterAt(kind) /\ sel.i <= Len(list) /\ sel' = [sel EXCEPT !.at = SubmitAt(kind)]
        /\ map' = [map EXCEPT ![kind] = @ \cup {Current}]
        /\ missed' = [missed EXCEPT ![e] = IF Current \in map[kind] THEN @ + 1 ELSE @]
        /\ UNCHANGED <<list, pool, left, job, pc>>
    BY <1>9, <1>10 DEF SelAt, Event, GoTo, InsertEntry, work
  <1>2. EventTypes'
    <2>1. missed' \in [Events -> Nat]
      BY <1>1 DEF EventTypes
    <2>2. map' \in [Kinds -> SUBSET Channels]
      BY <1>1 DEF EventTypes
    <2> QED BY <1>1, <2>1, <2>2 DEF EventTypes
  <1>3. \A f \in Events : ~Submitting(f) /\ (Submitting(f)' <=> f = e)
    <2>1. sel'.at = SubmitAt(kind) /\ sel'.i = sel.i /\ Current' = Current
      BY <1>1 DEF ListInv, ListTypes, Current
    <2>2. \A k \in Kinds : /\ EnterAt(kind) # SubmitAt(k)
                           /\ SubmitAt(kind) = SubmitAt(k) <=> k = kind
      BY DEF Kinds, EnterAt, SubmitAt
    <2>3. \A f \in Events : f = e <=> f.ch = Current /\ f.kind = kind
      BY <1>1 DEF Events, Event
    <2>4. \A f \in Events : ~Submitting(f)
      BY <1>1, <2>2 DEF Submitting, SelAt, Events
    <2>5. \A f \in Events : Submitting(f)' <=> f.kind = kind /\ f.ch = Current
      BY <1>1, <2>1, <2>2 DEF Submitting, SelAt, Events
    <2> QED BY <2>3, <2>4, <2>5
  <1>4. ASSUME NEW f \in Events
        PROVE  UnderWay(f)' = UnderWay(f) + (IF f = e THEN 1 ELSE 0)
    <2>1. InPool(f)' = InPool(f) /\ WithWorkers(f)' = WithWorkers(f)
      BY <1>1 DEF InPool, WithWorkers, ToErase
    <2>2. UnderWay(f)' = Cardinality(InPool(f)) + Cardinality(WithWorkers(f)) + (IF f = e THEN 1 ELSE 0)
      BY <1>3, <2>1 DEF UnderWay, InPool, Places, WithWorkers
    <2> QED BY <1>3, <2>2, Numbers
  <1>5. \A f \in Events : Refused(f)' = Refused(f)
    BY <1>1 DEF Refused
  <1>6. /\ Entries(e)' = 1
        /\ Entries(e) = 0 => missed'[e] = missed[e]
        /\ Entries(e) = 1 => missed'[e] = missed[e] + 1
    BY <1>1 DEF Entries, EventTypes
  <1>7. \A f \in Events \ {e} : Entries(f)' = Entries(f) /\ missed'[f] = missed[f]
    <2> TAKE f \in Events \ {e}
    <2>1. f.ch # e.ch \/ f.kind # e.kind
      BY DEF Events
    <2>2. f.ch \in map'[f.kind] <=> f.ch \in map[f.kind]
      BY <1>1, <2>1 DEF EventTypes, Events
    <2> QED BY <1>1, <2>2 DEF Entries, EventTypes
  <1>8. ASSUME NEW f \in Events
        PROVE  /\ Entries(f)' = 1 => UnderWay(f)' + Refused(f)' >= 1
               /\ UnderWay(f)' + Refused(f)' <= Entries(f)' + missed'[f]
    <2>1. /\ Entries(f) = 1 => UnderWay(f) + Refused(f) >= 1
          /\ UnderWay(f) + Refused(f) <= Entries(f) + missed[f]
      BY DEF OneEventPerEntry
    <2>2. CASE f = e
      BY <1>4, <1>5, <1>6, <2>1, <2>2, Numbers
    <2>3. CASE f # e
      BY <1>4, <1>5, <1>7, <2>1, <2>3, Numbers
    <2> QED BY <2>2, <2>3
  <1> QED BY <1>2, <1>8 DEF OneEventPerEntry

\* The event goes to the end of the queue, or is refused.
LEMMA EventSubmitted ==
  ASSUME ListInv, EventInv, NEW kind \in Kinds, SelectSubmit(kind) \/ SelectRefused(kind)
  PROVE  EventInv'
  <1> USE DEF EventInv
  <1>9. Current \in Channels /\ Event(Current, kind) \in Events
    BY DEF ListInv, ListTypes, SelAt, Current, Event, Events, SelectSubmit, SelectRefused
  <1>10. PICK e \in Events : e = Event(Current, kind)
    BY <1>9
  <1>1. /\ e.ch = Current /\ e.kind = kind
        /\ SelAt(SubmitAt(kind)) /\ UNCHANGED <<map, missed, job, pc>>
    BY <1>10 DEF Event, SelectSubmit, SelectRefused, work
  <1>2. \A f \in Events : Submitting(f) <=> f = e
    BY <1>1 DEF Submitting, SelAt, SubmitAt, Kinds, Events, Event
  <1>3. \A f \in Events : ~Submitting(f)'
    <2>1. sel'.at \in {"visit", "searchWrite"}
      BY DEF SelectSubmit, SelectRefused, AfterTry, GoTo, NextChannel, SearchAt, ListInv, ListTypes
    <2> QED BY <2>1 DEF Events, Submitting, SelAt, SubmitAt
  <1>4. \A f \in Events : /\ Entries(f)' = Entries(f) /\ missed'[f] = missed[f]
                          /\ WithWorkers(f)' = WithWorkers(f)
    BY <1>1 DEF Entries, WithWorkers, ToErase
  <1>5. \A f \in Events : UnderWay(f)' = Cardinality(InPool(f)') + Cardinality(WithWorkers(f)')
    <2> TAKE f \in Events
    <2>1. UnderWay(f)' = Cardinality(InPool(f)') + Cardinality(WithWorkers(f)') + 0
      BY <1>3 DEF UnderWay, InPool, Places, WithWorkers
    <2>2. Cardinality(WithWorkers(f)') \in Nat
      BY <1>4, Numbers
    <2>3. Cardinality(InPool(f)') \in Nat
      <3>1. pool' \in Seq(Events)
        <4>1. pool \in Seq(Events)
          BY DEF EventTypes
        <4>2. pool' = pool \/ pool' = Append(pool, Event(Current, kind))
          BY DEF SelectSubmit, SelectRefused, Submit
        <4> QED BY ONLY <1>9, <4>1, <4>2
      <3> QED BY <3>1, CountFinite DEF InPool
    <2> QED BY <2>1, <2>2, <2>3
  <1>6. \A f \in Events : /\ Entries(f) = 1 => UnderWay(f) + Refused(f) >= 1
                          /\ UnderWay(f) + Refused(f) <= Entries(f) + missed[f]
    BY DEF OneEventPerEntry
  <1>7. CASE SelectSubmit(kind)
    <2>1. pool' = Append(pool, e) /\ Len(pool) < QueueLength /\ left' = left
      BY <1>7, <1>10 DEF SelectSubmit, Submit
    <2>2. EventTypes'
      <3>1. pool' \in Seq(Events) /\ Len(pool') = Len(pool) + 1 /\ Len(pool') <= QueueLength
        BY <1>1, <2>1, ConstantsAssumption DEF EventTypes
      <3> QED BY <1>1, <2>1, <3>1 DEF EventTypes
    <2>3. ASSUME NEW f \in Events
          PROVE  UnderWay(f)' = UnderWay(f) /\ Refused(f)' = Refused(f)
      <3>1. Cardinality(InPool(f)') = Cardinality(InPool(f)) + (IF e = f THEN 1 ELSE 0)
        <4>1. pool \in Seq(Events)
          BY DEF EventTypes
        <4>2. e \in Events /\ pool' = Append(pool, e)
          BY <1>1, <2>1
        <4>3. Cardinality(Places(Append(pool, e), f)) = Cardinality(Places(pool, f)) + (IF e = f THEN 1 ELSE 0)
          BY <4>1, <4>2, CountAppend
        <4> QED BY ONLY <4>2, <4>3 DEF InPool
      <3>2. UnderWay(f) = Cardinality(InPool(f)) + Cardinality(WithWorkers(f)) + (IF e = f THEN 1 ELSE 0)
        BY <1>2, Numbers
      <3> QED BY <1>4, <1>5, <2>1, <3>1, <3>2, Numbers DEF Refused
    <2> QED BY <1>4, <1>6, <2>2, <2>3 DEF OneEventPerEntry
  <1>8. CASE SelectRefused(kind)
    <2>1. pool' = pool /\ left' = left \cup {e}
      BY <1>8, <1>10 DEF SelectRefused
    <2>2. EventTypes'
      BY <1>1, <2>1 DEF EventTypes
    <2>3. ASSUME NEW f \in Events
          PROVE  /\ Entries(f)' = 1 => UnderWay(f)' + Refused(f)' >= 1
                 /\ UnderWay(f)' + Refused(f)' <= Entries(f)' + missed'[f]
      <3>1. InPool(f)' = InPool(f)
        BY <2>1 DEF InPool
      <3>2. UnderWay(f) = UnderWay(f)' + (IF e = f THEN 1 ELSE 0) /\ UnderWay(f)' \in Nat
        BY <1>2, <1>4, <1>5, <3>1, Numbers
      <3>3. Refused(f)' = IF e = f THEN 1 ELSE Refused(f)
        BY <1>1, <2>1 DEF Refused
      <3> QED BY <1>4, <1>6, <3>2, <3>3, Numbers
    <2> QED BY <2>2, <2>3 DEF OneEventPerEntry
  <1> QED BY <1>7, <1>8

LEMMA EventsKept ==
  ASSUME StartupInv, ListInv, EventInv, [Next]_vars
  PROVE  EventInv'
  <1> DEFINE kept == <<map, pool, left, missed, job, pc>>
  <1>1. ASSUME UNCHANGED kept, \A e \in Events : Submitting(e)' <=> Submitting(e)
        PROVE  EventInv'
    BY <1>1, EventsStay DEF EventInv, EventTypes
  <1>2. ASSUME UNCHANGED kept, UNCHANGED <<sel, list>> PROVE EventInv'
    <2>1. \A e \in Events : Submitting(e)' <=> Submitting(e)
      BY <1>2 DEF Submitting, SelAt, Current
    <2> QED BY <1>1, <1>2, <2>1
  <1>3. ASSUME UNCHANGED kept, sel.at \notin Submits, sel'.at \notin Submits
        PROVE  EventInv'
    <2>1. \A e \in Events : ~Submitting(e) /\ ~Submitting(e)'
      BY <1>3 DEF Events, Submitting, SelAt, SubmitAt, Submits
    <2> QED BY <1>1, <1>3, <2>1
  <1>4. CASE StartupStep
    <2>1. UNCHANGED kept /\ (UNCHANGED <<sel, list>> \/ (SubmitSelector /\ "worker" \notin closing))
      BY <1>4 DEF StartupStep, Configure, Sync, StartTask, SubmitAcceptor, SubmitSelector,
                  StartDone, SyncDone, SyncGivesUp, WaitForClose, events, work
    <2>2. SubmitSelector /\ "worker" \notin closing => sel.at = "off" /\ sel'.at = "sleep"
      BY DEF SubmitSelector, StartupInv, ListInv, ListTypes
    <2> QED BY <1>2, <1>3, <2>1, <2>2 DEF Submits
  <1>5. CASE PushSelector
    <2>1. /\ UNCHANGED kept /\ sel' = sel /\ Len(list') = Len(list) + 1
          /\ \A i \in 1 .. Len(list) : list'[i] = list[i]
      BY <1>5 DEF PushSelector, events, work, ListInv, ListTypes, Apart
    <2>2. sel.i \in 1 .. Len(list) + 1 /\ (sel.at \in Trying => sel.i \in 1 .. Len(list))
      BY DEF ListInv, ListTypes
    <2>3. sel.at \in Trying => \A e \in Events : Submitting(e)' <=> Submitting(e)
      BY <2>1, <2>2 DEF Submitting, SelAt, Current, ListInv, ListTypes
    <2> QED BY <1>1, <1>3, <2>1, <2>3 DEF Trying
  <1>6. CASE Bind \/ Listen \/ BindFails \/ Accept \/ AcceptFails \/ Registered
    BY <1>2, <1>6 DEF Bind, Listen, BindFails, Accept, AcceptFails, Registered, events, work
  <1>7. CASE SelectRound \/ SelectRoundEnds \/ VisitOpen \/ VisitClosed \/ VisitDestroyed \/ TryReadEnd
    <2>1. UNCHANGED kept
      BY <1>7 DEF SelectRound, SelectRoundEnds, VisitOpen, VisitClosed, VisitDestroyed,
                  TryReadEnd, events, work
    <2>2. sel.at \notin Submits /\ sel'.at \notin Submits
      BY <1>7 DEF SelectRound, SelectRoundEnds, VisitOpen, VisitClosed, VisitDestroyed, TryReadEnd,
                  SelAt, TryAt, SearchAt, AfterTry, GoTo, ListInv, ListTypes, Submits
    <2> QED BY <1>3, <2>1, <2>2
  <1>8. ASSUME NEW kind \in Kinds,
               \/ SearchFinds(kind) \/ SearchFindsNothing(kind) \/ SearchGoesAstray(kind)
               \/ TryFindsNothing(kind) \/ TryFinds(kind)
        PROVE  EventInv'
    <2>1. UNCHANGED kept
      BY <1>8 DEF SearchFinds, SearchFindsNothing, SearchGoesAstray, TryFindsNothing, TryFinds,
                  events, work
    <2>2. sel.at \notin Submits /\ sel'.at \notin Submits
      BY <1>8 DEF SearchFinds, SearchFindsNothing, SearchGoesAstray, TryFindsNothing, TryFinds,
                  SelAt, SearchAt, TryAt, EnterAt, AfterTry, NextChannel, GoTo, ListInv, ListTypes,
                  Submits
    <2> QED BY <1>3, <2>1, <2>2
  <1>9. ASSUME NEW w \in Workers, BeginErase(w) \/ HandleRead(w) \/ Flush(w) PROVE EventInv'
    <2>1. /\ UNCHANGED <<map, pool, left, missed, sel, list>>
          /\ \/ pc[w] = "erase" /\ pc' = [pc EXCEPT ![w] = "erasing"] /\ job' = job
             \/ /\ pc[w] \in {"handle", "flush"}
                /\ \/ pc' = [pc EXCEPT ![w] = "flush"] /\ job' = job
                   \/ /\ pc' = [pc EXCEPT ![w] = "idle"]
                      /\ job' = [job EXCEPT ![w] = Event(NoChannel, "read")]
      BY <1>9 DEF BeginErase, HandleRead, Flush, AtFlush, At, To, Done, events
    <2>2. \A e \in Events : Submitting(e)' <=> Submitting(e)
      BY <2>1 DEF Submitting, SelAt, Current
    <2>3. /\ job' \in [Workers -> [ch : Channels \cup {NoChannel}, kind : Kinds]]
          /\ pc' \in [Workers -> WorkerPlaces]
          /\ \A v \in Workers :
                /\ pc'[v] \in {"erase", "erasing"} <=> pc[v] \in {"erase", "erasing"}
                /\ pc[v] \in {"erase", "erasing"} => job'[v] = job[v]
      BY <2>1 DEF EventInv, EventTypes, Event, Kinds, WorkerPlaces
    <2> QED BY <2>1, <2>2, <2>3, EventsStay
  <1>10. ASSUME NEW ch \in Channels, PeerConnect(ch) \/ PeerSend(ch) \/ PeerClose(ch)
         PROVE  EventInv'
    BY <1>2, <1>10 DEF PeerConnect, PeerSend, PeerClose, events, work
  <1>11. CASE UNCHANGED vars
    BY <1>2, <1>11 DEF vars, events, work
  <1> QED BY <1>4, <1>5, <1>6, <1>7, <1>8, <1>9, <1>10, <1>11, EventTaken, EventErased,
             EventEntered, EventSubmitted DEF Next, AcceptorStep, SelectorStep, WorkerStep

LEMMA Invariant == Spec => []ServerInv
  <1>1. ServerInv /\ [Next]_vars => ServerInv'
    BY StartupKept, ListKept, BytesKept, EventsKept DEF ServerInv, ListInv
  <1> QED BY ServerInit, <1>1, PTL DEF Spec

--------------------------------------------------------------------------------
\* Types; nothing in the selector's list has been freed, no channel is in it twice, the
\* selector's place is never beyond its end, and nothing more is read than was sent.
THEOREM ServerTypes == Spec => []TypeOK
  <1>1. ServerInv => TypeOK
    <2> SUFFICES ASSUME ServerInv PROVE TypeOK
      OBVIOUS
    <2> USE ConstantsAssumption DEF ServerInv
    <2>1. list \in Seq({ch \in Channels : ~freed[ch]}) /\ IsInjective(list)
      <3>1. /\ list \in Seq(Channels) /\ \A i \in 1 .. Len(list) : ~freed[list[i]]
            /\ \A i, j \in 1 .. Len(list) : list[i] = list[j] => i = j
        BY DEF ListInv, ListTypes, Apart
      <3> QED BY <3>1 DEF IsInjective
    <2>2. sel.i \in 1 .. Len(list) + 1
      BY DEF ListInv, ListTypes
    <2>3. \A i \in DOMAIN pool : pool[i].ch \in Channels /\ pool[i].kind \in Kinds
      <3>1. \A i \in DOMAIN pool : pool[i] \in Events
        BY DEF EventInv, EventTypes
      <3> QED BY <3>1 DEF Events
    <2>4. \A w \in Workers : pc[w] \in WorkerPlaces
      BY DEF EventInv, EventTypes
    <2>5. \A ch \in Channels : sent[ch] \in Nat /\ input[ch] \in 0 .. sent[ch]
      BY DEF BytesInv
    <2>6. acceptor.at \in AcceptorPlaces /\ acceptor.ch \in Channels \cup {NoChannel} /\ sel.at \in SelPlaces
      BY DEF ListInv, ListTypes
    <2>7. SelPlaces = {"off", "sleep", "visit", "ended"}
                        \cup {SearchAt(k) : k \in Kinds} \cup {TryAt(k) : k \in Kinds}
                        \cup {EnterAt(k) : k \in Kinds} \cup {SubmitAt(k) : k \in Kinds}
      BY DEF SelPlaces, Trying, Submits, Kinds, SearchAt, TryAt, EnterAt, SubmitAt
    <2> QED BY <2>1, <2>2, <2>3, <2>4, <2>5, <2>6, <2>7 DEF TypeOK, StartupInv, EventInv, EventTypes, WorkerPlaces,
               AcceptorPlaces
  <1> QED BY <1>1, Invariant, PTL

\* The maps of dispatched events agree with the events under way, however selector, workers
\* and acceptor interleave: no entry is without an event, and a channel has more than one
\* event under way only for entries that the selector missed.
THEOREM EntriesMatchEvents == Spec => []OneEventPerEntry
  <1>1. ServerInv => OneEventPerEntry
    BY DEF ServerInv, EventInv
  <1> QED BY <1>1, Invariant, PTL
================================================================================
