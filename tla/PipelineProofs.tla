----------------------------- MODULE PipelineProofs -----------------------------
(***************************************************************************)
(* The chain and its walks, for every set of handlers of any kinds, every  *)
(* number of threads, and writes nested to any depth.                      *)
(***************************************************************************)
EXTENDS Pipeline, SequenceTheorems, TLAPS

--------------------------------------------------------------------------------
\* The inductive invariant

\* The contexts in a row: the head, the handlers in their order, the tail.
Spot(k) == IF k = 0 THEN m_head ELSE IF k = Len(order) + 1 THEN m_tail ELSE order[k]
Spots == 0 .. Len(order) + 1

OrderInv ==
    /\ order \in Seq(Handlers)
    /\ \A i, j \in 1 .. Len(order) : order[i] = order[j] => i = j
    /\ ~Building => \A h \in Handlers : \E k \in 1 .. Len(order) : order[k] = h

\* The links go along the row, until the destructor has begun.
LinkInv ==
    deleted = {} =>
        /\ \A k \in 0 .. Len(order) : m_next[Spot(k)] = Spot(k + 1) /\ m_prev[Spot(k + 1)] = Spot(k)
        /\ m_next[m_tail] = NULL /\ m_prev[m_head] = NULL
        /\ \A h \in Handlers :
              h \notin ToSet(order) => m_next[h] = NULL /\ m_prev[h] = NULL

\* The contexts that the destructor has still to delete are linked.
EndInv ==
    /\ deleting # NULL =>
          \E i \in Spots :
              /\ deleting = Spot(i) /\ deleted = {Spot(k) : k \in 0 .. i - 1}
              /\ \A k \in i .. Len(order) : m_next[Spot(k)] = Spot(k + 1)
              /\ m_next[m_tail] = NULL
    /\ deleting = NULL /\ deleted # {} => deleted = Contexts

\* Nobody is in the pipeline while it is made and destroyed.
QuietInv ==
    /\ Building =>
          /\ deleting = NULL /\ deleted = {} /\ m_destroyed = FALSE
          /\ \A t \in Threads :
                stack[t] = <<>> /\ m_in_outbound[t] = FALSE /\ m_current_context[t] = NULL
    /\ deleting # NULL \/ deleted # {} => \A t \in Threads : stack[t] = <<>>

Walks ==
    [call : {"read", "write", "event"}, at : Contexts, running : BOOLEAN, from : Contexts,
     called : Seq(Handlers), ofRead : BOOLEAN, made : [Transforming -> Nat],
     encoded : [Transforming -> Nat], stale : BOOLEAN, writer : Contexts, again : BOOLEAN]

Types ==
    /\ m_next \in [Contexts -> Contexts \cup {NULL}] /\ m_prev \in [Contexts -> Contexts \cup {NULL}]
    /\ m_elg \subseteq Contexts /\ deleted \subseteq Contexts /\ deleting \in Contexts \cup {NULL}
    /\ m_destroyed \in BOOLEAN /\ crashed \in BOOLEAN
    /\ m_type_local \in [Transforming -> [Threads -> Nat \cup {NoList}]]
    /\ m_in_outbound \in [Threads -> BOOLEAN] /\ stale \in [Threads -> BOOLEAN]
    /\ m_current_context \in [Threads -> Handlers \cup {NULL}]
    /\ stack \in [Threads -> Seq(Walks)]

\* Only a write is made inside another walk, by the handler that runs there.
Nested(s) ==
    /\ \A i \in 1 .. Len(s) - 1 : s[i].running = TRUE
    /\ \A i \in 2 .. Len(s) : s[i].call = "write"

\* The lists of a thread.
Lists(t) == [h \in Transforming |-> Local(h, t)]

\* A walk to the tail that has been at the first q handlers.
KindOf(call) == IF call = "read" THEN Inbound ELSE Callback

WalkedDown(lists, w, q) ==
    /\ Forward(w.called, 1 .. q, KindOf(w.call))
    /\ w.call = "read" => \A j \in 1 .. Len(order) : order[j] \in Transforming =>
           w.made[order[j]] = IF j <= q THEN lists[order[j]] ELSE 0

DownInv(lists, w) ==
    \E k \in 1 .. Len(order) + 1 :
        /\ w.at = Spot(k)
        /\ w.running = TRUE => k <= Len(order) /\ WalkedDown(lists, w, k)
        /\ w.running = FALSE => WalkedDown(lists, w, k - 1)

\* A walk to the head that has been at the handlers from place q to before place m.
WalkedUp(lists, w, q, m) ==
    /\ w.stale = FALSE => Backward(w.called, q .. m - 1, Outbound)
    /\ w.ofRead = TRUE =>
          /\ m = Len(order) + 1
          /\ \A j \in 1 .. Len(order) : order[j] \in Transforming =>
                /\ w.made[order[j]] = lists[order[j]]
                /\ w.stale = FALSE =>
                      w.encoded[order[j]] = IF q <= j THEN w.made[order[j]] ELSE 0

UpInv(lists, w) ==
    \E m \in 1 .. Len(order) + 1 : \E k \in 0 .. m :
        /\ w.from = Spot(m) /\ w.at = Spot(k)
        /\ w.running = TRUE => k \in 1 .. Len(order) /\ WalkedUp(lists, w, k, m)
        /\ w.running = FALSE => WalkedUp(lists, w, k + 1, m)

WalkInv(lists, w) == IF w.call = "write" THEN UpInv(lists, w) ELSE DownInv(lists, w)

\* What the routing of a thread says to the write it is in: whether it is at its writer.
AtWriter(w, current, outbound) ==
    /\ w.at = w.from /\ w.at \in Handlers => current = w.at
    /\ w.at # w.from /\ w.at \in Handlers /\ w.stale = FALSE => current # w.at
    /\ w.at = m_prev[m_tail] /\ w.from = m_tail => outbound = TRUE
    /\ w.at = m_tail /\ w.stale = FALSE => current # m_prev[m_tail]

TopInv(s, current, outbound) ==
    s # <<>> /\ s[Len(s)].call = "write" =>
        /\ s[Len(s)].running = FALSE => AtWriter(s[Len(s)], current, outbound)
        /\ s[Len(s)].running = TRUE => current \in {s[Len(s)].at, NULL}

RouteInv(t) ==
    /\ deleted = {} /\ m_current_context[t] = m_prev[m_tail] => m_in_outbound[t] = TRUE
    /\ crashed = FALSE => TopInv(stack[t], m_current_context[t], m_in_outbound[t])
    /\ stale[t] = FALSE /\ (m_in_outbound[t] = TRUE \/ m_current_context[t] # NULL) =>
          \E i \in 1 .. Len(stack[t]) : stack[t][i].call = "write"

ThreadInv(t) ==
    /\ Nested(stack[t])
    /\ \A i \in 1 .. Len(stack[t]) : WalkInv(Lists(t), stack[t][i])
    /\ RouteInv(t)

ShapeInv == Types /\ OrderInv /\ LinkInv /\ EndInv /\ QuietInv
PipelineInv == ShapeInv /\ \A t \in Threads : ThreadInv(t)

\* A write that began without routing left behind began at its writer, or at the tail when the
\* writer's walk was rerouted.
Begin(w) == IF w.again = TRUE THEN m_tail ELSE w.writer

BeginInv(t) ==
    \A i \in 1 .. Len(stack[t]) :
        stack[t][i].call = "write" /\ stack[t][i].stale = FALSE =>
            stack[t][i].from = Begin(stack[t][i])

\* The routing of a thread that is in a write is that of the write, until it is rerouted.
Turned(w, current, outbound, turned) ==
    /\ turned = TRUE => outbound = FALSE /\ w.at # m_tail
    /\ turned = FALSE /\ w.running = TRUE => current = w.at
    /\ turned = FALSE /\ w.at # m_tail => outbound = TRUE

TurnInv(t) ==
    stack[t] # <<>> /\ Top(t).call = "write" =>
        Turned(Top(t), m_current_context[t], m_in_outbound[t], rerouted[t])

WayInv(t) == BeginInv(t) /\ TurnInv(t)
MarkInv == rerouted \in [Threads -> BOOLEAN]
Ways == \A t \in Threads : WayInv(t)
WaysInv == MarkInv /\ Ways

--------------------------------------------------------------------------------
\* Sequences: the calls of stack

LEMMA FrontProps ==
  ASSUME NEW S, NEW s \in Seq(S), s # <<>>
  PROVE  /\ Front(s) \in Seq(S) /\ Len(Front(s)) = Len(s) - 1 /\ Len(s) \in Nat \ {0}
         /\ \A i \in 1 .. Len(s) - 1 : Front(s)[i] = s[i]
         /\ Last(s) = s[Len(s)] /\ Last(s) \in S
  <1> DEFINE n == Len(s)
  <1>1. n \in Nat /\ n # 0 /\ \A i \in 1 .. n : s[i] \in S
    BY LenProperties, ElementOfSeq, EmptySeq
  <1>2. 1 \in Int /\ n - 1 \in Int /\ \A i \in 1 .. n - 1 : s[i] \in S
    BY <1>1
  <1>3. /\ SubSeq(s, 1, n - 1) \in Seq(S)
        /\ Len(SubSeq(s, 1, n - 1)) = IF 1 <= n - 1 THEN n - 1 - 1 + 1 ELSE 0
        /\ \A i \in 1 .. n - 1 - 1 + 1 : SubSeq(s, 1, n - 1)[i] = s[1 + i - 1]
    BY <1>2, SubSeqProperties
  <1>4. Front(s) = SubSeq(s, 1, n - 1) /\ Last(s) = s[n]
    BY DEF Front, Last
  <1> HIDE DEF n
  <1>5. (IF 1 <= n - 1 THEN n - 1 - 1 + 1 ELSE 0) = n - 1 /\ n - 1 - 1 + 1 = n - 1
        /\ n \in 1 .. n /\ \A i \in 1 .. n - 1 : 1 + i - 1 = i
    BY <1>1
  <1>6. Len(Front(s)) = n - 1 /\ Front(s) \in Seq(S)
    BY <1>3, <1>4, <1>5
  <1>7. \A i \in 1 .. n - 1 : Front(s)[i] = s[i]
    BY <1>3, <1>4, <1>5
  <1>8. Last(s) = s[n] /\ Last(s) \in S
    BY <1>1, <1>4, <1>5
  <1> QED BY <1>1, <1>6, <1>7, <1>8 DEF n

LEMMA AppendProps ==
  ASSUME NEW S, NEW s \in Seq(S), NEW e \in S
  PROVE  /\ Append(s, e) \in Seq(S) /\ Len(Append(s, e)) = Len(s) + 1 /\ Len(s) \in Nat
         /\ Append(s, e) # <<>>
         /\ \A i \in 1 .. Len(s) : Append(s, e)[i] = s[i]
         /\ Append(s, e)[Len(s) + 1] = e
  <1>1. /\ Append(s, e) \in Seq(S) /\ Len(Append(s, e)) = Len(s) + 1
        /\ \A i \in 1 .. Len(s) : Append(s, e)[i] = s[i]
        /\ Append(s, e)[Len(s) + 1] = e
    BY AppendProperties
  <1>2. Len(s) \in Nat
    BY LenProperties
  <1>3. Append(s, e) # <<>>
    <2>1. Len(Append(s, e)) # 0
      BY <1>1, <1>2
    <2> QED BY <1>1, <2>1, EmptySeq
  <1> QED BY <1>1, <1>2, <1>3

\* The top is replaced.
LEMMA TopProps ==
  ASSUME NEW S, NEW s \in Seq(S), s # <<>>, NEW e \in S
  PROVE  /\ Append(Front(s), e) \in Seq(S) /\ Len(Append(Front(s), e)) = Len(s)
         /\ Len(s) \in Nat \ {0} /\ Append(Front(s), e) # <<>>
         /\ \A i \in 1 .. Len(s) - 1 : Append(Front(s), e)[i] = s[i]
         /\ Append(Front(s), e)[Len(s)] = e
  <1> DEFINE f == Front(s)
             a == Append(f, e)
             n == Len(s)
  <1>1. /\ f \in Seq(S) /\ Len(f) = n - 1 /\ n \in Nat \ {0}
        /\ \A i \in 1 .. n - 1 : f[i] = s[i]
    BY FrontProps
  <1> HIDE DEF f, n
  <1>2. /\ a \in Seq(S) /\ Len(a) = Len(f) + 1 /\ a # <<>>
        /\ \A i \in 1 .. Len(f) : a[i] = f[i]
        /\ a[Len(f) + 1] = e
    BY <1>1, AppendProps
  <1> HIDE DEF a
  <1>3. Len(f) + 1 = n
    BY <1>1
  <1> QED BY <1>1, <1>2, <1>3 DEF a, f, n

--------------------------------------------------------------------------------
\* The row of the contexts

LEMMA SpotFacts ==
  ASSUME OrderInv
  PROVE  /\ Len(order) \in Nat /\ Spot(0) = m_head /\ Spot(Len(order) + 1) = m_tail
         /\ \A k \in 1 .. Len(order) : Spot(k) = order[k] /\ order[k] \in Handlers
         /\ \A k \in Spots : Spot(k) \in Contexts /\ Spot(k) # NULL
         /\ \A k \in Spots : /\ Spot(k) \in Handlers <=> k \in 1 .. Len(order)
                             /\ Spot(k) = m_head <=> k = 0
                             /\ Spot(k) = m_tail <=> k = Len(order) + 1
         /\ \A j, k \in Spots : Spot(j) = Spot(k) => j = k
  <1> DEFINE n == Len(order)
  <1>1. n \in Nat /\ \A k \in 1 .. n : order[k] \in Handlers
    BY LenProperties, ElementOfSeq DEF OrderInv
  <1>2. \A i, j \in 1 .. n : order[i] = order[j] => i = j
    BY DEF OrderInv
  <1>3. \A k : Spot(k) = IF k = 0 THEN m_head ELSE IF k = n + 1 THEN m_tail ELSE order[k]
    BY DEF Spot
  <1>4. Spots = 0 .. n + 1
    BY DEF Spots
  <1> HIDE DEF n
  <1>5. Spot(0) = m_head /\ Spot(n + 1) = m_tail
    BY <1>1, <1>3
  <1>6. \A k \in 1 .. n : Spot(k) = order[k] /\ Spot(k) \in Handlers
    BY <1>1, <1>3
  <1>7. \A k \in Spots : k = 0 \/ k = n + 1 \/ k \in 1 .. n
    BY <1>1, <1>4
  <1>8. 0 \notin 1 .. n /\ n + 1 \notin 1 .. n /\ n + 1 # 0
    BY <1>1
  <1>9. m_head # m_tail /\ m_head \notin Handlers /\ m_tail \notin Handlers
        /\ NULL \notin Contexts
    BY HandlersAssumption DEF Contexts
  <1>10. \A k \in Spots : Spot(k) \in Contexts /\ Spot(k) # NULL
    BY <1>5, <1>6, <1>7, <1>9 DEF Contexts
  <1>11. ASSUME NEW k \in Spots
         PROVE  /\ Spot(k) \in Handlers <=> k \in 1 .. n
                /\ Spot(k) = m_head <=> k = 0
                /\ Spot(k) = m_tail <=> k = n + 1
    <2>1. CASE k = 0
      BY <1>5, <1>8, <1>9, <2>1
    <2>2. CASE k = n + 1
      BY <1>5, <1>8, <1>9, <2>2
    <2>3. CASE k \in 1 .. n
      BY <1>6, <1>8, <1>9, <2>3
    <2> QED BY <1>7, <2>1, <2>2, <2>3
  <1>12. ASSUME NEW j \in Spots, NEW k \in Spots, Spot(j) = Spot(k) PROVE j = k
    <2>1. CASE j \in 1 .. n
      BY <1>2, <1>6, <1>11, <1>12, <2>1
    <2>2. CASE j = 0
      BY <1>11, <1>12, <2>2
    <2>3. CASE j = n + 1
      BY <1>11, <1>12, <2>3
    <2> QED BY <1>7, <2>1, <2>2, <2>3
  <1> QED BY <1>1, <1>5, <1>6, <1>10, <1>11, <1>12 DEF n

--------------------------------------------------------------------------------
\* What a step leaves alone

\* What a walk has done depends on the row and on the lists of its thread.
LEMMA WalkKept ==
  ASSUME UNCHANGED order
  PROVE  \A lists, w : WalkInv(lists, w)' <=> WalkInv(lists, w)
  <1>1. \A k : Spot(k)' = Spot(k)
    BY DEF Spot
  <1>2. \A c, p, s : Forward(c, p, s)' <=> Forward(c, p, s)
    BY DEF Forward, CallsEach, Precedes
  <1>3. \A c, p, s : Backward(c, p, s)' <=> Backward(c, p, s)
    BY DEF Backward, CallsEach, Precedes
  <1>4. \A lists, w, q : WalkedDown(lists, w, q)' <=> WalkedDown(lists, w, q)
    BY <1>2 DEF WalkedDown, KindOf
  <1>5. \A lists, w, q, m : WalkedUp(lists, w, q, m)' <=> WalkedUp(lists, w, q, m)
    BY <1>3 DEF WalkedUp
  <1>6. \A lists, w : DownInv(lists, w)' <=> DownInv(lists, w)
    BY <1>1, <1>4 DEF DownInv
  <1>7. \A lists, w : UpInv(lists, w)' <=> UpInv(lists, w)
    BY <1>1, <1>5 DEF UpInv
  <1> QED BY <1>6, <1>7 DEF WalkInv

LEMMA ListsKept ==
  ASSUME NEW u, \A h \in Transforming : m_type_local'[h][u] = m_type_local[h][u]
  PROVE  Lists(u)' = Lists(u)
  BY DEF Lists, Local

LEMMA OtherThread ==
  ASSUME NEW u \in Threads, ThreadInv(u), UNCHANGED chain,
         stack'[u] = stack[u], m_current_context'[u] = m_current_context[u],
         m_in_outbound'[u] = m_in_outbound[u], stale'[u] = stale[u],
         Lists(u)' = Lists(u),
         crashed' = FALSE => crashed = FALSE
  PROVE  ThreadInv(u)'
  <1>1. Nested(stack[u])'
    BY DEF ThreadInv, Nested
  <1>2. \A i \in 1 .. Len(stack'[u]) : WalkInv(Lists(u), stack[u][i])'
    BY WalkKept DEF ThreadInv, chain
  <1>3. RouteInv(u)'
    BY DEF ThreadInv, RouteInv, chain, TopInv, AtWriter
  <1> QED BY <1>1, <1>2, <1>3 DEF ThreadInv

--------------------------------------------------------------------------------
\* The calls of a walk when it has been at one place more

LEMMA CallsOne ==
  ASSUME NEW P, NEW k, NEW called \in Seq(Handlers), NEW set,
         OrderInv, P \subseteq 1 .. Len(order), k \in 1 .. Len(order), k \notin P,
         CallsEach(called, P, set)
  PROVE  /\ order[k] \in set =>
              /\ CallsEach(Append(called, order[k]), P \cup {k}, set)
              /\ \A i \in DOMAIN called : \E l \in P : called[i] = order[l]
         /\ order[k] \notin set => CallsEach(called, P \cup {k}, set)
  <1> DEFINE o == order[k]
             n == Len(called)
             all == Append(called, o)
  <1>1. o \in Handlers /\ o \notin {order[l] : l \in P}
    BY SpotFacts DEF OrderInv
  <1>2. {order[l] : l \in P \cup {k}} = {order[l] : l \in P} \cup {o}
    OBVIOUS
  <1>3. /\ ToSet(called) = {order[l] : l \in P} \cap set
        /\ \A i, j \in DOMAIN called : called[i] = called[j] => i = j
    BY DEF CallsEach
  <1>4. n \in Nat /\ DOMAIN called = 1 .. n
    BY LenProperties
  <1>5. /\ all \in Seq(Handlers) /\ Len(all) = n + 1
        /\ \A i \in 1 .. n : all[i] = called[i]
        /\ all[n + 1] = o
    BY <1>1, AppendProps
  <1>6. DOMAIN all = 1 .. Len(all)
    BY <1>5, LenProperties
  <1>7. ToSet(called) = {called[i] : i \in 1 .. n}
    BY <1>4 DEF ToSet
  <1>8. ToSet(all) = {all[i] : i \in 1 .. Len(all)}
    BY <1>6 DEF ToSet
  <1> HIDE DEF n, o, all
  <1>9. 1 .. n + 1 = 1 .. n \cup {n + 1} /\ n + 1 \notin 1 .. n
    BY <1>4
  <1>10. ToSet(all) = ToSet(called) \cup {o}
    BY <1>5, <1>7, <1>8, <1>9
  <1>11. \A i \in 1 .. n : called[i] # o /\ \E l \in P : called[i] = order[l]
    BY <1>1, <1>3, <1>7
  <1>12. ASSUME NEW i \in 1 .. Len(all), NEW j \in 1 .. Len(all), all[i] = all[j] PROVE i = j
    <2>1. (i \in 1 .. n \/ i = n + 1) /\ (j \in 1 .. n \/ j = n + 1)
      BY <1>5, <1>9
    <2>2. \A x \in 1 .. n : all[x] = called[x] /\ all[x] # all[n + 1]
      BY <1>5, <1>11
    <2>3. CASE i \in 1 .. n /\ j \in 1 .. n
      BY <1>3, <1>4, <1>12, <2>2, <2>3
    <2> QED BY <1>12, <2>1, <2>2, <2>3
  <1>13. CASE o \in set
    <2>1. ToSet(all) = {order[l] : l \in P \cup {k}} \cap set
      BY <1>2, <1>3, <1>10, <1>13
    <2> QED BY <1>4, <1>6, <1>11, <1>12, <1>13, <2>1 DEF CallsEach, all, o
  <1>14. CASE o \notin set
    <2>1. ToSet(called) = {order[l] : l \in P \cup {k}} \cap set
      BY <1>2, <1>3, <1>14
    <2> QED BY <1>3, <1>14, <2>1 DEF CallsEach, o
  <1> QED BY <1>13, <1>14

LEMMA ForwardOne ==
  ASSUME NEW k, NEW called \in Seq(Handlers), NEW set,
         OrderInv, k \in 1 .. Len(order), Forward(called, 1 .. k - 1, set)
  PROVE  /\ order[k] \in set => Forward(Append(called, order[k]), 1 .. k, set)
         /\ order[k] \notin set => Forward(called, 1 .. k, set)
  <1> DEFINE n == Len(called)
             P == 1 .. k - 1
             all == Append(called, order[k])
  <1>1. Len(order) \in Nat /\ order[k] \in Handlers
    BY SpotFacts
  <1>2. P \subseteq 1 .. Len(order) /\ k \notin P /\ 1 .. k = P \cup {k} /\ \A l \in P : l < k
    BY <1>1
  <1>3. CallsEach(called, P, set)
        /\ \A i, j \in DOMAIN called : i < j => Precedes(called[i], called[j], P)
    BY DEF Forward
  <1> HIDE DEF P
  <1>4. /\ order[k] \in set => /\ CallsEach(all, P \cup {k}, set)
                               /\ \A i \in DOMAIN called : \E l \in P : called[i] = order[l]
        /\ order[k] \notin set => CallsEach(called, P \cup {k}, set)
    BY <1>2, <1>3, CallsOne
  <1>5. \A h, g : Precedes(h, g, P) => Precedes(h, g, P \cup {k})
    BY DEF Precedes
  <1>6. \A h : (\E l \in P : h = order[l]) => Precedes(h, order[k], P \cup {k})
    BY <1>2 DEF Precedes
  <1>7. n \in Nat /\ DOMAIN called = 1 .. n
    BY LenProperties
  <1>8. /\ all \in Seq(Handlers) /\ Len(all) = n + 1
        /\ \A i \in 1 .. n : all[i] = called[i]
        /\ all[n + 1] = order[k]
    BY <1>1, AppendProps
  <1>9. DOMAIN all = 1 .. Len(all)
    BY <1>8, LenProperties
  <1> HIDE DEF n, all
  <1>10. ASSUME order[k] \in set, NEW i \in 1 .. n + 1, NEW j \in 1 .. n + 1, i < j
         PROVE  Precedes(all[i], all[j], P \cup {k})
    <2>1. i \in 1 .. n
      BY <1>7, <1>10
    <2>2. CASE j \in 1 .. n
      BY <1>3, <1>5, <1>7, <1>8, <1>10, <2>1, <2>2
    <2>3. CASE j = n + 1
      BY <1>4, <1>6, <1>7, <1>8, <1>10, <2>1, <2>3
    <2> QED BY <1>7, <2>2, <2>3
  <1>11. order[k] \in set => Forward(all, 1 .. k, set)
    BY <1>2, <1>4, <1>8, <1>9, <1>10 DEF Forward
  <1>12. order[k] \notin set => Forward(called, 1 .. k, set)
    BY <1>2, <1>3, <1>4, <1>5 DEF Forward
  <1> QED BY <1>11, <1>12 DEF all

LEMMA BackwardOne ==
  ASSUME NEW k, NEW m, NEW called \in Seq(Handlers), NEW set,
         OrderInv, k \in 1 .. Len(order), m \in 1 .. Len(order) + 1, k < m,
         Backward(called, k + 1 .. m - 1, set)
  PROVE  /\ order[k] \in set => Backward(Append(called, order[k]), k .. m - 1, set)
         /\ order[k] \notin set => Backward(called, k .. m - 1, set)
  <1> DEFINE n == Len(called)
             P == k + 1 .. m - 1
             all == Append(called, order[k])
  <1>1. Len(order) \in Nat /\ order[k] \in Handlers
    BY SpotFacts
  <1>2. P \subseteq 1 .. Len(order) /\ k \notin P /\ k .. m - 1 = P \cup {k} /\ \A l \in P : k < l
    BY <1>1
  <1>3. CallsEach(called, P, set)
        /\ \A i, j \in DOMAIN called : i < j => Precedes(called[j], called[i], P)
    BY DEF Backward
  <1> HIDE DEF P
  <1>4. /\ order[k] \in set => /\ CallsEach(all, P \cup {k}, set)
                               /\ \A i \in DOMAIN called : \E l \in P : called[i] = order[l]
        /\ order[k] \notin set => CallsEach(called, P \cup {k}, set)
    BY <1>2, <1>3, CallsOne
  <1>5. \A h, g : Precedes(h, g, P) => Precedes(h, g, P \cup {k})
    BY DEF Precedes
  <1>6. \A h : (\E l \in P : h = order[l]) => Precedes(order[k], h, P \cup {k})
    BY <1>2 DEF Precedes
  <1>7. n \in Nat /\ DOMAIN called = 1 .. n
    BY LenProperties
  <1>8. /\ all \in Seq(Handlers) /\ Len(all) = n + 1
        /\ \A i \in 1 .. n : all[i] = called[i]
        /\ all[n + 1] = order[k]
    BY <1>1, AppendProps
  <1>9. DOMAIN all = 1 .. Len(all)
    BY <1>8, LenProperties
  <1> HIDE DEF n, all
  <1>10. ASSUME order[k] \in set, NEW i \in 1 .. n + 1, NEW j \in 1 .. n + 1, i < j
         PROVE  Precedes(all[j], all[i], P \cup {k})
    <2>1. i \in 1 .. n
      BY <1>7, <1>10
    <2>2. CASE j \in 1 .. n
      BY <1>3, <1>5, <1>7, <1>8, <1>10, <2>1, <2>2
    <2>3. CASE j = n + 1
      BY <1>4, <1>6, <1>7, <1>8, <1>10, <2>1, <2>3
    <2> QED BY <1>7, <2>2, <2>3
  <1>11. order[k] \in set => Backward(all, k .. m - 1, set)
    BY <1>2, <1>4, <1>8, <1>9, <1>10 DEF Backward
  <1>12. order[k] \notin set => Backward(called, k .. m - 1, set)
    BY <1>2, <1>3, <1>4, <1>5 DEF Backward
  <1> QED BY <1>11, <1>12 DEF all

\* A walk that begins has called nobody.
LEMMA NoCalls ==
  ASSUME NEW P, NEW set, P = {}
  PROVE  Forward(<<>>, P, set) /\ Backward(<<>>, P, set)
  <1>1. DOMAIN <<>> = {}
    BY EmptySeq
  <1>2. ToSet(<<>>) = {} /\ {order[k] : k \in P} = {}
    BY <1>1 DEF ToSet
  <1> QED BY <1>1, <1>2 DEF Forward, Backward, CallsEach

--------------------------------------------------------------------------------
\* The records that the steps make

LEMMA RunFields ==
  ASSUME NEW w \in Walks, w.at \in Handlers,
         NEW w2, w2 = [w EXCEPT !.running = TRUE, !.called = Append(@, w.at)]
  PROVE  /\ w2 \in Walks /\ w2.at = w.at /\ w2.running = TRUE
         /\ w2.call = w.call /\ w2.from = w.from /\ w2.called = Append(w.called, w.at)
         /\ w2.ofRead = w.ofRead
         /\ w2.made = w.made /\ w2.encoded = w.encoded /\ w2.stale = w.stale
         /\ w2.writer = w.writer /\ w2.again = w.again
  <1>1. Append(w.called, w.at) \in Seq(Handlers)
    BY AppendProperties DEF Walks
  <1> QED BY <1>1, Zenon DEF Walks

Encoding(w, n) == [Encode(w, n) EXCEPT !.running = TRUE, !.called = Append(@, w.at)]

LEMMA EncodeFields ==
  ASSUME NEW w \in Walks, w.at \in Transforming, NEW n \in Nat
  PROVE  /\ Encoding(w, n) \in Walks /\ Encoding(w, n).at = w.at /\ Encoding(w, n).running = TRUE
         /\ Encoding(w, n).call = w.call /\ Encoding(w, n).from = w.from
         /\ Encoding(w, n).called = Append(w.called, w.at)
         /\ Encoding(w, n).ofRead = w.ofRead /\ Encoding(w, n).made = w.made
         /\ Encoding(w, n).stale = w.stale
         /\ Encoding(w, n).writer = w.writer /\ Encoding(w, n).again = w.again
         /\ \A h \in Transforming :
               Encoding(w, n).encoded[h] =
                   IF h = w.at THEN w.encoded[h] + n ELSE w.encoded[h]
  <1>1. Append(w.called, w.at) \in Seq(Handlers)
    BY AppendProperties, TransformingAssumption, HandlersAssumption DEF Walks
  <1> DEFINE e == [w.encoded EXCEPT ![w.at] = @ + n]
  <1>2. w.encoded \in [Transforming -> Nat]
    BY DEF Walks
  <1>3. e \in [Transforming -> Nat]
        /\ \A h \in Transforming : e[h] = IF h = w.at THEN w.encoded[h] + n ELSE w.encoded[h]
    BY <1>2
  <1>4. Encode(w, n) = [w EXCEPT !.encoded = e]
    BY Zenon DEF Encode, Walks
  <1> HIDE DEF e
  <1>5. /\ Encoding(w, n) \in Walks /\ Encoding(w, n).at = w.at /\ Encoding(w, n).running = TRUE
        /\ Encoding(w, n).call = w.call /\ Encoding(w, n).from = w.from
        /\ Encoding(w, n).called = Append(w.called, w.at)
        /\ Encoding(w, n).ofRead = w.ofRead /\ Encoding(w, n).made = w.made
        /\ Encoding(w, n).stale = w.stale
        /\ Encoding(w, n).writer = w.writer /\ Encoding(w, n).again = w.again
        /\ Encoding(w, n).encoded = e
    BY <1>1, <1>3, <1>4, Zenon DEF Walks, Encoding
  <1> QED BY <1>3, <1>5

LEMMA ReplyFields ==
  ASSUME NEW w \in Walks, w.at \in Transforming,
         NEW w2, w2 = [w EXCEPT !.made[w.at] = @ + 1]
  PROVE  /\ w2 \in Walks /\ w2.at = w.at /\ w2.running = w.running
         /\ w2.call = w.call /\ w2.from = w.from /\ w2.called = w.called /\ w2.ofRead = w.ofRead
         /\ w2.encoded = w.encoded /\ w2.stale = w.stale
         /\ \A h \in Transforming :
               w2.made[h] = IF h = w.at THEN w.made[h] + 1 ELSE w.made[h]
  <1> DEFINE e == [w.made EXCEPT ![w.at] = @ + 1]
  <1>2. w.made \in [Transforming -> Nat]
    BY DEF Walks
  <1>3. e \in [Transforming -> Nat]
        /\ \A h \in Transforming : e[h] = IF h = w.at THEN w.made[h] + 1 ELSE w.made[h]
    BY <1>2
  <1>4. w2 = [w EXCEPT !.made = e]
    BY Zenon DEF Walks
  <1> HIDE DEF e
  <1>5. /\ w2 \in Walks /\ w2.at = w.at /\ w2.running = w.running
        /\ w2.call = w.call /\ w2.from = w.from /\ w2.called = w.called /\ w2.ofRead = w.ofRead
        /\ w2.encoded = w.encoded /\ w2.stale = w.stale /\ w2.made = e
    BY <1>3, <1>4, Zenon DEF Walks
  <1> QED BY <1>3, <1>5

LEMMA NewWalk ==
  ASSUME NEW call \in {"read", "write", "event"}, NEW at \in Contexts, NEW ofRead \in BOOLEAN,
         NEW made \in [Transforming -> Nat], NEW was \in BOOLEAN
  PROVE  Walk(call, at, ofRead, made, was) \in Walks
  <1>1. <<>> \in Seq(Handlers) /\ NoReplies \in [Transforming -> Nat] /\ m_tail \in Contexts
    BY EmptySeq DEF NoReplies, Contexts
  <1> QED BY <1>1, Zenon DEF Walk, Walks

--------------------------------------------------------------------------------
\* A walk to the tail, step by step

\* The neighbours of a context.
LEMMA RowFacts ==
  ASSUME OrderInv, LinkInv, deleted = {}
  PROVE  /\ \A k \in 0 .. Len(order) : m_next[Spot(k)] = Spot(k + 1)
         /\ \A k \in 1 .. Len(order) + 1 : m_prev[Spot(k)] = Spot(k - 1)
         /\ m_next[m_tail] = NULL /\ m_prev[m_head] = NULL
         /\ m_next[m_head] = Spot(1) /\ m_prev[m_tail] = Spot(Len(order))
         /\ m_prev[m_tail] # NULL
  <1> DEFINE n == Len(order)
  <1>1. n \in Nat /\ Spot(0) = m_head /\ Spot(n + 1) = m_tail
        /\ \A k \in 0 .. n + 1 : Spot(k) # NULL
    BY SpotFacts DEF Spots
  <1>2. \A k \in 0 .. n : m_next[Spot(k)] = Spot(k + 1) /\ m_prev[Spot(k + 1)] = Spot(k)
    BY DEF LinkInv
  <1>3. m_next[m_tail] = NULL /\ m_prev[m_head] = NULL
    BY DEF LinkInv
  <1> HIDE DEF n
  <1>4. \A k \in 1 .. n + 1 : k - 1 \in 0 .. n /\ k - 1 + 1 = k
    BY <1>1
  <1>5. 0 \in 0 .. n /\ n \in 0 .. n /\ n \in 0 .. n + 1 /\ 0 + 1 = 1
    BY <1>1
  <1>6. m_next[m_head] = Spot(1) /\ m_prev[m_tail] = Spot(n) /\ Spot(n) # NULL
    BY <1>1, <1>2, <1>5
  <1>7. ASSUME NEW k \in 1 .. n + 1 PROVE m_prev[Spot(k)] = Spot(k - 1)
    <2>1. m_prev[Spot(k - 1 + 1)] = Spot(k - 1)
      BY <1>2, <1>4
    <2> QED BY <1>4, <2>1
  <1> QED BY <1>2, <1>3, <1>6, <1>7 DEF n

LEMMA DownStarts ==
  ASSUME NEW lists, NEW w \in Walks, OrderInv, LinkInv, deleted = {},
         w.at = m_next[m_head], w.running = FALSE, w.called = <<>>, w.made = NoReplies
  PROVE  DownInv(lists, w)
  <1>1. Len(order) \in Nat
    BY SpotFacts
  <1>2. w.at = Spot(1)
    BY RowFacts
  <1>3. \A j \in 1 .. Len(order) :
          order[j] \in Transforming => w.made[order[j]] = IF j <= 0 THEN lists[order[j]] ELSE 0
    BY <1>1 DEF NoReplies
  <1>4. WalkedDown(lists, w, 0)
    BY <1>3, NoCalls DEF WalkedDown
  <1>5. 1 \in 1 .. Len(order) + 1 /\ 1 - 1 = 0
    BY <1>1
  <1> QED BY <1>2, <1>4, <1>5 DEF DownInv

LEMMA DownRuns ==
  ASSUME NEW lists, NEW lists2, NEW w \in Walks, NEW w2 \in Walks,
         OrderInv, DownInv(lists, w), w.running = FALSE, w.at \in Handlers,
         w.at \in KindOf(w.call),
         w2.call = w.call, w2.at = w.at, w2.running = TRUE,
         w2.called = Append(w.called, w.at), w2.made = w.made,
         w.call = "read" => \A h \in Transforming :
             lists2[h] = IF h = w.at THEN 0 ELSE lists[h]
  PROVE  DownInv(lists2, w2)
  <1> DEFINE n == Len(order)
  <1>1. PICK k \in 1 .. n + 1 : w.at = Spot(k) /\ WalkedDown(lists, w, k - 1)
    BY DEF DownInv
  <1>2. n \in Nat /\ k \in 1 .. n /\ w.at = order[k] /\ order[k] \in Handlers
        /\ \A i, j \in 1 .. n : order[i] = order[j] => i = j
    BY <1>1, SpotFacts DEF Spots, OrderInv
  <1>3. Forward(w.called, 1 .. k - 1, KindOf(w.call))
    BY <1>1 DEF WalkedDown
  <1>4. w.called \in Seq(Handlers)
    BY DEF Walks
  <1>5. Forward(w2.called, 1 .. k, KindOf(w2.call))
    <2>1. order[k] \in KindOf(w.call)
      BY <1>2
    <2>2. Forward(Append(w.called, order[k]), 1 .. k, KindOf(w.call))
      BY ONLY OrderInv, <1>2, <1>3, <1>4, <2>1, ForwardOne
    <2> QED BY <1>2, <2>2
  <1>6. ASSUME w2.call = "read", NEW j \in 1 .. n, order[j] \in Transforming
        PROVE  w2.made[order[j]] = IF j <= k THEN lists2[order[j]] ELSE 0
    <2>1. w.made[order[j]] = IF j <= k - 1 THEN lists[order[j]] ELSE 0
      BY <1>1, <1>6 DEF WalkedDown
    <2>2. lists2[order[j]] = IF j = k THEN 0 ELSE lists[order[j]]
      BY <1>2, <1>6
    <2> HIDE DEF n
    <2>3. (j <= k - 1 <=> j <= k /\ j # k)
      BY <1>2
    <2> QED BY <2>1, <2>2, <2>3
  <1>7. WalkedDown(lists2, w2, k)
    BY <1>5, <1>6 DEF WalkedDown
  <1> HIDE DEF n
  <1>8. k \in 1 .. n + 1 /\ k <= n
    BY <1>2
  <1> QED BY <1>1, <1>7, <1>8 DEF DownInv, n

\* It goes on from a handler it did not call or that returned.
LEMMA DownPasses ==
  ASSUME NEW lists, NEW w \in Walks, NEW w2 \in Walks,
         OrderInv, LinkInv, deleted = {}, DownInv(lists, w), w.at \in Handlers,
         w.running = FALSE => w.at \notin KindOf(w.call),
         w2.call = w.call, w2.at = m_next[w.at], w2.running = FALSE,
         w2.called = w.called, w2.made = w.made
  PROVE  DownInv(lists, w2)
  <1> DEFINE n == Len(order)
  <1>1. PICK k \in 1 .. n + 1 :
             /\ w.at = Spot(k)
             /\ w.running = TRUE => k <= n /\ WalkedDown(lists, w, k)
             /\ w.running = FALSE => WalkedDown(lists, w, k - 1)
    BY DEF DownInv
  <1>2. n \in Nat /\ k \in 1 .. n /\ w.at = order[k]
    BY <1>1, SpotFacts DEF Spots
  <1>3. w.running = TRUE \/ w.running = FALSE
    BY Zenon DEF Walks
  <1>4. w.called \in Seq(Handlers)
    BY DEF Walks
  <1>5. WalkedDown(lists, w, k)
    <2>1. CASE w.running = TRUE
      BY <1>1, <2>1
    <2>2. CASE w.running = FALSE
      <3>1. WalkedDown(lists, w, k - 1) /\ order[k] \notin KindOf(w.call)
        BY <1>1, <1>2, <2>2
      <3>2. Forward(w.called, 1 .. k, KindOf(w.call))
        BY <1>2, <1>4, <3>1, ForwardOne DEF WalkedDown
      <3>3. ASSUME w.call = "read", NEW j \in 1 .. n, order[j] \in Transforming
            PROVE  w.made[order[j]] = IF j <= k THEN lists[order[j]] ELSE 0
        <4>1. w.made[order[j]] = IF j <= k - 1 THEN lists[order[j]] ELSE 0
          BY <3>1, <3>3 DEF WalkedDown
        <4>2. j # k
          BY <3>1, <3>3, TransformingAssumption DEF KindOf
        <4> HIDE DEF n
        <4>3. j <= k - 1 <=> j <= k
          BY <1>2, <4>2
        <4> QED BY <4>1, <4>3
      <3> QED BY <3>2, <3>3 DEF WalkedDown
    <2> QED BY <1>3, <2>1, <2>2
  <1>6. WalkedDown(lists, w2, k)
    BY <1>5 DEF WalkedDown
  <1>7. w2.at = Spot(k + 1)
    <2>1. \A j \in 0 .. n : m_next[Spot(j)] = Spot(j + 1)
      BY RowFacts
    <2> HIDE DEF n
    <2>2. k \in 0 .. n
      BY <1>2
    <2> QED BY <1>1, <2>1, <2>2
  <1> HIDE DEF n
  <1>8. k + 1 \in 1 .. n + 1 /\ k + 1 - 1 = k
    BY <1>2
  <1> QED BY <1>6, <1>7, <1>8 DEF DownInv, n

\* Two functions agree on the other handlers.
SameBut(f, g, own) == \A h \in Transforming : h # own => f[h] = g[h]

LEMMA DownReplies ==
  ASSUME NEW lists, NEW lists2, NEW w \in Walks, NEW w2 \in Walks,
         OrderInv, DownInv(lists, w), w.running = TRUE, w.call = "read",
         w2.call = w.call, w2.at = w.at, w2.running = TRUE, w2.called = w.called,
         w.made[w.at] = lists[w.at] => w2.made[w.at] = lists2[w.at],
         SameBut(w2.made, w.made, w.at), SameBut(lists2, lists, w.at)
  PROVE  DownInv(lists2, w2)
  <1> DEFINE n == Len(order)
  <1>1. PICK k \in 1 .. n + 1 : w.at = Spot(k) /\ k <= n /\ WalkedDown(lists, w, k)
    BY DEF DownInv
  <1>2. n \in Nat
    BY SpotFacts
  <1>3. k \in 1 .. n
    BY <1>1, <1>2
  <1>4. w.at = order[k] /\ \A i, j \in 1 .. n : order[i] = order[j] => i = j
    BY <1>1, <1>3, SpotFacts DEF OrderInv
  <1>5. Forward(w2.called, 1 .. k, KindOf(w2.call))
    BY <1>1 DEF WalkedDown
  <1>6. ASSUME NEW j \in 1 .. n, order[j] \in Transforming
        PROVE  w2.made[order[j]] = IF j <= k THEN lists2[order[j]] ELSE 0
    <2>1. w.made[order[j]] = IF j <= k THEN lists[order[j]] ELSE 0
      BY <1>1, <1>6 DEF WalkedDown
    <2>2. CASE j = k
      <3>1. j <= k
        BY <1>3, <2>2
      <3>2. w.made[w.at] = lists[w.at]
        BY <1>4, <2>1, <2>2, <3>1
      <3> QED BY <1>4, <2>2, <3>1, <3>2
    <2>3. CASE j # k
      <3>1. order[j] # w.at
        BY <1>3, <1>4, <2>3
      <3>2. w2.made[order[j]] = w.made[order[j]] /\ lists2[order[j]] = lists[order[j]]
        BY <1>6, <3>1 DEF SameBut
      <3> QED BY <2>1, <3>2
    <2> QED BY <2>2, <2>3
  <1>7. WalkedDown(lists2, w2, k)
    BY <1>5, <1>6 DEF WalkedDown
  <1> QED BY <1>1, <1>7 DEF DownInv

--------------------------------------------------------------------------------
\* A walk to the head, step by step

\* A write that a thread begins, at the tail or at a handler.
LEMMA UpStarts ==
  ASSUME NEW lists, NEW w \in Walks, OrderInv, ~Building,
         w.at \in Handlers \cup {m_tail}, w.from = w.at, w.running = FALSE, w.called = <<>>,
         w.ofRead = FALSE
  PROVE  UpInv(lists, w)
  <1> DEFINE n == Len(order)
  <1>1. n \in Nat /\ Spot(n + 1) = m_tail /\ \A k \in 1 .. n : Spot(k) = order[k]
    BY SpotFacts
  <1>2. \A h \in Handlers : \E k \in 1 .. n : order[k] = h
    BY DEF OrderInv
  <1> HIDE DEF n
  <1>3. n + 1 \in 1 .. n + 1 /\ \A k \in 1 .. n : k \in 1 .. n + 1
    BY <1>1
  <1>4. PICK m \in 1 .. n + 1 : w.at = Spot(m)
    BY <1>1, <1>2, <1>3
  <1>5. m \in 0 .. m /\ m + 1 .. m - 1 = {}
    BY <1>4, <1>1
  <1>6. Backward(w.called, m + 1 .. m - 1, Outbound)
    BY <1>5, NoCalls
  <1>7. WalkedUp(lists, w, m + 1, m)
    BY <1>6 DEF WalkedUp
  <1> QED BY <1>4, <1>5, <1>7 DEF UpInv, n

\* The write that a read ends in.
LEMMA UpStartsOfRead ==
  ASSUME NEW lists, NEW w \in Walks, NEW w2 \in Walks, OrderInv, DownInv(lists, w),
         w.call = "read", w.running = FALSE, w.at = m_tail,
         w2.at = m_tail, w2.from = m_tail, w2.running = FALSE, w2.called = <<>>,
         w2.made = w.made, w2.encoded = NoReplies
  PROVE  UpInv(lists, w2)
  <1> DEFINE n == Len(order)
  <1>1. PICK k \in 1 .. n + 1 : w.at = Spot(k) /\ WalkedDown(lists, w, k - 1)
    BY DEF DownInv
  <1>2. n \in Nat /\ Spot(n + 1) = m_tail /\ \A i \in 0 .. n + 1 : Spot(i) = m_tail <=> i = n + 1
    BY SpotFacts DEF Spots
  <1>3. \A j \in 1 .. n : order[j] \in Transforming =>
            w.made[order[j]] = IF j <= k - 1 THEN lists[order[j]] ELSE 0
    BY <1>1 DEF WalkedDown
  <1> HIDE DEF n
  <1>4. k \in 0 .. n + 1
    BY <1>1, <1>2
  <1>5. k = n + 1
    BY <1>1, <1>2, <1>4
  <1>6. k - 1 = n /\ n + 1 + 1 .. n + 1 - 1 = {} /\ n + 1 \in 1 .. n + 1 /\ n + 1 \in 0 .. n + 1
    BY <1>2, <1>5
  <1>7. \A j \in 1 .. n : j <= k - 1 /\ ~(n + 1 + 1 <= j)
    BY <1>2, <1>6
  <1>8. Backward(w2.called, n + 1 + 1 .. n + 1 - 1, Outbound)
    BY <1>6, NoCalls
  <1>9. \A j \in 1 .. n : order[j] \in Transforming =>
            /\ w2.made[order[j]] = lists[order[j]]
            /\ w2.encoded[order[j]] = IF n + 1 + 1 <= j THEN w2.made[order[j]] ELSE 0
    BY <1>3, <1>7 DEF NoReplies
  <1>10. WalkedUp(lists, w2, n + 1 + 1, n + 1)
    BY <1>8, <1>9 DEF WalkedUp, n
  <1> QED BY <1>2, <1>6, <1>10 DEF UpInv, n

\* A handler is called that is not the writer.
LEMMA UpRuns ==
  ASSUME NEW lists, NEW w \in Walks, NEW w2 \in Walks, OrderInv, UpInv(lists, w),
         w.running = FALSE, w.at \in Outbound, w.at # w.from,
         w2.at = w.at, w2.from = w.from, w2.running = TRUE,
         w2.called = Append(w.called, w.at), w2.ofRead = w.ofRead, w2.made = w.made,
         w2.stale = w.stale,
         \A h \in Transforming :
             w2.encoded[h] = IF h = w.at THEN w.encoded[h] + lists[h] ELSE w.encoded[h]
  PROVE  UpInv(lists, w2)
  <1> DEFINE n == Len(order)
  <1>1. PICK m \in 1 .. n + 1 : \E k \in 0 .. m :
             w.from = Spot(m) /\ w.at = Spot(k) /\ WalkedUp(lists, w, k + 1, m)
    BY DEF UpInv
  <1>2. PICK k \in 0 .. m : w.from = Spot(m) /\ w.at = Spot(k) /\ WalkedUp(lists, w, k + 1, m)
    BY <1>1
  <1>3. n \in Nat /\ k # m
    BY <1>2, SpotFacts
  <1>4. w.at \in Handlers /\ \A i \in 0 .. n + 1 : Spot(i) \in Handlers <=> i \in 1 .. n
    BY HandlersAssumption, SpotFacts DEF Spots
  <1>5. \A i \in 1 .. n : Spot(i) = order[i]
    BY SpotFacts
  <1>6. \A i, j \in 1 .. n : order[i] = order[j] => i = j
    BY DEF OrderInv
  <1>7. k \in 1 .. n /\ k < m
    <2> HIDE DEF n
    <2>1. k \in 0 .. n + 1 /\ k < m
      BY <1>1, <1>2, <1>3
    <2> QED BY <1>2, <1>4, <2>1
  <1>8. w.at = order[k] /\ w.called \in Seq(Handlers)
    BY <1>2, <1>5, <1>7 DEF Walks
  <1>9. ASSUME w2.stale = FALSE PROVE Backward(w2.called, k .. m - 1, Outbound)
    <2>1. Backward(w.called, k + 1 .. m - 1, Outbound) /\ order[k] \in Outbound
      BY <1>2, <1>8, <1>9 DEF WalkedUp
    <2>2. Backward(Append(w.called, order[k]), k .. m - 1, Outbound)
      BY ONLY OrderInv, <1>1, <1>7, <1>8, <2>1, BackwardOne
    <2> QED BY <1>8, <2>2
  <1>10. ASSUME w2.ofRead = TRUE
         PROVE  /\ m = n + 1
                /\ \A j \in 1 .. n : order[j] \in Transforming => w2.made[order[j]] = lists[order[j]]
    BY <1>2, <1>10 DEF WalkedUp
  <1>11. ASSUME w2.ofRead = TRUE, w2.stale = FALSE,
                NEW j \in 1 .. n, order[j] \in Transforming
         PROVE  w2.encoded[order[j]] = IF k <= j THEN w2.made[order[j]] ELSE 0
    <2>1. /\ w.encoded[order[j]] = IF k + 1 <= j THEN w.made[order[j]] ELSE 0
          /\ w.made[order[j]] = lists[order[j]]
      BY <1>2, <1>11 DEF WalkedUp
    <2>2. w.made[order[j]] \in Nat
      BY <1>11 DEF Walks
    <2> HIDE DEF n
    <2>3. (k + 1 <= j <=> k <= j /\ j # k) /\ k <= k /\ ~(k + 1 <= k)
      BY <1>3, <1>7
    <2>4. CASE j = k
      <3>1. w2.encoded[order[j]] = w.encoded[order[j]] + lists[order[j]]
        BY <1>8, <1>11, <2>4
      <3>2. w.encoded[order[j]] = 0
        BY <2>1, <2>3, <2>4
      <3> QED BY <2>1, <2>2, <2>3, <2>4, <3>1, <3>2
    <2>5. CASE j # k
      <3>1. order[j] # w.at
        BY <1>6, <1>7, <1>8, <2>5
      <3>2. w2.encoded[order[j]] = w.encoded[order[j]]
        BY <1>11, <3>1
      <3> QED BY <2>1, <2>3, <2>5, <3>2
    <2> QED BY <2>4, <2>5
  <1>12. WalkedUp(lists, w2, k, m)
    BY <1>9, <1>10, <1>11 DEF WalkedUp
  <1> QED BY <1>1, <1>2, <1>7, <1>12 DEF UpInv

\* It goes on from the tail, from its writer, or from a handler that it does not call or that
\* returned.
LEMMA UpPasses ==
  ASSUME NEW lists, NEW w \in Walks, NEW w2 \in Walks, OrderInv, LinkInv, deleted = {},
         UpInv(lists, w), w.at # m_head,
         w.running = FALSE => w.at = w.from \/ w.stale = TRUE \/ w.at \notin Outbound,
         w.stale = TRUE \/ w.stale = FALSE,
         w2.at = m_prev[w.at], w2.from = w.from, w2.running = FALSE,
         w2.called = w.called, w2.ofRead = w.ofRead, w2.made = w.made,
         w2.encoded = w.encoded, w2.stale = w.stale
  PROVE  UpInv(lists, w2)
  <1> DEFINE n == Len(order)
  <1>1. PICK m \in 1 .. n + 1 : \E k \in 0 .. m :
             /\ w.from = Spot(m) /\ w.at = Spot(k)
             /\ w.running = TRUE => k \in 1 .. n /\ WalkedUp(lists, w, k, m)
             /\ w.running = FALSE => WalkedUp(lists, w, k + 1, m)
    BY DEF UpInv
  <1>2. PICK k \in 0 .. m :
             /\ w.from = Spot(m) /\ w.at = Spot(k)
             /\ w.running = TRUE => k \in 1 .. n /\ WalkedUp(lists, w, k, m)
             /\ w.running = FALSE => WalkedUp(lists, w, k + 1, m)
    BY <1>1
  <1>3. n \in Nat /\ Spot(0) = m_head /\ (\A i \in 1 .. n : Spot(i) = order[i])
        /\ \A i, j \in 0 .. n + 1 : Spot(i) = Spot(j) => i = j
    BY SpotFacts DEF Spots
  <1>4. w.called \in Seq(Handlers) /\ (w.running = TRUE \/ w.running = FALSE)
    <2>1. w.called \in Seq(Handlers)
      BY DEF Walks
    <2>2. w.running = TRUE \/ w.running = FALSE
      BY Zenon DEF Walks
    <2> QED BY <2>1, <2>2
  <1>5. \A i \in 1 .. n + 1 : m_prev[Spot(i)] = Spot(i - 1)
    BY RowFacts
  <1>6. k \in 1 .. n + 1 /\ k <= m /\ k \in 0 .. n + 1 /\ m \in 0 .. n + 1 /\ (k \in 1 .. n \/ k = n + 1)
        /\ k - 1 \in 0 .. m /\ k - 1 + 1 = k
    <2>1. k # 0
      BY <1>2, <1>3
    <2> HIDE DEF n
    <2> QED BY <1>1, <1>2, <1>3, <2>1
  <1>7. w2.at = Spot(k - 1)
    BY <1>2, <1>5, <1>6
  <1>8. WalkedUp(lists, w, k, m)
    <2>1. CASE w.running = TRUE
      BY <1>2, <2>1
    <2>2. CASE w.running = FALSE
      <3>1. WalkedUp(lists, w, k + 1, m)
        BY <1>2, <2>2
      <3>2. k = m \/ w.stale = TRUE \/ (k < m /\ order[k] \notin Outbound /\ k \in 1 .. n)
        <4>1. k = m \/ w.stale = TRUE \/ w.at \notin Outbound
          BY <1>2, <1>3, <1>6, <2>2
        <4>2. k < m => k \in 1 .. n
          <5> HIDE DEF n
          <5> QED BY <1>1, <1>6
        <4>3. k = m \/ k < m
          BY <1>1, <1>6
        <4> QED BY <1>2, <1>3, <4>1, <4>2, <4>3
      <3>3. ASSUME w.stale = FALSE PROVE Backward(w.called, k .. m - 1, Outbound)
        <4>1. Backward(w.called, k + 1 .. m - 1, Outbound)
          BY <3>1, <3>3 DEF WalkedUp
        <4>2. CASE k = m
          <5>1. k + 1 .. m - 1 = k .. m - 1
            BY <1>1, <1>6, <4>2
          <5> QED BY <4>1, <5>1
        <4>3. CASE k < m /\ order[k] \notin Outbound /\ k \in 1 .. n
          BY ONLY OrderInv, <1>1, <1>4, <4>1, <4>3, BackwardOne
        <4> QED BY <3>2, <3>3, <4>2, <4>3
      <3>4. w.ofRead = TRUE => m = n + 1
        BY <3>1 DEF WalkedUp
      <3>5. ASSUME w.ofRead = TRUE, NEW j \in 1 .. n, order[j] \in Transforming
            PROVE  w.made[order[j]] = lists[order[j]]
        BY <3>1, <3>5 DEF WalkedUp
      <3>6. ASSUME w.ofRead = TRUE, w.stale = FALSE, NEW j \in 1 .. n, order[j] \in Transforming
            PROVE  w.encoded[order[j]] = IF k <= j THEN w.made[order[j]] ELSE 0
        <4>1. w.encoded[order[j]] = IF k + 1 <= j THEN w.made[order[j]] ELSE 0
          BY <3>1, <3>6 DEF WalkedUp
        <4>2. order[j] \in Outbound /\ m = n + 1
          BY <3>4, <3>6, TransformingAssumption
        <4>3. j # m
          <5> HIDE DEF n
          <5> QED BY <1>3, <4>2
        <4>4. j # k
          BY <3>2, <3>6, <4>2, <4>3
        <4> HIDE DEF n
        <4>5. k + 1 <= j <=> k <= j
          BY <1>3, <1>6, <4>4
        <4> QED BY <4>1, <4>5
      <3> QED BY <3>3, <3>4, <3>5, <3>6 DEF WalkedUp
    <2> QED BY <1>4, <2>1, <2>2
  <1>9. WalkedUp(lists, w2, k, m)
    BY <1>8 DEF WalkedUp
  <1>10. WalkedUp(lists, w2, k - 1 + 1, m)
    BY <1>6, <1>9
  <1> QED BY <1>1, <1>2, <1>6, <1>7, <1>10 DEF UpInv

--------------------------------------------------------------------------------
\* The routing of a write, step by step

\* Where a write is, and that it came down from where it began.
LEMMA UpPlaces ==
  ASSUME NEW lists, NEW w, UpInv(lists, w), OrderInv, LinkInv, deleted = {}
  PROVE  \E m \in 1 .. Len(order) + 1 : \E k \in 0 .. m :
            /\ w.from = Spot(m) /\ w.at = Spot(k) /\ k \in 0 .. Len(order) + 1
            /\ w.at \in Handlers <=> k \in 1 .. Len(order)
            /\ w.from = m_tail <=> m = Len(order) + 1
            /\ w.at = m_tail <=> k = Len(order) + 1
            /\ w.at = m_head <=> k = 0
            /\ w.at = m_prev[m_tail] <=> k = Len(order)
            /\ w.at = w.from <=> k = m
            /\ w.at # m_head =>
                  /\ k - 1 \in 0 .. Len(order) /\ k - 1 < k /\ m_prev[w.at] = Spot(k - 1)
                  /\ m_prev[w.at] \in Handlers <=> k - 1 \in 1 .. Len(order)
                  /\ m_prev[w.at] # m_tail /\ m_prev[w.at] # w.from /\ m_prev[w.at] # w.at
                  /\ m_prev[w.at] \in Contexts
                  /\ m_prev[w.at] = m_prev[m_tail] <=> k = Len(order) + 1
  <1> DEFINE n == Len(order)
  <1>1. PICK m \in 1 .. n + 1 : \E k \in 0 .. m : w.from = Spot(m) /\ w.at = Spot(k)
    BY DEF UpInv
  <1>2. PICK k \in 0 .. m : w.from = Spot(m) /\ w.at = Spot(k)
    BY <1>1
  <1>3. /\ n \in Nat
        /\ \A i \in 0 .. n + 1 : Spot(i) \in Handlers <=> i \in 1 .. n
        /\ \A i \in 0 .. n + 1 : Spot(i) \in Contexts
        /\ \A i \in 0 .. n + 1 : Spot(i) = m_head <=> i = 0
        /\ \A i \in 0 .. n + 1 : Spot(i) = m_tail <=> i = n + 1
        /\ \A i, j \in 0 .. n + 1 : Spot(i) = Spot(j) => i = j
    BY SpotFacts DEF Spots
  <1>4. /\ \A i \in 1 .. n + 1 : m_prev[Spot(i)] = Spot(i - 1)
        /\ m_prev[m_tail] = Spot(n)
    BY RowFacts
  <1> HIDE DEF n
  <1>5. k \in 0 .. n + 1 /\ m \in 0 .. n + 1 /\ n \in 0 .. n + 1 /\ (k = 0 \/ k \in 1 .. n + 1)
    BY <1>1, <1>2, <1>3
  <1>6. /\ w.at \in Handlers <=> k \in 1 .. n
        /\ w.from = m_tail <=> m = n + 1
        /\ w.at = m_tail <=> k = n + 1
        /\ w.at = m_head <=> k = 0
        /\ w.at = m_prev[m_tail] <=> k = n
        /\ w.at = w.from <=> k = m
    BY <1>2, <1>3, <1>4, <1>5
  <1>7. ASSUME k # 0
        PROVE  /\ k - 1 \in 0 .. n /\ k - 1 < k /\ m_prev[w.at] = Spot(k - 1)
               /\ m_prev[w.at] \in Handlers <=> k - 1 \in 1 .. n
               /\ m_prev[w.at] # m_tail /\ m_prev[w.at] # w.from /\ m_prev[w.at] # w.at
               /\ m_prev[w.at] \in Contexts
               /\ m_prev[w.at] = m_prev[m_tail] <=> k = n + 1
    <2>1. k \in 1 .. n + 1 /\ k - 1 \in 0 .. n + 1 /\ k - 1 \in 0 .. n /\ k - 1 < k
          /\ k - 1 # m /\ k - 1 # k /\ k - 1 # n + 1 /\ (k - 1 = n <=> k = n + 1)
      BY <1>2, <1>3, <1>5, <1>7
    <2>2. m_prev[w.at] = Spot(k - 1)
      BY <1>2, <1>4, <2>1
    <2> QED BY <1>2, <1>3, <1>4, <1>5, <2>1, <2>2
  <1> QED BY <1>1, <1>2, <1>5, <1>6, <1>7 DEF n

LEMMA RouteStarts ==
  ASSUME NEW w \in Walks, NEW current \in Handlers \cup {NULL}, NEW outbound,
         OrderInv, LinkInv, deleted = {}, w.from = w.at,
         current = m_prev[m_tail] => outbound = TRUE,
         w.at = m_tail /\ w.stale = FALSE => current = NULL \/ outbound # TRUE,
         w.at = m_tail \/ (w.at \in Handlers /\ w.at = current)
  PROVE  AtWriter(w, current, outbound)
  <1>1. m_prev[m_tail] # NULL /\ m_tail \notin Handlers
    BY RowFacts, HandlersAssumption
  <1>2. m_prev[m_tail] # m_tail
    <2>1. Len(order) \in Nat /\ m_prev[m_tail] = Spot(Len(order))
          /\ \A i \in 0 .. Len(order) + 1 : Spot(i) = m_tail <=> i = Len(order) + 1
      BY SpotFacts, RowFacts DEF Spots
    <2>2. Len(order) \in 0 .. Len(order) + 1 /\ Len(order) # Len(order) + 1
      BY <2>1
    <2> QED BY <2>1, <2>2
  <1> QED BY <1>1, <1>2 DEF AtWriter

LEMMA RoutePasses ==
  ASSUME NEW lists, NEW w, NEW w2, NEW current, NEW outbound,
         OrderInv, LinkInv, deleted = {}, UpInv(lists, w), w.at \in Handlers,
         current \in {w.at, NULL}, w2.at = m_prev[w.at], w2.from = w.from
  PROVE  AtWriter(w2, current, outbound)
  <1> DEFINE n == Len(order)
  <1>1. PICK m \in 1 .. n + 1 : \E k \in 0 .. m :
            /\ w.at \in Handlers <=> k \in 1 .. n
            /\ w.at # m_head =>
                  /\ m_prev[w.at] # m_tail /\ m_prev[w.at] # w.from /\ m_prev[w.at] # w.at
                  /\ m_prev[w.at] = m_prev[m_tail] <=> k = n + 1
    BY UpPlaces
  <1>2. n \in Nat
    BY SpotFacts
  <1>3. w.at # m_head /\ NULL \notin Handlers
    BY HandlersAssumption
  <1> HIDE DEF n
  <1>4. n + 1 \notin 1 .. n
    BY <1>2
  <1>5. m_prev[w.at] # m_tail /\ m_prev[w.at] # w.from /\ m_prev[w.at] # w.at
        /\ m_prev[w.at] # m_prev[m_tail]
    BY <1>1, <1>3, <1>4
  <1> QED BY <1>3, <1>5 DEF AtWriter

LEMMA RouteLeavesTail ==
  ASSUME NEW lists, NEW w, NEW w2, NEW current, NEW outbound,
         OrderInv, LinkInv, deleted = {}, UpInv(lists, w), w.at = m_tail,
         AtWriter(w, current, outbound),
         w2.at = m_prev[w.at], w2.from = w.from, w2.stale = w.stale
  PROVE  AtWriter(w2, current, TRUE)
  <1>1. w.at # m_head
    BY HandlersAssumption
  <1>2. m_prev[w.at] # m_tail /\ m_prev[w.at] # w.from
    BY <1>1, UpPlaces
  <1> QED BY <1>2 DEF AtWriter

\* The last handler is only called or passed by a write that came from the tail.
LEMMA RouteAtLast ==
  ASSUME NEW lists, NEW w, NEW current, NEW outbound,
         OrderInv, LinkInv, deleted = {}, UpInv(lists, w), w.at \in Handlers,
         AtWriter(w, current, outbound), current # w.at
  PROVE  /\ w.at # w.from
         /\ w.at = m_prev[m_tail] => outbound = TRUE
  <1> DEFINE n == Len(order)
  <1>1. PICK m \in 1 .. n + 1 : \E k \in 0 .. m :
            /\ w.from = m_tail <=> m = n + 1
            /\ w.at = m_prev[m_tail] <=> k = n
            /\ w.at = w.from <=> k = m
    BY UpPlaces
  <1>2. PICK k \in 0 .. m :
            /\ w.from = m_tail <=> m = n + 1
            /\ w.at = m_prev[m_tail] <=> k = n
            /\ w.at = w.from <=> k = m
    BY <1>1
  <1>3. w.at # w.from
    BY DEF AtWriter
  <1>4. n \in Nat
    BY SpotFacts
  <1> HIDE DEF n
  <1>5. w.at = m_prev[m_tail] => w.from = m_tail
    <2>1. k # m
      BY <1>2, <1>3
    <2>2. k = n => m = n + 1
      BY <1>1, <1>2, <1>4, <2>1
    <2> QED BY <1>2, <2>2
  <1> QED BY <1>3, <1>5 DEF AtWriter

--------------------------------------------------------------------------------
\* What one step does to a stack

LEMMA NestedTop ==
  ASSUME NEW s \in Seq(Walks), s # <<>>, Nested(s), NEW e \in Walks,
         s[Len(s)].call = "write" => e.call = "write"
  PROVE  Nested(Append(Front(s), e))
  <1> DEFINE n == Len(s)
             a == Append(Front(s), e)
  <1>1. /\ Len(a) = n /\ n \in Nat \ {0}
        /\ \A i \in 1 .. n - 1 : a[i] = s[i]
        /\ a[n] = e
    BY TopProps
  <1>2. (\A i \in 1 .. n - 1 : s[i].running = TRUE) /\ \A i \in 2 .. n : s[i].call = "write"
    BY DEF Nested
  <1>3. s[n].call = "write" => e.call = "write"
    OBVIOUS
  <1> HIDE DEF n, a
  <1>4. \A i \in 2 .. n : i \in 1 .. n - 1 \/ (i = n /\ n \in 2 .. n)
    BY <1>1
  <1>5. \A i \in 2 .. n : a[i].call = "write"
    BY <1>1, <1>2, <1>3, <1>4
  <1> QED BY <1>1, <1>2, <1>5 DEF Nested, a

LEMMA NestedPush ==
  ASSUME NEW s \in Seq(Walks), Nested(s), NEW e \in Walks,
         s = <<>> \/ (e.call = "write" /\ s[Len(s)].running = TRUE)
  PROVE  Nested(Append(s, e))
  <1> DEFINE n == Len(s)
             a == Append(s, e)
  <1>1. /\ Len(a) = n + 1 /\ n \in Nat
        /\ \A i \in 1 .. n : a[i] = s[i]
        /\ a[n + 1] = e
    BY AppendProps
  <1>2. (\A i \in 1 .. n - 1 : s[i].running = TRUE) /\ \A i \in 2 .. n : s[i].call = "write"
    BY DEF Nested
  <1>3. n = 0 \/ (e.call = "write" /\ s[n].running = TRUE)
    BY EmptySeq
  <1> HIDE DEF n, a
  <1>4. /\ \A i \in 2 .. n + 1 : n # 0 /\ (i \in 2 .. n \/ i = n + 1) /\ (i \in 2 .. n => i \in 1 .. n)
        /\ \A i \in 1 .. n + 1 - 1 : n # 0 /\ (i \in 1 .. n - 1 \/ i = n) /\ i \in 1 .. n
    BY <1>1
  <1>5. \A i \in 2 .. n + 1 : a[i].call = "write"
    BY <1>1, <1>2, <1>3, <1>4
  <1>6. \A i \in 1 .. n + 1 - 1 : a[i].running = TRUE
    BY <1>1, <1>2, <1>3, <1>4
  <1> QED BY <1>1, <1>5, <1>6 DEF Nested, a

LEMMA NestedPop ==
  ASSUME NEW s \in Seq(Walks), s # <<>>, Nested(s)
  PROVE  Nested(Front(s)) /\ (Len(s) # 1 => s[Len(s) - 1].running = TRUE)
  <1> DEFINE n == Len(s)
             a == Front(s)
  <1>1. /\ Len(a) = n - 1 /\ n \in Nat \ {0}
        /\ \A i \in 1 .. n - 1 : a[i] = s[i]
    BY FrontProps
  <1>2. (\A i \in 1 .. n - 1 : s[i].running = TRUE) /\ \A i \in 2 .. n : s[i].call = "write"
    BY DEF Nested
  <1> HIDE DEF n, a
  <1>3. /\ \A i \in 2 .. n - 1 : i \in 2 .. n /\ i \in 1 .. n - 1
        /\ \A i \in 1 .. n - 1 - 1 : i \in 1 .. n - 1
        /\ n # 1 => n - 1 \in 1 .. n - 1
    BY <1>1
  <1>4. \A i \in 2 .. n - 1 : a[i].call = "write"
    BY <1>1, <1>2, <1>3
  <1>5. \A i \in 1 .. n - 1 - 1 : a[i].running = TRUE
    BY <1>1, <1>2, <1>3
  <1> QED BY <1>1, <1>2, <1>3, <1>4, <1>5 DEF Nested, a, n

LEMMA Outermost ==
  ASSUME NEW s \in Seq(Walks), s # <<>>, Nested(s), s[Len(s)].call # "write"
  PROVE  Len(s) = 1
  <1> DEFINE n == Len(s)
  <1>1. n \in Nat /\ n # 0
    BY LenProperties, EmptySeq
  <1>2. \A i \in 2 .. n : s[i].call = "write"
    BY DEF Nested
  <1>3. s[n].call # "write"
    OBVIOUS
  <1> HIDE DEF n
  <1>4. n \notin 2 .. n
    BY <1>2, <1>3
  <1>5. n = 1
    BY <1>1, <1>4
  <1> QED BY <1>5 DEF n

--------------------------------------------------------------------------------
\* What one step of a thread has to show

LEMMA Walking ==
  ASSUME PipelineInv, NEW t \in Threads, stack[t] # <<>>
  PROVE  /\ ~Building /\ deleting = NULL /\ deleted = {}
         /\ OrderInv /\ LinkInv /\ Types /\ ThreadInv(t)
         /\ stack[t] \in Seq(Walks)
         /\ Top(t) = stack[t][Len(stack[t])] /\ Top(t) \in Walks
         /\ Len(stack[t]) \in Nat \ {0} /\ Len(stack[t]) \in 1 .. Len(stack[t])
         /\ WalkInv(Lists(t), Top(t))
  <1>1. ~Building /\ deleting = NULL /\ deleted = {}
    BY DEF PipelineInv, ShapeInv, QuietInv
  <1>2. OrderInv /\ LinkInv /\ Types /\ ThreadInv(t)
    BY DEF PipelineInv, ShapeInv
  <1>3. stack[t] \in Seq(Walks)
    BY <1>2 DEF Types
  <1>4. Len(stack[t]) \in Nat \ {0} /\ Last(stack[t]) = stack[t][Len(stack[t])]
        /\ Last(stack[t]) \in Walks
    BY <1>3, FrontProps
  <1>5. Len(stack[t]) \in 1 .. Len(stack[t])
    BY <1>4
  <1>6. Top(t) = stack[t][Len(stack[t])] /\ Top(t) \in Walks
    BY <1>4 DEF Top
  <1>7. WalkInv(Lists(t), stack[t][Len(stack[t])])
    BY <1>2, <1>5 DEF ThreadInv
  <1> QED BY <1>1, <1>2, <1>3, <1>4, <1>5, <1>6, <1>7

LEMMA OneThread ==
  ASSUME PipelineInv, NEW t \in Threads, ~Building, deleting = NULL, deleted = {},
         crashed = FALSE, UNCHANGED chain, Types',
         \A u \in Threads \ {t} :
            /\ stack'[u] = stack[u] /\ m_current_context'[u] = m_current_context[u]
            /\ m_in_outbound'[u] = m_in_outbound[u] /\ stale'[u] = stale[u]
            /\ \A h \in Transforming : m_type_local'[h][u] = m_type_local[h][u],
         ThreadInv(t)'
  PROVE  PipelineInv'
  <1>1. OrderInv' /\ LinkInv' /\ EndInv'
    BY DEF PipelineInv, ShapeInv, OrderInv, LinkInv, EndInv, chain, Spot, Spots, Building
  <1>2. QuietInv'
    BY DEF QuietInv, chain, Building
  <1>3. ASSUME NEW u \in Threads, u # t PROVE ThreadInv(u)'
    <2>1. ThreadInv(u)
      BY DEF PipelineInv
    <2>2. Lists(u)' = Lists(u)
      BY <1>3, ListsKept
    <2>3. /\ stack'[u] = stack[u] /\ m_current_context'[u] = m_current_context[u]
          /\ m_in_outbound'[u] = m_in_outbound[u] /\ stale'[u] = stale[u]
      BY <1>3
    <2> QED BY <2>1, <2>2, <2>3, OtherThread
  <1>4. \A u \in Threads : ThreadInv(u)'
    BY <1>3
  <1> QED BY <1>1, <1>2, <1>4 DEF PipelineInv, ShapeInv

\* A step that replaces the innermost walk of a thread by w2.
LEMMA TopStep ==
  ASSUME PipelineInv, NEW t \in Threads, NEW w2 \in Walks, NEW lists2,
         NEW current2 \in Handlers \cup {NULL}, NEW outbound2 \in BOOLEAN,
         stack[t] # <<>>, crashed = FALSE, SetTop(t, w2), SetRouting(t, outbound2, current2),
         UNCHANGED <<chain, m_destroyed, stale, crashed>>,
         m_type_local' \in [Transforming -> [Threads -> Nat \cup {NoList}]],
         \A u \in Threads \ {t} : \A h \in Transforming :
             m_type_local'[h][u] = m_type_local[h][u],
         Lists(t)' = lists2,
         Top(t).call = "write" => w2.call = "write" /\ lists2 = Lists(t),
         Top(t).call # "write" /\ w2.call # "write" =>
             current2 = m_current_context[t] /\ outbound2 = m_in_outbound[t],
         current2 = m_prev[m_tail] => outbound2 = TRUE,
         w2.call = "write" /\ w2.running = FALSE => AtWriter(w2, current2, outbound2),
         w2.call = "write" /\ w2.running = TRUE => current2 \in {w2.at, NULL},
         WalkInv(lists2, w2)
  PROVE  PipelineInv'
  <1> DEFINE s == stack[t]
             s2 == Append(Front(s), w2)
             n == Len(s)
  <1>1. /\ ~Building /\ deleting = NULL /\ deleted = {} /\ Types /\ ThreadInv(t)
        /\ s \in Seq(Walks) /\ Top(t) = s[n] /\ n \in Nat \ {0} /\ n \in 1 .. n
    BY Walking
  <1>2. /\ s2 \in Seq(Walks) /\ Len(s2) = n /\ s2 # <<>>
        /\ \A i \in 1 .. n - 1 : s2[i] = s[i]
        /\ s2[n] = w2
    BY <1>1, TopProps
  <1>3. Nested(s) /\ (\A i \in 1 .. n : WalkInv(Lists(t), s[i])) /\ RouteInv(t)
    BY <1>1 DEF ThreadInv
  <1>4. Nested(s2)
    BY <1>1, <1>3, NestedTop
  <1>5. s[n].call # "write" => n = 1
    BY <1>1, <1>3, Outermost
  <1>6. stack' = [stack EXCEPT ![t] = s2] /\ stack \in [Threads -> Seq(Walks)]
    BY <1>1 DEF SetTop, Types
  <1>7. /\ m_in_outbound' = [m_in_outbound EXCEPT ![t] = outbound2]
        /\ m_current_context' = [m_current_context EXCEPT ![t] = current2]
        /\ m_in_outbound \in [Threads -> BOOLEAN]
        /\ m_current_context \in [Threads -> Handlers \cup {NULL}]
    BY <1>1 DEF SetRouting, Types
  <1> HIDE DEF s, s2, n
  <1>8. stack' \in [Threads -> Seq(Walks)] /\ stack'[t] = s2
        /\ \A u \in Threads \ {t} : stack'[u] = stack[u]
    BY <1>2, <1>6
  <1>9. /\ m_in_outbound' \in [Threads -> BOOLEAN]
        /\ m_current_context' \in [Threads -> Handlers \cup {NULL}]
        /\ m_in_outbound'[t] = outbound2 /\ m_current_context'[t] = current2
        /\ \A u \in Threads \ {t} : m_in_outbound'[u] = m_in_outbound[u]
                                 /\ m_current_context'[u] = m_current_context[u]
    BY <1>7
  <1>10. Types'
    BY <1>1, <1>8, <1>9 DEF Types, chain
  <1>11. \A i \in 1 .. n : WalkInv(lists2, s2[i])
    <2>1. \A i \in 1 .. n : i \in 1 .. n - 1 \/ i = n
      BY <1>1
    <2>2. ASSUME NEW i \in 1 .. n - 1 PROVE WalkInv(lists2, s2[i])
      <3>1. n # 1 /\ i \in 1 .. n
        BY <1>1, <2>2
      <3>2. lists2 = Lists(t)
        BY <1>1, <1>5, <3>1
      <3> QED BY <1>2, <1>3, <3>1, <3>2
    <2> QED BY <1>2, <2>1, <2>2
  <1>12. \A i \in 1 .. Len(stack'[t]) : WalkInv(Lists(t), stack[t][i])'
    BY <1>2, <1>8, <1>11, WalkKept DEF chain
  <1>13. Nested(stack[t])'
    BY <1>4, <1>8 DEF Nested
  <1>14. RouteInv(t)'
    <2>1. TopInv(s2, current2, outbound2)
      BY <1>2 DEF TopInv
    <2>2. TopInv(stack[t], m_current_context[t], m_in_outbound[t])'
      BY <1>8, <1>9, <2>1 DEF TopInv, AtWriter, chain
    <2>3. (deleted = {} /\ m_current_context[t] = m_prev[m_tail] => m_in_outbound[t] = TRUE)'
      BY <1>9 DEF chain
    <2>4. ASSUME stale[t] = FALSE, outbound2 = TRUE \/ current2 # NULL
          PROVE  \E i \in 1 .. n : s2[i].call = "write"
      <3>1. CASE w2.call = "write"
        BY <1>1, <1>2, <3>1
      <3>2. CASE w2.call # "write"
        <4>1. Top(t).call # "write" /\ n = 1
          BY <1>1, <1>5, <3>2
        <4>2. current2 = m_current_context[t] /\ outbound2 = m_in_outbound[t]
          BY <3>2, <4>1
        <4>3. \E i \in 1 .. n : s[i].call = "write"
          BY <1>3, <2>4, <4>2 DEF RouteInv, s, n
        <4>4. \A i \in 1 .. n : i = n
          BY <4>1
        <4> QED BY <1>1, <4>1, <4>3, <4>4
      <3> QED BY <3>1, <3>2
    <2>5. (stale[t] = FALSE /\ (m_in_outbound[t] = TRUE \/ m_current_context[t] # NULL) =>
              \E i \in 1 .. Len(stack[t]) : stack[t][i].call = "write")'
      BY <1>2, <1>8, <1>9, <2>4
    <2> QED BY <2>2, <2>3, <2>5 DEF RouteInv
  <1>15. ThreadInv(t)'
    BY <1>12, <1>13, <1>14 DEF ThreadInv
  <1>16. UNCHANGED chain /\ \A u \in Threads \ {t} :
            /\ stack'[u] = stack[u] /\ m_current_context'[u] = m_current_context[u]
            /\ m_in_outbound'[u] = m_in_outbound[u] /\ stale'[u] = stale[u]
            /\ \A h \in Transforming : m_type_local'[h][u] = m_type_local[h][u]
    BY <1>8, <1>9
  <1> QED BY ONLY PipelineInv, t \in Threads, crashed = FALSE, <1>1, <1>10, <1>15, <1>16, OneThread

\* A step that begins the walk w2, as the first of a thread or by the handler it runs.
LEMMA PushStep ==
  ASSUME PipelineInv, NEW t \in Threads, NEW w2 \in Walks,
         ~Building, deleting = NULL, deleted = {}, crashed = FALSE,
         Push(t, w2), UNCHANGED <<chain, m_destroyed, routing, replies, stale>>,
         stack[t] = <<>> \/ (w2.call = "write" /\ Top(t).running = TRUE),
         w2.running = FALSE,
         w2.call = "write" => AtWriter(w2, m_current_context[t], m_in_outbound[t]),
         WalkInv(Lists(t), w2)
  PROVE  PipelineInv'
  <1> DEFINE s == stack[t]
             s2 == Append(s, w2)
             n == Len(s)
  <1>1. Types /\ ThreadInv(t)
    BY DEF PipelineInv, ShapeInv
  <1>2. s \in Seq(Walks) /\ stack \in [Threads -> Seq(Walks)]
    BY <1>1 DEF Types
  <1>3. /\ s2 \in Seq(Walks) /\ Len(s2) = n + 1 /\ n \in Nat /\ s2 # <<>>
        /\ \A i \in 1 .. n : s2[i] = s[i]
        /\ s2[n + 1] = w2
    BY <1>2, AppendProps
  <1>4. Nested(s) /\ (\A i \in 1 .. n : WalkInv(Lists(t), s[i])) /\ RouteInv(t)
    BY <1>1 DEF ThreadInv
  <1>5. s # <<>> => Top(t) = s[n]
    BY Walking
  <1>6. Nested(s2)
    BY <1>2, <1>4, <1>5, NestedPush
  <1>7. stack' = [stack EXCEPT ![t] = s2]
    BY DEF Push
  <1>8. UNCHANGED <<m_in_outbound, m_current_context, m_type_local, crashed, stale>>
    BY DEF routing, replies
  <1> HIDE DEF s, s2, n
  <1>9. stack' \in [Threads -> Seq(Walks)] /\ stack'[t] = s2
        /\ \A u \in Threads \ {t} : stack'[u] = stack[u]
    BY <1>2, <1>3, <1>7
  <1>10. Types'
    BY <1>1, <1>8, <1>9 DEF Types, chain
  <1>11. \A i \in 1 .. n + 1 : WalkInv(Lists(t), s2[i])
    <2>1. \A i \in 1 .. n + 1 : i \in 1 .. n \/ i = n + 1
      BY <1>3
    <2> QED BY <1>3, <1>4, <2>1
  <1>12. \A i \in 1 .. Len(stack'[t]) : WalkInv(Lists(t), stack[t][i])'
    <2>1. Lists(t)' = Lists(t)
      BY <1>8, ListsKept
    <2> QED BY <1>3, <1>9, <1>11, <2>1, WalkKept DEF chain
  <1>13. Nested(stack[t])'
    BY <1>6, <1>9 DEF Nested
  <1>14. RouteInv(t)'
    <2>1. TopInv(s2, m_current_context[t], m_in_outbound[t])
      BY <1>3 DEF TopInv
    <2>2. TopInv(stack[t], m_current_context[t], m_in_outbound[t])'
      BY <1>8, <1>9, <2>1 DEF TopInv, AtWriter, chain
    <2>3. (deleted = {} /\ m_current_context[t] = m_prev[m_tail] => m_in_outbound[t] = TRUE)'
      BY <1>4, <1>8 DEF chain, RouteInv
    <2>4. ASSUME stale[t] = FALSE, m_in_outbound[t] = TRUE \/ m_current_context[t] # NULL
          PROVE  \E i \in 1 .. n + 1 : s2[i].call = "write"
      <3>1. PICK i \in 1 .. n : s[i].call = "write"
        BY <1>4, <2>4 DEF RouteInv, s, n
      <3>2. i \in 1 .. n + 1
        BY <1>3
      <3> QED BY <1>3, <3>1, <3>2
    <2>5. (stale[t] = FALSE /\ (m_in_outbound[t] = TRUE \/ m_current_context[t] # NULL) =>
              \E i \in 1 .. Len(stack[t]) : stack[t][i].call = "write")'
      BY <1>3, <1>8, <1>9, <2>4
    <2> QED BY <2>2, <2>3, <2>5 DEF RouteInv
  <1>15. ThreadInv(t)'
    BY <1>12, <1>13, <1>14 DEF ThreadInv
  <1>16. UNCHANGED chain /\ \A u \in Threads \ {t} :
            /\ stack'[u] = stack[u] /\ m_current_context'[u] = m_current_context[u]
            /\ m_in_outbound'[u] = m_in_outbound[u] /\ stale'[u] = stale[u]
            /\ \A h \in Transforming : m_type_local'[h][u] = m_type_local[h][u]
    BY <1>8, <1>9
  <1> QED BY ONLY PipelineInv, t \in Threads, ~Building, deleting = NULL, deleted = {},
                  crashed = FALSE, <1>10, <1>15, <1>16, OneThread

\* A step that replaces the innermost walk and nothing else.
LEMMA WalkStep ==
  ASSUME PipelineInv, NEW t \in Threads, NEW w2 \in Walks,
         stack[t] # <<>>, crashed = FALSE, SetTop(t, w2),
         UNCHANGED <<chain, m_destroyed, routing, replies, stale>>,
         Top(t).call = "write" => w2.call = "write",
         w2.call = "write" /\ w2.running = FALSE =>
             AtWriter(w2, m_current_context[t], m_in_outbound[t]),
         w2.call = "write" /\ w2.running = TRUE => m_current_context[t] \in {w2.at, NULL},
         WalkInv(Lists(t), w2)
  PROVE  PipelineInv'
  <1> DEFINE current2 == m_current_context[t]
             outbound2 == m_in_outbound[t]
             lists2 == Lists(t)
  <1>1. deleted = {} /\ Types /\ ThreadInv(t)
    BY Walking
  <1>2. UNCHANGED <<chain, m_destroyed, stale, crashed, m_type_local, m_in_outbound, m_current_context>>
    BY DEF routing, replies
  <1>3. SetRouting(t, outbound2, current2)
    BY <1>1, <1>2 DEF SetRouting, Types
  <1>4. current2 \in Handlers \cup {NULL} /\ outbound2 \in BOOLEAN
        /\ m_type_local' \in [Transforming -> [Threads -> Nat \cup {NoList}]]
    BY <1>1, <1>2 DEF Types
  <1>5. Lists(t)' = lists2
    BY <1>2, ListsKept
  <1>6. current2 = m_prev[m_tail] => outbound2 = TRUE
    BY <1>1 DEF ThreadInv, RouteInv
  <1>7. /\ UNCHANGED <<chain, m_destroyed, stale, crashed>>
        /\ \A u \in Threads \ {t} : \A h \in Transforming :
              m_type_local'[h][u] = m_type_local[h][u]
    BY <1>2
  <1>8. /\ w2.call = "write" /\ w2.running = FALSE => AtWriter(w2, current2, outbound2)
        /\ w2.call = "write" /\ w2.running = TRUE => current2 \in {w2.at, NULL}
        /\ WalkInv(lists2, w2) /\ w2 \in Walks /\ t \in Threads /\ stack[t] # <<>>
        /\ crashed = FALSE /\ SetTop(t, w2) /\ PipelineInv
        /\ Top(t).call = "write" => w2.call = "write" /\ lists2 = Lists(t)
        /\ Top(t).call # "write" /\ w2.call # "write" =>
             current2 = m_current_context[t] /\ outbound2 = m_in_outbound[t]
    OBVIOUS
  <1> HIDE DEF current2, outbound2, lists2
  <1> QED BY ONLY <1>3, <1>4, <1>5, <1>6, <1>7, <1>8, TopStep

\* A step that ends the innermost walk of a thread or all of them, and leaves no routing or
\* marks what it leaves.
LEMMA EndStep ==
  ASSUME PipelineInv, crashed = FALSE, NEW t \in Threads, stack[t] # <<>>,
         NEW s2, NEW current2 \in Handlers \cup {NULL}, NEW outbound2 \in BOOLEAN,
         NEW stale2 \in BOOLEAN,
         s2 = <<>> \/ (s2 = Front(stack[t]) /\ current2 = NULL),
         stack' = [stack EXCEPT ![t] = s2], SetRouting(t, outbound2, current2),
         stale' = [stale EXCEPT ![t] = stale2],
         UNCHANGED <<chain, m_destroyed, replies>>,
         current2 = m_prev[m_tail] => outbound2 = TRUE,
         stale2 = FALSE => outbound2 # TRUE /\ current2 = NULL
  PROVE  PipelineInv'
  <1> DEFINE s == stack[t]
             n == Len(s2)
  <1>1. /\ ~Building /\ deleting = NULL /\ deleted = {} /\ Types /\ ThreadInv(t)
        /\ s \in Seq(Walks)
    BY Walking
  <1>2. Nested(s) /\ \A i \in 1 .. Len(s) : WalkInv(Lists(t), s[i])
    BY <1>1 DEF ThreadInv
  <1>3. /\ s2 \in Seq(Walks) /\ n \in Nat /\ Nested(s2)
        /\ \A i \in 1 .. n : WalkInv(Lists(t), s2[i])
        /\ n # 0 => s2[n].running = TRUE /\ current2 = NULL
        /\ n = 0 <=> s2 = <<>>
    <2>1. CASE s2 = <<>>
      <3>1. s2 \in Seq(Walks) /\ n = 0 /\ 1 .. n = {}
        BY <2>1, EmptySeq
      <3> QED BY <2>1, <3>1 DEF Nested
    <2>2. CASE s2 = Front(s) /\ current2 = NULL
      <3>1. /\ s2 \in Seq(Walks) /\ n = Len(s) - 1 /\ Len(s) \in Nat \ {0}
            /\ \A i \in 1 .. Len(s) - 1 : s2[i] = s[i]
        BY <1>1, <2>2, FrontProps
      <3>2. Nested(s2) /\ (Len(s) # 1 => s[Len(s) - 1].running = TRUE)
        BY <1>1, <1>2, <2>2, NestedPop
      <3>3. n = 0 <=> s2 = <<>>
        BY <3>1, EmptySeq
      <3> DEFINE l == Len(s)
      <3> HIDE DEF s, n, l
      <3>4. n \in Nat /\ (n # 0 => l # 1 /\ n \in 1 .. l - 1 /\ n = l - 1)
            /\ \A i \in 1 .. n : i \in 1 .. l - 1 /\ i \in 1 .. l
        BY <3>1 DEF l
      <3>5. \A i \in 1 .. n : WalkInv(Lists(t), s2[i])
        BY <1>2, <3>1, <3>4 DEF l
      <3>6. n # 0 => s2[n].running = TRUE
        BY <3>1, <3>2, <3>4 DEF l
      <3> QED BY <2>2, <3>1, <3>2, <3>3, <3>4, <3>5, <3>6
    <2> QED BY <2>1, <2>2
  <1>4. /\ m_in_outbound' = [m_in_outbound EXCEPT ![t] = outbound2]
        /\ m_current_context' = [m_current_context EXCEPT ![t] = current2]
        /\ UNCHANGED <<chain, m_destroyed, m_type_local, crashed>>
    BY DEF SetRouting, replies
  <1>5. /\ m_in_outbound \in [Threads -> BOOLEAN] /\ stale \in [Threads -> BOOLEAN]
        /\ m_current_context \in [Threads -> Handlers \cup {NULL}]
        /\ stack \in [Threads -> Seq(Walks)]
    BY <1>1 DEF Types
  <1>6. /\ m_in_outbound' \in [Threads -> BOOLEAN] /\ stale' \in [Threads -> BOOLEAN]
        /\ m_current_context' \in [Threads -> Handlers \cup {NULL}]
        /\ stack' \in [Threads -> Seq(Walks)]
        /\ m_in_outbound'[t] = outbound2 /\ m_current_context'[t] = current2
        /\ stack'[t] = s2 /\ stale'[t] = stale2
        /\ \A u \in Threads \ {t} :
              /\ stack'[u] = stack[u] /\ m_current_context'[u] = m_current_context[u]
              /\ m_in_outbound'[u] = m_in_outbound[u] /\ stale'[u] = stale[u]
    BY <1>3, <1>4, <1>5
  <1> HIDE DEF s, n
  <1>7. Types'
    BY <1>1, <1>4, <1>6 DEF Types, chain
  <1>8. Nested(stack[t])'
    BY <1>3, <1>6 DEF Nested
  <1>9. \A i \in 1 .. Len(stack'[t]) : WalkInv(Lists(t), stack[t][i])'
    <2>1. Lists(t)' = Lists(t)
      BY <1>4, ListsKept
    <2> QED BY <1>3, <1>4, <1>6, <2>1, WalkKept DEF chain, n
  <1>10. RouteInv(t)'
    <2>1. TopInv(s2, current2, outbound2)
      BY <1>3 DEF TopInv, n
    <2>2. TopInv(stack[t], m_current_context[t], m_in_outbound[t])'
      BY <1>4, <1>6, <2>1 DEF TopInv, AtWriter, chain
    <2>3. (deleted = {} /\ m_current_context[t] = m_prev[m_tail] => m_in_outbound[t] = TRUE)'
      BY <1>4, <1>6 DEF chain
    <2>4. (stale[t] = FALSE => m_in_outbound[t] # TRUE /\ m_current_context[t] = NULL)'
      BY <1>6
    <2> QED BY <2>2, <2>3, <2>4 DEF RouteInv
  <1>11. ThreadInv(t)'
    BY <1>8, <1>9, <1>10 DEF ThreadInv
  <1>12. UNCHANGED chain /\ \A u \in Threads \ {t} :
            /\ stack'[u] = stack[u] /\ m_current_context'[u] = m_current_context[u]
            /\ m_in_outbound'[u] = m_in_outbound[u] /\ stale'[u] = stale[u]
            /\ \A h \in Transforming : m_type_local'[h][u] = m_type_local[h][u]
    BY <1>4, <1>6
  <1> QED BY ONLY PipelineInv, t \in Threads, crashed = FALSE, <1>1, <1>7, <1>11, <1>12, OneThread

LEMMA SetLocalFacts ==
  ASSUME NEW h \in Transforming, NEW t \in Threads, NEW n \in Nat, Types, SetLocal(h, t, n)
  PROVE  /\ m_type_local' \in [Transforming -> [Threads -> Nat \cup {NoList}]]
         /\ \A u \in Threads \ {t} : \A g \in Transforming :
               m_type_local'[g][u] = m_type_local[g][u]
         /\ \A g \in Transforming : Lists(t)'[g] = IF g = h THEN n ELSE Lists(t)[g]
         /\ \A g \in Transforming : Lists(t)[g] = Local(g, t)
  <1>1. m_type_local \in [Transforming -> [Threads -> Nat \cup {NoList}]]
    BY DEF Types
  <1>2. m_type_local' = [m_type_local EXCEPT ![h] = [m_type_local[h] EXCEPT ![t] = n]]
    BY DEF SetLocal
  <1>3. [m_type_local[h] EXCEPT ![t] = n] \in [Threads -> Nat \cup {NoList}]
    BY <1>1
  <1>4. m_type_local' \in [Transforming -> [Threads -> Nat \cup {NoList}]]
    BY <1>1, <1>2, <1>3
  <1>5. \A g \in Transforming : \A u \in Threads :
            m_type_local'[g][u] = IF g = h /\ u = t THEN n ELSE m_type_local[g][u]
    BY <1>1, <1>2
  <1>6. \A g \in Transforming : Lists(t)'[g] = m_type_local'[g][t] /\ Lists(t)[g] = m_type_local[g][t]
    BY DEF Lists, Local
  <1> QED BY <1>4, <1>5, <1>6 DEF Local

--------------------------------------------------------------------------------
\* Reads and events

LEMMA FireWalks ==
  ASSUME PipelineInv, crashed = FALSE, NEW t \in Threads, Idle(t),
         NEW call \in {"read", "event"}, NEW ofRead \in BOOLEAN,
         Push(t, Walk(call, m_next[m_head], ofRead, NoReplies, stale[t])),
         UNCHANGED <<chain, m_destroyed, routing, replies, stale>>
  PROVE  PipelineInv'
  <1> DEFINE w2 == Walk(call, m_next[m_head], ofRead, NoReplies, stale[t])
  <1>1. ~Building /\ deleting = NULL /\ deleted = {} /\ stack[t] = <<>>
    BY DEF Idle
  <1>2. OrderInv /\ LinkInv /\ Types
    BY DEF PipelineInv, ShapeInv
  <1>3. m_next[m_head] \in Contexts
    <2>1. Len(order) \in Nat /\ (\A k \in Spots : Spot(k) \in Contexts) /\ m_next[m_head] = Spot(1)
      BY <1>1, <1>2, SpotFacts, RowFacts
    <2>2. 1 \in Spots
      BY <2>1 DEF Spots
    <2> QED BY <2>1, <2>2
  <1>4. NoReplies \in [Transforming -> Nat] /\ stale[t] \in BOOLEAN
    BY <1>2 DEF NoReplies, Types
  <1>5. w2 \in Walks
    <2> DEFINE at == m_next[m_head]
               was == stale[t]
    <2>1. at \in Contexts /\ was \in BOOLEAN /\ call \in {"read", "write", "event"}
      BY <1>3, <1>4
    <2> HIDE DEF at, was
    <2>2. Walk(call, at, ofRead, NoReplies, was) \in Walks
      BY <1>4, <2>1, NewWalk
    <2> QED BY <2>2 DEF at, was
  <1>6. /\ w2.at = m_next[m_head] /\ w2.running = FALSE /\ w2.call = call
        /\ w2.called = <<>> /\ w2.made = NoReplies
    BY DEF Walk
  <1> HIDE DEF w2
  <1>7. WalkInv(Lists(t), w2)
    BY <1>1, <1>2, <1>5, <1>6, DownStarts DEF WalkInv
  <1>8. Push(t, w2)
    BY DEF w2
  <1> QED BY <1>1, <1>5, <1>6, <1>7, <1>8, PushStep

LEMMA FiresKeep ==
  ASSUME PipelineInv, crashed = FALSE, NEW t \in Threads, FireChannelRead(t) \/ FireEvent(t)
  PROVE  PipelineInv'
  <1>1. CASE FireChannelRead(t)
    <2> DEFINE call == "read"
               ofRead == TRUE
    <2>1. /\ Idle(t) /\ Push(t, Walk(call, m_next[m_head], ofRead, NoReplies, stale[t]))
          /\ UNCHANGED <<chain, m_destroyed, routing, replies, stale>>
          /\ call \in {"read", "event"} /\ ofRead \in BOOLEAN
      BY <1>1 DEF FireChannelRead
    <2> HIDE DEF call, ofRead
    <2> QED BY <2>1, FireWalks
  <1>2. CASE FireEvent(t)
    <2> DEFINE call == "event"
               ofRead == FALSE
    <2>1. /\ Idle(t) /\ Push(t, Walk(call, m_next[m_head], ofRead, NoReplies, stale[t]))
          /\ UNCHANGED <<chain, m_destroyed, routing, replies, stale>>
          /\ call \in {"read", "event"} /\ ofRead \in BOOLEAN
      BY <1>2 DEF FireEvent
    <2> HIDE DEF call, ofRead
    <2> QED BY <2>1, FireWalks
  <1> QED BY <1>1, <1>2

LEMMA FireDestroyedKeeps ==
  ASSUME PipelineInv, crashed = FALSE, NEW t \in Threads, FireDestroyed(t)
  PROVE  PipelineInv'
  <1>1. ~Building /\ deleting = NULL /\ deleted = {}
    BY DEF FireDestroyed, Idle
  <1>2. /\ m_destroyed' = TRUE
        /\ UNCHANGED <<chain, m_in_outbound, m_current_context, m_type_local, crashed, stack, stale>>
    BY DEF FireDestroyed, routing, replies
  <1>3. Types /\ ThreadInv(t)
    BY DEF PipelineInv, ShapeInv
  <1>4. Types'
    BY <1>2, <1>3 DEF Types, chain
  <1>5. Lists(t)' = Lists(t)
    BY <1>2, ListsKept
  <1>6. ThreadInv(t)'
    BY <1>2, <1>3, <1>5, OtherThread
  <1> QED BY <1>1, <1>2, <1>4, <1>6, OneThread

LEMMA CallHandlerKeeps ==
  ASSUME PipelineInv, crashed = FALSE, NEW t \in Threads, CallHandler(t)
  PROVE  PipelineInv'
  <1> DEFINE w == Top(t)
             w2 == [w EXCEPT !.running = TRUE, !.called = Append(@, w.at)]
  <1>1. stack[t] # <<>> /\ w.running = FALSE /\ w.call \in {"read", "event"}
    BY DEF CallHandler, At
  <1>2. w.at \in KindOf(w.call) /\ w.at \in Handlers
    BY HandlersAssumption DEF CallHandler, At, KindOf
  <1>3. /\ OrderInv /\ Types /\ w \in Walks /\ WalkInv(Lists(t), w) /\ deleted = {} /\ ThreadInv(t)
    BY <1>1, Walking
  <1>4. DownInv(Lists(t), w)
    BY <1>1, <1>3 DEF WalkInv
  <1>5. SetTop(t, w2) /\ UNCHANGED <<chain, m_destroyed, m_in_outbound, m_current_context, stale, crashed>>
    BY DEF CallHandler, RunHandler, routing
  <1>6. \/ w.call = "read" /\ w.at \in Transforming /\ SetLocal(w.at, t, 0)
        \/ w.call = "read" /\ w.at \notin Transforming /\ UNCHANGED m_type_local
        \/ w.call = "event" /\ UNCHANGED m_type_local
    BY DEF CallHandler, At, BeginList
  <1> HIDE DEF w
  <1>7. /\ w2 \in Walks /\ w2.at = w.at /\ w2.running = TRUE /\ w2.call = w.call
        /\ w2.called = Append(w.called, w.at) /\ w2.made = w.made
    BY <1>2, <1>3, RunFields
  <1> HIDE DEF w2
  <1> DEFINE lists2 == Lists(t)'
  <1>8. /\ m_type_local' \in [Transforming -> [Threads -> Nat \cup {NoList}]]
        /\ \A u \in Threads \ {t} : \A g \in Transforming :
              m_type_local'[g][u] = m_type_local[g][u]
        /\ w.call = "read" => \A g \in Transforming :
              lists2[g] = IF g = w.at THEN 0 ELSE Lists(t)[g]
    <2>1. CASE w.at \in Transforming /\ SetLocal(w.at, t, 0)
      BY <1>3, <2>1, SetLocalFacts
    <2>2. CASE UNCHANGED m_type_local /\ (w.call = "read" => w.at \notin Transforming)
      <3>1. lists2 = Lists(t)
        BY <2>2, ListsKept
      <3> QED BY <1>3, <2>2, <3>1 DEF Types
    <2> QED BY <1>1, <1>6, <2>1, <2>2
  <1> HIDE DEF lists2
  <1>9. DownInv(lists2, w2)
    BY <1>1, <1>2, <1>3, <1>4, <1>7, <1>8, DownRuns
  <1>10. WalkInv(lists2, w2) /\ w2.call # "write" /\ w.call # "write"
    BY <1>1, <1>7, <1>9 DEF WalkInv
  <1> DEFINE current2 == m_current_context[t]
             outbound2 == m_in_outbound[t]
  <1>11. /\ SetRouting(t, outbound2, current2)
         /\ current2 \in Handlers \cup {NULL} /\ outbound2 \in BOOLEAN
         /\ current2 = m_prev[m_tail] => outbound2 = TRUE
         /\ current2 = m_current_context[t] /\ outbound2 = m_in_outbound[t]
    BY <1>3, <1>5 DEF SetRouting, Types, ThreadInv, RouteInv
  <1>12. Lists(t)' = lists2 /\ w = Top(t)
    BY DEF lists2, w
  <1> HIDE DEF current2, outbound2
  <1> QED BY <1>1, <1>5, <1>7, <1>8, <1>10, <1>11, <1>12, TopStep

LEMMA ReplyKeeps ==
  ASSUME PipelineInv, crashed = FALSE, NEW t \in Threads, Reply(t)
  PROVE  PipelineInv'
  <1> DEFINE w == Top(t)
             w2 == [w EXCEPT !.made[w.at] = @ + 1]
             n == Local(w.at, t) + 1
  <1>1. stack[t] # <<>> /\ w.running = TRUE /\ w.call = "read" /\ w.at \in Transforming
    BY DEF Reply, At
  <1>2. /\ OrderInv /\ Types /\ w \in Walks /\ WalkInv(Lists(t), w) /\ deleted = {} /\ ThreadInv(t)
    BY <1>1, Walking
  <1>3. DownInv(Lists(t), w)
    BY <1>1, <1>2 DEF WalkInv
  <1>4. SetTop(t, w2) /\ SetLocal(w.at, t, n)
        /\ UNCHANGED <<chain, m_destroyed, m_in_outbound, m_current_context, stale, crashed>>
    BY DEF Reply, routing
  <1>5. n \in Nat
    <2>1. Local(w.at, t) \in Nat \cup {-1}
      BY <1>1, <1>2 DEF Types, Local, NoList
    <2> DEFINE l == Local(w.at, t)
    <2> HIDE DEF l
    <2>2. l + 1 \in Nat
      BY <2>1 DEF l
    <2> QED BY <2>2 DEF l
  <1> HIDE DEF w, n
  <1>6. /\ w2 \in Walks /\ w2.at = w.at /\ w2.running = w.running /\ w2.call = w.call
        /\ w2.called = w.called
        /\ \A g \in Transforming : w2.made[g] = IF g = w.at THEN w.made[g] + 1 ELSE w.made[g]
    BY <1>1, <1>2, ReplyFields
  <1> HIDE DEF w2
  <1> DEFINE lists2 == Lists(t)'
  <1>7. /\ m_type_local' \in [Transforming -> [Threads -> Nat \cup {NoList}]]
        /\ \A u \in Threads \ {t} : \A g \in Transforming :
              m_type_local'[g][u] = m_type_local[g][u]
        /\ \A g \in Transforming : lists2[g] = IF g = w.at THEN n ELSE Lists(t)[g]
        /\ Lists(t)[w.at] = Local(w.at, t)
    BY <1>1, <1>2, <1>4, <1>5, SetLocalFacts
  <1> HIDE DEF lists2
  <1>8. \A g \in Transforming : lists2[g] = IF g = w.at THEN Lists(t)[g] + 1 ELSE Lists(t)[g]
    BY <1>7 DEF n
  <1>9. DownInv(lists2, w2)
    <2>1. w2.running = TRUE /\ w2.made \in [Transforming -> Nat]
      BY <1>1, <1>6, Zenon DEF Walks
    <2>2. w.made[w.at] = Lists(t)[w.at] => w2.made[w.at] = lists2[w.at]
      BY <1>1, <1>6, <1>8
    <2>3. SameBut(w2.made, w.made, w.at) /\ SameBut(lists2, Lists(t), w.at)
      BY <1>6, <1>8 DEF SameBut
    <2>4. /\ w \in Walks /\ w2 \in Walks /\ OrderInv /\ DownInv(Lists(t), w)
          /\ w.running = TRUE /\ w.call = "read" /\ w2.call = w.call /\ w2.at = w.at
          /\ w2.running = TRUE /\ w2.called = w.called
      BY <1>1, <1>2, <1>3, <1>6, <2>1
    <2> QED BY ONLY <2>2, <2>3, <2>4, DownReplies
  <1>10. WalkInv(lists2, w2) /\ w2.call # "write" /\ w.call # "write"
    BY <1>1, <1>6, <1>9 DEF WalkInv
  <1> DEFINE current2 == m_current_context[t]
             outbound2 == m_in_outbound[t]
  <1>11. /\ SetRouting(t, outbound2, current2)
         /\ current2 \in Handlers \cup {NULL} /\ outbound2 \in BOOLEAN
         /\ current2 = m_prev[m_tail] => outbound2 = TRUE
         /\ current2 = m_current_context[t] /\ outbound2 = m_in_outbound[t]
    BY <1>2, <1>4 DEF SetRouting, Types, ThreadInv, RouteInv
  <1>12. Lists(t)' = lists2 /\ w = Top(t)
    BY DEF lists2, w
  <1> HIDE DEF current2, outbound2
  <1> QED BY <1>1, <1>4, <1>6, <1>7, <1>10, <1>11, <1>12, TopStep

\* A read or an event goes on to the next context.
LEMMA DownGoesOn ==
  ASSUME PipelineInv, crashed = FALSE, NEW t \in Threads, stack[t] # <<>>,
         Top(t).call # "write", Top(t).at \in Handlers,
         Top(t).running = FALSE => Top(t).at \notin KindOf(Top(t).call),
         StepTo(t, m_next[Top(t).at]),
         UNCHANGED <<chain, m_destroyed, routing, replies, stale>>
  PROVE  PipelineInv'
  <1> DEFINE w == Top(t)
             c == m_next[w.at]
             w2 == [w EXCEPT !.at = c, !.running = FALSE]
  <1>1. /\ OrderInv /\ LinkInv /\ Types /\ w \in Walks /\ WalkInv(Lists(t), w) /\ deleted = {}
    BY Walking
  <1>2. DownInv(Lists(t), w)
    BY <1>1 DEF WalkInv
  <1>3. SetTop(t, w2) /\ w.call # "write" /\ w.at \in Handlers
        /\ (w.running = FALSE => w.at \notin KindOf(w.call))
    BY DEF StepTo
  <1>4. c \in Contexts
    <2> DEFINE n == Len(order)
    <2>1. PICK k \in 1 .. n + 1 : w.at = Spot(k)
      BY <1>2 DEF DownInv
    <2>2. /\ n \in Nat /\ \A i \in 0 .. n + 1 : Spot(i) \in Handlers <=> i \in 1 .. n
          /\ \A i \in 0 .. n + 1 : Spot(i) \in Contexts
          /\ \A i \in 0 .. n : m_next[Spot(i)] = Spot(i + 1)
      BY <1>1, SpotFacts, RowFacts DEF Spots
    <2> HIDE DEF n, w
    <2>3. k \in 0 .. n + 1
      BY <2>1, <2>2
    <2>4. k \in 1 .. n
      BY <1>3, <2>1, <2>2, <2>3
    <2>5. k \in 0 .. n /\ k + 1 \in 0 .. n + 1
      BY <2>2, <2>4
    <2> QED BY <2>1, <2>2, <2>5
  <1> HIDE DEF w, c
  <1>5. /\ w2 \in Walks /\ w2.at = c /\ w2.running = FALSE /\ w2.call = w.call
        /\ w2.called = w.called /\ w2.made = w.made
    BY <1>1, <1>4, Zenon DEF Walks
  <1> HIDE DEF w2
  <1>6. DownInv(Lists(t), w2)
    BY <1>1, <1>2, <1>3, <1>5, DownPasses DEF c
  <1>7. WalkInv(Lists(t), w2) /\ w2.call # "write"
    BY <1>3, <1>5, <1>6 DEF WalkInv
  <1> QED BY <1>3, <1>5, <1>7, WalkStep DEF w

LEMMA PassHandlerKeeps ==
  ASSUME PipelineInv, crashed = FALSE, NEW t \in Threads, PassHandler(t)
  PROVE  PipelineInv'
  <1>1. /\ stack[t] # <<>> /\ Top(t).call # "write" /\ Top(t).at \in Handlers
        /\ Top(t).at \notin KindOf(Top(t).call) /\ StepTo(t, m_next[Top(t).at])
        /\ UNCHANGED <<chain, m_destroyed, routing, replies, stale>>
    BY DEF PassHandler, At, KindOf
  <1> QED BY <1>1, DownGoesOn

LEMMA TailEventKeeps ==
  ASSUME PipelineInv, crashed = FALSE, NEW t \in Threads, TailEvent(t)
  PROVE  PipelineInv'
  <1> DEFINE s == stack[t]
             current2 == m_current_context[t]
             outbound2 == m_in_outbound[t]
             stale2 == stale[t]
             s2 == Front(s)
  <1>1. /\ s # <<>> /\ Top(t).call # "write" /\ stack' = [stack EXCEPT ![t] = s2]
        /\ UNCHANGED <<chain, m_destroyed, replies, m_in_outbound, m_current_context, stale>>
    BY DEF TailEvent, At, Pop, routing
  <1>2. /\ deleted = {} /\ Types /\ ThreadInv(t) /\ s \in Seq(Walks) /\ Top(t) = s[Len(s)]
    BY <1>1, Walking
  <1>3. Len(s) = 1
    BY <1>1, <1>2, Outermost DEF ThreadInv
  <1>4. s2 = <<>>
    BY <1>1, <1>2, <1>3, FrontProps, EmptySeq
  <1>5. stale2 = FALSE => outbound2 # TRUE /\ current2 = NULL
    <2>1. \A i \in 1 .. Len(s) : s[i].call # "write"
      <3>1. \A i \in 1 .. 1 : i = 1
        OBVIOUS
      <3> QED BY <1>1, <1>2, <1>3, <3>1
    <2> QED BY <1>2, <2>1 DEF ThreadInv, RouteInv
  <1>6. /\ SetRouting(t, outbound2, current2) /\ stale' = [stale EXCEPT ![t] = stale2]
        /\ current2 \in Handlers \cup {NULL} /\ outbound2 \in BOOLEAN /\ stale2 \in BOOLEAN
    BY <1>1, <1>2 DEF SetRouting, Types
  <1>7. current2 = m_prev[m_tail] => outbound2 = TRUE
    BY <1>2 DEF ThreadInv, RouteInv
  <1> HIDE DEF s, current2, outbound2, stale2, s2
  <1>8. stack[t] # <<>> /\ UNCHANGED <<chain, m_destroyed, replies>>
    BY <1>1 DEF s
  <1> QED BY ONLY PipelineInv, crashed = FALSE, t \in Threads, <1>1, <1>4, <1>5, <1>6, <1>7, <1>8, EndStep

--------------------------------------------------------------------------------
\* Writes

\* What is known of a thread that is in a write.
LEMMA Writing ==
  ASSUME PipelineInv, crashed = FALSE, NEW t \in Threads, stack[t] # <<>>, Top(t).call = "write"
  PROVE  /\ UpInv(Lists(t), Top(t))
         /\ Top(t).running = FALSE => AtWriter(Top(t), m_current_context[t], m_in_outbound[t])
         /\ Top(t).running = TRUE => m_current_context[t] \in {Top(t).at, NULL}
         /\ m_current_context[t] = m_prev[m_tail] => m_in_outbound[t] = TRUE
         /\ m_current_context[t] \in Handlers \cup {NULL} /\ m_in_outbound[t] \in BOOLEAN
         /\ Top(t).stale = TRUE \/ Top(t).stale = FALSE
  <1> DEFINE w == Top(t)
  <1>1. /\ deleted = {} /\ Types /\ ThreadInv(t) /\ w = stack[t][Len(stack[t])]
        /\ w \in Walks /\ WalkInv(Lists(t), w)
    BY Walking
  <1>2. UpInv(Lists(t), w)
    BY <1>1 DEF WalkInv
  <1>3. TopInv(stack[t], m_current_context[t], m_in_outbound[t])
        /\ (m_current_context[t] = m_prev[m_tail] => m_in_outbound[t] = TRUE)
    BY <1>1 DEF ThreadInv, RouteInv
  <1>4. /\ w.running = FALSE => AtWriter(w, m_current_context[t], m_in_outbound[t])
        /\ w.running = TRUE => m_current_context[t] \in {w.at, NULL}
    BY <1>1, <1>3 DEF TopInv
  <1>5. w.stale = TRUE \/ w.stale = FALSE
    <2> HIDE DEF w
    <2> QED BY <1>1, Zenon DEF Walks
  <1> QED BY <1>1, <1>2, <1>3, <1>4, <1>5 DEF Types

\* A write goes on to the previous context.
LEMMA UpGoesOn ==
  ASSUME PipelineInv, crashed = FALSE, NEW t \in Threads,
         NEW current2 \in Handlers \cup {NULL}, NEW outbound2 \in BOOLEAN,
         stack[t] # <<>>, Top(t).call = "write", Top(t).at # m_head,
         SetRouting(t, outbound2, current2), StepTo(t, m_prev[Top(t).at]),
         UNCHANGED <<chain, m_destroyed, replies, stale>>,
         Top(t).running = FALSE =>
             Top(t).at = Top(t).from \/ Top(t).stale = TRUE \/ Top(t).at \notin Outbound,
         current2 = m_prev[m_tail] => outbound2 = TRUE,
         \/ Top(t).at \in Handlers /\ current2 \in {Top(t).at, NULL}
         \/ /\ Top(t).at = m_tail /\ Top(t).running = FALSE
            /\ current2 = m_current_context[t] /\ outbound2 = TRUE
  PROVE  PipelineInv'
  <1> DEFINE w == Top(t)
             c == m_prev[w.at]
             w2 == [w EXCEPT !.at = c, !.running = FALSE]
             lists == Lists(t)
  <1>1. /\ OrderInv /\ LinkInv /\ Types /\ w \in Walks /\ deleted = {}
    BY Walking
  <1>2. UpInv(lists, w) /\ (w.stale = TRUE \/ w.stale = FALSE)
        /\ (w.running = FALSE => AtWriter(w, m_current_context[t], m_in_outbound[t]))
    BY Writing
  <1>3. /\ SetTop(t, w2) /\ w.call = "write" /\ w.at # m_head
        /\ w.running = FALSE => w.at = w.from \/ w.stale = TRUE \/ w.at \notin Outbound
        /\ \/ w.at \in Handlers /\ current2 \in {w.at, NULL}
           \/ /\ w.at = m_tail /\ w.running = FALSE
              /\ current2 = m_current_context[t] /\ outbound2 = TRUE
    BY DEF StepTo
  <1>4. Lists(t)' = lists /\ UNCHANGED <<chain, m_destroyed, stale, crashed, m_type_local>>
    BY ListsKept DEF replies
  <1> HIDE DEF w, c, lists
  <1>5. c \in Contexts
    BY <1>1, <1>2, <1>3, UpPlaces DEF c
  <1>6. /\ w2 \in Walks /\ w2.at = c /\ w2.running = FALSE /\ w2.call = w.call
        /\ w2.from = w.from /\ w2.called = w.called /\ w2.ofRead = w.ofRead
        /\ w2.made = w.made /\ w2.encoded = w.encoded /\ w2.stale = w.stale
    BY <1>1, <1>5, Zenon DEF Walks
  <1> HIDE DEF w2
  <1>7. UpInv(lists, w2)
    <2>1. w2.at = m_prev[w.at]
      BY <1>6 DEF c
    <2> QED BY <1>1, <1>2, <1>3, <1>6, <2>1, UpPasses
  <1>8. AtWriter(w2, current2, outbound2)
    <2>1. w2.at = m_prev[w.at] /\ w2.from = w.from /\ w2.stale = w.stale
      BY <1>6 DEF c
    <2>2. CASE w.at \in Handlers /\ current2 \in {w.at, NULL}
      BY <1>1, <1>2, <2>1, <2>2, RoutePasses
    <2>3. CASE w.at = m_tail /\ w.running = FALSE /\ current2 = m_current_context[t] /\ outbound2 = TRUE
      <3>1. AtWriter(w, m_current_context[t], m_in_outbound[t])
        BY <1>2, <2>3
      <3>2. AtWriter(w2, m_current_context[t], TRUE)
        BY <1>1, <1>2, <2>1, <2>3, <3>1, RouteLeavesTail
      <3> QED BY <2>3, <3>2
    <2> QED BY <1>3, <2>2, <2>3
  <1>9. WalkInv(lists, w2) /\ w2.call = "write"
    BY <1>3, <1>6, <1>7 DEF WalkInv
  <1>10. /\ m_type_local' \in [Transforming -> [Threads -> Nat \cup {NoList}]]
         /\ \A u \in Threads \ {t} : \A h \in Transforming :
               m_type_local'[h][u] = m_type_local[h][u]
    BY <1>1, <1>4 DEF Types
  <1>11. w2.running # TRUE
    BY <1>6
  <1>12. lists = Lists(t)
    BY DEF lists
  <1> QED BY <1>3, <1>4, <1>6, <1>8, <1>9, <1>10, <1>11, <1>12, TopStep

LEMMA TailWriteKeeps ==
  ASSUME PipelineInv, crashed = FALSE, NEW t \in Threads, TailWrite(t)
  PROVE  PipelineInv'
  <1>1. /\ stack[t] # <<>> /\ Top(t).call = "write" /\ Top(t).running = FALSE /\ Top(t).at = m_tail
        /\ SetRouting(t, TRUE, m_current_context[t]) /\ StepTo(t, m_prev[Top(t).at])
        /\ UNCHANGED <<chain, m_destroyed, replies, stale>>
    BY DEF TailWrite, At
  <1>2. m_tail # m_head /\ m_tail \notin Outbound
    BY HandlersAssumption
  <1>3. m_current_context[t] \in Handlers \cup {NULL}
    BY <1>1, Writing
  <1>4. TRUE \in BOOLEAN
    OBVIOUS
  <1> QED BY <1>1, <1>2, <1>3, <1>4, UpGoesOn

LEMMA SkipWriterKeeps ==
  ASSUME PipelineInv, crashed = FALSE, NEW t \in Threads, SkipWriter(t)
  PROVE  PipelineInv'
  <1> DEFINE current2 == m_current_context[t]
             outbound2 == m_in_outbound[t]
  <1>1. /\ stack[t] # <<>> /\ Top(t).call = "write" /\ Top(t).running = FALSE
        /\ Top(t).at \in Handlers /\ current2 = Top(t).at /\ StepTo(t, m_prev[Top(t).at])
        /\ UNCHANGED <<chain, m_destroyed, m_in_outbound, m_current_context, replies, stale>>
    BY DEF SkipWriter, At, routing
  <1>2. Top(t).at # m_head
    BY <1>1, HandlersAssumption
  <1>3. /\ AtWriter(Top(t), current2, outbound2) /\ (current2 = m_prev[m_tail] => outbound2 = TRUE)
        /\ current2 \in Handlers \cup {NULL} /\ outbound2 \in BOOLEAN
        /\ Top(t).stale = TRUE \/ Top(t).stale = FALSE
    BY <1>1, Writing
  <1>4. Top(t).at = Top(t).from \/ Top(t).stale = TRUE
    BY <1>1, <1>3 DEF AtWriter
  <1>5. SetRouting(t, outbound2, current2)
    <2>1. Types
      BY DEF PipelineInv, ShapeInv
    <2> QED BY <1>1, <2>1 DEF SetRouting, Types
  <1> HIDE DEF current2, outbound2
  <1> QED BY <1>1, <1>2, <1>3, <1>4, <1>5, UpGoesOn

LEMMA HandlerReturnsKeeps ==
  ASSUME PipelineInv, crashed = FALSE, NEW t \in Threads, HandlerReturns(t)
  PROVE  PipelineInv'
  <1>1. /\ stack[t] # <<>> /\ Top(t).running = TRUE
        /\ UNCHANGED <<chain, m_destroyed, m_in_outbound, m_current_context, routing, replies, stale>>
        /\ \/ Top(t).call = "write" /\ StepTo(t, m_prev[Top(t).at])
           \/ Top(t).call # "write" /\ StepTo(t, m_next[Top(t).at])
    BY DEF HandlerReturns, At, routing
  <1>2. /\ OrderInv /\ LinkInv /\ Types /\ deleted = {} /\ WalkInv(Lists(t), Top(t))
    BY <1>1, Walking
  <1>3. Top(t).at \in Handlers
    <2>1. \E k \in 1 .. Len(order) : Top(t).at = Spot(k)
      <3>1. CASE Top(t).call = "write"
        BY <1>1, <1>2, <3>1 DEF WalkInv, UpInv
      <3>2. CASE Top(t).call # "write"
        <4>1. PICK k \in 1 .. Len(order) + 1 : Top(t).at = Spot(k) /\ k <= Len(order)
          BY <1>1, <1>2, <3>2 DEF WalkInv, DownInv
        <4>2. Len(order) \in Nat
          BY <1>2, SpotFacts
        <4>3. k \in 1 .. Len(order)
          BY <4>1, <4>2
        <4> QED BY <4>1, <4>3
      <3> QED BY <3>1, <3>2
    <2> QED BY <1>2, <2>1, SpotFacts
  <1>4. CASE Top(t).call = "write" /\ StepTo(t, m_prev[Top(t).at])
    <2> DEFINE current2 == m_current_context[t]
               outbound2 == m_in_outbound[t]
    <2>1. /\ current2 \in {Top(t).at, NULL} /\ (current2 = m_prev[m_tail] => outbound2 = TRUE)
          /\ current2 \in Handlers \cup {NULL} /\ outbound2 \in BOOLEAN
      BY <1>1, <1>4, Writing
    <2>2. SetRouting(t, outbound2, current2)
      BY <1>1, <1>2 DEF SetRouting, Types
    <2>3. Top(t).at # m_head /\ Top(t).running # FALSE
      BY <1>1, <1>3, HandlersAssumption
    <2> HIDE DEF current2, outbound2
    <2> QED BY <1>1, <1>3, <1>4, <2>1, <2>2, <2>3, UpGoesOn
  <1>5. CASE Top(t).call # "write" /\ StepTo(t, m_next[Top(t).at])
    <2>1. Top(t).running # FALSE
      BY <1>1
    <2> QED BY <1>1, <1>3, <1>5, <2>1, DownGoesOn
  <1> QED BY <1>1, <1>4, <1>5

\* A write comes to a handler that is not its writer, and which it calls.
LEMMA UpCalls ==
  ASSUME PipelineInv, crashed = FALSE, NEW t \in Threads, NEW w2 \in Walks,
         stack[t] # <<>>, Top(t).call = "write", Top(t).running = FALSE, Top(t).at \in Outbound,
         m_current_context[t] # Top(t).at,
         SetRouting(t, m_in_outbound[t], Top(t).at), SetTop(t, w2),
         UNCHANGED <<chain, m_destroyed, replies, stale>>,
         w2.call = "write", w2.at = Top(t).at, w2.from = Top(t).from, w2.running = TRUE,
         w2.called = Append(Top(t).called, Top(t).at), w2.ofRead = Top(t).ofRead,
         w2.made = Top(t).made, w2.stale = Top(t).stale,
         \A h \in Transforming : w2.encoded[h] =
             IF h = Top(t).at THEN Top(t).encoded[h] + Lists(t)[h] ELSE Top(t).encoded[h]
  PROVE  PipelineInv'
  <1> DEFINE w == Top(t)
             lists == Lists(t)
             current2 == w.at
             outbound2 == m_in_outbound[t]
  <1>1. OrderInv /\ LinkInv /\ Types /\ w \in Walks /\ deleted = {}
    BY Walking
  <1>2. /\ UpInv(lists, w) /\ AtWriter(w, m_current_context[t], m_in_outbound[t])
        /\ m_in_outbound[t] \in BOOLEAN
    BY Writing
  <1>3. w.at \in Handlers
    BY HandlersAssumption
  <1>4. w.at # w.from /\ (w.at = m_prev[m_tail] => outbound2 = TRUE)
    BY <1>1, <1>2, <1>3, RouteAtLast
  <1>5. UpInv(lists, w2)
    BY <1>1, <1>2, <1>4, UpRuns
  <1>6. WalkInv(lists, w2) /\ w2.running # FALSE
    BY <1>5 DEF WalkInv
  <1>7. Lists(t)' = lists /\ UNCHANGED <<chain, m_destroyed, stale, crashed, m_type_local>>
    BY ListsKept DEF replies
  <1>8. /\ m_type_local' \in [Transforming -> [Threads -> Nat \cup {NoList}]]
        /\ \A u \in Threads \ {t} : \A h \in Transforming :
              m_type_local'[h][u] = m_type_local[h][u]
    BY <1>1, <1>7 DEF Types
  <1>9. /\ current2 \in Handlers \cup {NULL} /\ outbound2 \in BOOLEAN
        /\ SetRouting(t, outbound2, current2) /\ (current2 = m_prev[m_tail] => outbound2 = TRUE)
        /\ current2 \in {w2.at, NULL} /\ lists = Lists(t)
    BY <1>2, <1>3, <1>4
  <1> HIDE DEF w, lists, current2, outbound2
  <1> QED BY <1>6, <1>7, <1>8, <1>9, TopStep

LEMMA HandlerWriteKeeps ==
  ASSUME PipelineInv, crashed = FALSE, NEW t \in Threads, HandlerWrite(t)
  PROVE  PipelineInv'
  <1> DEFINE w == Top(t)
  <1>1. /\ stack[t] # <<>> /\ w.call = "write" /\ w.running = FALSE
        /\ w.at \in Handlers /\ w.at \notin Transforming /\ m_current_context[t] # w.at
        /\ SetRouting(t, m_in_outbound[t], w.at)
        /\ IF w.at \in Outbound THEN RunHandler(t) ELSE StepTo(t, m_prev[w.at])
        /\ UNCHANGED <<chain, m_destroyed, replies, stale>>
    BY DEF HandlerWrite, At
  <1>2. OrderInv /\ LinkInv /\ w \in Walks /\ deleted = {}
    BY <1>1, Walking
  <1>3. /\ UpInv(Lists(t), w) /\ AtWriter(w, m_current_context[t], m_in_outbound[t])
        /\ m_in_outbound[t] \in BOOLEAN
    BY <1>1, Writing
  <1>4. CASE w.at \in Outbound
    <2> DEFINE w2 == [w EXCEPT !.running = TRUE, !.called = Append(@, w.at)]
    <2>1. SetTop(t, w2)
      BY <1>1, <1>4 DEF RunHandler
    <2>2. /\ w2 \in Walks /\ w2.at = w.at /\ w2.running = TRUE
          /\ w2.call = w.call /\ w2.from = w.from /\ w2.called = Append(w.called, w.at)
          /\ w2.ofRead = w.ofRead /\ w2.made = w.made /\ w2.encoded = w.encoded /\ w2.stale = w.stale
      <3> HIDE DEF w
      <3> QED BY <1>1, <1>2, RunFields
    <2> HIDE DEF w2
    <2>3. \A h \in Transforming : w2.encoded[h] =
             IF h = w.at THEN w.encoded[h] + Lists(t)[h] ELSE w.encoded[h]
      BY <1>1, <2>2
    <2> QED BY <1>1, <1>4, <2>1, <2>2, <2>3, UpCalls
  <1>5. CASE w.at \notin Outbound
    <2> DEFINE current2 == w.at
               outbound2 == m_in_outbound[t]
    <2>1. StepTo(t, m_prev[w.at]) /\ w.at # m_head
      BY <1>1, <1>5, HandlersAssumption
    <2>2. w.at = m_prev[m_tail] => m_in_outbound[t] = TRUE
      BY <1>1, <1>2, <1>3, RouteAtLast
    <2>3. /\ current2 \in Handlers \cup {NULL} /\ outbound2 \in BOOLEAN
          /\ SetRouting(t, outbound2, current2) /\ (current2 = m_prev[m_tail] => outbound2 = TRUE)
          /\ w.at \in Handlers /\ current2 \in {w.at, NULL}
      BY <1>1, <1>3, <2>2
    <2>4. stack[t] # <<>> /\ Top(t).call = "write" /\ Top(t).at # m_head
          /\ StepTo(t, m_prev[Top(t).at]) /\ Top(t).at \notin Outbound
          /\ Top(t).at \in Handlers /\ current2 \in {Top(t).at, NULL}
          /\ UNCHANGED <<chain, m_destroyed, replies, stale>>
      BY <1>1, <1>5, <2>1
    <2> HIDE DEF current2, outbound2, w
    <2> QED BY <2>3, <2>4, UpGoesOn
  <1> QED BY <1>4, <1>5

LEMMA TransformWriteKeeps ==
  ASSUME PipelineInv, crashed = FALSE, NEW t \in Threads, TransformWrite(t)
  PROVE  PipelineInv'
  <1> DEFINE w == Top(t)
             n == Local(w.at, t)
  <1>1. /\ stack[t] # <<>> /\ w.call = "write" /\ w.running = FALSE
        /\ w.at \in Transforming /\ m_current_context[t] # w.at
        /\ SetRouting(t, m_in_outbound[t], w.at)
        /\ UNCHANGED <<chain, m_destroyed, m_type_local, stale>>
    BY DEF TransformWrite, At
  <1>2. /\ ~Building /\ deleting = NULL /\ OrderInv /\ LinkInv /\ w \in Walks /\ deleted = {}
        /\ Types /\ ThreadInv(t) /\ w = stack[t][Len(stack[t])] /\ Len(stack[t]) \in 1 .. Len(stack[t])
    BY <1>1, Walking
  <1>3. /\ UpInv(Lists(t), w) /\ AtWriter(w, m_current_context[t], m_in_outbound[t])
        /\ m_in_outbound[t] \in BOOLEAN
    BY <1>1, Writing
  <1>4. w.at \in Outbound /\ w.at \in Handlers
    BY <1>1, TransformingAssumption, HandlersAssumption
  <1>5. CASE n # NoList
    <2> DEFINE w2 == Encoding(w, n)
    <2>1. SetTop(t, w2) /\ UNCHANGED replies
      BY <1>1, <1>5 DEF TransformWrite, replies, Encoding
    <2>2. n \in Nat /\ n = Lists(t)[w.at]
      <3>1. n = Lists(t)[w.at]
        BY <1>1 DEF Lists
      <3>2. n \in Nat \cup {NoList}
        BY <1>1, <1>2 DEF Types, Local
      <3> QED BY <1>5, <3>1, <3>2
    <2>3. /\ w2 \in Walks /\ w2.at = w.at /\ w2.running = TRUE
          /\ w2.call = w.call /\ w2.from = w.from /\ w2.called = Append(w.called, w.at)
          /\ w2.ofRead = w.ofRead /\ w2.made = w.made /\ w2.stale = w.stale
          /\ \A h \in Transforming :
                w2.encoded[h] = IF h = w.at THEN w.encoded[h] + n ELSE w.encoded[h]
      <3> HIDE DEF w, n
      <3> QED BY <1>1, <1>2, <2>2, EncodeFields
    <2> HIDE DEF w2
    <2>4. \A h \in Transforming : w2.encoded[h] =
             IF h = w.at THEN w.encoded[h] + Lists(t)[h] ELSE w.encoded[h]
      BY <2>2, <2>3
    <2> QED BY <1>1, <1>4, <2>1, <2>3, <2>4, UpCalls
  \* The program ends in the middle of the write.
  <1>6. CASE n = NoList
    <2>1. crashed' = TRUE /\ UNCHANGED <<chain, m_destroyed, m_type_local, stale, stack>>
      BY <1>6 DEF TransformWrite
    <2>2. /\ m_in_outbound' = m_in_outbound
          /\ m_current_context' = [m_current_context EXCEPT ![t] = w.at]
          /\ m_current_context \in [Threads -> Handlers \cup {NULL}]
      BY <1>1, <1>2 DEF SetRouting, Types
    <2>3. w.at = m_prev[m_tail] => m_in_outbound[t] = TRUE
      BY <1>1, <1>2, <1>3, <1>4, RouteAtLast
    <2>4. \E i \in 1 .. Len(stack[t]) : stack[t][i].call = "write"
      BY <1>1, <1>2
    <2> HIDE DEF w, n
    <2>5. /\ m_current_context' \in [Threads -> Handlers \cup {NULL}]
          /\ m_current_context'[t] = w.at
          /\ \A u \in Threads \ {t} : m_current_context'[u] = m_current_context[u]
      BY <1>4, <2>2
    <2>6. Types'
      BY <1>2, <2>1, <2>2, <2>5 DEF Types, chain
    <2>7. Lists(t)' = Lists(t)
      BY <2>1, ListsKept
    <2>8. Nested(stack[t])' /\ \A i \in 1 .. Len(stack'[t]) : WalkInv(Lists(t), stack[t][i])'
      <3>1. Nested(stack[t])'
        BY <1>2, <2>1 DEF ThreadInv, Nested
      <3>2. \A i \in 1 .. Len(stack'[t]) : WalkInv(Lists(t), stack[t][i])'
        BY <1>2, <2>1, <2>7, WalkKept DEF ThreadInv, chain
      <3> QED BY <3>1, <3>2
    <2>9. RouteInv(t)'
      <3>1. (deleted = {} /\ m_current_context[t] = m_prev[m_tail] => m_in_outbound[t] = TRUE)'
        BY <2>1, <2>2, <2>3, <2>5 DEF chain
      <3>2. crashed' # FALSE
        BY <2>1
      <3>3. (\E i \in 1 .. Len(stack[t]) : stack[t][i].call = "write")'
        BY <2>1, <2>4
      <3> QED BY <3>1, <3>2, <3>3 DEF RouteInv
    <2>10. ThreadInv(t)'
      BY <2>8, <2>9 DEF ThreadInv
    <2>11. UNCHANGED chain /\ \A u \in Threads \ {t} :
            /\ stack'[u] = stack[u] /\ m_current_context'[u] = m_current_context[u]
            /\ m_in_outbound'[u] = m_in_outbound[u] /\ stale'[u] = stale[u]
            /\ \A h \in Transforming : m_type_local'[h][u] = m_type_local[h][u]
      BY <2>1, <2>2, <2>5
    <2> QED BY ONLY PipelineInv, t \in Threads, crashed = FALSE, <1>2, <2>6, <2>10, <2>11, OneThread
  <1> QED BY <1>5, <1>6

LEMMA TailReadKeeps ==
  ASSUME PipelineInv, crashed = FALSE, NEW t \in Threads, TailRead(t)
  PROVE  PipelineInv'
  <1> DEFINE w == Top(t)
             w2 == Walk("write", m_tail, TRUE, w.made, stale[t])
             s == stack[t]
  <1>1. /\ s # <<>> /\ w.call = "read" /\ w.running = FALSE /\ w.at = m_tail
        /\ SetTop(t, w2) /\ UNCHANGED <<chain, m_destroyed, routing, replies, stale>>
    BY DEF TailRead, At
  <1>2. /\ deleted = {} /\ OrderInv /\ LinkInv /\ Types /\ ThreadInv(t) /\ w \in Walks
        /\ s \in Seq(Walks) /\ w = s[Len(s)] /\ WalkInv(Lists(t), w)
    BY <1>1, Walking
  <1>3. DownInv(Lists(t), w)
    BY <1>1, <1>2 DEF WalkInv
  \* The read is the only walk: there is no write that could have left routing behind.
  <1>4. stale[t] = FALSE => m_in_outbound[t] # TRUE /\ m_current_context[t] = NULL
    <2>1. Len(s) = 1
      BY <1>1, <1>2, Outermost DEF ThreadInv
    <2>2. \A i \in 1 .. Len(s) : s[i].call # "write"
      <3>1. \A i \in 1 .. 1 : i = 1
        OBVIOUS
      <3> QED BY <1>1, <1>2, <2>1, <3>1
    <2> QED BY <1>2, <2>2 DEF ThreadInv, RouteInv
  <1>5. w2 \in Walks
    <2> DEFINE made == w.made
               was == stale[t]
               call == "write"
               ofRead == TRUE
    <2>1. made \in [Transforming -> Nat]
      <3> HIDE DEF w
      <3> QED BY <1>2 DEF Walks
    <2>2. was \in BOOLEAN /\ m_tail \in Contexts
      BY <1>2 DEF Types, Contexts
    <2>3. call \in {"read", "write", "event"} /\ ofRead \in BOOLEAN
      OBVIOUS
    <2> HIDE DEF made, was, call, ofRead
    <2>4. Walk(call, m_tail, ofRead, made, was) \in Walks
      BY <2>1, <2>2, <2>3, NewWalk
    <2> QED BY <2>4 DEF made, was, call, ofRead
  <1>6. /\ w2.call = "write" /\ w2.at = m_tail /\ w2.from = m_tail /\ w2.running = FALSE
        /\ w2.called = <<>> /\ w2.made = w.made /\ w2.encoded = NoReplies
    BY DEF Walk
  <1>7. w2.stale = FALSE => stale[t] = FALSE
    BY Zenon DEF Walk
  <1>8. m_current_context[t] \in Handlers \cup {NULL}
        /\ (m_current_context[t] = m_prev[m_tail] => m_in_outbound[t] = TRUE)
    BY <1>2 DEF Types, ThreadInv, RouteInv
  <1> HIDE DEF w2, w, s
  <1>9. WalkInv(Lists(t), w2)
    BY <1>1, <1>2, <1>3, <1>5, <1>6, UpStartsOfRead DEF WalkInv
  <1>10. AtWriter(w2, m_current_context[t], m_in_outbound[t])
    <2>1. w2.from = w2.at /\ w2.at = m_tail
          /\ (w2.at = m_tail /\ w2.stale = FALSE =>
                  m_current_context[t] = NULL \/ m_in_outbound[t] # TRUE)
      BY <1>4, <1>6, <1>7
    <2> QED BY <1>2, <1>5, <1>8, <2>1, RouteStarts
  <1>11. stack[t] # <<>> /\ w2.running # TRUE
    BY <1>1, <1>6 DEF s
  <1> QED BY <1>1, <1>5, <1>6, <1>9, <1>10, <1>11, WalkStep

LEMMA WriteKeeps ==
  ASSUME PipelineInv, MarkInv, crashed = FALSE, NEW t \in Threads, Write(t)
  PROVE  PipelineInv'
  <1> DEFINE current == m_current_context[t]
             outbound == m_in_outbound[t]
             start == Start(t)
             plain == Walk("write", start, FALSE, NoReplies, stale[t])
             w2 == Written(t)
  <1>1. Push(t, w2) /\ UNCHANGED <<chain, m_destroyed, routing, replies, stale>>
    BY DEF Write
  <1>2. /\ ~Building /\ deleting = NULL /\ deleted = {} /\ (stack[t] = <<>> \/ Top(t).running = TRUE)
    <2>1. CASE Idle(t)
      BY <2>1 DEF Idle
    <2>2. CASE stack[t] # <<>> /\ Top(t).running
      <3>1. ~Building /\ deleting = NULL /\ deleted = {} /\ Top(t) \in Walks
        BY <2>2, Walking
      <3>2. Top(t).running = TRUE
        BY <2>2, <3>1, Zenon DEF Walks
      <3> QED BY <3>1, <3>2
    <2> QED BY <2>1, <2>2 DEF Write
  <1>3. Types /\ OrderInv /\ LinkInv /\ ThreadInv(t)
    BY DEF PipelineInv, ShapeInv
  <1>4. /\ current \in Handlers \cup {NULL} /\ outbound \in BOOLEAN /\ stale[t] \in BOOLEAN
        /\ current = m_prev[m_tail] => outbound = TRUE
    BY <1>2, <1>3 DEF Types, ThreadInv, RouteInv
  <1>5. \/ start = m_tail /\ (current = NULL \/ outbound # TRUE)
        \/ start \in Handlers /\ start = current
    <2>1. CASE ~m_in_outbound[t] \/ m_current_context[t] = NULL
      <3>1. start = m_tail
        BY <2>1 DEF Start
      <3>2. current = NULL \/ outbound # TRUE
        BY <2>1, Zenon
      <3> QED BY <3>1, <3>2
    <2>2. CASE ~(~m_in_outbound[t] \/ m_current_context[t] = NULL)
      <3>1. start = current
        BY <2>2 DEF Start
      <3>2. current # NULL
        BY <2>2, Zenon
      <3> QED BY <1>4, <3>1, <3>2
    <2> QED BY <2>1, <2>2
  <1>6. m_tail \notin Handlers
    BY HandlersAssumption
  <1>7. plain \in Walks
    <2> DEFINE was == stale[t]
               call == "write"
               ofRead == FALSE
    <2>1. was \in BOOLEAN /\ start \in Contexts
      BY <1>4, <1>5 DEF Contexts
    <2>2. call \in {"read", "write", "event"} /\ ofRead \in BOOLEAN
          /\ NoReplies \in [Transforming -> Nat]
      BY DEF NoReplies
    <2> HIDE DEF was, call, ofRead, start
    <2>3. Walk(call, start, ofRead, NoReplies, was) \in Walks
      BY <2>1, <2>2, NewWalk
    <2> QED BY <2>3 DEF was, call, ofRead
  <1>8. /\ w2 \in Walks
        /\ w2.call = "write" /\ w2.at = start /\ w2.from = start /\ w2.running = FALSE
        /\ w2.called = <<>> /\ w2.ofRead = FALSE
    <2>1. /\ plain.call = "write" /\ plain.at = start /\ plain.from = start
          /\ plain.running = FALSE /\ plain.called = <<>> /\ plain.ofRead = FALSE
      BY DEF Walk
    <2>2. CASE At(t, "write", TRUE)
      <3> DEFINE writer == Top(t).at
                 again == rerouted[t]
      <3>1. w2 = [plain EXCEPT !.writer = writer, !.again = again]
        BY <2>2 DEF Written
      <3>2. writer \in Contexts
        <4>1. Top(t) \in Walks
          BY <2>2, Walking DEF At
        <4> QED BY <4>1, Zenon DEF Walks
      <3>3. again \in BOOLEAN
        BY DEF MarkInv
      <3> HIDE DEF plain, w2, writer, again
      <3> QED BY <1>7, <2>1, <3>1, <3>2, <3>3, Zenon DEF Walks
    <2>3. CASE ~At(t, "write", TRUE)
      <3>1. w2 = plain
        BY <2>3 DEF Written
      <3> HIDE DEF plain, w2
      <3> QED BY <1>7, <2>1, <3>1
    <2> QED BY <2>2, <2>3
  <1> HIDE DEF start, plain, w2
  <1>9. WalkInv(Lists(t), w2)
    <2>1. w2.at \in Handlers \cup {m_tail} /\ w2.from = w2.at
      BY <1>5, <1>8
    <2>2. UpInv(Lists(t), w2)
      BY <1>2, <1>3, <1>7, <1>8, <2>1, UpStarts
    <2> QED BY <1>8, <2>2 DEF WalkInv
  <1>10. AtWriter(w2, current, outbound)
    <2>1. /\ w2.from = w2.at /\ (w2.at = m_tail \/ (w2.at \in Handlers /\ w2.at = current))
          /\ w2.at = m_tail /\ w2.stale = FALSE => current = NULL \/ outbound # TRUE
      BY <1>5, <1>6, <1>8
    <2>2. /\ w2 \in Walks /\ current \in Handlers \cup {NULL}
          /\ current = m_prev[m_tail] => outbound = TRUE
          /\ OrderInv /\ LinkInv /\ deleted = {}
      BY <1>2, <1>3, <1>4, <1>8
    <2> HIDE DEF current, outbound
    <2> QED BY <2>1, <2>2, RouteStarts
  <1> QED BY <1>1, <1>2, <1>8, <1>9, <1>10, PushStep

LEMMA HeadWriteKeeps ==
  ASSUME PipelineInv, crashed = FALSE, NEW t \in Threads, HeadWrite(t)
  PROVE  PipelineInv'
  <1> DEFINE current2 == NULL
             outbound2 == FALSE
             stale2 == FALSE
  <1>1. /\ stack[t] # <<>> /\ SetRouting(t, outbound2, current2)
        /\ stale' = [stale EXCEPT ![t] = stale2]
        /\ UNCHANGED <<chain, m_destroyed, replies>>
        /\ \E s2 : /\ s2 = <<>> \/ s2 = Front(stack[t])
                   /\ stack' = [stack EXCEPT ![t] = s2]
    BY DEF HeadWrite, EndWrite, At, Pop
  <1>2. PICK s2 : /\ s2 = <<>> \/ s2 = Front(stack[t])
                  /\ stack' = [stack EXCEPT ![t] = s2]
    BY <1>1
  <1>3. m_prev[m_tail] # NULL
    BY <1>1, Walking, RowFacts
  <1>4. /\ current2 \in Handlers \cup {NULL} /\ outbound2 \in BOOLEAN /\ stale2 \in BOOLEAN
        /\ (current2 = m_prev[m_tail] => outbound2 = TRUE)
        /\ outbound2 # TRUE /\ current2 = NULL
    BY <1>3
  <1> HIDE DEF current2, outbound2, stale2
  <1> QED BY <1>1, <1>2, <1>4, EndStep

LEMMA ThrowKeeps ==
  ASSUME PipelineInv, crashed = FALSE, NEW t \in Threads, Throw(t)
  PROVE  PipelineInv'
  <1> DEFINE current2 == m_current_context[t]
             outbound2 == m_in_outbound[t]
             stale2 == stale[t] \/ m_in_outbound[t] \/ m_current_context[t] # NULL
             s2 == <<>>
  <1>1. /\ stack[t] # <<>> /\ stack' = [stack EXCEPT ![t] = s2]
        /\ stale' = [stale EXCEPT ![t] = stale2]
        /\ UNCHANGED <<chain, m_destroyed, routing, replies>>
    BY DEF Throw
  <1>2. deleted = {} /\ Types /\ ThreadInv(t)
    BY <1>1, Walking
  <1>3. SetRouting(t, outbound2, current2)
    BY <1>1, <1>2 DEF SetRouting, Types, routing
  <1>4. /\ current2 \in Handlers \cup {NULL} /\ outbound2 \in BOOLEAN
        /\ (current2 = m_prev[m_tail] => outbound2 = TRUE)
    BY <1>2 DEF Types, ThreadInv, RouteInv
  <1>5. stale2 \in BOOLEAN
    BY Zenon
  <1>6. stale2 = FALSE => outbound2 # TRUE /\ current2 = NULL
    BY Zenon
  <1>7. s2 = <<>>
    OBVIOUS
  <1> HIDE DEF current2, outbound2, stale2, s2
  <1> QED BY <1>1, <1>3, <1>4, <1>5, <1>6, <1>7, EndStep

--------------------------------------------------------------------------------
\* The chain is made

\* A handler comes between the contexts at places j and j + 1.
LEMMA Inserted ==
  ASSUME NEW j \in 0 .. Len(order), NEW h \in Handlers, h \notin ToSet(order),
         OrderInv, LinkInv, Types, deleted = {}, Building, UNCHANGED <<m_elg, deleted>>,
         order' \in Seq(Handlers), Len(order') = Len(order) + 1,
         \A k \in 1 .. j : order'[k] = order[k],
         order'[j + 1] = h,
         \A k \in j + 1 .. Len(order) : order'[k + 1] = order[k],
         m_next' = [m_next EXCEPT ![Spot(j)] = h, ![h] = Spot(j + 1)],
         m_prev' = [m_prev EXCEPT ![Spot(j + 1)] = h, ![h] = Spot(j)]
  PROVE  /\ OrderInv' /\ LinkInv'
         /\ m_next' \in [Contexts -> Contexts \cup {NULL}]
         /\ m_prev' \in [Contexts -> Contexts \cup {NULL}]
         /\ m_prev'[m_tail] # NULL
  <1> DEFINE n == Len(order)
             n2 == Len(order')
  <1>1. /\ n \in Nat /\ Spot(0) = m_head /\ Spot(n + 1) = m_tail
        /\ \A k \in 1 .. n : Spot(k) = order[k]
        /\ \A k \in 0 .. n + 1 : Spot(k) \in Contexts /\ Spot(k) # NULL
        /\ \A i, k \in 0 .. n + 1 : Spot(i) = Spot(k) => i = k
        /\ \A k \in 0 .. n + 1 : Spot(k) \in Handlers <=> k \in 1 .. n
    BY SpotFacts DEF Spots
  <1>2. (\A k \in 1 .. n : order[k] # h) /\ \A k \in 1 .. n : order[k] \in ToSet(order)
    <2>1. DOMAIN order = 1 .. n
      BY LenProperties DEF OrderInv
    <2> QED BY <2>1 DEF ToSet
  <1>3. \A i, k \in 1 .. n : order[i] = order[k] => i = k
    BY DEF OrderInv
  <1>4. n2 = n + 1
    OBVIOUS
  <1>5. \A k : Spot(k)' = IF k = 0 THEN m_head ELSE IF k = n2 + 1 THEN m_tail ELSE order'[k]
    BY DEF Spot
  <1>6. /\ \A k \in 0 .. n : m_next[Spot(k)] = Spot(k + 1) /\ m_prev[Spot(k + 1)] = Spot(k)
        /\ m_next[m_tail] = NULL /\ m_prev[m_head] = NULL
    BY DEF LinkInv
  <1>7. j \in 0 .. n /\ (\A k \in 1 .. j : order'[k] = order[k]) /\ order'[j + 1] = h
        /\ \A k \in j + 1 .. n : order'[k + 1] = order[k]
    OBVIOUS
  <1> HIDE DEF n, n2
  <1>8. \A k \in 0 .. n + 1 : Spot(k) # h
    <2>1. \A k \in 1 .. n : Spot(k) # h
      BY <1>1, <1>2
    <2>2. \A k \in 0 .. n + 1 : k \notin 1 .. n => Spot(k) \notin Handlers
      BY <1>1
    <2> QED BY <2>1, <2>2
  \* The new row, from the old one.
  <1>9. \A k \in 0 .. j : Spot(k)' = Spot(k)
    <2>1. \A k \in 0 .. j : k # n2 + 1 /\ (k = 0 \/ (k \in 1 .. j /\ k \in 1 .. n /\ k # 0))
      BY <1>1, <1>4, <1>7
    <2> QED BY <1>1, <1>5, <1>7, <2>1
  <1>10. Spot(j + 1)' = h
    <2>1. j + 1 # 0 /\ j + 1 # n2 + 1
      BY <1>1, <1>4, <1>7
    <2> QED BY <1>5, <1>7, <2>1
  <1>11. \A k \in j + 1 .. n + 1 : Spot(k + 1)' = Spot(k)
    <2>1. \A k \in j + 1 .. n + 1 : k + 1 # 0 /\ (k + 1 = n2 + 1 <=> k = n + 1)
              /\ (k # n + 1 => k \in j + 1 .. n /\ k \in 1 .. n)
      BY <1>1, <1>4, <1>7
    <2> QED BY <1>1, <1>5, <1>7, <2>1
  <1>12. m_next \in [Contexts -> Contexts \cup {NULL}] /\ m_prev \in [Contexts -> Contexts \cup {NULL}]
    BY DEF Types
  <1>13. Spot(j) \in Contexts /\ Spot(j + 1) \in Contexts /\ h \in Contexts
         /\ Spot(j) # h /\ Spot(j + 1) # h
    <2>1. j \in 0 .. n + 1 /\ j + 1 \in 0 .. n + 1
      BY <1>1, <1>7
    <2> QED BY <1>1, <1>8, <2>1 DEF Contexts
  <1>14. /\ m_next' \in [Contexts -> Contexts \cup {NULL}]
         /\ m_prev' \in [Contexts -> Contexts \cup {NULL}]
         /\ m_next'[Spot(j)] = h /\ m_next'[h] = Spot(j + 1)
         /\ m_prev'[Spot(j + 1)] = h /\ m_prev'[h] = Spot(j)
         /\ \A c \in Contexts : c # Spot(j) /\ c # h => m_next'[c] = m_next[c]
         /\ \A c \in Contexts : c # Spot(j + 1) /\ c # h => m_prev'[c] = m_prev[c]
    BY <1>12, <1>13
  <1>15. \A k \in 0 .. n2 : k \in 0 .. j - 1 \/ k = j \/ k = j + 1 \/ \E i \in j + 1 .. n : k = i + 1
    <2> SUFFICES ASSUME NEW k \in 0 .. n2, k # j, k # j + 1, ~(k \in 0 .. j - 1)
                 PROVE  \E i \in j + 1 .. n : k = i + 1
      OBVIOUS
    <2>1. k - 1 \in j + 1 .. n /\ k = k - 1 + 1
      BY <1>1, <1>4, <1>7
    <2> QED BY <2>1
  <1>16. ASSUME NEW k \in 0 .. n2
         PROVE  m_next'[Spot(k)'] = Spot(k + 1)' /\ m_prev'[Spot(k + 1)'] = Spot(k)'
    <2>1. CASE k \in 0 .. j - 1
      <3>1. k \in 0 .. j /\ k + 1 \in 0 .. j /\ k \in 0 .. n /\ k \in 0 .. n + 1 /\ k + 1 \in 0 .. n + 1
            /\ k # j /\ k + 1 # j + 1 /\ j \in 0 .. n + 1 /\ j + 1 \in 0 .. n + 1
        BY <1>1, <1>7, <2>1
      <3>2. Spot(k)' = Spot(k) /\ Spot(k + 1)' = Spot(k + 1)
        BY <1>9, <3>1
      <3>3. /\ Spot(k) # Spot(j) /\ Spot(k) # h /\ Spot(k) \in Contexts
            /\ Spot(k + 1) # Spot(j + 1) /\ Spot(k + 1) # h /\ Spot(k + 1) \in Contexts
        BY <1>1, <1>8, <3>1
      <3> QED BY <1>6, <1>14, <3>1, <3>2, <3>3
    <2>2. CASE k = j
      <3>1. j \in 0 .. j
        BY <1>1, <1>7
      <3> QED BY <1>9, <1>10, <1>14, <2>2, <3>1
    <2>3. CASE k = j + 1
      <3>1. j + 1 \in j + 1 .. n + 1
        BY <1>1, <1>7
      <3> QED BY <1>10, <1>11, <1>14, <2>3, <3>1
    <2>4. CASE \E i \in j + 1 .. n : k = i + 1
      <3>1. PICK i \in j + 1 .. n : k = i + 1
        BY <2>4
      <3>2. /\ i \in j + 1 .. n + 1 /\ i + 1 \in j + 1 .. n + 1 /\ i \in 0 .. n
            /\ i \in 0 .. n + 1 /\ i + 1 \in 0 .. n + 1 /\ i # j /\ i + 1 # j + 1
            /\ j \in 0 .. n + 1 /\ j + 1 \in 0 .. n + 1
        BY <1>1, <1>7, <3>1
      <3>3. Spot(k)' = Spot(i) /\ Spot(k + 1)' = Spot(i + 1)
        BY <1>11, <3>1, <3>2
      <3>4. /\ Spot(i) # Spot(j) /\ Spot(i) # h /\ Spot(i) \in Contexts
            /\ Spot(i + 1) # Spot(j + 1) /\ Spot(i + 1) # h /\ Spot(i + 1) \in Contexts
        BY <1>1, <1>8, <3>2
      <3> QED BY <1>6, <1>14, <3>2, <3>3, <3>4
    <2> QED BY <1>15, <2>1, <2>2, <2>3, <2>4
  <1>17. m_next'[m_tail] = NULL /\ m_prev'[m_head] = NULL
    <2>1. 0 \in 0 .. n + 1 /\ n + 1 \in 0 .. n + 1 /\ j \in 0 .. n + 1 /\ j + 1 \in 0 .. n + 1
          /\ n + 1 # j /\ 0 # j + 1
      BY <1>1, <1>7
    <2>2. m_tail # Spot(j) /\ m_tail # h /\ m_head # Spot(j + 1) /\ m_head # h
          /\ m_tail \in Contexts /\ m_head \in Contexts
      BY <1>1, <1>8, <2>1
    <2> QED BY <1>6, <1>14, <2>2
  <1>18. ASSUME NEW g \in Handlers, g \notin ToSet(order')
         PROVE  m_next'[g] = NULL /\ m_prev'[g] = NULL
    <2>1. \A k \in 1 .. n2 : order'[k] # g
      <3>1. DOMAIN order' = 1 .. n2
        BY LenProperties DEF n2
      <3> QED BY <1>18, <3>1 DEF ToSet
    <2>2. g # h
      <3>1. j + 1 \in 1 .. n2
        BY <1>1, <1>4, <1>7
      <3> QED BY <1>7, <2>1, <3>1
    <2>3. \A k \in 1 .. n : order[k] # g
      <3>1. \A k \in 1 .. n : (k \in 1 .. j \/ k \in j + 1 .. n) /\ k \in 1 .. n2 /\ k + 1 \in 1 .. n2
        BY <1>1, <1>4, <1>7
      <3> QED BY <1>7, <2>1, <3>1
    <2>4. g \notin ToSet(order)
      <3>1. DOMAIN order = 1 .. n
        BY LenProperties DEF OrderInv, n
      <3> QED BY <2>3, <3>1 DEF ToSet
    <2>5. m_next[g] = NULL /\ m_prev[g] = NULL
      BY <2>4 DEF LinkInv
    <2>6. g # Spot(j) /\ g # Spot(j + 1) /\ g \in Contexts
      <3>1. j \in 0 .. n + 1 /\ j + 1 \in 0 .. n + 1
        BY <1>1, <1>7
      <3>2. (Spot(j) \in Handlers => j \in 1 .. n) /\ (Spot(j + 1) \in Handlers => j + 1 \in 1 .. n)
        BY <1>1, <3>1
      <3> QED BY <1>1, <2>3, <3>2 DEF Contexts
    <2> QED BY <1>14, <2>2, <2>5, <2>6
  <1>19. LinkInv'
    BY <1>16, <1>17, <1>18 DEF LinkInv, n2
  <1>20. OrderInv'
    <2>1. ASSUME NEW i \in 1 .. n2, NEW k \in 1 .. n2, order'[i] = order'[k] PROVE i = k
      <3>1. \A x \in 1 .. n2 : x = j + 1 \/ \E y \in 1 .. n :
                order'[x] = order[y] /\ x = IF y <= j THEN y ELSE y + 1
        <4> SUFFICES ASSUME NEW x \in 1 .. n2, x # j + 1
                     PROVE  \E y \in 1 .. n :
                                order'[x] = order[y] /\ x = IF y <= j THEN y ELSE y + 1
          OBVIOUS
        <4>1. CASE x <= j
          <5>1. x \in 1 .. j /\ x \in 1 .. n
            BY <1>1, <1>7, <4>1
          <5> QED BY <1>7, <4>1, <5>1
        <4>2. CASE ~(x <= j)
          <5>1. x - 1 \in j + 1 .. n /\ x - 1 \in 1 .. n /\ ~(x - 1 <= j) /\ x = x - 1 + 1
            BY <1>1, <1>4, <1>7, <4>2
          <5>2. order'[x] = order[x - 1]
            BY <1>7, <5>1
          <5> QED BY <5>1, <5>2
        <4> QED BY <4>1, <4>2
      <3>2. \A y \in 1 .. n : order[y] # order'[j + 1]
        BY <1>2, <1>7
      <3> QED BY <1>3, <2>1, <3>1, <3>2
    <2> QED BY <2>1 DEF OrderInv, Building, n2
  <1>21. m_prev'[m_tail] # NULL
    <2>1. PICK l : l = n2
      OBVIOUS
    <2>2. l \in 0 .. n2 /\ l = n + 1
      BY <1>1, <1>4, <2>1
    <2>3. m_prev'[Spot(l + 1)'] = Spot(l)'
      BY <1>16, <2>2
    <2>4. Spot(l + 1)' = m_tail
      <3>1. l + 1 = n2 + 1 /\ l + 1 # 0
        BY <1>1, <2>1, <2>2
      <3> QED BY <1>5, <3>1
    <2>5. Spot(l)' # NULL
      <3>1. CASE j = n
        BY <1>10, <2>2, <3>1, HandlersAssumption
      <3>2. CASE j # n
        <4>1. PICK i : i = n
          OBVIOUS
        <4>2. i \in j + 1 .. n + 1 /\ i \in 0 .. n + 1 /\ l = i + 1
          BY <1>1, <1>7, <2>2, <3>2, <4>1
        <4> QED BY <1>1, <1>11, <4>2
      <3> QED BY <3>1, <3>2
    <2> QED BY <2>3, <2>4, <2>5
  <1> QED BY <1>14, <1>19, <1>20, <1>21

\* A step of the making.
LEMMA BuildStep ==
  ASSUME PipelineInv, Building,
         UNCHANGED <<deleting, deleted, m_destroyed, routing, replies, stack, stale>>,
         m_elg' \subseteq Contexts, OrderInv', LinkInv',
         m_next' \in [Contexts -> Contexts \cup {NULL}],
         m_prev' \in [Contexts -> Contexts \cup {NULL}], m_prev'[m_tail] # NULL
  PROVE  PipelineInv'
  <1>1. /\ deleting = NULL /\ deleted = {} /\ m_destroyed = FALSE /\ Types
        /\ \A t \in Threads :
              stack[t] = <<>> /\ m_in_outbound[t] = FALSE /\ m_current_context[t] = NULL
    BY DEF PipelineInv, ShapeInv, QuietInv
  <1>2. UNCHANGED <<m_in_outbound, m_current_context, m_type_local, crashed>>
    BY DEF routing, replies
  <1>3. Types'
    BY <1>1, <1>2 DEF Types
  <1>4. EndInv' /\ QuietInv'
    BY <1>1, <1>2 DEF EndInv, QuietInv
  <1>5. ASSUME NEW t \in Threads PROVE ThreadInv(t)'
    <2>1. /\ stack'[t] = <<>> /\ m_in_outbound'[t] = FALSE /\ m_current_context'[t] = NULL
          /\ Len(stack'[t]) = 0
      BY <1>1, <1>2, EmptySeq
    <2>2. Nested(stack[t])'
      BY <2>1 DEF Nested
    <2>3. \A i \in 1 .. Len(stack'[t]) : WalkInv(Lists(t), stack[t][i])'
      BY <2>1
    <2>4. RouteInv(t)'
      BY <2>1 DEF RouteInv, TopInv
    <2> QED BY <2>2, <2>3, <2>4 DEF ThreadInv
  <1> QED BY <1>3, <1>4, <1>5 DEF PipelineInv, ShapeInv

LEMMA AddFirstKeeps ==
  ASSUME PipelineInv, NEW h \in Handlers, AddFirst(h)
  PROVE  PipelineInv'
  <1> DEFINE n == Len(order)
             m == Len(order')
  <1>1. /\ Building /\ h \notin ToSet(order) /\ order' = <<h>> \o order
        /\ m_next' = [m_next EXCEPT ![m_head] = h, ![h] = m_next[m_head]]
        /\ m_prev' = [m_prev EXCEPT ![m_next[m_head]] = h, ![h] = m_head]
        /\ UNCHANGED <<m_elg, deleting, deleted, m_destroyed, routing, replies, stack, stale>>
    BY DEF AddFirst, InsertNext
  <1>2. Types /\ OrderInv /\ LinkInv /\ deleted = {}
    BY <1>1 DEF PipelineInv, ShapeInv, QuietInv
  <1>3. /\ n \in Nat /\ Spot(0) = m_head /\ m_next[m_head] = Spot(1) /\ order \in Seq(Handlers)
    BY <1>2, SpotFacts, RowFacts DEF OrderInv
  <1>4. /\ order' \in Seq(Handlers) /\ m = 1 + n
        /\ \A i \in 1 .. 1 + n : order'[i] = IF i <= 1 THEN <<h>>[i] ELSE order[i - 1]
    <2>1. <<h>> \in Seq(Handlers) /\ Len(<<h>>) = 1
      OBVIOUS
    <2> QED BY <1>1, <1>3, <2>1, ConcatProperties
  <1>5. <<h>>[1] = h
    OBVIOUS
  <1> DEFINE j == 0
  <1> HIDE DEF n, m
  <1>6. /\ j \in 0 .. n /\ m = n + 1
        /\ \A k \in 1 .. j : order'[k] = order[k]
        /\ order'[j + 1] = h
        /\ \A k \in j + 1 .. n : order'[k + 1] = order[k]
    <2>1. \A k \in 1 .. n : k + 1 \in 1 .. 1 + n /\ ~(k + 1 <= 1) /\ k + 1 - 1 = k
      BY <1>3
    <2>2. 1 \in 1 .. 1 + n /\ 0 \in 0 .. n /\ 0 + 1 = 1 /\ 1 .. 0 = {}
      BY <1>3
    <2> QED BY <1>3, <1>4, <1>5, <2>1, <2>2
  <1>7. /\ m_next' = [m_next EXCEPT ![Spot(j)] = h, ![h] = Spot(j + 1)]
        /\ m_prev' = [m_prev EXCEPT ![Spot(j + 1)] = h, ![h] = Spot(j)]
    <2>1. j + 1 = 1
      OBVIOUS
    <2>2. Spot(j) = m_head /\ Spot(j + 1) = m_next[m_head]
      BY <1>3, <2>1
    <2> QED BY <1>1, <2>2
  <1>8. j \in 0 .. Len(order) /\ Len(order') = Len(order) + 1
        /\ \A k \in j + 1 .. Len(order) : order'[k + 1] = order[k]
    BY <1>6 DEF n, m
  <1> HIDE DEF j
  <1>9. /\ OrderInv' /\ LinkInv'
        /\ m_next' \in [Contexts -> Contexts \cup {NULL}]
        /\ m_prev' \in [Contexts -> Contexts \cup {NULL}]
        /\ m_prev'[m_tail] # NULL
    BY <1>1, <1>2, <1>4, <1>6, <1>7, <1>8, Inserted
  <1>10. m_elg' \subseteq Contexts
    BY <1>1, <1>2 DEF Types
  <1> QED BY <1>1, <1>9, <1>10, BuildStep

LEMMA AddLastKeeps ==
  ASSUME PipelineInv, NEW h \in Handlers, AddLast(h)
  PROVE  PipelineInv'
  <1> DEFINE j == Len(order)
  <1>1. /\ Building /\ h \notin ToSet(order) /\ order' = Append(order, h)
        /\ m_prev' = [m_prev EXCEPT ![m_tail] = h, ![h] = m_prev[m_tail]]
        /\ m_next' = [m_next EXCEPT ![m_prev[m_tail]] = h, ![h] = m_tail]
        /\ UNCHANGED <<m_elg, deleting, deleted, m_destroyed, routing, replies, stack, stale>>
    BY DEF AddLast, InsertPrev
  <1>2. Types /\ OrderInv /\ LinkInv /\ deleted = {}
    BY <1>1 DEF PipelineInv, ShapeInv, QuietInv
  <1>3. /\ j \in Nat /\ Spot(j + 1) = m_tail /\ m_prev[m_tail] = Spot(j) /\ order \in Seq(Handlers)
    BY <1>2, SpotFacts, RowFacts DEF OrderInv
  <1>4. /\ order' \in Seq(Handlers) /\ Len(order') = Len(order) + 1
        /\ \A k \in 1 .. j : order'[k] = order[k]
        /\ order'[j + 1] = h
    BY <1>1, <1>3, AppendProps
  <1>5. /\ m_next' = [m_next EXCEPT ![Spot(j)] = h, ![h] = Spot(j + 1)]
        /\ m_prev' = [m_prev EXCEPT ![Spot(j + 1)] = h, ![h] = Spot(j)]
    BY <1>1, <1>3
  <1>6. j \in 0 .. Len(order) /\ \A k \in j + 1 .. Len(order) : order'[k + 1] = order[k]
    <2>1. j = Len(order)
      OBVIOUS
    <2> HIDE DEF j
    <2>2. j \in 0 .. j /\ j + 1 .. j = {}
      BY <1>3
    <2> QED BY <2>1, <2>2
  <1> HIDE DEF j
  <1>7. /\ OrderInv' /\ LinkInv'
        /\ m_next' \in [Contexts -> Contexts \cup {NULL}]
        /\ m_prev' \in [Contexts -> Contexts \cup {NULL}]
        /\ m_prev'[m_tail] # NULL
    BY <1>1, <1>2, <1>4, <1>5, <1>6, Inserted
  <1>8. m_elg' \subseteq Contexts
    BY <1>1, <1>2 DEF Types
  <1> QED BY <1>1, <1>7, <1>8, BuildStep

LEMMA FireEventLoopGroupKeeps ==
  ASSUME PipelineInv, FireEventLoopGroup
  PROVE  PipelineInv'
  <1>1. /\ Building /\ ToSet(order) = Handlers
        /\ m_elg' = {m_next[c] : c \in Contexts} \ {NULL}
        /\ UNCHANGED <<m_next, m_prev, order, deleting, deleted, m_destroyed, routing, replies, stack, stale>>
    BY DEF FireEventLoopGroup
  <1>2. Types /\ OrderInv /\ LinkInv /\ deleted = {}
    BY <1>1 DEF PipelineInv, ShapeInv, QuietInv
  <1>3. m_elg' \subseteq Contexts
    BY <1>1, <1>2 DEF Types
  <1>4. \A h \in Handlers : \E k \in 1 .. Len(order) : order[k] = h
    <2>1. DOMAIN order = 1 .. Len(order)
      BY <1>2, LenProperties DEF OrderInv
    <2> QED BY <1>1, <2>1 DEF ToSet
  <1>5. OrderInv' /\ LinkInv'
    BY <1>1, <1>2, <1>4 DEF OrderInv, LinkInv, Spot
  <1>6. /\ m_next' \in [Contexts -> Contexts \cup {NULL}]
        /\ m_prev' \in [Contexts -> Contexts \cup {NULL}]
        /\ m_prev'[m_tail] # NULL
    BY <1>1, <1>2, RowFacts DEF Types
  <1> QED BY <1>1, <1>3, <1>5, <1>6, BuildStep

--------------------------------------------------------------------------------
\* The chain is taken apart

LEMMA EndThreads ==
  ASSUME PipelineInv, \A t \in Threads : stack[t] = <<>>,
         UNCHANGED <<order, m_elg, routing, replies, stack, stale>>,
         deleted' = {} => deleted = {} /\ m_prev' = m_prev
  PROVE  \A t \in Threads : ThreadInv(t)'
  <1> SUFFICES ASSUME NEW t \in Threads PROVE ThreadInv(t)'
    OBVIOUS
  <1>1. ThreadInv(t) /\ stack[t] = <<>>
    BY DEF PipelineInv
  <1>2. UNCHANGED <<m_in_outbound, m_current_context, stack, stale>>
    BY DEF routing
  <1>3. stack'[t] = <<>> /\ Len(stack'[t]) = 0
    BY <1>1, <1>2, EmptySeq
  <1>4. Nested(stack[t])'
    BY <1>3 DEF Nested
  <1>5. \A i \in 1 .. Len(stack'[t]) : WalkInv(Lists(t), stack[t][i])'
    BY <1>3
  <1>6. RouteInv(t)'
    BY <1>1, <1>2, <1>3 DEF ThreadInv, RouteInv, TopInv
  <1> QED BY <1>4, <1>5, <1>6 DEF ThreadInv

LEMMA DestroyKeeps ==
  ASSUME PipelineInv, Destroy
  PROVE  PipelineInv'
  <1>1. /\ m_destroyed = TRUE \/ m_destroyed # FALSE
        /\ deleted = {} /\ \A t \in Threads : stack[t] = <<>>
        /\ deleting' = m_head
        /\ UNCHANGED <<m_next, m_prev, order, m_elg, deleted, m_destroyed, routing, replies, stack, stale>>
    <2>1. m_destroyed # FALSE
      BY Zenon DEF Destroy
    <2> QED BY <2>1 DEF Destroy, Idle
  <1>2. Types /\ OrderInv /\ LinkInv /\ ~Building
    BY <1>1 DEF PipelineInv, ShapeInv, QuietInv
  <1>3. UNCHANGED <<m_in_outbound, m_current_context, m_type_local, crashed>>
    BY <1>1 DEF routing, replies
  <1>4. Types'
    BY <1>1, <1>2, <1>3 DEF Types, Contexts
  <1>5. OrderInv' /\ LinkInv'
    BY <1>1, <1>2 DEF OrderInv, LinkInv, Spot, Building
  <1>6. EndInv'
    <2> DEFINE i == 0
    <2>1. Len(order) \in Nat /\ m_head = Spot(i) /\ m_next[m_tail] = NULL
          /\ \A k \in i .. Len(order) : m_next[Spot(k)] = Spot(k + 1)
      BY <1>1, <1>2, SpotFacts, RowFacts
    <2>2. i \in 0 .. Len(order) + 1 /\ {} = {Spot(k) : k \in 0 .. i - 1}
      BY <2>1
    <2> HIDE DEF i
    <2>3. \E x \in 0 .. Len(order) + 1 :
              /\ m_head = Spot(x) /\ {} = {Spot(k) : k \in 0 .. x - 1}
              /\ \A k \in x .. Len(order) : m_next[Spot(k)] = Spot(k + 1)
              /\ m_next[m_tail] = NULL
      BY <2>1, <2>2
    <2>4. m_head # NULL
      BY HandlersAssumption
    <2> QED BY <1>1, <2>3, <2>4 DEF EndInv, Spot, Spots
  <1>7. QuietInv'
    BY <1>1, <1>2 DEF QuietInv, Building
  <1>8. \A t \in Threads : ThreadInv(t)'
    BY <1>1, EndThreads
  <1> QED BY <1>4, <1>5, <1>6, <1>7, <1>8 DEF PipelineInv, ShapeInv

LEMMA DeleteContextKeeps ==
  ASSUME PipelineInv, DeleteContext
  PROVE  PipelineInv'
  <1> DEFINE n == Len(order)
  <1>1. /\ deleting # NULL /\ deleted' = deleted \cup {deleting} /\ deleting' = m_next[deleting]
        /\ UNCHANGED <<order, m_elg, m_destroyed, routing, replies, stack, stale>>
        /\ RemoveNext(deleting)
    BY DEF DeleteContext
  <1>2. Types /\ OrderInv /\ ~Building /\ \A t \in Threads : stack[t] = <<>>
    BY <1>1 DEF PipelineInv, ShapeInv, QuietInv
  <1>3. PICK i \in 0 .. n + 1 :
              /\ deleting = Spot(i) /\ deleted = {Spot(k) : k \in 0 .. i - 1}
              /\ \A k \in i .. n : m_next[Spot(k)] = Spot(k + 1)
              /\ m_next[m_tail] = NULL
    BY <1>1 DEF PipelineInv, ShapeInv, EndInv, Spots
  <1>4. /\ n \in Nat /\ Spot(0) = m_head /\ Spot(n + 1) = m_tail
        /\ \A k \in 1 .. n : Spot(k) = order[k]
        /\ \A k \in 0 .. n + 1 : Spot(k) \in Contexts /\ Spot(k) # NULL
        /\ \A j, k \in 0 .. n + 1 : Spot(j) = Spot(k) => j = k
    BY <1>2, SpotFacts DEF Spots
  <1>5. UNCHANGED <<m_in_outbound, m_current_context, m_type_local, crashed>>
    BY <1>1 DEF routing, replies
  <1>6. \A k : Spot(k)' = Spot(k)
    BY <1>1 DEF Spot
  <1>7. /\ m_next \in [Contexts -> Contexts \cup {NULL}]
        /\ m_prev \in [Contexts -> Contexts \cup {NULL}]
        /\ deleted \subseteq Contexts
    BY <1>2 DEF Types
  <1>8. \A h \in Handlers : \E k \in 1 .. n : order[k] = h
    BY <1>2 DEF OrderInv
  <1>9. Len(order') = n
    BY <1>1
  <1> HIDE DEF n
  <1>10. deleted' = {Spot(k) : k \in 0 .. i}
    <2>1. 0 .. i = 0 .. i - 1 \cup {i}
      BY <1>3
    <2> QED BY <1>1, <1>3, <2>1
  <1>11. deleted' \subseteq Contexts /\ deleted' # {}
    BY <1>1, <1>3, <1>4, <1>7
  <1>12. /\ m_next' \in [Contexts -> Contexts \cup {NULL}]
         /\ m_prev' \in [Contexts -> Contexts \cup {NULL}]
         /\ deleting' \in Contexts \cup {NULL}
         /\ EndInv'
    <2>1. CASE i = n + 1
      <3>1. m_next[deleting] = NULL /\ UNCHANGED <<m_next, m_prev>>
        BY <1>1, <1>3, <1>4, <2>1 DEF RemoveNext
      <3>2. deleted' = Contexts
        <4>1. \A k \in 1 .. n : k \in 0 .. i
          BY <1>4, <2>1
        <4>2. 0 \in 0 .. i /\ n + 1 \in 0 .. i
          BY <1>4, <2>1
        <4>3. Contexts \subseteq deleted'
          BY <1>4, <1>8, <1>10, <4>1, <4>2 DEF Contexts
        <4> QED BY <1>11, <4>3
      <3>3. deleting' = NULL /\ Contexts' = Contexts
        BY <1>1, <3>1 DEF Contexts
      <3> QED BY <1>7, <3>1, <3>2, <3>3 DEF EndInv
    <2>2. CASE i # n + 1
      <3>1. /\ i \in i .. n /\ i + 1 \in 0 .. n + 1 /\ i + 1 - 1 = i
            /\ \A k \in i + 1 .. n : k \in i .. n /\ k \in 0 .. n + 1 /\ k # i
            /\ n + 1 \in 0 .. n + 1 /\ i \in 0 .. n + 1
        BY <1>3, <1>4, <2>2
      <3>2. m_next[deleting] = Spot(i + 1) /\ Spot(i + 1) # NULL /\ Spot(i + 1) \in Contexts
        BY <1>3, <1>4, <3>1
      <3>3. /\ m_next' = [m_next EXCEPT ![Spot(i)] = m_next[Spot(i + 1)]]
            /\ m_prev' = IF m_next[Spot(i + 1)] = NULL THEN m_prev
                         ELSE [m_prev EXCEPT ![m_next[Spot(i + 1)]] = Spot(i)]
        BY <1>1, <1>3, <3>2 DEF RemoveNext
      <3>4. Spot(i) \in Contexts /\ m_next[Spot(i + 1)] \in Contexts \cup {NULL}
        BY <1>4, <1>7, <3>1, <3>2
      <3>5. /\ m_next' \in [Contexts -> Contexts \cup {NULL}]
            /\ m_prev' \in [Contexts -> Contexts \cup {NULL}]
            /\ \A c \in Contexts : c # Spot(i) => m_next'[c] = m_next[c]
        BY <1>7, <3>3, <3>4
      <3>6. \A k \in i + 1 .. n : m_next'[Spot(k)] = Spot(k + 1)
        <4> SUFFICES ASSUME NEW k \in i + 1 .. n PROVE m_next'[Spot(k)] = Spot(k + 1)
          OBVIOUS
        <4>1. Spot(k) # Spot(i) /\ Spot(k) \in Contexts /\ m_next[Spot(k)] = Spot(k + 1)
          BY <1>3, <1>4, <3>1
        <4> QED BY <3>5, <4>1
      <3>7. m_next'[m_tail] = NULL
        <4>1. m_tail # Spot(i) /\ m_tail \in Contexts
          BY <1>4, <2>2, <3>1
        <4> QED BY <1>3, <3>5, <4>1
      <3>8. /\ deleting' = Spot(i + 1) /\ deleting' # NULL
            /\ deleted' = {Spot(k) : k \in 0 .. i + 1 - 1}
        BY <1>1, <1>10, <3>1, <3>2
      <3> DEFINE x == i + 1
      <3>9. /\ x \in 0 .. n + 1 /\ deleting' = Spot(x)
            /\ deleted' = {Spot(k) : k \in 0 .. x - 1}
            /\ \A k \in x .. n : m_next'[Spot(k)] = Spot(k + 1)
        BY <3>1, <3>6, <3>8
      <3> HIDE DEF x
      <3>10. \E y \in 0 .. n + 1 :
                /\ deleting' = Spot(y) /\ deleted' = {Spot(k) : k \in 0 .. y - 1}
                /\ \A k \in y .. n : m_next'[Spot(k)] = Spot(k + 1)
                /\ m_next'[m_tail] = NULL
        BY <3>7, <3>9
      <3>11. EndInv'
        <4>1. order' = order
          BY <1>1
        <4>2. \E y \in 0 .. Len(order) + 1 :
                /\ deleting' = Spot(y) /\ deleted' = {Spot(k) : k \in 0 .. y - 1}
                /\ \A k \in y .. Len(order) : m_next'[Spot(k)] = Spot(k + 1)
                /\ m_next'[m_tail] = NULL
          BY ONLY <3>10 DEF n
        <4>3. PICK y \in 0 .. Len(order) + 1 :
                /\ deleting' = Spot(y) /\ deleted' = {Spot(k) : k \in 0 .. y - 1}
                /\ \A k \in y .. Len(order) : m_next'[Spot(k)] = Spot(k + 1)
                /\ m_next'[m_tail] = NULL
          BY <4>2
        <4>4. {Spot(k)' : k \in 0 .. y - 1} = {Spot(k) : k \in 0 .. y - 1}
          BY ONLY <1>6
        <4>5. /\ y \in 0 .. Len(order') + 1 /\ deleting' = Spot(y)'
              /\ deleted' = {Spot(k)' : k \in 0 .. y - 1}
              /\ \A k \in y .. Len(order') : m_next'[Spot(k)'] = Spot(k + 1)'
              /\ m_next'[m_tail] = NULL
          BY <1>6, <4>1, <4>3, <4>4
        <4> QED BY <3>8, <4>5 DEF EndInv, Spots
      <3> QED BY <3>2, <3>5, <3>8, <3>11
    <2> QED BY <2>1, <2>2
  <1>13. Types'
    BY <1>1, <1>2, <1>5, <1>11, <1>12 DEF Types
  <1>14. OrderInv' /\ LinkInv'
    BY <1>1, <1>2, <1>11 DEF OrderInv, LinkInv, Building
  <1>15. QuietInv'
    BY <1>1, <1>2 DEF QuietInv, Building
  <1>16. \A t \in Threads : ThreadInv(t)'
    BY <1>1, <1>2, <1>11, EndThreads
  <1> QED BY <1>12, <1>13, <1>14, <1>15, <1>16 DEF PipelineInv, ShapeInv

--------------------------------------------------------------------------------
\* The invariant, and what follows from it

LEMMA Starts == Init => PipelineInv
  <1> SUFFICES ASSUME Init PROVE PipelineInv
    OBVIOUS
  <1>1. /\ m_next = [c \in Contexts |-> IF c = m_head THEN m_tail ELSE NULL]
        /\ m_prev = [c \in Contexts |-> IF c = m_tail THEN m_head ELSE NULL]
        /\ order = <<>> /\ m_elg = {}
        /\ m_destroyed = FALSE /\ deleting = NULL /\ deleted = {}
        /\ m_in_outbound = [t \in Threads |-> FALSE]
        /\ m_current_context = [t \in Threads |-> NULL]
        /\ m_type_local = [h \in Transforming |-> [t \in Threads |-> NoList]]
        /\ crashed = FALSE
        /\ stack = [t \in Threads |-> <<>>]
        /\ stale = [t \in Threads |-> FALSE]
    BY DEF Init
  <1>2. m_head # m_tail /\ m_head \notin Handlers /\ m_tail \notin Handlers /\ NULL \notin Contexts
        /\ m_head \in Contexts /\ m_tail \in Contexts /\ NULL # m_head
    BY HandlersAssumption DEF Contexts
  <1>3. Len(order) = 0 /\ order \in Seq(Handlers) /\ \A S : <<>> \in Seq(S)
    BY <1>1, EmptySeq
  <1>4. Types
    BY <1>1, <1>2, <1>3 DEF Types
  <1>5. Building
    BY <1>1 DEF Building
  <1>6. OrderInv
    BY <1>3, <1>5 DEF OrderInv
  <1>7. Spot(0) = m_head /\ Spot(1) = m_tail
    BY <1>3 DEF Spot
  <1>8. LinkInv
    <2>1. m_next[m_head] = m_tail /\ m_prev[m_tail] = m_head
          /\ m_next[m_tail] = NULL /\ m_prev[m_head] = NULL
      BY <1>1, <1>2
    <2>2. \A k \in 0 .. Len(order) : k = 0 /\ k + 1 = 1
      BY <1>3
    <2>3. \A h \in Handlers : m_next[h] = NULL /\ m_prev[h] = NULL
      BY <1>1, <1>2 DEF Contexts
    <2> QED BY <1>7, <2>1, <2>2, <2>3 DEF LinkInv
  <1>9. EndInv /\ QuietInv
    BY <1>1, <1>3 DEF EndInv, QuietInv
  <1>10. ASSUME NEW t \in Threads PROVE ThreadInv(t)
    <2>1. stack[t] = <<>> /\ Len(stack[t]) = 0 /\ m_in_outbound[t] = FALSE
          /\ m_current_context[t] = NULL /\ m_prev[m_tail] # NULL
      BY <1>1, <1>2, EmptySeq
    <2>2. Nested(stack[t])
      BY <2>1 DEF Nested
    <2>3. RouteInv(t)
      BY <2>1 DEF RouteInv, TopInv
    <2> QED BY <2>1, <2>2, <2>3 DEF ThreadInv
  <1> QED BY <1>4, <1>6, <1>8, <1>9, <1>10 DEF PipelineInv, ShapeInv

LEMMA Stutters ==
  ASSUME PipelineInv, UNCHANGED vars
  PROVE  PipelineInv'
  <1>1. /\ UNCHANGED <<m_next, m_prev, order, m_elg, deleting, deleted, m_destroyed, stale, stack>>
        /\ UNCHANGED <<m_in_outbound, m_current_context, m_type_local, crashed, chain>>
    BY DEF vars, chain, routing, replies
  <1>2. ShapeInv'
    <2>1. Types'
      BY <1>1 DEF PipelineInv, ShapeInv, Types
    <2>2. OrderInv' /\ LinkInv' /\ EndInv' /\ QuietInv'
      BY <1>1 DEF PipelineInv, ShapeInv, OrderInv, LinkInv, EndInv, QuietInv, Spot, Spots, Building
    <2> QED BY <2>1, <2>2 DEF ShapeInv
  <1>3. ASSUME NEW t \in Threads PROVE ThreadInv(t)'
    <2>1. ThreadInv(t)
      BY DEF PipelineInv
    <2>2. Lists(t)' = Lists(t)
      BY <1>1, ListsKept
    <2> QED BY <1>1, <2>1, <2>2, OtherThread
  <1> QED BY <1>2, <1>3 DEF PipelineInv

LEMMA Inductive == PipelineInv /\ MarkInv /\ [Next]_vars => PipelineInv'
  <1> SUFFICES ASSUME PipelineInv, MarkInv, [Next]_vars PROVE PipelineInv'
    OBVIOUS
  <1>1. CASE UNCHANGED vars
    BY <1>1, Stutters
  <1>2. CASE Next
    <2>1. crashed = FALSE
      <3>1. crashed \in BOOLEAN
        BY DEF PipelineInv, ShapeInv, Types
      <3> QED BY <1>2, <3>1, Zenon DEF Next
    <2>2. ASSUME NEW h \in Handlers, AddFirst(h) PROVE PipelineInv'
      BY <2>2, AddFirstKeeps
    <2>3. ASSUME NEW h \in Handlers, AddLast(h) PROVE PipelineInv'
      BY <2>3, AddLastKeeps
    <2>4. CASE FireEventLoopGroup
      BY <2>4, FireEventLoopGroupKeeps
    <2>5. ASSUME NEW t \in Threads, FireChannelRead(t) \/ FireEvent(t) PROVE PipelineInv'
      BY <2>1, <2>5, FiresKeep
    <2>7. ASSUME NEW t \in Threads, FireDestroyed(t) PROVE PipelineInv'
      BY <2>1, <2>7, FireDestroyedKeeps
    <2>8. ASSUME NEW t \in Threads, CallHandler(t) PROVE PipelineInv'
      BY <2>1, <2>8, CallHandlerKeeps
    <2>9. ASSUME NEW t \in Threads, PassHandler(t) PROVE PipelineInv'
      BY <2>1, <2>9, PassHandlerKeeps
    <2>10. ASSUME NEW t \in Threads, HandlerReturns(t) PROVE PipelineInv'
      BY <2>1, <2>10, HandlerReturnsKeeps
    <2>11. ASSUME NEW t \in Threads, Reply(t) PROVE PipelineInv'
      BY <2>1, <2>11, ReplyKeeps
    <2>12. ASSUME NEW t \in Threads, TailRead(t) PROVE PipelineInv'
      BY <2>1, <2>12, TailReadKeeps
    <2>13. ASSUME NEW t \in Threads, TailEvent(t) PROVE PipelineInv'
      BY <2>1, <2>13, TailEventKeeps
    <2>14. ASSUME NEW t \in Threads, Write(t) PROVE PipelineInv'
      BY <2>1, <2>14, WriteKeeps
    <2>15. ASSUME NEW t \in Threads, TailWrite(t) PROVE PipelineInv'
      BY <2>1, <2>15, TailWriteKeeps
    <2>16. ASSUME NEW t \in Threads, SkipWriter(t) PROVE PipelineInv'
      BY <2>1, <2>16, SkipWriterKeeps
    <2>17. ASSUME NEW t \in Threads, HandlerWrite(t) PROVE PipelineInv'
      BY <2>1, <2>17, HandlerWriteKeeps
    <2>18. ASSUME NEW t \in Threads, TransformWrite(t) PROVE PipelineInv'
      BY <2>1, <2>18, TransformWriteKeeps
    <2>19. ASSUME NEW t \in Threads, HeadWrite(t) PROVE PipelineInv'
      BY <2>1, <2>19, HeadWriteKeeps
    <2>20. ASSUME NEW t \in Threads, Throw(t) PROVE PipelineInv'
      BY <2>1, <2>20, ThrowKeeps
    <2>21. CASE Destroy
      BY <2>21, DestroyKeeps
    <2>22. CASE DeleteContext
      BY <2>22, DeleteContextKeeps
    <2> QED BY <1>2, <2>2, <2>3, <2>4, <2>5, <2>7, <2>8, <2>9, <2>10, <2>11, <2>12, <2>13,
               <2>14, <2>15, <2>16, <2>17, <2>18, <2>19, <2>20, <2>21, <2>22 DEF Next
  <1> QED BY <1>1, <1>2

--------------------------------------------------------------------------------
\* Where a write begins: at its writer, or at the tail once the writer's walk is rerouted.

LEMMA MarksTyped ==
  ASSUME MarkInv, [Next]_vars
  PROVE  MarkInv'
  <1>1. \/ UNCHANGED rerouted
        \/ \E t \in Threads : \E b \in BOOLEAN : rerouted' = [rerouted EXCEPT ![t] = b]
    <2>1. CASE UNCHANGED vars
      BY <2>1 DEF vars
    <2>2. CASE Next
      <3>1. ASSUME NEW t \in Threads, TailRead(t) \/ Write(t) \/ Throw(t)
            PROVE  rerouted' = [rerouted EXCEPT ![t] = FALSE]
        BY <3>1 DEF TailRead, Write, Throw
      <3>2. ASSUME NEW t \in Threads, HeadWrite(t)
            PROVE  \E b \in BOOLEAN : rerouted' = [rerouted EXCEPT ![t] = b]
        <4> DEFINE more == Len(stack[t]) > 1
        <4>1. \/ rerouted' = [rerouted EXCEPT ![t] = more]
              \/ rerouted' = [rerouted EXCEPT ![t] = FALSE]
          BY <3>2 DEF HeadWrite, EndWrite
        <4>2. more \in BOOLEAN
          OBVIOUS
        <4> HIDE DEF more
        <4> QED BY <4>1, <4>2
      <3>3. ASSUME NEW t \in Threads,
                   \/ FireChannelRead(t) \/ FireEvent(t) \/ FireDestroyed(t)
                   \/ CallHandler(t) \/ PassHandler(t) \/ HandlerReturns(t)
                   \/ Reply(t) \/ TailEvent(t) \/ TailWrite(t) \/ SkipWriter(t)
                   \/ HandlerWrite(t) \/ TransformWrite(t)
            PROVE  UNCHANGED rerouted
        BY <3>3 DEF FireChannelRead, FireEvent, FireDestroyed, CallHandler, PassHandler,
                    HandlerReturns, Reply, TailEvent, TailWrite, SkipWriter, HandlerWrite,
                    TransformWrite
      <3>4. ASSUME NEW h \in Handlers, AddFirst(h) \/ AddLast(h) PROVE UNCHANGED rerouted
        BY <3>4 DEF AddFirst, AddLast
      <3>5. FireEventLoopGroup \/ Destroy \/ DeleteContext => UNCHANGED rerouted
        BY DEF FireEventLoopGroup, Destroy, DeleteContext
      <3> QED BY <2>2, <3>1, <3>2, <3>3, <3>4, <3>5, Zenon DEF Next
    <2> QED BY <2>1, <2>2
  <1> QED BY <1>1 DEF MarkInv

\* A step of thread t keeps the invariant if it does for t.
LEMMA WayOfOne ==
  ASSUME \A u \in Threads : WayInv(u), NEW t \in Threads,
         \A u \in Threads \ {t} :
            /\ stack'[u] = stack[u] /\ m_current_context'[u] = m_current_context[u]
            /\ m_in_outbound'[u] = m_in_outbound[u] /\ rerouted'[u] = rerouted[u],
         WayInv(t)'
  PROVE  \A u \in Threads : WayInv(u)'
  <1>1. ASSUME NEW u \in Threads, u # t PROVE WayInv(u)'
    <2>1. /\ stack'[u] = stack[u] /\ m_current_context'[u] = m_current_context[u]
          /\ m_in_outbound'[u] = m_in_outbound[u] /\ rerouted'[u] = rerouted[u]
      BY <1>1
    <2> QED BY <2>1 DEF WayInv, BeginInv, TurnInv, Top
  <1> QED BY <1>1

\* A step that replaces the innermost walk of a thread by w2.
LEMMA WayTop ==
  ASSUME PipelineInv, MarkInv, \A u \in Threads : WayInv(u), NEW t \in Threads, NEW w2 \in Walks,
         NEW current2, NEW outbound2, NEW rerouted2,
         stack[t] # <<>>, SetTop(t, w2), SetRouting(t, outbound2, current2),
         rerouted' = [rerouted EXCEPT ![t] = rerouted2],
         w2.call = "write" /\ w2.stale = FALSE => w2.from = Begin(w2),
         w2.call = "write" => Turned(w2, current2, outbound2, rerouted2)
  PROVE  \A u \in Threads : WayInv(u)'
  <1> DEFINE s == stack[t]
             s2 == Append(Front(s), w2)
             n == Len(s)
  <1>1. s \in Seq(Walks) /\ n \in Nat \ {0} /\ Types /\ WayInv(t)
    BY Walking
  <1>2. /\ s2 \in Seq(Walks) /\ Len(s2) = n /\ s2 # <<>>
        /\ \A i \in 1 .. n - 1 : s2[i] = s[i]
        /\ s2[n] = w2
    BY <1>1, TopProps
  <1>3. Last(s2) = w2
    BY <1>2, FrontProps
  <1>4. /\ stack' = [stack EXCEPT ![t] = s2]
        /\ m_in_outbound' = [m_in_outbound EXCEPT ![t] = outbound2]
        /\ m_current_context' = [m_current_context EXCEPT ![t] = current2]
    BY DEF SetTop, SetRouting
  <1>5. /\ DOMAIN stack = Threads /\ DOMAIN m_in_outbound = Threads
        /\ DOMAIN m_current_context = Threads /\ DOMAIN rerouted = Threads
    BY <1>1 DEF Types, MarkInv
  <1>6. BeginInv(t)
    BY <1>1 DEF WayInv
  <1> HIDE DEF s2, n
  <1>7. /\ stack'[t] = s2 /\ m_in_outbound'[t] = outbound2
        /\ m_current_context'[t] = current2 /\ rerouted'[t] = rerouted2
        /\ \A u \in Threads \ {t} :
              /\ stack'[u] = stack[u] /\ m_current_context'[u] = m_current_context[u]
              /\ m_in_outbound'[u] = m_in_outbound[u] /\ rerouted'[u] = rerouted[u]
    BY <1>4, <1>5
  <1>8. BeginInv(t)'
    <2>1. \A i \in 1 .. n : i \in 1 .. n - 1 \/ i = n
      BY <1>1
    <2>2. \A i \in 1 .. n : s2[i].call = "write" /\ s2[i].stale = FALSE => s2[i].from = Begin(s2[i])
      BY <1>2, <1>6, <2>1 DEF BeginInv, n
    <2> QED BY <1>2, <1>7, <2>2 DEF BeginInv, Begin
  <1>9. TurnInv(t)'
    BY <1>3, <1>7 DEF TurnInv, Top, Turned
  <1> QED BY <1>7, <1>8, <1>9, WayOfOne DEF WayInv

\* A step that begins the walk w2.
LEMMA WayPush ==
  ASSUME PipelineInv, MarkInv, \A u \in Threads : WayInv(u), NEW t \in Threads, NEW w2 \in Walks,
         NEW rerouted2, Push(t, w2), UNCHANGED routing,
         rerouted' = [rerouted EXCEPT ![t] = rerouted2],
         w2.call = "write" /\ w2.stale = FALSE => w2.from = Begin(w2),
         w2.call = "write" => Turned(w2, m_current_context[t], m_in_outbound[t], rerouted2)
  PROVE  \A u \in Threads : WayInv(u)'
  <1> DEFINE s == stack[t]
             s2 == Append(s, w2)
             n == Len(s)
  <1>1. s \in Seq(Walks) /\ Types /\ BeginInv(t)
    BY DEF PipelineInv, ShapeInv, Types, WayInv
  <1>2. /\ s2 \in Seq(Walks) /\ Len(s2) = n + 1 /\ n \in Nat /\ s2 # <<>>
        /\ \A i \in 1 .. n : s2[i] = s[i]
        /\ s2[n + 1] = w2
    BY <1>1, AppendProps
  <1>3. Last(s2) = w2
    BY <1>2, FrontProps
  <1>4. /\ stack' = [stack EXCEPT ![t] = s2]
        /\ UNCHANGED <<m_in_outbound, m_current_context>>
    BY DEF Push, routing
  <1>5. DOMAIN stack = Threads /\ DOMAIN rerouted = Threads
    BY <1>1 DEF Types, MarkInv
  <1> HIDE DEF s2, n
  <1>6. /\ stack'[t] = s2 /\ rerouted'[t] = rerouted2
        /\ \A u \in Threads \ {t} :
              /\ stack'[u] = stack[u] /\ m_current_context'[u] = m_current_context[u]
              /\ m_in_outbound'[u] = m_in_outbound[u] /\ rerouted'[u] = rerouted[u]
    BY <1>4, <1>5
  <1>7. BeginInv(t)'
    <2>1. \A i \in 1 .. n + 1 : i \in 1 .. n \/ i = n + 1
      BY <1>2
    <2>2. \A i \in 1 .. n + 1 :
              s2[i].call = "write" /\ s2[i].stale = FALSE => s2[i].from = Begin(s2[i])
      BY <1>1, <1>2, <2>1 DEF BeginInv, n
    <2> QED BY <1>2, <1>6, <2>2 DEF BeginInv, Begin
  <1>8. TurnInv(t)'
    BY <1>3, <1>4, <1>6 DEF TurnInv, Top, Turned
  <1> QED BY <1>6, <1>7, <1>8, WayOfOne DEF WayInv

\* A step that ends a thread's walks.
LEMMA WayEmpty ==
  ASSUME PipelineInv, \A u \in Threads : WayInv(u), NEW t \in Threads,
         stack'[t] = <<>>,
         \A u \in Threads \ {t} :
            /\ stack'[u] = stack[u] /\ m_current_context'[u] = m_current_context[u]
            /\ m_in_outbound'[u] = m_in_outbound[u] /\ rerouted'[u] = rerouted[u]
  PROVE  \A u \in Threads : WayInv(u)'
  <1>1. Len(stack'[t]) = 0 /\ 1 .. 0 = {}
    BY EmptySeq
  <1>2. WayInv(t)'
    BY <1>1 DEF WayInv, BeginInv, TurnInv
  <1> QED BY <1>2, WayOfOne

\* The element that is appended to make a sequence of the set is in the set.
LEMMA AppendedIn ==
  ASSUME NEW S, NEW s \in Seq(S), NEW e, Append(s, e) \in Seq(S)
  PROVE  e \in S
  <1> DEFINE n == Len(s)
             S2 == S \cup {e}
  <1>1. s \in Seq(S2) /\ e \in S2
    BY SeqMonotonic
  <1>2. Len(Append(s, e)) = n + 1 /\ n \in Nat /\ Append(s, e)[n + 1] = e
    BY <1>1, AppendProps
  <1>3. n + 1 \in 1 .. n + 1
    BY <1>2
  <1> QED BY <1>2, <1>3, ElementOfSeq

\* What the routing of the thread says of its write.
LEMMA WayOfTop ==
  ASSUME PipelineInv, MarkInv, \A u \in Threads : WayInv(u), NEW t \in Threads, stack[t] # <<>>,
         Top(t).call = "write"
  PROVE  /\ Turned(Top(t), m_current_context[t], m_in_outbound[t], rerouted[t])
         /\ Top(t).stale = FALSE => Top(t).from = Begin(Top(t))
         /\ Top(t) \in Walks /\ rerouted[t] \in {TRUE, FALSE}
         /\ rerouted = [rerouted EXCEPT ![t] = rerouted[t]]
  <1> DEFINE s == stack[t]
             n == Len(s)
  <1>1. /\ s \in Seq(Walks) /\ Top(t) = s[n] /\ Top(t) \in Walks /\ n \in 1 .. n
    BY Walking
  <1>2. BeginInv(t) /\ TurnInv(t)
    BY DEF WayInv
  <1>3. Turned(Top(t), m_current_context[t], m_in_outbound[t], rerouted[t])
    BY <1>2 DEF TurnInv
  <1> HIDE DEF n
  <1>4. Top(t).stale = FALSE => Top(t).from = Begin(Top(t))
    BY <1>1, <1>2 DEF BeginInv, n
  <1>5. rerouted[t] \in BOOLEAN /\ rerouted = [rerouted EXCEPT ![t] = rerouted[t]]
    BY DEF MarkInv
  <1>6. rerouted[t] \in {TRUE, FALSE}
    BY <1>5, Zenon
  <1> QED BY <1>1, <1>3, <1>4, <1>5, <1>6

\* A write goes on, and is the same write.
LEMMA WayOn ==
  ASSUME PipelineInv, MarkInv, \A u \in Threads : WayInv(u), NEW t \in Threads, NEW w2 \in Walks,
         NEW current2, NEW outbound2, stack[t] # <<>>, Top(t).call = "write",
         SetTop(t, w2), SetRouting(t, outbound2, current2), UNCHANGED rerouted,
         w2.call = Top(t).call, w2.from = Top(t).from, w2.stale = Top(t).stale,
         w2.writer = Top(t).writer, w2.again = Top(t).again,
         Turned(w2, current2, outbound2, rerouted[t])
  PROVE  \A u \in Threads : WayInv(u)'
  <1> DEFINE rerouted2 == rerouted[t]
  <1>1. /\ Top(t).stale = FALSE => Top(t).from = Begin(Top(t))
        /\ rerouted' = [rerouted EXCEPT ![t] = rerouted2]
        /\ Turned(w2, current2, outbound2, rerouted2)
    BY WayOfTop
  <1>2. w2.stale = FALSE => w2.from = Begin(w2)
    BY <1>1 DEF Begin
  <1> HIDE DEF rerouted2
  <1> QED BY <1>1, <1>2, WayTop

\* A read or an event goes on, and is still one.
LEMMA WayDown ==
  ASSUME PipelineInv, MarkInv, \A u \in Threads : WayInv(u), NEW t \in Threads, NEW w2 \in Walks,
         stack[t] # <<>>, SetTop(t, w2), UNCHANGED <<m_in_outbound, m_current_context, rerouted>>,
         w2.call # "write"
  PROVE  \A u \in Threads : WayInv(u)'
  <1> DEFINE current2 == m_current_context[t]
             outbound2 == m_in_outbound[t]
             rerouted2 == rerouted[t]
  <1>1. SetRouting(t, outbound2, current2) /\ rerouted' = [rerouted EXCEPT ![t] = rerouted2]
    BY DEF SetRouting, PipelineInv, ShapeInv, Types, MarkInv
  <1> HIDE DEF current2, outbound2, rerouted2
  <1> QED BY <1>1, WayTop

LEMMA StepFields ==
  ASSUME NEW w \in Walks, NEW c \in Contexts, NEW w2, w2 = [w EXCEPT !.at = c, !.running = FALSE]
  PROVE  /\ w2 \in Walks /\ w2.at = c /\ w2.running = FALSE /\ w2.call = w.call
         /\ w2.from = w.from /\ w2.stale = w.stale /\ w2.writer = w.writer /\ w2.again = w.again
  BY Zenon DEF Walks

\* A write goes on to the previous context.
LEMMA WayUp ==
  ASSUME PipelineInv, MarkInv, \A u \in Threads : WayInv(u), crashed = FALSE, NEW t \in Threads,
         stack[t] # <<>>, Top(t).call = "write", Top(t).at # m_head,
         StepTo(t, m_prev[Top(t).at]), UNCHANGED rerouted,
         \E current2, outbound2 :
            /\ SetRouting(t, outbound2, current2)
            /\ \/ outbound2 = m_in_outbound[t] /\ Top(t).at # m_tail
               \/ outbound2 = TRUE /\ Top(t).at = m_tail
  PROVE  \A u \in Threads : WayInv(u)'
  <1>0. PICK current2, outbound2 :
            /\ SetRouting(t, outbound2, current2)
            /\ \/ outbound2 = m_in_outbound[t] /\ Top(t).at # m_tail
               \/ outbound2 = TRUE /\ Top(t).at = m_tail
    OBVIOUS
  <1> DEFINE w == Top(t)
             c == m_prev[w.at]
             w2 == [w EXCEPT !.at = c, !.running = FALSE]
  <1>1. /\ OrderInv /\ LinkInv /\ deleted = {} /\ UpInv(Lists(t), w)
    BY Walking, Writing
  <1>2. /\ Turned(w, m_current_context[t], m_in_outbound[t], rerouted[t])
        /\ w \in Walks /\ rerouted[t] \in {TRUE, FALSE}
    BY WayOfTop
  <1>3. SetTop(t, w2)
    BY DEF StepTo
  <1>4. c \in Contexts /\ c # m_tail
    <2>1. w.at # m_head
      OBVIOUS
    <2> HIDE DEF w
    <2> QED BY <1>1, <2>1, UpPlaces DEF c
  <1> HIDE DEF c, w
  <1>5. /\ w2 \in Walks /\ w2.at = c /\ w2.running = FALSE /\ w2.call = w.call
        /\ w2.from = w.from /\ w2.stale = w.stale /\ w2.writer = w.writer /\ w2.again = w.again
    <2>1. w2 = [w EXCEPT !.at = c, !.running = FALSE] /\ w \in Walks /\ c \in Contexts
      BY <1>2, <1>4
    <2> HIDE DEF w2
    <2> QED BY <2>1, Zenon DEF Walks
  <1> HIDE DEF w2
  <1>6. /\ \/ outbound2 = m_in_outbound[t] /\ w.at # m_tail
           \/ outbound2 = TRUE /\ w.at = m_tail
        /\ w.call = "write"
    BY <1>0, Zenon DEF w
  <1>7. Turned(w2, current2, outbound2, rerouted[t])
    BY <1>2, <1>4, <1>5, <1>6 DEF Turned
  <1> QED BY <1>0, <1>3, <1>5, <1>6, <1>7, WayOn DEF w

LEMMA DownSteps ==
  ASSUME PipelineInv, MarkInv, \A u \in Threads : WayInv(u), crashed = FALSE, NEW t \in Threads,
         CallHandler(t) \/ PassHandler(t) \/ Reply(t)
         \/ (HandlerReturns(t) /\ Top(t).call # "write")
  PROVE  \A u \in Threads : WayInv(u)'
  <1> DEFINE w == Top(t)
  <1>1. /\ stack[t] # <<>> /\ w.call # "write"
        /\ UNCHANGED <<m_in_outbound, m_current_context, rerouted>>
    BY DEF CallHandler, PassHandler, Reply, HandlerReturns, At, routing
  <1>2. PICK w2 : SetTop(t, w2) /\ w2.call = w.call
    <2>1. w \in Walks
      BY <1>1, Walking
    <2> DEFINE v == [w EXCEPT !.running = TRUE, !.called = Append(@, w.at)]
               x == [w EXCEPT !.made[w.at] = @ + 1]
               y == [w EXCEPT !.at = m_next[w.at], !.running = FALSE]
               z == [w EXCEPT !.at = m_prev[w.at], !.running = FALSE]
    <2>2. SetTop(t, v) \/ SetTop(t, x) \/ SetTop(t, y) \/ SetTop(t, z)
      BY DEF CallHandler, PassHandler, Reply, HandlerReturns, RunHandler, StepTo
    <2> HIDE DEF w
    <2>3. v.call = w.call /\ x.call = w.call /\ y.call = w.call /\ z.call = w.call
      BY <2>1, Zenon DEF Walks
    <2> QED BY <2>2, <2>3
  <1>3. w2 \in Walks
    <2>1. PipelineInv'
      BY CallHandlerKeeps, PassHandlerKeeps, ReplyKeeps, HandlerReturnsKeeps
    <2>2. stack'[t] \in Seq(Walks)
      BY <2>1 DEF PipelineInv, ShapeInv, Types
    <2>3. stack[t] \in Seq(Walks) /\ DOMAIN stack = Threads
      BY DEF PipelineInv, ShapeInv, Types
    <2>4. stack'[t] = Append(Front(stack[t]), w2)
      BY <1>2, <2>3 DEF SetTop
    <2>5. Front(stack[t]) \in Seq(Walks)
      BY <1>1, <2>3, FrontProps
    <2> QED BY <2>2, <2>4, <2>5, AppendedIn
  <1> QED BY <1>1, <1>2, <1>3, WayDown

LEMMA UpSteps ==
  ASSUME PipelineInv, MarkInv, \A u \in Threads : WayInv(u), crashed = FALSE, NEW t \in Threads,
         TailWrite(t) \/ SkipWriter(t) \/ (HandlerReturns(t) /\ Top(t).call = "write")
         \/ (HandlerWrite(t) /\ Top(t).at \notin Outbound)
  PROVE  \A u \in Threads : WayInv(u)'
  <1>1. /\ stack[t] # <<>> /\ Top(t).call = "write" /\ StepTo(t, m_prev[Top(t).at])
        /\ UNCHANGED rerouted
    BY DEF TailWrite, SkipWriter, HandlerReturns, HandlerWrite, At
  <1>2. Types /\ OrderInv /\ UpInv(Lists(t), Top(t))
    BY <1>1, Walking, Writing
  <1>3. Top(t).at = m_tail \/ Top(t).at \in Handlers
    <2>1. HandlerReturns(t) => \E k \in 1 .. Len(order) : Top(t).at = Spot(k)
      <3>1. HandlerReturns(t) => Top(t).running = TRUE
        BY DEF HandlerReturns, At
      <3> QED BY <1>2, <3>1 DEF UpInv
    <2>2. HandlerReturns(t) => Top(t).at \in Handlers
      BY <1>2, <2>1, SpotFacts
    <2> QED BY <2>2 DEF TailWrite, SkipWriter, HandlerWrite, At
  <1>4. m_tail \notin Handlers /\ m_head \notin Handlers /\ m_head # m_tail
    BY HandlersAssumption
  <1>5. \E current2, outbound2 :
            /\ SetRouting(t, outbound2, current2)
            /\ \/ outbound2 = m_in_outbound[t] /\ Top(t).at # m_tail
               \/ outbound2 = TRUE /\ Top(t).at = m_tail
    <2>1. CASE TailWrite(t)
      BY <2>1 DEF TailWrite, At
    <2>2. CASE HandlerWrite(t)
      BY <1>4, <2>2 DEF HandlerWrite, At
    <2>3. CASE SkipWriter(t) \/ HandlerReturns(t)
      <3>1. SetRouting(t, m_in_outbound[t], m_current_context[t])
        BY <1>2, <2>3 DEF SkipWriter, HandlerReturns, SetRouting, routing, Types
      <3>2. Top(t).at # m_tail
        <4>1. HandlerReturns(t) => Top(t).at \in Handlers
          <5>1. HandlerReturns(t) => \E k \in 1 .. Len(order) : Top(t).at = Spot(k)
            <6>1. HandlerReturns(t) => Top(t).running = TRUE
              BY DEF HandlerReturns, At
            <6> QED BY <1>2, <6>1 DEF UpInv
          <5> QED BY <1>2, <5>1, SpotFacts
        <4> QED BY <1>4, <2>3, <4>1 DEF SkipWriter, At
      <3> QED BY <3>1, <3>2
    <2> QED BY <2>1, <2>2, <2>3
  <1>6. Top(t).at # m_head
    BY <1>3, <1>4
  <1> QED BY <1>1, <1>5, <1>6, WayUp

\* A handler is called by a write that comes to it.
LEMMA CallSteps ==
  ASSUME PipelineInv, MarkInv, \A u \in Threads : WayInv(u), crashed = FALSE, NEW t \in Threads,
         TransformWrite(t) \/ (HandlerWrite(t) /\ Top(t).at \in Outbound)
  PROVE  \A u \in Threads : WayInv(u)'
  <1> DEFINE w == Top(t)
             n == Local(w.at, t)
             current2 == w.at
             outbound2 == m_in_outbound[t]
  <1>1. /\ stack[t] # <<>> /\ w.call = "write" /\ w.at \in Handlers
        /\ SetRouting(t, outbound2, current2) /\ UNCHANGED rerouted
    BY TransformingAssumption, HandlersAssumption DEF TransformWrite, HandlerWrite, At
  <1>2. Types /\ w \in Walks /\ w.at # m_tail
    BY <1>1, Walking, HandlersAssumption
  <1>3. Turned(w, m_current_context[t], m_in_outbound[t], rerouted[t])
    BY <1>1, WayOfTop
  <1>4. \/ \E w2 \in Walks :
              /\ SetTop(t, w2) /\ w2.at = w.at /\ w2.running = TRUE /\ w2.call = w.call
              /\ w2.from = w.from /\ w2.stale = w.stale /\ w2.writer = w.writer
              /\ w2.again = w.again
        \/ UNCHANGED stack /\ w.running = FALSE
    <2>1. CASE HandlerWrite(t) /\ w.at \in Outbound
      <3> DEFINE w2 == [w EXCEPT !.running = TRUE, !.called = Append(@, w.at)]
      <3>1. SetTop(t, w2)
        BY <2>1 DEF HandlerWrite, RunHandler
      <3> HIDE DEF w
      <3>2. /\ w2 \in Walks /\ w2.at = w.at /\ w2.running = TRUE /\ w2.call = w.call
            /\ w2.from = w.from /\ w2.stale = w.stale /\ w2.writer = w.writer /\ w2.again = w.again
        BY <1>1, <1>2, RunFields
      <3> QED BY <3>1, <3>2
    <2>2. CASE TransformWrite(t) /\ n # NoList
      <3> DEFINE w2 == Encoding(w, n)
      <3>1. SetTop(t, w2) /\ w.at \in Transforming
        BY <2>2 DEF TransformWrite, Encoding
      <3>2. n \in Nat
        BY <1>2, <2>2, <3>1 DEF Types, Local
      <3> HIDE DEF w, n
      <3>3. /\ w2 \in Walks /\ w2.at = w.at /\ w2.running = TRUE /\ w2.call = w.call
            /\ w2.from = w.from /\ w2.stale = w.stale /\ w2.writer = w.writer /\ w2.again = w.again
        BY <1>2, <3>1, <3>2, EncodeFields
      <3> QED BY <3>1, <3>3
    <2>3. CASE TransformWrite(t) /\ n = NoList
      BY <2>3 DEF TransformWrite, At
    <2> QED BY <2>1, <2>2, <2>3
  <1> HIDE DEF w, current2, outbound2, n
  <1>5. ASSUME NEW w2 \in Walks,
               /\ SetTop(t, w2) /\ w2.at = w.at /\ w2.running = TRUE /\ w2.call = w.call
               /\ w2.from = w.from /\ w2.stale = w.stale /\ w2.writer = w.writer
               /\ w2.again = w.again
        PROVE  \A u \in Threads : WayInv(u)'
    <2>1. Turned(w2, current2, outbound2, rerouted[t])
      BY <1>2, <1>3, <1>5 DEF Turned, current2, outbound2
    <2> QED BY <1>1, <1>5, <2>1, WayOn DEF w
  <1>6. CASE UNCHANGED stack /\ w.running = FALSE
    <2>1. /\ m_in_outbound' = m_in_outbound
          /\ \A u \in Threads \ {t} : m_current_context'[u] = m_current_context[u]
          /\ m_current_context'[t] = current2
      BY <1>1, <1>2 DEF SetRouting, Types, outbound2
    <2>2. Turned(w, current2, m_in_outbound[t], rerouted[t])
      BY <1>2, <1>3, <1>6 DEF Turned
    <2>3. TurnInv(t)' /\ BeginInv(t)'
      <3>1. BeginInv(t)
        BY DEF WayInv
      <3> QED BY <1>1, <1>6, <2>1, <2>2, <3>1 DEF TurnInv, BeginInv, Turned, Top, w
    <2> QED BY <1>1, <1>6, <2>1, <2>3, WayOfOne DEF WayInv
  <1> QED BY <1>4, <1>5, <1>6

\* A write begins.
LEMMA WriteWay ==
  ASSUME PipelineInv, MarkInv, \A u \in Threads : WayInv(u), crashed = FALSE, NEW t \in Threads,
         Write(t)
  PROVE  \A u \in Threads : WayInv(u)'
  <1> DEFINE w == Top(t)
             w2 == Written(t)
             plain == Walk("write", Start(t), FALSE, NoReplies, stale[t])
  <1>1. /\ Push(t, w2) /\ UNCHANGED routing /\ rerouted' = [rerouted EXCEPT ![t] = FALSE]
    BY DEF Write
  <1>2. Types /\ ThreadInv(t)
    BY DEF PipelineInv, ShapeInv
  <1>3. w2 \in Walks
    <2>1. PipelineInv'
      BY WriteKeeps
    <2>2. stack'[t] \in Seq(Walks)
      BY <2>1 DEF PipelineInv, ShapeInv, Types
    <2>3. stack'[t] = Append(stack[t], w2) /\ stack[t] \in Seq(Walks)
      BY <1>1, <1>2 DEF Push, Types
    <2> HIDE DEF w2
    <2> QED BY <2>2, <2>3, AppendedIn
  <1>4. /\ plain.call = "write" /\ plain.at = Start(t) /\ plain.from = Start(t)
        /\ plain.running = FALSE /\ plain.again = FALSE /\ plain.writer = m_tail
        /\ plain.stale = stale[t]
    BY Zenon DEF Walk
  <1>5. /\ w2.call = "write" /\ w2.at = Start(t) /\ w2.from = Start(t) /\ w2.running = FALSE
        /\ w2.stale = stale[t]
        /\ IF At(t, "write", TRUE) THEN w2.writer = w.at /\ w2.again = rerouted[t]
                                   ELSE w2.writer = m_tail /\ w2.again = FALSE
    <2>1. CASE At(t, "write", TRUE)
      <3> DEFINE writer == w.at
                 again == rerouted[t]
      <3>1. w2 = [plain EXCEPT !.writer = writer, !.again = again]
        BY <2>1 DEF Written
      <3>2. DOMAIN plain = {"call", "at", "running", "from", "called", "ofRead", "made", "encoded",
                            "stale", "writer", "again"}
        BY DEF Walk
      <3> HIDE DEF plain, w2, writer, again
      <3>3. /\ w2.call = plain.call /\ w2.at = plain.at /\ w2.from = plain.from
            /\ w2.running = plain.running /\ w2.stale = plain.stale
            /\ w2.writer = writer /\ w2.again = again
        BY <3>1, <3>2
      <3> QED BY <1>4, <2>1, <3>3 DEF writer, again
    <2>2. CASE ~At(t, "write", TRUE)
      <3>1. w2 = plain
        BY <2>2 DEF Written
      <3> HIDE DEF plain, w2
      <3> QED BY <1>4, <2>2, <3>1
    <2> QED BY <2>1, <2>2
  <1> HIDE DEF w2, plain
  <1>6. m_in_outbound[t] \in {TRUE, FALSE} /\ m_tail \notin Handlers /\ NULL \notin Contexts
    <2>1. m_in_outbound[t] \in BOOLEAN
      BY <1>2 DEF Types
    <2> QED BY <2>1, HandlersAssumption, Zenon DEF Contexts
  <1>7. /\ m_in_outbound[t] = FALSE \/ m_current_context[t] = NULL => Start(t) = m_tail
        /\ m_in_outbound[t] = TRUE /\ m_current_context[t] # NULL => Start(t) = m_current_context[t]
    BY Zenon DEF Start
  <1>8. w2.stale = FALSE => w2.from = Begin(w2)
    <2>1. CASE At(t, "write", TRUE)
      <3>1. /\ stack[t] # <<>> /\ w.call = "write" /\ w.running = TRUE
        BY <2>1 DEF At
      <3>2. /\ Turned(w, m_current_context[t], m_in_outbound[t], rerouted[t]) /\ w \in Walks
            /\ rerouted[t] \in {TRUE, FALSE}
        BY <3>1, WayOfTop
      <3>3. m_current_context[t] \in Handlers \cup {NULL} /\ w.at \in Contexts
        <4> HIDE DEF w
        <4> QED BY <1>2, <3>2, Zenon DEF Types, Walks
      <3> HIDE DEF w
      <3>4. CASE rerouted[t] = TRUE
        BY <1>5, <1>7, <2>1, <3>2, <3>4 DEF Turned, Begin
      <3>5. CASE rerouted[t] = FALSE
        <4>1. m_current_context[t] = w.at
          BY <3>1, <3>2, <3>5 DEF Turned
        <4>2. w.at \in Handlers /\ w.at # NULL
          BY <1>6, <3>3, <4>1
        <4>3. w.at # m_tail
          BY <1>6, <4>2
        <4>4. m_in_outbound[t] = TRUE
          BY <3>2, <3>5, <4>3 DEF Turned
        <4>5. w2.from = w.at
          BY <1>5, <1>7, <4>1, <4>2, <4>4
        <4> QED BY <1>5, <2>1, <3>5, <4>5 DEF Begin
      <3> QED BY <3>2, <3>4, <3>5
    <2>2. CASE ~At(t, "write", TRUE)
      <3>1. ASSUME stale[t] = FALSE PROVE m_in_outbound[t] # TRUE /\ m_current_context[t] = NULL
        <4>1. \A i \in 1 .. Len(stack[t]) : stack[t][i].call # "write"
          <5>1. CASE stack[t] = <<>>
            <6>1. Len(stack[t]) = 0 /\ 1 .. 0 = {}
              BY <5>1, EmptySeq
            <6> QED BY <6>1
          <5>2. CASE stack[t] # <<>>
            <6>1. /\ w = stack[t][Len(stack[t])] /\ w \in Walks /\ stack[t] \in Seq(Walks)
                  /\ ThreadInv(t) /\ ~Building
              BY <5>2, Walking
            <6>2. w.running = TRUE
              <7>1. ~Idle(t)
                BY <5>2 DEF Idle
              <7>2. w.running
                BY <7>1 DEF Write
              <7> HIDE DEF w
              <7> QED BY <6>1, <7>2, Zenon DEF Walks
            <6>3. w.call # "write"
              BY <2>2, <5>2, <6>2 DEF At
            <6>4. Len(stack[t]) = 1
              BY <5>2, <6>1, <6>3, Outermost DEF ThreadInv
            <6>5. \A i \in 1 .. 1 : i = 1
              OBVIOUS
            <6> QED BY <6>1, <6>3, <6>4, <6>5
          <5> QED BY <5>1, <5>2
        <4> QED BY <1>2, <3>1, <4>1 DEF ThreadInv, RouteInv
      <3> QED BY <1>5, <1>6, <1>7, <2>2, <3>1 DEF Begin
    <2> QED BY <2>1, <2>2
  <1>9. Turned(w2, m_current_context[t], m_in_outbound[t], FALSE)
    BY <1>5, <1>6, <1>7 DEF Turned
  <1> DEFINE rerouted2 == FALSE
  <1>10. /\ rerouted' = [rerouted EXCEPT ![t] = rerouted2]
         /\ Turned(w2, m_current_context[t], m_in_outbound[t], rerouted2)
    BY <1>1, <1>9
  <1> HIDE DEF rerouted2
  <1> QED BY <1>1, <1>3, <1>8, <1>10, WayPush

\* A read turns into a write.
LEMMA TailReadWay ==
  ASSUME PipelineInv, MarkInv, \A u \in Threads : WayInv(u), crashed = FALSE, NEW t \in Threads,
         TailRead(t)
  PROVE  \A u \in Threads : WayInv(u)'
  <1> DEFINE w2 == Walk("write", m_tail, TRUE, Top(t).made, stale[t])
             current2 == m_current_context[t]
             outbound2 == m_in_outbound[t]
             rerouted2 == FALSE
  <1>1. /\ stack[t] # <<>> /\ SetTop(t, w2) /\ UNCHANGED routing
        /\ rerouted' = [rerouted EXCEPT ![t] = rerouted2]
    BY DEF TailRead, At
  <1>2. SetRouting(t, outbound2, current2)
    BY <1>1 DEF SetRouting, routing, PipelineInv, ShapeInv, Types
  <1>3. /\ w2.call = "write" /\ w2.at = m_tail /\ w2.from = m_tail /\ w2.running = FALSE
        /\ w2.writer = m_tail /\ w2.again = FALSE
    BY Zenon DEF Walk
  <1>4. w2 \in Walks
    <2>1. PipelineInv'
      BY TailReadKeeps
    <2>2. stack'[t] \in Seq(Walks)
      BY <2>1 DEF PipelineInv, ShapeInv, Types
    <2>3. stack[t] \in Seq(Walks) /\ DOMAIN stack = Threads
      BY DEF PipelineInv, ShapeInv, Types
    <2> HIDE DEF w2
    <2>4. stack'[t] = Append(Front(stack[t]), w2)
      BY <1>1, <2>3 DEF SetTop
    <2>5. Front(stack[t]) \in Seq(Walks)
      BY <1>1, <2>3, FrontProps
    <2> QED BY <2>2, <2>4, <2>5, AppendedIn
  <1> HIDE DEF w2
  <1>5. w2.from = Begin(w2) /\ Turned(w2, current2, outbound2, rerouted2)
    BY <1>3 DEF Begin, Turned
  <1> HIDE DEF current2, outbound2, rerouted2
  <1> QED BY <1>1, <1>2, <1>4, <1>5, WayTop

\* A walk from the head begins.
LEMMA FireWay ==
  ASSUME PipelineInv, MarkInv, \A u \in Threads : WayInv(u), crashed = FALSE, NEW t \in Threads,
         FireChannelRead(t) \/ FireEvent(t)
  PROVE  \A u \in Threads : WayInv(u)'
  <1> DEFINE r == Walk("read", m_next[m_head], TRUE, NoReplies, stale[t])
             e == Walk("event", m_next[m_head], FALSE, NoReplies, stale[t])
             rerouted2 == rerouted[t]
  <1>1. (Push(t, r) \/ Push(t, e)) /\ UNCHANGED <<routing, rerouted>>
    BY DEF FireChannelRead, FireEvent
  <1>2. r.call = "read" /\ e.call = "event"
    BY Zenon DEF Walk
  <1> HIDE DEF r, e
  <1>3. PICK w2 : Push(t, w2) /\ w2.call # "write"
    BY <1>1, <1>2
  <1>4. w2 \in Walks
    <2>1. PipelineInv'
      BY FiresKeep
    <2>2. stack'[t] \in Seq(Walks)
      BY <2>1 DEF PipelineInv, ShapeInv, Types
    <2>3. stack[t] \in Seq(Walks) /\ DOMAIN stack = Threads
      BY DEF PipelineInv, ShapeInv, Types
    <2>4. stack'[t] = Append(stack[t], w2)
      BY <1>3, <2>3 DEF Push
    <2> QED BY <2>2, <2>3, <2>4, AppendedIn
  <1>5. rerouted' = [rerouted EXCEPT ![t] = rerouted2]
    BY <1>1 DEF MarkInv
  <1> HIDE DEF rerouted2
  <1> QED BY <1>1, <1>3, <1>4, <1>5, WayPush

\* A write comes to the head, an event to the tail, or the thread throws.
LEMMA EndWay ==
  ASSUME PipelineInv, MarkInv, \A u \in Threads : WayInv(u), crashed = FALSE, NEW t \in Threads,
         HeadWrite(t) \/ TailEvent(t) \/ Throw(t)
  PROVE  \A u \in Threads : WayInv(u)'
  <1> DEFINE s == stack[t]
             n == Len(s)
             f == Front(s)
  <1>1. /\ s # <<>> /\ Types /\ ThreadInv(t) /\ s \in Seq(Walks) /\ WayInv(t) /\ OrderInv
        /\ n \in Nat \ {0} /\ Top(t) = s[n]
    <2>1. stack[t] # <<>>
      BY DEF HeadWrite, TailEvent, Throw, At
    <2> QED BY <2>1, Walking
  <1>2. /\ f \in Seq(Walks) /\ Len(f) = n - 1
        /\ \A i \in 1 .. n - 1 : f[i] = s[i]
    BY <1>1, FrontProps
  <1>3. /\ DOMAIN stack = Threads /\ DOMAIN m_in_outbound = Threads
        /\ DOMAIN m_current_context = Threads /\ DOMAIN rerouted = Threads
    BY <1>1 DEF Types, MarkInv
  <1>4. \A u \in Threads \ {t} :
            /\ stack'[u] = stack[u] /\ m_current_context'[u] = m_current_context[u]
            /\ m_in_outbound'[u] = m_in_outbound[u] /\ rerouted'[u] = rerouted[u]
    <2>1. CASE HeadWrite(t)
      BY <1>3, <2>1 DEF HeadWrite, EndWrite, Pop, SetRouting
    <2>2. CASE TailEvent(t) \/ Throw(t)
      BY <1>3, <2>2 DEF TailEvent, Throw, Pop, routing
    <2> QED BY <2>1, <2>2
  <1>5. \/ stack'[t] = <<>>
        \/ /\ stack'[t] = f /\ n > 1
           /\ m_in_outbound'[t] = FALSE /\ rerouted'[t] = TRUE
    <2>1. CASE n = 1
      <3>1. f = <<>>
        BY <1>2, <2>1, EmptySeq
      <3> QED BY <1>3, <3>1 DEF HeadWrite, EndWrite, TailEvent, Throw, Pop
    <2>2. CASE n # 1
      <3>1. n > 1
        <4>1. n \in Nat \ {0} /\ n # 1
          BY <1>1, <2>2
        <4> HIDE DEF n
        <4> QED BY <4>1
      <3>2. CASE HeadWrite(t)
        <4>1. \/ stack' = [stack EXCEPT ![t] = f] /\ rerouted' = [rerouted EXCEPT ![t] = n > 1]
              \/ stack' = [stack EXCEPT ![t] = <<>>]
          BY <3>2 DEF HeadWrite, EndWrite, Pop
        <4>2. m_in_outbound' = [m_in_outbound EXCEPT ![t] = FALSE]
          BY <3>2 DEF HeadWrite, SetRouting
        <4> DEFINE more == n > 1
        <4>3. more = TRUE
          BY <3>1, Zenon
        <4> HIDE DEF s, f
        <4>4. stack' = [stack EXCEPT ![t] = f] => rerouted' = [rerouted EXCEPT ![t] = TRUE]
              \/ stack' = [stack EXCEPT ![t] = <<>>]
          BY <4>1, <4>3, Zenon
        <4> HIDE DEF n, more
        <4> QED BY <1>3, <3>1, <4>1, <4>2, <4>4
      <3>3. CASE TailEvent(t)
        BY <1>1, <2>2, <3>3, Outermost DEF TailEvent, At, ThreadInv
      <3>4. CASE Throw(t)
        BY <1>3, <3>4 DEF Throw
      <3> QED BY <3>2, <3>3, <3>4
    <2> QED BY <2>1, <2>2
  <1>6. CASE stack'[t] = <<>>
    BY <1>4, <1>6, WayEmpty
  <1>7. CASE stack'[t] = f /\ n > 1 /\ m_in_outbound'[t] = FALSE /\ rerouted'[t] = TRUE
    <2>1. Nested(s) /\ (\A i \in 1 .. n : WalkInv(Lists(t), s[i])) /\ BeginInv(t)
      BY <1>1 DEF ThreadInv, WayInv
    <2> HIDE DEF n, f
    <2>2. /\ n - 1 \in 1 .. n - 1 /\ n - 1 \in 1 .. n /\ n - 1 \in Nat \ {0}
          /\ \A i \in 1 .. n - 1 : i \in 1 .. n
      BY <1>1, <1>7
    <2>3. s[n - 1].running = TRUE /\ f # <<>>
      <3>1. s[n - 1].running = TRUE
        BY <2>1, <2>2 DEF Nested, n
      <3>2. Len(f) # 0
        BY <1>2, <2>2
      <3> QED BY <1>2, <3>1, <3>2, EmptySeq
    <2>4. Last(f) = s[n - 1]
      BY <1>2, <2>2, <2>3, FrontProps
    <2>5. BeginInv(t)'
      <3>1. \A i \in 1 .. n - 1 :
                f[i].call = "write" /\ f[i].stale = FALSE => f[i].from = Begin(f[i])
        BY <1>2, <2>1, <2>2 DEF BeginInv, n
      <3> QED BY <1>2, <1>7, <3>1 DEF BeginInv, Begin
    <2>6. s[n - 1].call = "write" => s[n - 1].at # m_tail
      <3>1. WalkInv(Lists(t), s[n - 1])
        BY <2>1, <2>2
      <3>2. s[n - 1].call = "write" => \E k \in 1 .. Len(order) : s[n - 1].at = Spot(k)
        BY <2>3, <3>1 DEF WalkInv, UpInv
      <3>3. s[n - 1].call = "write" => s[n - 1].at \in Handlers
        BY <1>1, <3>2, SpotFacts
      <3> QED BY <3>3, HandlersAssumption
    <2>7. s[n - 1].call = "write" => \A c : Turned(s[n - 1], c, FALSE, TRUE)
      BY <2>6 DEF Turned
    <2>8. TurnInv(t)'
      BY <1>7, <2>4, <2>7 DEF TurnInv, Top, Turned
    <2> QED BY <1>4, <2>5, <2>8, WayOfOne DEF WayInv
  <1> QED BY <1>5, <1>6, <1>7

\* The steps that are in nobody's walk.
LEMMA QuietWay ==
  ASSUME \A u \in Threads : WayInv(u), UNCHANGED <<stack, routing, rerouted>>
  PROVE  \A u \in Threads : WayInv(u)'
  <1>1. UNCHANGED <<stack, m_in_outbound, m_current_context, rerouted>>
    BY DEF routing
  <1> QED BY <1>1 DEF WayInv, BeginInv, TurnInv, Top

LEMMA WaysKept ==
  ASSUME PipelineInv, MarkInv, Ways, [Next]_vars
  PROVE  Ways'
  <1>1. CASE UNCHANGED vars
    BY <1>1, QuietWay DEF Ways, vars
  <1>2. CASE Next
    <2>1. crashed = FALSE
      <3>1. crashed \in BOOLEAN
        BY DEF PipelineInv, ShapeInv, Types
      <3> QED BY <1>2, <3>1, Zenon DEF Next
    <2>2. ASSUME NEW h \in Handlers, AddFirst(h) \/ AddLast(h) PROVE Ways'
      BY <2>2, QuietWay DEF Ways, AddFirst, AddLast
    <2>3. CASE FireEventLoopGroup \/ Destroy \/ DeleteContext
      BY <2>3, QuietWay DEF Ways, FireEventLoopGroup, Destroy, DeleteContext
    <2>4. ASSUME NEW t \in Threads, FireDestroyed(t) PROVE Ways'
      BY <2>4, QuietWay DEF Ways, FireDestroyed
    <2>5. ASSUME NEW t \in Threads, FireChannelRead(t) \/ FireEvent(t) PROVE Ways'
      BY <2>1, <2>5, FireWay DEF Ways
    <2>6. ASSUME NEW t \in Threads, CallHandler(t) \/ PassHandler(t) \/ Reply(t) PROVE Ways'
      BY <2>1, <2>6, DownSteps DEF Ways
    <2>7. ASSUME NEW t \in Threads, HandlerReturns(t) PROVE Ways'
      <3>1. CASE Top(t).call = "write"
        BY <2>1, <2>7, <3>1, UpSteps DEF Ways
      <3>2. CASE Top(t).call # "write"
        BY <2>1, <2>7, <3>2, DownSteps DEF Ways
      <3> QED BY <3>1, <3>2
    <2>8. ASSUME NEW t \in Threads, TailRead(t) PROVE Ways'
      BY <2>1, <2>8, TailReadWay DEF Ways
    <2>9. ASSUME NEW t \in Threads, HeadWrite(t) \/ TailEvent(t) \/ Throw(t) PROVE Ways'
      BY <2>1, <2>9, EndWay DEF Ways
    <2>10. ASSUME NEW t \in Threads, Write(t) PROVE Ways'
      BY <2>1, <2>10, WriteWay DEF Ways
    <2>11. ASSUME NEW t \in Threads, TailWrite(t) \/ SkipWriter(t) PROVE Ways'
      BY <2>1, <2>11, UpSteps DEF Ways
    <2>12. ASSUME NEW t \in Threads, HandlerWrite(t) PROVE Ways'
      <3>1. CASE Top(t).at \in Outbound
        BY <2>1, <2>12, <3>1, CallSteps DEF Ways
      <3>2. CASE Top(t).at \notin Outbound
        BY <2>1, <2>12, <3>2, UpSteps DEF Ways
      <3> QED BY <3>1, <3>2
    <2>13. ASSUME NEW t \in Threads, TransformWrite(t) PROVE Ways'
      BY <2>1, <2>13, CallSteps DEF Ways
    <2>14. ASSUME NEW t \in Threads,
                  \/ FireChannelRead(t) \/ FireEvent(t) \/ FireDestroyed(t)
                  \/ CallHandler(t) \/ PassHandler(t) \/ HandlerReturns(t)
                  \/ Reply(t) \/ TailRead(t) \/ TailEvent(t)
                  \/ Write(t) \/ TailWrite(t) \/ SkipWriter(t)
                  \/ HandlerWrite(t) \/ TransformWrite(t) \/ HeadWrite(t)
                  \/ Throw(t)
           PROVE  Ways'
      BY <2>4, <2>5, <2>6, <2>7, <2>8, <2>9, <2>10, <2>11, <2>12, <2>13, <2>14
    <2> QED BY <1>2, <2>2, <2>3, <2>14 DEF Next
  <1> QED BY <1>1, <1>2

\* In every state of the program the contexts are in a row, every walk has called what it
\* should have, the routing of every thread says where its walks are, and every write has
\* begun at its writer, or at the tail if a write before it in its walk came to the head.
THEOREM PipelineIsSound == Spec => [](PipelineInv /\ WaysInv)
  <1>1. Init => PipelineInv /\ WaysInv
    <2> SUFFICES ASSUME Init PROVE PipelineInv /\ WaysInv
      OBVIOUS
    <2>1. /\ stack = [t \in Threads |-> <<>>] /\ rerouted = [t \in Threads |-> FALSE]
      BY DEF Init
    <2>2. MarkInv
      BY <2>1 DEF MarkInv
    <2>3. ASSUME NEW t \in Threads PROVE WayInv(t)
      <3>1. stack[t] = <<>> /\ Len(stack[t]) = 0 /\ 1 .. 0 = {}
        BY <2>1, EmptySeq
      <3> QED BY <3>1 DEF WayInv, BeginInv, TurnInv
    <2> QED BY <2>2, <2>3, Starts DEF WaysInv, Ways
  <1>2. PipelineInv /\ WaysInv /\ [Next]_vars => (PipelineInv /\ WaysInv)'
    BY Inductive, MarksTyped, WaysKept DEF WaysInv
  <1> QED BY <1>1, <1>2, PTL DEF Spec

LEMMA LinksAgree ==
  ASSUME OrderInv, LinkInv, deleted = {}, NEW c \in Contexts, NEW d \in Contexts
  PROVE  m_next[c] = d <=> m_prev[d] = c
  <1> DEFINE n == Len(order)
  <1>1. /\ n \in Nat /\ Spot(0) = m_head /\ Spot(n + 1) = m_tail
        /\ \A k \in 1 .. n : Spot(k) = order[k]
        /\ \A j, k \in 0 .. n + 1 : Spot(j) = Spot(k) => j = k
    BY SpotFacts DEF Spots
  <1>2. /\ \A k \in 0 .. n : m_next[Spot(k)] = Spot(k + 1)
        /\ \A k \in 1 .. n + 1 : m_prev[Spot(k)] = Spot(k - 1)
        /\ m_next[m_tail] = NULL /\ m_prev[m_head] = NULL
    BY RowFacts
  <1>3. \A h \in Handlers : h \in ToSet(order) => \E k \in 1 .. n : h = order[k]
    <2>1. DOMAIN order = 1 .. n
      BY LenProperties DEF OrderInv
    <2> QED BY <2>1 DEF ToSet
  <1>4. \A h \in Handlers : h \notin ToSet(order) => m_next[h] = NULL /\ m_prev[h] = NULL
    BY DEF LinkInv
  <1>5. NULL \notin Contexts
    BY HandlersAssumption DEF Contexts
  <1> HIDE DEF n
  <1>6. ASSUME NEW e \in Contexts
        PROVE  /\ e = m_tail \/ m_next[e] = NULL \/ \E k \in 0 .. n : e = Spot(k)
               /\ e = m_head \/ m_prev[e] = NULL \/ \E k \in 1 .. n + 1 : e = Spot(k)
    <2>1. CASE e = m_head
      <3>1. 0 \in 0 .. n
        BY <1>1
      <3> QED BY <1>1, <2>1, <3>1
    <2>2. CASE e = m_tail
      <3>1. n + 1 \in 1 .. n + 1
        BY <1>1
      <3> QED BY <1>1, <2>2, <3>1
    <2>3. CASE e \in Handlers
      <3>1. \A k \in 1 .. n : k \in 0 .. n /\ k \in 1 .. n + 1
        BY <1>1
      <3> QED BY <1>1, <1>3, <1>4, <2>3, <3>1
    <2> QED BY <2>1, <2>2, <2>3 DEF Contexts
  <1>7. ASSUME m_next[c] = d PROVE m_prev[d] = c
    <2>1. PICK k \in 0 .. n : c = Spot(k)
      BY <1>2, <1>5, <1>6, <1>7
    <2>2. k + 1 \in 1 .. n + 1 /\ k + 1 - 1 = k
      BY <1>1
    <2>3. d = Spot(k + 1)
      BY <1>2, <1>7, <2>1
    <2>4. m_prev[Spot(k + 1)] = Spot(k + 1 - 1)
      BY <1>2, <2>2
    <2> QED BY <2>1, <2>2, <2>3, <2>4
  <1>8. ASSUME m_prev[d] = c PROVE m_next[c] = d
    <2>1. PICK k \in 1 .. n + 1 : d = Spot(k)
      BY <1>2, <1>5, <1>6, <1>8
    <2>2. k - 1 \in 0 .. n /\ k - 1 + 1 = k
      BY <1>1
    <2>3. c = Spot(k - 1)
      BY <1>2, <1>8, <2>1
    <2>4. m_next[Spot(k - 1)] = Spot(k - 1 + 1)
      BY <1>2, <2>2
    <2> QED BY <2>1, <2>2, <2>3, <2>4
  <1> QED BY <1>7, <1>8

\* The variables keep their types, and until the destructor has begun the two directions of the
\* chain agree, whatever handlers addFirst() and addLast() have put in it, in whatever order.
THEOREM PipelineTypes == Spec => []TypeOK
  <1>1. PipelineInv /\ WaysInv => TypeOK
    <2> SUFFICES ASSUME PipelineInv, MarkInv PROVE TypeOK
      BY DEF WaysInv
    <2>1. Types /\ OrderInv /\ LinkInv
      BY DEF PipelineInv, ShapeInv
    <2>2. deleted = {} => \A c, d \in Contexts : m_next[c] = d <=> m_prev[d] = c
      BY <2>1, LinksAgree
    <2>3. m_type_local \in [Transforming -> [Threads -> Int]]
      BY <2>1 DEF Types, NoList
    <2>4. ASSUME NEW t \in Threads, NEW i \in DOMAIN stack[t]
          PROVE  /\ stack[t][i].call \in {"read", "write", "event"}
                 /\ stack[t][i].at \in Contexts /\ stack[t][i].running \in BOOLEAN
      <3>1. stack[t] \in Seq(Walks)
        BY <2>1 DEF Types
      <3>2. PICK w \in Walks : w = stack[t][i]
        BY <3>1, LenProperties, ElementOfSeq
      <3>3. w.call \in {"read", "write", "event"} /\ w.at \in Contexts /\ w.running \in BOOLEAN
        BY <3>2, Zenon DEF Walks
      <3> QED BY <3>2, <3>3
    <2>5. /\ m_next \in [Contexts -> Contexts \cup {NULL}] /\ m_prev \in [Contexts -> Contexts \cup {NULL}]
          /\ m_elg \subseteq Contexts /\ deleted \subseteq Contexts /\ deleting \in Contexts \cup {NULL}
          /\ m_destroyed \in BOOLEAN /\ crashed \in BOOLEAN
          /\ m_in_outbound \in [Threads -> BOOLEAN] /\ stale \in [Threads -> BOOLEAN]
          /\ m_current_context \in [Threads -> Handlers \cup {NULL}]
          /\ rerouted \in [Threads -> BOOLEAN]
      BY <2>1 DEF Types, MarkInv
    <2> QED BY <2>2, <2>3, <2>4, <2>5, Zenon DEF TypeOK
  <1> QED BY <1>1, PipelineIsSound, PTL

\* A walk that has come to the tail has called all handlers of its kind.
LEMMA DownEnds ==
  ASSUME NEW lists, NEW w, OrderInv, DownInv(lists, w), w.running = TRUE \/ w.running = FALSE,
         w.at = m_tail
  PROVE  Forward(w.called, DOMAIN order, KindOf(w.call))
  <1> DEFINE n == Len(order)
  <1>1. PICK k \in 1 .. n + 1 :
             /\ w.at = Spot(k)
             /\ w.running = TRUE => k <= n /\ WalkedDown(lists, w, k)
             /\ w.running = FALSE => WalkedDown(lists, w, k - 1)
    BY DEF DownInv
  <1>2. n \in Nat /\ \A i \in 0 .. n + 1 : Spot(i) = m_tail <=> i = n + 1
    BY SpotFacts DEF Spots
  <1>3. DOMAIN order = 1 .. n
    BY LenProperties DEF OrderInv
  <1> HIDE DEF n
  <1>4. k \in 0 .. n + 1
    BY <1>1, <1>2
  <1>5. k = n + 1
    BY <1>1, <1>2, <1>4
  <1>6. ~(k <= n) /\ k - 1 = n
    BY <1>2, <1>5
  <1>7. WalkedDown(lists, w, n)
    BY <1>1, <1>6
  <1> QED BY <1>3, <1>7 DEF WalkedDown

\* A write that has come to the head has called all handlers on its way, and if it is that of a
\* read, it carries what they replied.
LEMMA UpEnds ==
  ASSUME NEW lists, NEW w \in Walks, OrderInv, ~Building, UpInv(lists, w), w.at = m_head,
         w.stale = FALSE, w.from = Begin(w)
  PROVE  /\ Backward(w.called, WayOf(w), Outbound)
         /\ w.ofRead = TRUE => w.encoded = w.made
  <1> DEFINE n == Len(order)
  <1>1. PICK m \in 1 .. n + 1 : \E k \in 0 .. m :
             /\ w.from = Spot(m) /\ w.at = Spot(k)
             /\ w.running = TRUE => k \in 1 .. n /\ WalkedUp(lists, w, k, m)
             /\ w.running = FALSE => WalkedUp(lists, w, k + 1, m)
    BY DEF UpInv
  <1>2. PICK k \in 0 .. m :
             /\ w.from = Spot(m) /\ w.at = Spot(k)
             /\ w.running = TRUE => k \in 1 .. n /\ WalkedUp(lists, w, k, m)
             /\ w.running = FALSE => WalkedUp(lists, w, k + 1, m)
    BY <1>1
  <1>3. /\ n \in Nat /\ \A i \in 0 .. n + 1 : Spot(i) = m_head <=> i = 0
        /\ \A i \in 1 .. n : Spot(i) = order[i] /\ order[i] \in Handlers
        /\ Spot(n + 1) = m_tail
    BY SpotFacts DEF Spots
  <1>4. w.running = TRUE \/ w.running = FALSE
    BY Zenon DEF Walks
  <1>5. DOMAIN order = 1 .. n
    BY LenProperties DEF OrderInv
  <1>6. \A i, j \in 1 .. n : order[i] = order[j] => i = j
    BY DEF OrderInv
  <1>7. \A h \in Handlers : \E j \in 1 .. n : order[j] = h
    BY DEF OrderInv
  <1> HIDE DEF n
  <1>8. k = 0
    <2>1. k \in 0 .. n + 1
      BY <1>1, <1>2, <1>3
    <2> QED BY <1>2, <1>3, <2>1
  <1>9. k \notin 1 .. n /\ k + 1 = 1
    BY <1>8
  <1>10. WalkedUp(lists, w, 1, m)
    BY <1>2, <1>4, <1>9
  <1>11. PlacesBefore(w.from) = 1 .. m - 1
    <2>1. CASE m = n + 1
      <3>1. \A j \in 1 .. n : order[j] # w.from
        BY <1>2, <1>3, <2>1, HandlersAssumption
      <3>2. 1 .. m - 1 = 1 .. n
        BY <1>3, <2>1
      <3> QED BY <1>5, <3>1, <3>2 DEF PlacesBefore
    <2>2. CASE m # n + 1
      <3>1. m \in 1 .. n
        BY <1>1, <1>3, <2>2
      <3>2. \A j \in 1 .. n : order[j] = w.from <=> j = m
        BY <1>2, <1>3, <1>6, <3>1
      <3>3. PlacesBefore(w.from) = {i \in 1 .. n : i < m}
        BY <1>5, <3>1, <3>2 DEF PlacesBefore
      <3>4. {i \in 1 .. n : i < m} = 1 .. m - 1
        BY <1>3, <3>1
      <3> QED BY <3>3, <3>4
    <2> QED BY <2>1, <2>2
  <1>12. Backward(w.called, WayOf(w), Outbound)
    <2>1. w.again = TRUE \/ w.again = FALSE
      BY Zenon DEF Walks
    <2>2. CASE w.again = TRUE
      <3>1. w.from = m_tail
        BY <2>2 DEF Begin
      <3>2. WayOf(w) = PlacesBefore(w.from)
        BY <2>2, <3>1, Zenon DEF WayOf
      <3> QED BY <1>10, <1>11, <3>2 DEF WalkedUp
    <2>3. CASE w.again = FALSE
      <3>1. w.from = w.writer
        BY <2>3 DEF Begin
      <3>2. WayOf(w) = PlacesBefore(w.from)
        BY <2>3, <3>1, Zenon DEF WayOf
      <3> QED BY <1>10, <1>11, <3>2 DEF WalkedUp
    <2> QED BY <2>1, <2>2, <2>3
  <1>13. ASSUME w.ofRead = TRUE PROVE w.encoded = w.made
    <2>1. \A j \in 1 .. n : order[j] \in Transforming =>
              w.encoded[order[j]] = IF 1 <= j THEN w.made[order[j]] ELSE 0
      BY <1>10, <1>13 DEF WalkedUp, n
    <2>2. \A j \in 1 .. n : 1 <= j
      BY <1>3
    <2>3. Transforming \subseteq Handlers
      BY TransformingAssumption, HandlersAssumption
    <2>4. \A h \in Transforming : w.encoded[h] = w.made[h]
      BY <1>7, <2>1, <2>2, <2>3
    <2>5. w.encoded \in [Transforming -> Nat] /\ w.made \in [Transforming -> Nat]
      BY DEF Walks
    <2> QED BY <2>4, <2>5
  <1> QED BY <1>12, <1>13

\* A read, an event and a write call every handler of their kind on their way, each once and in
\* order, and the write that a read ends in carries just what the handlers replied, for any
\* number of handlers and threads, with writes nested to any depth in handlers and cut short
\* by exceptions; and the destructor deletes every context. A write's way is the head's side
\* of its writer, and the whole chain once the head has reset the routing under its writer.
THEOREM WalksAreWhole == Spec => []WholeChain
  <1>1. PipelineInv /\ WaysInv => WholeChain
    <2> SUFFICES ASSUME PipelineInv, WaysInv PROVE WholeChain
      OBVIOUS
    <2>1. deleted # {} /\ deleting = NULL => deleted = Contexts
      BY DEF PipelineInv, ShapeInv, EndInv
    <2>2. ASSUME NEW t \in Threads, NEW i \in DOMAIN stack[t]
          PROVE  LET w == stack[t][i] IN
                 /\ w.call = "read" /\ w.at = m_tail => Forward(w.called, DOMAIN order, Inbound)
                 /\ w.call = "event" /\ w.at = m_tail => Forward(w.called, DOMAIN order, Callback)
                 /\ w.call = "write" /\ w.at = m_head /\ ~w.stale =>
                       Backward(w.called, WayOf(w), Outbound)
                 /\ w.call = "write" /\ w.ofRead /\ w.at = m_head /\ ~w.stale =>
                       w.encoded = w.made
      <3>1. OrderInv /\ ThreadInv(t) /\ stack[t] \in Seq(Walks)
        BY DEF PipelineInv, ShapeInv, Types
      <3>2. i \in 1 .. Len(stack[t])
        BY <3>1, LenProperties
      <3>3. stack[t] # <<>>
        BY <3>2, EmptySeq
      <3>4. ~Building
        BY <3>3, Walking
      <3>5. PICK w \in Walks : w = stack[t][i]
        BY <3>1, <3>2, ElementOfSeq
      <3>6. WalkInv(Lists(t), w)
        BY <3>1, <3>2, <3>5 DEF ThreadInv
      <3>7. (w.running = TRUE \/ w.running = FALSE) /\ (~w.stale => w.stale = FALSE)
            /\ (w.ofRead => w.ofRead = TRUE)
        BY <3>5, Zenon DEF Walks
      <3>8. w.call = "read" /\ w.at = m_tail => Forward(w.called, DOMAIN order, Inbound)
        BY <3>1, <3>6, <3>7, DownEnds DEF WalkInv, KindOf
      <3>9. w.call = "event" /\ w.at = m_tail => Forward(w.called, DOMAIN order, Callback)
        BY <3>1, <3>6, <3>7, DownEnds DEF WalkInv, KindOf
      <3>10. ASSUME w.call = "write", w.at = m_head, w.stale = FALSE
             PROVE  /\ Backward(w.called, WayOf(w), Outbound)
                    /\ w.ofRead = TRUE => w.encoded = w.made
        <4>1. w.from = Begin(w)
          BY <3>2, <3>5, <3>10 DEF WaysInv, Ways, WayInv, BeginInv
        <4> QED BY <3>1, <3>4, <3>6, <3>10, <4>1, UpEnds DEF WalkInv
      <3>11. w.call = "write" /\ w.at = m_head /\ ~w.stale =>
                 Backward(w.called, WayOf(w), Outbound)
        BY <3>7, <3>10, Zenon
      <3>12. w.call = "write" /\ w.ofRead /\ w.at = m_head /\ ~w.stale => w.encoded = w.made
        BY <3>7, <3>10, Zenon
      <3> QED BY <3>5, <3>8, <3>9, <3>11, <3>12, Zenon
    <2>3. ChainWalked
      BY <2>1, <2>2, Zenon DEF ChainWalked
    <2>4. RepliesCarried
      BY <2>2, Zenon DEF RepliesCarried
    <2> QED BY <2>3, <2>4 DEF WholeChain
  <1> QED BY <1>1, PipelineIsSound, PTL

\* A thread that has left the pipeline, unless by an exception, has left no routing in it,
\* however deep its writes were nested.
THEOREM RoutingIsLeftClean == Spec => []IdleRoutingClean
  <1>1. PipelineInv => IdleRoutingClean
    <2> SUFFICES ASSUME PipelineInv, NEW t \in Threads, stack[t] = <<>>, ~stale[t]
                 PROVE  ~m_in_outbound[t] /\ m_current_context[t] = NULL
      BY DEF IdleRoutingClean
    <2>1. RouteInv(t) /\ Types
      BY DEF PipelineInv, ShapeInv, ThreadInv
    <2>2. stale[t] \in BOOLEAN /\ m_in_outbound[t] \in BOOLEAN
      BY <2>1 DEF Types
    <2>3. stale[t] = FALSE
      BY <2>2, Zenon
    <2>4. Len(stack[t]) = 0
      BY EmptySeq
    <2>5. 1 .. Len(stack[t]) = {}
      BY <2>4
    <2>6. m_in_outbound[t] # TRUE /\ m_current_context[t] = NULL
      BY <2>1, <2>3, <2>5 DEF RouteInv
    <2> QED BY <2>2, <2>6, Zenon
  <1> QED BY <1>1, PipelineIsSound, PTL
================================================================================
