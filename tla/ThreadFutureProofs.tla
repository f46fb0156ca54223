--------------------------- MODULE ThreadFutureProofs ---------------------------
(***************************************************************************)
(* Futures and addresses used again, for any number of tasks and addresses *)
(* and any timeouts.                                                       *)
(***************************************************************************)
EXTENDS ThreadFuture, TLAPS

--------------------------------------------------------------------------------
\* The inductive invariant

Entries == [done : BOOLEAN, data : Tasks \cup {Null}]
Stages == {"new", "pending", "running", "ran", "refused", "dropped"}

\* TypeOK but for where tasks exist, with the pool's variables and the map a function.
Types ==
    /\ stage \in [Tasks -> Stages]
    /\ call \in [Tasks -> {"new", "allocated", "accepted", "returned"}]
    /\ address \in [Tasks -> Addresses \cup {Null}]
    /\ exists \subseteq Tasks /\ fulfilled \subseteq Tasks
    /\ DOMAIN s_futute_map \subseteq Addresses
    /\ s_futute_map \in [DOMAIN s_futute_map -> Entries]
    /\ future \in [Tasks -> {"none", "held", "deleted"}]
    /\ remaining \in [Tasks -> Int]
    /\ getting \in [Tasks -> {"no", "sleeping", "fetching"}]

\* A task exists from its allocation until it has been fulfilled or given up, and a future
\* only after submit() has returned.
Lifetimes ==
    \A t \in Tasks :
        /\ call[t] # "new" => address[t] \in Addresses
        /\ call[t] \in {"new", "allocated"} => stage[t] = "new"
        /\ call[t] = "allocated" => t \in exists
        /\ stage[t] \in {"pending", "running"} /\ t \notin fulfilled => t \in exists
        /\ future[t] # "none" => call[t] = "returned"

\* From its allocation until its future is deleted a task uses its address. When no second
\* task was given the address meanwhile, no other task of that address exists or has, or
\* will get, a future: they are all of the past.
Uses(t) == call[t] \in {"allocated", "accepted"} \/ Held(t)

Apart ==
    \A t, u \in Tasks :
        Uses(t) /\ Alone(t) /\ u # t /\ address[u] = address[t] => u \notin exists /\ ~Uses(u)

FutureInv == Types /\ Lifetimes /\ NoStaleEntry /\ Apart /\ AloneReportsOwn

--------------------------------------------------------------------------------
LEMMA FutureInit == Init => FutureInv
  BY NullAssumption
  DEF Init, Pool!Init, FutureInv, Types, Stages, Entries, Lifetimes, NoStaleEntry, Apart, Uses,
      Held, Alone, AloneReportsOwn, IsDone

LEMMA FutureStep ==
  ASSUME FutureInv, [Next]_vars
  PROVE  FutureInv'
  <1> USE NullAssumption DEF FutureInv, poolVars, getVars, Held, Alone
  <1>1. ASSUME NEW t \in Tasks, Allocate(t) PROVE FutureInv'
    <2> USE <1>1 DEF Allocate, SubmitGoes, Types
    <2>1. PICK a \in Addresses :
              /\ \A u \in exists : address[u] # a
              /\ address' = [address EXCEPT ![t] = a]
              /\ shared' = IF FuturesAt(a) = {} THEN shared ELSE shared \cup FuturesAt(a) \cup {t}
      OBVIOUS
    <2>2. /\ call[t] = "new" /\ future[t] = "none" /\ address'[t] = a
          /\ \A u \in Tasks \ {t} : call'[u] = call[u] /\ address'[u] = address[u]
      BY <2>1 DEF Lifetimes
    <2>3. Types'
      BY <2>1
    <2>4. Lifetimes'
      BY <2>1 DEF Lifetimes
    <2>5. NoStaleEntry'
      BY <2>2 DEF NoStaleEntry
    <2>6. shared \subseteq shared'
      BY <2>1
    <2>7. ASSUME NEW u \in Tasks, u # t, address[u] = a
          PROVE  /\ u \notin exists /\ call[u] # "allocated"
                 /\ Uses(u) => u \in shared' /\ t \in shared'
      <3>1. u \notin exists /\ call[u] # "allocated"
        BY <2>1, <2>7 DEF Lifetimes
      <3>2. Uses(u) => u \in FuturesAt(a)
        BY <2>7, <3>1 DEF Uses, FuturesAt
      <3> QED BY <2>1, <3>1, <3>2
    <2>8. Apart'
      BY <2>2, <2>6, <2>7 DEF Apart, Uses
    <2>9. AloneReportsOwn'
      BY <2>2, <2>6 DEF AloneReportsOwn, IsDone, Fetched
    <2> QED BY <2>3, <2>4, <2>5, <2>8, <2>9
  <1>2. ASSUME NEW t \in Tasks, Accept(t) \/ Refuse(t) PROVE FutureInv'
    <2> USE <1>2 DEF Accept, Refuse, Pool!Accept, Pool!Refuse, Pool!Moves, SubmitGoes, Types
    <2>1. Types'
      BY DEF Stages
    <2>2. Lifetimes'
      BY DEF Lifetimes
    <2>3. NoStaleEntry'
      BY DEF NoStaleEntry
    <2>4. Apart'
      BY DEF Apart, Uses
    <2>5. AloneReportsOwn'
      BY DEF AloneReportsOwn, IsDone, Fetched
    <2> QED BY <2>1, <2>2, <2>3, <2>4, <2>5
  <1>3. ASSUME NEW t \in Tasks, Register(t) PROVE FutureInv'
    <2> USE <1>3 DEF Register, SubmitGoes, WithEntry, Types
    <2>1. address[t] \in Addresses /\ ~Held(t)
      BY DEF Lifetimes
    <2>2. Types'
      BY <2>1 DEF Entries
    <2>3. Lifetimes'
      BY DEF Lifetimes
    <2>4. NoStaleEntry'
      BY DEF NoStaleEntry
    <2>5. Apart'
      BY DEF Apart, Uses
    <2>6. Alone(t) => ~IsDone(t)'
      <3>1. Alone(t) => address[t] \notin DOMAIN s_futute_map
        BY <2>1 DEF NoStaleEntry, Apart, Uses
      <3> QED BY <3>1 DEF IsDone
    <2>7. AloneReportsOwn'
      BY <2>6 DEF AloneReportsOwn, IsDone, Fetched
    <2> QED BY <2>2, <2>3, <2>4, <2>5, <2>7
  <1>4. ASSUME NEW t \in Tasks, Start(t) \/ Finish(t) \/ GiveUp(t) PROVE FutureInv'
    <2> USE <1>4 DEF Start, Finish, GiveUp, Pool!Start, Pool!Finish, Pool!GiveUp, Pool!Moves, Types
    <2>1. Types'
      BY DEF Stages
    <2>2. Lifetimes'
      <3>1. /\ \/ stage'[t] \in {"ran", "dropped"} /\ exists' = exists \ {t}
               \/ stage'[t] = "running" /\ exists' = exists /\ stage[t] = "pending"
            /\ \A u \in Tasks \ {t} : stage'[u] = stage[u]
        OBVIOUS
      <3>2. call[t] \notin {"new", "allocated"}
        BY DEF Lifetimes
      <3> QED BY <3>1, <3>2 DEF Lifetimes
    <2>3. NoStaleEntry'
      BY DEF NoStaleEntry
    <2>4. Apart'
      BY DEF Apart, Uses
    <2>5. AloneReportsOwn'
      BY DEF AloneReportsOwn, IsDone, Fetched
    <2> QED BY <2>1, <2>2, <2>3, <2>4, <2>5
  <1>5. ASSUME NEW t \in Tasks, Set(t) PROVE FutureInv'
    <2> USE <1>5 DEF Set, Types
    <2>1. PICK result \in {t, Null} :
              s_futute_map' =
                 [a \in DOMAIN s_futute_map |->
                     IF a = address[t] THEN [done |-> TRUE, data |-> result] ELSE s_futute_map[a]]
      OBVIOUS
    <2>2. Types'
      BY <2>1 DEF Entries
    <2>3. Lifetimes'
      BY DEF Lifetimes
    <2>4. NoStaleEntry'
      BY <2>1 DEF NoStaleEntry
    <2>5. Apart'
      BY DEF Apart, Uses
    <2>6. ASSUME NEW u \in Tasks, (Held(u) /\ Alone(u) /\ IsDone(u))'
          PROVE  u \in fulfilled' /\ Fetched(u)' \in {u, Null}
      <3>1. CASE u = t
        BY <2>1, <2>6, <3>1 DEF IsDone, Fetched
      <3>2. CASE u # t
        <4>1. address[u] # address[t]
          BY <2>6, <3>2 DEF Lifetimes, Apart, Uses
        <4> QED BY <2>1, <2>6, <4>1 DEF AloneReportsOwn, IsDone, Fetched
      <3> QED BY <3>1, <3>2
    <2> QED BY <2>2, <2>3, <2>4, <2>5, <2>6 DEF AloneReportsOwn
  <1>6. ASSUME NEW t \in Tasks, Get(t) \/ GetStep(t) PROVE FutureInv'
    <2>1. /\ UNCHANGED <<stage, call, address, exists, s_futute_map, fulfilled, future, shared>>
          /\ remaining' \in [Tasks -> Int] /\ getting' \in [Tasks -> {"no", "sleeping", "fetching"}]
      BY <1>6, TimeoutsAssumption DEF Get, GetStep, GetPeriod, GetFetch, AsInt, Types
    <2> QED BY <2>1 DEF Types, Lifetimes, NoStaleEntry, Apart, Uses, AloneReportsOwn, IsDone, Fetched
  <1>7. ASSUME NEW t \in Tasks, DeleteFuture(t) PROVE FutureInv'
    <2> USE <1>7 DEF DeleteFuture, Types
    <2>1. Types'
      OBVIOUS
    <2>2. Lifetimes'
      BY DEF Lifetimes
    <2>3. NoStaleEntry'
      BY DEF NoStaleEntry
    <2>4. Apart'
      BY DEF Apart, Uses
    <2>5. AloneReportsOwn'
      BY DEF AloneReportsOwn, IsDone, Fetched
    <2> QED BY <2>1, <2>2, <2>3, <2>4, <2>5
  <1>8. CASE Close \/ UNCHANGED vars
    BY <1>8 DEF Close, Pool!Close, vars, Types, Lifetimes, NoStaleEntry, Apart, Uses,
                AloneReportsOwn, IsDone, Fetched
  <1> QED BY <1>1, <1>2, <1>3, <1>4, <1>5, <1>6, <1>7, <1>8 DEF Next, WorkerStep

LEMMA Invariant == Spec => []FutureInv
  BY FutureInit, FutureStep, PTL DEF Spec

--------------------------------------------------------------------------------
\* Types; a task that waits in the pool or runs is allocated until its future is fulfilled.
THEOREM FutureTypes == Spec => []TypeOK
  <1>1. FutureInv => TypeOK
    BY DEF FutureInv, Types, Entries, Lifetimes, TypeOK
  <1> QED BY <1>1, Invariant, PTL

\* s_futute_map keeps no entry once the futures of its address are deleted: a set() that
\* comes later makes none.
THEOREM MapIsClean == Spec => []NoStaleEntry
  <1>1. FutureInv => NoStaleEntry
    BY DEF FutureInv
  <1> QED BY <1>1, Invariant, PTL

\* A future whose task's address no second task was given meanwhile reports that task's
\* result and no other, although tasks before it had the address.
THEOREM AloneIsRight == Spec => []AloneReportsOwn
  <1>1. FutureInv => AloneReportsOwn
    BY DEF FutureInv
  <1> QED BY <1>1, Invariant, PTL

\* Such a future, once done, stays done while its client holds it.
THEOREM DoneIsStable == Spec => DoneSticks
  <1> DEFINE Sticks(t) == Held(t) /\ IsDone(t) /\ Held(t)' /\ Alone(t)' => IsDone(t)'
  <1>1. ASSUME FutureInv, [Next]_vars, NEW t \in Tasks PROVE Sticks(t)
    <2> SUFFICES ASSUME Held(t), IsDone(t), Held(t)', Alone(t)' PROVE IsDone(t)'
      OBVIOUS
    <2> USE DEF FutureInv, Types, Held, Alone, IsDone
    <2> USE <1>1
    <2>1. call[t] = "returned"
      BY DEF Lifetimes
    <2>2. ASSUME NEW u \in Tasks, Allocate(u) PROVE IsDone(t)'
      BY <2>1, <2>2 DEF Allocate, SubmitGoes
    <2>3. ASSUME NEW u \in Tasks, Register(u) PROVE IsDone(t)'
      BY <2>3 DEF Register, WithEntry
    <2>4. ASSUME NEW u \in Tasks, Set(u) PROVE IsDone(t)'
      BY <2>4 DEF Set
    <2>5. ASSUME NEW u \in Tasks, DeleteFuture(u), u # t PROVE IsDone(t)'
      <3>1. address[u] # address[t]
        BY <2>5 DEF DeleteFuture, Apart, Uses
      <3> QED BY <2>5, <3>1 DEF DeleteFuture
    <2>6. ASSUME UNCHANGED <<address, s_futute_map>> PROVE IsDone(t)'
      BY <2>6
    <2>7. ASSUME NEW u \in Tasks, DeleteFuture(u) PROVE u # t
      BY <2>7 DEF DeleteFuture
    <2> QED BY <2>2, <2>3, <2>4, <2>5, <2>6, <2>7
            DEF Next, WorkerStep, GetStep, Accept, Refuse, Start, Finish, GiveUp, Get, GetPeriod,
                GetFetch, Close, vars
  <1> HIDE DEF Sticks
  <1>2. FutureInv /\ [Next]_vars => [\A t \in Tasks : Sticks(t)]_vars
    BY <1>1
  <1>3. DoneSticks <=> [][\A t \in Tasks : Sticks(t)]_vars
    BY PTL DEF DoneSticks, Sticks
  <1> QED BY <1>2, <1>3, Invariant, PTL DEF Spec
================================================================================
