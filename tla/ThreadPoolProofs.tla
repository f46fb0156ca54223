---------------------------- MODULE ThreadPoolProofs ----------------------------
(***************************************************************************)
(* The bookkeeping of the thread pool, for every number of threads, tasks  *)
(* and queue slots.                                                        *)
(***************************************************************************)
EXTENDS ThreadPool, FiniteSetTheorems, SequenceTheorems, TLAPS

--------------------------------------------------------------------------------
\* Types and bounds

\* Only a shutdown leads the master out of its loop, frees memory or lets a worker stray.
PhaseInv ==
    /\ ~m_pool_shutdown =>
          master \in {"top", "tension", "grow", "cleanup", "idle", "reclaim"}
    /\ freed => m_pool_shutdown
    /\ (\E w \in Slots : m_worker_threads[w] = "astray") => freed

BoundsInv == TypeOK /\ LiveWithinBounds /\ PhaseInv

LEMMA BoundsInit == Init => BoundsInv
  <1> SUFFICES ASSUME Init PROVE BoundsInv
    OBVIOUS
  <1> USE ThreadsAssumption, QueueLengthAssumption, NoTaskAssumption DEF Init
  <1>1. m_task_queue \in Seq(Tasks) /\ Len(m_task_queue) = 0
    OBVIOUS
  <1>2. TypeOK
    BY <1>1 DEF TypeOK, Slots
  <1>3. LiveWithinBounds /\ PhaseInv
    BY DEF LiveWithinBounds, PhaseInv
  <1> QED BY <1>2, <1>3 DEF BoundsInv

\* What Grow does to the count and the slots.
LEMMA GrowBounds ==
  ASSUME BoundsInv, Grow
  PROVE  /\ m_live_t' \in 0 .. MaxThreads
         /\ m_live_t <= m_live_t'
         /\ \A w \in Slots : \/ m_worker_threads'[w] = m_worker_threads[w]
                             \/ /\ m_worker_threads[w] = "null"
                                /\ m_worker_threads'[w] = "loop"
         /\ m_worker_threads' \in [Slots -> {"null", "loop", "wait", "check", "checkExit",
                                     "leave", "pop", "run", "exiting", "done", "astray"}]
  <1>1. CASE m_live_t < MaxThreads /\ FreeSlots # {}
    <2>1. PICK w \in FreeSlots :
              m_worker_threads' = [m_worker_threads EXCEPT ![w] = "loop"]
      BY <1>1 DEF Grow
    <2>2. m_live_t' = m_live_t + 1
      BY <1>1 DEF Grow
    <2> QED BY <1>1, <2>1, <2>2, ThreadsAssumption DEF BoundsInv, TypeOK, FreeSlots
  <1>2. CASE ~(m_live_t < MaxThreads /\ FreeSlots # {})
    BY <1>2, ThreadsAssumption DEF Grow, BoundsInv, TypeOK
  <1> QED BY <1>1, <1>2

\* The steps of a call of submit().
LEMMA BoundsSubmit ==
  ASSUME BoundsInv, NEW t \in Tasks, Submit(t) \/ SubmitStep(t) \/ SubmitJoin(t)
  PROVE  BoundsInv'
  <1> USE ThreadsAssumption, QueueLengthAssumption
  <1>1. CASE Submit(t)
    BY <1>1 DEF Submit, Goes, BoundsInv, TypeOK, LiveWithinBounds, PhaseInv,
                poolVars, threadVars, masterVars
  <1>2. CASE SubmitSize(t)
    BY <1>2 DEF SubmitSize, Goes, BoundsInv, TypeOK, LiveWithinBounds, PhaseInv,
                poolVars, threadVars, masterVars
  <1>3. CASE SubmitGrow(t)
    <2>1. CASE freed
      BY <1>3, <2>1 DEF SubmitGrow, Goes, BoundsInv, TypeOK, LiveWithinBounds, PhaseInv,
                        masterVars
    <2>2. CASE ~freed
      <3>1. Grow
        BY <1>3, <2>2 DEF SubmitGrow
      <3>2. TypeOK'
        BY <1>3, <2>2, <3>1, GrowBounds DEF SubmitGrow, Goes, BoundsInv, TypeOK, masterVars
      <3>3. LiveWithinBounds' /\ PhaseInv'
        BY <1>3, <2>2, <3>1, GrowBounds
           DEF SubmitGrow, BoundsInv, TypeOK, LiveWithinBounds, PhaseInv, masterVars
      <3> QED BY <3>2, <3>3 DEF BoundsInv
    <2> QED BY <2>1, <2>2
  <1>4. CASE SubmitPush(t)
    <2>1. m_task_queue' \in Seq(Tasks) /\ Len(m_task_queue') <= QueueLength
      BY <1>4, AppendProperties DEF SubmitPush, BoundsInv, TypeOK
    <2> QED BY <1>4, <2>1 DEF SubmitPush, Goes, BoundsInv, TypeOK, LiveWithinBounds,
                              PhaseInv, threadVars, masterVars
  <1>5. ASSUME NEW p \in Policies, SubmitOverflow(t, p) PROVE BoundsInv'
    BY <1>5 DEF SubmitOverflow, Goes, BoundsInv, TypeOK, LiveWithinBounds, PhaseInv,
                poolVars, threadVars, masterVars
  <1>6. CASE SubmitFreedQueue(t)
    BY <1>6 DEF SubmitFreedQueue, Goes, BoundsInv, TypeOK, LiveWithinBounds, PhaseInv,
                poolVars, threadVars, masterVars
  <1>7. CASE SubmitPost(t)
    BY <1>7 DEF SubmitPost, Goes, BoundsInv, TypeOK, LiveWithinBounds, PhaseInv,
                threadVars, masterVars
  <1>8. CASE SubmitJoin(t)
    BY <1>8 DEF SubmitJoin, Goes, BoundsInv, TypeOK, LiveWithinBounds, PhaseInv,
                poolVars, threadVars, masterVars
  <1> QED BY <1>1, <1>2, <1>3, <1>4, <1>5, <1>6, <1>7, <1>8 DEF SubmitStep

\* The steps of a worker. Where it goes keeps "run" and a held task together.
LEMMA BoundsWorker ==
  ASSUME BoundsInv, NEW w \in Slots, WorkerStep(w) \/ WorkerFinish(w)
  PROVE  BoundsInv'
  <1>1. CASE WorkerLoop(w)
    BY <1>1 DEF WorkerLoop, WorkerGoes, BoundsInv, TypeOK, LiveWithinBounds, PhaseInv,
                poolVars, masterVars, callVars
  <1>2. CASE WorkerWait(w)
    BY <1>2 DEF WorkerWait, WorkerGoes, BoundsInv, TypeOK, LiveWithinBounds, PhaseInv,
                masterVars, callVars
  <1>3. CASE WorkerCheck(w)
    BY <1>3 DEF WorkerCheck, WorkerGoes, BoundsInv, TypeOK, LiveWithinBounds, PhaseInv,
                poolVars, masterVars, callVars
  <1>4. CASE WorkerCheckExit(w)
    BY <1>4 DEF WorkerCheckExit, WorkerGoes, BoundsInv, TypeOK, LiveWithinBounds, PhaseInv,
                poolVars, masterVars, callVars
  <1>5. CASE WorkerLeave(w)
    BY <1>5 DEF WorkerLeave, WorkerGoes, BoundsInv, TypeOK, LiveWithinBounds, PhaseInv,
                masterVars, callVars
  <1>6. CASE WorkerEnd(w)
    BY <1>6 DEF WorkerEnd, WorkerGoes, BoundsInv, TypeOK, LiveWithinBounds, PhaseInv,
                poolVars, masterVars, callVars
  <1>7. CASE WorkerPop(w)
    <2>1. /\ Head(m_task_queue) \in Tasks
          /\ Tail(m_task_queue) \in Seq(Tasks)
          /\ Len(Tail(m_task_queue)) <= QueueLength
      BY <1>7, HeadTailProperties, QueueLengthAssumption DEF WorkerPop, BoundsInv, TypeOK
    <2>2. TypeOK'
      BY <1>7, <2>1, NoTaskAssumption
         DEF WorkerPop, WorkerGoes, BoundsInv, TypeOK, masterVars, callVars
    <2>3. LiveWithinBounds' /\ PhaseInv'
      BY <1>7 DEF WorkerPop, WorkerGoes, BoundsInv, TypeOK, LiveWithinBounds, PhaseInv,
                  masterVars
    <2> QED BY <2>2, <2>3 DEF BoundsInv
  <1>8. CASE WorkerPopNothing(w)
    BY <1>8 DEF WorkerPopNothing, WorkerGoes, BoundsInv, TypeOK, LiveWithinBounds, PhaseInv,
                poolVars, masterVars, callVars
  <1>9. CASE WorkerPopFreed(w)
    BY <1>9 DEF WorkerPopFreed, WorkerGoes, BoundsInv, TypeOK, LiveWithinBounds, PhaseInv,
                poolVars, masterVars, callVars
  <1>10. CASE WorkerFinish(w)
    BY <1>10 DEF WorkerFinish, WorkerGoes, BoundsInv, TypeOK, LiveWithinBounds, PhaseInv,
                 poolVars, masterVars
  <1> QED BY <1>1, <1>2, <1>3, <1>4, <1>5, <1>6, <1>7, <1>8, <1>9, <1>10 DEF WorkerStep

\* The steps of the master. Only it lowers the count, after it has found it above the
\* minimum: what the other threads do in between can only raise it.
LEMMA BoundsMaster ==
  ASSUME BoundsInv, MasterStep
  PROVE  BoundsInv'
  <1> USE ThreadsAssumption
  <1>1. CASE MasterTop
    BY <1>1 DEF MasterTop, MasterGoes, BoundsInv, TypeOK, LiveWithinBounds, PhaseInv,
                poolVars, threadVars, callVars
  <1>2. CASE MasterTension
    BY <1>2 DEF MasterTension, MasterGoes, BoundsInv, TypeOK, LiveWithinBounds, PhaseInv,
                poolVars, threadVars, callVars
  <1>3. CASE MasterGrow
    <2>1. Grow
      BY <1>3 DEF MasterGrow
    <2>2. TypeOK'
      BY <1>3, <2>1, GrowBounds DEF MasterGrow, MasterGoes, BoundsInv, TypeOK, callVars
    <2>3. LiveWithinBounds' /\ PhaseInv'
      BY <1>3, <2>1, GrowBounds
         DEF MasterGrow, MasterGoes, BoundsInv, TypeOK, LiveWithinBounds, PhaseInv
    <2> QED BY <2>2, <2>3 DEF BoundsInv
  <1>4. CASE MasterCleanup
    BY <1>4 DEF MasterCleanup, MasterGoes, BoundsInv, TypeOK, LiveWithinBounds, PhaseInv,
                poolVars, callVars
  <1>5. CASE MasterIdle
    BY <1>5 DEF MasterIdle, MasterGoes, BoundsInv, TypeOK, LiveWithinBounds, PhaseInv,
                poolVars, threadVars, callVars
  <1>6. CASE MasterReclaim
    BY <1>6 DEF MasterReclaim, MasterGoes, BoundsInv, TypeOK, LiveWithinBounds, PhaseInv,
                threadVars, callVars
  <1>7. CASE MasterExitAll
    BY <1>7 DEF MasterExitAll, MasterGoes, BoundsInv, TypeOK, LiveWithinBounds, PhaseInv,
                threadVars, callVars
  <1>8. CASE MasterPost
    BY <1>8 DEF MasterPost, BoundsInv, TypeOK, LiveWithinBounds, PhaseInv,
                threadVars, callVars
  <1>9. CASE MasterDrain
    <2>1. CASE m_task_queue # <<>>
      <3>1. /\ Head(m_task_queue) \in Tasks
            /\ Tail(m_task_queue) \in Seq(Tasks)
            /\ Len(Tail(m_task_queue)) <= QueueLength
        BY <2>1, HeadTailProperties, QueueLengthAssumption DEF BoundsInv, TypeOK
      <3> QED BY <1>9, <2>1, <3>1 DEF MasterDrain, BoundsInv, TypeOK, LiveWithinBounds,
                                      PhaseInv, threadVars
    <2>2. CASE m_task_queue = <<>>
      BY <1>9, <2>2 DEF MasterDrain, BoundsInv, TypeOK, LiveWithinBounds, PhaseInv, threadVars
    <2> QED BY <2>1, <2>2
  <1> QED BY <1>1, <1>2, <1>3, <1>4, <1>5, <1>6, <1>7, <1>8, <1>9 DEF MasterStep

LEMMA BoundsStep == BoundsInv /\ [Next]_vars => BoundsInv'
  <1> SUFFICES ASSUME BoundsInv, [Next]_vars PROVE BoundsInv'
    OBVIOUS
  <1>1. CASE Shutdown
    BY <1>1 DEF Shutdown, BoundsInv, TypeOK, LiveWithinBounds, PhaseInv,
                poolVars, threadVars, masterVars, callVars
  <1>2. CASE ShutdownFree
    BY <1>2 DEF ShutdownFree, BoundsInv, TypeOK, LiveWithinBounds, PhaseInv,
                poolVars, threadVars, masterVars, callVars
  <1>3. CASE UNCHANGED vars
    BY <1>3 DEF vars, BoundsInv, TypeOK, LiveWithinBounds, PhaseInv,
                poolVars, threadVars, masterVars, callVars
  <1> QED BY <1>1, <1>2, <1>3, BoundsSubmit, BoundsWorker, BoundsMaster DEF Next

\* The type invariant, for every size of the pool.
THEOREM PoolTypes == Spec => []TypeOK
  BY BoundsInit, BoundsStep, PTL DEF Spec, BoundsInv

\* The thread count stays within the constructor's bounds, although the master tests it
\* outside the mutex.
THEOREM PoolBounds == Spec => []LiveWithinBounds
  BY BoundsInit, BoundsStep, PTL DEF Spec, BoundsInv

--------------------------------------------------------------------------------
\* Counting

\* The elements of S that f takes into P.
Into(S, P, f) == {y \in S : f[y] \in P}

\* One element moves, and so does the count.
LEMMA CountMove ==
  ASSUME NEW S, NEW P, NEW f, NEW g, NEW x \in S,
         \A y \in S \ {x} : g[y] = f[y],
         IsFiniteSet(Into(S, P, f))
  PROVE  /\ IsFiniteSet(Into(S, P, g))
         /\ Cardinality(Into(S, P, g)) =
                Cardinality(Into(S, P, f))
                    + (IF g[x] \in P THEN 1 ELSE 0) - (IF f[x] \in P THEN 1 ELSE 0)
  <1> DEFINE F == Into(S, P, f)
             G == Into(S, P, g)
  <1> USE DEF Into
  <1>1. Cardinality(F) \in Nat
    BY FS_CardinalityType
  <1>2. CASE f[x] \in P /\ g[x] \in P
    <2>1. G = F
      BY <1>2
    <2> QED BY <1>1, <1>2, <2>1
  <1>3. CASE f[x] \notin P /\ g[x] \notin P
    <2>1. G = F
      BY <1>3
    <2>2. IsFiniteSet(G) /\ Cardinality(G) = Cardinality(F)
      BY <2>1
    <2> HIDE DEF F, G
    <2>3. Cardinality(G) = Cardinality(F)
                + (IF g[x] \in P THEN 1 ELSE 0) - (IF f[x] \in P THEN 1 ELSE 0)
      BY <1>1, <1>3, <2>2
    <2> QED BY <1>1, <2>2, <2>3 DEF F, G
  <1>4. CASE f[x] \notin P /\ g[x] \in P
    <2>1. G = F \cup {x} /\ x \notin F
      BY <1>4
    <2>2. IsFiniteSet(G) /\ Cardinality(G) = Cardinality(F) + 1
      BY <2>1, FS_AddElement
    <2> QED BY <1>1, <1>4, <2>2
  <1>5. CASE f[x] \in P /\ g[x] \notin P
    <2>1. G = F \ {x} /\ x \in F
      BY <1>5
    <2>2. IsFiniteSet(G) /\ Cardinality(G) = Cardinality(F) - 1
      BY <2>1, FS_RemoveElement
    <2>3. Cardinality(G) \in Nat
      BY <2>2, FS_CardinalityType
    <2> QED BY <1>1, <1>5, <2>2, <2>3
  <1> QED BY <1>2, <1>3, <1>4, <1>5

\* The slots are finite, and so is every count of them.
LEMMA FiniteCounts ==
  ASSUME NEW P
  PROVE  IsFiniteSet(At(P)) /\ Cardinality(At(P)) \in Nat
  <1>1. IsFiniteSet(Slots)
    BY FS_Interval, ThreadsAssumption DEF Slots
  <1>2. At(P) \subseteq Slots
    BY DEF At
  <1> QED BY <1>1, <1>2, FS_Subset, FS_CardinalityType

\* A worker moves, and no other thread does.
LEMMA WorkerMove ==
  ASSUME BoundsInv, NEW w \in Slots, NEW from, NEW to, WorkerGoes(w, from, to), NEW P
  PROVE  /\ Cardinality(At(P)') \in Nat
         /\ Cardinality(At(P)') = Cardinality(At(P))
                + (IF to \in P THEN 1 ELSE 0) - (IF from \in P THEN 1 ELSE 0)
  <1>1. m_worker_threads[w] = from /\ m_worker_threads'[w] = to
    BY DEF WorkerGoes, BoundsInv, TypeOK
  <1>2. \A v \in Slots \ {w} : m_worker_threads'[v] = m_worker_threads[v]
    BY DEF WorkerGoes, BoundsInv, TypeOK
  <1>3. At(P) = Into(Slots, P, m_worker_threads) /\ At(P)' = Into(Slots, P, m_worker_threads')
    BY DEF At, Into
  <1>4. IsFiniteSet(Into(Slots, P, m_worker_threads))
    BY <1>3, FiniteCounts
  <1>5. IsFiniteSet(Into(Slots, P, m_worker_threads'))
    BY <1>2, <1>4, CountMove
  <1>6. Cardinality(Into(Slots, P, m_worker_threads')) =
            Cardinality(Into(Slots, P, m_worker_threads))
                + (IF m_worker_threads'[w] \in P THEN 1 ELSE 0)
                - (IF m_worker_threads[w] \in P THEN 1 ELSE 0)
    BY <1>2, <1>4, CountMove
  <1> QED BY <1>1, <1>3, <1>5, <1>6, FS_CardinalityType

nWorkers == Cardinality(Workers)
nChecking == Cardinality(Checking)
nPopping == Cardinality(Popping)
nPosting == Cardinality(Posting)

\* The two balances and the strengthening that PopFindsTask needs: the threads still to
\* leave have a token each besides those of the workers that are past the exit check.
Balanced ==
    /\ nWorkers = m_live_t + m_exit
    /\ m_task_sem + nChecking + nPopping + nPosting = Len(m_task_queue) + m_exit
    /\ m_exit <= m_task_sem + nChecking + nPosting

\* It does not bind a pool that is shut down, and the flag is never taken back.
BalanceInv == IsFiniteSet(Posting) /\ (~m_pool_shutdown => Balanced)

LEMMA CountTypes ==
  ASSUME IsFiniteSet(Posting)
  PROVE  nWorkers \in Nat /\ nChecking \in Nat /\ nPopping \in Nat /\ nPosting \in Nat
  BY FiniteCounts, FS_CardinalityType
     DEF nWorkers, nChecking, nPopping, nPosting, Workers, Checking, Popping

\* What a worker's step does to the three counts of workers.
LEMMA WorkerCounts ==
  ASSUME BoundsInv, NEW w \in Slots, NEW from, NEW to, WorkerGoes(w, from, to)
  PROVE  /\ nWorkers' = nWorkers
                + (IF to \in {"loop", "wait", "check", "checkExit", "leave", "pop", "run",
                              "astray"} THEN 1 ELSE 0)
                - (IF from \in {"loop", "wait", "check", "checkExit", "leave", "pop", "run",
                                "astray"} THEN 1 ELSE 0)
         /\ nChecking' = nChecking
                + (IF to \in {"check", "checkExit", "leave"} THEN 1 ELSE 0)
                - (IF from \in {"check", "checkExit", "leave"} THEN 1 ELSE 0)
         /\ nPopping' = nPopping
                + (IF to \in {"pop"} THEN 1 ELSE 0) - (IF from \in {"pop"} THEN 1 ELSE 0)
  BY WorkerMove DEF nWorkers, nChecking, nPopping, Workers, Checking, Popping

\* What a step that leaves call alone keeps of the calls that owe a token.
LEMMA PostingKept ==
  ASSUME UNCHANGED call
  PROVE  Posting' = Posting /\ nPosting' = nPosting
  BY DEF Posting, nPosting

LEMMA WorkersKept ==
  ASSUME UNCHANGED m_worker_threads
  PROVE  nWorkers' = nWorkers /\ nChecking' = nChecking /\ nPopping' = nPopping
  BY DEF nWorkers, nChecking, nPopping, Workers, Checking, Popping, At

\* A call of submit() moves on, and no other call does.
LEMMA CallCounts ==
  ASSUME BoundsInv, IsFiniteSet(Posting), NEW t \in Tasks, NEW to, Goes(t, to)
  PROVE  /\ IsFiniteSet(Posting')
         /\ nPosting' = nPosting + (IF to = "post" THEN 1 ELSE 0)
                                - (IF call[t] = "post" THEN 1 ELSE 0)
  <1> DEFINE P == {"post"}
  <1>1. call'[t] = to
    BY DEF Goes, BoundsInv, TypeOK
  <1>2. \A u \in Tasks \ {t} : call'[u] = call[u]
    BY DEF Goes, BoundsInv, TypeOK
  <1>3. /\ Posting = Into(Tasks, P, call) /\ Posting' = Into(Tasks, P, call')
        /\ \A place : place \in P <=> place = "post"
    BY DEF Posting, Into
  <1> HIDE DEF P
  <1>4. IsFiniteSet(Into(Tasks, P, call))
    BY <1>3
  <1>5. IsFiniteSet(Into(Tasks, P, call'))
    BY <1>2, <1>4, CountMove
  <1>6. Cardinality(Into(Tasks, P, call')) =
            Cardinality(Into(Tasks, P, call))
                + (IF call'[t] \in P THEN 1 ELSE 0) - (IF call[t] \in P THEN 1 ELSE 0)
    BY <1>2, <1>4, CountMove
  <1> QED BY <1>1, <1>3, <1>5, <1>6 DEF nPosting

\* A grown pool has one more worker, at the top of its loop.
LEMMA GrowCounts ==
  ASSUME BoundsInv, Grow
  PROVE  /\ \E more \in {0, 1} : nWorkers' = nWorkers + more /\ m_live_t' = m_live_t + more
         /\ nChecking' = nChecking /\ nPopping' = nPopping
  <1>1. CASE m_live_t < MaxThreads /\ FreeSlots # {}
    <2>1. PICK w \in FreeSlots :
              m_worker_threads' = [m_worker_threads EXCEPT ![w] = "loop"]
      BY <1>1 DEF Grow
    <2>2. m_live_t' = m_live_t + 1
      BY <1>1 DEF Grow
    <2>3. w \in Slots /\ WorkerGoes(w, "null", "loop")
      BY <2>1 DEF FreeSlots, WorkerGoes
    <2>4. nWorkers \in Nat /\ nChecking \in Nat /\ nPopping \in Nat
      BY FiniteCounts DEF nWorkers, nChecking, nPopping, Workers, Checking, Popping
    <2>5. nWorkers' = nWorkers + 1 /\ nChecking' = nChecking /\ nPopping' = nPopping
      BY <2>3, <2>4, WorkerCounts
    <2> QED BY <2>2, <2>4, <2>5 DEF BoundsInv, TypeOK
  <1>2. CASE ~(m_live_t < MaxThreads /\ FreeSlots # {})
    <2>1. UNCHANGED <<m_live_t, m_worker_threads>>
      BY <1>2 DEF Grow
    <2>2. nWorkers \in Nat
      BY FiniteCounts DEF nWorkers, Workers
    <2> QED BY <2>1, <2>2, WorkersKept DEF BoundsInv, TypeOK
  <1> QED BY <1>1, <1>2

LEMMA BalanceInit == Init => BalanceInv
  <1> SUFFICES ASSUME Init PROVE BalanceInv
    OBVIOUS
  <1> USE ThreadsAssumption DEF Init
  <1>1. Posting = {} /\ Checking = {} /\ Popping = {}
    BY DEF Posting, Checking, Popping, At
  <1>2. Workers = 0 .. MinThreads - 1
    BY DEF Workers, At, Slots
  <1>3. Cardinality(Workers) = MinThreads
    BY <1>2, FS_Interval
  <1>4. Cardinality({}) = 0 /\ IsFiniteSet({})
    BY FS_EmptySet
  <1>5. Len(m_task_queue) = 0
    OBVIOUS
  <1> QED BY <1>1, <1>3, <1>4, <1>5
          DEF BalanceInv, Balanced, nWorkers, nChecking, nPopping, nPosting

\* A call of submit() keeps the balance: a grown pool counts its thread, a pushed task is
\* covered by the token that the call owes, and then by the semaphore.
LEMMA BalanceSubmit ==
  ASSUME BoundsInv, BalanceInv, NEW t \in Tasks,
         Submit(t) \/ SubmitStep(t) \/ SubmitJoin(t)
  PROVE  BalanceInv'
  <1> USE DEF Balanced
  <1>1. IsFiniteSet(Posting) /\ (~m_pool_shutdown => Balanced)
    BY DEF BalanceInv
  <1>2. SUFFICES IsFiniteSet(Posting') /\ (~m_pool_shutdown => Balanced')
    BY DEF BalanceInv, Submit, SubmitStep, SubmitSize, SubmitGrow, SubmitPush,
           SubmitOverflow, SubmitFreedQueue, SubmitPost, SubmitJoin
  <1>3. nWorkers \in Nat /\ nChecking \in Nat /\ nPopping \in Nat /\ nPosting \in Nat
    BY <1>1, CountTypes
  <1>4. /\ m_live_t \in Nat /\ m_exit \in Int /\ m_task_sem \in Nat
        /\ m_task_queue \in Seq(Tasks) /\ Len(m_task_queue) \in Nat
    BY ThreadsAssumption, LenProperties DEF BoundsInv, TypeOK
  <1>5. ASSUME UNCHANGED <<poolVars, m_worker_threads>>,
               NEW to, to # "post", call[t] # "post", Goes(t, to)
        PROVE  IsFiniteSet(Posting') /\ (~m_pool_shutdown => Balanced')
    <2>1. IsFiniteSet(Posting') /\ nPosting' = nPosting
      BY <1>1, <1>3, <1>5, CallCounts
    <2> QED BY <1>1, <1>5, <2>1, WorkersKept DEF poolVars
  <1>6. CASE Submit(t) \/ SubmitSize(t) \/ (\E p \in Policies : SubmitOverflow(t, p))
             \/ SubmitFreedQueue(t) \/ SubmitJoin(t)
    <2>1. PICK to \in {"returned", "size", "astray", "grow", "push", "inline"} : Goes(t, to)
      BY <1>6 DEF Submit, SubmitSize, SubmitOverflow, SubmitFreedQueue, SubmitJoin
    <2>2. call[t] # "post" /\ UNCHANGED <<poolVars, m_worker_threads>>
      BY <1>6 DEF Submit, SubmitSize, SubmitOverflow, SubmitFreedQueue, SubmitJoin, threadVars
    <2> QED BY <1>5, <2>1, <2>2
  <1>7. CASE SubmitGrow(t)
    <2>1. CASE freed
      BY <1>5, <1>7, <2>1 DEF SubmitGrow, poolVars
    <2>2. CASE ~freed
      <3>1. Grow /\ Goes(t, "push") /\ call[t] = "grow"
            /\ UNCHANGED <<m_exit, m_task_queue, m_task_sem>>
        BY <1>7, <2>2 DEF SubmitGrow
      <3>2. IsFiniteSet(Posting') /\ nPosting' = nPosting
        BY <1>1, <1>3, <3>1, CallCounts
      <3>3. /\ \E more \in {0, 1} : nWorkers' = nWorkers + more /\ m_live_t' = m_live_t + more
            /\ nChecking' = nChecking /\ nPopping' = nPopping
        BY <3>1, GrowCounts
      <3>4. ~m_pool_shutdown => nWorkers' = m_live_t' + m_exit'
        BY <1>1, <1>3, <1>4, <3>1, <3>3
      <3>5. ~m_pool_shutdown => /\ m_task_sem' + nChecking' + nPopping' + nPosting'
                                      = Len(m_task_queue') + m_exit'
                                /\ m_exit' <= m_task_sem' + nChecking' + nPosting'
        BY <1>1, <3>1, <3>2, <3>3
      <3> QED BY <3>2, <3>4, <3>5
    <2> QED BY <2>1, <2>2
  <1>8. CASE SubmitPush(t)
    <2>1. /\ Goes(t, "post") /\ call[t] = "push"
          /\ UNCHANGED <<m_live_t, m_exit, m_task_sem, m_worker_threads>>
      BY <1>8 DEF SubmitPush, threadVars
    <2>2. Len(m_task_queue') = Len(m_task_queue) + 1
      BY <1>4, <1>8, AppendProperties DEF SubmitPush
    <2>3. IsFiniteSet(Posting') /\ nPosting' = nPosting + 1
      BY <1>1, <1>3, <2>1, CallCounts
    <2> QED BY <1>1, <1>3, <1>4, <2>1, <2>2, <2>3, WorkersKept
  <1>9. CASE SubmitPost(t)
    <2>1. /\ Goes(t, "returned") /\ call[t] = "post" /\ m_task_sem' = m_task_sem + 1
          /\ UNCHANGED <<m_live_t, m_exit, m_task_queue, m_worker_threads>>
      BY <1>9 DEF SubmitPost, threadVars
    <2>2. IsFiniteSet(Posting') /\ nPosting' = nPosting - 1
      BY <1>1, <1>3, <2>1, CallCounts
    <2> QED BY <1>1, <1>3, <1>4, <2>1, <2>2, WorkersKept
  <1> QED BY <1>6, <1>7, <1>8, <1>9 DEF SubmitStep

\* A worker's step keeps the balance: the token it takes covers it until it has popped a
\* task or has counted itself out.
LEMMA BalanceWorker ==
  ASSUME BoundsInv, BalanceInv, NEW w \in Slots, WorkerStep(w) \/ WorkerFinish(w)
  PROVE  BalanceInv'
  <1> USE DEF Balanced
  <1>1. IsFiniteSet(Posting) /\ (~m_pool_shutdown => Balanced)
    BY DEF BalanceInv
  <1>2. UNCHANGED <<call, m_pool_shutdown, m_live_t>>
    BY DEF WorkerStep, WorkerLoop, WorkerWait, WorkerCheck, WorkerCheckExit, WorkerLeave,
           WorkerEnd, WorkerPop, WorkerPopNothing, WorkerPopFreed, WorkerFinish,
           poolVars, callVars
  <1>3. IsFiniteSet(Posting') /\ nPosting' = nPosting
    BY <1>1, <1>2, PostingKept
  <1>4. SUFFICES ASSUME ~m_pool_shutdown PROVE Balanced'
    BY <1>2, <1>3 DEF BalanceInv
  <1>5. nWorkers \in Nat /\ nChecking \in Nat /\ nPopping \in Nat /\ nPosting \in Nat
    BY <1>1, CountTypes
  <1>6. /\ m_live_t \in Nat /\ m_exit \in Int /\ m_task_sem \in Nat
        /\ m_task_queue \in Seq(Tasks) /\ Len(m_task_queue) \in Nat
    BY ThreadsAssumption, LenProperties DEF BoundsInv, TypeOK
  <1>7. ~freed
    BY <1>4 DEF BoundsInv, PhaseInv
  <1>8. CASE WorkerLoop(w)
    <2>1. WorkerGoes(w, "loop", "wait") /\ UNCHANGED poolVars
      BY <1>4, <1>8 DEF WorkerLoop
    <2> QED BY <1>1, <1>3, <1>4, <1>5, <2>1, WorkerCounts DEF poolVars
  <1>9. CASE WorkerWait(w)
    <2>1. /\ WorkerGoes(w, "wait", "check") /\ m_task_sem' = m_task_sem - 1
          /\ UNCHANGED <<m_live_t, m_exit, m_task_queue>>
      BY <1>9 DEF WorkerWait
    <2> QED BY <1>1, <1>3, <1>4, <1>5, <1>6, <2>1, WorkerCounts
  <1>10. CASE WorkerCheck(w)
    <2>1. WorkerGoes(w, "check", "checkExit") /\ UNCHANGED poolVars
      BY <1>4, <1>10 DEF WorkerCheck
    <2> QED BY <1>1, <1>3, <1>4, <1>5, <2>1, WorkerCounts DEF poolVars
  <1>11. CASE WorkerCheckExit(w)
    <2>1. UNCHANGED poolVars
      BY <1>11 DEF WorkerCheckExit
    <2>2. CASE m_exit > 0
      <3>1. WorkerGoes(w, "checkExit", "leave")
        BY <1>11, <2>2 DEF WorkerCheckExit
      <3> QED BY <1>1, <1>3, <1>4, <1>5, <2>1, <3>1, WorkerCounts DEF poolVars
    <2>3. CASE ~(m_exit > 0)
      <3>1. WorkerGoes(w, "checkExit", "pop")
        BY <1>11, <2>3 DEF WorkerCheckExit
      <3>2. /\ nWorkers' = nWorkers /\ nChecking' = nChecking - 1
            /\ nPopping' = nPopping + 1
        BY <1>5, <3>1, WorkerCounts
      <3>3. nChecking' \in Nat
        BY <3>1, WorkerMove DEF nChecking, Checking
      <3> QED BY <1>1, <1>3, <1>4, <1>5, <1>6, <2>1, <2>3, <3>2, <3>3 DEF poolVars
    <2> QED BY <2>2, <2>3
  <1>12. CASE WorkerLeave(w)
    <2>1. /\ WorkerGoes(w, "leave", "exiting") /\ m_exit' = m_exit - 1
          /\ UNCHANGED <<m_live_t, m_task_sem, m_task_queue>>
      BY <1>7, <1>12 DEF WorkerLeave
    <2> QED BY <1>1, <1>3, <1>4, <1>5, <1>6, <2>1, WorkerCounts
  <1>13. CASE WorkerEnd(w)
    <2>1. WorkerGoes(w, "exiting", "done") /\ UNCHANGED poolVars
      BY <1>13 DEF WorkerEnd
    <2> QED BY <1>1, <1>3, <1>4, <1>5, <2>1, WorkerCounts DEF poolVars
  <1>14. CASE WorkerPop(w)
    <2>1. /\ WorkerGoes(w, "pop", "run") /\ m_task_queue' = Tail(m_task_queue)
          /\ UNCHANGED <<m_live_t, m_exit, m_task_sem>>
      BY <1>14 DEF WorkerPop
    <2>2. Len(m_task_queue') = Len(m_task_queue) - 1
      BY <1>6, <1>14, <2>1, HeadTailProperties DEF WorkerPop
    <2>3. nWorkers' = nWorkers /\ nChecking' = nChecking /\ nPopping' = nPopping - 1
      BY <1>5, <2>1, WorkerCounts
    <2> QED BY <1>1, <1>3, <1>4, <1>5, <1>6, <2>1, <2>2, <2>3
  <1>15. CASE WorkerPopNothing(w)
    <2>1. WorkerGoes(w, "pop", "loop") /\ Len(m_task_queue) = 0
      BY <1>15 DEF WorkerPopNothing
    <2>2. nPopping' = nPopping - 1
      BY <1>5, <2>1, WorkerCounts
    <2>3. nPopping' \in Nat
      BY <2>1, WorkerMove DEF nPopping, Popping
    \* A worker at pop has a token that is for a task: the queue is not empty.
    <2> QED BY <1>1, <1>4, <1>5, <1>6, <2>1, <2>2, <2>3
  <1>16. CASE WorkerPopFreed(w)
    BY <1>7, <1>16 DEF WorkerPopFreed
  <1>17. CASE WorkerFinish(w)
    <2>1. WorkerGoes(w, "run", "loop") /\ UNCHANGED poolVars
      BY <1>17 DEF WorkerFinish
    <2> QED BY <1>1, <1>3, <1>4, <1>5, <2>1, WorkerCounts DEF poolVars
  <1> QED BY <1>8, <1>9, <1>10, <1>11, <1>12, <1>13, <1>14, <1>15, <1>16, <1>17
          DEF WorkerStep

\* A slot that is cleared belonged to no worker.
LEMMA CleanupCounts ==
  ASSUME MasterCleanup
  PROVE  nWorkers' = nWorkers /\ nChecking' = nChecking /\ nPopping' = nPopping
  <1>1. /\ Workers' = Workers /\ Checking' = Checking /\ Popping' = Popping
    BY DEF MasterCleanup, Workers, Checking, Popping, At
  <1> QED BY <1>1 DEF nWorkers, nChecking, nPopping

\* A step of the master keeps the balance: what it tells to leave it gives a token.
LEMMA BalanceMaster ==
  ASSUME BoundsInv, BalanceInv, MasterStep
  PROVE  BalanceInv'
  <1> USE DEF Balanced
  <1>1. IsFiniteSet(Posting) /\ (~m_pool_shutdown => Balanced)
    BY DEF BalanceInv
  <1>2. UNCHANGED <<call, m_pool_shutdown>>
    BY DEF MasterStep, MasterTop, MasterTension, MasterGrow, MasterCleanup, MasterIdle,
           MasterReclaim, MasterExitAll, MasterPost, MasterDrain, callVars
  <1>3. IsFiniteSet(Posting') /\ nPosting' = nPosting
    BY <1>1, <1>2, PostingKept
  <1>4. SUFFICES ASSUME ~m_pool_shutdown PROVE Balanced'
    BY <1>2, <1>3 DEF BalanceInv
  <1>5. nWorkers \in Nat /\ nChecking \in Nat /\ nPopping \in Nat /\ nPosting \in Nat
    BY <1>1, CountTypes
  <1>6. m_live_t \in Nat /\ m_exit \in Int /\ m_task_sem \in Nat
    BY ThreadsAssumption DEF BoundsInv, TypeOK
  <1>7. master \in {"top", "tension", "grow", "cleanup", "idle", "reclaim"}
    BY <1>4 DEF BoundsInv, PhaseInv
  <1>8. CASE MasterTop \/ MasterTension \/ MasterIdle
    <2>1. UNCHANGED poolVars /\ UNCHANGED m_worker_threads
      BY <1>8 DEF MasterTop, MasterTension, MasterIdle, threadVars
    <2> QED BY <1>1, <1>3, <1>4, <2>1, WorkersKept DEF poolVars
  <1>9. CASE MasterGrow
    <2>1. Grow /\ UNCHANGED <<m_exit, m_task_queue, m_task_sem>>
      BY <1>9 DEF MasterGrow
    <2>2. /\ \E more \in {0, 1} : nWorkers' = nWorkers + more /\ m_live_t' = m_live_t + more
          /\ nChecking' = nChecking /\ nPopping' = nPopping
      BY <2>1, GrowCounts
    <2>3. nWorkers' = m_live_t' + m_exit'
      BY <1>1, <1>4, <1>5, <1>6, <2>1, <2>2
    <2> QED BY <1>1, <1>3, <1>4, <2>1, <2>2, <2>3
  <1>10. CASE MasterCleanup
    BY <1>1, <1>3, <1>4, <1>10, CleanupCounts DEF MasterCleanup, poolVars
  <1>11. CASE MasterReclaim
    <2>1. /\ m_exit' = m_exit + 1 /\ m_task_sem' = m_task_sem + 1
          /\ m_live_t' = m_live_t - 1 /\ UNCHANGED <<m_task_queue, m_worker_threads>>
      BY <1>11 DEF MasterReclaim, threadVars
    <2>2. Len(m_task_queue') = Len(m_task_queue) /\ Len(m_task_queue) \in Nat
      BY <2>1, LenProperties DEF BoundsInv, TypeOK
    <2> QED BY <1>1, <1>3, <1>4, <1>5, <1>6, <2>1, <2>2, WorkersKept
  <1>12. CASE MasterExitAll \/ MasterPost \/ MasterDrain
    BY <1>7, <1>12 DEF MasterExitAll, MasterPost, MasterDrain, MasterGoes
  <1> QED BY <1>8, <1>9, <1>10, <1>11, <1>12 DEF MasterStep

LEMMA BalanceStep == BoundsInv /\ BalanceInv /\ [Next]_vars => BalanceInv'
  <1> SUFFICES ASSUME BoundsInv, BalanceInv, [Next]_vars PROVE BalanceInv'
    OBVIOUS
  <1>1. CASE Shutdown
    BY <1>1, PostingKept DEF Shutdown, BalanceInv, callVars
  <1>2. ASSUME UNCHANGED <<poolVars, m_worker_threads, call, m_pool_shutdown>>
        PROVE  BalanceInv'
    BY <1>2, PostingKept, WorkersKept DEF BalanceInv, Balanced, poolVars
  <1>3. CASE ShutdownFree \/ UNCHANGED vars
    BY <1>2, <1>3 DEF ShutdownFree, vars, threadVars, callVars
  <1> QED BY <1>1, <1>3, BalanceSubmit, BalanceWorker, BalanceMaster DEF Next

LEMMA BalanceMeaning ==
  BoundsInv /\ BalanceInv => WorkerBalance /\ TokenBalance /\ PopFindsTask
  <1> SUFFICES ASSUME BoundsInv, BalanceInv PROVE WorkerBalance /\ TokenBalance /\ PopFindsTask
    OBVIOUS
  <1>1. WorkerBalance /\ TokenBalance
    BY DEF BalanceInv, Balanced, WorkerBalance, TokenBalance, nWorkers, nChecking,
           nPopping, nPosting
  <1>2. ASSUME ~m_pool_shutdown, NEW w \in Slots, m_worker_threads[w] = "pop"
        PROVE  m_task_queue # <<>>
    <2>1. w \in Popping
      BY <1>2 DEF Popping, At
    <2>2. IsFiniteSet(Popping)
      BY FiniteCounts DEF Popping
    <2>3. nPopping # 0
      BY <2>1, <2>2, FS_EmptySet DEF nPopping
    <2>4. nChecking \in Nat /\ nPopping \in Nat /\ nPosting \in Nat
      BY CountTypes DEF BalanceInv
    <2>5. Len(m_task_queue) # 0
      BY <1>2, <2>3, <2>4, LenProperties DEF BalanceInv, Balanced, BoundsInv, TypeOK
    <2> QED BY <2>5
  <1> QED BY <1>1, <1>2 DEF PopFindsTask

\* Live threads and threads told to leave are the threads that serve the pool, also when
\* the race for m_exit has made it negative.
THEOREM PoolWorkerBalance == Spec => []WorkerBalance
  BY BoundsInit, BoundsStep, BalanceInit, BalanceStep, BalanceMeaning, PTL DEF Spec

\* No token is lost and none is counted twice, whoever waits, pushes, posts or reclaims.
THEOREM PoolTokenBalance == Spec => []TokenBalance
  BY BoundsInit, BoundsStep, BalanceInit, BalanceStep, BalanceMeaning, PTL DEF Spec

\* A worker that is woken for a task finds one.
THEOREM PoolPopFindsTask == Spec => []PopFindsTask
  BY BoundsInit, BoundsStep, BalanceInit, BalanceStep, BalanceMeaning, PTL DEF Spec

--------------------------------------------------------------------------------
\* Tasks are started at most once and in order: the refinement of TaskPool

\* Where a task is: in one place of the queue, in the hands of one worker, or nowhere.
\* submit() is through with a task that is queued or held, and nobody has ended it.
Submitted(t) == call[t] \in {"post", "returned"} /\ outcome[t] = "none"

QueuedOnce ==
    /\ \A i, k \in 1 .. Len(m_task_queue) : m_task_queue[i] = m_task_queue[k] => i = k
    /\ \A i \in 1 .. Len(m_task_queue) : Submitted(m_task_queue[i])

HeldOnce ==
    /\ \A v, w \in Slots : holding[v] = holding[w] /\ holding[v] # NoTask => v = w
    /\ \A w \in Slots : holding[w] # NoTask => Submitted(holding[w])

NotBoth == \A i \in 1 .. Len(m_task_queue), w \in Slots : m_task_queue[i] # holding[w]

\* A task that has ended has left submit(), NEW_THREAD's join included.
EndedAfterSubmit == \A t \in Tasks : outcome[t] # "none" => call[t] \in {"post", "returned"}

TaskInv == QueuedOnce /\ HeldOnce /\ NotBoth /\ EndedAfterSubmit

\* Only the queue, the held tasks, the calls and the outcomes matter.
LEMMA TaskKept ==
  ASSUME TaskInv, UNCHANGED <<m_task_queue, holding, callVars>>
  PROVE  TaskInv'
  BY DEF TaskInv, QueuedOnce, HeldOnce, NotBoth, EndedAfterSubmit, Submitted, callVars

\* A call goes on, before it has handed its task over.
LEMMA TaskGoes ==
  ASSUME BoundsInv, TaskInv, NEW t \in Tasks, NEW to,
         call[t] \notin {"post", "returned"} \/ to = "returned", Goes(t, to),
         UNCHANGED <<m_task_queue, holding>>,
         \/ outcome' = outcome
         \/ /\ call[t] \notin {"post", "returned"} /\ to = "returned"
            /\ \E how \in {"ran", "refused"} : outcome' = [outcome EXCEPT ![t] = how]
  PROVE  TaskInv'
  <1>1. call'[t] = to /\ \A u \in Tasks \ {t} : call'[u] = call[u] /\ outcome'[u] = outcome[u]
    BY DEF Goes, BoundsInv, TypeOK
  <1>2. call[t] \in {"post", "returned"} => outcome'[t] = outcome[t] /\ to = "returned"
    OBVIOUS
  <1>3. \A u \in Tasks : Submitted(u) => Submitted(u)'
    BY <1>1, <1>2 DEF Submitted
  <1>4. outcome'[t] # "none" => to \in {"post", "returned"}
    BY <1>1, <1>2 DEF TaskInv, EndedAfterSubmit, BoundsInv, TypeOK
  <1>5. QueuedOnce'
    BY <1>3 DEF TaskInv, QueuedOnce, BoundsInv, TypeOK
  <1>6. HeldOnce'
    BY <1>3 DEF TaskInv, HeldOnce, BoundsInv, TypeOK
  <1>7. NotBoth'
    BY DEF TaskInv, NotBoth
  <1>8. EndedAfterSubmit'
    BY <1>1, <1>4 DEF TaskInv, EndedAfterSubmit
  <1> QED BY <1>5, <1>6, <1>7, <1>8 DEF TaskInv

LEMMA TaskInit == Init => TaskInv
  BY DEF Init, TaskInv, QueuedOnce, HeldOnce, NotBoth, EndedAfterSubmit

\* A step of a call of submit().
LEMMA TaskSubmit ==
  ASSUME BoundsInv, TaskInv, NEW t \in Tasks, Submit(t) \/ SubmitStep(t) \/ SubmitJoin(t)
  PROVE  TaskInv'
  <1>1. CASE Submit(t)
    BY <1>1, TaskGoes DEF Submit, poolVars, threadVars
  <1>2. CASE SubmitSize(t)
    <2>1. PICK to : Goes(t, to)
      BY <1>2 DEF SubmitSize
    <2> QED BY <1>2, <2>1, TaskGoes DEF SubmitSize, poolVars, threadVars
  <1>3. CASE SubmitGrow(t)
    <2>1. PICK to : Goes(t, to)
      BY <1>3 DEF SubmitGrow
    <2> QED BY <1>3, <2>1, TaskGoes DEF SubmitGrow
  <1>4. CASE SubmitPush(t)
    <2> DEFINE q == m_task_queue
    <2>1. /\ q \in Seq(Tasks) /\ Len(q) \in Nat
          /\ Len(q') = Len(q) + 1 /\ q'[Len(q) + 1] = t
          /\ \A i \in 1 .. Len(q) : q'[i] = q[i] /\ q[i] \in Tasks
      BY <1>4, AppendProperties, LenProperties DEF SubmitPush, BoundsInv, TypeOK
    <2>2. /\ call'[t] = "post" /\ call[t] = "push" /\ outcome' = outcome /\ holding' = holding
          /\ \A u \in Tasks \ {t} : call'[u] = call[u]
      BY <1>4 DEF SubmitPush, Goes, threadVars, BoundsInv, TypeOK
    <2>3. outcome[t] = "none" /\ Submitted(t)'
      BY <2>2 DEF TaskInv, EndedAfterSubmit, Submitted
    <2>4. \A u \in Tasks : Submitted(u) => u # t /\ Submitted(u)'
      BY <2>2 DEF Submitted
    <2>5. \A i \in 1 .. Len(q) : q[i] # t /\ Submitted(q[i])'
      BY <2>1, <2>4 DEF TaskInv, QueuedOnce
    <2>6. \A w \in Slots : holding[w] # t
      BY <2>4, NoTaskAssumption DEF TaskInv, HeldOnce
    <2>7. \A i \in 1 .. Len(q') : i \in 1 .. Len(q) \/ i = Len(q) + 1
      BY <2>1
    <2>8. QueuedOnce'
      BY <2>1, <2>3, <2>5, <2>7 DEF TaskInv, QueuedOnce
    <2>9. HeldOnce'
      BY <2>2, <2>4 DEF TaskInv, HeldOnce, BoundsInv, TypeOK
    <2>10. NotBoth'
      BY <2>1, <2>2, <2>6, <2>7 DEF TaskInv, NotBoth
    <2>11. EndedAfterSubmit'
      BY <2>2 DEF TaskInv, EndedAfterSubmit
    <2> QED BY <2>8, <2>9, <2>10, <2>11 DEF TaskInv
  <1>5. ASSUME NEW p \in Policies, SubmitOverflow(t, p) PROVE TaskInv'
    <2>1. CASE p = "NEW_THREAD"
      BY <1>5, <2>1, TaskGoes DEF SubmitOverflow, poolVars, threadVars
    <2>2. CASE p # "NEW_THREAD"
      BY <1>5, <2>2, TaskGoes DEF SubmitOverflow, poolVars, threadVars
    <2> QED BY <2>1, <2>2
  <1>6. CASE SubmitFreedQueue(t)
    BY <1>6, TaskGoes DEF SubmitFreedQueue, poolVars, threadVars
  <1>7. CASE SubmitPost(t)
    BY <1>7, TaskGoes DEF SubmitPost, threadVars
  <1>8. CASE SubmitJoin(t)
    BY <1>8, TaskGoes DEF SubmitJoin, poolVars, threadVars
  <1> QED BY <1>1, <1>2, <1>3, <1>4, <1>5, <1>6, <1>7, <1>8 DEF SubmitStep

\* The head of the queue is a task nobody holds, and it is not in the tail.
LEMMA HeadOut ==
  ASSUME BoundsInv, TaskInv, m_task_queue # <<>>
  PROVE  /\ Head(m_task_queue) \in Tasks /\ Submitted(Head(m_task_queue))
         /\ \A w \in Slots : holding[w] # Head(m_task_queue)
         /\ Head(m_task_queue) = m_task_queue[1] /\ Len(m_task_queue) \in Nat \ {0}
         /\ Len(Tail(m_task_queue)) = Len(m_task_queue) - 1
         /\ \A i \in 1 .. Len(Tail(m_task_queue)) :
               /\ i + 1 \in 1 .. Len(m_task_queue)
               /\ Tail(m_task_queue)[i] = m_task_queue[i + 1]
               /\ Tail(m_task_queue)[i] \in Tasks
               /\ Tail(m_task_queue)[i] # Head(m_task_queue)
  <1> DEFINE q == m_task_queue
  <1>1. q \in Seq(Tasks) /\ q # <<>>
    BY DEF BoundsInv, TypeOK
  <1>2. /\ Head(q) \in Tasks /\ Head(q) = q[1] /\ Len(q) \in Nat \ {0}
        /\ Len(Tail(q)) = Len(q) - 1
        /\ \A i \in 1 .. Len(Tail(q)) : Tail(q)[i] = q[i + 1]
    BY <1>1, HeadTailProperties, EmptySeq, LenProperties
  <1>3. \A i \in 1 .. Len(Tail(q)) : i + 1 \in 1 .. Len(q) /\ i + 1 # 1
    BY <1>2
  <1>4. 1 \in 1 .. Len(q)
    BY <1>2
  <1>5. \A i \in 1 .. Len(q) : q[i] \in Tasks
    BY <1>1
  <1> QED BY <1>2, <1>3, <1>4, <1>5 DEF TaskInv, QueuedOnce, NotBoth

\* A step of a worker: what it pops it holds, and alone; what it has run nobody holds.
LEMMA TaskWorker ==
  ASSUME BoundsInv, TaskInv, NEW w \in Slots, WorkerStep(w) \/ WorkerFinish(w)
  PROVE  TaskInv'
  <1>1. CASE WorkerPop(w)
    <2> DEFINE q == m_task_queue
    <2>1. /\ q' = Tail(q) /\ q # <<>> /\ callVars' = callVars
          /\ holding' = [holding EXCEPT ![w] = Head(q)]
      BY <1>1 DEF WorkerPop
    <2>2. \A u : Submitted(u)' <=> Submitted(u)
      BY <2>1 DEF Submitted, callVars
    <2>3. holding'[w] = Head(q) /\ \A v \in Slots \ {w} : holding'[v] = holding[v]
      BY <2>1 DEF BoundsInv, TypeOK
    <2>4. QueuedOnce'
      BY <2>1, <2>2, HeadOut DEF TaskInv, QueuedOnce
    <2>5. HeldOnce'
      BY <2>1, <2>2, <2>3, HeadOut DEF TaskInv, HeldOnce
    <2>6. NotBoth'
      BY <2>1, <2>3, HeadOut DEF TaskInv, NotBoth
    <2>7. EndedAfterSubmit'
      BY <2>1 DEF TaskInv, EndedAfterSubmit, callVars
    <2> QED BY <2>4, <2>5, <2>6, <2>7 DEF TaskInv
  <1>2. CASE WorkerFinish(w)
    <2>1. /\ holding[w] \in Tasks /\ UNCHANGED <<m_task_queue, call>>
          /\ holding' = [holding EXCEPT ![w] = NoTask]
          /\ outcome' = [outcome EXCEPT ![holding[w]] = "ran"]
      BY <1>2 DEF WorkerFinish, WorkerGoes, poolVars, BoundsInv, TypeOK
    <2>2. \A u \in Tasks : Submitted(u) /\ u # holding[w] => Submitted(u)'
      BY <2>1 DEF Submitted, BoundsInv, TypeOK
    <2>3. holding'[w] = NoTask /\ \A v \in Slots \ {w} : holding'[v] = holding[v]
      BY <2>1 DEF BoundsInv, TypeOK
    <2>4. \A i \in 1 .. Len(m_task_queue) : m_task_queue[i] \in Tasks
      BY DEF BoundsInv, TypeOK
    <2>5. QueuedOnce'
      BY <2>1, <2>2, <2>4 DEF TaskInv, QueuedOnce, NotBoth
    <2>6. holding \in [Slots -> Tasks \cup {NoTask}]
      BY DEF BoundsInv, TypeOK
    <2>7. HeldOnce'
      BY <2>1, <2>2, <2>3, <2>6, NoTaskAssumption DEF TaskInv, HeldOnce
    <2>8. NotBoth'
      BY <2>1, <2>3, <2>4, NoTaskAssumption DEF TaskInv, NotBoth
    <2>9. EndedAfterSubmit'
      BY <2>1, NoTaskAssumption
         DEF TaskInv, EndedAfterSubmit, HeldOnce, Submitted, BoundsInv, TypeOK
    <2> QED BY <2>5, <2>7, <2>8, <2>9 DEF TaskInv
  <1>3. ASSUME ~WorkerPop(w), ~WorkerFinish(w)
        PROVE  UNCHANGED <<m_task_queue, holding, callVars>>
    BY <1>3 DEF WorkerStep, WorkerLoop, WorkerWait, WorkerCheck, WorkerCheckExit, WorkerLeave,
                WorkerEnd, WorkerPopNothing, WorkerPopFreed, poolVars
  <1> QED BY <1>1, <1>2, <1>3, TaskKept

\* A step of the master: only its drain touches a task.
LEMMA TaskMaster ==
  ASSUME BoundsInv, TaskInv, MasterStep
  PROVE  TaskInv'
  <1>1. CASE MasterDrain /\ m_task_queue # <<>>
    <2> DEFINE q == m_task_queue
    <2>1. /\ q' = Tail(q) /\ q # <<>> /\ UNCHANGED <<call, holding>>
          /\ outcome' = [outcome EXCEPT ![Head(q)] = "dropped"]
      BY <1>1 DEF MasterDrain, threadVars
    <2>2. \A u \in Tasks : Submitted(u) /\ u # Head(q) => Submitted(u)'
      BY <2>1 DEF Submitted, BoundsInv, TypeOK
    <2>3. holding \in [Slots -> Tasks \cup {NoTask}]
      BY DEF BoundsInv, TypeOK
    <2>4. QueuedOnce'
      BY <2>1, <2>2, HeadOut DEF TaskInv, QueuedOnce
    <2>5. HeldOnce'
      BY <2>1, <2>2, <2>3, HeadOut DEF TaskInv, HeldOnce
    <2>6. NotBoth'
      BY <2>1, HeadOut DEF TaskInv, NotBoth
    <2>7. EndedAfterSubmit'
      BY <2>1, HeadOut DEF TaskInv, EndedAfterSubmit, Submitted, BoundsInv, TypeOK
    <2> QED BY <2>4, <2>5, <2>6, <2>7 DEF TaskInv
  <1>2. ASSUME ~(MasterDrain /\ m_task_queue # <<>>)
        PROVE  UNCHANGED <<m_task_queue, holding, callVars>>
    BY <1>2 DEF MasterStep, MasterTop, MasterTension, MasterGrow, MasterCleanup, MasterIdle,
                MasterReclaim, MasterExitAll, MasterPost, MasterDrain, poolVars, threadVars,
                callVars
  <1> QED BY <1>1, <1>2, TaskKept

LEMMA TaskStep == BoundsInv /\ TaskInv /\ [Next]_vars => TaskInv'
  <1> SUFFICES ASSUME BoundsInv, TaskInv, [Next]_vars PROVE TaskInv'
    OBVIOUS
  <1>1. CASE Shutdown \/ ShutdownFree \/ UNCHANGED vars
    BY <1>1, TaskKept DEF Shutdown, ShutdownFree, vars, poolVars, threadVars
  <1> QED BY <1>1, TaskSubmit, TaskWorker, TaskMaster DEF Next

\* What the abstract pool says of a task, place by place.
LEMMA StageOf ==
  ASSUME NEW t \in Tasks
  PROVE  /\ outcome[t] # "none" => Stage[t] = outcome[t]
         /\ outcome[t] = "none" /\ (t \in Held \/ call[t] = "inline") => Stage[t] = "running"
         /\ outcome[t] = "none" /\ t \notin Held /\ call[t] # "inline" /\ t \in Queued
               => Stage[t] = "pending"
         /\ outcome[t] = "none" /\ t \notin Held /\ call[t] # "inline" /\ t \notin Queued
               => Stage[t] = "new"
  BY DEF Stage

\* The stage of a task does not change when none of the four does.
Same(u) ==
    /\ outcome'[u] = outcome[u]
    /\ (u \in Held)' <=> u \in Held
    /\ (u \in Queued)' <=> u \in Queued
    /\ (call'[u] = "inline") <=> (call[u] = "inline")

LEMMA StageKept ==
  ASSUME \A u \in Tasks : Same(u)
  PROVE  Stage' = Stage
  BY DEF Stage, Same

LEMMA StageMoves ==
  ASSUME NEW t \in Tasks, NEW to, \A u \in Tasks \ {t} : Same(u), Stage'[t] = to
  PROVE  Stage' = [Stage EXCEPT ![t] = to]
  <1>1. \A u \in Tasks \ {t} : Stage'[u] = Stage[u]
    BY DEF Stage, Same
  <1>2. Stage = [u \in Tasks |-> Stage[u]] /\ Stage' = [u \in Tasks |-> Stage'[u]]
    BY DEF Stage
  <1> QED BY <1>1, <1>2

\* Tasks stay where they are when queue and slots do.
LEMMA PlacesKept ==
  /\ m_task_queue' = m_task_queue => Queued' = Queued
  /\ holding' = holding => Held' = Held
  BY DEF Queued, Held

LEMMA MapInit == Init => Abstract!Init
  <1> SUFFICES ASSUME Init PROVE Abstract!Init
    OBVIOUS
  <1>1. ASSUME NEW t \in Tasks PROVE Stage[t] = "new"
    BY NoTaskAssumption DEF Init, Stage, Held, Queued
  <1>2. Stage = [t \in Tasks |-> "new"]
    BY <1>1 DEF Stage
  <1> QED BY <1>2 DEF Init, Abstract!Init

\* A step that only moves a call on, towards or away from neither a queue nor a thread.
LEMMA MapGoes ==
  ASSUME BoundsInv, NEW t \in Tasks, NEW to, Goes(t, to), to # "inline", call[t] # "inline",
         UNCHANGED <<m_task_queue, holding, outcome, m_pool_shutdown>>
  PROVE  UNCHANGED <<m_task_queue, Stage, m_pool_shutdown>>
  <1>1. \A u \in Tasks : Same(u)
    BY PlacesKept DEF Same, Goes, BoundsInv, TypeOK
  <1> QED BY <1>1, StageKept

\* What is true of a task that submit() still has in its hands.
LEMMA NewTask ==
  ASSUME BoundsInv, TaskInv, NEW t \in Tasks, call[t] \notin {"post", "returned"}
  PROVE  outcome[t] = "none" /\ t \notin Held /\ t \notin Queued
  <1>1. outcome[t] = "none" /\ ~Submitted(t)
    BY DEF TaskInv, EndedAfterSubmit, Submitted
  <1>2. t \notin Held
    BY <1>1, NoTaskAssumption DEF TaskInv, HeldOnce, Held
  <1>3. DOMAIN m_task_queue = 1 .. Len(m_task_queue)
    BY DEF BoundsInv, TypeOK
  <1>4. t \notin Queued
    BY <1>1, <1>3 DEF TaskInv, QueuedOnce, Queued
  <1> QED BY <1>1, <1>2, <1>4

\* submit(): refused, accepted, started on a thread of its own, or on its way.
LEMMA MapRefused ==
  ASSUME BoundsInv, TaskInv, NEW t \in Tasks, call[t] \in {"new", "push"}, Goes(t, "returned"),
         outcome' = [outcome EXCEPT ![t] = "refused"],
         UNCHANGED <<m_task_queue, holding, m_pool_shutdown>>
  PROVE  Abstract!Refuse(t)
  <1>1. Stage[t] = "new"
    BY NewTask, StageOf
  <1>2. \A u \in Tasks \ {t} : Same(u)
    BY PlacesKept DEF Same, Goes, BoundsInv, TypeOK
  <1>3. Stage'[t] = "refused"
    BY DEF Stage, BoundsInv, TypeOK
  <1> QED BY <1>1, <1>2, <1>3, StageMoves DEF Abstract!Refuse, Abstract!Moves

LEMMA MapSubmit ==
  ASSUME BoundsInv, TaskInv, NEW t \in Tasks, Submit(t) \/ SubmitStep(t) \/ SubmitJoin(t)
  PROVE  Abstract!Next \/ UNCHANGED <<m_task_queue, Stage, m_pool_shutdown>>
  <1>1. CASE Submit(t)
    <2>1. CASE m_pool_shutdown
      BY <1>1, <2>1, MapRefused DEF Submit, poolVars, threadVars, Abstract!Next
    <2>2. CASE ~m_pool_shutdown
      BY <1>1, <2>2, MapGoes DEF Submit, poolVars, threadVars
    <2> QED BY <2>1, <2>2
  <1>2. CASE SubmitSize(t)
    <2>1. PICK to \in {"astray", "grow", "push"} : Goes(t, to)
      BY <1>2 DEF SubmitSize
    <2> QED BY <1>2, <2>1, MapGoes DEF SubmitSize, poolVars, threadVars
  <1>3. CASE SubmitGrow(t)
    <2>1. PICK to \in {"astray", "push"} : Goes(t, to)
      BY <1>3 DEF SubmitGrow
    <2> QED BY <1>3, <2>1, MapGoes DEF SubmitGrow
  <1>4. CASE SubmitPush(t)
    <2> DEFINE q == m_task_queue
    <2>1. /\ call[t] = "push" /\ Goes(t, "post") /\ q' = Append(q, t)
          /\ UNCHANGED <<holding, outcome, m_pool_shutdown>>
      BY <1>4 DEF SubmitPush, threadVars
    <2>2. Stage[t] = "new" /\ outcome[t] = "none" /\ t \notin Held
      BY <2>1, NewTask, StageOf
    <2>3. /\ q \in Seq(Tasks) /\ Len(q) \in Nat /\ DOMAIN q = 1 .. Len(q)
          /\ q' \in Seq(Tasks) /\ Len(q') = Len(q) + 1 /\ q'[Len(q) + 1] = t
          /\ \A i \in 1 .. Len(q) : q'[i] = q[i]
      BY <2>1, AppendProperties, LenProperties DEF BoundsInv, TypeOK
    <2>4. DOMAIN q' = 1 .. Len(q) + 1
      BY <2>3
    <2>5. Queued' = Queued \cup {t}
      BY <2>3, <2>4 DEF Queued
    <2>6. \A u \in Tasks \ {t} : Same(u)
      BY <2>1, <2>5, PlacesKept DEF Same, Goes, BoundsInv, TypeOK
    <2>7. Stage'[t] = "pending"
      BY <2>1, <2>2, <2>5, PlacesKept DEF Stage, Goes, BoundsInv, TypeOK
    <2>8. Abstract!Accept(t)
      BY <2>1, <2>2, <2>6, <2>7, StageMoves DEF Abstract!Accept, Abstract!Moves
    <2> QED BY <2>8 DEF Abstract!Next
  <1>5. ASSUME NEW p \in Policies, SubmitOverflow(t, p)
        PROVE  Abstract!Next
    <2>1. call[t] = "push" /\ UNCHANGED <<m_task_queue, holding, m_pool_shutdown>>
      BY <1>5 DEF SubmitOverflow, poolVars, threadVars
    <2>2. CASE p = "NEW_THREAD"
      <3>1. Goes(t, "inline") /\ outcome' = outcome
        BY <1>5, <2>2 DEF SubmitOverflow
      <3>2. Stage[t] = "new" /\ outcome[t] = "none"
        BY <2>1, NewTask, StageOf
      <3>3. \A u \in Tasks \ {t} : Same(u)
        BY <2>1, <3>1, PlacesKept DEF Same, Goes, BoundsInv, TypeOK
      <3>4. Stage'[t] = "running"
        BY <3>1, <3>2 DEF Stage, Goes, BoundsInv, TypeOK
      <3>5. Abstract!StartAtOnce(t)
        BY <2>1, <3>2, <3>3, <3>4, StageMoves DEF Abstract!StartAtOnce, Abstract!Moves
      <3> QED BY <3>5 DEF Abstract!Next
    <2>3. CASE p # "NEW_THREAD"
      <3>1. Abstract!Refuse(t)
        BY <1>5, <2>1, <2>3, MapRefused DEF SubmitOverflow
      <3> QED BY <3>1 DEF Abstract!Next
    <2> QED BY <2>2, <2>3
  <1>6. CASE SubmitFreedQueue(t)
    BY <1>6, MapGoes DEF SubmitFreedQueue, poolVars, threadVars
  <1>7. CASE SubmitPost(t)
    BY <1>7, MapGoes DEF SubmitPost, threadVars
  <1>8. CASE SubmitJoin(t)
    <2>1. /\ call[t] = "inline" /\ Goes(t, "returned")
          /\ outcome' = [outcome EXCEPT ![t] = "ran"]
          /\ UNCHANGED <<m_task_queue, holding, m_pool_shutdown>>
      BY <1>8 DEF SubmitJoin, poolVars, threadVars
    <2>2. Stage[t] = "running"
      BY <2>1, NewTask, StageOf
    <2>3. \A u \in Tasks \ {t} : Same(u)
      BY <2>1, PlacesKept DEF Same, Goes, BoundsInv, TypeOK
    <2>4. Stage'[t] = "ran"
      BY <2>1 DEF Stage, BoundsInv, TypeOK
    <2>5. Abstract!Finish(t)
      BY <2>1, <2>2, <2>3, <2>4, StageMoves DEF Abstract!Finish, Abstract!Moves
    <2> QED BY <2>5 DEF Abstract!Next
  <1> QED BY <1>1, <1>2, <1>3, <1>4, <1>5, <1>6, <1>7, <1>8 DEF SubmitStep

\* The queue without its head.
LEMMA QueuedTail ==
  ASSUME BoundsInv, TaskInv, m_task_queue # <<>>, m_task_queue' = Tail(m_task_queue)
  PROVE  Queued' = Queued \ {Head(m_task_queue)}
  <1> DEFINE q == m_task_queue
             h == Head(q)
  <1>1. /\ h = q[1] /\ Len(q) \in Nat \ {0} /\ Len(q') = Len(q) - 1
        /\ \A i \in 1 .. Len(q') : q'[i] = q[i + 1] /\ q'[i] # h
    BY HeadOut
  <1>2. q \in Seq(Tasks) /\ DOMAIN q = 1 .. Len(q)
    BY DEF BoundsInv, TypeOK
  <1>3. q' \in Seq(Tasks)
    BY <1>2, HeadTailProperties
  <1>4. DOMAIN q' = 1 .. Len(q')
    BY <1>3
  <1>5. \A u \in Queued' : u \in Queued /\ u # h
    BY <1>1, <1>2, <1>4 DEF Queued
  <1>6. ASSUME NEW u \in Queued, u # h PROVE u \in Queued'
    <2>1. PICK k \in 1 .. Len(q) : u = q[k]
      BY <1>2 DEF Queued
    <2>2. k - 1 \in 1 .. Len(q') /\ q'[k - 1] = q[k - 1 + 1] /\ k - 1 + 1 = k
      BY <1>1, <1>6, <2>1
    <2> QED BY <1>4, <2>1, <2>2 DEF Queued
  <1> QED BY <1>5, <1>6

\* A worker starts the oldest task, or ends the one it holds; all else is unseen.
LEMMA MapWorker ==
  ASSUME BoundsInv, TaskInv, NEW w \in Slots, WorkerStep(w) \/ WorkerFinish(w)
  PROVE  Abstract!Next \/ UNCHANGED <<m_task_queue, Stage, m_pool_shutdown>>
  <1>1. CASE WorkerPop(w)
    <2> DEFINE t == Head(m_task_queue)
    <2>1. /\ m_task_queue # <<>> /\ m_task_queue' = Tail(m_task_queue)
          /\ holding' = [holding EXCEPT ![w] = t] /\ m_worker_threads[w] = "pop"
          /\ UNCHANGED <<call, outcome, m_pool_shutdown>>
      BY <1>1 DEF WorkerPop, WorkerGoes, callVars
    <2>2. t \in Tasks /\ Submitted(t) /\ t \notin Held /\ t \in Queued
      <3>1. 1 \in DOMAIN m_task_queue /\ t = m_task_queue[1]
        BY <2>1, HeadOut DEF BoundsInv, TypeOK
      <3> QED BY <2>1, <3>1, HeadOut DEF Held, Queued
    <2>3. Stage[t] = "pending"
      BY <2>2, StageOf DEF Submitted
    <2>4. holding[w] = NoTask /\ holding'[w] = t
          /\ \A v \in Slots \ {w} : holding'[v] = holding[v]
      BY <2>1 DEF BoundsInv, TypeOK
    <2>5. \A u \in Tasks : (u \in Held)' <=> u \in Held \/ u = t
      BY <2>4, NoTaskAssumption DEF Held
    <2>6. Queued' = Queued \ {t}
      BY <2>1, QueuedTail
    <2>7. \A u \in Tasks \ {t} : Same(u)
      BY <2>1, <2>5, <2>6 DEF Same
    <2>8. Stage'[t] = "running"
      BY <2>1, <2>2, <2>5 DEF Stage, Submitted
    <2>9. Stage' = [Stage EXCEPT ![t] = "running"]
      BY <2>2, <2>7, <2>8, StageMoves
    <2>10. Abstract!Start(t)
      BY <2>1, <2>3, <2>9 DEF Abstract!Start, Abstract!TakeOldest, Abstract!Moves
    <2> QED BY <2>2, <2>10 DEF Abstract!Next
  <1>2. CASE WorkerFinish(w)
    <2> DEFINE t == holding[w]
    <2>1. /\ holding' = [holding EXCEPT ![w] = NoTask]
          /\ outcome' = [outcome EXCEPT ![t] = "ran"]
          /\ UNCHANGED <<m_task_queue, call, m_pool_shutdown>>
      BY <1>2 DEF WorkerFinish, poolVars
    <2>2. t \in Tasks
      BY <1>2 DEF WorkerFinish, WorkerGoes, BoundsInv, TypeOK
    <2>3. Stage[t] = "running"
      BY <2>2, StageOf, NoTaskAssumption DEF TaskInv, HeldOnce, Submitted, Held
    <2>4. holding'[w] = NoTask /\ \A v \in Slots \ {w} : holding'[v] = holding[v]
      BY <2>1 DEF BoundsInv, TypeOK
    <2>5. \A u \in Tasks \ {t} : (u \in Held)' <=> u \in Held
      BY <2>4, NoTaskAssumption DEF Held
    <2>6. \A u \in Tasks \ {t} : Same(u)
      BY <2>1, <2>2, <2>5, PlacesKept DEF Same, BoundsInv, TypeOK
    <2>7. Stage'[t] = "ran"
      BY <2>1, <2>2 DEF Stage, BoundsInv, TypeOK
    <2>8. Stage' = [Stage EXCEPT ![t] = "ran"]
      BY <2>2, <2>6, <2>7, StageMoves
    <2>9. Abstract!Finish(t)
      BY <2>1, <2>3, <2>8 DEF Abstract!Finish, Abstract!Moves
    <2> QED BY <2>2, <2>9 DEF Abstract!Next
  <1>3. ASSUME ~WorkerPop(w), ~WorkerFinish(w)
        PROVE  UNCHANGED <<m_task_queue, holding, callVars, m_pool_shutdown>>
    BY <1>3 DEF WorkerStep, WorkerLoop, WorkerWait, WorkerCheck, WorkerCheckExit, WorkerLeave,
                WorkerEnd, WorkerPopNothing, WorkerPopFreed, poolVars
  <1>4. ASSUME UNCHANGED <<m_task_queue, holding, callVars>> PROVE Stage' = Stage
    BY <1>4 DEF Stage, Held, Queued, callVars
  <1> QED BY <1>1, <1>2, <1>3, <1>4

\* The master gives up queued tasks, in a shutdown; all else is unseen.
LEMMA MapMaster ==
  ASSUME BoundsInv, TaskInv, MasterStep
  PROVE  Abstract!Next \/ UNCHANGED <<m_task_queue, Stage, m_pool_shutdown>>
  <1>1. CASE MasterDrain /\ m_task_queue # <<>>
    <2> DEFINE t == Head(m_task_queue)
    <2>1. /\ m_task_queue # <<>> /\ m_task_queue' = Tail(m_task_queue)
          /\ outcome' = [outcome EXCEPT ![t] = "dropped"] /\ master = "drain"
          /\ UNCHANGED <<call, holding, m_pool_shutdown>>
      BY <1>1 DEF MasterDrain, threadVars
    <2>2. t \in Tasks /\ Submitted(t) /\ t \notin Held /\ t \in Queued
      <3>1. 1 \in DOMAIN m_task_queue /\ t = m_task_queue[1]
        BY <2>1, HeadOut DEF BoundsInv, TypeOK
      <3> QED BY <2>1, <3>1, HeadOut DEF Held, Queued
    <2>3. Stage[t] = "pending"
      BY <2>2, StageOf DEF Submitted
    <2>4. Queued' = Queued \ {t}
      BY <2>1, QueuedTail
    <2>5. \A u \in Tasks \ {t} : Same(u)
      BY <2>1, <2>2, <2>4, PlacesKept DEF Same, BoundsInv, TypeOK
    <2>6. Stage'[t] = "dropped"
      BY <2>1, <2>2 DEF Stage, BoundsInv, TypeOK
    <2>7. Stage' = [Stage EXCEPT ![t] = "dropped"]
      BY <2>2, <2>5, <2>6, StageMoves
    <2>8. m_pool_shutdown
      BY <2>1 DEF BoundsInv, PhaseInv
    <2>9. Abstract!GiveUp(t)
      BY <2>1, <2>3, <2>7, <2>8 DEF Abstract!GiveUp, Abstract!TakeOldest, Abstract!Moves
    <2> QED BY <2>2, <2>9 DEF Abstract!Next
  <1>2. ASSUME ~(MasterDrain /\ m_task_queue # <<>>)
        PROVE  UNCHANGED <<m_task_queue, holding, callVars, m_pool_shutdown>>
    BY <1>2 DEF MasterStep, MasterTop, MasterTension, MasterGrow, MasterCleanup, MasterIdle,
                MasterReclaim, MasterExitAll, MasterPost, MasterDrain, poolVars, threadVars,
                callVars
  <1>3. ASSUME UNCHANGED <<m_task_queue, holding, callVars>> PROVE Stage' = Stage
    BY <1>3 DEF Stage, Held, Queued, callVars
  <1> QED BY <1>1, <1>2, <1>3

\* Every step of the pool is a step of the abstract pool or leaves it as it is.
LEMMA MapStep ==
  ASSUME BoundsInv, TaskInv, [Next]_vars
  PROVE  [Abstract!Next]_<<m_task_queue, Stage, m_pool_shutdown>>
  <1>1. CASE Shutdown
    <2>1. UNCHANGED <<m_task_queue, Stage>>
      BY <1>1 DEF Shutdown, poolVars, threadVars, callVars, Stage, Held, Queued
    <2>2. Abstract!Close
      BY <1>1, <2>1 DEF Shutdown, Abstract!Close
    <2> QED BY <2>2 DEF Abstract!Next
  <1>2. CASE ShutdownFree \/ UNCHANGED vars
    BY <1>2 DEF ShutdownFree, vars, poolVars, threadVars, callVars, Stage, Held, Queued
  <1> QED BY <1>1, <1>2, MapSubmit, MapWorker, MapMaster DEF Next

\* Whatever workers, master, submitters and shutdown do in between, a task is accepted or
\* refused, started at most once and in the order of acceptance, and given up only in a
\* shutdown: the pool implements TaskPool, for every number of threads, tasks and slots.
THEOREM PoolImplementsTaskPool == Spec => ImplementsTaskPool
  <1>1. BoundsInv /\ TaskInv /\ [Next]_vars
            => [Abstract!Next]_<<m_task_queue, Stage, m_pool_shutdown>>
    BY MapStep
  <1>2. Abstract!Spec <=> Abstract!Init
                          /\ [][Abstract!Next]_<<m_task_queue, Stage, m_pool_shutdown>>
    BY DEF Abstract!Spec, Abstract!vars
  <1> QED BY <1>1, <1>2, MapInit, BoundsInit, BoundsStep, TaskInit, TaskStep, PTL
          DEF Spec, ImplementsTaskPool
================================================================================
