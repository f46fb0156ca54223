------------------------------- MODULE ThreadPool -------------------------------
(***************************************************************************)
(* schedule/thread.cc, ThreadPool: submit(), shutdown(), the master thread *)
(* and the worker threads, from the state the constructor leaves behind.   *)
(*                                                                         *)
(* Every step that reads or writes shared state is an action. What runs    *)
(* under m_thread_mutex is one action: the mutex excludes the other        *)
(* critical sections, and the only unlocked readers inside (of m_exit and  *)
(* m_live_t) make a single read that could as well come before or after;   *)
(* the one unlocked writer, of m_exit, is MasterExitAll. Reads outside the *)
(* mutex are steps of their own, so that what was read may be stale when   *)
(* it is used.                                                             *)
(*                                                                         *)
(* m_task_queue is the sequence of queued tasks: FifoQueueProofs shows     *)
(* that push and pop of the array-based queue are those of a bounded FIFO. *)
(* Its unlocked size() may be wrong; TornReads says whether it is.         *)
(* A step into memory that shutdown() has freed leads to "astray": the     *)
(* code says nothing of what that thread does next.                        *)
(*                                                                         *)
(* Left out: Thread::interrupt, whose flag a worker reads only together    *)
(* with isShutdown(), by then true; sleeps, which order nothing; names.    *)
(***************************************************************************)
EXTENDS Integers, Sequences, FiniteSets

CONSTANTS
    Tasks,          \* the tasks that are submitted, each by a thread of its own
    MinThreads,     \* m_min_t
    MaxThreads,     \* m_max_t, after the constructor raised it to t_min
    QueueLength,    \* task_capacity
    Policies,       \* the overflow policies clients choose
    MayShutDown,    \* whether somebody calls shutdown()
    TornReads,      \* whether an unlocked size() may return a torn value
    NoTask

ASSUME ThreadsAssumption ==
    /\ MinThreads \in Nat /\ MaxThreads \in Nat
    /\ 1 <= MinThreads /\ MinThreads <= MaxThreads
ASSUME QueueLengthAssumption == QueueLength \in Nat /\ 1 <= QueueLength
ASSUME ModeAssumption == MayShutDown \in BOOLEAN /\ TornReads \in BOOLEAN
ASSUME PoliciesAssumption ==
    Policies # {} /\ Policies \subseteq {"DISCARD_DELETE", "DISCARD_ONLY", "NEW_THREAD"}
ASSUME NoTaskAssumption == NoTask \notin Tasks

VARIABLES
    m_live_t,           \* threads the pool counts as live
    m_exit,             \* threads still to leave
    m_pool_shutdown,    \* the flag shutdown() sets
    m_task_queue,       \* queued tasks, oldest first
    m_task_sem,         \* tokens of the semaphore
    m_worker_threads,   \* per slot, "null" or where its thread is
    holding,            \* per slot, the task its thread runs
    master,             \* where the master thread is
    posted,             \* the counter of the master's posting loop
    call,               \* per task, where its call of submit() is
    outcome,            \* per task, how it ended (read by the properties only)
    freed               \* shutdown() has freed the queue and the slots

poolVars == <<m_live_t, m_exit, m_task_queue, m_task_sem>>
threadVars == <<m_worker_threads, holding>>
masterVars == <<master, posted>>
callVars == <<call, outcome>>
vars == <<poolVars, threadVars, masterVars, callVars, m_pool_shutdown, freed>>

Slots == 0 .. MaxThreads - 1

Init ==
    /\ m_live_t = MinThreads
    /\ m_exit = 0
    /\ m_pool_shutdown = FALSE
    /\ m_task_queue = <<>>
    /\ m_task_sem = 0
    /\ m_worker_threads = [w \in Slots |-> IF w < MinThreads THEN "loop" ELSE "null"]
    /\ holding = [w \in Slots |-> NoTask]
    /\ master = "top"
    /\ posted = 0
    /\ call = [t \in Tasks |-> "new"]
    /\ outcome = [t \in Tasks |-> "none"]
    /\ freed = FALSE

--------------------------------------------------------------------------------
\* Shared helpers

\* A size that wrapped below zero: more than anything it is compared with.
WrappedSize == 4 * MaxThreads + 2 * QueueLength + 1

\* The values an unlocked size() may return (FifoQueue's TornSizeRange); they include the
\* stale ones, since m_live_t is read after it.
SizesRead ==
    IF TornReads THEN 0 .. 2 * QueueLength \cup {WrappedSize} ELSE {Len(m_task_queue)}

FreeSlots == {w \in Slots : m_worker_threads[w] = "null"}

\* A new thread in the first free slot, if there is one and the pool may grow.
Grow ==
    IF m_live_t < MaxThreads /\ FreeSlots # {}
    THEN /\ m_live_t' = m_live_t + 1
         /\ \E w \in FreeSlots :
               /\ \A v \in FreeSlots : w <= v
               /\ m_worker_threads' = [m_worker_threads EXCEPT ![w] = "loop"]
    ELSE UNCHANGED <<m_live_t, m_worker_threads>>

--------------------------------------------------------------------------------
\* submit(), called once per task

Goes(t, to) == call' = [call EXCEPT ![t] = to]

Submit(t) ==
    /\ call[t] = "new"
    /\ IF m_pool_shutdown
       THEN /\ Goes(t, "returned")
            /\ outcome' = [outcome EXCEPT ![t] = "refused"]
       ELSE /\ Goes(t, "size")
            /\ UNCHANGED outcome
    /\ UNCHANGED <<poolVars, threadVars, masterVars, m_pool_shutdown, freed>>

SubmitSize(t) ==
    /\ call[t] = "size"
    /\ IF freed
       THEN Goes(t, "astray")
       ELSE \E n \in SizesRead : Goes(t, IF n >= 4 * m_live_t THEN "grow" ELSE "push")
    /\ UNCHANGED <<poolVars, threadVars, masterVars, outcome, m_pool_shutdown, freed>>

SubmitGrow(t) ==
    /\ call[t] = "grow"
    /\ IF freed
       THEN Goes(t, "astray") /\ UNCHANGED <<m_live_t, m_worker_threads>>
       ELSE Grow /\ Goes(t, "push")
    /\ UNCHANGED <<m_exit, m_task_queue, m_task_sem, holding, masterVars, outcome,
                   m_pool_shutdown, freed>>

\* Variants with a plausible bug: a bound off by one, a post that is forgotten.
SubmitPushOneTooMany(t) ==
    /\ call[t] = "push"
    /\ ~freed
    /\ Len(m_task_queue) <= QueueLength
    /\ m_task_queue' = Append(m_task_queue, t)
    /\ Goes(t, "post")
    /\ UNCHANGED <<m_live_t, m_exit, m_task_sem, threadVars, masterVars, outcome,
                   m_pool_shutdown, freed>>

SubmitWithoutPost(t) ==
    /\ call[t] = "post"
    /\ Goes(t, "returned")
    /\ UNCHANGED <<poolVars, threadVars, masterVars, outcome, m_pool_shutdown, freed>>

SubmitPush(t) ==
    /\ call[t] = "push"
    /\ ~freed
    /\ Len(m_task_queue) < QueueLength
    /\ m_task_queue' = Append(m_task_queue, t)
    /\ Goes(t, "post")
    /\ UNCHANGED <<m_live_t, m_exit, m_task_sem, threadVars, masterVars, outcome,
                   m_pool_shutdown, freed>>

\* The queue is full: the policy p the caller passed to submit() decides.
SubmitOverflow(t, p) ==
    /\ call[t] = "push"
    /\ ~freed
    /\ Len(m_task_queue) = QueueLength
    /\ IF p = "NEW_THREAD"
       THEN Goes(t, "inline") /\ UNCHANGED outcome
       ELSE Goes(t, "returned") /\ outcome' = [outcome EXCEPT ![t] = "refused"]
    /\ UNCHANGED <<poolVars, threadVars, masterVars, m_pool_shutdown, freed>>

SubmitFreedQueue(t) ==
    /\ call[t] = "push"
    /\ freed
    /\ Goes(t, "astray")
    /\ UNCHANGED <<poolVars, threadVars, masterVars, outcome, m_pool_shutdown, freed>>

\* The thread NEW_THREAD created ends and join() returns.
SubmitJoin(t) ==
    /\ call[t] = "inline"
    /\ Goes(t, "returned")
    /\ outcome' = [outcome EXCEPT ![t] = "ran"]
    /\ UNCHANGED <<poolVars, threadVars, masterVars, m_pool_shutdown, freed>>

SubmitPost(t) ==
    /\ call[t] = "post"
    /\ m_task_sem' = m_task_sem + 1
    /\ Goes(t, "returned")
    /\ UNCHANGED <<m_live_t, m_exit, m_task_queue, threadVars, masterVars, outcome,
                   m_pool_shutdown, freed>>

--------------------------------------------------------------------------------
\* worker()

WorkerGoes(w, from, to) ==
    /\ m_worker_threads[w] = from
    /\ m_worker_threads' = [m_worker_threads EXCEPT ![w] = to]

\* Variants with a plausible bug: a worker that does not look at m_exit, one that leaves
\* without counting itself out, one that leaves its task in the queue.
WorkerCheckExitIgnored(w) ==
    /\ WorkerGoes(w, "checkExit", "pop")
    /\ UNCHANGED <<poolVars, holding, masterVars, callVars, m_pool_shutdown, freed>>

WorkerLeaveUncounted(w) ==
    /\ WorkerGoes(w, "leave", "exiting")
    /\ UNCHANGED <<poolVars, holding, masterVars, callVars, m_pool_shutdown, freed>>

WorkerPeek(w) ==
    /\ ~freed
    /\ m_task_queue # <<>>
    /\ WorkerGoes(w, "pop", "run")
    /\ holding' = [holding EXCEPT ![w] = Head(m_task_queue)]
    /\ UNCHANGED <<poolVars, masterVars, callVars, m_pool_shutdown, freed>>

\* Nobody takes a token once the pool is shut down.
WorkerLoop(w) ==
    /\ WorkerGoes(w, "loop", IF m_pool_shutdown THEN "check" ELSE "wait")
    /\ UNCHANGED <<poolVars, holding, masterVars, callVars, m_pool_shutdown, freed>>

WorkerWait(w) ==
    /\ m_task_sem > 0
    /\ m_task_sem' = m_task_sem - 1
    /\ WorkerGoes(w, "wait", "check")
    /\ UNCHANGED <<m_live_t, m_exit, m_task_queue, holding, masterVars, callVars,
                   m_pool_shutdown, freed>>

WorkerCheck(w) ==
    /\ WorkerGoes(w, "check", IF m_pool_shutdown THEN "leave" ELSE "checkExit")
    /\ UNCHANGED <<poolVars, holding, masterVars, callVars, m_pool_shutdown, freed>>

WorkerCheckExit(w) ==
    /\ WorkerGoes(w, "checkExit", IF m_exit > 0 THEN "leave" ELSE "pop")
    /\ UNCHANGED <<poolVars, holding, masterVars, callVars, m_pool_shutdown, freed>>

\* The worker finds its own slot, and does not look at m_exit again. In a freed array it may
\* find its slot or not, and returns either way: the pool is shut down. (A bound: a worker
\* that getCurrentThread() takes for another thread, of which ThreadLife says when it may,
\* does not find itself, and goes on to pop() if the pool is not shut down.)
WorkerLeave(w) ==
    /\ WorkerGoes(w, "leave", "exiting")
    /\ \/ m_exit' = m_exit - 1
       \/ freed /\ UNCHANGED m_exit
    /\ UNCHANGED <<m_live_t, m_task_queue, m_task_sem, holding, masterVars, callVars,
                   m_pool_shutdown, freed>>

\* Thread::start, after worker() has returned: from now on active() is false.
WorkerEnd(w) ==
    /\ WorkerGoes(w, "exiting", "done")
    /\ UNCHANGED <<poolVars, holding, masterVars, callVars, m_pool_shutdown, freed>>

WorkerPop(w) ==
    /\ ~freed
    /\ m_task_queue # <<>>
    /\ WorkerGoes(w, "pop", "run")
    /\ holding' = [holding EXCEPT ![w] = Head(m_task_queue)]
    /\ m_task_queue' = Tail(m_task_queue)
    /\ UNCHANGED <<m_live_t, m_exit, m_task_sem, masterVars, callVars, m_pool_shutdown, freed>>

WorkerPopNothing(w) ==
    /\ ~freed
    /\ m_task_queue = <<>>
    /\ WorkerGoes(w, "pop", "loop")
    /\ UNCHANGED <<poolVars, holding, masterVars, callVars, m_pool_shutdown, freed>>

WorkerPopFreed(w) ==
    /\ freed
    /\ WorkerGoes(w, "pop", "astray")
    /\ UNCHANGED <<poolVars, holding, masterVars, callVars, m_pool_shutdown, freed>>

\* The task returns or throws; either way its future is set and it is deleted.
WorkerFinish(w) ==
    /\ WorkerGoes(w, "run", "loop")
    /\ outcome' = [outcome EXCEPT ![holding[w]] = "ran"]
    /\ holding' = [holding EXCEPT ![w] = NoTask]
    /\ UNCHANGED <<poolVars, masterVars, call, m_pool_shutdown, freed>>

--------------------------------------------------------------------------------
\* master()

MasterGoes(from, to) == master = from /\ master' = to

\* Variants with a plausible bug: reclaiming below the minimum, or without a token for the
\* thread to wake up on; one token too few in a shutdown; a drain that does not pop.
MasterIdleBelowMinimum ==
    /\ \E n \in SizesRead : MasterGoes("idle", IF n < m_live_t THEN "reclaim" ELSE "top")
    /\ UNCHANGED <<poolVars, threadVars, posted, callVars, m_pool_shutdown, freed>>

MasterReclaimWithoutPost ==
    /\ MasterGoes("reclaim", "top")
    /\ m_exit' = m_exit + 1
    /\ m_live_t' = m_live_t - 1
    /\ UNCHANGED <<m_task_queue, m_task_sem, threadVars, posted, callVars, m_pool_shutdown,
                   freed>>

MasterPostOneTooFew ==
    /\ master = "post"
    /\ IF posted + 1 < m_live_t
       THEN /\ m_task_sem' = m_task_sem + 1
            /\ posted' = posted + 1
            /\ UNCHANGED master
       ELSE /\ master' = "drain"
            /\ UNCHANGED <<m_task_sem, posted>>
    /\ UNCHANGED <<m_live_t, m_exit, m_task_queue, threadVars, callVars, m_pool_shutdown, freed>>

MasterDrainPeeking ==
    /\ MasterGoes("drain", IF m_task_queue # <<>> THEN "drain" ELSE "done")
    /\ UNCHANGED <<poolVars, threadVars, posted, callVars, m_pool_shutdown, freed>>

MasterTop ==
    /\ MasterGoes("top", IF m_pool_shutdown THEN "exitAll" ELSE "tension")
    /\ UNCHANGED <<poolVars, threadVars, posted, callVars, m_pool_shutdown, freed>>

MasterTension ==
    /\ \E n \in SizesRead :
          MasterGoes("tension", IF QueueLength \div 2 < n THEN "grow" ELSE "cleanup")
    /\ UNCHANGED <<poolVars, threadVars, posted, callVars, m_pool_shutdown, freed>>

MasterGrow ==
    /\ MasterGoes("grow", "cleanup")
    /\ Grow
    /\ UNCHANGED <<m_exit, m_task_queue, m_task_sem, holding, posted, callVars,
                   m_pool_shutdown, freed>>

\* Threads that are no longer active are deleted.
MasterCleanup ==
    /\ MasterGoes("cleanup", "idle")
    /\ m_worker_threads' =
           [w \in Slots |-> IF m_worker_threads[w] = "done" THEN "null" ELSE m_worker_threads[w]]
    /\ UNCHANGED <<poolVars, holding, posted, callVars, m_pool_shutdown, freed>>

MasterIdle ==
    /\ \E n \in SizesRead :
          MasterGoes("idle", IF n < m_live_t /\ m_live_t > MinThreads THEN "reclaim" ELSE "top")
    /\ UNCHANGED <<poolVars, threadVars, posted, callVars, m_pool_shutdown, freed>>

\* One surplus thread is told to leave; which one, the semaphore decides.
MasterReclaim ==
    /\ MasterGoes("reclaim", "top")
    /\ m_exit' = m_exit + 1
    /\ m_task_sem' = m_task_sem + 1
    /\ m_live_t' = m_live_t - 1
    /\ UNCHANGED <<m_task_queue, threadVars, posted, callVars, m_pool_shutdown, freed>>

\* Outside the mutex: the decrement of a worker that is leaving may overwrite this store.
MasterExitAll ==
    /\ MasterGoes("exitAll", "post")
    /\ \/ m_exit' = m_live_t
       \/ (\E w \in Slots : m_worker_threads[w] = "leave") /\ UNCHANGED m_exit
    /\ posted' = 0
    /\ UNCHANGED <<m_live_t, m_task_queue, m_task_sem, threadVars, callVars,
                   m_pool_shutdown, freed>>

\* One token per live thread; m_live_t is read again before each.
MasterPost ==
    /\ master = "post"
    /\ IF posted < m_live_t
       THEN /\ m_task_sem' = m_task_sem + 1
            /\ posted' = posted + 1
            /\ UNCHANGED master
       ELSE /\ master' = "drain"
            /\ UNCHANGED <<m_task_sem, posted>>
    /\ UNCHANGED <<m_live_t, m_exit, m_task_queue, threadVars, callVars, m_pool_shutdown, freed>>

\* Queued tasks are popped and deleted until the queue is empty.
MasterDrain ==
    /\ master = "drain"
    /\ IF m_task_queue # <<>>
       THEN /\ m_task_queue' = Tail(m_task_queue)
            /\ outcome' = [outcome EXCEPT ![Head(m_task_queue)] = "dropped"]
            /\ UNCHANGED master
       ELSE /\ master' = "done"
            /\ UNCHANGED <<m_task_queue, outcome>>
    /\ UNCHANGED <<m_live_t, m_exit, m_task_sem, threadVars, posted, call,
                   m_pool_shutdown, freed>>

--------------------------------------------------------------------------------
\* shutdown()

Shutdown ==
    /\ MayShutDown
    /\ ~m_pool_shutdown
    /\ m_pool_shutdown' = TRUE
    /\ UNCHANGED <<poolVars, threadVars, masterVars, callVars, freed>>

\* The master is joined, the workers are not; then everything is freed.
ShutdownFree ==
    /\ m_pool_shutdown
    /\ master = "done"
    /\ ~freed
    /\ freed' = TRUE
    /\ UNCHANGED <<poolVars, threadVars, masterVars, callVars, m_pool_shutdown>>

--------------------------------------------------------------------------------
SubmitStep(t) ==
    \/ SubmitSize(t) \/ SubmitGrow(t) \/ SubmitPush(t)
    \/ \E p \in Policies : SubmitOverflow(t, p)
    \/ SubmitFreedQueue(t) \/ SubmitPost(t)

WorkerStep(w) ==
    \/ WorkerLoop(w) \/ WorkerWait(w) \/ WorkerCheck(w) \/ WorkerCheckExit(w)
    \/ WorkerLeave(w) \/ WorkerEnd(w)
    \/ WorkerPop(w) \/ WorkerPopNothing(w) \/ WorkerPopFreed(w)

MasterStep ==
    \/ MasterTop \/ MasterTension \/ MasterGrow \/ MasterCleanup \/ MasterIdle
    \/ MasterReclaim \/ MasterExitAll \/ MasterPost \/ MasterDrain

Next ==
    \/ \E t \in Tasks :
          \/ Submit(t)
          \/ SubmitStep(t)
          \/ SubmitJoin(t)
    \/ \E w \in Slots : WorkerStep(w) \/ WorkerFinish(w)
    \/ MasterStep
    \/ Shutdown
    \/ ShutdownFree

Spec == Init /\ [][Next]_vars

\* Threads that can run do run, submitted tasks come to an end, and shutdown() goes on
\* once the master has ended. Nobody has to submit or to shut down.
Fairness ==
    /\ \A t \in Tasks : WF_vars(SubmitStep(t)) /\ WF_vars(SubmitJoin(t))
    /\ \A w \in Slots : WF_vars(WorkerStep(w)) /\ WF_vars(WorkerFinish(w))
    /\ WF_vars(MasterStep)
    /\ WF_vars(ShutdownFree)

FairSpec == Spec /\ Fairness

--------------------------------------------------------------------------------
\* Properties

At(places) == {w \in Slots : m_worker_threads[w] \in places}

\* The threads that serve the pool; those with a token that may make them leave; those
\* with a token that is for a task; the calls of submit() that owe a token.

Workers == At({"loop", "wait", "check", "checkExit", "leave", "pop", "run", "astray"})
Checking == At({"check", "checkExit", "leave"})
Popping == At({"pop"})
Posting == {t \in Tasks : call[t] = "post"}

\* The type invariant.
TypeOK ==
    /\ m_live_t \in 0 .. MaxThreads
    /\ m_exit \in Int
    /\ m_pool_shutdown \in BOOLEAN
    /\ m_task_queue \in Seq(Tasks) /\ Len(m_task_queue) <= QueueLength
    /\ m_task_sem \in Nat
    /\ m_worker_threads \in [Slots -> {"null", "loop", "wait", "check", "checkExit", "leave",
                                       "pop", "run", "exiting", "done", "astray"}]
    /\ holding \in [Slots -> Tasks \cup {NoTask}]
    /\ \A w \in Slots : m_worker_threads[w] = "run" <=> holding[w] # NoTask
    /\ master \in {"top", "tension", "grow", "cleanup", "idle", "reclaim", "exitAll", "post",
                   "drain", "done"}
    /\ posted \in Nat
    /\ call \in [Tasks -> {"new", "size", "grow", "push", "post", "inline", "returned",
                           "astray"}]
    /\ outcome \in [Tasks -> {"none", "ran", "dropped", "refused"}]
    /\ freed \in BOOLEAN

\* The unlocked test before a reclaim (line 486) may be stale when the mutex is taken; the
\* pool's thread count stays between its minimum and its maximum all the same.
LiveWithinBounds ==
    /\ MinThreads <= m_live_t /\ m_live_t <= MaxThreads
    /\ master = "reclaim" => MinThreads < m_live_t

\* Until shutdown, the threads that serve the pool are those it counts as live plus those
\* it has told to leave, also when m_exit has become negative.
WorkerBalance ==
    ~m_pool_shutdown => Cardinality(Workers) = m_live_t + m_exit

\* Until shutdown, every queued task and every thread told to leave has a token, in the
\* semaphore, in the hands of a worker, or about to be posted by submit().
TokenBalance ==
    ~m_pool_shutdown =>
        m_task_sem + Cardinality(Checking) + Cardinality(Popping) + Cardinality(Posting)
            = Len(m_task_queue) + m_exit

\* Until shutdown, a worker that gets past the exit check finds a task: no wake-up is
\* spent on an empty queue, whoever else took tasks in between.
PopFindsTask ==
    ~m_pool_shutdown => \A w \in Slots : m_worker_threads[w] = "pop" => m_task_queue # <<>>

\* thread.h line 145: t_min is the least number of threads. Until shutdown at least that
\* many serve the pool.
AtLeastMinWorkers == ~m_pool_shutdown => Cardinality(Workers) >= MinThreads

Queued == {m_task_queue[k] : k \in DOMAIN m_task_queue}
Held == {holding[w] : w \in Slots}

Stage ==
    [t \in Tasks |->
        IF outcome[t] # "none" THEN outcome[t]
        ELSE IF t \in Held \/ call[t] = "inline" THEN "running"
        ELSE IF t \in Queued THEN "pending" ELSE "new"]

Abstract == INSTANCE TaskPool WITH pending <- m_task_queue, stage <- Stage,
                                   closing <- m_pool_shutdown

\* Whatever workers, master and submitters do in between, tasks are accepted, started at
\* most once in the order of acceptance, and given up only in a shutdown.
ImplementsTaskPool == Abstract!Spec

\* A task in the queue is started, whichever threads come and go and whatever their tokens are
\* spent on, unless the pool is shut down, or has lost its last thread to a request that two
\* threads obeyed (AtLeastMinWorkers).
QueuedTasksStart ==
    \A t \in Tasks : t \in Queued ~> \/ outcome[t] # "none" \/ t \in Held
                                     \/ m_pool_shutdown \/ Workers = {}

\* After shutdown no worker waits for ever: each one ends, or has run into freed memory.
ShutdownReleasesWorkers ==
    m_pool_shutdown ~> [](\A w \in Slots : m_worker_threads[w] \in {"null", "done", "astray"})

\* shutdown() returns, whatever is queued and whoever still submits.
ShutdownReturns == m_pool_shutdown ~> freed
================================================================================
