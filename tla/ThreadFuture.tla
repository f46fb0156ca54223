------------------------------- MODULE ThreadFuture -------------------------------
(***************************************************************************)
(* schedule/thread.cc, ThreadFuture, together with the places that create, *)
(* fulfil and address futures: the end of submit(), the end of a task in   *)
(* worker(), and the allocation and deletion of tasks.                     *)
(*                                                                         *)
(* A future finds its result in the static s_futute_map under the address  *)
(* of its task. The task is deleted once it has run, so the allocator may  *)
(* give its address to the next task while the future is still around.     *)
(* submit() registers the future after it has pushed the task and posted   *)
(* the semaphore.                                                          *)
(*                                                                         *)
(* The pool is TaskPool, which ThreadPool implements: its steps are taken  *)
(* together with what they do to tasks and futures. A call under the       *)
(* policy NEW_THREAD that finds the queue full returns no future and is    *)
(* left out.                                                               *)
(***************************************************************************)
EXTENDS Integers, Sequences

CONSTANTS
    Tasks,          \* the tasks submitted, each once
    Addresses,      \* what the allocator hands out for tasks
    Timeouts,       \* timeouts given to get(), in periods of 500 ms
    UIntModulus,    \* 2^32, in the same periods
    Null            \* the null pointer

ASSUME NullAssumption == Null \notin Tasks /\ Null \notin Addresses
ASSUME TimeoutsAssumption ==
    UIntModulus \in Nat /\ Timeouts \subseteq 0 .. UIntModulus - 1

VARIABLES
    pending, stage, closing,    \* the pool
    call,           \* per task, where its call of submit() is
    address,        \* per task, its address while it exists, and its future's m_task_id
    exists,         \* the tasks that are allocated
    s_futute_map,   \* from addresses to [done, data]
    fulfilled,      \* the tasks for which set() has been called
    future,         \* per task, "none", "held" by the client or "deleted"
    shared,         \* the tasks whose address a second one got while a future still used
                    \* it (read by the properties only)
    remaining,      \* per task, the periods its client's get() has left
    getting         \* per task, where that get() is

Pool == INSTANCE TaskPool

poolVars == <<pending, stage, closing>>
getVars == <<remaining, getting>>
vars == <<poolVars, call, address, exists, s_futute_map, fulfilled, future, shared, getVars>>

Init ==
    /\ Pool!Init
    /\ call = [t \in Tasks |-> "new"]
    /\ address = [t \in Tasks |-> Null]
    /\ exists = {}
    /\ s_futute_map = [a \in {} |-> Null]
    /\ fulfilled = {}
    /\ future = [t \in Tasks |-> "none"]
    /\ shared = {}
    /\ remaining = [t \in Tasks |-> 0]
    /\ getting = [t \in Tasks |-> "no"]

--------------------------------------------------------------------------------
\* submit()

SubmitGoes(t, from, to) == call[t] = from /\ call' = [call EXCEPT ![t] = to]

\* The tasks with address a whose future a client holds or is about to get.
FuturesAt(a) ==
    {u \in Tasks : address[u] = a /\ (call[u] = "accepted" \/ future[u] = "held")}

\* new Task: any address that no existing task has.
Allocate(t) ==
    /\ SubmitGoes(t, "new", "allocated")
    /\ \E a \in Addresses :
          /\ \A u \in exists : address[u] # a
          /\ address' = [address EXCEPT ![t] = a]
          /\ shared' = IF FuturesAt(a) = {} THEN shared ELSE shared \cup FuturesAt(a) \cup {t}
    /\ exists' = exists \cup {t}
    /\ UNCHANGED <<poolVars, s_futute_map, fulfilled, future, getVars>>

Accept(t) ==
    /\ SubmitGoes(t, "allocated", "accepted")
    /\ Pool!Accept(t)
    /\ UNCHANGED <<address, exists, s_futute_map, fulfilled, future, shared, getVars>>

\* The pool is shut down or full: the task is deleted and the call throws.
Refuse(t) ==
    /\ SubmitGoes(t, "allocated", "returned")
    /\ Pool!Refuse(t)
    /\ exists' = exists \ {t}
    /\ UNCHANGED <<address, s_futute_map, fulfilled, future, shared, getVars>>

\* std::map::insert leaves an entry that is there as it is.
WithEntry(a, entry) ==
    [b \in DOMAIN s_futute_map \cup {a} |->
        IF b \in DOMAIN s_futute_map THEN s_futute_map[b] ELSE entry]

\* new ThreadFuture, after push and post.
Register(t) ==
    /\ SubmitGoes(t, "accepted", "returned")
    /\ s_futute_map' = WithEntry(address[t], [done |-> FALSE, data |-> Null])
    /\ future' = [future EXCEPT ![t] = "held"]
    /\ UNCHANGED <<poolVars, address, exists, fulfilled, shared, getVars>>

--------------------------------------------------------------------------------
\* worker() and master()

Start(t) ==
    /\ Pool!Start(t)
    /\ UNCHANGED <<call, address, exists, s_futute_map, fulfilled, future, shared, getVars>>

\* Variants with a plausible bug: set() makes the entry it does not find; it is called only
\* with a result; the task is deleted before set().
SetInserting(t) ==
    /\ stage[t] = "running"
    /\ t \notin fulfilled
    /\ fulfilled' = fulfilled \cup {t}
    /\ \E result \in {t, Null} :
          s_futute_map' =
              [a \in DOMAIN s_futute_map \cup {address[t]} |->
                  IF a = address[t] THEN [done |-> TRUE, data |-> result] ELSE s_futute_map[a]]
    /\ UNCHANGED <<poolVars, call, address, exists, future, shared, getVars>>

SetOnlyResults(t) ==
    /\ stage[t] = "running"
    /\ t \notin fulfilled
    /\ fulfilled' = fulfilled \cup {t}
    /\ \E result \in {t, Null} :
          s_futute_map' =
              [a \in DOMAIN s_futute_map |->
                  IF a = address[t] /\ result # Null
                  THEN [done |-> TRUE, data |-> result] ELSE s_futute_map[a]]
    /\ UNCHANGED <<poolVars, call, address, exists, future, shared, getVars>>

DeleteBeforeSet(t) ==
    /\ stage[t] = "running"
    /\ t \notin fulfilled
    /\ exists' = exists \ {t}
    /\ UNCHANGED <<poolVars, call, address, s_futute_map, fulfilled, future, shared, getVars>>

\* The task has returned a result, or NULL, or thrown; set() finds its entry or does nothing.
Set(t) ==
    /\ stage[t] = "running"
    /\ t \notin fulfilled
    /\ fulfilled' = fulfilled \cup {t}
    /\ \E result \in {t, Null} :
          s_futute_map' =
              [a \in DOMAIN s_futute_map |->
                  IF a = address[t] THEN [done |-> TRUE, data |-> result] ELSE s_futute_map[a]]
    /\ UNCHANGED <<poolVars, call, address, exists, future, shared, getVars>>

\* delete task
Finish(t) ==
    /\ t \in fulfilled
    /\ Pool!Finish(t)
    /\ exists' = exists \ {t}
    /\ UNCHANGED <<call, address, s_futute_map, fulfilled, future, shared, getVars>>

\* The master deletes a queued task in a shutdown; nobody sets its future.
GiveUp(t) ==
    /\ Pool!GiveUp(t)
    /\ exists' = exists \ {t}
    /\ UNCHANGED <<call, address, s_futute_map, fulfilled, future, shared, getVars>>

Close ==
    /\ Pool!Close
    /\ UNCHANGED <<call, address, exists, s_futute_map, fulfilled, future, shared, getVars>>

--------------------------------------------------------------------------------
\* The client of a future

Held(t) == future[t] = "held"

\* isDone()
IsDone(t) == address[t] \in DOMAIN s_futute_map /\ s_futute_map[address[t]].done

\* get(): static_cast<int> of an unsigned timeout.
AsInt(n) == IF 2 * n < UIntModulus THEN n ELSE n - UIntModulus

Get(t) ==
    /\ Held(t) /\ getting[t] = "no"
    /\ \E n \in Timeouts : remaining' = [remaining EXCEPT ![t] = AsInt(n)]
    /\ getting' = [getting EXCEPT ![t] = "sleeping"]
    /\ UNCHANGED <<poolVars, call, address, exists, s_futute_map, fulfilled, future, shared>>

\* A variant whose loop has no time limit.
GetPeriodUnlimited(t) ==
    /\ getting[t] = "sleeping"
    /\ \E seen \in {IsDone(t), FALSE} :
          getting' = [getting EXCEPT ![t] = IF ~seen THEN "sleeping" ELSE "fetching"]
    /\ UNCHANGED <<poolVars, call, address, exists, s_futute_map, fulfilled, future, shared,
                   remaining>>

\* One period, then the loop's condition. isDone() does not lock the map: while another
\* thread inserts or erases, its search may miss the entry, which "seen" allows for.
GetPeriod(t) ==
    /\ getting[t] = "sleeping"
    /\ remaining' = [remaining EXCEPT ![t] = @ - 1]
    /\ \E seen \in {IsDone(t), FALSE} :
          getting' = [getting EXCEPT ![t] =
                         IF remaining[t] - 1 > 0 /\ ~seen THEN "sleeping" ELSE "fetching"]
    /\ UNCHANGED <<poolVars, call, address, exists, s_futute_map, fulfilled, future, shared>>

\* The entry's data, or NULL without an entry: what it returns is Fetched(t).
Fetched(t) ==
    IF address[t] \in DOMAIN s_futute_map THEN s_futute_map[address[t]].data ELSE Null

GetFetch(t) ==
    /\ getting[t] = "fetching"
    /\ getting' = [getting EXCEPT ![t] = "no"]
    /\ remaining' = [remaining EXCEPT ![t] = 0]
    /\ UNCHANGED <<poolVars, call, address, exists, s_futute_map, fulfilled, future, shared>>

\* Variants of the destructor: one that leaves the entry, one that clears the map.
DeleteFutureOnly(t) ==
    /\ Held(t) /\ getting[t] = "no"
    /\ future' = [future EXCEPT ![t] = "deleted"]
    /\ UNCHANGED <<poolVars, call, address, exists, s_futute_map, fulfilled, shared, getVars>>

DeleteFutureClearing(t) ==
    /\ Held(t) /\ getting[t] = "no"
    /\ future' = [future EXCEPT ![t] = "deleted"]
    /\ s_futute_map' = [a \in {} |-> Null]
    /\ UNCHANGED <<poolVars, call, address, exists, fulfilled, shared, getVars>>

\* delete future: the entry goes, whoever else uses it.
DeleteFuture(t) ==
    /\ Held(t) /\ getting[t] = "no"
    /\ future' = [future EXCEPT ![t] = "deleted"]
    /\ s_futute_map' = [a \in DOMAIN s_futute_map \ {address[t]} |-> s_futute_map[a]]
    /\ UNCHANGED <<poolVars, call, address, exists, fulfilled, shared, getVars>>

--------------------------------------------------------------------------------
WorkerStep(t) == Start(t) \/ Set(t) \/ Finish(t)
GetStep(t) == GetPeriod(t) \/ GetFetch(t)

Next ==
    \/ \E t \in Tasks :
          \/ Allocate(t) \/ Accept(t) \/ Refuse(t) \/ Register(t)
          \/ WorkerStep(t) \/ GiveUp(t)
          \/ Get(t) \/ GetStep(t) \/ DeleteFuture(t)
    \/ Close

Spec == Init /\ [][Next]_vars

\* Accepted tasks are started and end (ThreadPool's QueuedTasksStart), a call of submit()
\* that has pushed its task goes on, and so does a call of get().
FairSpec ==
    /\ Spec
    /\ \A t \in Tasks : WF_vars(WorkerStep(t)) /\ WF_vars(Register(t)) /\ WF_vars(GetStep(t))

--------------------------------------------------------------------------------
\* Properties

\* The type invariant; tasks in the pool's hands are allocated until set() is done.
TypeOK ==
    /\ call \in [Tasks -> {"new", "allocated", "accepted", "returned"}]
    /\ address \in [Tasks -> Addresses \cup {Null}]
    /\ exists \subseteq Tasks
    /\ \A t \in Tasks : stage[t] \in {"pending", "running"} /\ t \notin fulfilled => t \in exists
    /\ DOMAIN s_futute_map \subseteq Addresses
    /\ \A a \in DOMAIN s_futute_map :
          s_futute_map[a] \in [done : BOOLEAN, data : Tasks \cup {Null}]
    /\ fulfilled \subseteq Tasks
    /\ future \in [Tasks -> {"none", "held", "deleted"}]
    /\ remaining \in [Tasks -> Int]
    /\ getting \in [Tasks -> {"no", "sleeping", "fetching"}]

\* Nothing is left in the static map for futures that are gone, however late set() comes.
NoStaleEntry ==
    \A a \in DOMAIN s_futute_map : \E t \in Tasks : Held(t) /\ address[t] = a

\* The allocator has given no second task the address of t while a future used it.
Alone(t) == t \notin shared

\* A future that has its address to itself reports the result of its own task, although
\* other tasks and futures had that address before.
AloneReportsOwn ==
    \A t \in Tasks :
        Held(t) /\ Alone(t) /\ IsDone(t) => t \in fulfilled /\ Fetched(t) \in {t, Null}

\* Such a future never changes from done to not done while its client holds it, whoever
\* registers and deletes other futures.
DoneSticks ==
    [][\A t \in Tasks :
          Held(t) /\ IsDone(t) /\ Held(t)' /\ Alone(t)' => IsDone(t)']_vars

\* A future registered before its task has run becomes done, unless its client deletes it,
\* its address is given to a second task or the pool is shut down.
RegisteredResultArrives ==
    \A t \in Tasks :
        (Held(t) /\ t \notin fulfilled) ~>
            (IsDone(t) \/ closing \/ ~Held(t) \/ ~Alone(t))

\* Every get() returns, also with the largest timeouts.
GetReturns == \A t \in Tasks : getting[t] # "no" ~> getting[t] = "no"

\* thread.h line 171: submit() returns the future of the task's result. Once the task has
\* run, a future that has its address to itself says so.
FutureReportsRanTask ==
    \A t \in Tasks : Held(t) /\ Alone(t) /\ stage[t] = "ran" => IsDone(t)
================================================================================
