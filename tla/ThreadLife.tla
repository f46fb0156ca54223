------------------------------- MODULE ThreadLife -------------------------------
(***************************************************************************)
(* schedule/thread.cc, class Thread: Thread objects, the system threads    *)
(* that run() creates for them, and s_thread_cache, which maps the id of a *)
(* system thread to its object for getCurrentThread().                     *)
(*                                                                         *)
(* An object's client may run, join, stop and delete it, the last also     *)
(* while its thread runs, which then is detached. The system gives a new   *)
(* thread the id of one that has ended. What is done with a deleted object *)
(* is undefined: the program ends, or goes on as if it were still there.   *)
(***************************************************************************)
EXTENDS Integers, FiniteSets

CONSTANTS
    Objects,        \* the Thread objects that clients make
    Main,           \* the object of the main thread
    Tids,           \* the system's thread ids
    MainTid,
    None

ASSUME ThreadsAssumption ==
    /\ Main \notin Objects /\ None \notin Objects \cup {Main} \cup Tids
    /\ MainTid \in Tids

VARIABLES
    life,           \* per object, whether it exists
    m_flag,         \* 0 no thread, 1 created, 2 in its function, 3 done, 4 stopped
    m_id,           \* undefined before the thread has started
    s_thread_cache,
    at, tid,        \* per object, where its thread is in start(), and that thread's id
    found,          \* the object it has found in the cache at its end
    client,         \* where the object's client is
    crashed,
    stopped,        \* the objects that stop() has been called on, the ids that have been
    shared,         \* known for two objects at once, and those under which an object was
    late            \* entered that had been deleted (read by the properties only)

objects == <<life, m_flag, m_id>>
threads == <<at, tid, found>>
history == <<stopped, shared, late>>
vars == <<objects, s_thread_cache, threads, client, crashed, history>>

All == Objects \cup {Main}
Active(o) == m_flag[o] \in {1, 2}
Exists(o) == life[o] = "exists"
HasThread(o) == at[o] \notin {"none", "ended"}

Init ==
    /\ life = [o \in All |-> IF o = Main THEN "exists" ELSE "new"]
    /\ m_flag = [o \in All |-> IF o = Main THEN 2 ELSE 0]
    /\ m_id = [o \in All |-> IF o = Main THEN MainTid ELSE None]
    /\ s_thread_cache = [i \in Tids |-> IF i = MainTid THEN Main ELSE None]
    /\ at = [o \in All |-> IF o = Main THEN "running" ELSE "none"]
    /\ tid = [o \in All |-> IF o = Main THEN MainTid ELSE None]
    /\ found = [o \in All |-> None]
    /\ client = [o \in All |-> "idle"]
    /\ crashed = FALSE /\ stopped = {} /\ shared = {} /\ late = {}

--------------------------------------------------------------------------------
\* The client of an object

\* The constructor leaves m_id as it finds it: it may look like any id.
New(o) ==
    /\ life[o] = "new"
    /\ life' = [life EXCEPT ![o] = "exists"]
    /\ \E i \in Tids \cup {None} : m_id' = [m_id EXCEPT ![o] = i]
    /\ UNCHANGED <<m_flag, s_thread_cache, threads, client, crashed, history>>

\* Whether an id is known for another object than o.
KnownElsewhere(i, o) == \E u \in All \ {o} : Exists(u) /\ tid[u] = i

Run(o) ==
    /\ Exists(o) /\ client[o] = "idle" /\ m_flag[o] = 0
    /\ m_flag' = [m_flag EXCEPT ![o] = 1]
    /\ at' = [at EXCEPT ![o] = "created"]
    /\ \E i \in {j \in Tids : \A u \in All : HasThread(u) => tid[u] # j} :
          /\ tid' = [tid EXCEPT ![o] = i]
          /\ shared' = IF KnownElsewhere(i, o) THEN shared \cup {i} ELSE shared
    /\ UNCHANGED <<life, m_id, s_thread_cache, found, client, crashed, stopped, late>>

Join(o) ==
    /\ Exists(o) /\ client[o] = "idle" /\ Active(o) /\ o # Main
    /\ client' = [client EXCEPT ![o] = "joining"]
    /\ UNCHANGED <<objects, s_thread_cache, threads, crashed, history>>

Joined(o) ==
    /\ client[o] = "joining" /\ at[o] = "ended"
    /\ client' = [client EXCEPT ![o] = "idle"]
    /\ m_flag' = [m_flag EXCEPT ![o] = 3]
    /\ UNCHANGED <<life, m_id, s_thread_cache, threads, crashed, history>>

Stop(o) ==
    /\ Exists(o) /\ client[o] = "idle" /\ Active(o) /\ o # Main
    /\ m_flag' = [m_flag EXCEPT ![o] = 4]
    /\ stopped' = stopped \cup {o}
    /\ UNCHANGED <<life, m_id, s_thread_cache, threads, client, crashed, shared, late>>

\* Variant with a plausible bug: only an object whose thread is over leaves the cache.
DeleteActiveUncached(o) ==
    /\ Exists(o) /\ client[o] = "idle" /\ o # Main
    /\ life' = [life EXCEPT ![o] = "deleted"]
    /\ s_thread_cache' = IF Active(o) \/ m_id[o] = None THEN s_thread_cache
                         ELSE [s_thread_cache EXCEPT ![m_id[o]] = None]
    /\ shared' = shared \cup {i \in {m_id[o]} \cap Tids : KnownElsewhere(i, o)}
    /\ UNCHANGED <<m_flag, m_id, threads, client, crashed, stopped, late>>

\* The destructor erases the entry under m_id, whosever it is.
Delete(o) ==
    /\ Exists(o) /\ client[o] = "idle" /\ o # Main
    /\ life' = [life EXCEPT ![o] = "deleted"]
    /\ s_thread_cache' = IF m_id[o] = None THEN s_thread_cache
                         ELSE [s_thread_cache EXCEPT ![m_id[o]] = None]
    /\ shared' = shared \cup {i \in {m_id[o]} \cap Tids : KnownElsewhere(i, o)}
    /\ UNCHANGED <<m_flag, m_id, threads, client, crashed, stopped, late>>

--------------------------------------------------------------------------------
\* start(), in the new thread

\* getCurrentThread() in the thread with id i.
CurrentThread(i) == s_thread_cache[i]

Goes(o, from, to) == at[o] = from /\ at' = [at EXCEPT ![o] = to]

\* A step that uses object u. The use of a deleted one ends the program, or has its effect.
Touch(u) == IF Exists(u) THEN UNCHANGED crashed ELSE crashed' \in BOOLEAN

\* Variant with a plausible bug: the object enters the cache before its m_id is set.
EnterCacheEarly(o) ==
    /\ Goes(o, "created", "cached")
    /\ Touch(o)
    /\ m_id' = [m_id EXCEPT ![o] = tid[o]]
    /\ s_thread_cache' = IF m_id[o] = None \/ s_thread_cache[m_id[o]] # None THEN s_thread_cache
                         ELSE [s_thread_cache EXCEPT ![m_id[o]] = o]
    /\ late' = IF Exists(o) THEN late ELSE late \cup {tid[o]}
    /\ UNCHANGED <<life, m_flag, tid, found, client, stopped, shared>>

\* insert() keeps an entry that is there.
EnterCache(o) ==
    /\ Goes(o, "created", "cached")
    /\ Touch(o)
    /\ m_id' = [m_id EXCEPT ![o] = tid[o]]
    /\ s_thread_cache' = IF s_thread_cache[tid[o]] # None THEN s_thread_cache
                         ELSE [s_thread_cache EXCEPT ![tid[o]] = o]
    /\ late' = IF Exists(o) THEN late ELSE late \cup {tid[o]}
    /\ UNCHANGED <<life, m_flag, tid, found, client, stopped, shared>>

CallFunction(o) ==
    /\ Goes(o, "cached", "running")
    /\ Touch(o)
    /\ m_flag' = [m_flag EXCEPT ![o] = 2]
    /\ UNCHANGED <<life, m_id, s_thread_cache, tid, found, client, history>>

FunctionReturns(o) ==
    /\ o # Main
    /\ Goes(o, "running", "returned")
    /\ UNCHANGED <<objects, s_thread_cache, tid, found, client, crashed, history>>

\* The thread looks itself up, since its object may have been deleted meanwhile, without the
\* mutex and thus at any time before the object found is used.
FindSelf(o) ==
    /\ LET u == CurrentThread(tid[o]) IN
          /\ Goes(o, "returned", IF u = None THEN "ended" ELSE "found")
          /\ found' = [found EXCEPT ![o] = u]
    /\ UNCHANGED <<objects, s_thread_cache, tid, client, crashed, history>>

SetDone(o) ==
    /\ Goes(o, "found", "ended")
    /\ Touch(found[o])
    /\ m_flag' = [m_flag EXCEPT ![found[o]] = 3]
    /\ found' = [found EXCEPT ![o] = None]
    /\ UNCHANGED <<life, m_id, s_thread_cache, tid, client, history>>

\* A thread that is cancelled ends where it is; within the function's try block, whose
\* catch (...) swallows the unwinding, the program is aborted.
Cancelled(o) ==
    /\ o \in stopped
    /\ \/ \E from \in {"created", "cached", "returned", "found"} : Goes(o, from, "ended")
          /\ UNCHANGED crashed
       \/ Goes(o, "running", "ended") /\ crashed' = TRUE
    /\ UNCHANGED <<objects, s_thread_cache, tid, found, client, history>>

--------------------------------------------------------------------------------
Next ==
    /\ ~crashed
    /\ \E o \in All :
          \/ New(o) \/ Run(o) \/ Join(o) \/ Joined(o) \/ Stop(o) \/ Delete(o)
          \/ EnterCache(o) \/ CallFunction(o) \/ FunctionReturns(o) \/ FindSelf(o) \/ SetDone(o)
          \/ Cancelled(o)

Spec == Init /\ [][Next]_vars

--------------------------------------------------------------------------------
\* Types, and an object is in the cache under its own m_id.
TypeOK ==
    /\ life \in [All -> {"new", "exists", "deleted"}]
    /\ m_flag \in [All -> 0 .. 4] /\ m_id \in [All -> Tids \cup {None}]
    /\ s_thread_cache \in [Tids -> All \cup {None}]
    /\ \A i \in Tids : s_thread_cache[i] # None => m_id[s_thread_cache[i]] = i
    /\ at \in [All -> {"none", "created", "cached", "running", "returned", "found", "ended"}]
    /\ tid \in [All -> Tids \cup {None}] /\ found \in [All -> All \cup {None}]
    /\ client \in [All -> {"idle", "joining"}] /\ shared \subseteq Tids /\ late \subseteq Tids

\* Objects, threads and cache agree under every id that has not been known for two objects at
\* once (and without stop()), whatever happens under others and however deletions interleave.
\* A thread never finds another's object that still exists. If no object entered the cache
\* under the id after its deletion, either: in the thread's function getCurrentThread() finds
\* the thread's own object, active() is true from run() until the function is over and false
\* afterwards, and once the object has been deleted its thread finds nothing more.
ThreadAgreesWithObject ==
    /\ \A o \in All \ stopped :
          HasThread(o) /\ tid[o] \notin shared =>
              /\ \A u \in {found[o], CurrentThread(tid[o])} \ {o, None} : ~Exists(u)
              /\ tid[o] \notin late =>
                    /\ found[o] \in {o, None}
                    /\ Exists(o) /\ at[o] \in {"running", "returned", "found"} => CurrentThread(tid[o]) = o
                    /\ ~Exists(o) => CurrentThread(tid[o]) = None
    /\ \A o \in {u \in All : Exists(u)} \ stopped :
          tid[o] \notin shared \cup late => (Active(o) <=> HasThread(o))
================================================================================
