---------------------------- MODULE ThreadLifeProofs ----------------------------
(***************************************************************************)
(* Thread objects, their threads and the cache, for every number of        *)
(* objects and ids.                                                        *)
(***************************************************************************)
EXTENDS ThreadLife, TLAPS

\* A thread has entered the cache, has tried to, or has been cancelled before.
Entered(o) == at[o] \notin {"none", "created"}
Cached(o) == at[o] \in {"cached", "running", "returned", "found"}

\* What holds of objects and threads in any case: m_flag and tid tell whether run() has been
\* called, threads have ids of their own, only objects whose threads have entered are in the
\* cache or found there, and only under the id of their thread.
Shape ==
    /\ \A o \in All :
          /\ life[o] = "new" => at[o] = "none"
          /\ m_flag[o] = 0 <=> at[o] = "none"
          /\ tid[o] = None <=> at[o] = "none"
          /\ Cached(o) => m_id[o] = tid[o]
          /\ found[o] # None => Entered(found[o]) /\ tid[found[o]] = tid[o]
          /\ at[o] = "found" => found[o] # None
    /\ \A o, u \in All : o # u /\ HasThread(o) /\ HasThread(u) => tid[o] # tid[u]
    /\ \A i \in Tids : s_thread_cache[i] # None =>
          Entered(s_thread_cache[i]) /\ tid[s_thread_cache[i]] = i

\* An id that has not been known for two objects at once and belongs to an object belongs to
\* no other object, and to no other thread.
IdsApart ==
    \A o, u \in All :
        o # u /\ Exists(u) /\ tid[u] \in Tids \ shared /\ (Exists(o) \/ HasThread(o)) =>
            tid[o] # tid[u]

\* Under an id for which neither has happened: the cache holds no deleted object, what is
\* found is one's own, and so is the entry, as long as the object exists; then it is gone.
Clean(i) == i \notin shared \cup late

CacheAlive == \A i \in Tids : Clean(i) /\ s_thread_cache[i] # None => Exists(s_thread_cache[i])
FoundOwn == \A o \in All : Clean(tid[o]) => found[o] \in {o, None}
CacheOwn == \A o \in All : Exists(o) /\ Cached(o) /\ Clean(tid[o]) => s_thread_cache[tid[o]] = o
DeadGone ==
    \A o \in All : ~Exists(o) /\ HasThread(o) /\ Clean(tid[o]) => s_thread_cache[tid[o]] = None
FlagTells ==
    \A o \in All : Exists(o) /\ o \notin stopped /\ Clean(tid[o]) => (Active(o) <=> HasThread(o))

LifeInv ==
    TypeOK /\ Shape /\ IdsApart /\ CacheAlive /\ FoundOwn /\ CacheOwn /\ DeadGone /\ FlagTells

LEMMA LifeInit == Init => LifeInv
  <1> SUFFICES ASSUME Init PROVE LifeInv
    OBVIOUS
  <1> USE ThreadsAssumption DEF Init, All, Exists
  <1>1. TypeOK
    BY DEF TypeOK
  <1>2. Shape
    BY DEF Shape, Entered, Cached, HasThread
  <1>3. CacheAlive /\ IdsApart
    BY DEF CacheAlive, IdsApart, HasThread
  <1>4. FoundOwn /\ CacheOwn /\ DeadGone /\ FlagTells
    BY DEF FoundOwn, CacheOwn, DeadGone, Cached, FlagTells, HasThread, Active
  <1> QED BY <1>1, <1>2, <1>3, <1>4 DEF LifeInv

LEMMA LifeStep == LifeInv /\ [Next]_vars => LifeInv'
  <1> SUFFICES ASSUME LifeInv, [Next]_vars PROVE LifeInv'
    OBVIOUS
  <1> USE ThreadsAssumption DEF LifeInv
  <1>1. ASSUME NEW o \in All, New(o) PROVE LifeInv'
    <2> USE <1>1 DEF New, threads, history, TypeOK, Shape, Entered, Cached, All, Exists, HasThread
    <2>1. TypeOK'
      OBVIOUS
    <2>2. Shape'
      OBVIOUS
    <2>3. CacheAlive' /\ IdsApart'
      BY DEF CacheAlive, IdsApart, Clean
    <2>4. FoundOwn'
      BY DEF CacheAlive, IdsApart, FoundOwn, Clean, CurrentThread
    <2>5. CacheOwn'
      BY DEF CacheAlive, IdsApart, CacheOwn, Clean
    <2>6. DeadGone'
      BY DEF CacheAlive, IdsApart, DeadGone, Clean
    <2>7. FlagTells'
      BY DEF CacheOwn, FoundOwn, FlagTells, Active, Clean
    <2> QED BY <2>1, <2>2, <2>3, <2>4, <2>5, <2>6, <2>7
  <1>2. ASSUME NEW o \in All, Run(o) PROVE LifeInv'
    <2> USE <1>2 DEF Run, KnownElsewhere, TypeOK, Shape, Entered, Cached, All, Exists, HasThread
    <2>1. TypeOK'
      OBVIOUS
    <2>2. Shape'
      OBVIOUS
    <2>3. CacheAlive' /\ IdsApart'
      BY DEF CacheAlive, IdsApart, Clean
    <2>4. FoundOwn'
      BY DEF CacheAlive, IdsApart, FoundOwn, Clean, CurrentThread
    <2>5. CacheOwn'
      BY DEF CacheAlive, IdsApart, CacheOwn, Clean
    <2>6. DeadGone'
      BY DEF CacheAlive, IdsApart, DeadGone, Clean
    <2>7. FlagTells'
      BY DEF CacheOwn, FoundOwn, FlagTells, Active, Clean
    <2> QED BY <2>1, <2>2, <2>3, <2>4, <2>5, <2>6, <2>7
  <1>3. ASSUME NEW o \in All, Join(o) PROVE LifeInv'
    <2> USE <1>3 DEF Join, threads, objects, history, TypeOK, Shape, Entered, Cached, All, Exists, HasThread
    <2>1. TypeOK'
      OBVIOUS
    <2>2. Shape'
      OBVIOUS
    <2>3. CacheAlive' /\ IdsApart'
      BY DEF CacheAlive, IdsApart, Clean
    <2>4. FoundOwn'
      BY DEF CacheAlive, IdsApart, FoundOwn, Clean, CurrentThread
    <2>5. CacheOwn'
      BY DEF CacheAlive, IdsApart, CacheOwn, Clean
    <2>6. DeadGone'
      BY DEF CacheAlive, IdsApart, DeadGone, Clean
    <2>7. FlagTells'
      BY DEF CacheOwn, FoundOwn, FlagTells, Active, Clean
    <2> QED BY <2>1, <2>2, <2>3, <2>4, <2>5, <2>6, <2>7
  <1>4. ASSUME NEW o \in All, Joined(o) PROVE LifeInv'
    <2> USE <1>4 DEF Joined, threads, history, TypeOK, Shape, Entered, Cached, All, Exists, HasThread
    <2>1. TypeOK'
      OBVIOUS
    <2>2. Shape'
      OBVIOUS
    <2>3. CacheAlive' /\ IdsApart'
      BY DEF CacheAlive, IdsApart, Clean
    <2>4. FoundOwn'
      BY DEF CacheAlive, IdsApart, FoundOwn, Clean, CurrentThread
    <2>5. CacheOwn'
      BY DEF CacheAlive, IdsApart, CacheOwn, Clean
    <2>6. DeadGone'
      BY DEF CacheAlive, IdsApart, DeadGone, Clean
    <2>7. FlagTells'
      BY DEF CacheOwn, FoundOwn, FlagTells, Active, Clean
    <2> QED BY <2>1, <2>2, <2>3, <2>4, <2>5, <2>6, <2>7
  <1>5. ASSUME NEW o \in All, Stop(o) PROVE LifeInv'
    <2> USE <1>5 DEF Stop, Active, threads, TypeOK, Shape, Entered, Cached, All, Exists, HasThread
    <2>1. TypeOK'
      OBVIOUS
    <2>2. Shape'
      OBVIOUS
    <2>3. CacheAlive' /\ IdsApart'
      BY DEF CacheAlive, IdsApart, Clean
    <2>4. FoundOwn'
      BY DEF CacheAlive, IdsApart, FoundOwn, Clean, CurrentThread
    <2>5. CacheOwn'
      BY DEF CacheAlive, IdsApart, CacheOwn, Clean
    <2>6. DeadGone'
      BY DEF CacheAlive, IdsApart, DeadGone, Clean
    <2>7. FlagTells'
      BY DEF CacheOwn, FoundOwn, FlagTells, Active, Clean
    <2> QED BY <2>1, <2>2, <2>3, <2>4, <2>5, <2>6, <2>7
  <1>6. ASSUME NEW o \in All, Delete(o) PROVE LifeInv'
    <2> USE <1>6 DEF Delete, threads, KnownElsewhere, TypeOK, Shape, Entered, Cached, All, Exists, HasThread
    <2>1. TypeOK'
      OBVIOUS
    <2>2. Shape'
      OBVIOUS
    <2>3. CacheAlive' /\ IdsApart'
      BY DEF CacheAlive, IdsApart, Clean
    <2>4. FoundOwn'
      BY DEF CacheAlive, IdsApart, FoundOwn, Clean, CurrentThread
    <2>5. CacheOwn'
      BY DEF CacheAlive, IdsApart, CacheOwn, Clean
    <2>6. DeadGone'
      BY DEF CacheAlive, IdsApart, DeadGone, Clean
    <2>7. FlagTells'
      BY DEF CacheOwn, FoundOwn, FlagTells, Active, Clean
    <2> QED BY <2>1, <2>2, <2>3, <2>4, <2>5, <2>6, <2>7
  <1>7. ASSUME NEW o \in All, EnterCache(o) PROVE LifeInv'
    <2> USE <1>7 DEF EnterCache, Goes, Touch, TypeOK, Shape, Entered, Cached, All, Exists, HasThread
    <2>1. TypeOK'
      OBVIOUS
    <2>2. Shape'
      OBVIOUS
    <2>3. CacheAlive' /\ IdsApart'
      BY DEF CacheAlive, IdsApart, Clean
    <2>4. FoundOwn'
      BY DEF CacheAlive, IdsApart, FoundOwn, Clean, CurrentThread
    <2>5. CacheOwn'
      BY DEF CacheAlive, IdsApart, CacheOwn, Clean
    <2>6. DeadGone'
      BY DEF CacheAlive, IdsApart, DeadGone, Clean
    <2>7. FlagTells'
      BY DEF CacheOwn, FoundOwn, FlagTells, Active, Clean
    <2> QED BY <2>1, <2>2, <2>3, <2>4, <2>5, <2>6, <2>7
  <1>8. ASSUME NEW o \in All, CallFunction(o) PROVE LifeInv'
    <2> USE <1>8 DEF CallFunction, Goes, Touch, history, TypeOK, Shape, Entered, Cached, All, Exists, HasThread
    <2>1. TypeOK'
      OBVIOUS
    <2>2. Shape'
      OBVIOUS
    <2>3. CacheAlive' /\ IdsApart'
      BY DEF CacheAlive, IdsApart, Clean
    <2>4. FoundOwn'
      BY DEF CacheAlive, IdsApart, FoundOwn, Clean, CurrentThread
    <2>5. CacheOwn'
      BY DEF CacheAlive, IdsApart, CacheOwn, Clean
    <2>6. DeadGone'
      BY DEF CacheAlive, IdsApart, DeadGone, Clean
    <2>7. FlagTells'
      BY DEF CacheOwn, FoundOwn, FlagTells, Active, Clean
    <2> QED BY <2>1, <2>2, <2>3, <2>4, <2>5, <2>6, <2>7
  <1>9. ASSUME NEW o \in All, FunctionReturns(o) PROVE LifeInv'
    <2> USE <1>9 DEF FunctionReturns, Goes, objects, history, TypeOK, Shape, Entered, Cached, All, Exists, HasThread
    <2>1. TypeOK'
      OBVIOUS
    <2>2. Shape'
      OBVIOUS
    <2>3. CacheAlive' /\ IdsApart'
      BY DEF CacheAlive, IdsApart, Clean
    <2>4. FoundOwn'
      BY DEF CacheAlive, IdsApart, FoundOwn, Clean, CurrentThread
    <2>5. CacheOwn'
      BY DEF CacheAlive, IdsApart, CacheOwn, Clean
    <2>6. DeadGone'
      BY DEF CacheAlive, IdsApart, DeadGone, Clean
    <2>7. FlagTells'
      BY DEF CacheOwn, FoundOwn, FlagTells, Active, Clean
    <2> QED BY <2>1, <2>2, <2>3, <2>4, <2>5, <2>6, <2>7
  <1>10. ASSUME NEW o \in All, FindSelf(o) PROVE LifeInv'
    <2> USE <1>10 DEF FindSelf, Goes, CurrentThread, objects, history, TypeOK, Shape, Entered, Cached, All, Exists, HasThread
    <2>1. TypeOK'
      OBVIOUS
    <2>2. Shape'
      OBVIOUS
    <2>3. CacheAlive' /\ IdsApart'
      BY DEF CacheAlive, IdsApart, Clean
    <2>4. FoundOwn'
      BY DEF CacheAlive, IdsApart, FoundOwn, Clean, CurrentThread
    <2>5. CacheOwn'
      BY DEF CacheAlive, IdsApart, CacheOwn, Clean
    <2>6. DeadGone'
      BY DEF CacheAlive, IdsApart, DeadGone, Clean
    <2>7. FlagTells'
      BY DEF CacheOwn, FoundOwn, FlagTells, Active, Clean
    <2> QED BY <2>1, <2>2, <2>3, <2>4, <2>5, <2>6, <2>7
  <1>11. ASSUME NEW o \in All, SetDone(o) PROVE LifeInv'
    <2> USE <1>11 DEF SetDone, Goes, Touch, history, TypeOK, Shape, Entered, Cached, All, Exists, HasThread
    <2>1. TypeOK'
      OBVIOUS
    <2>2. Shape'
      OBVIOUS
    <2>3. CacheAlive' /\ IdsApart'
      BY DEF CacheAlive, IdsApart, Clean
    <2>4. FoundOwn'
      BY DEF CacheAlive, IdsApart, FoundOwn, Clean, CurrentThread
    <2>5. CacheOwn'
      BY DEF CacheAlive, IdsApart, CacheOwn, Clean
    <2>6. DeadGone'
      BY DEF CacheAlive, IdsApart, DeadGone, Clean
    <2>7. FlagTells'
      BY DEF CacheOwn, FoundOwn, FlagTells, Active, Clean
    <2> QED BY <2>1, <2>2, <2>3, <2>4, <2>5, <2>6, <2>7
  <1>12. ASSUME NEW o \in All, Cancelled(o) PROVE LifeInv'
    <2> USE <1>12 DEF Cancelled, Goes, objects, history, TypeOK, Shape, Entered, Cached, All, Exists, HasThread
    <2>1. TypeOK'
      OBVIOUS
    <2>2. Shape'
      OBVIOUS
    <2>3. CacheAlive' /\ IdsApart'
      BY DEF CacheAlive, IdsApart, Clean
    <2>4. FoundOwn'
      BY DEF CacheAlive, IdsApart, FoundOwn, Clean, CurrentThread
    <2>5. CacheOwn'
      BY DEF CacheAlive, IdsApart, CacheOwn, Clean
    <2>6. DeadGone'
      BY DEF CacheAlive, IdsApart, DeadGone, Clean
    <2>7. FlagTells'
      BY DEF CacheOwn, FoundOwn, FlagTells, Active, Clean
    <2> QED BY <2>1, <2>2, <2>3, <2>4, <2>5, <2>6, <2>7
  <1>13. CASE UNCHANGED vars
    BY <1>13 DEF vars, objects, threads, history, TypeOK, Shape, Entered, Cached, CacheAlive, IdsApart,
                FoundOwn, CacheOwn, DeadGone, FlagTells, Clean, Exists, HasThread, Active
  <1> QED BY <1>1, <1>2, <1>3, <1>4, <1>5, <1>6, <1>7, <1>8, <1>9, <1>10, <1>11, <1>12, <1>13
          DEF Next

\* The type invariant; whatever is in the cache is there under its own m_id.
THEOREM ThreadTypes == Spec => []TypeOK
  BY LifeInit, LifeStep, PTL DEF Spec, LifeInv

\* Object, thread and cache agree under every id that has not been known for two objects at
\* once, for every number of threads, however runs, joins, deletions and ends of threads
\* interleave, before a thread has started as well.
THEOREM ThreadsAgree == Spec => []ThreadAgreesWithObject
  <1>1. LifeInv => ThreadAgreesWithObject
    <2> SUFFICES ASSUME LifeInv PROVE ThreadAgreesWithObject
      OBVIOUS
    <2> USE ThreadsAssumption DEF LifeInv, CurrentThread
    <2>1. ASSUME NEW o \in All, HasThread(o), tid[o] \notin shared,
                 NEW u \in {found[o], CurrentThread(tid[o])} \ {o, None}
          PROVE  ~Exists(u)
      <3>1. tid[o] \in Tids
        BY <2>1 DEF TypeOK, Shape, HasThread
      <3>2. u \in All /\ tid[u] = tid[o]
        BY <2>1, <3>1 DEF TypeOK, Shape
      <3> QED BY <2>1, <3>1, <3>2 DEF IdsApart
    <2>2. ASSUME NEW o \in All, HasThread(o), tid[o] \notin shared, tid[o] \notin late
          PROVE  /\ found[o] \in {o, None}
                 /\ Exists(o) /\ at[o] \in {"running", "returned", "found"} => CurrentThread(tid[o]) = o
                 /\ ~Exists(o) => CurrentThread(tid[o]) = None
      BY <2>2 DEF FoundOwn, CacheOwn, DeadGone, Cached, Clean
    <2>3. ASSUME NEW o \in All, Exists(o), o \notin stopped, tid[o] \notin shared \cup late
          PROVE  Active(o) <=> HasThread(o)
      BY <2>3 DEF FlagTells, Clean
    <2> QED BY <2>1, <2>2, <2>3 DEF ThreadAgreesWithObject
  <1> QED BY <1>1, LifeInit, LifeStep, PTL DEF Spec
================================================================================
