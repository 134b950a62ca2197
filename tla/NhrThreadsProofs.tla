--------------------------- MODULE NhrThreadsProofs ---------------------------
(***************************************************************************)
(* Theorems about the joiner, for every finite set of threads, when the    *)
(* calls of nhr_thread_create exclude each other (SerialCreate); without   *)
(* that TLC refutes JoinedOnce.                                            *)
(***************************************************************************)
EXTENDS NhrThreads, TLAPS

USE DEF vars, Pointer, CreateLabels, Section, ThreadLabels

\* Every step keeps every variable in its type; a thread that runs finds the
\* joiner created, so that it never follows the null pointer.
LEMMA TypeStep ==
    ASSUME SerialCreate, IInv, [Next]_vars
    PROVE  TypeOK'
<1> USE ThreadsAssumption DEF IInv, TypeOK, CreateInv, Ready
<1> SUFFICES ASSUME NEW t \in Threads,
                    nhr_thread_create(t) \/ Creating(t) \/ Running(t)
             PROVE  TypeOK'
  BY DEF Next, Terminating
<1>1. CASE nhr_thread_create(t)
  BY <1>1 DEF nhr_thread_create
<1>2. CASE create_ifneed_check(t)
  BY <1>2 DEF create_ifneed_check
<1>3. CASE create_ifneed_alloc(t)
  BY <1>3 DEF create_ifneed_alloc
<1>4. CASE create_ifneed_mutex(t)
  BY <1>4 DEF create_ifneed_mutex
<1>5. CASE create_spawn(t)
  BY <1>5 DEF create_spawn
<1>6. CASE nhr_thread_func_priv(t)
  BY <1>6 DEF nhr_thread_func_priv, Step
<1>7. CASE nhr_mutex_lock(t)
  BY <1>7 DEF nhr_mutex_lock, Step
<1>8. CASE mutex_acquire(t)
  BY <1>8 DEF mutex_acquire, Step
<1>9. CASE joiner_clean(t)
  BY <1>9 DEF joiner_clean, Step
<1>10. CASE joiner_take(t)
  BY <1>10 DEF joiner_take, Step
<1>11. CASE joiner_join(t)
  BY <1>11 DEF joiner_join, Step
<1>12. CASE joiner_add(t)
  BY <1>12 DEF joiner_add, Step
<1>13. CASE nhr_mutex_unlock(t)
  BY <1>13 DEF nhr_mutex_unlock, Step
<1>14. CASE thread_exit(t)
  BY <1>14 DEF thread_exit, Step
<1>15. QED
  BY <1>1, <1>2, <1>3, <1>4, <1>5, <1>6, <1>7, <1>8, <1>9, <1>10, <1>11,
     <1>12, <1>13, <1>14 DEF Creating, Running, Joining

\* Every step keeps the order in which the joiner is created.
LEMMA CreateStep ==
    ASSUME SerialCreate, IInv, [Next]_vars
    PROVE  CreateInv'
<1> USE ThreadsAssumption DEF IInv, TypeOK, CreateInv, Ready
<1> SUFFICES ASSUME NEW t \in Threads,
                    nhr_thread_create(t) \/ Creating(t) \/ Running(t)
             PROVE  CreateInv'
  BY DEF Next, Terminating
<1>1. CASE nhr_thread_create(t)
  BY <1>1 DEF nhr_thread_create
<1>2. CASE create_ifneed_check(t)
  BY <1>2 DEF create_ifneed_check
<1>3. CASE create_ifneed_alloc(t)
  BY <1>3 DEF create_ifneed_alloc
<1>4. CASE create_ifneed_mutex(t)
  BY <1>4 DEF create_ifneed_mutex
<1>5. CASE create_spawn(t)
  BY <1>5 DEF create_spawn
<1>6. CASE nhr_thread_func_priv(t)
  BY <1>6 DEF nhr_thread_func_priv, Step
<1>7. CASE nhr_mutex_lock(t)
  BY <1>7 DEF nhr_mutex_lock, Step
<1>8. CASE mutex_acquire(t)
  BY <1>8 DEF mutex_acquire, Step
<1>9. CASE joiner_clean(t)
  BY <1>9 DEF joiner_clean, Step
<1>10. CASE joiner_take(t)
  BY <1>10 DEF joiner_take, Step
<1>11. CASE joiner_join(t)
  BY <1>11 DEF joiner_join, Step
<1>12. CASE joiner_add(t)
  BY <1>12 DEF joiner_add, Step
<1>13. CASE nhr_mutex_unlock(t)
  BY <1>13 DEF nhr_mutex_unlock, Step
<1>14. CASE thread_exit(t)
  BY <1>14 DEF thread_exit, Step
<1>15. QED
  BY <1>1, <1>2, <1>3, <1>4, <1>5, <1>6, <1>7, <1>8, <1>9, <1>10, <1>11,
     <1>12, <1>13, <1>14 DEF Creating, Running, Joining

\* Every step keeps the owner of the mutex and the thread in the section the same.
LEMMA MutexStep ==
    ASSUME SerialCreate, IInv, [Next]_vars
    PROVE  MutexInv'
<1> USE ThreadsAssumption DEF IInv, TypeOK, CreateInv, Ready, MutexInv
<1> SUFFICES ASSUME NEW t \in Threads,
                    nhr_thread_create(t) \/ Creating(t) \/ Running(t)
             PROVE  MutexInv'
  BY DEF Next, Terminating
<1>1. CASE nhr_thread_create(t)
  BY <1>1 DEF nhr_thread_create
<1>2. CASE create_ifneed_check(t)
  BY <1>2 DEF create_ifneed_check
<1>3. CASE create_ifneed_alloc(t)
  BY <1>3 DEF create_ifneed_alloc
<1>4. CASE create_ifneed_mutex(t)
  BY <1>4 DEF create_ifneed_mutex
<1>5. CASE create_spawn(t)
  BY <1>5 DEF create_spawn
<1>6. CASE nhr_thread_func_priv(t)
  BY <1>6 DEF nhr_thread_func_priv, Step
<1>7. CASE nhr_mutex_lock(t)
  BY <1>7 DEF nhr_mutex_lock, Step
<1>8. CASE mutex_acquire(t)
  BY <1>8 DEF mutex_acquire, Step
<1>9. CASE joiner_clean(t)
  BY <1>9 DEF joiner_clean, Step
<1>10. CASE joiner_take(t)
  BY <1>10 DEF joiner_take, Step
<1>11. CASE joiner_join(t)
  BY <1>11 DEF joiner_join, Step
<1>12. CASE joiner_add(t)
  BY <1>12 DEF joiner_add, Step
<1>13. CASE nhr_mutex_unlock(t)
  BY <1>13 DEF nhr_mutex_unlock, Step
<1>14. CASE thread_exit(t)
  BY <1>14 DEF thread_exit, Step
<1>15. QED
  BY <1>1, <1>2, <1>3, <1>4, <1>5, <1>6, <1>7, <1>8, <1>9, <1>10, <1>11,
     <1>12, <1>13, <1>14 DEF Creating, Running, Joining

\* Every step keeps each unjoined handle in one place.
LEMMA HandleStep ==
    ASSUME SerialCreate, IInv, [Next]_vars
    PROVE  HandleInv'
<1> USE ThreadsAssumption DEF IInv, TypeOK, CreateInv, Ready, MutexInv, HandleInv, HandlePlace
<1> SUFFICES ASSUME NEW t \in Threads,
                    nhr_thread_create(t) \/ Creating(t) \/ Running(t)
             PROVE  HandleInv'
  BY DEF Next, Terminating
<1>1. CASE nhr_thread_create(t)
  BY <1>1 DEF nhr_thread_create
<1>2. CASE create_ifneed_check(t)
  BY <1>2 DEF create_ifneed_check
<1>3. CASE create_ifneed_alloc(t)
  BY <1>3 DEF create_ifneed_alloc
<1>4. CASE create_ifneed_mutex(t)
  BY <1>4 DEF create_ifneed_mutex
<1>5. CASE create_spawn(t)
  <2>1. ASSUME NEW u \in Threads
        PROVE  HandlePlace(u)'
    <3>1. CASE u = t
      BY <1>5, <3>1 DEF create_spawn
    <3>2. CASE u # t
      <4>1. tpc[t] = "none" /\ UNCHANGED <<thread, mutex, _threads_joiner, prev>>
        BY <1>5 DEF create_spawn
      <4>2. \A w \in Threads \ {t} : tpc'[w] = tpc[w] /\ handle'[w] = handle[w]
        BY <1>5 DEF create_spawn
      <4>3. tpc[u] \in {"exit", "exited"} /\ handle[u] = "live"
              /\ thread[_threads_joiner] # u
            => \E w \in Threads \ {t} : tpc[w] \in {"take", "join"} /\ prev[w] = u
        BY <4>1
      <4>4. tpc[u] \in {"take", "join"} => prev[u] \in Threads \ {t}
        BY <4>1
      <4>5. QED
        BY <3>2, <4>1, <4>2, <4>3, <4>4
    <3>3. QED
      BY <3>1, <3>2
  <2>2. QED
    BY <2>1
<1>6. CASE nhr_thread_func_priv(t)
  BY <1>6 DEF nhr_thread_func_priv, Step
<1>7. CASE nhr_mutex_lock(t)
  BY <1>7 DEF nhr_mutex_lock, Step
<1>8. CASE mutex_acquire(t)
  BY <1>8 DEF mutex_acquire, Step
<1>9. CASE joiner_clean(t)
  BY <1>9 DEF joiner_clean, Step
<1>10. CASE joiner_take(t)
  <2>1. ASSUME NEW u \in Threads
        PROVE  HandlePlace(u)'
    <3>1. CASE u = t
      BY <1>10, <3>1 DEF joiner_take, Step
    <3>2. CASE u # t
      BY <1>10, <3>2 DEF joiner_take, Step
    <3>3. QED
      BY <3>1, <3>2
  <2>2. QED
    BY <2>1
<1>11. CASE joiner_join(t)
  <2>1. ASSUME NEW u \in Threads
        PROVE  HandlePlace(u)'
    <3>1. CASE u = t
      BY <1>11, <3>1 DEF joiner_join, Step
    <3>2. CASE u # t
      BY <1>11, <3>2, SMTT(30) DEF joiner_join, Step
    <3>3. QED
      BY <3>1, <3>2
  <2>2. QED
    BY <2>1
<1>12. CASE joiner_add(t)
  BY <1>12, SMTT(30) DEF joiner_add, Step
<1>13. CASE nhr_mutex_unlock(t)
  BY <1>13 DEF nhr_mutex_unlock, Step
<1>14. CASE thread_exit(t)
  BY <1>14 DEF thread_exit, Step
<1>15. QED
  BY <1>1, <1>2, <1>3, <1>4, <1>5, <1>6, <1>7, <1>8, <1>9, <1>10, <1>11,
     <1>12, <1>13, <1>14 DEF Creating, Running, Joining

\* The inductive invariant holds initially ...
LEMMA InvInit == Init => IInv
BY ThreadsAssumption
   DEF Init, IInv, TypeOK, CreateInv, MutexInv, HandleInv, HandlePlace, Ready

\* ... and in every state.
THEOREM Invariance ==
    ASSUME SerialCreate
    PROVE  Spec => []IInv
<1>1. IInv /\ [Next]_vars => IInv'
  BY TypeStep, CreateStep, MutexStep, HandleStep DEF IInv
<1>2. QED
  BY InvInit, <1>1, PTL DEF Spec

\* One thread at a time is in nhr_threads_joiner_add, for any number of threads.
THEOREM MutualExclusion ==
    ASSUME SerialCreate
    PROVE  Spec => []OneInSection
<1>1. IInv => OneInSection
  BY DEF IInv, MutexInv, OneInSection
<1>2. QED
  BY Invariance, <1>1, PTL

\* pthread_join is called once for each thread, on a handle that was not freed.
THEOREM JoinSafety ==
    ASSUME SerialCreate
    PROVE  Spec => []JoinedOnce
<1>1. IInv => JoinedOnce
  BY DEF IInv, MutexInv, HandleInv, HandlePlace, JoinedOnce
<1>2. QED
  BY Invariance, <1>1, PTL

\* Every ended thread but the last one is joined: its handle is never lost.
THEOREM NoLeak ==
    ASSUME SerialCreate
    PROVE  Spec => []NoThreadLost
<1>1. IInv => NoThreadLost
  BY DEF IInv, CreateInv, Ready, HandleInv, HandlePlace, NoThreadLost
<1>2. QED
  BY Invariance, <1>1, PTL
=============================================================================
