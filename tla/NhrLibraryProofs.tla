--------------------------- MODULE NhrLibraryProofs ---------------------------
(***************************************************************************)
(* Theorems about several requests at once, for every finite set of them.  *)
(* The threads of the composition behave as NhrThreads says, so its        *)
(* theorems carry over; what a request has come to when its thread is      *)
(* handed to the joiner is an invariant of its own.                        *)
(***************************************************************************)
EXTENDS NhrLibrary, NhrThreadsProofs

USE DEF vars, allVars, libVars, Pointer

\* What the client and the work thread do to a request leaves the threads alone.
LEMMA RequestStep ==
    ASSUME NEW t \in Threads, create(t) \/ cancel(t) \/ inform(t) \/ release(t)
    PROVE  UNCHANGED vars
BY DEF create, cancel, inform, release

\* Every step of the composition is a step of the threads, or none.
LEMMA ThreadStep == [LibNext]_allVars => [Next]_vars
<1> SUFFICES ASSUME LibNext
             PROVE  [Next]_vars
  OBVIOUS
<1>1. ASSUME NEW t \in Threads, create(t) \/ cancel(t) \/ inform(t) \/ release(t)
      PROVE  [Next]_vars
  BY <1>1, RequestStep
<1>2. ASSUME NEW t \in Threads, NEW c \in Pointer, send(t, c)
      PROVE  [Next]_vars
  BY <1>2 DEF send, Next
<1>3. ASSUME NEW t \in Threads, Starting(t)
      PROVE  [Next]_vars
  BY <1>3 DEF Starting, spawn, Next, Creating
<1>4. ASSUME NEW t \in Threads, Ending(t)
      PROVE  [Next]_vars
  BY <1>4 DEF Ending, thread_func_returns, Next, Running
<1>5. ASSUME LibTerminating
      PROVE  [Next]_vars
  BY <1>5 DEF LibTerminating
<1>6. QED
  BY <1>1, <1>2, <1>3, <1>4, <1>5 DEF LibNext

\* The composition implements NhrThreads: an application that sends from its
\* callbacks and requests that take their time use the joiner as it expects.
THEOREM LibraryImplementsThreads == LibSpec => Spec
<1>1. LibInit => Init
  BY DEF LibInit
<1>2. QED
  BY <1>1, ThreadStep, PTL DEF LibSpec, Spec

\* So the invariant of the threads holds in the composition, ...
THEOREM LibraryThreadInvariance ==
    ASSUME SerialCreate
    PROVE  LibSpec => []IInv
BY LibraryImplementsThreads, Invariance, PTL

\* ... and what it implies: one thread at a time is in the joiner, ...
THEOREM LibraryMutualExclusion ==
    ASSUME SerialCreate
    PROVE  LibSpec => []OneInSection
BY LibraryImplementsThreads, MutualExclusion, PTL

\* ... each thread is joined once, ...
THEOREM LibraryJoinSafety ==
    ASSUME SerialCreate
    PROVE  LibSpec => []JoinedOnce
BY LibraryImplementsThreads, JoinSafety, PTL

\* ... and none is lost.
THEOREM LibraryNoLeak ==
    ASSUME SerialCreate
    PROVE  LibSpec => []NoThreadLost
BY LibraryImplementsThreads, NoLeak, PTL

\* Every step keeps the phases true to the threads.
LEMMA PhaseStep ==
    ASSUME IInv, LibInv, [LibNext]_allVars
    PROVE  LibInv'
<1> USE ThreadsAssumption DEF IInv, TypeOK, LibInv, LibTypeOK, Sending
<1>1. ASSUME NEW t \in Threads, create(t)
      PROVE  LibInv'
  BY <1>1 DEF create, Become, Contract!Create
<1>2. ASSUME NEW t \in Threads, cancel(t)
      PROVE  LibInv'
  BY <1>2 DEF cancel, Contract!Cancel
<1>3. ASSUME NEW t \in Threads, inform(t)
      PROVE  LibInv'
  BY <1>3 DEF inform, Become, Contract!Inform
<1>4. ASSUME NEW t \in Threads, release(t)
      PROVE  LibInv'
  BY <1>4 DEF release, Become
<1>5. ASSUME NEW t \in Threads, NEW c \in Pointer, send(t, c)
      PROVE  LibInv'
  BY <1>5 DEF send, nhr_thread_create
<1>6. ASSUME NEW t \in Threads, spawn(t)
      PROVE  LibInv'
  BY <1>6 DEF spawn, create_spawn, Become, Contract!Start
<1>7. ASSUME NEW t \in Threads, UNCHANGED libVars,
             create_ifneed_check(t) \/ create_ifneed_alloc(t) \/ create_ifneed_mutex(t)
      PROVE  LibInv'
  BY <1>7 DEF create_ifneed_check, create_ifneed_alloc, create_ifneed_mutex
<1>8. ASSUME NEW t \in Threads, thread_func_returns(t)
      PROVE  LibInv'
  BY <1>8 DEF thread_func_returns, nhr_thread_func_priv, Step
<1>9. ASSUME NEW t \in Threads, Joining(t), UNCHANGED libVars
      PROVE  LibInv'
  <2>1. /\ tpc[t] \notin {"none", "run"}
        /\ \A u \in Threads \ {t} : tpc'[u] = tpc[u]
        /\ UNCHANGED cpc
    BY <1>9 DEF Joining, Step, nhr_mutex_lock, mutex_acquire, joiner_clean, joiner_take,
                joiner_join, joiner_add, nhr_mutex_unlock, thread_exit
  <2>2. QED
    BY <1>9, <2>1
<1>10. ASSUME UNCHANGED allVars
       PROVE  LibInv'
  BY <1>10
<1>11. QED
  BY <1>1, <1>2, <1>3, <1>4, <1>5, <1>6, <1>7, <1>8, <1>9, <1>10
     DEF LibNext, Starting, Ending, LibTerminating

\* The phases agree with the threads in every state.
THEOREM PhaseInvariance ==
    ASSUME SerialCreate
    PROVE  LibSpec => []LibInv
<1>1. LibInit => LibInv
  BY ThreadsAssumption DEF LibInit, Init, LibInv, LibTypeOK, Sending
<1>2. IInv /\ LibInv /\ [LibNext]_allVars => LibInv'
  BY PhaseStep
<1>3. QED
  BY LibraryThreadInvariance, <1>1, <1>2, PTL DEF LibSpec

\* For any number of requests pthread_join only waits for a thread that has
\* released its request and is about to end.
THEOREM JoinsReleased ==
    ASSUME SerialCreate
    PROVE  LibSpec => []JoinsOnlyReleased
<1>1. IInv /\ LibInv => JoinsOnlyReleased
  BY DEF IInv, HandleInv, HandlePlace, LibInv, JoinsOnlyReleased
<1>2. QED
  BY LibraryThreadInvariance, PhaseInvariance, <1>1, PTL
=============================================================================
