------------------------------ MODULE NhrThreads ------------------------------
(***************************************************************************)
(* The threads of libnhr and the joiner that reclaims them (nhr_thread.c). *)
(*                                                                         *)
(* A thread that ends cannot join itself.  It leaves its handle in the     *)
(* global _threads_joiner and joins the thread whose handle it finds there,*)
(* while it holds the joiner's mutex.  The joiner is created by the first  *)
(* nhr_thread_create, without a lock.                                      *)
(*                                                                         *)
(* A member of Threads is one handle: the call of nhr_thread_create that   *)
(* makes it (cpc) and the thread it starts (tpc).  A joiner and a mutex    *)
(* carry the name of the call that allocated them.                         *)
(***************************************************************************)
EXTENDS Naturals, FiniteSets

CONSTANTS
    Threads,      \* the handles that are created in a behaviour
    Null,         \* the null pointer
    SerialCreate  \* calls of nhr_thread_create exclude each other

ASSUME ThreadsAssumption == IsFiniteSet(Threads) /\ Null \notin Threads
ASSUME SerialAssumption  == SerialCreate \in BOOLEAN

VARIABLES
    cpc,             \* where the call of nhr_thread_create stands
    tpc,             \* where the thread stands
    handle,          \* the nhr_thread_struct: "none", "live" or "freed"
    _threads_joiner, \* the global pointer
    thread,          \* j->thread of a joiner j
    mutex,           \* j->mutex of a joiner j
    owner,           \* who holds a mutex
    awaited,         \* the mutex a thread is locking
    prev             \* the local t of nhr_threads_joiner_clean

vars == <<cpc, tpc, handle, _threads_joiner, thread, mutex, owner, awaited, prev>>

Pointer == Threads \cup {Null}

CreateLabels == {"check", "alloc", "mutex", "spawn"}

\* From nhr_threads_joiner_clean to the unlock at the end of joiner_add.
Section == {"clean", "take", "join", "store", "unlock"}

ThreadLabels == {"run", "lock", "acquire", "exit"} \cup Section

TypeOK ==
    /\ cpc \in [Threads -> CreateLabels \cup {"idle", "done"}]
    /\ tpc \in [Threads -> ThreadLabels \cup {"none", "exited"}]
    /\ handle \in [Threads -> {"none", "live", "freed"}]
    /\ _threads_joiner \in Pointer
    /\ thread \in [Threads -> Pointer]
    /\ mutex \in [Threads -> Pointer]
    /\ owner \in [Threads -> Pointer]
    /\ awaited \in [Threads -> Pointer]
    /\ prev \in [Threads -> Pointer]

Init ==
    /\ cpc = [t \in Threads |-> "idle"]
    /\ tpc = [t \in Threads |-> "none"]
    /\ handle = [t \in Threads |-> "none"]
    /\ _threads_joiner = Null
    /\ thread = [t \in Threads |-> Null]
    /\ mutex = [t \in Threads |-> Null]
    /\ owner = [t \in Threads |-> Null]
    /\ awaited = [t \in Threads |-> Null]
    /\ prev = [t \in Threads |-> Null]

-----------------------------------------------------------------------------
(***************************************************************************)
(* nhr_thread_create.                                                      *)
(***************************************************************************)

nhr_thread_create(t) ==
    /\ cpc[t] = "idle"
    /\ SerialCreate => \A u \in Threads : cpc[u] \notin CreateLabels
    /\ cpc' = [cpc EXCEPT ![t] = "check"]
    /\ UNCHANGED <<tpc, handle, _threads_joiner, thread, mutex, owner, awaited, prev>>

\* nhr_threads_joiner_create_ifneed: test, allocation, mutex.
create_ifneed_check(t) ==
    /\ cpc[t] = "check"
    /\ cpc' = [cpc EXCEPT ![t] = IF _threads_joiner = Null THEN "alloc" ELSE "spawn"]
    /\ UNCHANGED <<tpc, handle, _threads_joiner, thread, mutex, owner, awaited, prev>>

create_ifneed_alloc(t) ==
    /\ cpc[t] = "alloc"
    /\ _threads_joiner' = t
    /\ cpc' = [cpc EXCEPT ![t] = "mutex"]
    /\ UNCHANGED <<tpc, handle, thread, mutex, owner, awaited, prev>>

\* The new mutex goes to the joiner the global pointer names by now.
create_ifneed_mutex(t) ==
    /\ cpc[t] = "mutex"
    /\ mutex' = [mutex EXCEPT ![_threads_joiner] = t]
    /\ cpc' = [cpc EXCEPT ![t] = "spawn"]
    /\ UNCHANGED <<tpc, handle, _threads_joiner, thread, owner, awaited, prev>>

\* The handle is allocated and pthread_create starts the thread.
create_spawn(t) ==
    /\ cpc[t] = "spawn"
    /\ handle' = [handle EXCEPT ![t] = "live"]
    /\ tpc' = [tpc EXCEPT ![t] = "run"]
    /\ cpc' = [cpc EXCEPT ![t] = "done"]
    /\ UNCHANGED <<_threads_joiner, thread, mutex, owner, awaited, prev>>

Creating(t) ==
    \/ create_ifneed_check(t) \/ create_ifneed_alloc(t)
    \/ create_ifneed_mutex(t) \/ create_spawn(t)

-----------------------------------------------------------------------------
(***************************************************************************)
(* nhr_thread_func_priv and nhr_threads_joiner_add.                        *)
(***************************************************************************)

\* The thread goes from one label to another.
Step(t, from, to) == tpc[t] = from /\ tpc' = [tpc EXCEPT ![t] = to]

\* The thread function returns.
nhr_thread_func_priv(t) ==
    /\ Step(t, "run", "lock")
    /\ UNCHANGED <<cpc, handle, _threads_joiner, thread, mutex, owner, awaited, prev>>

\* Mutant: the joiner is used without its mutex.
nhr_mutex_lock_skipped(t) ==
    /\ Step(t, "lock", "clean")
    /\ awaited' = [awaited EXCEPT ![t] = mutex[_threads_joiner]]
    /\ UNCHANGED <<cpc, handle, _threads_joiner, thread, mutex, owner, prev>>

\* nhr_mutex_lock reads the mutex of the joiner and does nothing if it is NULL.
nhr_mutex_lock(t) ==
    /\ Step(t, "lock", IF mutex[_threads_joiner] = Null THEN "clean" ELSE "acquire")
    /\ awaited' = [awaited EXCEPT ![t] = mutex[_threads_joiner]]
    /\ UNCHANGED <<cpc, handle, _threads_joiner, thread, mutex, owner, prev>>

\* Mutant: the lock does not wait for the owner.
mutex_acquire_unchecked(t) ==
    /\ Step(t, "acquire", "clean")
    /\ owner' = [owner EXCEPT ![awaited[t]] = t]
    /\ UNCHANGED <<cpc, handle, _threads_joiner, thread, mutex, awaited, prev>>

mutex_acquire(t) ==
    /\ Step(t, "acquire", "clean")
    /\ owner[awaited[t]] = Null
    /\ owner' = [owner EXCEPT ![awaited[t]] = t]
    /\ UNCHANGED <<cpc, handle, _threads_joiner, thread, mutex, awaited, prev>>

\* Mutant: the handle of the last thread is overlooked.
joiner_clean_nothing(t) ==
    /\ Step(t, "clean", "store")
    /\ UNCHANGED <<cpc, handle, _threads_joiner, thread, mutex, owner, awaited, prev>>

\* nhr_threads_joiner_clean reads the handle left by the last thread ...
joiner_clean(t) ==
    /\ Step(t, "clean", IF thread[_threads_joiner] = Null THEN "store" ELSE "take")
    /\ prev' = [prev EXCEPT ![t] = thread[_threads_joiner]]
    /\ UNCHANGED <<cpc, handle, _threads_joiner, thread, mutex, owner, awaited>>

\* Mutant: the handle stays in the joiner while it is joined and freed.
joiner_take_left(t) ==
    /\ Step(t, "take", "join")
    /\ UNCHANGED <<cpc, handle, _threads_joiner, thread, mutex, owner, awaited, prev>>

\* ... takes it out of the joiner ...
joiner_take(t) ==
    /\ Step(t, "take", "join")
    /\ thread' = [thread EXCEPT ![_threads_joiner] = Null]
    /\ UNCHANGED <<cpc, handle, _threads_joiner, mutex, owner, awaited, prev>>

\* ... waits in pthread_join until that thread has ended, and frees it.
joiner_join(t) ==
    /\ Step(t, "join", "store")
    /\ handle[prev[t]] = "live" /\ tpc[prev[t]] = "exited"
    /\ handle' = [handle EXCEPT ![prev[t]] = "freed"]
    /\ UNCHANGED <<cpc, _threads_joiner, thread, mutex, owner, awaited, prev>>

\* nhr_threads_joiner_add leaves its own handle.
joiner_add(t) ==
    /\ Step(t, "store", "unlock")
    /\ thread' = [thread EXCEPT ![_threads_joiner] = t]
    /\ UNCHANGED <<cpc, handle, _threads_joiner, mutex, owner, awaited, prev>>

\* Mutant: the mutex is not unlocked.
nhr_mutex_unlock_forgotten(t) ==
    /\ Step(t, "unlock", "exit")
    /\ UNCHANGED <<cpc, handle, _threads_joiner, thread, mutex, owner, awaited, prev>>

\* Unlocking a recursive mutex of another owner fails and changes nothing.
nhr_mutex_unlock(t) ==
    /\ Step(t, "unlock", "exit")
    /\ owner' = [m \in Threads |-> IF m = mutex[_threads_joiner] /\ owner[m] = t
                                   THEN Null ELSE owner[m]]
    /\ UNCHANGED <<cpc, handle, _threads_joiner, thread, mutex, awaited, prev>>

thread_exit(t) ==
    /\ Step(t, "exit", "exited")
    /\ UNCHANGED <<cpc, handle, _threads_joiner, thread, mutex, owner, awaited, prev>>

\* What is left to a thread whose function has returned.
Joining(t) ==
    \/ nhr_mutex_lock(t) \/ mutex_acquire(t)
    \/ joiner_clean(t) \/ joiner_take(t) \/ joiner_join(t) \/ joiner_add(t)
    \/ nhr_mutex_unlock(t) \/ thread_exit(t)

Running(t) == nhr_thread_func_priv(t) \/ Joining(t)

-----------------------------------------------------------------------------
Terminating ==
    /\ \A t \in Threads : cpc[t] = "done" /\ tpc[t] = "exited"
    /\ UNCHANGED vars

Next ==
    \/ \E t \in Threads : nhr_thread_create(t) \/ Creating(t) \/ Running(t)
    \/ Terminating

Spec == Init /\ [][Next]_vars

-----------------------------------------------------------------------------
(***************************************************************************)
(* Properties.                                                             *)
(***************************************************************************)

\* The joiner's mutex works: one thread at a time is between the lock and the
\* unlock of nhr_threads_joiner_add, although pthread_join blocks in there.
OneInSection ==
    \A t, u \in Threads : tpc[t] \in Section /\ tpc[u] \in Section => t = u

\* pthread_join is called once for a thread: the handle that a thread is about
\* to join was not freed, is not its own and no other thread is joining it.
JoinedOnce ==
    \A t \in Threads : tpc[t] \in {"take", "join"} =>
        /\ prev[t] \in Threads \ {t}
        /\ handle[prev[t]] = "live"
        /\ \A u \in Threads \ {t} : tpc[u] \in {"take", "join"} => prev[u] # prev[t]

\* No ended thread is lost: until it is joined and its handle freed, its handle
\* is in the joiner or a thread is about to join it.  So one handle at most is
\* left over when all threads have ended.
NoThreadLost ==
    \A t \in Threads : tpc[t] = "exited" /\ handle[t] = "live" =>
        \/ _threads_joiner # Null /\ thread[_threads_joiner] = t
        \/ \E u \in Threads : tpc[u] \in {"take", "join"} /\ prev[u] = t

-----------------------------------------------------------------------------
(***************************************************************************)
(* The inductive invariant behind the safety properties.                   *)
(***************************************************************************)

\* The joiner and its mutex are there.
Ready == _threads_joiner # Null /\ mutex[_threads_joiner] # Null

\* How far the first nhr_thread_create has come with the joiner.
CreateInv ==
    /\ \A t, u \in Threads : cpc[t] \in CreateLabels /\ cpc[u] \in CreateLabels => t = u
    /\ \A t \in Threads : cpc[t] = "alloc" => _threads_joiner = Null
    /\ \A t \in Threads : cpc[t] = "mutex" => _threads_joiner = t /\ mutex[t] = Null
    /\ \A j \in Threads : mutex[j] # Null \/ thread[j] # Null => _threads_joiner = j /\ Ready
    /\ \A t \in Threads : cpc[t] = "spawn" => Ready
    /\ _threads_joiner # Null =>
         Ready \/ \E t \in Threads : cpc[t] = "mutex"
    /\ \A t \in Threads : cpc[t] = "done" <=> tpc[t] # "none"
    /\ \A t \in Threads : tpc[t] # "none" => Ready

\* The thread between the lock and the unlock is the owner of the mutex.
MutexInv ==
    \A t \in Threads :
        /\ tpc[t] \in Section \cup {"acquire"} => awaited[t] = mutex[_threads_joiner]
        /\ tpc[t] \in Section => owner[mutex[_threads_joiner]] = t

\* Where the handle of a thread is, by the place the thread has come to.
HandlePlace(t) ==
    /\ handle[t] = "none" <=> tpc[t] = "none"
    /\ handle[t] = "freed" => tpc[t] = "exited"
    /\ tpc[t] = "take" => thread[_threads_joiner] = prev[t]
    /\ tpc[t] \in {"join", "store"} => thread[_threads_joiner] = Null
    /\ tpc[t] = "unlock" => thread[_threads_joiner] = t
    /\ tpc[t] \in {"take", "join"} =>
         /\ prev[t] \in Threads
         /\ tpc[prev[t]] \in {"exit", "exited"}
         /\ handle[prev[t]] = "live"
    /\ Ready /\ thread[_threads_joiner] = t =>
         tpc[t] \in {"unlock", "exit", "exited"} /\ handle[t] = "live"
    /\ tpc[t] \in {"exit", "exited"} /\ handle[t] = "live" =>
         \/ thread[_threads_joiner] = t
         \/ \E u \in Threads : tpc[u] \in {"take", "join"} /\ prev[u] = t

HandleInv == \A t \in Threads : HandlePlace(t)

\* The inductive invariant: the creation of the joiner, its mutex and the
\* handles it passes on, taken together.
IInv == TypeOK /\ CreateInv /\ MutexInv /\ HandleInv
=============================================================================
