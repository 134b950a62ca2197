------------------------------ MODULE NhrLibrary ------------------------------
(***************************************************************************)
(* Several requests at once: an application that creates, sends and cancels*)
(* them, also from the callbacks that the library makes on its own threads,*)
(* the requests as RequestContract describes them (NhrRequest implements   *)
(* it), and the threads that serve them with their joiner (NhrThreads).    *)
(* A member t of Threads is a request and the thread that serves it.       *)
(*                                                                         *)
(* What the parts share: a send is a call of nhr_thread_create, the new    *)
(* thread runs the request, and the thread function returns when it has    *)
(* released the request.                                                   *)
(***************************************************************************)
EXTENDS NhrThreads

VARIABLES
    phase,     \* of each request, as in RequestContract
    cancelled, \* whether the client cancelled it
    caller     \* the thread whose callback sends it, Null for the application

libVars == <<phase, cancelled, caller>>
allVars == <<vars, libVars>>

Contract(t) == INSTANCE RequestContract WITH phase <- phase[t], cancelled <- cancelled[t]

LibTypeOK ==
    /\ phase \in [Threads -> {"absent", "idle", "running", "informed", "released"}]
    /\ cancelled \in [Threads -> BOOLEAN]
    /\ caller \in [Threads -> Pointer]

LibInit ==
    /\ Init
    /\ phase = [t \in Threads |-> "absent"]
    /\ cancelled = [t \in Threads |-> FALSE]
    /\ caller = [t \in Threads |-> Null]

-----------------------------------------------------------------------------
\* The request goes to another phase, by a step that its contract allows.
Become(t, p) == phase' = [phase EXCEPT ![t] = p] /\ UNCHANGED cancelled

\* The callback of t is sending another request.
Sending(t) == \E u \in Threads : caller[u] = t /\ cpc[u] \in CreateLabels

create(t) ==
    /\ Become(t, "idle") /\ Contract(t)!Create
    /\ UNCHANGED <<vars, caller>>

\* nhr_request_send begins, in the application or in the callback of c, whose
\* work thread goes on when it returns.
send(t, c) ==
    /\ phase[t] = "idle" /\ ~cancelled[t]
    /\ c # Null => phase[c] = "informed" /\ ~Sending(c)
    /\ nhr_thread_create(t)
    /\ caller' = [caller EXCEPT ![t] = c]
    /\ UNCHANGED <<phase, cancelled>>

\* The thread starts to run the request.
spawn(t) ==
    /\ create_spawn(t)
    /\ Become(t, "running") /\ Contract(t)!Start
    /\ UNCHANGED caller

\* The client's calls for one request do not overlap.
cancel(t) ==
    /\ cpc[t] \notin CreateLabels
    /\ cancelled' = [cancelled EXCEPT ![t] = TRUE]
    /\ UNCHANGED phase /\ Contract(t)!Cancel
    /\ UNCHANGED <<vars, caller>>

inform(t) ==
    /\ Become(t, "informed") /\ Contract(t)!Inform
    /\ UNCHANGED <<vars, caller>>

\* By the work thread after the callback or a cancel, or by a cancel alone.
release(t) ==
    /\ ~Sending(t)
    /\ Become(t, "released") /\ Contract(t)!Release
    /\ UNCHANGED <<vars, caller>>

\* Mutant: the thread hands itself to the joiner before its function returned.
thread_func_returns_early(t) == nhr_thread_func_priv(t) /\ UNCHANGED libVars

\* nhr_request_work_th_func returns after it deleted the request.
thread_func_returns(t) ==
    /\ phase[t] = "released"
    /\ nhr_thread_func_priv(t)
    /\ UNCHANGED libVars

\* nhr_thread_create goes on.
Starting(t) ==
    \/ spawn(t)
    \/ (create_ifneed_check(t) \/ create_ifneed_alloc(t) \/ create_ifneed_mutex(t)) /\ UNCHANGED libVars

\* The thread ends.
Ending(t) == thread_func_returns(t) \/ (Joining(t) /\ UNCHANGED libVars)

\* All requests are gone, and so are their threads.
LibTerminating ==
    /\ \A t \in Threads : phase[t] = "released" /\ tpc[t] \in {"none", "exited"}
    /\ UNCHANGED allVars

LibNext ==
    \/ \E t \in Threads :
         \/ create(t) \/ cancel(t) \/ inform(t) \/ release(t)
         \/ \E c \in Pointer : send(t, c)
         \/ Starting(t) \/ Ending(t)
    \/ LibTerminating

LibSpec == LibInit /\ [][LibNext]_allVars

\* A call of nhr_thread_create goes on and an ending thread is scheduled.  A
\* request may take for ever: its server decides.
LibFairness ==
    \A t \in Threads : WF_allVars(Starting(t)) /\ WF_allVars(Ending(t))

LibFairSpec == LibSpec /\ LibFairness

-----------------------------------------------------------------------------
(***************************************************************************)
(* Properties.                                                             *)
(***************************************************************************)

\* pthread_join, which nhr_threads_joiner_clean calls under the joiner's mutex,
\* never waits for a thread that still runs a request: only threads that have
\* released theirs, and whose callback has nothing more to send, are handed over.
JoinsOnlyReleased ==
    \A t \in Threads :
        /\ tpc[t] \notin {"none", "run"} => phase[t] = "released" /\ ~Sending(t)
        /\ tpc[t] \in {"take", "join"} => phase[prev[t]] = "released"

\* A request that takes for ever holds up no other: a thread that has released its
\* request ends, and a send that began gets its thread, also when it was made in a
\* callback, although all threads share one joiner and one mutex.
SlowRequestBlocksNobody ==
    \A t \in Threads :
        /\ tpc[t] = "run" /\ phase[t] = "released" ~> tpc[t] = "exited"
        /\ cpc[t] = "check" ~> tpc[t] # "none"

-----------------------------------------------------------------------------
(***************************************************************************)
(* The invariant behind JoinsOnlyReleased.                                 *)
(***************************************************************************)

\* A released request has no callback that is sending, and a thread whose
\* function has returned has released its request.
LibInv ==
    /\ LibTypeOK
    /\ \A t \in Threads : phase[t] = "released" => ~Sending(t)
    /\ \A t \in Threads : tpc[t] \notin {"none", "run"} => phase[t] = "released"
=============================================================================
