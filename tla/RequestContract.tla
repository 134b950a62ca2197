---------------------------- MODULE RequestContract ----------------------------
(***************************************************************************)
(* What libnhr.h promises a client about one request, without threads,     *)
(* commands or sockets: a started request ends in exactly one callback,    *)
(* after which the library releases it; a request is released without a    *)
(* callback only if the client asked for its cancellation.                 *)
(***************************************************************************)
VARIABLES
    phase,      \* "absent", "idle", "running", "informed" or "released"
    cancelled   \* the client called nhr_request_cancel

cvars == <<phase, cancelled>>

ContractInit == phase = "absent" /\ cancelled = FALSE

Create == phase = "absent" /\ phase' = "idle" /\ UNCHANGED cancelled

\* The client gives the request to a work thread; a cancelled request it has
\* given up already.
Start == phase = "idle" /\ ~cancelled /\ phase' = "running" /\ UNCHANGED cancelled

\* The client cancels a request whose callback has not been called.
Cancel ==
    /\ phase \in {"idle", "running"} /\ ~cancelled
    /\ cancelled' = TRUE
    /\ UNCHANGED phase

\* One of the two callbacks is called, once; it may still be called for a
\* request that the client has cancelled.
Inform == phase = "running" /\ phase' = "informed" /\ UNCHANGED cancelled

Release ==
    /\ \/ phase = "informed"
       \/ phase \in {"idle", "running"} /\ cancelled
    /\ phase' = "released"
    /\ UNCHANGED cancelled

ContractNext == Create \/ Start \/ Cancel \/ Inform \/ Release

ContractSpec == ContractInit /\ [][ContractNext]_cvars
=============================================================================
