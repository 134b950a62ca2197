------------------------------ MODULE NhrRequest ------------------------------
(***************************************************************************)
(* The life of one nhr_request object of libnhr: the application threads   *)
(* that create, configure, send and cancel it, the work thread that runs   *)
(* the connect / send / receive loop and calls the application back, and   *)
(* the socket that connects it to a server.                                *)
(*                                                                         *)
(* Threads and their program counters:                                     *)
(*   spc  the application thread that creates, configures and sends        *)
(*   kpc  the application thread that cancels                              *)
(*   wpc  the work thread, nhr_request_work_th_func                        *)
(* A label of a program counter is the place of the next access to the     *)
(* shared request object.  command is read and written under command_mutex,*)
(* so one access to it is one step.  work_mutex is only ever taken by the  *)
(* work thread and excludes nobody; it is left out.                        *)
(*                                                                         *)
(* The object lives in mem.  Every step that dereferences the request      *)
(* requires mem = "live"; a thread that stands at such a step when the     *)
(* object is gone is what NoUseAfterFree excludes.                         *)
(*                                                                         *)
(* The build modelled is the POSIX one (no WSAStartup / WSACleanup).       *)
(***************************************************************************)
EXTENDS Naturals

CONSTANTS
    NHR_CONNECT_ATTEMPS, \* bound of both retry loops (5 in the source)
    Addrs,               \* addresses getaddrinfo returns for the host
    MaxTimeout,          \* bound: timeouts are 0 .. MaxTimeout seconds
    DefaultTimeout,      \* the timeout nhr_request_create sets (30)
    MaxLag,              \* bound: seconds the clock is set back at a time
    MaxSegments,         \* bound: pieces that lie in the receive buffer at a time
    SerialCalls,         \* the client's API calls exclude each other
    SerialCallbacks,     \* the client's callbacks exclude its API calls
    MaySpawnFail         \* pthread_create may fail and NDEBUG hides it

ASSUME AttemptsAssumption  == NHR_CONNECT_ATTEMPS \in Nat /\ NHR_CONNECT_ATTEMPS >= 2
ASSUME AddrsAssumption     == Addrs \in Nat /\ Addrs >= 1
ASSUME TimeoutAssumption   == MaxTimeout \in Nat /\ DefaultTimeout \in 0 .. MaxTimeout
ASSUME LagAssumption       == MaxLag \in Nat
ASSUME SegmentsAssumption  == MaxSegments \in Nat
ASSUME SwitchesAssumption  == /\ SerialCalls \in BOOLEAN
                              /\ SerialCallbacks \in BOOLEAN
                              /\ MaySpawnFail \in BOOLEAN

VARIABLES
    \* the request object
    mem,          \* "absent", "live" or "freed"
    fields,       \* which required members are set
    timeout,      \* r->timeout
    command,      \* r->command
    work_thread,  \* r->work_thread is not NULL
    socket,       \* r->socket: "invalid" or "open"
    error_code,   \* r->error_code
    response,     \* r->response: "null", or "partial" / "finished" by is_finished
    \* the work thread
    wpc,
    retry,        \* retry_number of the loop that is running
    addr,         \* position of p in the address list
    errno,        \* the thread's errno is EAGAIN / EINPROGRESS
    idle,         \* seconds since last_time was taken, saturated at MaxIdle
    lag,          \* seconds the clock was set back since then
    \* the application
    spc, kpc,
    handle,       \* the client's request variable is not NULL
    sendResult,   \* what the last nhr_request_send returned
    responses, errors, \* calls of on_recvd_response and of on_error
    \* the connection
    sent,         \* how much of the request the socket took
    peer,         \* "none", "open", "fin" or "rst"
    inbox         \* pieces in the receive buffer

setup    == <<mem, fields, timeout, work_thread>>
conn     == <<socket, error_code, response>>
told     == <<responses, errors>>
objVars  == <<setup, command, conn>>
clock    == <<idle, lag>>
loopVars == <<retry, addr, errno, clock>>
workVars == <<wpc, loopVars>>
appVars  == <<spc, kpc, handle, sendResult, told>>
netVars  == <<sent, peer, inbox>>
vars     == <<objVars, workVars, appVars, netVars>>

\* No comparison tells a longer time from this one.
MaxIdle == MaxTimeout + MaxLag

UrlFields == {"scheme", "host", "path"}
Required  == UrlFields \cup {"method", "on_recvd_response", "on_error"}

Commands == {"NONE", "CONNECT_TO_HOST", "SEND_RAW_REQUEST",
             "START_WAITING_RAW_RESPONSE", "WAIT_RAW_RESPONSE",
             "INFORM_RESPONSE", "INFORM_ERROR", "END"}

ErrorCodes == {"none", "missed_parameter", "failed_connect_to_host", "timeout"}

\* Labels at which the work thread still has to access the request.
WorkLabels == {"while", "switch", "getaddrinfo", "unresolved", "resolved",
               "socket", "connect", "connected", "send", "start_waiting",
               "recv", "finish", "check_timeout", "inform",
               "on_recvd_response", "on_error", "unlink", "close", "delete"}

SendLabels   == {"spawn", "assign", "test", "kick"}
CancelLabels == {"check", "end", "close", "delete"}

FlagsOK ==
    /\ work_thread \in BOOLEAN
    /\ errno \in BOOLEAN
    /\ handle \in BOOLEAN
    /\ sendResult \in BOOLEAN

TypeOK ==
    /\ mem \in {"absent", "live", "freed"}
    /\ fields \in SUBSET Required
    /\ timeout \in 0 .. MaxTimeout
    /\ command \in Commands
    /\ socket \in {"invalid", "open"}
    /\ error_code \in ErrorCodes
    /\ response \in {"null", "partial", "finished"}
    /\ wpc \in WorkLabels \cup {"none", "done"}
    /\ retry \in 0 .. NHR_CONNECT_ATTEMPS
    /\ addr \in 1 .. Addrs
    /\ idle \in 0 .. MaxIdle
    /\ lag \in 0 .. MaxLag
    /\ spc \in SendLabels \cup {"start", "configure", "sent"}
    /\ kpc \in CancelLabels \cup {"idle", "done"}
    /\ responses \in Nat
    /\ errors \in Nat
    /\ sent \in {"nothing", "part", "whole"}
    /\ peer \in {"none", "open", "fin", "rst"}
    /\ inbox \in 0 .. MaxSegments
    /\ FlagsOK

Init ==
    /\ mem = "absent" /\ fields = {} /\ timeout = DefaultTimeout
    /\ command = "NONE" /\ work_thread = FALSE /\ socket = "invalid"
    /\ error_code = "none" /\ response = "null"
    /\ wpc = "none" /\ retry = 0 /\ addr = 1 /\ errno = FALSE
    /\ idle = MaxIdle /\ lag = 0 \* last_time is 0 until the first connect
    /\ spc = "start" /\ kpc = "idle" /\ handle = FALSE
    /\ sendResult = FALSE /\ responses = 0 /\ errors = 0
    /\ sent = "nothing" /\ peer = "none" /\ inbox = 0

-----------------------------------------------------------------------------
(***************************************************************************)
(* The application.                                                        *)
(***************************************************************************)

\* An API call of the client is in progress.
CallInProgress == spc \in SendLabels \/ kpc \in CancelLabels

\* The client may begin another call on the request it holds.
MayCall == handle /\ (SerialCalls => ~CallInProgress)

\* The client's callback may run.
MayCallBack == SerialCallbacks => ~CallInProgress

nhr_request_create ==
    /\ spc = "start"
    /\ mem' = "live"
    /\ timeout' = DefaultTimeout
    /\ command' = "NONE"
    /\ socket' = "invalid"
    /\ handle' = TRUE
    /\ spc' = "configure"
    /\ UNCHANGED <<fields, work_thread, error_code, response, workVars, kpc, sendResult, told,
                   netVars>>

\* One setter call before the request is sent.
Configure(newFields, newTimeout) ==
    /\ spc = "configure" /\ MayCall /\ mem = "live"
    /\ fields' = newFields
    /\ timeout' = newTimeout
    /\ UNCHANGED <<mem, command, work_thread, conn, workVars, appVars, netVars>>

\* Each of the three strings may be NULL, which clears the member.
nhr_request_set_url ==
    \E url \in SUBSET UrlFields : Configure((fields \ UrlFields) \cup url, timeout)

nhr_request_set_method == Configure(fields \cup {"method"}, timeout)

nhr_request_set_on_recvd_response ==
    \E cb \in SUBSET {"on_recvd_response"} :
        Configure((fields \ {"on_recvd_response"}) \cup cb, timeout)

nhr_request_set_on_error ==
    \E cb \in SUBSET {"on_error"} :
        Configure((fields \ {"on_error"}) \cup cb, timeout)

nhr_request_set_timeout ==
    \E seconds \in 0 .. MaxTimeout : Configure(fields, seconds)

\* nhr_request_send up to the creation of the thread; a missing member makes
\* it return nhr_false and leaves the request as it was.
nhr_request_send ==
    /\ spc = "configure" /\ MayCall /\ mem = "live"
    /\ \/ /\ fields # Required
          /\ error_code' = "missed_parameter"
          /\ sendResult' = FALSE
          /\ UNCHANGED <<command, spc>>
       \/ /\ fields = Required
          /\ error_code' = "none"
          /\ command' = "NONE"
          /\ spc' = "spawn"
          /\ UNCHANGED sendResult
    /\ UNCHANGED <<setup, socket, response, workVars, kpc, handle, told, netVars>>

\* nhr_thread_create: the new thread runs before the handle is stored.  When
\* pthread_create fails only the assertion notices; the handle is returned.
nhr_thread_create ==
    /\ spc = "spawn"
    /\ \/ wpc' = "while"
       \/ MaySpawnFail /\ UNCHANGED wpc
    /\ spc' = "assign"
    /\ UNCHANGED <<objVars, loopVars, kpc, handle, sendResult, told, netVars>>

assign_work_thread ==
    /\ spc = "assign" /\ mem = "live"
    /\ work_thread' = TRUE
    /\ spc' = "test"
    /\ UNCHANGED <<mem, fields, timeout, command, conn, workVars, kpc, handle, sendResult, told,
                   netVars>>

\* r->work_thread is read again: the thread itself may have cleared it, when a
\* cancel ended it meanwhile.
test_work_thread ==
    /\ spc = "test" /\ mem = "live"
    /\ IF work_thread THEN spc' = "kick" /\ UNCHANGED sendResult
                      ELSE spc' = "sent" /\ sendResult' = FALSE
    /\ UNCHANGED <<objVars, workVars, kpc, handle, told, netVars>>

\* Mutant: the thread is created but never told to connect.
Kick_forgotten == UNCHANGED command

Kick == command' = "CONNECT_TO_HOST"

start_work_thread ==
    /\ spc = "kick" /\ mem = "live"
    /\ Kick
    /\ sendResult' = TRUE
    /\ spc' = "sent"
    /\ UNCHANGED <<setup, conn, workVars, kpc, handle, told, netVars>>

Sending ==
    nhr_thread_create \/ assign_work_thread \/ test_work_thread \/ start_work_thread

\* nhr_request_cancel.  The client calls it before any callback was triggered
\* (the callback clears handle) and drops the request at once.
nhr_request_cancel ==
    /\ kpc = "idle" /\ MayCall
    /\ handle' = FALSE
    /\ kpc' = "check"
    /\ UNCHANGED <<objVars, workVars, spc, sendResult, told, netVars>>

\* Mutant: the cancel deletes the request even if a work thread runs.
CancelBranch_delete == "close"

\* With a work thread the cancel tells it to end, otherwise it deletes.
CancelBranch == IF work_thread THEN "end" ELSE "close"

cancel_check ==
    /\ kpc = "check" /\ mem = "live"
    /\ kpc' = CancelBranch
    /\ UNCHANGED <<objVars, workVars, spc, handle, sendResult, told, netVars>>

cancel_end ==
    /\ kpc = "end" /\ mem = "live"
    /\ command' = "END"
    /\ kpc' = "done"
    /\ UNCHANGED <<setup, conn, workVars, spc, handle, sendResult, told, netVars>>

cancel_close ==
    /\ kpc = "close" /\ mem = "live"
    /\ socket' = "invalid"
    /\ kpc' = "delete"
    /\ UNCHANGED <<setup, command, error_code, response, workVars, spc, handle, sendResult,
                   told, netVars>>

\* nhr_request_delete: closes the socket if it is still open and frees the
\* strings, the maps, the mutexes, the response and the object.
nhr_request_delete ==
    /\ mem = "live"
    /\ mem' = "freed"
    /\ socket' = "invalid"
    /\ fields' = {}
    /\ response' = "null"
    /\ UNCHANGED <<timeout, command, work_thread, error_code>>

cancel_delete ==
    /\ kpc = "delete"
    /\ nhr_request_delete
    /\ kpc' = "done"
    /\ UNCHANGED <<workVars, spc, handle, sendResult, told, netVars>>

Cancelling == cancel_check \/ cancel_end \/ cancel_close \/ cancel_delete

-----------------------------------------------------------------------------
(***************************************************************************)
(* The work thread.                                                        *)
(***************************************************************************)

At(label) == wpc = label /\ mem = "live"

\* Mutant: the timeout never expires.
InTime_always == TRUE

\* nhr_request_check_timeout: the test, time(NULL) - last_time < timeout, and
\* what a failed test records.
InTime == idle < timeout + lag

\* r->last_time = time(NULL)
SetLastTime == idle' = 0 /\ lag' = 0

\* Mutant: the error code is not recorded.
Fail_unrecorded(code) == command' = "INFORM_ERROR" /\ UNCHANGED error_code

Fail(code) == error_code' = code /\ command' = "INFORM_ERROR"

\* What the steps of the connect, send and receive handlers leave alone.
HandlerFrame == UNCHANGED <<setup, appVars>>

\* The loop condition: while (nhr_request_get_command(r) < NHR_COMMAND_END)
work_while ==
    /\ At("while")
    /\ wpc' = IF command = "END" THEN "unlink" ELSE "switch"
    /\ UNCHANGED <<objVars, loopVars, appVars, netVars>>

\* The switch reads the command again; the connect handler begins by
\* setting last_time, its only effect before getaddrinfo.
work_switch ==
    /\ At("switch")
    /\ \/ /\ command = "CONNECT_TO_HOST"
          /\ wpc' = "getaddrinfo" /\ SetLastTime /\ retry' = 0
       \/ /\ \/ command = "SEND_RAW_REQUEST" /\ wpc' = "send"
             \/ command = "START_WAITING_RAW_RESPONSE" /\ wpc' = "start_waiting"
             \/ command = "WAIT_RAW_RESPONSE" /\ wpc' = "recv"
             \/ command \in {"NONE", "INFORM_RESPONSE", "INFORM_ERROR", "END"} /\ wpc' = "inform"
          /\ UNCHANGED <<clock, retry>>
    /\ UNCHANGED <<objVars, addr, errno, appVars, netVars>>

\* One turn of while (++retry_number < NHR_CONNECT_ATTEMPS) and its exit.
nhr_request_connect_getaddr_info ==
    /\ At("getaddrinfo")
    /\ \/ /\ retry + 1 < NHR_CONNECT_ATTEMPS
          /\ wpc' \in {"resolved", "getaddrinfo"}
          /\ retry' = retry + 1
          /\ UNCHANGED <<error_code, command>>
       \/ /\ retry + 1 >= NHR_CONNECT_ATTEMPS
          /\ Fail("failed_connect_to_host")
          /\ wpc' = "unresolved"
          /\ UNCHANGED retry
    /\ HandlerFrame
    /\ UNCHANGED <<socket, response, addr, errno, clock, netVars>>

\* getaddrinfo gave nothing: the timeout is checked all the same, and its
\* error replaces the first one.
connect_unresolved ==
    /\ At("unresolved")
    /\ IF InTime THEN UNCHANGED <<error_code, command>> ELSE Fail("timeout")
    /\ wpc' = "inform"
    /\ HandlerFrame
    /\ UNCHANGED <<socket, response, loopVars, netVars>>

connect_resolved ==
    /\ At("resolved")
    /\ \/ /\ InTime
          /\ wpc' = "socket" /\ retry' = 1 /\ addr' = 1
          /\ UNCHANGED <<error_code, command>>
       \/ /\ ~InTime
          /\ Fail("timeout")
          /\ wpc' = "inform"
          /\ UNCHANGED <<retry, addr>>
    /\ HandlerFrame
    /\ UNCHANGED <<socket, response, errno, clock, netVars>>

connect_begin ==
    /\ At("socket")
    /\ SetLastTime
    /\ wpc' = "connect"
    /\ UNCHANGED <<objVars, retry, addr, errno, appVars, netVars>>

\* connect succeeds: the socket is kept and the loops end.  What earlier
\* calls of this thread left in errno is any value.
connect_succeeds ==
    /\ At("connect")
    /\ socket' = "open"
    /\ peer' = "open"
    /\ errno' \in BOOLEAN
    /\ wpc' = "connected"
    /\ HandlerFrame
    /\ UNCHANGED <<command, error_code, response, retry, addr, clock, sent, inbox>>

\* After the last address of a pass.  sock is NHR_INVALID_SOCKET only if the
\* last socket() call failed: after a failed connect the descriptor is closed
\* but sock keeps its number, which ends the outer loop.
EndOfPass(invalid) ==
    IF invalid /\ retry + 1 < NHR_CONNECT_ATTEMPS
    THEN wpc' = "socket" /\ retry' = retry + 1 /\ addr' = 1
    ELSE wpc' = "connected" /\ UNCHANGED <<retry, addr>>

\* Mutant: the loop over the addresses runs past the last one.
HasNext_past_end == addr <= Addrs

\* p->ai_next is not NULL.
HasNext == addr < Addrs

\* socket() fails (invalid) or connect() does, for the address p.
connect_fails ==
    /\ At("connect")
    /\ \E invalid \in BOOLEAN :
        \/ /\ InTime /\ HasNext
           /\ addr' = addr + 1 /\ wpc' = "socket"
           /\ UNCHANGED <<retry, command, error_code>>
        \/ /\ InTime /\ ~HasNext
           /\ EndOfPass(invalid)
           /\ UNCHANGED <<command, error_code>>
        \/ /\ ~InTime
           /\ Fail("timeout")
           /\ wpc' = "inform"
           /\ UNCHANGED <<retry, addr>>
    /\ HandlerFrame
    /\ UNCHANGED <<socket, response, errno, clock, netVars>>

\* Mutant: the request is sent whether or not a connection was made.
Connected_assumed == TRUE

Connected == socket # "invalid"

connect_end ==
    /\ At("connected")
    /\ IF Connected
       THEN command' = "SEND_RAW_REQUEST" /\ UNCHANGED error_code
       ELSE Fail("failed_connect_to_host")
    /\ wpc' = "inform"
    /\ HandlerFrame
    /\ UNCHANGED <<socket, response, loopVars, netVars>>

\* send() took all of the request or a part of it: either counts as sent.
send_succeeds ==
    /\ At("send")
    /\ error_code' = "none"
    /\ sent' \in {"part", "whole"}
    /\ command' = "START_WAITING_RAW_RESPONSE"
    /\ wpc' = "inform"
    /\ HandlerFrame
    /\ UNCHANGED <<socket, response, loopVars, peer, inbox>>

send_fails ==
    /\ At("send")
    /\ socket' = "invalid"
    /\ Fail(IF InTime THEN "failed_connect_to_host" ELSE "timeout")
    /\ errno' \in BOOLEAN
    /\ wpc' = "inform"
    /\ HandlerFrame
    /\ UNCHANGED <<response, retry, addr, clock, netVars>>

nhr_request_start_waiting_raw_response ==
    /\ At("start_waiting")
    /\ SetLastTime
    /\ command' = "WAIT_RAW_RESPONSE"
    /\ wpc' = "inform"
    /\ HandlerFrame
    /\ UNCHANGED <<conn, retry, addr, errno, netVars>>

\* recv returns a piece: the response is created or extended, and may by now
\* be complete; is_finished is never cleared.  The loop goes round again.
recv_data ==
    /\ At("recv") /\ inbox > 0
    /\ inbox' = inbox - 1
    /\ SetLastTime
    /\ response' \in IF response = "finished" THEN {"finished"}
                                               ELSE {"partial", "finished"}
    /\ HandlerFrame
    /\ UNCHANGED <<command, socket, error_code, wpc, retry, addr, errno, sent, peer>>

\* recv returns nothing.  errno is then consulted whatever recv returned, and
\* an orderly end of the stream does not set it.
recv_none ==
    /\ At("recv") /\ inbox = 0
    /\ errno' = (peer = "open" \/ (peer = "fin" /\ errno))
    /\ IF errno'
       THEN wpc' = "finish" /\ UNCHANGED <<socket, command>>
       ELSE wpc' = "inform" /\ socket' = "invalid" /\ command' = "INFORM_RESPONSE"
    /\ HandlerFrame
    /\ UNCHANGED <<error_code, response, retry, addr, clock, netVars>>

\* Mutant: any piece of a response counts as the whole of it.
Finished_partly == response # "null"

Finished == response = "finished"

wait_finish ==
    /\ At("finish")
    /\ command' = IF Finished THEN "INFORM_RESPONSE" ELSE command
    /\ wpc' = "check_timeout"
    /\ HandlerFrame
    /\ UNCHANGED <<conn, loopVars, netVars>>

\* The timeout is checked after the response was found complete, too.
wait_check_timeout ==
    /\ At("check_timeout")
    /\ IF InTime THEN UNCHANGED <<error_code, command>> ELSE Fail("timeout")
    /\ wpc' = "inform"
    /\ HandlerFrame
    /\ UNCHANGED <<socket, response, loopVars, netVars>>

\* Mutant: the outcome is left in the command when the callback is called.
AfterInform_kept == command

\* An outcome ends the command before its callback runs.
AfterInform == IF command \in {"INFORM_RESPONSE", "INFORM_ERROR"} THEN "END" ELSE command

\* Mutant: an error ends the work thread without its callback.
Callback_silent_error == IF command = "INFORM_RESPONSE" THEN "on_recvd_response" ELSE "while"

Callback ==
    IF command = "INFORM_RESPONSE" THEN "on_recvd_response"
    ELSE IF command = "INFORM_ERROR" THEN "on_error" ELSE "while"

\* After the handler of the command.
work_inform ==
    /\ At("inform")
    /\ wpc' = Callback
    /\ command' = AfterInform
    /\ UNCHANGED <<setup, conn, loopVars, appVars, netVars>>

\* The callbacks, which nhr_request_send found set.  The client's function
\* clears its request variable, as the documentation recommends.
on_recvd_response ==
    /\ At("on_recvd_response") /\ MayCallBack
    /\ responses' = responses + 1
    /\ handle' = FALSE
    /\ wpc' = "while"
    /\ UNCHANGED <<objVars, loopVars, spc, kpc, sendResult, errors, netVars>>

on_error ==
    /\ At("on_error") /\ MayCallBack
    /\ errors' = errors + 1
    /\ handle' = FALSE
    /\ wpc' = "while"
    /\ UNCHANGED <<objVars, loopVars, spc, kpc, sendResult, responses, netVars>>

\* The thread's last steps: work_thread = NULL, close, delete.
work_unlink ==
    /\ At("unlink")
    /\ work_thread' = FALSE
    /\ wpc' = "close"
    /\ UNCHANGED <<mem, fields, timeout, command, conn, loopVars, appVars, netVars>>

work_close ==
    /\ At("close")
    /\ socket' = "invalid"
    /\ wpc' = "delete"
    /\ UNCHANGED <<setup, command, error_code, response, loopVars, appVars, netVars>>

work_delete ==
    /\ wpc = "delete"
    /\ nhr_request_delete
    /\ wpc' = "done"
    /\ UNCHANGED <<loopVars, appVars, netVars>>

Connecting ==
    \/ nhr_request_connect_getaddr_info \/ connect_unresolved \/ connect_resolved
    \/ connect_begin \/ connect_succeeds \/ connect_fails \/ connect_end

Exchanging ==
    \/ send_succeeds \/ send_fails
    \/ nhr_request_start_waiting_raw_response
    \/ recv_data \/ recv_none \/ wait_finish \/ wait_check_timeout

Working ==
    \/ work_while \/ work_switch \/ Connecting \/ Exchanging
    \/ work_inform \/ on_recvd_response \/ on_error
    \/ work_unlink \/ work_close \/ work_delete

-----------------------------------------------------------------------------
(***************************************************************************)
(* The environment: the clock and the server.                              *)
(***************************************************************************)

\* Only the work thread reads the time.
Tick ==
    /\ wpc \in WorkLabels
    /\ idle < MaxIdle
    /\ idle' = idle + 1
    /\ UNCHANGED <<objVars, wpc, retry, addr, errno, lag, appVars, netVars>>

\* Somebody sets the wall clock back by a second.
ClockSetBack ==
    /\ wpc \in WorkLabels
    /\ lag < MaxLag
    /\ lag' = lag + 1
    /\ UNCHANGED <<objVars, wpc, retry, addr, errno, idle, appVars, netVars>>

\* The server may send without end: only what was received and not yet read is
\* bounded.
ServerSends ==
    /\ socket = "open" /\ peer = "open" /\ inbox < MaxSegments
    /\ inbox' = inbox + 1
    /\ UNCHANGED <<objVars, workVars, appVars, sent, peer>>

ServerCloses ==
    /\ socket = "open" /\ peer = "open"
    /\ peer' = "fin"
    /\ UNCHANGED <<objVars, workVars, appVars, sent, inbox>>

\* A reset discards what was received but not yet read.
ServerResets ==
    /\ socket = "open" /\ peer = "open"
    /\ peer' = "rst"
    /\ inbox' = 0
    /\ UNCHANGED <<objVars, workVars, appVars, sent>>

Environment == Tick \/ ClockSetBack \/ ServerSends \/ ServerCloses \/ ServerResets

-----------------------------------------------------------------------------
\* No thread has anything left to do with the request: it is gone, or its
\* work thread could not be created and it stays as it is.
Terminating ==
    /\ mem = "freed" \/ spc = "sent"
    /\ ~CallInProgress /\ wpc \in {"none", "done"}
    /\ UNCHANGED vars

Configuring ==
    \/ nhr_request_create \/ nhr_request_set_url \/ nhr_request_set_method
    \/ nhr_request_set_on_recvd_response \/ nhr_request_set_on_error
    \/ nhr_request_set_timeout

Next ==
    \/ Configuring \/ nhr_request_send \/ Sending
    \/ nhr_request_cancel \/ Cancelling
    \/ Working
    \/ Environment
    \/ Terminating

Spec == Init /\ [][Next]_vars

\* A call that was begun returns, the work thread is scheduled (getaddrinfo
\* and connect return), and time passes.  The client need not call anything
\* and the server need not do anything; that it does not send without end is a
\* premise of the liveness properties, ServerStops.
Fairness ==
    /\ WF_vars(Sending)
    /\ WF_vars(Cancelling)
    /\ WF_vars(Working)
    /\ WF_vars(Tick)

FairSpec == Spec /\ Fairness

-----------------------------------------------------------------------------
(***************************************************************************)
(* Properties.                                                             *)
(***************************************************************************)

\* No thread stands before an access to a request that was freed: neither the
\* work thread that deletes it at the end of nhr_request_work_th_func, nor a
\* send or a cancel that is under way in an application thread.
NoUseAfterFree ==
    mem = "freed" => /\ wpc \notin WorkLabels
                     /\ ~CallInProgress

\* on_recvd_response and on_error are called at most once in all, although the
\* loop of the work thread goes round again after a callback and a cancel may
\* rewrite the command meanwhile.
AtMostOneCallback == responses + errors <= 1

\* What the recorded error code says is so.
ErrorIsTrue ==
    \/ error_code = "timeout" /\ idle >= timeout
    \/ error_code = "failed_connect_to_host" /\ socket = "invalid"

\* What a callback is told is true when it is called.  A timeout is reported
\* only if a whole timeout interval passed since the last successful action, also
\* when the wall clock that nhr_request_check_timeout reads was set back; a
\* failed connection only when no socket is left open; and a response comes
\* without an error code, either complete or because the connection ended.
OutcomeIsTrue ==
    /\ wpc = "on_error" => ErrorIsTrue
    /\ wpc = "on_recvd_response" =>
         /\ error_code = "none"
         /\ response = "finished" \/ socket = "invalid"

\* send and recv are only called on the connected socket, and the descriptor is
\* closed by the time the request is freed.
SocketDiscipline ==
    /\ wpc \in {"send", "start_waiting", "recv", "finish", "check_timeout"}
         => socket = "open"
    /\ mem = "freed" => socket = "invalid"

\* The request implements the contract of RequestContract.tla: it is released
\* only after its one callback or because the client cancelled it.
contractPhase ==
    IF mem = "absent" THEN "absent"
    ELSE IF mem = "freed" THEN "released"
    ELSE IF responses + errors > 0 THEN "informed"
    ELSE IF wpc # "none" THEN "running" ELSE "idle"

Contract == INSTANCE RequestContract
                WITH phase <- contractPhase, cancelled <- (kpc # "idle")

ImplementsContract == Contract!ContractSpec

\* What liveness assumes of the server: at some point it sends no more.  Every
\* piece received sets last_time, so a server that lets a byte trickle in before
\* each timeout keeps a request alive for ever.
ServerStops == <>[][~ServerSends]_vars

\* A request that got a work thread is released in the end if the server stops
\* sending at some point, whether or not it closes the connection: the timeout
\* then ends the wait of nhr_request_wait_raw_response.
EventuallyReleased == ServerStops => (wpc # "none" ~> mem = "freed")

\* Once nhr_request_send has returned nhr_true, if the thread was created and the
\* server stops sending at some point, the client gets a callback unless it
\* cancels, even if a stale errno hides from nhr_request_recv that the server
\* closed.
EventuallyInformed ==
    ServerStops =>
        (sendResult /\ wpc # "none" ~> (responses + errors = 1 \/ kpc # "idle"))

-----------------------------------------------------------------------------
(***************************************************************************)
(* The inductive invariant behind the safety properties.                   *)
(***************************************************************************)

Informing == {"on_recvd_response", "on_error"}
Exiting   == {"unlink", "close", "delete", "done"}
Waiting   == {"start_waiting", "recv", "finish", "check_timeout"}

\* Who may hold the object, by the stage of its life.
LifeInv ==
    /\ mem = "absent" <=> spc = "start"
    /\ mem = "absent" => wpc = "none" /\ kpc = "idle" /\ ~handle
    /\ handle => mem = "live" /\ kpc = "idle" /\ responses + errors = 0
    /\ mem = "freed" => wpc \in {"none", "done"} /\ ~CallInProgress /\ socket = "invalid"
    /\ wpc = "done" => mem = "freed"

\* How far the work thread can be while the sender starts it.
StartInv ==
    /\ spc \in {"start", "configure", "spawn"} => wpc = "none" /\ ~work_thread
    /\ spc \in SendLabels => handle
    /\ spc # "sent" => command = "NONE" /\ wpc \in {"none", "while", "switch", "inform"}
    /\ spc \in {"test", "kick", "sent"} => work_thread \/ wpc \in {"close", "delete", "done"}

\* A cancel under way finds the object live: without a work thread it owns
\* the object, with one the callback waits until the cancel has returned.
CancelInv ==
    /\ kpc \in CancelLabels =>
         mem = "live" /\ spc \in {"configure", "sent"} /\ responses + errors = 0
    /\ kpc \in {"close", "delete"} => spc = "configure"
    /\ kpc = "end" => spc = "sent"
    /\ kpc = "done" => mem = "freed" \/ spc = "sent"

\* The work thread leaves its loop only after a callback or a cancel.
EndInv ==
    /\ command = "END" \/ wpc \in Exiting =>
         kpc = "done" \/ wpc \in Informing \/ responses + errors > 0
    /\ wpc \in Exiting => command = "END"

\* Behind AtMostOneCallback, for a client that serialises nothing: until the
\* sender has told the work thread to connect there is no outcome, and after an
\* outcome the command stays at its end.
OneCallbackInv ==
    /\ spc # "sent" =>
         /\ command \in {"NONE", "END"}
         /\ wpc \in {"none", "while", "switch", "inform"} \cup Exiting
         /\ responses + errors = 0
    /\ wpc \in Informing => responses + errors = 0 /\ command = "END"
    /\ responses + errors > 0 => command = "END" /\ wpc \in {"while"} \cup Exiting
    /\ AtMostOneCallback

\* The error code and the outcome at each stage of the exchange, also for a
\* client that serialises nothing.
OutcomeInv ==
    /\ spc # "sent" \/ wpc \in {"getaddrinfo", "unresolved", "resolved", "socket", "connect"}
         => socket = "invalid"
    /\ command = "CONNECT_TO_HOST" => socket = "invalid" \/ wpc = "connected"
    /\ command \in {"START_WAITING_RAW_RESPONSE", "WAIT_RAW_RESPONSE"} => error_code = "none"
    /\ wpc \in Waiting => error_code = "none"
    /\ command = "INFORM_ERROR" => wpc \in {"unresolved", "inform"} /\ ErrorIsTrue
    /\ wpc = "unresolved" => error_code = "failed_connect_to_host"
    /\ wpc = "on_error" => ErrorIsTrue
    /\ command = "INFORM_RESPONSE" => wpc \in {"check_timeout", "inform"}
    /\ command = "INFORM_RESPONSE" \/ wpc = "on_recvd_response" =>
         error_code = "none" /\ (response = "finished" \/ socket = "invalid")

\* What any client can rely on.
AnyClientInv == TypeOK /\ OneCallbackInv /\ OutcomeInv

\* The socket is open from the connection to the last recv.
SocketInv ==
    /\ command \in {"SEND_RAW_REQUEST", "START_WAITING_RAW_RESPONSE",
                    "WAIT_RAW_RESPONSE"} => socket = "open"
    /\ wpc \in Waiting \cup {"send"} => socket = "open"

\* The inductive invariant: what any client can rely on, the life cycle of the
\* object, the start and the cancel hand-over, and the socket, taken together.
IInv == AnyClientInv /\ LifeInv /\ StartInv /\ CancelInv /\ EndInv /\ SocketInv

-----------------------------------------------------------------------------
(***************************************************************************)
(* Statements of the documentation that the code does not keep.            *)
(***************************************************************************)

\* "Cancel request": once nhr_request_cancel has returned no callback is called.
NoCallbackAfterCancel ==
    [][kpc = "done" => UNCHANGED told]_vars

\* The whole request is sent before its response is awaited ("Send file/data").
RequestSentInFull == wpc = "recv" => sent = "whole"
=============================================================================
