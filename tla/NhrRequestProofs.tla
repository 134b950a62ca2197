--------------------------- MODULE NhrRequestProofs ---------------------------
(***************************************************************************)
(* Theorems about one request, for every number of connection attempts,    *)
(* addresses and segments and for every timeout.                           *)
(*                                                                         *)
(* Type correctness and a single, true callback hold for any client (the   *)
(* invariant AnyClientInv).  The rest is proved for a client whose API     *)
(* calls and callbacks exclude each other (SerialCalls, SerialCallbacks):  *)
(* for the others TLC refutes NoUseAfterFree.  The argument is the         *)
(* inductive invariant IInv of NhrRequest; PartsStep is its heart, with one*)
(* step for each action.                                                   *)
(***************************************************************************)
EXTENDS NhrRequest, TLAPS

USE DEF setup, conn, told, objVars, workVars, loopVars, clock, appVars, netVars, vars, SetLastTime, Kick,
        CancelBranch, HasNext, Connected, Finished, Callback, AfterInform

-----------------------------------------------------------------------------
(***************************************************************************)
(* Type correctness.                                                       *)
(***************************************************************************)

\* Every step keeps the Boolean members Boolean.
LEMMA FlagsStep ==
    ASSUME FlagsOK, [Next]_vars
    PROVE  FlagsOK'
<1> USE DEF FlagsOK
<1>1. CASE Configuring
  <2>1. CASE nhr_request_create
    BY <2>1, Zenon DEF nhr_request_create
  <2>2. CASE nhr_request_set_url
    BY <2>2, Zenon DEF nhr_request_set_url, Configure
  <2>3. CASE nhr_request_set_method
    BY <2>3, Zenon DEF nhr_request_set_method, Configure
  <2>4. CASE nhr_request_set_on_recvd_response
    BY <2>4, Zenon DEF nhr_request_set_on_recvd_response, Configure
  <2>5. CASE nhr_request_set_on_error
    BY <2>5, Zenon DEF nhr_request_set_on_error, Configure
  <2>6. CASE nhr_request_set_timeout
    BY <2>6, Zenon DEF nhr_request_set_timeout, Configure
  <2>7. QED
    BY <1>1, <2>1, <2>2, <2>3, <2>4, <2>5, <2>6 DEF Configuring
<1>2. CASE nhr_request_send
  BY <1>2, Zenon DEF nhr_request_send
<1>3. CASE Sending
  <2>1. CASE nhr_thread_create
    BY <2>1, Zenon DEF nhr_thread_create
  <2>2. CASE assign_work_thread
    BY <2>2, Zenon DEF assign_work_thread
  <2>3. CASE test_work_thread
    BY <2>3, Zenon DEF test_work_thread
  <2>4. CASE start_work_thread
    BY <2>4, Zenon DEF start_work_thread
  <2>5. QED
    BY <1>3, <2>1, <2>2, <2>3, <2>4 DEF Sending
<1>4. CASE nhr_request_cancel
  BY <1>4, Zenon DEF nhr_request_cancel
<1>5. CASE Cancelling
  <2>1. CASE cancel_check
    BY <2>1, Zenon DEF cancel_check
  <2>2. CASE cancel_end
    BY <2>2, Zenon DEF cancel_end
  <2>3. CASE cancel_close
    BY <2>3, Zenon DEF cancel_close
  <2>4. CASE cancel_delete
    BY <2>4, Zenon DEF cancel_delete, nhr_request_delete
  <2>5. QED
    BY <1>5, <2>1, <2>2, <2>3, <2>4 DEF Cancelling
<1>6. CASE work_while
  BY <1>6, Zenon DEF work_while, At
<1>7. CASE work_switch
  BY <1>7, Zenon DEF work_switch, At
<1>8. CASE Connecting
  <2>1. CASE nhr_request_connect_getaddr_info
    BY <2>1, Zenon DEF nhr_request_connect_getaddr_info, HandlerFrame, Fail,
       At
  <2>2. CASE connect_unresolved
    BY <2>2, Zenon DEF connect_unresolved, HandlerFrame, Fail, InTime, At
  <2>3. CASE connect_resolved
    BY <2>3, Zenon DEF connect_resolved, HandlerFrame, Fail, InTime, At
  <2>4. CASE connect_begin
    BY <2>4, Zenon DEF connect_begin, At
  <2>5. CASE connect_succeeds
    BY <2>5, Zenon DEF connect_succeeds, HandlerFrame, At
  <2>6. CASE connect_fails
    BY <2>6, Zenon DEF connect_fails, EndOfPass, HandlerFrame, Fail, InTime,
       At
  <2>7. CASE connect_end
    BY <2>7, Zenon DEF connect_end, HandlerFrame, Fail, At
  <2>8. QED
    BY <1>8, <2>1, <2>2, <2>3, <2>4, <2>5, <2>6, <2>7 DEF Connecting
<1>9. CASE Exchanging
  <2>1. CASE send_succeeds
    BY <2>1, Zenon DEF send_succeeds, HandlerFrame, At
  <2>2. CASE send_fails
    BY <2>2, Zenon DEF send_fails, HandlerFrame, Fail, InTime, At
  <2>3. CASE nhr_request_start_waiting_raw_response
    BY <2>3, Zenon DEF nhr_request_start_waiting_raw_response, HandlerFrame,
       At
  <2>4. CASE recv_data
    BY <2>4, Zenon DEF recv_data, HandlerFrame, At
  <2>5. CASE recv_none
    BY <2>5, Zenon DEF recv_none, HandlerFrame, At
  <2>6. CASE wait_finish
    BY <2>6, Zenon DEF wait_finish, HandlerFrame, At
  <2>7. CASE wait_check_timeout
    BY <2>7, Zenon DEF wait_check_timeout, HandlerFrame, Fail, InTime, At
  <2>8. QED
    BY <1>9, <2>1, <2>2, <2>3, <2>4, <2>5, <2>6, <2>7 DEF Exchanging
<1>10. CASE work_inform
  BY <1>10, Zenon DEF work_inform, At
<1>11. CASE on_recvd_response
  BY <1>11, Zenon DEF on_recvd_response, At
<1>12. CASE on_error
  BY <1>12, Zenon DEF on_error, At
<1>13. CASE work_unlink
  BY <1>13, Zenon DEF work_unlink, At
<1>14. CASE work_close
  BY <1>14, Zenon DEF work_close, At
<1>15. CASE work_delete
  BY <1>15, Zenon DEF work_delete, nhr_request_delete
<1>16. CASE Environment
  <2>1. CASE Tick
    BY <2>1, Zenon DEF Tick
  <2>2. CASE ServerSends
    BY <2>2, Zenon DEF ServerSends
  <2>3. CASE ServerCloses
    BY <2>3, Zenon DEF ServerCloses
  <2>4. CASE ServerResets
    BY <2>4, Zenon DEF ServerResets
  <2>5. CASE ClockSetBack
    BY <2>5, Zenon DEF ClockSetBack
  <2>6. QED
    BY <1>16, <2>1, <2>2, <2>3, <2>4, <2>5 DEF Environment
<1>17. CASE Terminating
  BY <1>17, Zenon DEF Terminating
<1>18. CASE UNCHANGED vars
  BY <1>18, Zenon
<1>19. QED
  BY <1>1, <1>2, <1>3, <1>4, <1>5, <1>6, <1>7, <1>8, <1>9, <1>10, <1>11,
     <1>12, <1>13, <1>14, <1>15, <1>16, <1>17, <1>18 DEF Next, Working

\* Every step keeps every variable in its type.
LEMMA TypeStep ==
    ASSUME TypeOK, [Next]_vars
    PROVE  TypeOK'
<1> USE AttemptsAssumption, AddrsAssumption, TimeoutAssumption,
    LagAssumption, SegmentsAssumption
    DEF TypeOK, MaxIdle, Required, UrlFields, Commands, ErrorCodes,
        WorkLabels, SendLabels, CancelLabels
<1>0. FlagsOK'
  BY FlagsStep
<1>1. CASE Configuring
  <2>1. CASE nhr_request_create
    BY <2>1, <1>0 DEF nhr_request_create
  <2>2. CASE nhr_request_set_url
    BY <2>2, <1>0 DEF nhr_request_set_url, Configure
  <2>3. CASE nhr_request_set_method
    BY <2>3, <1>0 DEF nhr_request_set_method, Configure
  <2>4. CASE nhr_request_set_on_recvd_response
    BY <2>4, <1>0 DEF nhr_request_set_on_recvd_response, Configure
  <2>5. CASE nhr_request_set_on_error
    BY <2>5, <1>0 DEF nhr_request_set_on_error, Configure
  <2>6. CASE nhr_request_set_timeout
    BY <2>6, <1>0 DEF nhr_request_set_timeout, Configure
  <2>7. QED
    BY <1>1, <2>1, <2>2, <2>3, <2>4, <2>5, <2>6 DEF Configuring
<1>2. CASE nhr_request_send
  BY <1>2, <1>0 DEF nhr_request_send
<1>3. CASE Sending
  <2>1. CASE nhr_thread_create
    BY <2>1, <1>0 DEF nhr_thread_create
  <2>2. CASE assign_work_thread
    BY <2>2, <1>0 DEF assign_work_thread
  <2>3. CASE test_work_thread
    BY <2>3, <1>0 DEF test_work_thread
  <2>4. CASE start_work_thread
    BY <2>4, <1>0 DEF start_work_thread
  <2>5. QED
    BY <1>3, <2>1, <2>2, <2>3, <2>4 DEF Sending
<1>4. CASE nhr_request_cancel
  BY <1>4, <1>0 DEF nhr_request_cancel
<1>5. CASE Cancelling
  <2>1. CASE cancel_check
    BY <2>1, <1>0 DEF cancel_check
  <2>2. CASE cancel_end
    BY <2>2, <1>0 DEF cancel_end
  <2>3. CASE cancel_close
    BY <2>3, <1>0 DEF cancel_close
  <2>4. CASE cancel_delete
    BY <2>4, <1>0 DEF cancel_delete, nhr_request_delete
  <2>5. QED
    BY <1>5, <2>1, <2>2, <2>3, <2>4 DEF Cancelling
<1>6. CASE work_while
  BY <1>6, <1>0 DEF work_while, At
<1>7. CASE work_switch
  BY <1>7, <1>0 DEF work_switch, At
<1>8. CASE Connecting
  <2>1. CASE nhr_request_connect_getaddr_info
    BY <2>1, <1>0 DEF nhr_request_connect_getaddr_info, HandlerFrame, Fail, At
  <2>2. CASE connect_unresolved
    BY <2>2, <1>0 DEF connect_unresolved, HandlerFrame, Fail, InTime, At
  <2>3. CASE connect_resolved
    BY <2>3, <1>0 DEF connect_resolved, HandlerFrame, Fail, InTime, At
  <2>4. CASE connect_begin
    BY <2>4, <1>0 DEF connect_begin, At
  <2>5. CASE connect_succeeds
    BY <2>5, <1>0 DEF connect_succeeds, HandlerFrame, At
  <2>6. CASE connect_fails
    BY <2>6, <1>0 DEF connect_fails, EndOfPass, HandlerFrame, Fail, InTime, At
  <2>7. CASE connect_end
    BY <2>7, <1>0 DEF connect_end, HandlerFrame, Fail, At
  <2>8. QED
    BY <1>8, <2>1, <2>2, <2>3, <2>4, <2>5, <2>6, <2>7 DEF Connecting
<1>9. CASE Exchanging
  <2>1. CASE send_succeeds
    BY <2>1, <1>0 DEF send_succeeds, HandlerFrame, At
  <2>2. CASE send_fails
    BY <2>2, <1>0 DEF send_fails, HandlerFrame, Fail, InTime, At
  <2>3. CASE nhr_request_start_waiting_raw_response
    BY <2>3, <1>0 DEF nhr_request_start_waiting_raw_response, HandlerFrame, At
  <2>4. CASE recv_data
    BY <2>4, <1>0 DEF recv_data, HandlerFrame, At
  <2>5. CASE recv_none
    BY <2>5, <1>0 DEF recv_none, HandlerFrame, At
  <2>6. CASE wait_finish
    BY <2>6, <1>0 DEF wait_finish, HandlerFrame, At
  <2>7. CASE wait_check_timeout
    BY <2>7, <1>0 DEF wait_check_timeout, HandlerFrame, Fail, InTime, At
  <2>8. QED
    BY <1>9, <2>1, <2>2, <2>3, <2>4, <2>5, <2>6, <2>7 DEF Exchanging
<1>10. CASE work_inform
  BY <1>10, <1>0 DEF work_inform, At
<1>11. CASE on_recvd_response
  BY <1>11, <1>0 DEF on_recvd_response, At
<1>12. CASE on_error
  BY <1>12, <1>0 DEF on_error, At
<1>13. CASE work_unlink
  BY <1>13, <1>0 DEF work_unlink, At
<1>14. CASE work_close
  BY <1>14, <1>0 DEF work_close, At
<1>15. CASE work_delete
  BY <1>15, <1>0 DEF work_delete, nhr_request_delete
<1>16. CASE Environment
  <2>1. CASE Tick
    BY <2>1, <1>0 DEF Tick
  <2>2. CASE ServerSends
    BY <2>2, <1>0 DEF ServerSends
  <2>3. CASE ServerCloses
    BY <2>3, <1>0 DEF ServerCloses
  <2>4. CASE ServerResets
    BY <2>4, <1>0 DEF ServerResets
  <2>5. CASE ClockSetBack
    BY <2>5, <1>0 DEF ClockSetBack
  <2>6. QED
    BY <1>16, <2>1, <2>2, <2>3, <2>4, <2>5 DEF Environment
<1>17. CASE Terminating
  BY <1>17, <1>0 DEF Terminating
<1>18. CASE UNCHANGED vars
  BY <1>18, <1>0
<1>19. QED
  BY <1>1, <1>2, <1>3, <1>4, <1>5, <1>6, <1>7, <1>8, <1>9, <1>10, <1>11,
     <1>12, <1>13, <1>14, <1>15, <1>16, <1>17, <1>18 DEF Next, Working

\* The initial state is well typed.
LEMMA TypeInit == Init => TypeOK
<1>1. Init => FlagsOK
  BY Zenon DEF Init, FlagsOK
<1>2. QED
  BY <1>1, AttemptsAssumption, AddrsAssumption, TimeoutAssumption,
    LagAssumption, SegmentsAssumption
     DEF Init, TypeOK, MaxIdle, Required, UrlFields, Commands, ErrorCodes,
         WorkLabels, SendLabels, CancelLabels

\* The members of the request, the thread's variables and the connection keep
\* their types in every behaviour, whatever the client does: retry_number stays
\* within NHR_CONNECT_ATTEMPS and the walk over the addresses within the list.
THEOREM TypeCorrect == Spec => []TypeOK
<1>1. TypeOK /\ [Next]_vars => TypeOK'
  BY TypeStep
<1>2. QED
  BY TypeInit, <1>1, PTL DEF Spec

-----------------------------------------------------------------------------
(***************************************************************************)
(* One callback at most, and a true one, for any client.                   *)
(***************************************************************************)

\* Every step of any client and of the work thread keeps OneCallbackInv.
LEMMA OneCallbackStep ==
    ASSUME TypeOK, OneCallbackInv, [Next]_vars
    PROVE  OneCallbackInv'
<1> USE DEF TypeOK, OneCallbackInv, AtMostOneCallback, Informing, Exiting, Commands,
            WorkLabels, SendLabels, CancelLabels
<1>1. CASE Configuring
  BY <1>1 DEF Configuring, nhr_request_create, nhr_request_set_url,
     nhr_request_set_method, nhr_request_set_on_recvd_response,
     nhr_request_set_on_error, nhr_request_set_timeout, Configure
<1>2. CASE nhr_request_send
  BY <1>2 DEF nhr_request_send
<1>3. CASE Sending
  BY <1>3 DEF Sending, nhr_thread_create, assign_work_thread,
     test_work_thread, start_work_thread
<1>4. CASE nhr_request_cancel
  BY <1>4 DEF nhr_request_cancel
<1>5. CASE Cancelling
  BY <1>5 DEF Cancelling, cancel_check, cancel_end, cancel_close,
     cancel_delete, nhr_request_delete
<1>6. CASE work_while
  BY <1>6 DEF work_while, At
<1>7. CASE work_switch
  BY <1>7 DEF work_switch, At
<1>8. CASE Connecting
  BY <1>8 DEF Connecting, nhr_request_connect_getaddr_info,
     connect_unresolved, connect_resolved, connect_begin, connect_succeeds,
     connect_fails, connect_end, HandlerFrame, Fail, At, InTime, EndOfPass
<1>9. CASE Exchanging
  BY <1>9 DEF Exchanging, send_succeeds, send_fails,
     nhr_request_start_waiting_raw_response, recv_data, recv_none,
     wait_finish, wait_check_timeout, HandlerFrame, At, Fail, InTime
<1>10. CASE work_inform
  BY <1>10 DEF work_inform, At
<1>11. CASE on_recvd_response
  BY <1>11 DEF on_recvd_response, At
<1>12. CASE on_error
  BY <1>12 DEF on_error, At
<1>13. CASE work_unlink
  BY <1>13 DEF work_unlink, At
<1>14. CASE work_close
  BY <1>14 DEF work_close, At
<1>15. CASE work_delete
  BY <1>15 DEF work_delete, nhr_request_delete
<1>16. CASE Environment
  BY <1>16 DEF Environment, Tick, ClockSetBack, ServerSends, ServerCloses, ServerResets
<1>17. CASE Terminating
  BY <1>17 DEF Terminating
<1>18. CASE UNCHANGED vars
  BY <1>18
<1>19. QED
  BY <1>1, <1>2, <1>3, <1>4, <1>5, <1>6, <1>7, <1>8, <1>9, <1>10, <1>11,
     <1>12, <1>13, <1>14, <1>15, <1>16, <1>17, <1>18 DEF Next, Working

\* Every step of any client and of the work thread keeps OutcomeInv: a cancel that
\* closes the socket under the work thread takes nothing from what was recorded.
LEMMA OutcomeStep ==
    ASSUME AnyClientInv, [Next]_vars
    PROVE  OutcomeInv'
<1> USE TimeoutAssumption, LagAssumption
    DEF AnyClientInv, TypeOK, OneCallbackInv, OutcomeInv, ErrorIsTrue, MaxIdle, Informing,
        Exiting, Waiting, Commands, ErrorCodes, WorkLabels, SendLabels, CancelLabels
<1>1. CASE Configuring
  <2>1. CASE nhr_request_create
    BY <2>1 DEF nhr_request_create
  <2>2. CASE nhr_request_set_url
    BY <2>2 DEF nhr_request_set_url, Configure
  <2>3. CASE nhr_request_set_method
    BY <2>3 DEF nhr_request_set_method, Configure
  <2>4. CASE nhr_request_set_on_recvd_response
    BY <2>4 DEF nhr_request_set_on_recvd_response, Configure
  <2>5. CASE nhr_request_set_on_error
    BY <2>5 DEF nhr_request_set_on_error, Configure
  <2>6. CASE nhr_request_set_timeout
    BY <2>6 DEF nhr_request_set_timeout, Configure
  <2>7. QED
    BY <1>1, <2>1, <2>2, <2>3, <2>4, <2>5, <2>6 DEF Configuring
<1>2. CASE nhr_request_send
  BY <1>2 DEF nhr_request_send
<1>3. CASE Sending
  <2>1. CASE nhr_thread_create
    BY <2>1 DEF nhr_thread_create
  <2>2. CASE assign_work_thread
    BY <2>2 DEF assign_work_thread
  <2>3. CASE test_work_thread
    BY <2>3 DEF test_work_thread
  <2>4. CASE start_work_thread
    BY <2>4 DEF start_work_thread
  <2>5. QED
    BY <1>3, <2>1, <2>2, <2>3, <2>4 DEF Sending
<1>4. CASE nhr_request_cancel
  BY <1>4 DEF nhr_request_cancel
<1>5. CASE Cancelling
  <2>1. CASE cancel_check
    BY <2>1 DEF cancel_check
  <2>2. CASE cancel_end
    BY <2>2 DEF cancel_end
  <2>3. CASE cancel_close
    BY <2>3 DEF cancel_close
  <2>4. CASE cancel_delete
    BY <2>4 DEF cancel_delete, nhr_request_delete
  <2>5. QED
    BY <1>5, <2>1, <2>2, <2>3, <2>4 DEF Cancelling
<1>6. CASE work_while
  BY <1>6 DEF work_while, At
<1>7. CASE work_switch
  BY <1>7 DEF work_switch, At
<1>8. CASE Connecting
  <2>1. CASE nhr_request_connect_getaddr_info
    BY <2>1 DEF nhr_request_connect_getaddr_info, HandlerFrame, Fail, At
  <2>2. CASE connect_unresolved
    BY <2>2 DEF connect_unresolved, HandlerFrame, Fail, InTime, At
  <2>3. CASE connect_resolved
    BY <2>3 DEF connect_resolved, HandlerFrame, Fail, InTime, At
  <2>4. CASE connect_begin
    BY <2>4 DEF connect_begin, At
  <2>5. CASE connect_succeeds
    BY <2>5 DEF connect_succeeds, HandlerFrame, At
  <2>6. CASE connect_fails
    BY <2>6 DEF connect_fails, EndOfPass, HandlerFrame, Fail, InTime, At
  <2>7. CASE connect_end
    BY <2>7 DEF connect_end, HandlerFrame, Fail, At
  <2>8. QED
    BY <1>8, <2>1, <2>2, <2>3, <2>4, <2>5, <2>6, <2>7 DEF Connecting
<1>9. CASE Exchanging
  <2>1. CASE send_succeeds
    BY <2>1 DEF send_succeeds, HandlerFrame, At
  <2>2. CASE send_fails
    BY <2>2 DEF send_fails, HandlerFrame, Fail, InTime, At
  <2>3. CASE nhr_request_start_waiting_raw_response
    BY <2>3 DEF nhr_request_start_waiting_raw_response, HandlerFrame, At
  <2>4. CASE recv_data
    BY <2>4 DEF recv_data, HandlerFrame, At
  <2>5. CASE recv_none
    BY <2>5 DEF recv_none, HandlerFrame, At
  <2>6. CASE wait_finish
    BY <2>6 DEF wait_finish, HandlerFrame, At
  <2>7. CASE wait_check_timeout
    BY <2>7 DEF wait_check_timeout, HandlerFrame, Fail, InTime, At
  <2>8. QED
    BY <1>9, <2>1, <2>2, <2>3, <2>4, <2>5, <2>6, <2>7 DEF Exchanging
<1>10. CASE work_inform
  BY <1>10 DEF work_inform, At
<1>11. CASE on_recvd_response
  BY <1>11 DEF on_recvd_response, At
<1>12. CASE on_error
  BY <1>12 DEF on_error, At
<1>13. CASE work_unlink
  BY <1>13 DEF work_unlink, At
<1>14. CASE work_close
  BY <1>14 DEF work_close, At
<1>15. CASE work_delete
  BY <1>15 DEF work_delete, nhr_request_delete
<1>16. CASE Environment
  <2>1. CASE Tick
    BY <2>1 DEF Tick
  <2>2. CASE ServerSends
    BY <2>2 DEF ServerSends
  <2>3. CASE ServerCloses
    BY <2>3 DEF ServerCloses
  <2>4. CASE ServerResets
    BY <2>4 DEF ServerResets
  <2>5. CASE ClockSetBack
    BY <2>5 DEF ClockSetBack
  <2>6. QED
    BY <1>16, <2>1, <2>2, <2>3, <2>4, <2>5 DEF Environment
<1>17. CASE Terminating
  BY <1>17 DEF Terminating
<1>18. CASE UNCHANGED vars
  BY <1>18
<1>19. QED
  BY <1>1, <1>2, <1>3, <1>4, <1>5, <1>6, <1>7, <1>8, <1>9, <1>10, <1>11,
     <1>12, <1>13, <1>14, <1>15, <1>16, <1>17, <1>18 DEF Next, Working

\* However a client interleaves its calls, the outcome that the work thread
\* records is one and it is true.
THEOREM AnyClient == Spec => []AnyClientInv
<1>1. Init => AnyClientInv
  BY TypeInit DEF Init, AnyClientInv, OneCallbackInv, AtMostOneCallback, OutcomeInv,
     Informing, Exiting, Waiting
<1>2. AnyClientInv /\ TypeOK' /\ [Next]_vars => AnyClientInv'
  BY OneCallbackStep, OutcomeStep DEF AnyClientInv
<1>3. QED
  BY TypeCorrect, <1>1, <1>2, PTL DEF Spec

\* However a client interleaves its calls, nhr_request_work_th_func calls
\* on_recvd_response or on_error once at most: a cancel or a late start never
\* brings the command back from NHR_COMMAND_END.
THEOREM OneCallback == Spec => []AtMostOneCallback
<1>1. AnyClientInv => AtMostOneCallback
  BY DEF AnyClientInv, OneCallbackInv
<1>2. QED
  BY AnyClient, <1>1, PTL

\* What on_error and on_recvd_response are told is so when they are called,
\* whatever the client does meanwhile and however the clock is set back.
THEOREM TrueOutcome == Spec => []OutcomeIsTrue
<1>1. AnyClientInv => OutcomeIsTrue
  BY DEF AnyClientInv, OutcomeInv, OutcomeIsTrue
<1>2. QED
  BY AnyClient, <1>1, PTL

-----------------------------------------------------------------------------
(***************************************************************************)
(* The parts of the inductive invariant, for a client that serialises.     *)
(***************************************************************************)

\* Every step keeps the ownership of the object, the order of its start and of
\* its cancel, the single outcome, and what the socket and the error code say.
LEMMA PartsStep ==
    ASSUME IInv, SerialCalls, SerialCallbacks, [Next]_vars
    PROVE  LifeInv' /\ StartInv' /\ CancelInv' /\ EndInv' /\ SocketInv'
<1> USE DEF IInv, AnyClientInv, TypeOK, OneCallbackInv, OutcomeInv, LifeInv, StartInv,
            CancelInv, EndInv, SocketInv, Informing, Exiting, Waiting, Commands,
            ErrorCodes, WorkLabels, SendLabels, CancelLabels, CallInProgress
<1>1. CASE Configuring
  <2>1. CASE nhr_request_create
    BY <2>1 DEF nhr_request_create
  <2>2. CASE nhr_request_set_url
    BY <2>2 DEF nhr_request_set_url, Configure, MayCall
  <2>3. CASE nhr_request_set_method
    BY <2>3 DEF nhr_request_set_method, Configure, MayCall
  <2>4. CASE nhr_request_set_on_recvd_response
    BY <2>4 DEF nhr_request_set_on_recvd_response, Configure, MayCall
  <2>5. CASE nhr_request_set_on_error
    BY <2>5 DEF nhr_request_set_on_error, Configure, MayCall
  <2>6. CASE nhr_request_set_timeout
    BY <2>6 DEF nhr_request_set_timeout, Configure, MayCall
  <2>7. QED
    BY <1>1, <2>1, <2>2, <2>3, <2>4, <2>5, <2>6 DEF Configuring
<1>2. CASE nhr_request_send
  BY <1>2 DEF nhr_request_send, MayCall
<1>3. CASE Sending
  <2>1. CASE nhr_thread_create
    BY <2>1 DEF nhr_thread_create
  <2>2. CASE assign_work_thread
    BY <2>2 DEF assign_work_thread
  <2>3. CASE test_work_thread
    BY <2>3 DEF test_work_thread
  <2>4. CASE start_work_thread
    BY <2>4 DEF start_work_thread
  <2>5. QED
    BY <1>3, <2>1, <2>2, <2>3, <2>4 DEF Sending
<1>4. CASE nhr_request_cancel
  BY <1>4 DEF nhr_request_cancel, MayCall
<1>5. CASE Cancelling
  <2>1. CASE cancel_check
    BY <2>1 DEF cancel_check
  <2>2. CASE cancel_end
    BY <2>2 DEF cancel_end
  <2>3. CASE cancel_close
    BY <2>3 DEF cancel_close
  <2>4. CASE cancel_delete
    BY <2>4 DEF cancel_delete, nhr_request_delete
  <2>5. QED
    BY <1>5, <2>1, <2>2, <2>3, <2>4 DEF Cancelling
<1>6. CASE work_while
  BY <1>6 DEF work_while, At
<1>7. CASE work_switch
  BY <1>7 DEF work_switch, At
<1>8. CASE Connecting
  <2>1. CASE nhr_request_connect_getaddr_info
    BY <2>1 DEF nhr_request_connect_getaddr_info, HandlerFrame, Fail, At
  <2>2. CASE connect_unresolved
    BY <2>2 DEF connect_unresolved, HandlerFrame, Fail, InTime, At
  <2>3. CASE connect_resolved
    BY <2>3 DEF connect_resolved, HandlerFrame, Fail, InTime, At
  <2>4. CASE connect_begin
    BY <2>4 DEF connect_begin, At
  <2>5. CASE connect_succeeds
    BY <2>5 DEF connect_succeeds, HandlerFrame, At
  <2>6. CASE connect_fails
    BY <2>6 DEF connect_fails, EndOfPass, HandlerFrame, Fail, InTime, At
  <2>7. CASE connect_end
    BY <2>7 DEF connect_end, HandlerFrame, Fail, At
  <2>8. QED
    BY <1>8, <2>1, <2>2, <2>3, <2>4, <2>5, <2>6, <2>7 DEF Connecting
<1>9. CASE Exchanging
  <2>1. CASE send_succeeds
    BY <2>1 DEF send_succeeds, HandlerFrame, At
  <2>2. CASE send_fails
    BY <2>2 DEF send_fails, HandlerFrame, Fail, InTime, At
  <2>3. CASE nhr_request_start_waiting_raw_response
    BY <2>3 DEF nhr_request_start_waiting_raw_response, HandlerFrame, At
  <2>4. CASE recv_data
    BY <2>4 DEF recv_data, HandlerFrame, At
  <2>5. CASE recv_none
    BY <2>5 DEF recv_none, HandlerFrame, At
  <2>6. CASE wait_finish
    BY <2>6 DEF wait_finish, HandlerFrame, At
  <2>7. CASE wait_check_timeout
    BY <2>7 DEF wait_check_timeout, HandlerFrame, Fail, InTime, At
  <2>8. QED
    BY <1>9, <2>1, <2>2, <2>3, <2>4, <2>5, <2>6, <2>7 DEF Exchanging
<1>10. CASE work_inform
  BY <1>10 DEF work_inform, At
<1>11. CASE on_recvd_response
  BY <1>11 DEF on_recvd_response, At, MayCallBack
<1>12. CASE on_error
  BY <1>12 DEF on_error, At, MayCallBack
<1>13. CASE work_unlink
  BY <1>13 DEF work_unlink, At
<1>14. CASE work_close
  BY <1>14 DEF work_close, At
<1>15. CASE work_delete
  BY <1>15 DEF work_delete, nhr_request_delete
<1>16. CASE Environment
  <2>1. CASE Tick
    BY <2>1 DEF Tick
  <2>2. CASE ServerSends
    BY <2>2 DEF ServerSends
  <2>3. CASE ServerCloses
    BY <2>3 DEF ServerCloses
  <2>4. CASE ServerResets
    BY <2>4 DEF ServerResets
  <2>5. CASE ClockSetBack
    BY <2>5 DEF ClockSetBack
  <2>6. QED
    BY <1>16, <2>1, <2>2, <2>3, <2>4, <2>5 DEF Environment
<1>17. CASE Terminating
  BY <1>17 DEF Terminating
<1>18. CASE UNCHANGED vars
  BY <1>18
<1>19. QED
  BY <1>1, <1>2, <1>3, <1>4, <1>5, <1>6, <1>7, <1>8, <1>9, <1>10, <1>11,
     <1>12, <1>13, <1>14, <1>15, <1>16, <1>17, <1>18 DEF Next, Working

\* The inductive invariant holds initially.
LEMMA InvInit == Init => IInv
BY TypeInit DEF Init, IInv, AnyClientInv, OneCallbackInv, AtMostOneCallback, OutcomeInv,
   LifeInv, StartInv, CancelInv, EndInv, SocketInv, Informing, Exiting, Waiting,
   CallInProgress, SendLabels, CancelLabels

\* It is inductive.
LEMMA InvStep ==
    ASSUME SerialCalls, SerialCallbacks, IInv, [Next]_vars
    PROVE  IInv'
<1>1. TypeOK'
  BY TypeStep DEF IInv, AnyClientInv
<1>2. AnyClientInv'
  BY <1>1, OneCallbackStep, OutcomeStep DEF IInv, AnyClientInv
<1>3. QED
  BY <1>1, <1>2, PartsStep DEF IInv

\* The invariant holds in every state of every behaviour.
THEOREM Invariance ==
    ASSUME SerialCalls, SerialCallbacks
    PROVE  Spec => []IInv
<1>1. IInv /\ [Next]_vars => IInv'
  BY InvStep
<1>2. QED
  BY InvInit, <1>1, PTL DEF Spec

-----------------------------------------------------------------------------
(***************************************************************************)
(* What the invariant gives.                                               *)
(***************************************************************************)

\* nhr_request_delete at the end of the work thread, or in a cancel of a
\* request without one, runs when no other thread has an access ahead of it.
THEOREM MemorySafety ==
    ASSUME SerialCalls, SerialCallbacks
    PROVE  Spec => []NoUseAfterFree
<1>1. IInv => NoUseAfterFree
  BY DEF IInv, LifeInv, NoUseAfterFree, WorkLabels
<1>2. QED
  BY Invariance, <1>1, PTL

\* send and recv meet an open socket, and the request is freed with it closed.
THEOREM SocketsDisciplined ==
    ASSUME SerialCalls, SerialCallbacks
    PROVE  Spec => []SocketDiscipline
<1>1. IInv => SocketDiscipline
  BY DEF IInv, LifeInv, SocketInv, Waiting, SocketDiscipline
<1>2. QED
  BY Invariance, <1>1, PTL

-----------------------------------------------------------------------------
(***************************************************************************)
(* The implementation of the contract.                                     *)
(***************************************************************************)

\* A step of the request is a step of the contract or leaves it alone.
LEMMA ContractStep ==
    ASSUME SerialCalls, SerialCallbacks, IInv, [Next]_vars
    PROVE  [Contract!ContractNext]_(Contract!cvars)
<1> USE DEF IInv, AnyClientInv, OneCallbackInv, AtMostOneCallback, TypeOK, LifeInv,
            StartInv, CancelInv, EndInv, Informing, Exiting,
            WorkLabels, SendLabels, CancelLabels, CallInProgress, contractPhase,
            Contract!cvars, Contract!ContractNext, Contract!Create, Contract!Start,
            Contract!Cancel, Contract!Inform, Contract!Release
<1>1. CASE Configuring
  BY <1>1 DEF Configuring, nhr_request_create, nhr_request_set_url,
     nhr_request_set_method, nhr_request_set_on_recvd_response,
     nhr_request_set_on_error, nhr_request_set_timeout, Configure, MayCall
<1>2. CASE nhr_request_send
  BY <1>2 DEF nhr_request_send, MayCall
<1>3. CASE Sending
  BY <1>3 DEF Sending, nhr_thread_create, assign_work_thread,
     test_work_thread, start_work_thread
<1>4. CASE nhr_request_cancel
  BY <1>4 DEF nhr_request_cancel, MayCall
<1>5. CASE Cancelling
  BY <1>5 DEF Cancelling, cancel_check, cancel_end, cancel_close,
     cancel_delete, nhr_request_delete
<1>6. CASE work_while
  BY <1>6 DEF work_while, At
<1>7. CASE work_switch
  BY <1>7 DEF work_switch, At
<1>8. CASE Connecting
  BY <1>8 DEF Connecting, nhr_request_connect_getaddr_info,
     connect_unresolved, connect_resolved, connect_begin, connect_succeeds,
     connect_fails, connect_end, HandlerFrame, Fail, At, InTime, EndOfPass
<1>9. CASE Exchanging
  BY <1>9 DEF Exchanging, send_succeeds, send_fails,
     nhr_request_start_waiting_raw_response, recv_data, recv_none,
     wait_finish, wait_check_timeout, HandlerFrame, At, Fail, InTime
<1>10. CASE work_inform
  BY <1>10 DEF work_inform, At
<1>11. CASE on_recvd_response
  BY <1>11 DEF on_recvd_response, At, MayCallBack
<1>12. CASE on_error
  BY <1>12 DEF on_error, At, MayCallBack
<1>13. CASE work_unlink
  BY <1>13 DEF work_unlink, At
<1>14. CASE work_close
  BY <1>14 DEF work_close, At
<1>15. CASE work_delete
  BY <1>15 DEF work_delete, nhr_request_delete
<1>16. CASE Environment
  BY <1>16 DEF Environment, Tick, ClockSetBack, ServerSends, ServerCloses, ServerResets
<1>17. CASE Terminating
  BY <1>17 DEF Terminating
<1>18. CASE UNCHANGED vars
  BY <1>18
<1>19. QED
  BY <1>1, <1>2, <1>3, <1>4, <1>5, <1>6, <1>7, <1>8, <1>9, <1>10, <1>11,
     <1>12, <1>13, <1>14, <1>15, <1>16, <1>17, <1>18 DEF Next, Working

\* The request implements RequestContract: it is informed once, and released
\* only after that or after the client cancelled it.
THEOREM Refinement ==
    ASSUME SerialCalls, SerialCallbacks
    PROVE  Spec => ImplementsContract
<1>1. Init => Contract!ContractInit
  BY DEF Init, Contract!ContractInit, contractPhase
<1>2. IInv /\ [Next]_vars => [Contract!ContractNext]_(Contract!cvars)
  BY ContractStep
<1>3. QED
  BY <1>1, <1>2, Invariance, PTL DEF Spec, ImplementsContract, Contract!ContractSpec
=============================================================================
