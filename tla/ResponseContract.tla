---------------------------- MODULE ResponseContract ----------------------------
(***************************************************************************)
(* What is_finished and the body getters of a response promise, without    *)
(* segments, chunks, blocks or flags: the body of a response grows through *)
(* the beginnings of what the server sent, and becomes its content in one  *)
(* step when all of it is there.  It does not change afterwards, but for a *)
(* response that more bytes follow and that they can spoil.                *)
(***************************************************************************)
EXTENDS Sequences, SequencesExt

VARIABLES
    sent,       \* the body as the server sent it
    content,    \* what an application should read in the end
    followed,   \* more bytes follow, which change the body
    body,       \* what the application would read
    finished    \* the response says that it is complete

message == <<sent, content, followed>>
rvars   == <<message, body, finished>>

ResponseInit == body = <<>> /\ finished = FALSE

Receive ==
    /\ ~finished
    /\ IsStrictPrefix(body, body') /\ IsPrefix(body', sent)
    /\ UNCHANGED <<message, finished>>

Finish ==
    /\ ~finished /\ body = sent
    /\ body' = content
    /\ finished' = TRUE
    /\ UNCHANGED message

\* What follows is taken for body: the response stays finished, with another body.
Overrun ==
    /\ finished /\ followed
    /\ UNCHANGED <<message, finished>>

ResponseNext == Receive \/ Finish \/ Overrun

ResponseSpec == ResponseInit /\ [][ResponseNext]_rvars
=============================================================================
