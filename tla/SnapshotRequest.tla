-------------------------- MODULE SnapshotRequest --------------------------
(***************************************************************************)
(* Connector::asyncSnapshot and the SnapshotRequest it starts              *)
(* (binance_connector/networking/rest_client.cpp): resolve, connect, TLS   *)
(* handshake, write, read; the first failure, or the response, finishes    *)
(* the request and reaches the caller's handler through                    *)
(* onSnapshotResponse.  Nothing sets a deadline, and stop does not reach   *)
(* the request.  The handler may throw when it is given a snapshot: the    *)
(* catch that is there for the parser then calls it a second time.  An     *)
(* exception it throws when given a failure leaves io_context::run and is  *)
(* not modelled.                                                           *)
(*                                                                         *)
(* The module has the steps of one request; Connector composes it with the *)
(* streams that share the thread.                                          *)
(***************************************************************************)
EXTENDS Sequences

VARIABLES
  snapshotOp,      \* the operation outstanding, "none" before the call, "ended"
  snapshotResult,  \* whether it is running, and how it ended
  response,        \* the HTTP response read, or "none"
  told,            \* what the handler was called with, in order
  threw            \* the handler threw when it was given the snapshot

snapshotVars == <<snapshotOp, snapshotResult, response, told, threw>>

SnapshotStep == [resolve |-> "connect", connect |-> "tlsHandshake",
                 tlsHandshake |-> "write", write |-> "read"]

SnapshotOperations == DOMAIN SnapshotStep \cup {"read"}

\* A depth snapshot, a body the parser throws on, a status other than 200.
SnapshotResponses == {"snapshot", "unparsable", "refused"}

SnapshotInit ==
  /\ snapshotOp = "none" /\ snapshotResult = "running"
  /\ response = "none"
  /\ told = <<>>
  /\ threw = FALSE

AsyncSnapshot ==
  /\ snapshotOp = "none"
  /\ snapshotOp' = "resolve"
  /\ UNCHANGED <<snapshotResult, response, told, threw>>

\* Mutant: a body that does not parse is logged and dropped, as a stream's message is.
OnSnapshotResponseLogged(result) ==
  \/ /\ result \in {"failure", "snapshot"}
     /\ told' = Append(told, result)
     /\ UNCHANGED threw
  \/ result = "unparsable" /\ UNCHANGED <<told, threw>>

OnSnapshotResponse(result) ==
  \/ /\ result \in {"failure", "unparsable"}
     /\ told' = Append(told, "failure")
     /\ UNCHANGED threw
  \/ /\ result = "snapshot"
     /\ told' = Append(told, "snapshot")
     /\ UNCHANGED threw
  \/ /\ result = "snapshot"  \* the handler throws, and the catch calls it again
     /\ told' = told \o <<"snapshot", "failure">>
     /\ threw' = TRUE

\* finish: the first result only.
Finish(result) ==
  /\ snapshotOp' = "ended" /\ snapshotResult' = "running"
  /\ IF snapshotOp # "ended" THEN OnSnapshotResponse(result) ELSE UNCHANGED <<told, threw>>

OnSnapshotFailed ==
  /\ snapshotOp \in SnapshotOperations /\ snapshotResult = "failed"
  /\ Finish("failure")
  /\ UNCHANGED response

\* onConnected may fail to set the server name.
OnSnapshotStep ==
  /\ snapshotOp \in DOMAIN SnapshotStep /\ snapshotResult = "ok"
  /\ \/ /\ snapshotOp' = SnapshotStep[snapshotOp]
        /\ snapshotResult' = "running"
        /\ UNCHANGED <<told, threw>>
     \/ snapshotOp = "connect" /\ Finish("failure")
  /\ UNCHANGED response

OnSnapshotRead ==
  /\ snapshotOp = "read" /\ snapshotResult = "ok"
  /\ Finish(IF response = "refused" THEN "failure" ELSE response)
  /\ UNCHANGED response

SnapshotCallback == OnSnapshotFailed \/ OnSnapshotStep \/ OnSnapshotRead

SnapshotOperationEnds(result) ==
  /\ snapshotOp \in SnapshotOperations /\ snapshotResult = "running"
  /\ snapshotResult' = result
  /\ IF snapshotOp = "read" /\ result = "ok"
       THEN response' \in SnapshotResponses
       ELSE UNCHANGED response
  /\ UNCHANGED <<snapshotOp, told, threw>>

-----------------------------------------------------------------------------
SnapshotTypeOK ==
  /\ snapshotOp \in SnapshotOperations \cup {"none", "ended"}
  /\ snapshotResult \in {"running", "ok", "failed"}
  /\ response \in SnapshotResponses \cup {"none"}
  /\ threw \in BOOLEAN

\* A request that has ended has called its handler, with a snapshot exactly if
\* the exchange sent one, and once: a second call there is only for a handler
\* that threw, and it takes the snapshot back.
SnapshotReported ==
  /\ SnapshotTypeOK
  /\ snapshotOp = "ended" <=> told # <<>>
  /\ told \in {<<>>, <<"failure">>, <<"snapshot">>, <<"snapshot", "failure">>}
  /\ told # <<>> => (Head(told) = "snapshot" <=> response = "snapshot")
  /\ Len(told) = 2 <=> threw
=============================================================================
