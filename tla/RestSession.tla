---------------------------- MODULE RestSession ----------------------------
(***************************************************************************)
(* One request of networking::RestClient (rest_client/rest_client.cpp; the *)
(* order clients carry copies of the file): resolve, connect, TLS          *)
(* handshake, write, read, and a deadline timer over all of them.          *)
(*                                                                         *)
(* Every handler runs on the session's strand, so a handler is one step.   *)
(* An asynchronous operation ends at a moment of its own choosing and its  *)
(* handler runs later still: between the two, other handlers run, the      *)
(* deadline's among them.  A timer that has expired cannot be cancelled    *)
(* any more; a cancelled one still runs its handler, with an error.        *)
(*                                                                         *)
(* The module has the session's steps and the network's; a module that     *)
(* issues a request extends it.                                            *)
(***************************************************************************)
EXTENDS Naturals

VARIABLES
  state,      \* State of the session
  posted,     \* execute is dispatched and has not run
  op,         \* the operation outstanding, or "none"
  opResult,   \* whether it is still running, and how it ended
  timer,      \* the deadline timer
  cancelled,  \* onTimeout has cancelled the resolver and closed the socket
  request,    \* how far the HTTP request got: "unsent", "inFlight", "received"
  answer,     \* the exchange's response on the wire, or "none"
  outcome,    \* what the response handler was called with last, or "none"
  calls       \* how often it was called

reportVars == <<outcome, calls>>
restVars == <<state, posted, op, opResult, timer, cancelled, request, answer, reportVars>>

\* The steps of a request and the error a failure of each is reported as.
StepError == [resolve   |-> "ResolveFailed",
              connect   |-> "ConnectFailed",
              handshake |-> "TlsHandshakeFailed",
              write     |-> "WriteFailed",
              read      |-> "ReadFailed"]

Operations == DOMAIN StepError

RestErrors == {StepError[o] : o \in Operations} \cup {"Timeout", "InvalidRequest"}

RestInit ==
  /\ state = "Idle"
  /\ posted = FALSE
  /\ op = "none" /\ opResult = "running"
  /\ timer = "off"
  /\ cancelled = FALSE
  /\ request = "unsent" /\ answer = "none"
  /\ outcome = "none" /\ calls = 0

\* asyncRequest: a new session whose execute is dispatched to its strand.
AsyncRequest ==
  /\ posted' = TRUE
  /\ UNCHANGED <<state, op, opResult, timer, cancelled, request, answer, reportVars>>

Start(o) == op' = o /\ opResult' = "running"
NoOperation == op' = "none" /\ opResult' = "running"

\* Mutant: a result after the first reaches the handler too.
CompleteAgain(result) ==
  /\ state' = "Completed"
  /\ timer' = IF timer = "armed" THEN "aborted" ELSE timer
  /\ outcome' = result
  /\ calls' = calls + 1

\* complete: the first result wins, stops the timer and reaches the handler.
Complete(result) ==
  /\ state # "Completed"
  /\ state' = "Completed"
  /\ timer' = IF timer = "armed" THEN "aborted" ELSE timer
  /\ outcome' = result
  /\ calls' = calls + 1

-----------------------------------------------------------------------------
\* Handlers

Execute(wellFormed) ==
  /\ posted
  /\ posted' = FALSE
  /\ \/ /\ ~wellFormed
        /\ Complete("InvalidRequest")
        /\ UNCHANGED <<op, opResult>>
     \/ /\ wellFormed  \* the TLS library refuses the server name
        /\ Complete("TlsHandshakeFailed")
        /\ UNCHANGED <<op, opResult>>
     \/ /\ wellFormed
        /\ state' = "Running"
        /\ timer' = "armed"
        /\ Start("resolve")
        /\ UNCHANGED reportVars
  /\ UNCHANGED <<cancelled, request, answer>>

\* The test every handler of an operation begins with.
OnCompleted(o) ==
  /\ op = o /\ opResult # "running"
  /\ state = "Completed"
  /\ NoOperation
  /\ UNCHANGED <<state, posted, timer, cancelled, request, answer, reportVars>>

OnFailure(o) ==
  /\ op = o /\ opResult = "failed"
  /\ Complete(StepError[o])
  /\ NoOperation
  /\ UNCHANGED <<posted, cancelled, request, answer>>

\* Mutant: the handler does not look whether the session has completed.
OnSuccessAlways(o, next) ==
  /\ op = o /\ opResult = "ok"
  /\ Start(next)
  /\ UNCHANGED <<state, posted, timer, cancelled, answer, reportVars>>

OnSuccess(o, next) ==
  /\ op = o /\ opResult = "ok"
  /\ state # "Completed"
  /\ Start(next)
  /\ UNCHANGED <<state, posted, timer, cancelled, answer, reportVars>>

OnResolve == \/ OnCompleted("resolve")
             \/ OnFailure("resolve")
             \/ OnSuccess("resolve", "connect") /\ UNCHANGED request

OnConnect == \/ OnCompleted("connect")
             \/ OnFailure("connect")
             \/ OnSuccess("connect", "handshake") /\ UNCHANGED request

\* From the start of the write the exchange may see the request.
OnHandshake == \/ OnCompleted("handshake")
               \/ OnFailure("handshake")
               \/ OnSuccess("handshake", "write") /\ request' = "inFlight"

OnWrite == \/ OnCompleted("write")
           \/ OnFailure("write")
           \/ OnSuccess("write", "read") /\ UNCHANGED request

OnRead == \/ OnCompleted("read")
          \/ OnFailure("read")
          \/ /\ op = "read" /\ opResult = "ok"
             /\ Complete(answer)
             /\ NoOperation
             /\ UNCHANGED <<posted, cancelled, request, answer>>

\* Mutant: the deadline reports, and leaves the socket open.
OnTimeoutLeavesOpen ==
  \/ /\ timer = "expired" /\ state # "Completed"
     /\ state' = "Completed"
     /\ timer' = "off"
     /\ outcome' = "Timeout" /\ calls' = calls + 1
     /\ UNCHANGED <<posted, op, opResult, cancelled, request, answer>>
  \/ /\ timer = "aborted" \/ (timer = "expired" /\ state = "Completed")
     /\ timer' = "off"
     /\ UNCHANGED <<state, posted, op, opResult, cancelled, request, answer, reportVars>>

OnTimeout ==
  \/ /\ timer = "expired" /\ state # "Completed"
     /\ state' = "Completed"
     /\ timer' = "off"
     /\ cancelled' = TRUE
     /\ outcome' = "Timeout" /\ calls' = calls + 1
     /\ UNCHANGED <<posted, op, opResult, request, answer>>
  \/ /\ timer = "aborted" \/ (timer = "expired" /\ state = "Completed")
     /\ timer' = "off"
     /\ UNCHANGED <<state, posted, op, opResult, cancelled, request, answer, reportVars>>

-----------------------------------------------------------------------------
\* The network and the clock

TimerExpires ==
  /\ timer = "armed"
  /\ timer' = "expired"
  /\ UNCHANGED <<state, posted, op, opResult, cancelled, request, answer, reportVars>>

\* An operation on a closed socket or a cancelled resolver ends in an error.
OperationEnds(result) ==
  /\ op # "none" /\ opResult = "running"
  /\ result = "ok" => ~cancelled /\ (op = "read" => answer # "none")
  /\ opResult' = result
  /\ UNCHANGED <<state, posted, op, timer, cancelled, request, answer, reportVars>>

\* Bytes written before the socket was closed may still arrive, or be lost.
RequestArrives ==
  /\ request = "inFlight"
  /\ request' = "received"
  /\ UNCHANGED <<state, posted, op, opResult, timer, cancelled, answer, reportVars>>

Answers(response) ==
  /\ request = "received" /\ answer = "none"
  /\ answer' = response
  /\ UNCHANGED <<state, posted, op, opResult, timer, cancelled, request, reportVars>>

\* What keeps io_context::run from returning.
HasWork == posted \/ op # "none" \/ timer # "off"

RestTypeOK(Responses) ==
  /\ state \in {"Idle", "Running", "Completed"}
  /\ posted \in BOOLEAN
  /\ op \in Operations \cup {"none"}
  /\ opResult \in {"running", "ok", "failed"}
  /\ timer \in {"off", "armed", "expired", "aborted"}
  /\ cancelled \in BOOLEAN
  /\ request \in {"unsent", "inFlight", "received"}
  /\ answer \in Responses \cup {"none"}
  /\ outcome \in RestErrors \cup Responses \cup {"none"}
  /\ calls \in Nat
  /\ state = "Idle" => op = "none" /\ timer = "off"
  /\ state = "Running" => op # "none" /\ timer \in {"armed", "expired"}
=============================================================================
