-------------------------- MODULE OrderGatewayProofs --------------------------
(***************************************************************************)
(* Proofs about the order gateway and the REST session under it.  The      *)
(* inductive invariant IInv says how far the session and the request got   *)
(* for each way sendOrder can have ended, and what the outstanding         *)
(* operation still allows.                                                 *)
(***************************************************************************)
EXTENDS OrderGateway, TLAPS

EarlyErrors == {"InvalidRequest", "ResolveFailed", "ConnectFailed", "TlsHandshakeFailed"}
LateErrors == {"WriteFailed", "ReadFailed"}
EarlySteps == {"resolve", "connect", "handshake"}
LateSteps == {"write", "read"}

\* What became of the order between sendOrder and the session's strand.
SendInv ==
  /\ run = "before" <=> order = "none"
  /\ refusal # "none" <=> order \in DOMAIN LocalRefusal
  /\ ~Signed(order) => state = "Idle" /\ ~posted
  /\ Signed(order) /\ state = "Idle" => posted
  /\ posted => state = "Idle"
  /\ run = "returned" => ~HasWork

\* The handler was called for the one reason there is.
CallInv ==
  /\ state = "Completed" <=> outcome # "none"
  /\ calls = IF refusal # "none" \/ outcome # "none" THEN 1 ELSE 0

\* The request is written by the handshake's handler, and only by it.
RequestInv ==
  /\ op = "none" => opResult = "running"
  /\ state = "Idle" => request = "unsent"
  /\ op \in EarlySteps => request = "unsent"
  /\ op \in LateSteps => request # "unsent"
  /\ op = "read" /\ opResult = "ok" => answer # "none"
  /\ outcome \in EarlyErrors => request = "unsent"

\* The exchange speaks of what it received, and the outcome repeats it.
ExchangeInv ==
  /\ request # "received" => answer = "none" /\ ~placed
  /\ answer = "acknowledged" => placed
  /\ answer = "refused" => ~placed
  /\ outcome \in Responses => outcome = answer

IInv == TypeOK /\ SendInv /\ CallInv /\ RequestInv /\ ExchangeInv

-----------------------------------------------------------------------------
\* What the records of step errors and local refusals hold.
LEMMA Tables ==
  /\ Operations = EarlySteps \cup LateSteps
  /\ RestErrors = EarlyErrors \cup LateErrors \cup {"Timeout"}
  /\ DOMAIN LocalRefusal = {"invalidOrder", "noCredentials", "noSymbol", "unsigned"}
  /\ \A o \in DOMAIN LocalRefusal : LocalRefusal[o] # "none"
<1>1. Operations = EarlySteps \cup LateSteps
  BY DEF Operations, StepError, EarlySteps, LateSteps
<1>2. {StepError[o] : o \in Operations}
      = {"ResolveFailed", "ConnectFailed", "TlsHandshakeFailed", "WriteFailed", "ReadFailed"}
  BY <1>1 DEF StepError, EarlySteps, LateSteps
<1>3. RestErrors = EarlyErrors \cup LateErrors \cup {"Timeout"}
  BY <1>2 DEF RestErrors, EarlyErrors, LateErrors
<1>4. DOMAIN LocalRefusal = {"invalidOrder", "noCredentials", "noSymbol", "unsigned"}
  BY DEF LocalRefusal
<1>5. \A o \in DOMAIN LocalRefusal : LocalRefusal[o] # "none"
  BY <1>4 DEF LocalRefusal
<1> QED
  BY <1>1, <1>3, <1>4, <1>5

\* No order has been sent.
LEMMA InitIInv == Init => IInv
<1> SUFFICES ASSUME Init PROVE IInv
  OBVIOUS
<1>1. TypeOK
  BY DEF Init, RestInit, TypeOK, RestTypeOK
<1>2. SendInv
  BY Tables DEF Init, RestInit, SendInv, Signed
<1>3. CallInv /\ RequestInv /\ ExchangeInv
  BY DEF Init, RestInit, CallInv, RequestInv, ExchangeInv, EarlySteps, LateSteps, EarlyErrors,
     Responses
<1> QED
  BY <1>1, <1>2, <1>3 DEF IInv

\* Reporting a result that is not a response, from a session that runs.
LEMMA FailurePreserves ==
  ASSUME IInv, run = "running", NEW o \in Operations, OnFailure(o),
         UNCHANGED <<order, refusal, placed, run>>
  PROVE  IInv'
BY DEF IInv, TypeOK, RestTypeOK, SendInv, CallInv, RequestInv, ExchangeInv, OnFailure, Complete,
   NoOperation, Operations, StepError, RestErrors, Responses, Orders, LocalRefusal, Signed,
   HasWork, EarlySteps, LateSteps, EarlyErrors

\* A handler that finds the request completed changes nothing but its operation.
LEMMA CompletedPreserves ==
  ASSUME IInv, run = "running", NEW o \in Operations, OnCompleted(o),
         UNCHANGED <<order, refusal, placed, run>>
  PROVE  IInv'
BY DEF IInv, TypeOK, RestTypeOK, SendInv, CallInv, RequestInv, ExchangeInv, OnCompleted,
   reportVars, NoOperation, Signed, HasWork, EarlySteps, LateSteps

\* A step of the connection that succeeds starts the next.
LEMMA SuccessPreserves ==
  ASSUME IInv, run = "running", NEW o \in Operations, NEW next \in Operations,
         OnSuccess(o, next),
         \/ UNCHANGED request /\ (o \in EarlySteps <=> next \in EarlySteps)
         \/ o = "handshake" /\ next = "write" /\ request' = "inFlight",
         UNCHANGED <<order, refusal, placed, run>>
  PROVE  IInv'
BY DEF IInv, TypeOK, RestTypeOK, SendInv, CallInv, RequestInv, ExchangeInv, OnSuccess, Start,
   reportVars, Operations, StepError, Responses, Signed, HasWork, EarlySteps, LateSteps,
   EarlyErrors

\* The start of the request.
LEMMA ExecutePreserves ==
  ASSUME IInv, Executes
  PROVE  IInv'
<1>1. posted /\ state = "Idle" /\ Signed(order) /\ run = "running" /\ refusal = "none"
  BY Tables DEF IInv, SendInv, Executes, InRun, Execute, Signed
<1>2. op = "none" /\ timer = "off" /\ opResult = "running" /\ request = "unsent"
      /\ outcome = "none" /\ calls = 0
  BY <1>1 DEF IInv, TypeOK, RestTypeOK, RequestInv, CallInv
<1>3. UNCHANGED <<order, refusal, placed, run, cancelled, request, answer>> /\ posted' = FALSE
  BY DEF Executes, InRun, Execute
<1>4. CASE /\ UNCHANGED <<op, opResult>>
           /\ \/ Complete("InvalidRequest")
              \/ Complete("TlsHandshakeFailed")
  <2>1. TypeOK'
    <3>1. "InvalidRequest" \in RestErrors /\ "TlsHandshakeFailed" \in RestErrors
      BY Tables DEF EarlyErrors
    <3>2. outcome' \in RestErrors \cup Responses \cup {"none"}
      BY <1>4, <3>1 DEF Complete
    <3>3. calls' \in Nat
      BY <1>2, <1>4 DEF Complete
    <3>4. RestTypeOK(Responses)'
      BY <1>1, <1>2, <1>3, <1>4, <3>2, <3>3 DEF IInv, TypeOK, RestTypeOK, Complete
    <3> QED
      BY <1>3, <3>4 DEF IInv, TypeOK
  <2>3. SendInv' /\ CallInv'
    BY <1>1, <1>2, <1>3, <1>4 DEF IInv, SendInv, CallInv, Complete, Signed, HasWork
  <2>2. RequestInv' /\ ExchangeInv'
    BY <1>1, <1>2, <1>3, <1>4
    DEF IInv, RequestInv, ExchangeInv, Complete, Responses, EarlySteps, LateSteps
  <2> QED
    BY <2>1, <2>2, <2>3 DEF IInv
<1>5. CASE state' = "Running" /\ timer' = "armed" /\ Start("resolve") /\ UNCHANGED reportVars
  <2>1. TypeOK'
    BY <1>1, <1>2, <1>3, <1>5, Tables
    DEF IInv, TypeOK, RestTypeOK, Start, reportVars, EarlySteps
  <2>3. SendInv' /\ CallInv'
    BY <1>1, <1>2, <1>3, <1>5
    DEF IInv, SendInv, CallInv, Start, reportVars, Signed, HasWork
  <2>2. RequestInv' /\ ExchangeInv'
    BY <1>1, <1>2, <1>3, <1>5
    DEF IInv, RequestInv, ExchangeInv, Start, reportVars, Responses, EarlySteps, LateSteps
  <2> QED
    BY <2>1, <2>2, <2>3 DEF IInv
<1> QED
  BY <1>4, <1>5 DEF Executes, InRun, Execute

\* One step per action of the gateway, the session, the network and the exchange.
LEMMA NextIInv == IInv /\ [Next]_vars => IInv'
<1> SUFFICES ASSUME IInv, [Next]_vars PROVE IInv'
  OBVIOUS
<1>1. ASSUME NEW o \in Orders, SendOrder(o) PROVE IInv'
  <2>1. /\ run = "before" /\ order = "none" /\ refusal = "none" /\ state = "Idle" /\ ~posted
        /\ op = "none" /\ opResult = "running" /\ calls = 0 /\ outcome = "none" /\ timer = "off"
    BY <1>1, Tables
    DEF IInv, TypeOK, RestTypeOK, SendInv, CallInv, RequestInv, SendOrder, Signed
  <2>2. /\ order' = o /\ run' = "running"
        /\ UNCHANGED <<state, op, opResult, timer, cancelled, request, answer, outcome, placed>>
    BY <1>1 DEF SendOrder, AsyncRequest, restVars, reportVars
  <2>3. /\ refusal' = IF o \in DOMAIN LocalRefusal THEN LocalRefusal[o] ELSE "none"
        /\ calls' = IF o \in DOMAIN LocalRefusal THEN 1 ELSE 0
    BY <1>1, <2>1, Tables DEF SendOrder, AsyncRequest, restVars, reportVars, Signed, Orders
  <2>7. posted' = IF Signed(o) THEN TRUE ELSE posted
    BY <1>1, Tables DEF SendOrder, AsyncRequest, restVars, Signed
  <2>4. TypeOK'
    BY <1>1, <2>1, <2>2, <2>3, <2>7 DEF IInv, TypeOK, RestTypeOK, Signed
  <2>5. SendInv' /\ CallInv'
    BY <1>1, <2>1, <2>2, <2>3, <2>7, Tables DEF SendInv, CallInv, Signed, Orders
  <2>6. RequestInv' /\ ExchangeInv'
    BY <2>1, <2>2 DEF IInv, RequestInv, ExchangeInv
  <2> QED
    BY <2>4, <2>5, <2>6 DEF IInv
<1>2. CASE Executes
  BY <1>2, ExecutePreserves
<1>3. CASE Resolves
  BY <1>3, Tables, FailurePreserves, CompletedPreserves, SuccessPreserves
  DEF Resolves, InRun, OnResolve, EarlySteps, LateSteps
<1>4. CASE Connects
  BY <1>4, Tables, FailurePreserves, CompletedPreserves, SuccessPreserves
  DEF Connects, InRun, OnConnect, EarlySteps, LateSteps
<1>5. CASE ShakesHands
  BY <1>5, Tables, FailurePreserves, CompletedPreserves, SuccessPreserves
  DEF ShakesHands, InRun, OnHandshake, EarlySteps, LateSteps
<1>6. CASE Writes
  BY <1>6, Tables, FailurePreserves, CompletedPreserves, SuccessPreserves
  DEF Writes, InRun, OnWrite, EarlySteps, LateSteps
<1>7. CASE Reads
  <2>1. CASE OnCompleted("read") \/ OnFailure("read")
    BY <1>7, <2>1, Tables, FailurePreserves, CompletedPreserves DEF Reads, InRun, LateSteps
  <2>2. CASE /\ op = "read" /\ opResult = "ok"
             /\ Complete(answer)
             /\ NoOperation
             /\ UNCHANGED <<posted, cancelled, request, answer>>
    BY <1>7, <2>2, Tables
    DEF Reads, InRun, IInv, TypeOK, RestTypeOK, SendInv, CallInv, RequestInv, ExchangeInv,
        Complete, NoOperation, Signed, HasWork, EarlySteps, LateSteps, Responses, EarlyErrors,
        LateErrors
  <2> QED
    BY <1>7, <2>1, <2>2 DEF Reads, InRun, OnRead
<1>8. CASE TimesOut
  <2>1. TypeOK'
    <3>1. "Timeout" \in RestErrors
      BY Tables
    <3>2. outcome' \in RestErrors \cup Responses \cup {"none"}
      BY <1>8, <3>1 DEF TimesOut, InRun, OnTimeout, IInv, TypeOK, RestTypeOK, reportVars
    <3>3. calls' \in Nat
      BY <1>8 DEF TimesOut, InRun, OnTimeout, IInv, TypeOK, RestTypeOK, reportVars
    <3> QED
      BY <1>8, <3>2, <3>3 DEF TimesOut, InRun, OnTimeout, IInv, TypeOK, RestTypeOK
  <2>2. SendInv' /\ CallInv'
    BY <1>8, Tables
    DEF TimesOut, InRun, OnTimeout, IInv, TypeOK, RestTypeOK, SendInv, CallInv, Signed, HasWork,
        reportVars
  <2>3. RequestInv' /\ ExchangeInv'
    BY <1>8
    DEF TimesOut, InRun, OnTimeout, IInv, RequestInv, ExchangeInv, EarlyErrors, Responses,
        reportVars
  <2> QED
    BY <2>1, <2>2, <2>3 DEF IInv
<1>9. CASE RunReturns
  BY <1>9
  DEF RunReturns, IInv, TypeOK, RestTypeOK, SendInv, CallInv, RequestInv, ExchangeInv, Signed,
      HasWork, restVars, reportVars
<1>10. ASSUME NEW result \in {"ok", "failed"}, Operation(result) PROVE IInv'
  BY <1>10
  DEF Operation, OperationEnds, IInv, TypeOK, RestTypeOK, SendInv, CallInv, RequestInv,
      ExchangeInv, Signed, HasWork, reportVars
<1>11. CASE Timer
  BY <1>11
  DEF Timer, TimerExpires, IInv, TypeOK, RestTypeOK, SendInv, CallInv, RequestInv,
      ExchangeInv, Signed, HasWork, reportVars
<1>12. CASE ExchangeReceives
  BY <1>12
  DEF ExchangeReceives, RequestArrives, IInv, TypeOK, RestTypeOK, SendInv, CallInv, RequestInv,
      ExchangeInv, Signed, HasWork, reportVars, Responses
<1>13. ASSUME NEW response \in Responses, ExchangeAnswers(response) PROVE IInv'
  BY <1>13
  DEF ExchangeAnswers, Answers, IInv, TypeOK, RestTypeOK, SendInv, CallInv, RequestInv,
      ExchangeInv, Signed, HasWork, reportVars, Responses
<1>14. CASE UNCHANGED vars
  BY <1>14
  DEF vars, restVars, reportVars, IInv, TypeOK, RestTypeOK, SendInv, CallInv, RequestInv,
      ExchangeInv, Signed, HasWork
<1> QED
  BY <1>1, <1>2, <1>3, <1>4, <1>5, <1>6, <1>7, <1>8, <1>9, <1>10, <1>11, <1>12, <1>13, <1>14
  DEF Next, Handler, Returned

\* The inductive invariant of the gateway over its session.
THEOREM InductiveInvariant == Spec => []IInv
BY InitIInv, NextIInv, PTL DEF Spec

\* Whatever races with the deadline: the caller's handler is called at most
\* once, and has been when run returns; the error of a step before the write
\* is only reported of an order the exchange never sees; "Submitted" and
\* "ExchangeRejected" are true of its book.
THEOREM ReportsTruth == Spec => []OneTrueReport
<1>1. IInv => OneTrueReport
  <2> SUFFICES ASSUME IInv PROVE OneTrueReport
    OBVIOUS
  <2>1. calls <= 1
    BY DEF IInv, CallInv
  <2>2. ASSUME run = "returned" PROVE calls = 1 <=> order # "noHandler"
    <3>1. op = "none" /\ ~posted
      BY <2>2 DEF IInv, SendInv, HasWork
    <3>2. order # "none" /\ order \in Orders
      BY <2>2 DEF IInv, TypeOK, SendInv
    <3>3. CASE order = "noHandler"
      BY <3>3, Tables DEF IInv, SendInv, CallInv, Signed
    <3>4. CASE order \in DOMAIN LocalRefusal
      BY <3>4, Tables DEF IInv, SendInv, CallInv
    <3>5. CASE Signed(order)
      BY <3>1, <3>5, Tables
      DEF IInv, TypeOK, RestTypeOK, SendInv, CallInv, Signed
    <3> QED
      BY <3>2, <3>3, <3>4, <3>5, Tables DEF Orders, Signed
  <2>3. UnsentMeansUnsent
    <3>1. ASSUME refusal # "none" PROVE request = "unsent"
      BY <3>1, Tables DEF IInv, SendInv, RequestInv, Signed
    <3>2. RefusedLocally => request = "unsent"
      BY <3>1 DEF RefusedLocally, IInv, RequestInv, EarlyErrors
    <3> QED
      BY <3>2 DEF UnsentMeansUnsent, IInv, ExchangeInv
  <2>4. ReportMatchesBook
    <3>1. ASSUME report \in {"Submitted", "ExchangeRejected"}
          PROVE  report = parseResponse(outcome) /\ outcome \notin RestErrors /\ outcome # "none"
      <4>1. refusal = "none"
        <5>1. ASSUME refusal # "none" PROVE FALSE
          <6>1. report = refusal
            BY <5>1 DEF report
          <6>2. PICK o \in DOMAIN LocalRefusal : refusal = LocalRefusal[o]
            BY <5>1 DEF IInv, TypeOK
          <6> QED
            BY <3>1, <6>1, <6>2, Tables DEF LocalRefusal
        <5> QED
          BY <5>1
      <4> QED
        BY <3>1, <4>1 DEF report, ResponseLambda
    <3>2. ASSUME report \in {"Submitted", "ExchangeRejected"}
          PROVE  outcome = answer /\ outcome \in Responses
      BY <3>1, <3>2 DEF IInv, TypeOK, RestTypeOK, ExchangeInv
    <3>3. report = "Submitted" => answer = "acknowledged"
      BY <3>1, <3>2 DEF parseResponse, HasOrder, Responses
    <3>4. report = "ExchangeRejected" => answer = "refused"
      BY <3>1, <3>2 DEF parseResponse, HasOrder, Responses
    <3> QED
      BY <3>3, <3>4 DEF ReportMatchesBook, IInv, ExchangeInv
  <2> QED
    BY <2>1, <2>2, <2>3, <2>4 DEF OneTrueReport, ReportsOnce, IInv
<1> QED
  BY <1>1, InductiveInvariant, PTL

\* A step of the session is a step of Request or leaves it as it is.
LEMMA StepRefines ==
  ASSUME IInv, [Next]_vars
  PROVE  [RequestOnWire!Next]_(RequestOnWire!vars)
<1> DEFINE Reported == IF refusal = "none" THEN calls ELSE 0
<1> USE DEF RequestOnWire!Next, RequestOnWire!vars
<1>0. Reported = IF outcome # "none" THEN 1 ELSE 0
  BY Tables DEF IInv, SendInv, CallInv, Signed, TypeOK, RestTypeOK
<1>1. ASSUME UNCHANGED <<request, answer, outcome, calls, refusal>>
      PROVE  UNCHANGED RequestOnWire!vars
  BY <1>1
<1>2. ASSUME NEW o \in Orders, SendOrder(o) PROVE UNCHANGED RequestOnWire!vars
  <2>1. run = "before" /\ refusal = "none" /\ calls = 0
    BY <1>2, Tables DEF IInv, TypeOK, RestTypeOK, SendInv, CallInv, SendOrder, Signed
  <2>2. UNCHANGED <<request, answer, outcome>>
    BY <1>2 DEF SendOrder, AsyncRequest, restVars, reportVars
  <2>3. \/ UNCHANGED <<calls, refusal>>
        \/ refusal' # "none"
    BY <1>2, Tables DEF SendOrder, AsyncRequest, restVars, reportVars
  <2> QED
    BY <2>1, <2>2, <2>3
\* Reporting x in a session that has not completed.
<1>3. ASSUME NEW x \in RequestOnWire!EarlyErrors \cup RequestOnWire!LateErrors
                         \cup Responses \cup {"Timeout"},
             state # "Completed", refusal = "none", outcome' = x, calls' = calls + 1,
             UNCHANGED <<refusal, request, answer>>,
             x \in EarlyErrors => request = "unsent",
             x \in LateErrors => request # "unsent",
             x \in Responses => x = answer
      PROVE  RequestOnWire!Next
  <2>1. calls = 0
    BY <1>3 DEF IInv, CallInv
  <2> QED
    BY <1>3, <2>1
    DEF RequestOnWire!Report, RequestOnWire!EarlyErrors, RequestOnWire!LateErrors, EarlyErrors,
        LateErrors
<1>4. state # "Idle" \/ posted => refusal = "none"
  BY Tables DEF IInv, SendInv, Signed
<1>5. ASSUME NEW o \in Operations, OnFailure(o), UNCHANGED refusal PROVE RequestOnWire!Next
  <2>1. state # "Idle" /\ state # "Completed"
    BY <1>5, Tables DEF OnFailure, Complete, IInv, TypeOK, RestTypeOK, EarlySteps, LateSteps
  <2>2. outcome' = StepError[o] /\ calls' = calls + 1 /\ UNCHANGED <<request, answer>>
    BY <1>5 DEF OnFailure, Complete
  <2>3. \/ StepError[o] \in EarlyErrors /\ request = "unsent"
        \/ StepError[o] \in LateErrors /\ request # "unsent"
    BY <1>5, Tables
    DEF StepError, EarlySteps, LateSteps, EarlyErrors, LateErrors, OnFailure, IInv, RequestInv
  <2>4. EarlyErrors \cap LateErrors = {} /\ (EarlyErrors \cup LateErrors) \cap Responses = {}
    BY DEF EarlyErrors, LateErrors, Responses
  <2> QED
    BY <1>3, <1>4, <1>5, <2>1, <2>2, <2>3, <2>4
    DEF RequestOnWire!EarlyErrors, RequestOnWire!LateErrors, EarlyErrors, LateErrors
<1>6. ASSUME NEW o \in Operations, OnCompleted(o), UNCHANGED refusal
      PROVE  UNCHANGED RequestOnWire!vars
  BY <1>1, <1>6 DEF OnCompleted, reportVars
<1>7. ASSUME NEW o \in Operations, NEW next \in Operations, OnSuccess(o, next),
             UNCHANGED refusal
      PROVE  /\ UNCHANGED request => UNCHANGED RequestOnWire!vars
             /\ o = "handshake" /\ request' = "inFlight" => RequestOnWire!Write
  <2>1. UNCHANGED request => UNCHANGED RequestOnWire!vars
    BY <1>1, <1>7 DEF OnSuccess, reportVars
  <2>2. ASSUME o = "handshake", request' = "inFlight" PROVE RequestOnWire!Write
    <3>1. outcome = "none" /\ request = "unsent" /\ UNCHANGED <<answer, outcome, calls, refusal>>
      BY <1>7, <2>2
      DEF OnSuccess, reportVars, IInv, TypeOK, RestTypeOK, CallInv, RequestInv, EarlySteps
    <3> QED
      BY <1>0, <2>2, <3>1 DEF RequestOnWire!Write
  <2> QED
    BY <2>1, <2>2
<1>8. CASE Executes
  <2>1. posted /\ state = "Idle" /\ refusal = "none" /\ request = "unsent"
    BY <1>4, <1>8 DEF Executes, InRun, Execute, IInv, SendInv, RequestInv
  <2>2. UNCHANGED <<refusal, request, answer>>
    BY <1>8 DEF Executes, InRun, Execute
  <2>3. ASSUME NEW x \in {"InvalidRequest", "TlsHandshakeFailed"}, Complete(x)
        PROVE  RequestOnWire!Next
    <3>1. x \in EarlyErrors /\ x \notin LateErrors /\ x \notin Responses
      BY DEF EarlyErrors, LateErrors, Responses
    <3> QED
      BY <1>3, <2>1, <2>2, <2>3, <3>1 DEF Complete, RequestOnWire!EarlyErrors, EarlyErrors
  <2> QED
    BY <1>1, <1>8, <2>2, <2>3 DEF Executes, InRun, Execute, reportVars
<1>9. CASE Resolves
  BY <1>5, <1>6, <1>7, <1>9, Tables DEF Resolves, InRun, OnResolve, EarlySteps, LateSteps
<1>10. CASE Connects
  BY <1>5, <1>6, <1>7, <1>10, Tables DEF Connects, InRun, OnConnect, EarlySteps, LateSteps
<1>11. CASE ShakesHands
  BY <1>5, <1>6, <1>7, <1>11, Tables DEF ShakesHands, InRun, OnHandshake, EarlySteps, LateSteps
<1>12. CASE Writes
  BY <1>5, <1>6, <1>7, <1>12, Tables DEF Writes, InRun, OnWrite, EarlySteps, LateSteps
<1>13. CASE Reads
  <2>1. CASE OnCompleted("read") \/ OnFailure("read")
    BY <1>5, <1>6, <1>13, <2>1, Tables DEF Reads, InRun, LateSteps
  <2>2. CASE op = "read" /\ opResult = "ok" /\ Complete(answer) /\ UNCHANGED <<request, answer>>
    <3>1. state # "Idle" /\ state # "Completed" /\ answer \in Responses
      BY <2>2 DEF Complete, IInv, TypeOK, RestTypeOK, RequestInv
    <3>2. answer \notin EarlyErrors /\ answer \notin LateErrors
      BY <3>1 DEF Responses, EarlyErrors, LateErrors
    <3> QED
      BY <1>3, <1>4, <1>13, <2>2, <3>1, <3>2 DEF Reads, InRun, Complete
  <2> QED
    BY <1>13, <2>1, <2>2 DEF Reads, InRun, OnRead
<1>14. CASE TimesOut
  <2>1. CASE timer = "expired" /\ state # "Completed"
    <3>1. state # "Idle"
      BY <2>1 DEF IInv, TypeOK, RestTypeOK
    <3>2. "Timeout" \notin EarlyErrors /\ "Timeout" \notin LateErrors /\ "Timeout" \notin Responses
      BY DEF Responses, EarlyErrors, LateErrors
    <3>3. outcome' = "Timeout" /\ calls' = calls + 1 /\ UNCHANGED <<refusal, request, answer>>
      BY <1>14, <2>1 DEF TimesOut, InRun, OnTimeout
    <3> QED
      BY <1>3, <1>4, <2>1, <3>1, <3>2, <3>3
  <2> QED
    BY <1>1, <1>14, <2>1 DEF TimesOut, InRun, OnTimeout, reportVars
<1>15. CASE RunReturns
  BY <1>1, <1>15 DEF RunReturns, restVars, reportVars
<1>16. ASSUME NEW result \in {"ok", "failed"}, Operation(result)
       PROVE  UNCHANGED RequestOnWire!vars
  BY <1>1, <1>16 DEF Operation, OperationEnds, reportVars
<1>17. CASE Timer
  BY <1>1, <1>17 DEF Timer, TimerExpires, reportVars
<1>18. CASE ExchangeReceives
  BY <1>18 DEF ExchangeReceives, RequestArrives, reportVars, RequestOnWire!Arrive
<1>19. ASSUME NEW response \in Responses, ExchangeAnswers(response) PROVE RequestOnWire!Answer
  BY <1>19 DEF ExchangeAnswers, Answers, reportVars, RequestOnWire!Answer
<1>20. CASE UNCHANGED vars
  BY <1>1, <1>20 DEF vars, restVars, reportVars
<1> QED
  BY <1>2, <1>8, <1>9, <1>10, <1>11, <1>12, <1>13, <1>14, <1>15, <1>16, <1>17, <1>18, <1>19,
     <1>20
  DEF Next, Handler, Returned

\* The session under the gateway implements Request: it writes the request at
\* most once and never after its end was reported, reports once, and what it
\* reports agrees with what became of the request.
THEOREM Refinement == Spec => ImplementsRequest
<1>1. Init => RequestOnWire!Init
  BY DEF Init, RestInit, RequestOnWire!Init
<1> QED
  BY <1>1, InductiveInvariant, StepRefines, PTL DEF Spec, ImplementsRequest, RequestOnWire!Spec
=============================================================================
