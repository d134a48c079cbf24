---------------------------- MODULE OrderGateway ----------------------------
(***************************************************************************)
(* BinanceOrderGateway of binance_order_client: sendOrder refuses an order *)
(* on the spot or signs it and hands it to the RestClient; the response    *)
(* lambda turns whatever the RestSession completes with into the one       *)
(* result the caller gets.  As in main.cpp, one order is sent before       *)
(* ioContext.run, and the program ends when run returns.                   *)
(*                                                                         *)
(* An order is represented by the first check it fails:                    *)
(*   noHandler      the caller gave no handler                             *)
(*   invalidOrder   id 0, no quantity, or a limit order without a price    *)
(*   noCredentials  an API key or secret is empty                          *)
(*   noSymbol       the gateway has no symbol                              *)
(*   unsigned       HMAC fails                                             *)
(*   noHost         the host is empty: passes every check of the gateway   *)
(*                  and is refused by the session                          *)
(*   valid                                                                 *)
(*                                                                         *)
(* The exchange is external.  It places the order or not when the request  *)
(* arrives, and its answer is                                              *)
(*   acknowledged   2xx, with orderId and status: only if it placed it     *)
(*   refused        another status, a JSON object: only if it did not      *)
(*   incomplete     2xx, a JSON object without orderId or status           *)
(*   garbled        no JSON object, such as a proxy's error page           *)
(***************************************************************************)
EXTENDS RestSession

VARIABLES
  order,    \* the order sent, "none" before sendOrder
  refusal,  \* the error sendOrder itself reported, or "none"
  placed,   \* the exchange has the order in its book
  run       \* ioContext.run: "before", "running", "returned"

vars == <<restVars, order, refusal, placed, run>>

Orders == {"noHandler", "invalidOrder", "noCredentials", "noSymbol", "unsigned",
           "noHost", "valid"}

LocalRefusal == [invalidOrder  |-> "InvalidOrder",
                 noCredentials |-> "SigningFailed",
                 noSymbol      |-> "InvalidInstrument",
                 unsigned      |-> "SigningFailed"]

Responses == {"acknowledged", "refused", "incomplete", "garbled"}

Init ==
  /\ RestInit
  /\ order = "none" /\ refusal = "none"
  /\ placed = FALSE
  /\ run = "before"

-----------------------------------------------------------------------------
\* What the caller's handler is given.

\* The two fields a 2xx answer must have.
HasOrder(response) == response = "acknowledged"

parseResponse(response) ==
  CASE response = "garbled" -> "InvalidResponse"
    [] response = "refused" -> "ExchangeRejected"
    [] HasOrder(response)   -> "Submitted"
    [] OTHER                -> "InvalidResponse"

ResponseLambda(result) ==
  IF result \in RestErrors THEN "TransportError" ELSE parseResponse(result)

report ==
  IF refusal # "none" THEN refusal
  ELSE IF outcome = "none" THEN "none" ELSE ResponseLambda(outcome)

-----------------------------------------------------------------------------
\* The query is built and signed before anything is sent.
Signed(o) == o \in {"noHost", "valid"}

SendOrder(o) ==
  /\ run = "before"
  /\ order' = o
  /\ run' = "running"
  /\ \/ /\ o = "noHandler"
        /\ UNCHANGED <<restVars, refusal>>
     \/ /\ o \in DOMAIN LocalRefusal
        /\ refusal' = LocalRefusal[o]
        /\ calls' = calls + 1
        /\ UNCHANGED <<state, posted, op, opResult, timer, cancelled, request, answer, outcome>>
     \/ /\ Signed(o)
        /\ AsyncRequest
        /\ UNCHANGED refusal
  /\ UNCHANGED placed

\* The strand's handlers run while the main thread is in ioContext.run.
InRun(handler) ==
  /\ run = "running"
  /\ handler
  /\ UNCHANGED <<order, refusal, placed, run>>

Executes    == InRun(Execute(order # "noHost"))
Resolves    == InRun(OnResolve)
Connects    == InRun(OnConnect)
ShakesHands == InRun(OnHandshake)
Writes      == InRun(OnWrite)
Reads       == InRun(OnRead)
TimesOut    == InRun(OnTimeout)

Handler ==
  Executes \/ Resolves \/ Connects \/ ShakesHands \/ Writes \/ Reads \/ TimesOut

\* Out of work: the io_context stops and main returns.
RunReturns ==
  /\ run = "running"
  /\ ~HasWork
  /\ run' = "returned"
  /\ UNCHANGED <<restVars, order, refusal, placed>>

\* Operations end and the timer expires with the process's clock and network.
Operation(result) == OperationEnds(result) /\ UNCHANGED <<order, refusal, placed, run>>

Timer == TimerExpires /\ UNCHANGED <<order, refusal, placed, run>>

ExchangeReceives ==
  /\ RequestArrives
  /\ placed' \in BOOLEAN
  /\ UNCHANGED <<order, refusal, run>>

ExchangeAnswers(response) ==
  /\ Answers(response)
  /\ response = "acknowledged" => placed
  /\ response = "refused" => ~placed
  /\ UNCHANGED <<order, refusal, placed, run>>

Returned == run = "returned" /\ UNCHANGED vars

Next ==
  \/ \E o \in Orders : SendOrder(o)
  \/ Handler
  \/ RunReturns
  \/ \E result \in {"ok", "failed"} : Operation(result)
  \/ Timer
  \/ ExchangeReceives
  \/ \E response \in Responses : ExchangeAnswers(response)
  \/ Returned

\* The thread in run executes what is ready, the clock advances, and an
\* operation whose socket was closed or whose resolver was cancelled ends.  The
\* network and the exchange owe nothing.
Spec ==
  /\ Init /\ [][Next]_vars
  /\ WF_vars(\E o \in Orders : SendOrder(o))
  /\ WF_vars(Handler)
  /\ WF_vars(RunReturns)
  /\ WF_vars(Timer)
  /\ WF_vars(cancelled /\ Operation("failed"))

-----------------------------------------------------------------------------
TypeOK ==
  /\ RestTypeOK(Responses)
  /\ order \in Orders \cup {"none"}
  /\ refusal \in {LocalRefusal[o] : o \in DOMAIN LocalRefusal} \cup {"none"}
  /\ placed \in BOOLEAN
  /\ run \in {"before", "running", "returned"}

ReportsOnce ==
  /\ calls <= 1
  /\ run = "returned" => (calls = 1 <=> order # "noHandler")

RefusedLocally ==
  \/ refusal # "none"
  \/ outcome \in {"InvalidRequest", "ResolveFailed", "ConnectFailed", "TlsHandshakeFailed"}

UnsentMeansUnsent == RefusedLocally => request = "unsent" /\ ~placed

ReportMatchesBook ==
  /\ report = "Submitted" => placed
  /\ report = "ExchangeRejected" => ~placed

\* The caller's handler is called at most once, whatever races with the
\* deadline, and it has been called when run returns: no path drops it.  What
\* it is told is true.  After an error of a step before the write, or of the
\* gateway itself, the exchange never sees the order, and sending it again
\* cannot place it twice; "Submitted" is never reported of an order the exchange
\* did not place, nor "ExchangeRejected" of one it did.
OneTrueReport == TypeOK /\ ReportsOnce /\ UnsentMeansUnsent /\ ReportMatchesBook

RequestOnWire == INSTANCE Request WITH report <- IF refusal = "none" THEN calls ELSE 0

\* The session implements Request: whatever races with the deadline, nothing is
\* written once the handler was called, no later step reports over an earlier
\* one, and what is reported agrees with what became of the request.
ImplementsRequest == RequestOnWire!Spec

\* However the network behaves, the deadline ends the session and run returns.
RunEnds == <>(run = "returned")
=============================================================================
