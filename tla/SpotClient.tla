------------------------------ MODULE SpotClient ------------------------------
(***************************************************************************)
(* BinanceSpotClient of binance_spot_client: sendOrder, cancelOrder and    *)
(* getBalances, each signed with a timestamp and handed to a RestSession.  *)
(*                                                                         *)
(* A session is not modelled again: it is taken for what OrderGateway      *)
(* shows it to be, a Request.  It writes the request or not, then reports  *)
(* an error or the answer, once, and its deadline ends it.  What it has    *)
(* written may arrive at the exchange long after it has reported a         *)
(* timeout.  The exchange is external; it refuses a request whose          *)
(* timestamp is more than RecvWindow old, and answers 2xx otherwise only   *)
(* of what it has done.                                                    *)
(*                                                                         *)
(* The caller is the one the API is made for: it sends an order; when that *)
(* ends in a TransportError it lets RecvWindow pass, asks for the balances *)
(* and sends the order again only if they are what they were.              *)
(***************************************************************************)
EXTENDS Naturals, FiniteSets

CONSTANTS RecvWindow, MaxClock

ASSUME TimeAssumption == RecvWindow \in Nat /\ MaxClock \in Nat

Sends == {"send1", "send2"}
Requests == Sends \cup {"cancel", "balances"}

VARIABLES
  setup,   \* what the client was made with: "good", "noSymbol", "noKeys", "unsigned"
  wire,    \* how far a request got: "uncalled", "dropped", "refused",
           \* "unsent", "inFlight", "received"
  stamp,   \* the timestamp a request was signed with
  answer,  \* the exchange's response, or "none"
  report,  \* what the caller's handler was given, or "none"
  order,   \* the order a send places at the exchange, "absent" before
  sentAt,  \* when the caller first called sendOrder
  clock

vars == <<setup, wire, stamp, answer, report, order, sentAt, clock>>

Open == {"NEW", "PARTIALLY_FILLED"}
Live == Open \cup {"FILLED"}
Dead == {"CANCELED", "EXPIRED", "EXPIRED_IN_MATCH"}

Init ==
  /\ setup \in {"good", "noSymbol", "noKeys", "unsigned"}
  /\ wire = [r \in Requests |-> "uncalled"]
  /\ stamp = [r \in Requests |-> 0]
  /\ answer = [r \in Requests |-> "none"]
  /\ report = [r \in Requests |-> "none"]
  /\ order = [s \in Sends |-> "absent"]
  /\ sentAt = 0 /\ clock = 0

-----------------------------------------------------------------------------
\* What an answer is turned into.

\* EXPIRED_IN_MATCH stands for every status the client does not know: it is New.
toOrderStatus(status) ==
  CASE status = "PARTIALLY_FILLED"         -> "PartiallyFilled"
    [] status = "FILLED"                   -> "Filled"
    [] status \in {"CANCELED", "EXPIRED"} -> "Cancelled"
    [] status = "REJECTED"                 -> "Rejected"
    [] OTHER                               -> "New"

\* No JSON object, a refusal, or a 2xx answer without the fields it must have.
ApiError == [garbled    |-> "InvalidResponse",
             refused    |-> "ExchangeRejected",
             incomplete |-> "InvalidResponse"]

\* Mutant: the HTTP status is not looked at.
parseOrderResponseAny(a) ==
  IF a \in {"garbled", "incomplete"} THEN ApiError[a] ELSE toOrderStatus(a)

parseOrderResponse(a) == IF a \in DOMAIN ApiError THEN ApiError[a] ELSE toOrderStatus(a)

\* The test for an unknown status cannot succeed: toOrderStatus always has one.
parseCancelResponse(a) == IF a \in DOMAIN ApiError THEN ApiError[a] ELSE toOrderStatus(a)

parseBalancesResponse(a) == IF a \in DOMAIN ApiError THEN ApiError[a] ELSE a

Result(r) ==
  CASE r \in Sends    -> parseOrderResponse(answer[r])
    [] r = "cancel"   -> parseCancelResponse(answer[r])
    [] r = "balances" -> parseBalancesResponse(answer[r])

-----------------------------------------------------------------------------
\* Calls

Ends(r, how, what) ==
  /\ wire' = [wire EXCEPT ![r] = how]
  /\ report' = [report EXCEPT ![r] = what]
  /\ UNCHANGED stamp

Sign(r, at) ==
  /\ wire' = [wire EXCEPT ![r] = "unsent"]
  /\ stamp' = [stamp EXCEPT ![r] = at]
  /\ UNCHANGED report

\* Mutant: a signature that could not be made ends the call without a word.
asyncSignedRequestSilent(r) ==
  \/ setup = "noKeys" /\ Ends(r, "refused", "SigningFailed")
  \/ setup = "unsigned" /\ Ends(r, "refused", "none")
  \/ setup \in {"good", "noSymbol"} /\ Sign(r, clock)

\* Mutant: the timestamp is in a finer unit than recvWindow: it never is too old.
asyncSignedRequestFine(r) ==
  \/ setup \in {"noKeys", "unsigned"} /\ Ends(r, "refused", "SigningFailed")
  \/ setup \in {"good", "noSymbol"} /\ Sign(r, MaxClock)

asyncSignedRequest(r) ==
  \/ setup \in {"noKeys", "unsigned"} /\ Ends(r, "refused", "SigningFailed")
  \/ setup \in {"good", "noSymbol"} /\ Sign(r, clock)

\* Every call begins with its handler and its arguments.
Call(r, argument) ==
  /\ wire[r] = "uncalled"
  /\ UNCHANGED <<setup, answer, order, clock>>
  /\ \/ argument = "noHandler" /\ Ends(r, "dropped", "none")
     \/ argument = "invalid" /\ Ends(r, "refused", "InvalidRequest")
     \/ argument = "valid" /\ asyncSignedRequest(r)

sendOrder(s, argument) ==
  /\ s = "send2" => report["send1"] = "TransportError" /\ report["balances"] = "unchanged"
  /\ sentAt' = IF s = "send1" THEN clock ELSE sentAt
  /\ Call(s, IF setup = "noSymbol" /\ argument = "valid" THEN "invalid" ELSE argument)

\* The order to cancel has an exchange id: the report that told it open had it.
ToldOpen == {s \in Sends : report[s] \in {"New", "PartiallyFilled"}}

cancelOrder(argument) ==
  /\ argument = "valid" => ToldOpen # {}
  /\ Call("cancel", argument)
  /\ UNCHANGED sentAt

getBalances(argument) ==
  /\ argument # "invalid"
  /\ report["send1"] = "TransportError"
  /\ clock > sentAt + RecvWindow
  /\ Call("balances", argument)
  /\ UNCHANGED sentAt

-----------------------------------------------------------------------------
\* Sessions

SessionWrites(r) ==
  /\ wire[r] = "unsent" /\ report[r] = "none"
  /\ wire' = [wire EXCEPT ![r] = "inFlight"]
  /\ UNCHANGED <<setup, stamp, answer, report, order, sentAt, clock>>

\* A step fails or the deadline passes, whatever has become of the request.
SessionFails(r) ==
  /\ wire[r] \in {"unsent", "inFlight", "received"} /\ report[r] = "none"
  /\ report' = [report EXCEPT ![r] = "TransportError"]
  /\ UNCHANGED <<setup, wire, stamp, answer, order, sentAt, clock>>

SessionReads(r) ==
  /\ wire[r] = "received" /\ report[r] = "none"
  /\ report' = [report EXCEPT ![r] = Result(r)]
  /\ UNCHANGED <<setup, wire, stamp, answer, order, sentAt, clock>>

-----------------------------------------------------------------------------
\* The exchange and the clock

\* An order whose client id belongs to an open order is refused.
Places(s, status) ==
  /\ \A t \in Sends : order[t] \notin Open
  /\ order' = [order EXCEPT ![s] = status]
  /\ answer' \in {[answer EXCEPT ![s] = a] : a \in {status, "incomplete", "garbled"}}

\* A 2xx answer as well, of an order that was not placed.
Rejects(s) ==
  /\ UNCHANGED order
  /\ answer' \in {[answer EXCEPT ![s] = a] : a \in {"REJECTED", "incomplete"}}

Cancels(s) ==
  /\ order[s] \in Open
  /\ order' = [order EXCEPT ![s] = "CANCELED"]
  /\ answer' \in {[answer EXCEPT !["cancel"] = a] : a \in {"CANCELED", "incomplete", "garbled"}}

\* The balances may have changed for other reasons too.
TellsBalances ==
  /\ UNCHANGED order
  /\ \E a \in {"changed", "unchanged", "incomplete"} :
       /\ a = "unchanged" => \A s \in Sends : order[s] \notin Live
       /\ answer' = [answer EXCEPT !["balances"] = a]

Receive(r) ==
  /\ wire[r] = "inFlight"
  /\ wire' = [wire EXCEPT ![r] = "received"]
  /\ \/ \E a \in {"refused", "garbled"} : answer' = [answer EXCEPT ![r] = a] /\ UNCHANGED order
     \/ /\ clock <= stamp[r] + RecvWindow /\ setup = "good"
        /\ \/ r \in Sends /\ \E status \in (Live \cup Dead) \ {"CANCELED"} : Places(r, status)
           \/ r \in Sends /\ Rejects(r)
           \/ r = "cancel" /\ \E s \in ToldOpen : Cancels(s)
           \/ r = "balances" /\ TellsBalances
  /\ UNCHANGED <<setup, stamp, report, sentAt, clock>>

Fill(s) ==
  /\ order[s] \in Open
  /\ \E status \in {"PARTIALLY_FILLED", "FILLED"} : order' = [order EXCEPT ![s] = status]
  /\ UNCHANGED <<setup, wire, stamp, answer, report, sentAt, clock>>

Tick ==
  /\ clock < MaxClock
  /\ clock' = clock + 1
  /\ UNCHANGED <<setup, wire, stamp, answer, report, order, sentAt>>

-----------------------------------------------------------------------------
Next ==
  \/ \E argument \in {"noHandler", "invalid", "valid"} :
       \/ \E s \in Sends : sendOrder(s, argument)
       \/ cancelOrder(argument)
       \/ getBalances(argument)
  \/ \E r \in Requests : SessionWrites(r) \/ SessionFails(r) \/ SessionReads(r) \/ Receive(r)
  \/ \E s \in Sends : Fill(s)
  \/ Tick

\* The deadline ends every session; nothing else is owed.
Spec == Init /\ [][Next]_vars /\ \A r \in Requests : WF_vars(SessionFails(r))

-----------------------------------------------------------------------------
\* Sending again after RecvWindow, when the balances have not changed, never
\* leaves the caller with the order twice, however late the first request, its
\* answer or the timeout: the timestamp asyncSignedRequest signs is what makes
\* the first request worthless by then.
OneLiveOrder == Cardinality({s \in Sends : order[s] \in Live}) <= 1

\* What a send's report leaves the order to be, whatever has traded, or was
\* cancelled, between the exchange's answer and now.  New is also what the client
\* makes of a status it does not know.
Meaning ==
  [New              |-> Live \cup {"CANCELED", "EXPIRED_IN_MATCH"},
   PartiallyFilled  |-> (Live \ {"NEW"}) \cup {"CANCELED"},
   Filled           |-> {"FILLED"},
   Cancelled        |-> {"EXPIRED"},
   Rejected         |-> {"absent"},
   ExchangeRejected |-> {"absent"}]

\* What the caller is told of its order is true of the exchange's book: a status
\* of an order that was placed and is no further back than the status says, a
\* rejection, as a 2xx status or as an error, of one that was not placed; and a
\* cancellation only when an order was cancelled.
ReportMatchesBook ==
  /\ \A s \in Sends : report[s] \in DOMAIN Meaning => order[s] \in Meaning[report[s]]
  /\ report["cancel"] = "Cancelled" => \E s \in Sends : order[s] = "CANCELED"

\* Every call that was given a handler calls it, on every path.
EveryCallReports ==
  \A r \in Requests : wire[r] \notin {"uncalled", "dropped"} ~> report[r] # "none"
=============================================================================
