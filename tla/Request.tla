------------------------------- MODULE Request -------------------------------
(***************************************************************************)
(* What a one-shot HTTP request with a deadline promises: it is written at *)
(* most once and never after its end was reported; one outcome is          *)
(* reported; an error of a step before the write is reported only of a     *)
(* request that was not written, and a response only if it is the one the  *)
(* server gave.  RestSession implements it, as the order gateway uses it;  *)
(* SpotClient takes a session for no more than this.                       *)
(***************************************************************************)
CONSTANTS Responses

VARIABLES
  request,  \* "unsent", "inFlight", "received"
  answer,   \* the server's response, or "none"
  outcome,  \* what was reported, or "none"
  report    \* 0 before the report, 1 after it

vars == <<request, answer, outcome, report>>

EarlyErrors == {"InvalidRequest", "ResolveFailed", "ConnectFailed", "TlsHandshakeFailed"}
LateErrors == {"WriteFailed", "ReadFailed"}

Init == request = "unsent" /\ answer = "none" /\ outcome = "none" /\ report = 0

Write ==
  /\ report = 0 /\ request = "unsent"
  /\ request' = "inFlight"
  /\ UNCHANGED <<answer, outcome, report>>

\* The server may answer at once.
Arrive ==
  /\ request = "inFlight"
  /\ request' = "received"
  /\ answer' = answer \/ answer' \in Responses
  /\ UNCHANGED <<outcome, report>>

Answer ==
  /\ request = "received" /\ answer = "none"
  /\ answer' \in Responses
  /\ UNCHANGED <<request, outcome, report>>

Report(x) ==
  /\ report = 0
  /\ x \in EarlyErrors => request = "unsent"
  /\ x \in LateErrors => request # "unsent"
  /\ x \in Responses => x = answer
  /\ outcome' = x
  /\ report' = 1
  /\ UNCHANGED <<request, answer>>

Next ==
  \/ Write \/ Arrive \/ Answer
  \/ \E x \in EarlyErrors \cup LateErrors \cup Responses \cup {"Timeout"} : Report(x)

Spec == Init /\ [][Next]_vars
=============================================================================
