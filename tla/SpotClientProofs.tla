-------------------------- MODULE SpotClientProofs --------------------------
(***************************************************************************)
(* Proofs about the spot client, for every RecvWindow and every bound of   *)
(* the clock.  The argument for sending again: the balances are asked for  *)
(* only when the window of the first request has passed, so from then on   *)
(* the exchange places nothing for it; what the balances say of it is      *)
(* final (WindowInv).  The rest of the invariant follows a report back to  *)
(* the answer it was read from (SessionInv) and an answer to the book      *)
(* (BookInv).                                                              *)
(***************************************************************************)
EXTENDS SpotClient, FiniteSetTheorems, TLAPS

Signed == {"unsent", "inFlight", "received"}
OwnErrors == {"none", "InvalidRequest", "SigningFailed", "TransportError"}
Errors == {"refused", "garbled", "incomplete"}
Answers == {"changed", "unchanged", "REJECTED"} \cup Errors \cup Live \cup Dead

\* What the book says of an order, whatever happened since this was answered.
Since == [a \in {"refused", "REJECTED"} \cup Live \cup (Dead \ {"CANCELED"}) |->
            CASE a \in {"refused", "REJECTED"} -> {"absent"}
              [] a = "NEW"                     -> Live \cup {"CANCELED"}
              [] a = "PARTIALLY_FILLED"        -> (Live \ {"NEW"}) \cup {"CANCELED"}
              [] OTHER                         -> {a}]

TypeInv ==
  /\ wire \in [Requests -> {"uncalled", "dropped", "refused"} \cup Signed]
  /\ stamp \in [Requests -> Nat]
  /\ answer \in [Requests -> {"none"} \cup Answers]
  /\ report = [r \in Requests |-> report[r]]
  /\ order \in [Sends -> {"absent"} \cup Live \cup Dead]
  /\ sentAt \in Nat /\ clock \in Nat

\* What was reported is the client's own error or was read from the answer.
SessionInv ==
  \A r \in Requests :
    /\ wire[r] \in {"uncalled", "dropped"} => report[r] = "none"
    /\ wire[r] = "received" <=> answer[r] # "none"
    /\ report[r] \in OwnErrors \/ (wire[r] = "received" /\ report[r] = Result(r))

\* What the exchange answered is true of its book, and stays so.
BookInv ==
  /\ \A s \in Sends :
       /\ order[s] # "absent" => wire[s] = "received"
       /\ answer[s] \in DOMAIN Since => order[s] \in Since[answer[s]]
       /\ answer[s] \notin {"changed", "unchanged", "CANCELED"}
  /\ answer["cancel"] \in {"none", "CANCELED"} \cup Errors
  /\ answer["cancel"] = "CANCELED" => \E s \in Sends : order[s] = "CANCELED"
  /\ answer["balances"] \in {"none", "changed", "unchanged"} \cup Errors

\* The second send comes after the balances, the balances after the window.
WindowInv ==
  /\ wire["send1"] \in Signed => stamp["send1"] = sentAt
  /\ wire["balances"] # "uncalled" =>
       report["send1"] = "TransportError" /\ clock > sentAt + RecvWindow
  /\ answer["balances"] = "unchanged" => order["send1"] \notin Live
  /\ wire["send2"] # "uncalled" => report["balances"] = "unchanged"

IInv == TypeInv /\ SessionInv /\ BookInv /\ WindowInv

-----------------------------------------------------------------------------
\* The cases of Since.
LEMMA SinceCases ==
  /\ DOMAIN Since = {"refused", "REJECTED", "NEW", "PARTIALLY_FILLED", "FILLED",
                     "EXPIRED", "EXPIRED_IN_MATCH"}
  /\ Since["refused"] = {"absent"} /\ Since["REJECTED"] = {"absent"}
  /\ Since["NEW"] = Live \cup {"CANCELED"}
  /\ Since["PARTIALLY_FILLED"] = (Live \ {"NEW"}) \cup {"CANCELED"}
  /\ Since["FILLED"] = {"FILLED"} /\ Since["EXPIRED"] = {"EXPIRED"}
  /\ Since["EXPIRED_IN_MATCH"] = {"EXPIRED_IN_MATCH"}
<1>1. DOMAIN Since = {"refused", "REJECTED", "NEW", "PARTIALLY_FILLED", "FILLED",
                      "EXPIRED", "EXPIRED_IN_MATCH"}
  BY DEF Since, Live, Open, Dead
<1>2. Since["refused"] = {"absent"} /\ Since["REJECTED"] = {"absent"}
  BY DEF Since
<1>3. Since["NEW"] = Live \cup {"CANCELED"}
  BY DEF Since, Live, Open
<1>4. Since["PARTIALLY_FILLED"] = (Live \ {"NEW"}) \cup {"CANCELED"}
  BY DEF Since, Live, Open
<1>5. Since["FILLED"] = {"FILLED"}
  BY DEF Since, Live
<1>6. Since["EXPIRED"] = {"EXPIRED"} /\ Since["EXPIRED_IN_MATCH"] = {"EXPIRED_IN_MATCH"}
  BY DEF Since, Dead
<1> QED
  BY <1>1, <1>2, <1>3, <1>4, <1>5, <1>6

\* Where a reported status, refusal or balance can have come from.
LEMMA Parses ==
  ASSUME NEW a
  PROVE  /\ (/\ a \in Answers \ {"changed", "unchanged", "CANCELED"}
             /\ parseOrderResponse(a) \in DOMAIN Meaning) =>
            a \in DOMAIN Since /\ Since[a] \subseteq Meaning[parseOrderResponse(a)]
         /\ parseOrderResponse(a) = "Cancelled" => a \in {"CANCELED", "EXPIRED"}
         /\ parseCancelResponse(a) = parseOrderResponse(a)
         /\ parseBalancesResponse(a) = "unchanged" => a = "unchanged"
<1>1. DOMAIN ApiError = Errors
  BY DEF ApiError, Errors
<1>2. a \in Errors => ApiError[a] = IF a = "refused" THEN "ExchangeRejected" ELSE "InvalidResponse"
  BY DEF ApiError, Errors
<1>3. /\ a \notin Errors => parseOrderResponse(a) = toOrderStatus(a)
      /\ a \in Errors => parseOrderResponse(a) = ApiError[a]
  BY <1>1 DEF parseOrderResponse
<1>4. toOrderStatus(a) = "Cancelled" => a \in {"CANCELED", "EXPIRED"}
  <2>1. CASE a \in {"PARTIALLY_FILLED", "FILLED", "REJECTED"}
    BY <2>1 DEF toOrderStatus
  <2>2. CASE a \in {"CANCELED", "EXPIRED"}
    BY <2>2
  <2>3. CASE a \notin {"PARTIALLY_FILLED", "FILLED", "REJECTED", "CANCELED", "EXPIRED"}
    BY <2>3 DEF toOrderStatus
  <2> QED
    BY <2>1, <2>2, <2>3
<1>5. parseBalancesResponse(a) = "unchanged" => a = "unchanged"
  BY <1>1, <1>2 DEF parseBalancesResponse
<1>6. parseCancelResponse(a) = parseOrderResponse(a)
  BY DEF parseCancelResponse, parseOrderResponse
<1>7. ASSUME a \in Answers \ {"changed", "unchanged", "CANCELED"},
             parseOrderResponse(a) \in DOMAIN Meaning
      PROVE  a \in DOMAIN Since /\ Since[a] \subseteq Meaning[parseOrderResponse(a)]
  <2>1. CASE a \in {"garbled", "incomplete"}
    <3>1. parseOrderResponse(a) = "InvalidResponse"
      BY <2>1, <1>2, <1>3 DEF Errors
    <3> QED
      BY <1>7, <3>1 DEF Meaning
  <2>2. CASE a = "refused"
    <3>1. parseOrderResponse(a) = "ExchangeRejected"
      BY <2>2, <1>2, <1>3 DEF Errors
    <3> QED
      BY <2>2, <3>1, SinceCases DEF Meaning, Live, Open
  <2>3. CASE a = "NEW"
    <3>1. parseOrderResponse(a) = "New"
      BY <2>3, <1>3 DEF toOrderStatus, Errors
    <3> QED
      BY <2>3, <3>1, SinceCases DEF Meaning, Live, Open
  <2>4. CASE a = "PARTIALLY_FILLED"
    <3>1. parseOrderResponse(a) = "PartiallyFilled"
      BY <2>4, <1>3 DEF toOrderStatus, Errors
    <3> QED
      BY <2>4, <3>1, SinceCases DEF Meaning, Live, Open
  <2>5. CASE a = "FILLED"
    <3>1. parseOrderResponse(a) = "Filled"
      BY <2>5, <1>3 DEF toOrderStatus, Errors
    <3> QED
      BY <2>5, <3>1, SinceCases DEF Meaning, Live, Open
  <2>6. CASE a = "EXPIRED"
    <3>1. parseOrderResponse(a) = "Cancelled"
      BY <2>6, <1>3 DEF toOrderStatus, Errors
    <3> QED
      BY <2>6, <3>1, SinceCases DEF Meaning, Live, Open
  <2>7. CASE a = "EXPIRED_IN_MATCH"
    <3>1. parseOrderResponse(a) = "New"
      BY <2>7, <1>3 DEF toOrderStatus, Errors
    <3> QED
      BY <2>7, <3>1, SinceCases DEF Meaning, Live, Open
  <2>8. CASE a = "REJECTED"
    <3>1. parseOrderResponse(a) = "Rejected"
      BY <2>8, <1>3 DEF toOrderStatus, Errors
    <3> QED
      BY <2>8, <3>1, SinceCases DEF Meaning, Live, Open
  <2> QED
    BY <1>7, <2>1, <2>2, <2>3, <2>4, <2>5, <2>6, <2>7, <2>8
       DEF Answers, Errors, Live, Open, Dead
<1> QED
  BY <1>2, <1>3, <1>4, <1>5, <1>6, <1>7

\* What Result takes its answer for.
LEMMA Results ==
  /\ \A s \in Sends : Result(s) = parseOrderResponse(answer[s])
  /\ Result("cancel") = parseOrderResponse(answer["cancel"])
  /\ Result("balances") = parseBalancesResponse(answer["balances"])
<1>1. "cancel" \notin Sends /\ "balances" \notin Sends
  BY DEF Sends
<1>2. \A s \in Sends : Result(s) = parseOrderResponse(answer[s])
  BY DEF Result, Sends
<1>3. Result("cancel") = parseOrderResponse(answer["cancel"])
  BY <1>1, Parses DEF Result
<1>4. Result("balances") = parseBalancesResponse(answer["balances"])
  BY <1>1 DEF Result
<1> QED
  BY <1>2, <1>3, <1>4

\* Nothing was called yet.
LEMMA InitIInv == Init => IInv
<1> SUFFICES ASSUME Init PROVE IInv
  OBVIOUS
<1>1. TypeInv
  BY DEF Init, TypeInv
<1>2. SessionInv
  BY DEF Init, SessionInv, OwnErrors
<1>3. BookInv
  BY SinceCases DEF Init, BookInv, Sends, Requests, Errors
<1>4. WindowInv
  BY DEF Init, WindowInv, Sends, Requests, Signed
<1> QED
  BY <1>1, <1>2, <1>3, <1>4 DEF IInv

\* A call of request r begins it and reports nothing but the client's own errors.
LEMMA CallFacts ==
  ASSUME IInv, NEW r \in Requests, NEW argument, Call(r, argument)
  PROVE  /\ wire[r] = "uncalled" /\ report[r] = "none" /\ answer[r] = "none"
         /\ UNCHANGED <<setup, answer, order, clock>>
         /\ wire' = [wire EXCEPT ![r] = wire'[r]] /\ wire'[r] \in {"dropped", "refused", "unsent"}
         /\ report' = [report EXCEPT ![r] = report'[r]] /\ report'[r] \in OwnErrors
         /\ wire'[r] = "dropped" => report'[r] = "none"
         /\ stamp' \in [Requests -> Nat]
         /\ wire'[r] = "unsent" => argument = "valid" /\ stamp'[r] = clock
         /\ \A q \in Requests : q # r => stamp'[q] = stamp[q]
<1>1. /\ wire[r] = "uncalled" /\ UNCHANGED <<setup, answer, order, clock>>
  BY DEF Call
<1>2. report[r] = "none" /\ answer[r] = "none"
  BY <1>1 DEF IInv, SessionInv
<1>3. /\ wire \in [Requests -> {"uncalled", "dropped", "refused"} \cup Signed]
      /\ stamp \in [Requests -> Nat] /\ clock \in Nat
      /\ report = [q \in Requests |-> report[q]]
  BY DEF IInv, TypeInv
<1>4. CASE \E how \in {"dropped", "refused"}, what \in OwnErrors :
             Ends(r, how, what) /\ (how = "dropped" => what = "none")
  BY <1>1, <1>2, <1>3, <1>4 DEF Ends
<1>5. CASE Sign(r, clock) /\ argument = "valid"
  BY <1>1, <1>2, <1>3, <1>5 DEF Sign, OwnErrors
<1>6. \/ \E how \in {"dropped", "refused"}, what \in OwnErrors :
           Ends(r, how, what) /\ (how = "dropped" => what = "none")
      \/ Sign(r, clock) /\ argument = "valid"
  BY DEF Call, asyncSignedRequest, OwnErrors
<1> QED
  BY <1>4, <1>5, <1>6

\* What a call changes for the request itself leaves its session in order.
LEMMA CallKeepsSession ==
  ASSUME IInv, NEW r \in Requests, NEW argument, Call(r, argument), sentAt' \in Nat
  PROVE  TypeInv' /\ SessionInv'
<1>1. TypeInv'
  <2>1. wire' \in [Requests -> {"uncalled", "dropped", "refused"} \cup Signed]
    BY CallFacts DEF IInv, TypeInv, Signed
  <2>2. report' = [q \in Requests |-> report'[q]]
    BY CallFacts DEF IInv, TypeInv
  <2> QED
    BY <2>1, <2>2, CallFacts DEF IInv, TypeInv
<1>2. SessionInv'
  <2> SUFFICES ASSUME NEW q \in Requests
               PROVE  /\ wire'[q] \in {"uncalled", "dropped"} => report'[q] = "none"
                      /\ wire'[q] = "received" <=> answer'[q] # "none"
                      /\ \/ report'[q] \in OwnErrors
                         \/ wire'[q] = "received" /\ report'[q] = Result(q)'
    BY DEF SessionInv
  <2>1. CASE q = r
    <3>1. /\ wire'[r] \in {"dropped", "refused", "unsent"} /\ answer'[r] = "none"
          /\ report'[r] \in OwnErrors /\ (wire'[r] = "dropped" => report'[r] = "none")
      BY CallFacts
    <3> QED
      BY <2>1, <3>1
  <2>2. CASE q # r
    <3>1. wire'[q] = wire[q] /\ report'[q] = report[q] /\ answer'[q] = answer[q]
      BY <2>2, CallFacts DEF IInv, TypeInv
    <3>2. Result(q)' = Result(q)
      BY CallFacts DEF Result
    <3> QED
      BY <3>1, <3>2 DEF IInv, SessionInv
  <2> QED
    BY <2>1, <2>2
<1> QED
  BY <1>1, <1>2

\* The caller sends the order, again only under its rule.
LEMMA SendOrderKeeps ==
  ASSUME IInv, NEW s \in Sends, NEW argument, sendOrder(s, argument)
  PROVE  IInv'
<1> DEFINE given == IF setup = "noSymbol" /\ argument = "valid" THEN "invalid" ELSE argument
<1>1. /\ Call(s, given) /\ s \in Requests
      /\ sentAt' = IF s = "send1" THEN clock ELSE sentAt
      /\ s = "send2" => report["send1"] = "TransportError" /\ report["balances"] = "unchanged"
  BY DEF sendOrder, Requests
<1> HIDE DEF given
<1>2. /\ wire[s] = "uncalled" /\ report[s] = "none" /\ answer[s] = "none"
      /\ UNCHANGED <<answer, order, clock>>
      /\ wire' = [wire EXCEPT ![s] = wire'[s]] /\ wire'[s] \in {"dropped", "refused", "unsent"}
      /\ report' = [report EXCEPT ![s] = report'[s]] /\ report'[s] \in OwnErrors
      /\ wire'[s] = "unsent" => stamp'[s] = clock
      /\ \A q \in Requests : q # s => stamp'[q] = stamp[q]
  BY <1>1, CallFacts
<1>3. sentAt' \in Nat
  BY <1>1 DEF IInv, TypeInv
<1>4. TypeInv' /\ SessionInv'
  BY <1>1, <1>3, CallKeepsSession
<1>5. \A q \in Requests : q # s => wire'[q] = wire[q] /\ report'[q] = report[q]
  BY <1>2 DEF IInv, TypeInv
<1>6. /\ "cancel" \in Requests /\ "balances" \in Requests /\ Sends \subseteq Requests
      /\ "cancel" # s /\ "balances" # s /\ "send1" \in Sends /\ "send2" \in Sends
  BY DEF Requests, Sends
<1>7. BookInv'
  <2>1. \A q \in Sends : order[q] # "absent" => q # s
    BY <1>2 DEF IInv, BookInv
  <2>2. \A q \in Sends : order'[q] # "absent" => wire'[q] = "received"
    BY <1>2, <1>5, <1>6, <2>1 DEF IInv, BookInv
  <2> QED
    BY <1>2, <2>2 DEF IInv, BookInv
<1>8. WindowInv'
  <2>1. CASE s = "send1"
    <3>1. wire["balances"] = "uncalled" /\ wire["send2"] = "uncalled"
      <4>1. report["send1"] # "TransportError"
        BY <1>2, <2>1
      <4>2. wire["balances"] = "uncalled"
        BY <4>1 DEF IInv, WindowInv
      <4>3. report["balances"] = "none"
        BY <4>2, <1>6 DEF IInv, SessionInv
      <4> QED
        BY <4>2, <4>3 DEF IInv, WindowInv
    <3>2. wire'["balances"] = "uncalled" /\ wire'["send2"] = "uncalled"
      BY <3>1, <1>5, <1>6, <2>1
    <3>3. wire'["send1"] \in Signed => stamp'["send1"] = sentAt'
      BY <1>1, <1>2, <2>1 DEF Signed
    <3>4. answer'["balances"] = "unchanged" => order'["send1"] \notin Live
      BY <1>2 DEF IInv, WindowInv
    <3> QED
      BY <3>2, <3>3, <3>4 DEF WindowInv
  <2>2. CASE s = "send2"
    <3>1. /\ wire'["send1"] = wire["send1"] /\ report'["send1"] = report["send1"]
          /\ wire'["balances"] = wire["balances"] /\ report'["balances"] = report["balances"]
          /\ stamp'["send1"] = stamp["send1"] /\ sentAt' = sentAt
      BY <1>1, <1>2, <1>5, <1>6, <2>2
    <3>2. report'["balances"] = "unchanged"
      BY <1>1, <2>2, <3>1
    <3> QED
      BY <3>1, <3>2, <1>2 DEF IInv, WindowInv
  <2> QED
    BY <2>1, <2>2 DEF Sends
<1> QED
  BY <1>4, <1>7, <1>8 DEF IInv

\* An order is cancelled by the id of a send that reported it open.
LEMMA CancelOrderKeeps ==
  ASSUME IInv, NEW argument, cancelOrder(argument)
  PROVE  IInv'
<1>1. /\ Call("cancel", argument) /\ "cancel" \in Requests /\ sentAt' = sentAt
  BY DEF cancelOrder, Requests
<1>2. /\ wire' = [wire EXCEPT !["cancel"] = wire'["cancel"]]
      /\ wire'["cancel"] \in {"dropped", "refused", "unsent"}
      /\ report' = [report EXCEPT !["cancel"] = report'["cancel"]]
      /\ UNCHANGED <<answer, order, clock>>
      /\ \A q \in Requests : q # "cancel" => stamp'[q] = stamp[q]
  BY <1>1, CallFacts
<1>3. TypeInv' /\ SessionInv'
  <2>1. sentAt' \in Nat
    BY <1>1 DEF IInv, TypeInv
  <2> QED
    BY <1>1, <2>1, CallKeepsSession
<1>4. \A q \in Requests : q # "cancel" =>
        wire'[q] = wire[q] /\ report'[q] = report[q] /\ stamp'[q] = stamp[q]
  BY <1>2 DEF IInv, TypeInv
<1>5. \A q \in {"send1", "send2", "balances"} : q \in Requests /\ q # "cancel"
  BY DEF Requests, Sends
<1>6. BookInv'
  <2>1. \A q \in Sends : wire'[q] = wire[q]
    BY <1>4, <1>5 DEF Sends
  <2> QED
    BY <1>2, <2>1 DEF IInv, BookInv
<1>7. WindowInv'
  BY <1>1, <1>2, <1>4, <1>5 DEF IInv, WindowInv
<1> QED
  BY <1>3, <1>6, <1>7 DEF IInv

\* The balances are asked for when the window of the first send has passed.
LEMMA GetBalancesKeeps ==
  ASSUME IInv, NEW argument, getBalances(argument)
  PROVE  IInv'
<1>1. /\ Call("balances", argument) /\ "balances" \in Requests /\ sentAt' = sentAt
      /\ report["send1"] = "TransportError" /\ clock > sentAt + RecvWindow
  BY DEF getBalances, Requests
<1>2. /\ wire["balances"] = "uncalled" /\ report["balances"] = "none"
      /\ wire' = [wire EXCEPT !["balances"] = wire'["balances"]]
      /\ report' = [report EXCEPT !["balances"] = report'["balances"]]
      /\ UNCHANGED <<answer, order, clock>>
      /\ \A q \in Requests : q # "balances" => stamp'[q] = stamp[q]
  BY <1>1, CallFacts
<1>3. TypeInv' /\ SessionInv'
  <2>1. sentAt' \in Nat
    BY <1>1 DEF IInv, TypeInv
  <2> QED
    BY <1>1, <2>1, CallKeepsSession
<1>4. \A q \in Requests : q # "balances" =>
        wire'[q] = wire[q] /\ report'[q] = report[q] /\ stamp'[q] = stamp[q]
  BY <1>2 DEF IInv, TypeInv
<1>5. \A q \in {"send1", "send2", "cancel"} : q \in Requests /\ q # "balances"
  BY DEF Requests, Sends
<1>6. BookInv'
  <2>1. \A q \in Sends : wire'[q] = wire[q] /\ report'[q] = report[q]
    BY <1>4, <1>5 DEF Sends
  <2>2. wire'["cancel"] = wire["cancel"]
    BY <1>4, <1>5
  <2> QED
    BY <1>2, <2>1, <2>2 DEF IInv, BookInv
<1>7. WindowInv'
  <2>1. wire'["send2"] = "uncalled"
    BY <1>2, <1>4, <1>5 DEF IInv, WindowInv
  <2>2. report'["send1"] = "TransportError" /\ clock' > sentAt' + RecvWindow
    BY <1>1, <1>2, <1>4, <1>5
  <2> QED
    BY <1>1, <1>2, <1>4, <1>5, <2>1, <2>2 DEF IInv, WindowInv
<1> QED
  BY <1>3, <1>6, <1>7 DEF IInv

-----------------------------------------------------------------------------
\* The session writes the request.
LEMMA SessionWritesKeeps ==
  ASSUME IInv, NEW r \in Requests, SessionWrites(r)
  PROVE  IInv'
<1>1. /\ wire[r] = "unsent" /\ wire' = [wire EXCEPT ![r] = "inFlight"]
      /\ UNCHANGED <<setup, stamp, answer, report, order, sentAt, clock>>
  BY DEF SessionWrites
<1>2. TypeInv'
  BY <1>1 DEF IInv, TypeInv, Signed
<1>3. wire'[r] = "inFlight" /\ \A q \in Requests : q # r => wire'[q] = wire[q]
  BY <1>1 DEF IInv, TypeInv
<1>4. \A q \in Requests : /\ wire'[q] = "received" <=> wire[q] = "received"
                          /\ wire'[q] \in Signed <=> wire[q] \in Signed
                          /\ wire'[q] = "uncalled" <=> wire[q] = "uncalled"
                          /\ wire'[q] = "dropped" <=> wire[q] = "dropped"
  BY <1>1, <1>3 DEF Signed
<1>5. \A q \in Requests : Result(q)' = Result(q)
  BY <1>1 DEF Result
<1>6. \A q \in Sends \cup {"cancel", "balances", "send1", "send2"} : q \in Requests
  BY DEF Requests, Sends
<1>7. SessionInv'
  BY <1>1, <1>4, <1>5 DEF IInv, SessionInv
<1>8. BookInv'
  BY <1>1, <1>4, <1>6 DEF IInv, BookInv
<1>9. WindowInv'
  BY <1>1, <1>4, <1>6 DEF IInv, WindowInv
<1> QED
  BY <1>2, <1>7, <1>8, <1>9 DEF IInv

\* A session's report is the first and only one of its request.
LEMMA ReportKeeps ==
  ASSUME IInv, NEW r \in Requests, report[r] = "none", wire[r] \in Signed, NEW what,
         what = "TransportError" \/ (wire[r] = "received" /\ what = Result(r)),
         report' = [report EXCEPT ![r] = what],
         UNCHANGED <<setup, wire, stamp, answer, order, sentAt, clock>>
  PROVE  IInv'
<1>1. TypeInv'
  BY DEF IInv, TypeInv
<1>2. report'[r] = what /\ \A q \in Requests : q # r => report'[q] = report[q]
  BY DEF IInv, TypeInv
<1>3. \A q \in Requests : Result(q)' = Result(q)
  BY DEF Result
<1>4. \A q \in Sends \cup {"cancel", "balances", "send1", "send2"} : q \in Requests
  BY DEF Requests, Sends
<1>5. SessionInv'
  BY <1>2, <1>3 DEF IInv, SessionInv, OwnErrors, Signed
<1>6. \A q \in Requests : report[q] # "none" => report'[q] = report[q]
  BY <1>2
<1>7. BookInv'
  BY DEF IInv, BookInv
<1>8. WindowInv'
  BY <1>4, <1>6 DEF IInv, WindowInv
<1> QED
  BY <1>1, <1>5, <1>7, <1>8 DEF IInv

\* Failures and deadlines, and answers that were read.
LEMMA SessionEndKeeps ==
  ASSUME IInv, NEW r \in Requests, SessionFails(r) \/ SessionReads(r)
  PROVE  IInv'
<1>1. CASE SessionFails(r)
  BY <1>1, ReportKeeps DEF SessionFails, Signed
<1>2. CASE SessionReads(r)
  BY <1>2, ReportKeeps DEF SessionReads, Signed
<1> QED
  BY <1>1, <1>2

-----------------------------------------------------------------------------
\* What may become of an order once it was placed.
Moves(from, to) ==
  to = from \/ (from \in Open /\ to \in {"PARTIALLY_FILLED", "FILLED", "CANCELED"})

\* An answer stays true of an order that moves on.
LEMMA SinceStays ==
  ASSUME NEW a \in DOMAIN Since, NEW from \in Since[a], NEW to, Moves(from, to)
  PROVE  to \in Since[a]
<1>1. CASE a \in {"refused", "REJECTED", "FILLED", "EXPIRED", "EXPIRED_IN_MATCH"}
  <2>1. from \notin Open
    BY <1>1, SinceCases DEF Open
  <2> QED
    BY <2>1 DEF Moves
<1>2. CASE a = "NEW"
  BY <1>2, SinceCases DEF Moves, Live, Open
<1>3. CASE a = "PARTIALLY_FILLED"
  BY <1>3, SinceCases DEF Moves, Live, Open
<1> QED
  BY <1>1, <1>2, <1>3, SinceCases

\* Orders that move on leave the book's part of the invariant as it was.
LEMMA MovesKeepBook ==
  ASSUME IInv, NEW s \in Sends, Moves(order[s], order'[s])
  PROVE  /\ order'[s] = "absent" <=> order[s] = "absent"
         /\ order[s] = "CANCELED" => order'[s] = "CANCELED"
         /\ order'[s] \in Live => order[s] \in Live
         /\ answer[s] \in DOMAIN Since => order'[s] \in Since[answer[s]]
<1>1. /\ order'[s] = "absent" <=> order[s] = "absent"
      /\ order[s] = "CANCELED" => order'[s] = "CANCELED"
      /\ order'[s] \in Live => order[s] \in Live
  BY DEF Moves, Open, Live
<1>2. answer[s] \in DOMAIN Since => order'[s] \in Since[answer[s]]
  BY SinceStays DEF IInv, BookInv
<1> QED
  BY <1>1, <1>2

\* A request that arrives is answered; what the answer and the book must agree
\* on is the hypothesis, which each kind of request meets below.
LEMMA AnswerKeeps ==
  ASSUME IInv, NEW r \in Requests, wire[r] = "inFlight",
         wire' = [wire EXCEPT ![r] = "received"],
         UNCHANGED <<setup, stamp, report, sentAt, clock>>,
         NEW a \in Answers,
         answer' = [answer EXCEPT ![r] = a],
         order' \in [Sends -> {"absent"} \cup Live \cup Dead],
         \A s \in Sends : s # r => Moves(order[s], order'[s]),
         r \in Sends => /\ a \in DOMAIN Since => order'[r] \in Since[a]
                        /\ a \notin {"changed", "unchanged", "CANCELED"},
         r = "cancel" => /\ a \in {"CANCELED"} \cup Errors
                         /\ a = "CANCELED" => \E s \in Sends : order'[s] = "CANCELED",
         r = "balances" => a \in {"changed", "unchanged"} \cup Errors,
         r = "balances" /\ a = "unchanged" => order'["send1"] \notin Live,
         r # "balances" /\ answer["balances"] = "unchanged" => order'["send1"] \notin Live
  PROVE  IInv'
<1>1. /\ wire'[r] = "received" /\ answer'[r] = a
      /\ \A q \in Requests : q # r => wire'[q] = wire[q] /\ answer'[q] = answer[q]
  BY DEF IInv, TypeInv
<1>2. \A q \in Sends \cup {"cancel", "balances", "send1", "send2"} : q \in Requests
  BY DEF Requests, Sends
<1>3. "cancel" \notin Sends /\ "balances" \notin Sends /\ "send1" \in Sends
  BY DEF Sends
<1>4. a # "none" /\ answer[r] = "none"
  <2>1. a # "none"
    BY DEF Answers, Errors, Live, Open, Dead
  <2> QED
    BY <2>1 DEF IInv, SessionInv
<1>5. TypeInv'
  <2>1. wire' \in [Requests -> {"uncalled", "dropped", "refused"} \cup Signed]
    BY DEF IInv, TypeInv, Signed
  <2>2. answer' \in [Requests -> {"none"} \cup Answers]
    BY DEF IInv, TypeInv
  <2> QED
    BY <2>1, <2>2 DEF IInv, TypeInv
<1>6. SessionInv'
  <2> SUFFICES ASSUME NEW q \in Requests
               PROVE  /\ wire'[q] \in {"uncalled", "dropped"} => report'[q] = "none"
                      /\ wire'[q] = "received" <=> answer'[q] # "none"
                      /\ \/ report'[q] \in OwnErrors
                         \/ wire'[q] = "received" /\ report'[q] = Result(q)'
    BY DEF SessionInv
  <2>1. CASE q = r
    <3>1. report[r] \in OwnErrors
      BY DEF IInv, SessionInv
    <3> QED
      BY <2>1, <3>1, <1>1, <1>4
  <2>2. CASE q # r
    <3>1. wire'[q] = wire[q] /\ answer'[q] = answer[q]
      BY <2>2, <1>1
    <3>2. Result(q)' = Result(q)
      BY <3>1 DEF Result
    <3> QED
      BY <3>1, <3>2 DEF IInv, SessionInv
  <2> QED
    BY <2>1, <2>2
<1>7. BookInv'
  <2>1. ASSUME NEW s \in Sends
        PROVE  /\ order'[s] # "absent" => wire'[s] = "received"
               /\ answer'[s] \in DOMAIN Since => order'[s] \in Since[answer'[s]]
               /\ answer'[s] \notin {"changed", "unchanged", "CANCELED"}
    <3>1. CASE s = r
      BY <3>1, <1>1
    <3>2. CASE s # r
      <4>1. wire'[s] = wire[s] /\ answer'[s] = answer[s]
        BY <3>2, <1>1, <1>2
      <4>2. /\ order'[s] = "absent" <=> order[s] = "absent"
            /\ answer[s] \in DOMAIN Since => order'[s] \in Since[answer[s]]
        BY <3>2, MovesKeepBook
      <4> QED
        BY <4>1, <4>2 DEF IInv, BookInv
    <3> QED
      BY <3>1, <3>2
  <2>2. /\ answer'["cancel"] \in {"none", "CANCELED"} \cup Errors
        /\ answer'["cancel"] = "CANCELED" => \E s \in Sends : order'[s] = "CANCELED"
    <3>1. CASE r = "cancel"
      BY <3>1, <1>1
    <3>2. CASE r # "cancel"
      <4>1. answer'["cancel"] = answer["cancel"]
        BY <3>2, <1>1, <1>2
      <4>2. ASSUME NEW s \in Sends, order[s] = "CANCELED" PROVE order'[s] = "CANCELED"
        <5>1. wire[s] = "received"
          BY <4>2 DEF IInv, BookInv
        <5>2. s # r
          BY <5>1
        <5> QED
          BY <4>2, <5>2, MovesKeepBook
      <4> QED
        BY <4>1, <4>2 DEF IInv, BookInv
    <3> QED
      BY <3>1, <3>2
  <2>3. answer'["balances"] \in {"none", "changed", "unchanged"} \cup Errors
    BY <1>1, <1>2 DEF IInv, BookInv
  <2> QED
    BY <2>1, <2>2, <2>3 DEF BookInv
<1>8. WindowInv'
  <2>1. wire'["send1"] \in Signed => stamp'["send1"] = sentAt'
    <3>1. wire'["send1"] \in Signed => wire["send1"] \in Signed
      BY <1>1, <1>2 DEF Signed
    <3> QED
      BY <3>1 DEF IInv, WindowInv
  <2>2. \A q \in Requests : wire'[q] # "uncalled" => wire[q] # "uncalled"
    BY <1>1
  <2>3. answer'["balances"] = "unchanged" => order'["send1"] \notin Live
    BY <1>1, <1>2
  <2> QED
    BY <2>1, <2>2, <2>3, <1>2 DEF IInv, WindowInv
<1> QED
  BY <1>5, <1>6, <1>7, <1>8 DEF IInv

\* The exchange places nothing for the first send once the balances were asked for.
LEMMA TooLateForFirst ==
  ASSUME IInv, wire["send1"] = "inFlight", clock <= stamp["send1"] + RecvWindow
  PROVE  answer["balances"] # "unchanged"
<1>1. stamp["send1"] = sentAt
  BY DEF IInv, WindowInv, Signed
<1>2. sentAt \in Nat /\ clock \in Nat /\ RecvWindow \in Nat
  BY TimeAssumption DEF IInv, TypeInv
<1>3. wire["balances"] = "uncalled"
  <2>1. ~(clock > sentAt + RecvWindow)
    BY <1>1, <1>2
  <2> QED
    BY <2>1 DEF IInv, WindowInv
<1>4. answer["balances"] = "none"
  BY <1>3 DEF IInv, SessionInv, Requests
<1> QED
  BY <1>4

\* A request arrives at the exchange.
LEMMA ReceiveKeeps ==
  ASSUME IInv, NEW r \in Requests, Receive(r)
  PROVE  IInv'
<1>1. /\ wire[r] = "inFlight" /\ wire' = [wire EXCEPT ![r] = "received"]
      /\ UNCHANGED <<setup, stamp, report, sentAt, clock>>
  BY DEF Receive
<1>2. /\ order \in [Sends -> {"absent"} \cup Live \cup Dead]
      /\ answer["balances"] = "unchanged" => order["send1"] \notin Live
      /\ "send1" \in Sends /\ "cancel" \notin Sends /\ "balances" \notin Sends
  BY DEF IInv, TypeInv, WindowInv, Sends
<1>3. r \in Sends => order[r] = "absent"
  BY <1>1 DEF IInv, BookInv
<1>4. CASE \E a \in {"refused", "garbled"} : answer' = [answer EXCEPT ![r] = a] /\ UNCHANGED order
  <2>1. PICK a \in {"refused", "garbled"} : answer' = [answer EXCEPT ![r] = a] /\ UNCHANGED order
    BY <1>4
  <2>2. /\ a \in Answers /\ a \in Errors /\ a \notin {"unchanged", "changed", "CANCELED"}
        /\ a \in DOMAIN Since => Since[a] = {"absent"}
    BY SinceCases DEF Answers, Errors
  <2>3. \A s \in Sends : Moves(order[s], order'[s])
    BY <2>1 DEF Moves
  <2> QED
    BY <1>1, <1>2, <1>3, <2>1, <2>2, <2>3, AnswerKeeps
<1>5. ASSUME r \in Sends, NEW status \in (Live \cup Dead) \ {"CANCELED"}, Places(r, status),
             clock <= stamp[r] + RecvWindow
      PROVE  IInv'
  <2>1. PICK a \in {status, "incomplete", "garbled"} : answer' = [answer EXCEPT ![r] = a]
    BY <1>5 DEF Places
  <2>2. order' = [order EXCEPT ![r] = status]
    BY <1>5 DEF Places
  <2>3. /\ order' \in [Sends -> {"absent"} \cup Live \cup Dead]
        /\ order'[r] = status /\ \A s \in Sends : s # r => order'[s] = order[s]
    BY <1>2, <1>5, <2>2
  <2>4. /\ a \in Answers /\ a \notin {"changed", "unchanged", "CANCELED"}
        /\ a \in DOMAIN Since => status \in Since[a]
    <3>1. CASE a = status
      BY <3>1, <1>5, SinceCases DEF Answers, Live, Open, Dead
    <3>2. CASE a \in {"incomplete", "garbled"}
      BY <3>2, SinceCases DEF Answers, Errors
    <3> QED
      BY <3>1, <3>2
  <2>5. answer["balances"] = "unchanged" => order'["send1"] \notin Live
    BY <1>1, <1>2, <1>5, <2>3, TooLateForFirst
  <2>6. \A s \in Sends : s # r => Moves(order[s], order'[s])
    BY <2>3 DEF Moves
  <2> QED
    BY <1>1, <1>2, <1>5, <2>1, <2>3, <2>4, <2>5, <2>6, AnswerKeeps
<1>6. CASE r \in Sends /\ Rejects(r)
  <2>1. PICK a \in {"REJECTED", "incomplete"} : answer' = [answer EXCEPT ![r] = a]
    BY <1>6 DEF Rejects
  <2>2. UNCHANGED order
    BY <1>6 DEF Rejects
  <2>3. /\ a \in Answers /\ a \notin {"unchanged", "changed", "CANCELED"}
        /\ a \in DOMAIN Since => Since[a] = {"absent"}
    BY SinceCases DEF Answers, Errors
  <2>4. \A s \in Sends : Moves(order[s], order'[s])
    BY <2>2 DEF Moves
  <2> QED
    BY <1>1, <1>2, <1>3, <1>6, <2>1, <2>2, <2>3, <2>4, AnswerKeeps
<1>7. ASSUME r = "cancel", NEW t \in Sends, Cancels(t)
      PROVE  IInv'
  <2>1. PICK a \in {"CANCELED", "incomplete", "garbled"} : answer' = [answer EXCEPT ![r] = a]
    BY <1>7 DEF Cancels
  <2>2. order[t] \in Open /\ order' = [order EXCEPT ![t] = "CANCELED"]
    BY <1>7 DEF Cancels
  <2>3. /\ order' \in [Sends -> {"absent"} \cup Live \cup Dead]
        /\ order'[t] = "CANCELED" /\ \A s \in Sends : s # t => order'[s] = order[s]
    BY <1>2, <2>2 DEF Dead
  <2>4. a \in Answers /\ a \in {"CANCELED"} \cup Errors
    BY DEF Answers, Errors, Dead
  <2>5. \A s \in Sends : Moves(order[s], order'[s])
    BY <2>2, <2>3 DEF Moves
  <2>6. order'["send1"] \in Live => order["send1"] \in Live
    BY <1>2, <2>5, MovesKeepBook
  <2> QED
    BY <1>1, <1>2, <1>7, <2>1, <2>3, <2>4, <2>5, <2>6, AnswerKeeps
<1>8. CASE r = "balances" /\ TellsBalances
  <2>1. PICK a \in {"changed", "unchanged", "incomplete"} :
          /\ a = "unchanged" => \A s \in Sends : order[s] \notin Live
          /\ answer' = [answer EXCEPT ![r] = a]
    BY <1>8 DEF TellsBalances
  <2>2. UNCHANGED order
    BY <1>8 DEF TellsBalances
  <2>3. a \in Answers /\ a \in {"changed", "unchanged"} \cup Errors
    BY DEF Answers, Errors
  <2>4. \A s \in Sends : Moves(order[s], order'[s])
    BY <2>2 DEF Moves
  <2> QED
    BY <1>1, <1>2, <1>8, <2>1, <2>2, <2>3, <2>4, AnswerKeeps
<1> QED
  BY <1>4, <1>5, <1>6, <1>7, <1>8 DEF Receive, ToldOpen

\* An open order is filled.
LEMMA FillKeeps ==
  ASSUME IInv, NEW s \in Sends, Fill(s)
  PROVE  IInv'
<1>1. PICK status \in {"PARTIALLY_FILLED", "FILLED"} : order' = [order EXCEPT ![s] = status]
  BY DEF Fill
<1>2. order[s] \in Open /\ UNCHANGED <<setup, wire, stamp, answer, report, sentAt, clock>>
  BY DEF Fill
<1>3. \A t \in Sends : Moves(order[t], order'[t])
  BY <1>1, <1>2 DEF IInv, TypeInv, Moves
<1>4. TypeInv'
  BY <1>1, <1>2 DEF IInv, TypeInv, Live, Open
<1>5. SessionInv'
  <2>1. \A q \in Requests : Result(q)' = Result(q)
    BY <1>2 DEF Result
  <2> QED
    BY <2>1, <1>2 DEF IInv, SessionInv
<1>6. BookInv'
  <2>1. ASSUME NEW t \in Sends
        PROVE  /\ order'[t] # "absent" => wire'[t] = "received"
               /\ answer'[t] \in DOMAIN Since => order'[t] \in Since[answer'[t]]
               /\ answer'[t] \notin {"changed", "unchanged", "CANCELED"}
               /\ order[t] = "CANCELED" => order'[t] = "CANCELED"
    <3>1. /\ order'[t] = "absent" <=> order[t] = "absent"
          /\ order[t] = "CANCELED" => order'[t] = "CANCELED"
          /\ answer[t] \in DOMAIN Since => order'[t] \in Since[answer[t]]
      BY <1>3, MovesKeepBook
    <3> QED
      BY <3>1, <1>2 DEF IInv, BookInv
  <2> QED
    BY <2>1, <1>2 DEF IInv, BookInv
<1>7. WindowInv'
  <2>1. order'["send1"] \in Live => order["send1"] \in Live
    BY <1>3, MovesKeepBook DEF Sends
  <2> QED
    BY <2>1, <1>2 DEF IInv, WindowInv
<1> QED
  BY <1>4, <1>5, <1>6, <1>7 DEF IInv

\* Time passes.
LEMMA TickKeeps ==
  ASSUME IInv, Tick
  PROVE  IInv'
<1>1. clock' = clock + 1 /\ UNCHANGED <<setup, wire, stamp, answer, report, order, sentAt>>
  BY DEF Tick
<1>2. TypeInv'
  <2>1. clock' \in Nat
    BY <1>1 DEF IInv, TypeInv
  <2> QED
    BY <1>1, <2>1 DEF IInv, TypeInv
<1>3. SessionInv'
  <2>1. \A q \in Requests : Result(q)' = Result(q)
    BY <1>1 DEF Result
  <2> QED
    BY <2>1, <1>1 DEF IInv, SessionInv
<1>4. BookInv'
  BY <1>1 DEF IInv, BookInv
<1>5. WindowInv'
  <2>1. clock > sentAt + RecvWindow => clock' > sentAt' + RecvWindow
    BY <1>1, TimeAssumption DEF IInv, TypeInv
  <2> QED
    BY <2>1, <1>1 DEF IInv, WindowInv
<1> QED
  BY <1>2, <1>3, <1>4, <1>5 DEF IInv

\* Nothing happens.
LEMMA StutterKeeps ==
  ASSUME IInv, UNCHANGED vars
  PROVE  IInv'
<1>1. TypeInv'
  BY DEF IInv, TypeInv, vars
<1>2. SessionInv'
  <2>1. \A q \in Requests : Result(q)' = Result(q)
    BY DEF Result, vars
  <2> QED
    BY <2>1 DEF IInv, SessionInv, vars
<1>3. BookInv'
  BY DEF IInv, BookInv, vars
<1>4. WindowInv'
  BY DEF IInv, WindowInv, vars
<1> QED
  BY <1>1, <1>2, <1>3, <1>4 DEF IInv

-----------------------------------------------------------------------------
\* Every step keeps the invariant.
LEMMA NextIInv == IInv /\ [Next]_vars => IInv'
<1> QED
  BY SendOrderKeeps, CancelOrderKeeps, GetBalancesKeeps, SessionWritesKeeps, SessionEndKeeps,
     ReceiveKeeps, FillKeeps, TickKeeps, StutterKeeps DEF Next

\* The inductive invariant holds in every reachable state.
THEOREM InductiveInvariant == Spec => []IInv
<1> QED
  BY InitIInv, NextIInv, PTL DEF Spec

\* A caller that sends again after RecvWindow, when the balances have not
\* changed, never has the order twice, however late the first request arrives.
THEOREM NeverTwoOrders == Spec => []OneLiveOrder
<1>1. IInv => OneLiveOrder
  <2> SUFFICES ASSUME IInv PROVE OneLiveOrder
    OBVIOUS
  <2> DEFINE live == {s \in Sends : order[s] \in Live}
  <2>1. "send2" \in live => "send1" \notin live
    <3> SUFFICES ASSUME order["send2"] \in Live PROVE order["send1"] \notin Live
      OBVIOUS
    <3>1. wire["send2"] = "received"
      BY DEF IInv, BookInv, Sends, Live, Open
    <3>2. report["balances"] = "unchanged"
      BY <3>1 DEF IInv, WindowInv
    <3>3. answer["balances"] = "unchanged"
      <4>1. report["balances"] = Result("balances")
        BY <3>2 DEF IInv, SessionInv, OwnErrors, Requests
      <4> QED
        BY <4>1, <3>2, Results, Parses
    <3> QED
      BY <3>3 DEF IInv, WindowInv
  <2>2. live = {} \/ live = {"send1"} \/ live = {"send2"}
    BY <2>1 DEF Sends
  <2> HIDE DEF live
  <2>3. Cardinality(live) <= 1
    <3>1. CASE live = {}
      <4>1. Cardinality(live) = 0
        BY <3>1, FS_EmptySet
      <4> QED
        BY <4>1
    <3>2. CASE \E s : live = {s}
      <4>1. Cardinality(live) = 1
        BY <3>2, FS_Singleton
      <4> QED
        BY <4>1
    <3> QED
      BY <2>2, <3>1, <3>2
  <2> QED
    BY <2>3 DEF OneLiveOrder, live
<1> QED
  BY <1>1, InductiveInvariant, PTL

\* What the caller is told of its order is true of the exchange's book: a status of
\* an order that was placed, a rejection of one that was not.
THEOREM ReportsAreTrue == Spec => []ReportMatchesBook
<1>1. IInv => ReportMatchesBook
  <2> SUFFICES ASSUME IInv PROVE ReportMatchesBook
    OBVIOUS
  <2>1. ASSUME NEW s \in Sends, report[s] \in DOMAIN Meaning
        PROVE  order[s] \in Meaning[report[s]]
    <3>1. report[s] \notin OwnErrors
      BY <2>1 DEF Meaning, OwnErrors
    <3>2. report[s] = Result(s) /\ answer[s] # "none"
      BY <3>1 DEF IInv, SessionInv, Requests
    <3>3. report[s] = parseOrderResponse(answer[s])
      BY <3>2, Results
    <3>4. answer[s] \in Answers \ {"changed", "unchanged", "CANCELED"}
      BY <3>2 DEF IInv, TypeInv, BookInv, Requests
    <3>5. answer[s] \in DOMAIN Since /\ Since[answer[s]] \subseteq Meaning[report[s]]
      BY <2>1, <3>3, <3>4, Parses
    <3> QED
      BY <3>5 DEF IInv, BookInv
  <2>2. report["cancel"] = "Cancelled" => \E s \in Sends : order[s] = "CANCELED"
    <3> SUFFICES ASSUME report["cancel"] = "Cancelled" PROVE answer["cancel"] = "CANCELED"
      BY DEF IInv, BookInv
    <3>1. report["cancel"] = parseOrderResponse(answer["cancel"])
      BY Results DEF IInv, SessionInv, OwnErrors, Requests
    <3>2. answer["cancel"] \in {"CANCELED", "EXPIRED"}
      BY <3>1, Parses
    <3> QED
      BY <3>2 DEF IInv, BookInv, Errors
  <2> QED
    BY <2>1, <2>2 DEF ReportMatchesBook
<1> QED
  BY <1>1, InductiveInvariant, PTL
=============================================================================
