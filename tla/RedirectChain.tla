---------------------------- MODULE RedirectChain ----------------------------
(***************************************************************************)
(* What the two general REST clients (rest_client_2, rest_client_async)    *)
(* promise of one request: they follow redirects of their own host, at     *)
(* most `limit' of them, and end with one result.  RestPool and SyncRest   *)
(* implement it.                                                           *)
(*                                                                         *)
(* An answer is [status, location]: status is "303", "307" (any redirect   *)
(* that keeps the method) or "200" (any other), location "none", "here"    *)
(* (the client's host, or a path) or "elsewhere".                          *)
(***************************************************************************)
EXTENDS Naturals

CONSTANTS Methods, Errors

VARIABLES
  limit,   \* how many redirects may be followed
  method,  \* the method of the request now made
  hops,    \* how many redirects were followed
  answer,  \* the last answer, or NoAnswer
  result   \* "none", an error, "answer" or "CrossHostRedirect"

vars == <<limit, method, hops, answer, result>>

Answers == [status : {"200", "303", "307"}, location : {"none", "here", "elsewhere"}]

NoAnswer == [status |-> "none", location |-> "none"]

Redirects(a) == a.status # "200" /\ a.location # "none"

Init ==
  /\ limit \in Nat /\ method \in Methods
  /\ hops = 0 /\ answer = NoAnswer /\ result = "none"

\* A 303 makes the next request a GET; no other answer changes the method.
Follow(a) ==
  /\ result = "none" /\ hops < limit
  /\ Redirects(a) /\ a.location = "here"
  /\ hops' = hops + 1
  /\ answer' = a
  /\ method' = IF a.status = "303" THEN "GET" ELSE method
  /\ UNCHANGED <<limit, result>>

Refuse(a) ==
  /\ result = "none" /\ hops < limit
  /\ Redirects(a) /\ a.location = "elsewhere"
  /\ answer' = a
  /\ result' = "CrossHostRedirect"
  /\ UNCHANGED <<limit, method, hops>>

\* A redirect is the result only when it cannot be followed.
Return(a) ==
  /\ result = "none"
  /\ Redirects(a) => hops = limit
  /\ answer' = a
  /\ result' = "answer"
  /\ UNCHANGED <<limit, method, hops>>

Fail ==
  /\ result = "none"
  /\ result' \in Errors
  /\ UNCHANGED <<limit, method, hops, answer>>

Next ==
  \/ \E a \in Answers : Follow(a) \/ Refuse(a) \/ Return(a)
  \/ Fail

Spec == Init /\ [][Next]_vars
=============================================================================
