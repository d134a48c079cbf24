------------------------------ MODULE SyncRest ------------------------------
(***************************************************************************)
(* networking::RestClient of rest_client_2: requests made one after        *)
(* another by one thread, each blocking until it has its response or       *)
(* throws.  Every hop of a chain of redirects is an execute of its own:    *)
(* it resolves the host again when the endpoints are older than DnsTtl,    *)
(* opens a connection, and closes it.                                      *)
(*                                                                         *)
(* The programs: "main" (main.cpp) makes three requests in one try block;  *)
(* "persistent" catches what each request throws and makes the next.       *)
(***************************************************************************)
EXTENDS Naturals, Sequences

CONSTANTS Methods, MaxRedirects, DnsTtl, MaxClock

ASSUME SyncAssumption ==
  /\ "GET" \in Methods
  /\ MaxRedirects \in Nat /\ DnsTtl \in Nat /\ MaxClock \in Nat

VARIABLES
  program, https,
  todo,        \* the methods of the requests not made yet
  step,        \* "construct", "idle", "resolve", "connect", "handshake",
               \* "exchange" (write and read), "failed" (construction threw)
  method, redirectCount, answer, result,
  hopBegan,    \* when execute was entered
  resolvedAt,  \* the client's endpointsResolvedAt
  fresh,       \* when the endpoints it has were asked for
  clock

request == <<method, redirectCount, answer, result>>
vars == <<program, https, todo, step, request, hopBegan, resolvedAt, fresh, clock>>

RestErrors == {"resolve", "connect", "handshake", "exchange"}

NoAnswer == [status |-> "none", location |-> "none"]

Init ==
  /\ program \in {"main", "persistent"} /\ https \in BOOLEAN
  /\ todo \in IF program = "main" THEN {<<"GET", "POST", "GET">>} ELSE [1..2 -> Methods]
  /\ step = "construct"
  /\ method = Head(todo)
  /\ redirectCount = 0 /\ answer = NoAnswer /\ result = "none"
  /\ hopBegan = 0 /\ resolvedAt = 0 /\ fresh = 0 /\ clock = 0

\* The constructor resolves; a host without address is not a client.
Construct ==
  /\ step = "construct"
  /\ \/ step' = "idle" /\ fresh' = 0
     \/ step' = "failed" /\ UNCHANGED fresh
  /\ UNCHANGED <<program, https, todo, request, hopBegan, resolvedAt, clock>>

\* Mutant: the time of the last use is kept, not that of the resolving.
ensureEndpointsFreshSliding ==
  /\ resolvedAt' = clock
  /\ IF clock - resolvedAt > DnsTtl
     THEN step' = "resolve" /\ fresh' = clock
     ELSE step' = "connect" /\ UNCHANGED fresh

\* The time is taken before the resolver is asked, and kept only if it answers.
ensureEndpointsFresh ==
  /\ UNCHANGED <<resolvedAt, fresh>>
  /\ step' = IF clock - resolvedAt > DnsTtl THEN "resolve" ELSE "connect"

\* get, post, put, del: request, with no redirect followed yet.
Request ==
  /\ step = "idle" /\ todo # <<>>
  /\ todo' = Tail(todo)
  /\ method' = Head(todo) /\ redirectCount' = 0 /\ answer' = NoAnswer /\ result' = "none"
  /\ hopBegan' = clock
  /\ ensureEndpointsFresh
  /\ UNCHANGED <<program, https, clock>>

Resolved ==
  /\ step = "resolve"
  /\ step' = "connect"
  /\ resolvedAt' = hopBegan /\ fresh' = hopBegan
  /\ UNCHANGED <<program, https, todo, request, hopBegan, clock>>

Connected ==
  /\ step = "connect"
  /\ step' = IF https THEN "handshake" ELSE "exchange"
  /\ UNCHANGED <<program, https, todo, request, hopBegan, resolvedAt, fresh, clock>>

ShookHands ==
  /\ step = "handshake"
  /\ step' = "exchange"
  /\ UNCHANGED <<program, https, todo, request, hopBegan, resolvedAt, fresh, clock>>

\* What the request ends with is returned or thrown; main's try block ends.
Ends(x, thrown) ==
  /\ result' = x
  /\ step' = "idle"
  /\ todo' = IF thrown /\ program = "main" THEN <<>> ELSE todo

Throws ==
  /\ step \in RestErrors
  /\ Ends(step, TRUE)
  /\ UNCHANGED <<program, https, method, redirectCount, answer, hopBegan, resolvedAt,
                 fresh, clock>>

\* Mutant: the limit is tested after the count.
isRedirectPast(a) ==
  a.status # "200" /\ a.location # "none" /\ redirectCount <= MaxRedirects

isRedirect(a) ==
  a.status # "200" /\ a.location # "none" /\ redirectCount < MaxRedirects

Answer(a) ==
  /\ step = "exchange"
  /\ answer' = a
  /\ \/ /\ ~isRedirect(a)
        /\ Ends("answer", FALSE)
        /\ UNCHANGED <<method, redirectCount, hopBegan, resolvedAt, fresh>>
     \/ /\ isRedirect(a) /\ a.location = "elsewhere"
        /\ Ends("CrossHostRedirect", TRUE)
        /\ UNCHANGED <<method, redirectCount, hopBegan, resolvedAt, fresh>>
     \/ /\ isRedirect(a) /\ a.location = "here"
        /\ method' = IF a.status = "303" THEN "GET" ELSE method
        /\ redirectCount' = redirectCount + 1
        /\ hopBegan' = clock
        /\ ensureEndpointsFresh
        /\ UNCHANGED <<todo, result>>
  /\ UNCHANGED <<program, https, clock>>

\* Any call may take its time: expires_after does not bind synchronous ones.
Tick ==
  /\ clock < MaxClock
  /\ clock' = clock + 1
  /\ UNCHANGED <<program, https, todo, step, request, hopBegan, resolvedAt, fresh>>

Answers == [status : {"200", "303", "307"}, location : {"none", "here", "elsewhere"}]

Next ==
  \/ Construct \/ Request \/ Resolved \/ Connected \/ ShookHands \/ Throws
  \/ \E a \in Answers : Answer(a)
  \/ Tick

Spec == Init /\ [][Next]_vars

-----------------------------------------------------------------------------
\* No hop, redirects included, uses endpoints that were asked for more than
\* DnsTtl before it began, whatever failed before.
StaleBounded ==
  step \in {"connect", "handshake", "exchange"} => hopBegan <= fresh + DnsTtl

Chain ==
  INSTANCE RedirectChain WITH
    Errors <- RestErrors, limit <- MaxRedirects, hops <- redirectCount

\* Every request implements RedirectChain until the caller makes the next one.
ImplementsChain == [][result # "none" \/ Chain!Next]_<<method, redirectCount, answer, result>>
=============================================================================
