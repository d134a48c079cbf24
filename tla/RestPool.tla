------------------------------ MODULE RestPool ------------------------------
(***************************************************************************)
(* networking::RestClientAsync (rest_client_async): requests that resolve, *)
(* connect and shake hands, or take a connection from the pool of idle     *)
(* ones, write, read, follow redirects, and give the connection back.      *)
(* One thread runs the io_context.  The programs:                          *)
(*   main   main.cpp: getAsync, a runner thread, future.get, then post     *)
(*          from the main thread, join.  The runner may find the           *)
(*          io_context out of work, and leave, before post has begun.      *)
(*   burst  two requests, one in callback and one in future style, before  *)
(*          the io_context runs.                                           *)
(* A connection that is not given back is shut down on the spot.  For TLS  *)
(* that waits for the peer, without a deadline: the thread may block.      *)
(***************************************************************************)
EXTENDS Naturals, Sequences

CONSTANTS Methods, MaxRedirects, MaxPoolSize

ASSUME PoolAssumption ==
  /\ {"GET", "POST"} \subseteq Methods
  /\ MaxRedirects \in Nat /\ MaxPoolSize \in Nat

Requests == {"first", "second"}
Connections == 1..(MaxPoolSize + 2)  \* shut down ones are used again

VARIABLES
  program,
  config,    \* ClientConfig: [https, keepAlive, followRedirects]
  main,      \* where the main thread is
  run,       \* ioContext.run: "before", "running", "returned", "blocked"
  step,      \* the operation a request waits for; "handler": its result is
             \* known and the handler is next; "done"
  late,      \* the requests begun when run had returned
  method, redirectCount, answer,
  conn,      \* the connection a request uses, 0 for none
  idlePool,
  result,    \* what the handler is given
  calls      \* how often it was called

vars == <<program, config, main, run, step, late, method, redirectCount, answer,
          conn, idlePool, result, calls>>

RestErrors == {"ResolveFailed", "ConnectFailed", "TlsHandshakeFailed", "WriteFailed",
               "ReadFailed", "BodyLimitExceeded"}

NoAnswer == [status |-> "none", location |-> "none"]

Init ==
  /\ program \in {"main", "burst"}
  /\ config \in [https : BOOLEAN, keepAlive : BOOLEAN, followRedirects : BOOLEAN]
  /\ main = "first" /\ run = "before"
  /\ step = [r \in Requests |-> "unstarted"]
  /\ late = {}
  /\ method \in IF program = "main" THEN {[first |-> "GET", second |-> "POST"]}
                ELSE [Requests -> Methods]
  /\ redirectCount = [r \in Requests |-> 0]
  /\ answer = [r \in Requests |-> NoAnswer]
  /\ conn = [r \in Requests |-> 0]
  /\ idlePool = <<>>
  /\ result = [r \in Requests |-> "none"]
  /\ calls = [r \in Requests |-> 0]

-----------------------------------------------------------------------------
\* The pool

\* The pool once connection c is given back; otherwise c is shut down.
releaseConnection(c, reusable) ==
  IF reusable /\ config.keepAlive /\ Len(idlePool) < MaxPoolSize
  THEN Append(idlePool, c) ELSE idlePool

\* A shutdown of TLS returns or, when the peer never says its part, does not.
MayBlock(shutsDown, goesOn) ==
  IF config.https /\ shutsDown THEN {"blocked", goesOn} ELSE {goesOn}

\* startRequest finds the pool as given.
startRequest(r, pool) ==
  IF pool = <<>>
  THEN /\ idlePool' = pool
       /\ conn' = [conn EXCEPT ![r] = 0]
       /\ step' = [step EXCEPT ![r] = "resolve"]
  ELSE /\ idlePool' = Tail(pool)
       /\ conn' = [conn EXCEPT ![r] = Head(pool)]
       /\ step' = [step EXCEPT ![r] = "write"]

FreshConnection ==
  CHOOSE c \in Connections :
    /\ \A i \in 1..Len(idlePool) : idlePool[i] # c
    /\ \A r \in Requests : conn[r] # c

-----------------------------------------------------------------------------
\* The runner: handlers of asynchronous operations, one at a time.

RunnerIsFree == run = "running" /\ \A r \in Requests : step[r] # "handler"

Leaves(r, from, to) ==
  /\ RunnerIsFree /\ step[r] = from
  /\ step' = [step EXCEPT ![r] = to]
  /\ UNCHANGED <<program, config, main, late, method, redirectCount, calls>>

Goes(r, from, to) == Leaves(r, from, to) /\ UNCHANGED run

\* The handler is called with an error, its connection shut down.  The peer is
\* still there, and may keep the shutdown waiting, after a read that its answer
\* has ended: with a body over the limit, or with what is no HTTP.
Fails(r, from, error) ==
  /\ Leaves(r, from, "handler")
  /\ run' \in MayBlock(error \in {"ReadFailed", "BodyLimitExceeded"}, "running")
  /\ result' = [result EXCEPT ![r] = error]
  /\ conn' = [conn EXCEPT ![r] = 0]
  /\ UNCHANGED <<answer, idlePool>>

OnResolve(r) ==
  \/ Fails(r, "resolve", "ResolveFailed")
  \/ config.https /\ Fails(r, "resolve", "TlsHandshakeFailed")  \* the server name is refused
  \/ Goes(r, "resolve", "connect") /\ UNCHANGED <<answer, conn, idlePool, result>>

MakesConnection(r, from) ==
  /\ Goes(r, from, "write")
  /\ conn' = [conn EXCEPT ![r] = FreshConnection]
  /\ UNCHANGED <<answer, idlePool, result>>

OnConnect(r) ==
  \/ Fails(r, "connect", "ConnectFailed")
  \/ config.https /\ Goes(r, "connect", "handshake") /\ UNCHANGED <<answer, conn, idlePool, result>>
  \/ ~config.https /\ MakesConnection(r, "connect")

OnHandshake(r) ==
  \/ Fails(r, "handshake", "TlsHandshakeFailed")
  \/ MakesConnection(r, "handshake")

\* A connection the peer has closed while it was idle fails here or in the
\* read; the request is not tried again on a new one.
OnWrite(r) ==
  \/ Fails(r, "write", "WriteFailed")
  \/ Goes(r, "write", "read") /\ UNCHANGED <<answer, conn, idlePool, result>>

ReadFails(r) ==
  \E error \in {"ReadFailed", "BodyLimitExceeded"} : Fails(r, "read", error)

isRedirect(r, a) ==
  /\ config.followRedirects
  /\ a.status # "200"
  /\ redirectCount[r] < MaxRedirects
  /\ a.location # "none"

\* Mutant: the new request counts its redirects from where this one began.
FollowUncounted(r, a, reusable) ==
  /\ isRedirect(r, a) /\ a.location = "here"
  /\ startRequest(r, releaseConnection(conn[r], reusable))
  /\ method' = [method EXCEPT ![r] = IF a.status = "303" THEN "GET" ELSE @]
  /\ UNCHANGED <<redirectCount, result>>

\* Mutant: every redirect keeps the method.
FollowWithMethod(r, a, reusable) ==
  /\ isRedirect(r, a) /\ a.location = "here"
  /\ startRequest(r, releaseConnection(conn[r], reusable))
  /\ redirectCount' = [redirectCount EXCEPT ![r] = @ + 1]
  /\ UNCHANGED <<method, result>>

Follow(r, a, reusable) ==
  /\ isRedirect(r, a) /\ a.location = "here"
  /\ startRequest(r, releaseConnection(conn[r], reusable))
  /\ method' = [method EXCEPT ![r] = IF a.status = "303" THEN "GET" ELSE @]
  /\ redirectCount' = [redirectCount EXCEPT ![r] = @ + 1]
  /\ UNCHANGED result

Ends(r, a, reusable) ==
  /\ isRedirect(r, a) => a.location = "elsewhere"
  /\ idlePool' = releaseConnection(conn[r], reusable)
  /\ conn' = [conn EXCEPT ![r] = 0]
  /\ step' = [step EXCEPT ![r] = "handler"]
  /\ result' = [result EXCEPT ![r] = IF isRedirect(r, a) THEN "CrossHostRedirect" ELSE "answer"]
  /\ UNCHANGED <<method, redirectCount>>

OnResponse(r, a, reusable) ==
  /\ RunnerIsFree /\ step[r] = "read"
  /\ answer' = [answer EXCEPT ![r] = a]
  /\ Follow(r, a, reusable) \/ Ends(r, a, reusable)
  /\ run' \in MayBlock(releaseConnection(conn[r], reusable) = idlePool, "running")
  /\ UNCHANGED <<program, config, main, late, calls>>

\* Mutant: the handler of an answer is called before the connection is back.
CallHandlerEarly(r) ==
  /\ run = "running"
  /\ \/ /\ step[r] = "read" /\ result[r] = "none"
        /\ result' = [result EXCEPT ![r] = "answer"]
        /\ calls' = [calls EXCEPT ![r] = @ + 1]
        /\ UNCHANGED step
     \/ /\ step[r] = "handler"
        /\ step' = [step EXCEPT ![r] = "done"]
        /\ calls' = [calls EXCEPT ![r] = IF @ = 0 THEN 1 ELSE @]
        /\ UNCHANGED result
  /\ UNCHANGED <<program, config, main, run, late, method, redirectCount, answer,
                 conn, idlePool>>

\* Mutant: the error of a redirect to another host is not handed on.
CallHandlerUnlessCross(r) ==
  /\ run = "running" /\ step[r] = "handler"
  /\ step' = [step EXCEPT ![r] = "done"]
  /\ calls' = [calls EXCEPT ![r] = IF result[r] = "CrossHostRedirect" THEN @ ELSE @ + 1]
  /\ UNCHANGED <<program, config, main, run, late, method, redirectCount, answer,
                 conn, idlePool, result>>

\* The caller's function, or the one that fulfils the promise of a future.
CallHandler(r) ==
  /\ run = "running" /\ step[r] = "handler"
  /\ step' = [step EXCEPT ![r] = "done"]
  /\ calls' = [calls EXCEPT ![r] = @ + 1]
  /\ UNCHANGED <<program, config, main, run, late, method, redirectCount, answer,
                 conn, idlePool, result>>

RunReturns ==
  /\ run = "running"
  /\ \A r \in Requests : step[r] \in {"unstarted", "done"}
  /\ run' = "returned"
  /\ UNCHANGED <<program, config, main, step, late, method, redirectCount, answer,
                 conn, idlePool, result, calls>>

-----------------------------------------------------------------------------
\* The main thread

MainGoes(to) ==
  /\ main' = to
  /\ UNCHANGED <<program, config, method, redirectCount, answer, result, calls>>

First ==
  /\ main = "first"
  /\ startRequest("first", idlePool)
  /\ IF program = "main" THEN run' = "running" /\ MainGoes("get")
                         ELSE UNCHANGED run /\ MainGoes("second")
  /\ UNCHANGED late

Second ==
  /\ main = "second"
  /\ startRequest("second", idlePool)
  /\ run' = "running" /\ MainGoes("join")
  /\ UNCHANGED late

\* future.get, then startRequest's look at the pool.
FutureGet ==
  /\ main = "get" /\ calls["first"] > 0
  /\ MainGoes(IF idlePool = <<>> THEN "resolve" ELSE "take")
  /\ UNCHANGED <<run, step, late, conn, idlePool>>

Post ==
  /\ main \in {"resolve", "take"}
  /\ startRequest("second", IF main = "resolve" THEN <<>> ELSE idlePool)
  /\ late' = IF run = "returned" THEN {"second"} ELSE {}
  /\ MainGoes("join")
  /\ UNCHANGED run

\* runner.join, and the destructor of the client, which shuts the pool down.
Join ==
  /\ main = "join" /\ run = "returned"
  /\ \E to \in MayBlock(idlePool # <<>>, "ended") : MainGoes(to)
  /\ idlePool' = <<>>
  /\ UNCHANGED <<run, step, late, conn>>

Blocked == "blocked" \in {main, run}

Ended == (main = "ended" \/ Blocked) /\ UNCHANGED vars

-----------------------------------------------------------------------------
Answers == [status : {"200", "303", "307"}, location : {"none", "here", "elsewhere"}]

Operation(r) ==
  \/ OnResolve(r) \/ OnConnect(r) \/ OnHandshake(r) \/ OnWrite(r) \/ ReadFails(r)
  \/ \E a \in Answers, reusable \in BOOLEAN : OnResponse(r, a, reusable)

Main == First \/ Second \/ FutureGet \/ Post \/ Join

Next ==
  \/ \E r \in Requests : Operation(r) \/ CallHandler(r)
  \/ RunReturns
  \/ Main
  \/ Ended

\* expires_after ends every asynchronous operation but the resolver's, which the
\* operating system ends; the threads run.
Spec ==
  /\ Init /\ [][Next]_vars
  /\ \A r \in Requests : WF_vars(Operation(r)) /\ WF_vars(CallHandler(r))
  /\ WF_vars(RunReturns) /\ WF_vars(Main)

-----------------------------------------------------------------------------
TypeOK ==
  /\ main \in {"first", "second", "get", "resolve", "take", "join", "ended", "blocked"}
  /\ run \in {"before", "running", "returned", "blocked"}
  /\ step \in [Requests -> {"unstarted", "resolve", "connect", "handshake", "write",
                            "read", "handler", "done"}]
  /\ redirectCount \in [Requests -> 0..MaxRedirects]
  /\ conn \in [Requests -> Connections \cup {0}] /\ idlePool \in Seq(Connections)
  /\ result \in [Requests -> RestErrors \cup {"none", "answer", "CrossHostRedirect"}]

PoolNotShared ==
  main \in {"resolve", "take"} => step["first"] = "done"

\* A connection is used by one request or lies idle, never both and never
\* twice, whatever the order of answers, redirects and failures; a request that
\* writes or reads has one, and no other request has any; the pool keeps its
\* limit.  The pool has no lock: the main thread uses it only while no handler
\* of the runner can, since a promise is fulfilled after the connection was
\* given back.
OneUser ==
  /\ TypeOK
  /\ PoolNotShared
  /\ \A r \in Requests : conn[r] # 0 <=> step[r] \in {"write", "read"}
  /\ conn["first"] = conn["second"] => conn["first"] = 0
  /\ \A i \in 1..Len(idlePool) :
       /\ \A r \in Requests : conn[r] # idlePool[i]
       /\ \A j \in 1..Len(idlePool) : idlePool[i] = idlePool[j] => i = j
  /\ Len(idlePool) <= MaxPoolSize

\* A handler is called at most once; when run has returned, every request begun
\* before it did has been answered, through however many redirects.
AnsweredOnce ==
  /\ \A r \in Requests : calls[r] <= 1
  /\ run = "returned" =>
       \A r \in Requests \ late : step[r] # "unstarted" => calls[r] = 1

Limit == IF config.followRedirects THEN MaxRedirects ELSE 0

FirstChain ==
  INSTANCE RedirectChain WITH
    Errors <- RestErrors, limit <- Limit,
    method <- method["first"], hops <- redirectCount["first"],
    answer <- answer["first"], result <- result["first"]

SecondChain ==
  INSTANCE RedirectChain WITH
    Errors <- RestErrors, limit <- Limit,
    method <- method["second"], hops <- redirectCount["second"],
    answer <- answer["second"], result <- result["second"]

\* Every request implements RedirectChain: a 303 becomes a GET, other hosts are
\* refused, and a redirect is the result only at the limit or without a place
\* to go.
ImplementsChain == FirstChain!Spec /\ SecondChain!Spec

\* Both programs end, even when the server redirects for ever, and even when
\* the last request was begun too late to be answered; nothing holds them but
\* the shutdown of a TLS connection.
Finishes == <>(main = "ended" \/ Blocked)
=============================================================================
