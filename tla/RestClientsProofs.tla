--------------------------- MODULE RestClientsProofs ---------------------------
(***************************************************************************)
(* Proofs about the two general REST clients for every set of methods and  *)
(* every limit of redirects: the asynchronous one (RestPool), for every    *)
(* size of its pool, and the synchronous one (SyncRest, at the end), for   *)
(* every time to live of its endpoints.  Both implement RedirectChain.     *)
(*                                                                         *)
(* Three facts about the pool support each other: a connection is in the   *)
(* pool or with the one request whose step uses it (OwnedInv); a handler   *)
(* has been called exactly when its request is done (AnswerInv); and the   *)
(* main thread looks at the pool only when the first request is done and   *)
(* the second has not begun (TurnInv), so that no handler can touch the    *)
(* pool meanwhile.                                                         *)
(***************************************************************************)
EXTENDS RestPool, FiniteSetTheorems, SequenceTheorems, TLAPS

\* A connection is with the one request that uses it, or once in the pool.
OwnedInv ==
  /\ \A r \in Requests : conn[r] # 0 <=> step[r] \in {"write", "read"}
  /\ conn["first"] = conn["second"] => conn["first"] = 0
  /\ \A i \in 1..Len(idlePool), r \in Requests : conn[r] # idlePool[i]
  /\ \A i, j \in 1..Len(idlePool) : idlePool[i] = idlePool[j] => i = j
  /\ Len(idlePool) <= MaxPoolSize

\* Where the main thread stands tells what the requests can be doing.
TurnInv ==
  /\ PoolNotShared
  /\ main = "first" => step["first"] = "unstarted"
  /\ main \in {"first", "second", "get", "resolve", "take"} => step["second"] = "unstarted"
  /\ main \in {"first", "second"} => run = "before"
  /\ late \subseteq {"second"}
  /\ run = "returned" => \A r \in Requests \ late : step[r] \in {"unstarted", "done"}

\* A result comes with the handler, a call with the end.
AnswerInv ==
  /\ calls \in [Requests -> {0, 1}]
  /\ \A r \in Requests : calls[r] = 1 <=> step[r] = "done"
  /\ \A r \in Requests : step[r] \notin {"handler", "done"} => result[r] = "none"

\* The redirects followed stay within the limit.
ChainInv ==
  /\ config \in [https : BOOLEAN, keepAlive : BOOLEAN, followRedirects : BOOLEAN]
  /\ method \in [Requests -> Methods]
  /\ answer \in [Requests -> Answers \cup {NoAnswer}]
  /\ \A r \in Requests : redirectCount[r] <= Limit

IInv == TypeOK /\ OwnedInv /\ TurnInv /\ AnswerInv /\ ChainInv

-----------------------------------------------------------------------------
\* There are more connections than the pool and one request can hold.
LEMMA FreeConnectionExists ==
  ASSUME NEW pool \in Seq(Connections), Len(pool) <= MaxPoolSize, NEW used
  PROVE  \E c \in Connections : c # used /\ \A i \in 1..Len(pool) : pool[i] # c
<1>n. MaxPoolSize \in Nat /\ Len(pool) \in Nat
  BY PoolAssumption
<1> SUFFICES ASSUME \A c \in Connections :
                      c = used \/ \E i \in 1..Len(pool) : pool[i] = c
             PROVE  FALSE
  OBVIOUS
<1> DEFINE place == [c \in Connections |->
                       IF c = used THEN MaxPoolSize + 1
                       ELSE CHOOSE i \in 1..Len(pool) : pool[i] = c]
<1>1. \A c \in Connections : c # used => place[c] \in 1..Len(pool) /\ pool[place[c]] = c
  OBVIOUS
<1>2. place \in [Connections -> 1..(MaxPoolSize + 1)]
  <2>1. ASSUME NEW c \in Connections PROVE place[c] \in 1..(MaxPoolSize + 1)
    <3>1. CASE c = used
      BY <3>1, <1>n
    <3>2. CASE c # used
      <4>1. place[c] \in 1..Len(pool)
        BY <3>2, <1>1
      <4> HIDE DEF place
      <4> QED
        BY <4>1, <1>n
    <3> QED
      BY <3>1, <3>2
  <2> QED
    BY <2>1
<1>3. /\ IsFiniteSet(Connections) /\ Cardinality(Connections) = MaxPoolSize + 2
      /\ IsFiniteSet(1..(MaxPoolSize + 1)) /\ Cardinality(1..(MaxPoolSize + 1)) = MaxPoolSize + 1
  <2>1. /\ IsFiniteSet(1..(MaxPoolSize + 2))
        /\ Cardinality(1..(MaxPoolSize + 2)) =
             IF 1 > MaxPoolSize + 2 THEN 0 ELSE (MaxPoolSize + 2) - 1 + 1
    BY <1>n, FS_Interval
  <2>2. /\ IsFiniteSet(1..(MaxPoolSize + 1))
        /\ Cardinality(1..(MaxPoolSize + 1)) =
             IF 1 > MaxPoolSize + 1 THEN 0 ELSE (MaxPoolSize + 1) - 1 + 1
    BY <1>n, FS_Interval
  <2> QED
    BY <2>1, <2>2, <1>n DEF Connections
<1>4. PICK x, y \in Connections : x # y /\ place[x] = place[y]
  <2>1. Cardinality(1..(MaxPoolSize + 1)) < Cardinality(Connections)
    BY <1>3, <1>n
  <2>2. IsFiniteSet(Connections) /\ IsFiniteSet(1..(MaxPoolSize + 1))
    BY <1>3
  <2> HIDE DEF place
  <2>3. \E x, y \in Connections : x # y /\ place[x] = place[y]
    BY ONLY <2>1, <2>2, <1>2, FS_PigeonHole
  <2> QED
    BY ONLY <2>3
<1>5. x # used /\ y # used
  <2>1. \A c \in Connections : c # used => place[c] # MaxPoolSize + 1
    <3> HIDE DEF place
    <3> QED
      BY <1>1, <1>n
  <2>2. used \in Connections => place[used] = MaxPoolSize + 1
    OBVIOUS
  <2> HIDE DEF place
  <2> QED
    BY <2>1, <2>2, <1>4
<1> HIDE DEF place
<1> QED
  BY <1>1, <1>4, <1>5

\* A new connection is not in use: it is nobody's and not in the pool.
LEMMA FreshIsFree ==
  ASSUME idlePool \in Seq(Connections), Len(idlePool) <= MaxPoolSize,
         NEW r \in Requests, conn[r] = 0
  PROVE  /\ FreshConnection \in Connections
         /\ \A i \in 1..Len(idlePool) : idlePool[i] # FreshConnection
         /\ \A q \in Requests : conn[q] # FreshConnection
<1>1. PICK q \in Requests : Requests = {r, q}
  BY DEF Requests
<1>2. \E c \in Connections : c # conn[q] /\ \A i \in 1..Len(idlePool) : idlePool[i] # c
  BY FreeConnectionExists
<1>3. 0 \notin Connections
  BY PoolAssumption DEF Connections
<1>4. \E c \in Connections : /\ \A i \in 1..Len(idlePool) : idlePool[i] # c
                             /\ \A p \in Requests : conn[p] # c
  BY <1>1, <1>2, <1>3
<1> QED
  BY <1>4 DEF FreshConnection

\* What a request finds in a pool where its own last connection may lie.
LEMMA StartKeepsOwners ==
  ASSUME TypeOK, OwnedInv, NEW r \in Requests, NEW pool \in Seq(Connections),
         Len(pool) <= MaxPoolSize,
         \A i, j \in 1..Len(pool) : pool[i] = pool[j] => i = j,
         \A i \in 1..Len(pool), q \in Requests : q # r => conn[q] # pool[i],
         startRequest(r, pool)
  PROVE  /\ OwnedInv'
         /\ idlePool' \in Seq(Connections)
         /\ conn' \in [Requests -> Connections \cup {0}]
         /\ step' \in [Requests -> {"unstarted", "resolve", "connect", "handshake", "write",
                                    "read", "handler", "done"}]
         /\ step'[r] \in {"resolve", "write"}
         /\ \A q \in Requests : q # r => step'[q] = step[q]
<1>0. 0 \notin Connections /\ MaxPoolSize \in Nat
  BY PoolAssumption DEF Connections
<1>1. /\ conn \in [Requests -> Connections \cup {0}]
      /\ step \in [Requests -> {"unstarted", "resolve", "connect", "handshake", "write",
                                "read", "handler", "done"}]
      /\ Len(pool) \in Nat
  BY DEF TypeOK
<1>2. PICK q \in Requests : q # r /\ Requests = {r, q}
  BY DEF Requests
<1>3. CASE pool = <<>>
  <2>1. /\ idlePool' = pool /\ conn' = [conn EXCEPT ![r] = 0]
        /\ step' = [step EXCEPT ![r] = "resolve"]
    BY <1>3 DEF startRequest
  <2>2. conn'[r] = 0 /\ conn'[q] = conn[q] /\ step'[r] = "resolve" /\ step'[q] = step[q]
    BY <2>1, <1>1, <1>2
  <2>3. \A p \in Requests : conn'[p] # 0 <=> step'[p] \in {"write", "read"}
    BY <2>2, <1>2 DEF OwnedInv
  <2>4. 1..Len(idlePool') = {} /\ Len(idlePool') <= MaxPoolSize
    BY <2>1, <1>3, <1>0, EmptySeq
  <2>5. conn'["first"] = conn'["second"] => conn'["first"] = 0
    BY <2>2, <1>2 DEF Requests
  <2>6. OwnedInv'
    BY <2>3, <2>4, <2>5 DEF OwnedInv
  <2> QED
    BY <2>1, <2>2, <2>6, <1>1, <1>2
<1>4. CASE pool # <<>>
  <2>1. /\ idlePool' = Tail(pool) /\ conn' = [conn EXCEPT ![r] = Head(pool)]
        /\ step' = [step EXCEPT ![r] = "write"]
    BY <1>4 DEF startRequest
  <2>2. /\ Tail(pool) \in Seq(Connections) /\ Head(pool) \in Connections
        /\ Head(pool) = pool[1] /\ Len(pool) >= 1
        /\ Len(Tail(pool)) = Len(pool) - 1
        /\ \A i \in 1..Len(Tail(pool)) : Tail(pool)[i] = pool[i + 1]
    BY <1>4, <1>1, HeadTailProperties, EmptySeq
  <2>3. /\ 1 \in 1..Len(pool)
        /\ \A i \in 1..Len(idlePool') : i + 1 \in 1..Len(pool) /\ i + 1 # 1
    <3>1. Len(idlePool') = Len(pool) - 1 /\ Len(pool) >= 1
      BY <2>1, <2>2
    <3> QED
      BY <3>1, <1>1
  <2>4. conn'[r] = pool[1] /\ conn'[q] = conn[q] /\ step'[r] = "write" /\ step'[q] = step[q]
    BY <2>1, <2>2, <1>1, <1>2
  <2>5. pool[1] # 0 /\ pool[1] # conn[q]
    BY <2>2, <2>3, <1>0, <1>2
  <2>6. \A p \in Requests : conn'[p] # 0 <=> step'[p] \in {"write", "read"}
    BY <2>4, <2>5, <1>2 DEF OwnedInv
  <2>7. conn'["first"] = conn'["second"] => conn'["first"] = 0
    BY <2>4, <2>5, <1>2 DEF Requests
  <2>8. ASSUME NEW i \in 1..Len(idlePool')
        PROVE  /\ idlePool'[i] = pool[i + 1]
               /\ \A p \in Requests : conn'[p] # idlePool'[i]
    <3>1. idlePool'[i] = pool[i + 1]
      BY <2>1, <2>2
    <3>2. pool[i + 1] # pool[1] /\ pool[i + 1] # conn[q]
      BY <2>3, <1>2
    <3> QED
      BY <3>1, <3>2, <2>4, <1>2
  <2>9. ASSUME NEW i \in 1..Len(idlePool'), NEW j \in 1..Len(idlePool'),
               idlePool'[i] = idlePool'[j]
        PROVE  i = j
    <3>1. i + 1 = j + 1
      BY <2>3, <2>8, <2>9
    <3> QED
      BY <3>1, <1>1
  <2>10. Len(idlePool') <= MaxPoolSize
    BY <2>1, <2>2, <1>0, <1>1
  <2>11. OwnedInv'
    BY <2>6, <2>7, <2>8, <2>9, <2>10 DEF OwnedInv
  <2> QED
    BY <2>1, <2>2, <2>4, <2>11, <1>1, <1>2
<1> QED
  BY <1>3, <1>4

\* The pool after a request has given its connection back.
LEMMA ReleaseKeepsPool ==
  ASSUME TypeOK, OwnedInv, NEW r \in Requests, NEW reusable \in BOOLEAN, step[r] = "read"
  PROVE  LET pool == releaseConnection(conn[r], reusable)
         IN  /\ pool \in Seq(Connections)
             /\ Len(pool) <= MaxPoolSize
             /\ \A i, j \in 1..Len(pool) : pool[i] = pool[j] => i = j
             /\ \A i \in 1..Len(pool), q \in Requests : q # r => conn[q] # pool[i]
<1> DEFINE pool == releaseConnection(conn[r], reusable)
<1>0. /\ conn[r] \in Connections /\ conn[r] # 0
      /\ idlePool \in Seq(Connections) /\ Len(idlePool) \in Nat /\ MaxPoolSize \in Nat
  BY PoolAssumption DEF TypeOK, OwnedInv
<1>1. CASE pool = idlePool
  BY <1>0, <1>1 DEF OwnedInv
<1>2. CASE pool = Append(idlePool, conn[r]) /\ Len(idlePool) < MaxPoolSize
  <2> HIDE DEF pool
  <2>1. /\ pool \in Seq(Connections) /\ Len(pool) = Len(idlePool) + 1
        /\ \A i \in 1..Len(idlePool) : pool[i] = idlePool[i]
        /\ pool[Len(idlePool) + 1] = conn[r]
    BY <1>0, <1>2, AppendProperties
  <2>2. \A i \in 1..Len(pool) : i \in 1..Len(idlePool) \/ i = Len(idlePool) + 1
    BY <1>0, <2>1
  <2>3. ASSUME NEW i \in 1..Len(pool), NEW j \in 1..Len(pool), pool[i] = pool[j]
        PROVE  i = j
    BY <2>1, <2>2, <2>3 DEF OwnedInv
  <2>4. ASSUME NEW i \in 1..Len(pool), NEW q \in Requests, q # r
        PROVE  conn[q] # pool[i]
    <3>1. conn[q] # conn[r]
      BY <2>4, <1>0 DEF OwnedInv, Requests
    <3> QED
      BY <3>1, <2>1, <2>2 DEF OwnedInv
  <2>5. Len(pool) <= MaxPoolSize
    BY <2>1, <1>0, <1>2
  <2> QED
    BY <2>1, <2>3, <2>4, <2>5 DEF pool
<1>3. pool = idlePool \/ (pool = Append(idlePool, conn[r]) /\ Len(idlePool) < MaxPoolSize)
  BY DEF releaseConnection
<1> QED
  BY <1>1, <1>2, <1>3

-----------------------------------------------------------------------------
StepNames == {"unstarted", "resolve", "connect", "handshake", "write", "read", "handler",
              "done"}

\* The steps in which a request waits for an asynchronous operation.
Active == {"resolve", "connect", "handshake", "write", "read"}

\* A handler of the runner that moves one active request on leaves the main
\* thread's turn, and what is known of results and calls, as they are.
LEMMA WorkKeepsTurn ==
  ASSUME TypeOK, TurnInv, AnswerInv, NEW r \in Requests, step[r] \in Active,
         run = "running", run' \in {"running", "blocked"},
         main' = main, late' = late, calls' = calls,
         step'[r] \in Active \cup {"handler"},
         \A q \in Requests : q # r => step'[q] = step[q] /\ result'[q] = result[q],
         step'[r] # "handler" => result'[r] = result[r]
  PROVE  TurnInv' /\ AnswerInv'
<1>1. PICK q \in Requests : q # r /\ Requests = {r, q}
  BY DEF Requests
<1>2. step'[q] = step[q] /\ result'[q] = result[q]
  BY <1>1
<1>3. step[r] \notin {"unstarted", "handler", "done"} /\ step'[r] \notin {"unstarted", "done"}
  BY DEF Active
<1>4. main \notin {"first", "second"}
  BY DEF TurnInv
<1>5. main \in {"resolve", "take"} => r = "second"
  BY <1>3 DEF TurnInv, PoolNotShared, Requests
<1>6. main \in {"get", "resolve", "take"} => r = "first"
  BY <1>3 DEF TurnInv, Requests
<1>7. TurnInv'
  <2>1. PoolNotShared'
    BY <1>5, <1>6 DEF PoolNotShared
  <2>2. main' \in {"first", "second", "get", "resolve", "take"} => step'["second"] = "unstarted"
    <3>1. CASE main \in {"get", "resolve", "take"}
      BY <3>1, <1>1, <1>2, <1>6 DEF TurnInv, Requests
    <3> QED
      BY <3>1, <1>4
  <2> QED
    BY <2>1, <2>2, <1>4 DEF TurnInv
<1>8. AnswerInv'
  BY <1>1, <1>2, <1>3 DEF AnswerInv
<1> QED
  BY <1>7, <1>8

\* The initial state satisfies the invariant.
LEMMA InitIInv == Init => IInv
<1> SUFFICES ASSUME Init PROVE IInv
  OBVIOUS
<1>1. MaxRedirects \in Nat /\ MaxPoolSize \in Nat /\ {"GET", "POST"} \subseteq Methods
  BY PoolAssumption
<1>2. idlePool = <<>> /\ idlePool \in Seq(Connections) /\ Len(idlePool) = 0 /\ 1..Len(idlePool) = {}
  BY EmptySeq DEF Init
<1>3. TypeOK
  <2>1. redirectCount \in [Requests -> 0..MaxRedirects]
    BY <1>1 DEF Init
  <2> QED
    BY <2>1, <1>2 DEF Init, TypeOK
<1>4. OwnedInv
  <2>1. \A r \in Requests : conn[r] # 0 <=> step[r] \in {"write", "read"}
    BY DEF Init
  <2>2. conn["first"] = 0
    BY DEF Init, Requests
  <2>3. Len(idlePool) <= MaxPoolSize
    BY <1>1, <1>2
  <2> QED
    BY <2>1, <2>2, <2>3, <1>2 DEF OwnedInv
<1>5. TurnInv
  BY DEF Init, TurnInv, PoolNotShared, Requests
<1>6. AnswerInv
  BY DEF Init, AnswerInv
<1>7. ChainInv
  <2>1. method \in [Requests -> Methods]
    BY <1>1 DEF Init, Requests
  <2>2. \A r \in Requests : redirectCount[r] <= Limit
    BY <1>1 DEF Init, Limit
  <2> QED
    BY <2>1, <2>2 DEF Init, ChainInv
<1> QED
  BY <1>3, <1>4, <1>5, <1>6, <1>7 DEF IInv

-----------------------------------------------------------------------------
\* An operation that fails leaves the pool alone and gives its connection up.
LEMMA FailsKeeps ==
  ASSUME IInv, NEW r \in Requests, NEW from \in Active, NEW error \in RestErrors,
         Fails(r, from, error)
  PROVE  IInv'
<1>1. /\ run = "running" /\ step[r] = from
      /\ step' = [step EXCEPT ![r] = "handler"]
      /\ result' = [result EXCEPT ![r] = error]
      /\ conn' = [conn EXCEPT ![r] = 0]
      /\ UNCHANGED <<program, config, main, late, method, redirectCount, calls, answer, idlePool>>
  BY DEF Fails, Leaves, RunnerIsFree
<1>2. run' \in {"running", "blocked"}
  BY DEF Fails, MayBlock
<1>3. TypeOK
  BY DEF IInv
<1>4. PICK q \in Requests : q # r /\ Requests = {r, q}
  BY DEF Requests
<1>5. /\ step'[r] = "handler" /\ step'[q] = step[q] /\ result'[q] = result[q]
      /\ conn'[r] = 0 /\ conn'[q] = conn[q]
  BY <1>1, <1>3, <1>4 DEF TypeOK
<1>6. TypeOK'
  BY <1>1, <1>2, <1>3 DEF TypeOK
<1>7. OwnedInv'
  <2>1. \A p \in Requests : conn'[p] # 0 <=> step'[p] \in {"write", "read"}
    BY <1>4, <1>5 DEF IInv, OwnedInv
  <2>2. conn'["first"] = conn'["second"] => conn'["first"] = 0
    BY <1>4, <1>5 DEF Requests
  <2>3. \A i \in 1..Len(idlePool'), p \in Requests : conn'[p] # idlePool'[i]
    <3>1. \A i \in 1..Len(idlePool) : idlePool[i] # 0
      BY <1>3, PoolAssumption DEF TypeOK, Connections
    <3> QED
      BY <3>1, <1>1, <1>4, <1>5 DEF IInv, OwnedInv
  <2> QED
    BY <2>1, <2>2, <2>3, <1>1 DEF IInv, OwnedInv
<1>8. TurnInv' /\ AnswerInv'
  BY <1>1, <1>2, <1>4, <1>5, WorkKeepsTurn DEF IInv
<1>9. ChainInv'
  BY <1>1 DEF IInv, ChainInv, Limit
<1> QED
  BY <1>6, <1>7, <1>8, <1>9 DEF IInv

\* An operation that succeeds within one connection changes nothing else.
LEMMA GoesKeeps ==
  ASSUME IInv, NEW r \in Requests, NEW from, NEW to,
         \/ from \in {"resolve", "connect"} /\ to \in {"connect", "handshake"}
         \/ from = "write" /\ to = "read",
         Goes(r, from, to), UNCHANGED <<answer, conn, idlePool, result>>
  PROVE  IInv'
<1>1. /\ run = "running" /\ step[r] = from
      /\ step' = [step EXCEPT ![r] = to]
      /\ UNCHANGED <<program, config, main, late, method, redirectCount, calls, run>>
  BY DEF Goes, Leaves, RunnerIsFree
<1>2. TypeOK
  BY DEF IInv
<1>3. PICK q \in Requests : q # r /\ Requests = {r, q}
  BY DEF Requests
<1>4. step'[r] = to /\ step'[q] = step[q]
  BY <1>1, <1>2, <1>3 DEF TypeOK
<1>5. from \in Active /\ to \in Active /\ (from \in {"write", "read"} <=> to \in {"write", "read"})
  BY DEF Active
<1>6. TypeOK'
  <2>1. step' \in [Requests -> StepNames]
    BY <1>1, <1>2, <1>5 DEF TypeOK, StepNames, Active
  <2> QED
    BY <2>1, <1>1, <1>2 DEF TypeOK, StepNames
<1>7. OwnedInv'
  <2>1. \A p \in Requests : conn'[p] # 0 <=> step'[p] \in {"write", "read"}
    BY <1>1, <1>3, <1>4, <1>5 DEF IInv, OwnedInv
  <2> QED
    BY <2>1 DEF IInv, OwnedInv
<1>8. TurnInv' /\ AnswerInv'
  BY <1>1, <1>3, <1>4, <1>5, WorkKeepsTurn DEF IInv
<1>9. ChainInv'
  BY <1>1 DEF IInv, ChainInv, Limit
<1> QED
  BY <1>6, <1>7, <1>8, <1>9 DEF IInv

\* A connection that was just made is its request's alone.
LEMMA MakesConnectionKeeps ==
  ASSUME IInv, NEW r \in Requests, NEW from \in {"connect", "handshake"},
         MakesConnection(r, from)
  PROVE  IInv'
<1>1. /\ run = "running" /\ step[r] = from
      /\ step' = [step EXCEPT ![r] = "write"]
      /\ conn' = [conn EXCEPT ![r] = FreshConnection]
      /\ UNCHANGED <<program, config, main, late, method, redirectCount, calls, run,
                     answer, idlePool, result>>
  BY DEF MakesConnection, Goes, Leaves, RunnerIsFree
<1>2. TypeOK
  BY DEF IInv
<1>3. PICK q \in Requests : q # r /\ Requests = {r, q}
  BY DEF Requests
<1>4. conn[r] = 0
  BY <1>1 DEF IInv, OwnedInv
<1>5. /\ FreshConnection \in Connections
      /\ \A i \in 1..Len(idlePool) : idlePool[i] # FreshConnection
      /\ \A p \in Requests : conn[p] # FreshConnection
  BY <1>4, FreshIsFree DEF IInv, TypeOK, OwnedInv
<1>6. FreshConnection # 0
  BY <1>5, PoolAssumption DEF Connections
<1>7. /\ step'[r] = "write" /\ step'[q] = step[q]
      /\ conn'[r] = FreshConnection /\ conn'[q] = conn[q]
  BY <1>1, <1>2, <1>3 DEF TypeOK
<1>8. TypeOK'
  BY <1>1, <1>2, <1>5 DEF TypeOK
<1>9. OwnedInv'
  <2>1. \A p \in Requests : conn'[p] # 0 <=> step'[p] \in {"write", "read"}
    BY <1>3, <1>6, <1>7 DEF IInv, OwnedInv
  <2>2. conn'["first"] = conn'["second"] => conn'["first"] = 0
    BY <1>3, <1>5, <1>7 DEF Requests
  <2>3. \A i \in 1..Len(idlePool'), p \in Requests : conn'[p] # idlePool'[i]
    BY <1>1, <1>3, <1>5, <1>7 DEF IInv, OwnedInv
  <2> QED
    BY <2>1, <2>2, <2>3, <1>1 DEF IInv, OwnedInv
<1>10. TurnInv' /\ AnswerInv'
  BY <1>1, <1>3, <1>7, WorkKeepsTurn DEF IInv, Active
<1>11. ChainInv'
  BY <1>1 DEF IInv, ChainInv, Limit
<1> QED
  BY <1>8, <1>9, <1>10, <1>11 DEF IInv

\* An answer: the connection is given back or shut down, and the request goes
\* on to the next place or to its handler.
LEMMA OnResponseKeeps ==
  ASSUME IInv, NEW r \in Requests, NEW a \in Answers, NEW reusable \in BOOLEAN,
         OnResponse(r, a, reusable)
  PROVE  IInv'
<1> DEFINE pool == releaseConnection(conn[r], reusable)
<1>1. /\ run = "running" /\ step[r] = "read"
      /\ answer' = [answer EXCEPT ![r] = a]
      /\ UNCHANGED <<program, config, main, late, calls>>
  BY DEF OnResponse, RunnerIsFree
<1>2. run' \in {"running", "blocked"}
  BY DEF OnResponse, MayBlock
<1>3. TypeOK
  BY DEF IInv
<1>4. PICK q \in Requests : q # r /\ Requests = {r, q}
  BY DEF Requests
<1>5. /\ pool \in Seq(Connections) /\ Len(pool) <= MaxPoolSize
      /\ \A i, j \in 1..Len(pool) : pool[i] = pool[j] => i = j
      /\ \A i \in 1..Len(pool), p \in Requests : p # r => conn[p] # pool[i]
  BY <1>1, ReleaseKeepsPool DEF IInv
<1>6. answer' \in [Requests -> Answers \cup {NoAnswer}]
  BY <1>1 DEF IInv, ChainInv
<1>7. CASE Follow(r, a, reusable)
  <2> HIDE DEF pool
  <2>1. /\ isRedirect(r, a) /\ startRequest(r, pool)
        /\ method' = [method EXCEPT ![r] = IF a.status = "303" THEN "GET" ELSE @]
        /\ redirectCount' = [redirectCount EXCEPT ![r] = @ + 1]
        /\ result' = result
    BY <1>7 DEF Follow, pool
  <2>2. /\ OwnedInv'
        /\ idlePool' \in Seq(Connections)
        /\ conn' \in [Requests -> Connections \cup {0}]
        /\ step' \in [Requests -> StepNames]
        /\ step'[r] \in {"resolve", "write"}
        /\ \A p \in Requests : p # r => step'[p] = step[p]
    BY <1>5, <2>1, StartKeepsOwners DEF IInv, StepNames
  <2>3. redirectCount[r] \in Nat /\ redirectCount[r] < MaxRedirects /\ Limit = MaxRedirects
    BY <2>1, <1>3, PoolAssumption DEF isRedirect, Limit, TypeOK
  <2>4. /\ redirectCount' \in [Requests -> 0..MaxRedirects]
        /\ redirectCount'[r] = redirectCount[r] + 1 /\ redirectCount'[q] = redirectCount[q]
    BY <2>1, <2>3, <1>3, <1>4, PoolAssumption DEF TypeOK
  <2>5. TypeOK'
    BY <1>1, <1>2, <1>3, <2>1, <2>2, <2>4 DEF TypeOK, StepNames
  <2>6. TurnInv' /\ AnswerInv'
    BY <1>1, <1>2, <2>1, <2>2, WorkKeepsTurn DEF IInv, Active
  <2>7. ChainInv'
    <3>1. method' \in [Requests -> Methods]
      BY <2>1, PoolAssumption DEF IInv, ChainInv
    <3>2. Limit' = Limit
      BY <1>1 DEF Limit
    <3>3. redirectCount'[r] <= Limit /\ redirectCount'[q] <= Limit
      <4>1. redirectCount[q] <= Limit
        BY DEF IInv, ChainInv
      <4> QED
        BY <4>1, <2>3, <2>4, PoolAssumption
    <3>4. \A p \in Requests : redirectCount'[p] <= Limit'
      BY <3>2, <3>3, <1>4
    <3> QED
      BY <3>1, <3>4, <1>1, <1>6 DEF IInv, ChainInv
  <2> QED
    BY <2>2, <2>5, <2>6, <2>7 DEF IInv
<1>8. CASE Ends(r, a, reusable)
  <2> HIDE DEF pool
  <2>1. /\ idlePool' = pool
        /\ conn' = [conn EXCEPT ![r] = 0]
        /\ step' = [step EXCEPT ![r] = "handler"]
        /\ result' = [result EXCEPT ![r] = IF isRedirect(r, a) THEN "CrossHostRedirect"
                                           ELSE "answer"]
        /\ UNCHANGED <<method, redirectCount>>
    BY <1>8 DEF Ends, pool
  <2>2. /\ step'[r] = "handler" /\ step'[q] = step[q] /\ result'[q] = result[q]
        /\ conn'[r] = 0 /\ conn'[q] = conn[q]
    BY <1>3, <1>4, <2>1 DEF TypeOK
  <2>3. TypeOK'
    BY <1>1, <1>2, <1>3, <1>5, <2>1 DEF TypeOK
  <2>4. OwnedInv'
    <3>1. \A p \in Requests : conn'[p] # 0 <=> step'[p] \in {"write", "read"}
      BY <1>4, <2>2 DEF IInv, OwnedInv
    <3>2. conn'["first"] = conn'["second"] => conn'["first"] = 0
      BY <1>4, <2>2 DEF Requests
    <3>3. \A i \in 1..Len(pool), p \in Requests : conn'[p] # pool[i]
      <4>1. \A i \in 1..Len(pool) : pool[i] # 0
        BY <1>5, PoolAssumption DEF Connections
      <4> QED
        BY <4>1, <1>4, <1>5, <2>2
    <3> QED
      BY <3>1, <3>2, <3>3, <1>5, <2>1 DEF OwnedInv
  <2>5. TurnInv' /\ AnswerInv'
    BY <1>1, <1>2, <1>4, <2>2, WorkKeepsTurn DEF IInv, Active
  <2>6. ChainInv'
    BY <1>1, <1>6, <2>1 DEF IInv, ChainInv, Limit
  <2> QED
    BY <2>3, <2>4, <2>5, <2>6 DEF IInv
<1> QED
  BY <1>7, <1>8 DEF OnResponse

\* A handler is called once, when its request is done with its connection.
LEMMA CallHandlerKeeps ==
  ASSUME IInv, NEW r \in Requests, CallHandler(r)
  PROVE  IInv'
<1>1. /\ run = "running" /\ step[r] = "handler"
      /\ step' = [step EXCEPT ![r] = "done"]
      /\ calls' = [calls EXCEPT ![r] = @ + 1]
      /\ UNCHANGED <<program, config, main, run, late, method, redirectCount, answer,
                     conn, idlePool, result>>
  BY DEF CallHandler
<1>2. TypeOK
  BY DEF IInv
<1>3. PICK q \in Requests : q # r /\ Requests = {r, q}
  BY DEF Requests
<1>4. step'[r] = "done" /\ step'[q] = step[q]
  BY <1>1, <1>2, <1>3 DEF TypeOK
<1>5. calls[r] = 0 /\ calls' = [calls EXCEPT ![r] = 1]
  <2>1. calls[r] = 0
    BY <1>1 DEF IInv, AnswerInv
  <2>2. calls[r] + 1 = 1
    BY <2>1
  <2> QED
    BY <2>1, <2>2, <1>1
<1>6. TypeOK'
  BY <1>1, <1>2 DEF TypeOK
<1>7. OwnedInv'
  <2>1. \A p \in Requests : conn'[p] # 0 <=> step'[p] \in {"write", "read"}
    BY <1>1, <1>3, <1>4 DEF IInv, OwnedInv
  <2> QED
    BY <2>1, <1>1 DEF IInv, OwnedInv
<1>8. TurnInv'
  <2>1. main \notin {"first", "second"}
    BY <1>1 DEF IInv, TurnInv
  <2>2. main \in {"get", "resolve", "take"} => r = "first"
    BY <1>1 DEF IInv, TurnInv, Requests
  <2>3. PoolNotShared'
    BY <1>1, <1>3, <1>4, <2>2 DEF PoolNotShared
  <2>4. main \in {"get", "resolve", "take"} => step'["second"] = "unstarted"
    BY <1>1, <1>3, <1>4, <2>2 DEF IInv, TurnInv, Requests
  <2> QED
    BY <2>1, <2>3, <2>4, <1>1 DEF IInv, TurnInv
<1>9. AnswerInv'
  BY <1>1, <1>3, <1>4, <1>5 DEF IInv, AnswerInv
<1>10. ChainInv'
  BY <1>1 DEF IInv, ChainInv, Limit
<1> QED
  BY <1>6, <1>7, <1>8, <1>9, <1>10 DEF IInv

\* The runner leaves when no request waits for anything.
LEMMA RunReturnsKeeps ==
  ASSUME IInv, RunReturns
  PROVE  IInv'
<1>1. /\ run = "running" /\ run' = "returned"
      /\ \A r \in Requests : step[r] \in {"unstarted", "done"}
      /\ UNCHANGED <<program, config, main, step, late, method, redirectCount, answer,
                     conn, idlePool, result, calls>>
  BY DEF RunReturns
<1>2. TypeOK'
  BY <1>1 DEF IInv, TypeOK
<1>3. OwnedInv'
  BY <1>1 DEF IInv, OwnedInv
<1>4. TurnInv'
  <2>1. PoolNotShared'
    BY <1>1 DEF IInv, TurnInv, PoolNotShared
  <2> QED
    BY <2>1, <1>1 DEF IInv, TurnInv
<1>5. AnswerInv'
  BY <1>1 DEF IInv, AnswerInv
<1>6. ChainInv'
  BY <1>1 DEF IInv, ChainInv, Limit
<1> QED
  BY <1>2, <1>3, <1>4, <1>5, <1>6 DEF IInv

-----------------------------------------------------------------------------
\* A request begun by the main thread finds a pool no handler can touch.
LEMMA BeginKeeps ==
  ASSUME IInv, NEW r \in Requests, step[r] = "unstarted",
         NEW pool \in {<<>>, idlePool}, startRequest(r, pool),
         UNCHANGED <<config, method, redirectCount, answer, result, calls>>,
         main' \in {"second", "get", "join"},
         run' \in {"before", "running", "returned", "blocked"}
  PROVE  /\ TypeOK' /\ OwnedInv' /\ AnswerInv' /\ ChainInv'
         /\ \A q \in Requests : q # r => step'[q] = step[q]
<1>1. /\ pool \in Seq(Connections) /\ Len(pool) <= MaxPoolSize
      /\ \A i, j \in 1..Len(pool) : pool[i] = pool[j] => i = j
      /\ \A i \in 1..Len(pool), q \in Requests : q # r => conn[q] # pool[i]
  <2>1. CASE pool = <<>>
    <3>1. pool \in Seq(Connections) /\ Len(pool) = 0 /\ 1..Len(pool) = {}
      BY <2>1, EmptySeq
    <3> QED
      BY <3>1, PoolAssumption
  <2>2. CASE pool = idlePool
    BY <2>2 DEF IInv, TypeOK, OwnedInv
  <2> QED
    BY <2>1, <2>2
<1>2. /\ OwnedInv'
      /\ idlePool' \in Seq(Connections)
      /\ conn' \in [Requests -> Connections \cup {0}]
      /\ step' \in [Requests -> StepNames]
      /\ step'[r] \in {"resolve", "write"}
      /\ \A q \in Requests : q # r => step'[q] = step[q]
  BY <1>1, StartKeepsOwners DEF IInv, StepNames
<1>3. TypeOK'
  BY <1>2 DEF IInv, TypeOK, StepNames
<1>4. AnswerInv'
  <2>1. PICK q \in Requests : q # r /\ Requests = {r, q}
    BY DEF Requests
  <2> QED
    BY <2>1, <1>2 DEF IInv, AnswerInv
<1>5. ChainInv'
  BY DEF IInv, ChainInv, Limit
<1> QED
  BY <1>2, <1>3, <1>4, <1>5

\* The first request of either program.
LEMMA FirstKeeps ==
  ASSUME IInv, First
  PROVE  IInv'
<1>1. /\ main = "first" /\ startRequest("first", idlePool)
      /\ main' \in {"get", "second"}
      /\ main' = "second" => run' = run
      /\ run' \in {"running", run}
      /\ UNCHANGED <<program, config, late, method, redirectCount, answer, result, calls>>
  BY DEF First, MainGoes
<1>2. run = "before" /\ step["first"] = "unstarted" /\ step["second"] = "unstarted"
  BY <1>1 DEF IInv, TurnInv
<1>3. /\ TypeOK' /\ OwnedInv' /\ AnswerInv' /\ ChainInv'
      /\ step'["second"] = step["second"]
  BY <1>1, <1>2, BeginKeeps DEF Requests
<1>4. TurnInv'
  BY <1>1, <1>2, <1>3 DEF IInv, TurnInv, PoolNotShared
<1> QED
  BY <1>3, <1>4 DEF IInv

\* The second request of the burst.
LEMMA SecondKeeps ==
  ASSUME IInv, Second
  PROVE  IInv'
<1>1. /\ main = "second" /\ startRequest("second", idlePool)
      /\ main' = "join" /\ run' = "running"
      /\ UNCHANGED <<program, config, late, method, redirectCount, answer, result, calls>>
  BY DEF Second, MainGoes
<1>2. step["second"] = "unstarted"
  BY <1>1 DEF IInv, TurnInv
<1>3. TypeOK' /\ OwnedInv' /\ AnswerInv' /\ ChainInv'
  BY <1>1, <1>2, BeginKeeps DEF Requests
<1>4. TurnInv'
  BY <1>1 DEF IInv, TurnInv, PoolNotShared
<1> QED
  BY <1>3, <1>4 DEF IInv

\* A future that is ready belongs to a request that is done.
LEMMA FutureGetKeeps ==
  ASSUME IInv, FutureGet
  PROVE  IInv'
<1>1. /\ main = "get" /\ calls["first"] > 0 /\ main' \in {"resolve", "take"}
      /\ UNCHANGED <<program, config, run, step, late, method, redirectCount, answer,
                     conn, idlePool, result, calls>>
  BY DEF FutureGet, MainGoes
<1>2. step["first"] = "done"
  <2>1. calls["first"] \in {0, 1} /\ (calls["first"] = 1 <=> step["first"] = "done")
    BY DEF IInv, AnswerInv, Requests
  <2> QED
    BY <2>1, <1>1
<1>3. TypeOK'
  BY <1>1 DEF IInv, TypeOK
<1>4. OwnedInv'
  BY <1>1 DEF IInv, OwnedInv
<1>5. TurnInv'
  BY <1>1, <1>2 DEF IInv, TurnInv, PoolNotShared
<1>6. AnswerInv'
  BY <1>1 DEF IInv, AnswerInv
<1>7. ChainInv'
  BY <1>1 DEF IInv, ChainInv, Limit
<1> QED
  BY <1>3, <1>4, <1>5, <1>6, <1>7 DEF IInv

\* The request that follows the future, perhaps too late for the runner.
LEMMA PostKeeps ==
  ASSUME IInv, Post
  PROVE  IInv'
<1>1. /\ main \in {"resolve", "take"} /\ main' = "join" /\ run' = run
      /\ late' = IF run = "returned" THEN {"second"} ELSE {}
      /\ UNCHANGED <<program, config, method, redirectCount, answer, result, calls>>
  BY DEF Post, MainGoes
<1>2. \E pool \in {<<>>, idlePool} : startRequest("second", pool)
  BY DEF Post
<1>3. step["first"] = "done" /\ step["second"] = "unstarted"
  BY <1>1 DEF IInv, TurnInv, PoolNotShared
<1>4. run' \in {"before", "running", "returned", "blocked"}
  BY <1>1 DEF IInv, TypeOK
<1>5. /\ TypeOK' /\ OwnedInv' /\ AnswerInv' /\ ChainInv'
      /\ step'["first"] = step["first"]
  BY <1>1, <1>2, <1>3, <1>4, BeginKeeps DEF Requests
<1>6. TurnInv'
  BY <1>1, <1>3, <1>5 DEF IInv, TurnInv, PoolNotShared, Requests
<1> QED
  BY <1>5, <1>6 DEF IInv

\* The destructor of the client empties the pool.
LEMMA JoinKeeps ==
  ASSUME IInv, Join
  PROVE  IInv'
<1>1. /\ main = "join" /\ main' \in {"blocked", "ended"} /\ idlePool' = <<>>
      /\ UNCHANGED <<program, config, run, step, late, method, redirectCount, answer,
                     conn, result, calls>>
  BY DEF Join, MainGoes, MayBlock
<1>2. idlePool' \in Seq(Connections) /\ Len(idlePool') = 0 /\ 1..Len(idlePool') = {}
  BY <1>1, EmptySeq
<1>3. TypeOK'
  BY <1>1, <1>2 DEF IInv, TypeOK
<1>4. OwnedInv'
  <2>1. Len(idlePool') <= MaxPoolSize
    BY <1>2, PoolAssumption
  <2> QED
    BY <1>1, <1>2, <2>1 DEF IInv, OwnedInv
<1>5. TurnInv'
  BY <1>1 DEF IInv, TurnInv, PoolNotShared
<1>6. AnswerInv'
  BY <1>1 DEF IInv, AnswerInv
<1>7. ChainInv'
  BY <1>1 DEF IInv, ChainInv, Limit
<1> QED
  BY <1>3, <1>4, <1>5, <1>6, <1>7 DEF IInv

-----------------------------------------------------------------------------
\* Every step of the program keeps the invariant.
LEMMA NextIInv == IInv /\ [Next]_vars => IInv'
<1> SUFFICES ASSUME IInv, [Next]_vars PROVE IInv'
  OBVIOUS
<1>1. ASSUME NEW r \in Requests, OnResolve(r) PROVE IInv'
  <2>1. CASE \E error \in {"ResolveFailed", "TlsHandshakeFailed"} : Fails(r, "resolve", error)
    BY <2>1, FailsKeeps DEF Active, RestErrors
  <2>2. CASE Goes(r, "resolve", "connect") /\ UNCHANGED <<answer, conn, idlePool, result>>
    BY <2>2, GoesKeeps
  <2> QED
    BY <1>1, <2>1, <2>2 DEF OnResolve
<1>2. ASSUME NEW r \in Requests, OnConnect(r) PROVE IInv'
  <2>1. CASE Fails(r, "connect", "ConnectFailed")
    BY <2>1, FailsKeeps DEF Active, RestErrors
  <2>2. CASE Goes(r, "connect", "handshake") /\ UNCHANGED <<answer, conn, idlePool, result>>
    BY <2>2, GoesKeeps
  <2>3. CASE MakesConnection(r, "connect")
    BY <2>3, MakesConnectionKeeps
  <2> QED
    BY <1>2, <2>1, <2>2, <2>3 DEF OnConnect
<1>3. ASSUME NEW r \in Requests, OnHandshake(r) PROVE IInv'
  <2>1. CASE Fails(r, "handshake", "TlsHandshakeFailed")
    BY <2>1, FailsKeeps DEF Active, RestErrors
  <2>2. CASE MakesConnection(r, "handshake")
    BY <2>2, MakesConnectionKeeps
  <2> QED
    BY <1>3, <2>1, <2>2 DEF OnHandshake
<1>4. ASSUME NEW r \in Requests, OnWrite(r) PROVE IInv'
  <2>1. CASE Fails(r, "write", "WriteFailed")
    BY <2>1, FailsKeeps DEF Active, RestErrors
  <2>2. CASE Goes(r, "write", "read") /\ UNCHANGED <<answer, conn, idlePool, result>>
    BY <2>2, GoesKeeps
  <2> QED
    BY <1>4, <2>1, <2>2 DEF OnWrite
<1>5. ASSUME NEW r \in Requests, ReadFails(r) PROVE IInv'
  BY <1>5, FailsKeeps DEF ReadFails, Active, RestErrors
<1>6. ASSUME NEW r \in Requests, \E a \in Answers, reusable \in BOOLEAN : OnResponse(r, a, reusable)
      PROVE  IInv'
  BY <1>6, OnResponseKeeps
<1>7. ASSUME NEW r \in Requests, CallHandler(r) PROVE IInv'
  BY <1>7, CallHandlerKeeps
<1>8. CASE RunReturns
  BY <1>8, RunReturnsKeeps
<1>9. CASE Main
  BY <1>9, FirstKeeps, SecondKeeps, FutureGetKeeps, PostKeeps, JoinKeeps DEF Main
<1>10. CASE UNCHANGED vars
  <2>1. TypeOK'
    BY <1>10 DEF IInv, TypeOK, vars
  <2>2. OwnedInv'
    BY <1>10 DEF IInv, OwnedInv, vars
  <2>3. TurnInv'
    BY <1>10 DEF IInv, TurnInv, PoolNotShared, vars
  <2>4. AnswerInv'
    BY <1>10 DEF IInv, AnswerInv, vars
  <2>5. ChainInv'
    BY <1>10 DEF IInv, ChainInv, Limit, vars
  <2> QED
    BY <2>1, <2>2, <2>3, <2>4, <2>5 DEF IInv
<1> QED
  BY <1>1, <1>2, <1>3, <1>4, <1>5, <1>6, <1>7, <1>8, <1>9, <1>10 DEF Next, Operation, Ended

\* The inductive invariant holds in every reachable state.
THEOREM InductiveInvariant == Spec => []IInv
<1> QED
  BY InitIInv, NextIInv, PTL DEF Spec

\* A connection is used by one request or lies idle in a pool within its
\* limit, and the pool, which has no lock, is never used by two threads: main
\* looks at it between the first request's end and the second one's beginning.
THEOREM ConnectionsHaveOneUser == Spec => []OneUser
<1>1. IInv => OneUser
  BY DEF IInv, OwnedInv, TurnInv, OneUser
<1> QED
  BY <1>1, InductiveInvariant, PTL

\* A handler is called at most once, and run does not return before every
\* request begun in time has been answered.
THEOREM HandlersAnsweredOnce == Spec => []AnsweredOnce
<1>1. IInv => AnsweredOnce
  <2> SUFFICES ASSUME IInv PROVE AnsweredOnce
    OBVIOUS
  <2>1. \A r \in Requests : calls[r] <= 1
    <3>1. \A r \in Requests : calls[r] = 0 \/ calls[r] = 1
      BY DEF IInv, AnswerInv
    <3> QED
      BY <3>1
  <2>2. run = "returned" => \A r \in Requests \ late : step[r] # "unstarted" => calls[r] = 1
    BY DEF IInv, TurnInv, AnswerInv
  <2> QED
    BY <2>1, <2>2 DEF AnsweredOnce
<1> QED
  BY <1>1, InductiveInvariant, PTL

-----------------------------------------------------------------------------
\* What a step of RedirectChain says of request r.
ChainFollows(r, a) ==
  /\ result[r] = "none" /\ redirectCount[r] < Limit
  /\ a.status # "200" /\ a.location = "here"
  /\ redirectCount'[r] = redirectCount[r] + 1 /\ answer'[r] = a
  /\ method'[r] = IF a.status = "303" THEN "GET" ELSE method[r]
  /\ result'[r] = result[r]

ChainEnds(r, a) ==
  /\ result[r] = "none" /\ answer'[r] = a
  /\ \/ /\ redirectCount[r] < Limit
        /\ a.status # "200" /\ a.location = "elsewhere"
        /\ result'[r] = "CrossHostRedirect"
     \/ /\ a.status # "200" /\ a.location # "none" => redirectCount[r] = Limit
        /\ result'[r] = "answer"
  /\ method'[r] = method[r] /\ redirectCount'[r] = redirectCount[r]

ChainFails(r) ==
  /\ result[r] = "none" /\ result'[r] \in RestErrors
  /\ method'[r] = method[r] /\ redirectCount'[r] = redirectCount[r] /\ answer'[r] = answer[r]

ChainStutters(r) ==
  /\ method'[r] = method[r] /\ redirectCount'[r] = redirectCount[r]
  /\ answer'[r] = answer[r] /\ result'[r] = result[r]

ChainStep(r) ==
  /\ Limit' = Limit
  /\ \/ \E a \in Answers : ChainFollows(r, a) \/ ChainEnds(r, a)
     \/ ChainFails(r)
     \/ ChainStutters(r)

\* A failing operation is the end of one chain and nothing in the other.
LEMMA FailsIsChainStep ==
  ASSUME IInv, NEW r \in Requests, NEW from \in Active, NEW error \in RestErrors,
         Fails(r, from, error), NEW q \in Requests
  PROVE  ChainStep(q)
<1>1. /\ step[r] = from
      /\ result' = [result EXCEPT ![r] = error]
      /\ UNCHANGED <<config, method, redirectCount, answer>>
  BY DEF Fails, Leaves
<1>2. result[r] = "none"
  BY <1>1 DEF IInv, AnswerInv, Active
<1>3. CASE q = r
  <2>1. result'[r] \in RestErrors
    BY <1>1 DEF IInv, TypeOK
  <2> QED
    BY <1>1, <1>2, <1>3, <2>1 DEF ChainStep, ChainFails, Limit
<1>4. CASE q # r
  BY <1>1, <1>4 DEF IInv, TypeOK, ChainStep, ChainStutters, Limit
<1> QED
  BY <1>3, <1>4

\* An answer follows a redirect, refuses it, or is the result.
LEMMA OnResponseIsChainStep ==
  ASSUME IInv, NEW r \in Requests, NEW a \in Answers, NEW reusable \in BOOLEAN,
         OnResponse(r, a, reusable), NEW q \in Requests
  PROVE  ChainStep(q)
<1>1. /\ step[r] = "read" /\ answer' = [answer EXCEPT ![r] = a] /\ config' = config
  BY DEF OnResponse
<1>2. result[r] = "none" /\ Limit' = Limit
  BY <1>1 DEF IInv, AnswerInv, Limit
<1>3. /\ redirectCount[r] \in Nat /\ Limit \in Nat /\ redirectCount[r] <= Limit
      /\ MaxRedirects \in Nat
  BY PoolAssumption DEF IInv, ChainInv, TypeOK, Limit
<1>4. /\ method \in [Requests -> Methods] /\ answer \in [Requests -> Answers \cup {NoAnswer}]
      /\ redirectCount \in [Requests -> 0..MaxRedirects] /\ DOMAIN result = Requests
  BY DEF IInv, ChainInv, TypeOK
<1>5. answer'[r] = a /\ (q # r => answer'[q] = answer[q])
  BY <1>1, <1>4
<1>6. isRedirect(r, a) =>
        /\ redirectCount[r] < Limit /\ a.status # "200" /\ a.location # "none"
  BY DEF isRedirect, Limit
<1>7. ~isRedirect(r, a) => (a.status # "200" /\ a.location # "none" => redirectCount[r] = Limit)
  <2>1. CASE config.followRedirects
    BY <2>1, <1>3 DEF isRedirect, Limit
  <2>2. CASE ~config.followRedirects
    BY <2>2, <1>3 DEF Limit
  <2> QED
    BY <2>1, <2>2
<1>8. CASE Follow(r, a, reusable)
  <2>1. /\ isRedirect(r, a) /\ a.location = "here" /\ result' = result
        /\ redirectCount' = [redirectCount EXCEPT ![r] = redirectCount[r] + 1]
        /\ method' = [method EXCEPT ![r] = IF a.status = "303" THEN "GET" ELSE method[r]]
    BY <1>8 DEF Follow
  <2>2. q = r => ChainFollows(q, a)
    BY <2>1, <1>2, <1>4, <1>5, <1>6 DEF ChainFollows
  <2>3. q # r => ChainStutters(q)
    BY <2>1, <1>4, <1>5 DEF ChainStutters
  <2> QED
    BY <2>2, <2>3, <1>2 DEF ChainStep
<1>9. CASE Ends(r, a, reusable)
  <2>1. /\ isRedirect(r, a) => a.location = "elsewhere"
        /\ result' = [result EXCEPT ![r] = IF isRedirect(r, a) THEN "CrossHostRedirect"
                                           ELSE "answer"]
        /\ UNCHANGED <<method, redirectCount>>
    BY <1>9 DEF Ends
  <2>2. q = r => ChainEnds(q, a)
    BY <2>1, <1>2, <1>4, <1>5, <1>6, <1>7 DEF ChainEnds
  <2>3. q # r => ChainStutters(q)
    BY <2>1, <1>4, <1>5 DEF ChainStutters
  <2> QED
    BY <2>2, <2>3, <1>2 DEF ChainStep
<1> QED
  BY <1>8, <1>9 DEF OnResponse

\* Every step of the program is a step or a stutter of every chain.
LEMMA NextIsChainStep ==
  ASSUME IInv, [Next]_vars, NEW q \in Requests
  PROVE  ChainStep(q)
<1>1. CASE UNCHANGED <<config, method, redirectCount, answer, result>>
  BY <1>1 DEF ChainStep, ChainStutters, Limit
<1>2. ASSUME NEW r \in Requests, Operation(r) PROVE ChainStep(q)
  <2>1. CASE \E from \in Active, error \in RestErrors : Fails(r, from, error)
    BY <2>1, FailsIsChainStep
  <2>2. CASE \E a \in Answers, reusable \in BOOLEAN : OnResponse(r, a, reusable)
    BY <2>2, OnResponseIsChainStep
  <2>3. OnResolve(r) => \/ \E from \in Active, error \in RestErrors : Fails(r, from, error)
                        \/ UNCHANGED <<config, method, redirectCount, answer, result>>
    BY DEF OnResolve, Goes, Leaves, Active, RestErrors
  <2>4. OnConnect(r) => \/ \E from \in Active, error \in RestErrors : Fails(r, from, error)
                        \/ UNCHANGED <<config, method, redirectCount, answer, result>>
    BY DEF OnConnect, MakesConnection, Goes, Leaves, Active, RestErrors
  <2>5. OnHandshake(r) => \/ \E from \in Active, error \in RestErrors : Fails(r, from, error)
                          \/ UNCHANGED <<config, method, redirectCount, answer, result>>
    BY DEF OnHandshake, MakesConnection, Goes, Leaves, Active, RestErrors
  <2>6. OnWrite(r) => \/ \E from \in Active, error \in RestErrors : Fails(r, from, error)
                      \/ UNCHANGED <<config, method, redirectCount, answer, result>>
    BY DEF OnWrite, Goes, Leaves, Active, RestErrors
  <2>7. ReadFails(r) => \E from \in Active, error \in RestErrors : Fails(r, from, error)
    BY DEF ReadFails, Active, RestErrors
  <2> QED
    BY <1>1, <1>2, <2>1, <2>2, <2>3, <2>4, <2>5, <2>6, <2>7 DEF Operation
<1>3. ASSUME NEW r \in Requests, CallHandler(r) PROVE ChainStep(q)
  BY <1>1, <1>3 DEF CallHandler
<1>4. CASE RunReturns
  BY <1>1, <1>4 DEF RunReturns
<1>5. CASE Main
  BY <1>1, <1>5 DEF Main, First, Second, FutureGet, Post, Join, MainGoes
<1>6. CASE UNCHANGED vars
  BY <1>1, <1>6 DEF vars
<1> QED
  BY <1>2, <1>3, <1>4, <1>5, <1>6 DEF Next, Ended

\* Each request, through both the shared pool and the other request's steps,
\* implements RedirectChain with the client's limit.
THEOREM ChainsImplemented == Spec => ImplementsChain
<1>1. Init => FirstChain!Init /\ SecondChain!Init
  <2> SUFFICES ASSUME Init PROVE FirstChain!Init /\ SecondChain!Init
    OBVIOUS
  <2>1. IInv
    BY InitIInv
  <2>2. Limit \in Nat
    BY PoolAssumption DEF Limit
  <2>3. method["first"] \in Methods /\ method["second"] \in Methods
    BY <2>1 DEF IInv, ChainInv, Requests
  <2>4. \A r \in Requests : redirectCount[r] = 0 /\ answer[r] = NoAnswer /\ result[r] = "none"
    BY DEF Init
  <2> QED
    BY <2>2, <2>3, <2>4 DEF FirstChain!Init, SecondChain!Init, FirstChain!NoAnswer,
       SecondChain!NoAnswer, NoAnswer, Requests
<1>2. IInv /\ [Next]_vars => [FirstChain!Next]_(FirstChain!vars)
  <2> SUFFICES ASSUME IInv, [Next]_vars PROVE [FirstChain!Next]_(FirstChain!vars)
    OBVIOUS
  <2>1. ChainStep("first")
    BY NextIsChainStep DEF Requests
  <2>2. ASSUME NEW a \in Answers, ChainFollows("first", a), Limit' = Limit
        PROVE  FirstChain!Follow(a)
    BY <2>2 DEF ChainFollows, FirstChain!Follow, FirstChain!Redirects
  <2>3. ASSUME NEW a \in Answers, ChainEnds("first", a), Limit' = Limit
        PROVE  FirstChain!Refuse(a) \/ FirstChain!Return(a)
    BY <2>3 DEF ChainEnds, FirstChain!Refuse, FirstChain!Return, FirstChain!Redirects
  <2>4. ChainFails("first") /\ Limit' = Limit => FirstChain!Fail
    BY DEF ChainFails, FirstChain!Fail
  <2>5. ChainStutters("first") /\ Limit' = Limit => UNCHANGED FirstChain!vars
    BY DEF ChainStutters, FirstChain!vars
  <2> QED
    BY <2>1, <2>2, <2>3, <2>4, <2>5 DEF ChainStep, FirstChain!Next, FirstChain!Answers, Answers
<1>3. IInv /\ [Next]_vars => [SecondChain!Next]_(SecondChain!vars)
  <2> SUFFICES ASSUME IInv, [Next]_vars PROVE [SecondChain!Next]_(SecondChain!vars)
    OBVIOUS
  <2>1. ChainStep("second")
    BY NextIsChainStep DEF Requests
  <2>2. ASSUME NEW a \in Answers, ChainFollows("second", a), Limit' = Limit
        PROVE  SecondChain!Follow(a)
    BY <2>2 DEF ChainFollows, SecondChain!Follow, SecondChain!Redirects
  <2>3. ASSUME NEW a \in Answers, ChainEnds("second", a), Limit' = Limit
        PROVE  SecondChain!Refuse(a) \/ SecondChain!Return(a)
    BY <2>3 DEF ChainEnds, SecondChain!Refuse, SecondChain!Return, SecondChain!Redirects
  <2>4. ChainFails("second") /\ Limit' = Limit => SecondChain!Fail
    BY DEF ChainFails, SecondChain!Fail
  <2>5. ChainStutters("second") /\ Limit' = Limit => UNCHANGED SecondChain!vars
    BY DEF ChainStutters, SecondChain!vars
  <2> QED
    BY <2>1, <2>2, <2>3, <2>4, <2>5 DEF ChainStep, SecondChain!Next, SecondChain!Answers, Answers
<1> QED
  BY <1>1, <1>2, <1>3, InductiveInvariant, PTL
     DEF Spec, ImplementsChain, FirstChain!Spec, SecondChain!Spec

-----------------------------------------------------------------------------
(***************************************************************************)
(* The synchronous client.  Its variables are its own: the formulas of     *)
(* Sync speak of no behaviour of RestPool, although names are shared.      *)
(***************************************************************************)
CONSTANTS DnsTtl, MaxClock

VARIABLES https, todo, hopBegan, resolvedAt, fresh, clock

Sync == INSTANCE SyncRest

\* A request is under way.
SyncActive == step \in Sync!RestErrors

\* The time the client remembers is the time its endpoints were asked for, and
\* lies in the past.
SyncTimeInv ==
  /\ DnsTtl \in Nat
  /\ clock \in Nat /\ hopBegan \in 0..clock
  /\ resolvedAt \in 0..clock /\ fresh = resolvedAt
  /\ step = "construct" => resolvedAt = 0
  /\ Sync!StaleBounded

\* A request under way has no result yet.  Before the first one the variables
\* of a request hold what it will begin with.
SyncRequestInv ==
  /\ step \in Sync!RestErrors \cup {"construct", "idle", "failed"}
  /\ redirectCount \in 0..MaxRedirects
  /\ SyncActive => result = "none"
  /\ ~SyncActive /\ result = "none" =>
       method = Head(todo) /\ redirectCount = 0 /\ answer = Sync!NoAnswer

SyncIInv == SyncTimeInv /\ SyncRequestInv

-----------------------------------------------------------------------------
\* No endpoints, no request.
LEMMA SyncInitIInv == DnsTtl \in Nat /\ Sync!Init => SyncIInv
<1> SUFFICES ASSUME DnsTtl \in Nat, Sync!Init PROVE SyncIInv
  OBVIOUS
<1>1. SyncTimeInv
  BY DEF Sync!Init, SyncTimeInv, Sync!StaleBounded
<1>2. SyncRequestInv
  BY PoolAssumption DEF Sync!Init, SyncRequestInv, SyncActive, Sync!RestErrors
<1> QED
  BY <1>1, <1>2 DEF SyncIInv

\* Endpoints that pass ensureEndpointsFresh are young enough for the hop that
\* begins now; those that do not are resolved before it connects.
LEMMA HopPreserves ==
  ASSUME SyncTimeInv, Sync!ensureEndpointsFresh, hopBegan' = clock, clock' = clock
  PROVE  SyncTimeInv' /\ step' \in {"resolve", "connect"}
<1>1. step' = IF clock - resolvedAt > DnsTtl THEN "resolve" ELSE "connect"
  BY DEF Sync!ensureEndpointsFresh
<1>2. UNCHANGED <<resolvedAt, fresh>>
  BY DEF Sync!ensureEndpointsFresh
<1>3. clock \in Nat /\ resolvedAt \in Nat /\ resolvedAt <= clock /\ fresh = resolvedAt
      /\ DnsTtl \in Nat
  BY DEF SyncTimeInv
<1>4. Sync!StaleBounded'
  BY <1>1, <1>2, <1>3 DEF Sync!StaleBounded
<1> QED
  BY <1>1, <1>2, <1>3, <1>4 DEF SyncTimeInv

\* Every step keeps the invariant.
LEMMA SyncNextIInv == SyncIInv /\ [Sync!Next]_(Sync!vars) => SyncIInv'
<1> SUFFICES ASSUME SyncIInv, [Sync!Next]_(Sync!vars) PROVE SyncIInv'
  OBVIOUS
<1> USE DEF SyncIInv
<1>0. MaxRedirects \in Nat /\ DnsTtl \in Nat
  BY PoolAssumption DEF SyncTimeInv
<1>1. CASE Sync!Construct
  <2>1. SyncTimeInv'
    BY <1>1 DEF Sync!Construct, SyncTimeInv, Sync!StaleBounded
  <2>2. SyncRequestInv'
    BY <1>1 DEF Sync!Construct, SyncRequestInv, SyncActive, Sync!RestErrors, Sync!request
  <2> QED
    BY <2>1, <2>2
<1>2. CASE Sync!Request
  <2>1. SyncTimeInv' /\ step' \in {"resolve", "connect"}
    BY <1>2, HopPreserves DEF Sync!Request
  <2>2. SyncRequestInv'
    BY <1>0, <1>2, <2>1 DEF Sync!Request, SyncRequestInv, SyncActive, Sync!RestErrors
  <2> QED
    BY <2>1, <2>2
<1>3. CASE Sync!Resolved
  <2>1. SyncTimeInv'
    BY <1>0, <1>3 DEF Sync!Resolved, SyncTimeInv, Sync!StaleBounded
  <2>2. SyncRequestInv'
    BY <1>3 DEF Sync!Resolved, SyncRequestInv, SyncActive, Sync!RestErrors, Sync!request
  <2> QED
    BY <2>1, <2>2
<1>4. CASE Sync!Connected \/ Sync!ShookHands
  <2>1. SyncTimeInv'
    BY <1>4 DEF Sync!Connected, Sync!ShookHands, SyncTimeInv, Sync!StaleBounded
  <2>2. SyncRequestInv'
    BY <1>4 DEF Sync!Connected, Sync!ShookHands, SyncRequestInv, SyncActive, Sync!RestErrors,
       Sync!request
  <2> QED
    BY <2>1, <2>2
<1>5. CASE Sync!Throws
  <2>1. SyncTimeInv'
    BY <1>5 DEF Sync!Throws, Sync!Ends, SyncTimeInv, Sync!StaleBounded
  <2>2. SyncRequestInv'
    BY <1>5 DEF Sync!Throws, Sync!Ends, SyncRequestInv, SyncActive, Sync!RestErrors
  <2> QED
    BY <2>1, <2>2
<1>6. ASSUME NEW a \in Sync!Answers, Sync!Answer(a) PROVE SyncIInv'
  <2>1. step = "exchange" /\ clock' = clock /\ result = "none"
    BY <1>6 DEF Sync!Answer, SyncRequestInv, SyncActive, Sync!RestErrors
  <2>2. CASE \/ Sync!Ends("answer", FALSE) \/ Sync!Ends("CrossHostRedirect", TRUE)
    <3>1. step' = "idle" /\ result' # "none"
      BY <2>2 DEF Sync!Ends
    <3>2. UNCHANGED <<redirectCount, hopBegan, resolvedAt, fresh>>
      BY <1>6, <2>1, <2>2 DEF Sync!Answer, Sync!Ends, Sync!ensureEndpointsFresh
    <3>3. SyncTimeInv'
      BY <2>1, <3>1, <3>2 DEF SyncTimeInv, Sync!StaleBounded
    <3>4. SyncRequestInv'
      BY <3>1, <3>2 DEF SyncRequestInv, SyncActive, Sync!RestErrors
    <3> QED
      BY <3>3, <3>4
  <2>3. CASE /\ Sync!isRedirect(a)
             /\ redirectCount' = redirectCount + 1
             /\ hopBegan' = clock
             /\ Sync!ensureEndpointsFresh
             /\ UNCHANGED <<todo, result>>
    <3>1. SyncTimeInv' /\ step' \in {"resolve", "connect"}
      BY <2>1, <2>3, HopPreserves
    <3>2. redirectCount' \in 0..MaxRedirects
      BY <1>0, <2>3 DEF Sync!isRedirect, SyncRequestInv
    <3>3. SyncRequestInv'
      BY <2>1, <2>3, <3>1, <3>2 DEF SyncRequestInv, SyncActive, Sync!RestErrors
    <3> QED
      BY <3>1, <3>3
  <2> QED
    BY <1>6, <2>2, <2>3 DEF Sync!Answer
<1>7. CASE Sync!Tick
  <2>1. SyncTimeInv'
    BY <1>7 DEF Sync!Tick, SyncTimeInv, Sync!StaleBounded
  <2>2. SyncRequestInv'
    BY <1>7 DEF Sync!Tick, SyncRequestInv, SyncActive, Sync!request
  <2> QED
    BY <2>1, <2>2
<1>8. CASE UNCHANGED Sync!vars
  BY <1>8 DEF Sync!vars, Sync!request, SyncTimeInv, SyncRequestInv, SyncActive, Sync!StaleBounded
<1> QED
  BY <1>1, <1>2, <1>3, <1>4, <1>5, <1>6, <1>7, <1>8 DEF Sync!Next

\* The inductive invariant of the synchronous client.
THEOREM SyncInductiveInvariant ==
  ASSUME DnsTtl \in Nat
  PROVE  Sync!Spec => []SyncIInv
<1>1. Sync!Init => SyncIInv
  BY SyncInitIInv
<1> QED
  BY <1>1, SyncNextIInv, PTL DEF Sync!Spec

\* No hop uses endpoints asked for more than DnsTtl before it began.
THEOREM EndpointsFresh ==
  ASSUME DnsTtl \in Nat
  PROVE  Sync!Spec => []Sync!StaleBounded
<1>1. SyncIInv => Sync!StaleBounded
  BY DEF SyncIInv, SyncTimeInv
<1> QED
  BY <1>1, SyncInductiveInvariant, PTL

\* Between the moment a request is made and its result, every step that is seen
\* in its variables is one RedirectChain allows: at most MaxRedirects redirects
\* are followed, of the client's own host, a 303 alone changes the method, and
\* an unfollowed redirect is returned only at the limit.
THEOREM SyncChainImplemented ==
  ASSUME DnsTtl \in Nat
  PROVE  Sync!Spec => Sync!ImplementsChain
<1> DEFINE chainVars == <<method, redirectCount, answer, result>>
<1>1. SyncIInv /\ [Sync!Next]_(Sync!vars) => [result # "none" \/ Sync!Chain!Next]_chainVars
  <2> SUFFICES ASSUME SyncIInv, [Sync!Next]_(Sync!vars), result = "none", chainVars' # chainVars
               PROVE  Sync!Chain!Next
    OBVIOUS
  <2> USE DEF SyncIInv
  <2>1. CASE Sync!Request
    <3>1. method = Head(todo) /\ redirectCount = 0 /\ answer = Sync!NoAnswer
      BY <2>1 DEF Sync!Request, SyncRequestInv, SyncActive, Sync!RestErrors
    <3> QED
      BY <2>1, <3>1 DEF Sync!Request
  <2>2. CASE Sync!Throws
    BY <2>2 DEF Sync!Throws, Sync!Ends, Sync!Chain!Next, Sync!Chain!Fail
  <2>3. ASSUME NEW a \in Sync!Answers, Sync!Answer(a) PROVE Sync!Chain!Next
    <3>1. a \in Sync!Chain!Answers /\ redirectCount \in 0..MaxRedirects /\ MaxRedirects \in Nat
      BY PoolAssumption DEF Sync!Answers, Sync!Chain!Answers, SyncRequestInv
    <3>2. CASE ~Sync!isRedirect(a) /\ Sync!Ends("answer", FALSE)
               /\ UNCHANGED <<method, redirectCount>>
      <4>1. Sync!Chain!Return(a)
        BY <2>3, <3>1, <3>2 DEF Sync!Answer, Sync!isRedirect, Sync!Ends, Sync!Chain!Return,
           Sync!Chain!Redirects
      <4> QED
        BY <3>1, <4>1 DEF Sync!Chain!Next
    <3>3. CASE Sync!isRedirect(a) /\ a.location = "elsewhere"
               /\ Sync!Ends("CrossHostRedirect", TRUE)
               /\ UNCHANGED <<method, redirectCount>>
      <4>1. Sync!Chain!Refuse(a)
        BY <2>3, <3>1, <3>3 DEF Sync!Answer, Sync!isRedirect, Sync!Ends, Sync!Chain!Refuse,
           Sync!Chain!Redirects
      <4> QED
        BY <3>1, <4>1 DEF Sync!Chain!Next
    <3>4. CASE /\ Sync!isRedirect(a) /\ a.location = "here"
               /\ method' = IF a.status = "303" THEN "GET" ELSE method
               /\ redirectCount' = redirectCount + 1
               /\ UNCHANGED result
      <4>1. Sync!Chain!Follow(a)
        BY <2>3, <3>1, <3>4 DEF Sync!Answer, Sync!isRedirect, Sync!Chain!Follow,
           Sync!Chain!Redirects
      <4> QED
        BY <3>1, <4>1 DEF Sync!Chain!Next
    <3> QED
      BY <2>3, <3>2, <3>3, <3>4 DEF Sync!Answer
  <2>4. CASE Sync!Construct \/ Sync!Resolved \/ Sync!Connected \/ Sync!ShookHands
             \/ Sync!Tick \/ UNCHANGED Sync!vars
    BY <2>4 DEF Sync!Construct, Sync!Resolved, Sync!Connected, Sync!ShookHands, Sync!Tick,
       Sync!request, Sync!vars
  <2> QED
    BY <2>1, <2>2, <2>3, <2>4 DEF Sync!Next
<1> QED
  BY <1>1, SyncInductiveInvariant, PTL DEF Sync!Spec, Sync!ImplementsChain
=============================================================================
