--------------------------- MODULE ConnectorProofs ---------------------------
(***************************************************************************)
(* Proofs about the connector, for any number of calls of startDepth and   *)
(* of messages, and about the snapshot request beside it.                  *)
(***************************************************************************)
EXTENDS Connector, TLAPS

Steps == {"resolve", "connect", "tlsHandshake", "handshake", "subscribe", "read"}

\* Every session started was stopped, except the one the connector has.
OwnerInv ==
  \A s \in Sessions :
    /\ stoppedAt[s] = "no" <=> s > starts \/ s = depthClient
    /\ s > starts => socket[s] = "unopened" /\ opResult[s] = "running"

\* A session has a socket once it has resolved.  stop closed that one, unless
\* the session was resolving; a session never resolves twice.
SocketInv ==
  \A s \in Sessions :
    /\ op[s] \in Steps \ {"resolve"} => socket[s] # "unopened"
    /\ stoppedAt[s] \notin {"no", "resolve"} =>
         op[s] # "resolve" /\ (op[s] = "ended" \/ socket[s] = "closed")

\* A stopped session gives what it held or still holds it, and a session stopped
\* before its subscription has come one operation further at most, which fails.
LateOk(s) ==
  /\ late[s] + unread[s] <= messages
  /\ stoppedAt[s] = "no" => late[s] = 0
  /\ op[s] = "read" /\ opResult[s] = "ok" => unread[s] > 0
  /\ stoppedAt[s] \notin {"no", "resolve"} => late[s] + unread[s] <= held[s]
  /\ stoppedAt[s] \notin {"no", "resolve", "subscribe", "read"} =>
       /\ late[s] = 0
       /\ \/ op[s] \in {stoppedAt[s], "ended"}
          \/ /\ stoppedAt[s] \in Steps
             /\ op[s] = FollowedBy[stoppedAt[s]] /\ opResult[s] # "ok"

LateInv == \A s \in Sessions : LateOk(s)

StreamInv == TypeOK /\ OwnerInv /\ SocketInv /\ LateInv

\* There is a response while the handler of the read has yet to run, and after it.
SnapshotInv ==
  /\ SnapshotReported
  /\ snapshotOp # "ended" =>
       (response # "none" <=> snapshotOp = "read" /\ snapshotResult = "ok")

IInv == StreamInv /\ SnapshotInv

-----------------------------------------------------------------------------
\* What the table of the sessions' steps contains.
LEMMA StepsAre ==
  /\ Operations = Steps
  /\ \A o \in Steps : FollowedBy[o] \in Steps \ {"resolve"}
  /\ \A o \in Steps : FollowedBy[o] = "read" => o \in {"subscribe", "read"}
BY DEF Operations, FollowedBy, Steps

\* What stop changes, session by session.
LEMMA StopSessionFacts ==
  ASSUME StreamInv, StopSession, NEW s \in Sessions
  PROVE  /\ socket' \in [Sessions -> {"unopened", "open", "closed"}]
         /\ stoppedAt' \in [Sessions -> Operations \cup {"no", "ended"}]
         /\ held' \in [Sessions -> 0..MaxMessages]
         /\ s # depthClient => /\ socket'[s] = socket[s] /\ stoppedAt'[s] = stoppedAt[s]
                               /\ held'[s] = held[s]
         /\ s = depthClient => /\ stoppedAt'[s] = op[s] /\ op[s] # "none"
                               /\ socket'[s] = Closed(s) /\ held'[s] = unread[s]
<1>1. /\ socket \in [Sessions -> {"unopened", "open", "closed"}]
      /\ stoppedAt \in [Sessions -> Operations \cup {"no", "ended"}]
      /\ held \in [Sessions -> 0..MaxMessages] /\ unread \in [Sessions -> 0..MaxMessages]
      /\ op \in [Sessions -> Operations \cup {"none", "ended"}]
      /\ depthClient \in 0..starts /\ starts \in 0..MaxStarts
      /\ \A r \in Sessions : op[r] = "none" <=> r > starts
  BY DEF StreamInv, TypeOK
<1>2. CASE depthClient = 0
  <2>1. s # depthClient
    BY <1>2, BoundsAssumption DEF Sessions
  <2> QED
    BY <1>1, <1>2, <2>1 DEF StopSession, stopVars
<1>3. CASE depthClient # 0
  <2>1. depthClient \in Sessions /\ ~(depthClient > starts)
    BY <1>1, <1>3, BoundsAssumption DEF Sessions
  <2>2. op[depthClient] \in Operations \cup {"no", "ended"}
    BY <1>1, <2>1
  <2>3. /\ socket' = [socket EXCEPT ![depthClient] = Closed(depthClient)]
        /\ stoppedAt' = [stoppedAt EXCEPT ![depthClient] = op[depthClient]]
        /\ held' = [held EXCEPT ![depthClient] = unread[depthClient]]
    BY <1>3 DEF StopSession, Stopped
  <2>4. Closed(depthClient) \in {"unopened", "open", "closed"}
    BY <1>1, <2>1 DEF Closed
  <2> QED
    BY <1>1, <2>1, <2>2, <2>3, <2>4
<1> QED
  BY <1>2, <1>3

\* A session that is stopped now is as SocketInv and LateInv want it.
LEMMA StoppedNow ==
  ASSUME StreamInv, StopSession, NEW s \in Sessions, s = depthClient,
         op'[s] = op[s], UNCHANGED <<opResult, unread, countVars>>
  PROVE  /\ stoppedAt'[s] # "no"
         /\ stoppedAt'[s] # "resolve" =>
              op[s] # "resolve" /\ (op[s] = "ended" \/ socket'[s] = "closed")
         /\ op[s] \in Steps \ {"resolve"} => socket'[s] # "unopened"
         /\ LateOk(s)'
<1>1. /\ stoppedAt'[s] = op[s] /\ op[s] # "none" /\ socket'[s] = Closed(s)
      /\ held'[s] = unread[s]
      /\ op[s] \in Steps \cup {"ended"} /\ socket[s] \in {"unopened", "open", "closed"}
  BY StopSessionFacts, StepsAre DEF StreamInv, TypeOK
<1>2. /\ stoppedAt[s] = "no" /\ late[s] = 0 /\ late[s] + unread[s] <= messages
      /\ op[s] = "read" /\ opResult[s] = "ok" => unread[s] > 0
      /\ unread[s] \in Nat
  BY BoundsAssumption DEF StreamInv, TypeOK, OwnerInv, LateInv, LateOk
<1>3. op[s] \in Steps \ {"resolve"} => socket[s] # "unopened"
  BY DEF StreamInv, SocketInv
<1>4. LateOk(s)'
  BY <1>1, <1>2 DEF LateOk, countVars
<1> QED
  BY <1>1, <1>3, <1>4 DEF Closed, Steps

\* startDepth: the stream the connector had, if any, is stopped; a new session
\* resolves.
LEMMA StartDepthPreserves ==
  ASSUME StreamInv, StartDepth
  PROVE  StreamInv'
<1> DEFINE n == starts + 1
<1>1. /\ starts \in Nat /\ MaxStarts \in Nat /\ starts < MaxStarts /\ n \in Sessions
      /\ depthClient \in 0..starts /\ depthHandler = depthClient
      /\ op \in [Sessions -> Operations \cup {"none", "ended"}]
  BY BoundsAssumption DEF StreamInv, TypeOK, StartDepth, Sessions
<1>2. /\ starts' = n /\ depthClient' = n /\ depthHandler' = n
      /\ op' = [op EXCEPT ![n] = "resolve"]
      /\ UNCHANGED <<opResult, unread, countVars>> /\ UNCHANGED <<late, messages>>
  BY DEF StartDepth, countVars
<1>3. StopSession
  BY DEF StartDepth
<1>4. /\ n > starts /\ n # depthClient /\ op'[n] = "resolve"
      /\ \A s \in Sessions : s # n => op'[s] = op[s]
  BY <1>1, <1>2
<1>6. socket'[n] = "unopened" /\ stoppedAt'[n] = "no"
  BY <1>1, <1>3, <1>4, StopSessionFacts DEF StreamInv, OwnerInv
<1>7. TypeOK'
  <2>1. op' \in [Sessions -> Operations \cup {"none", "ended"}]
    BY <1>1, <1>2, StepsAre DEF Steps
  <2>2. /\ socket' \in [Sessions -> {"unopened", "open", "closed"}]
        /\ stoppedAt' \in [Sessions -> Operations \cup {"no", "ended"}]
        /\ held' \in [Sessions -> 0..MaxMessages]
    BY <1>1, <1>3, StopSessionFacts
  <2>3. \A s \in Sessions : op'[s] = "none" <=> s > starts'
    <3> TAKE s \in Sessions
    <3>1. CASE s = n
      BY <1>1, <1>2, <1>4, <3>1
    <3>2. CASE s # n
      <4>1. s > starts' <=> s > starts
        BY <1>1, <1>2, <3>2 DEF Sessions
      <4> QED
        BY <1>4, <3>2, <4>1 DEF StreamInv, TypeOK
    <3> QED
      BY <3>1, <3>2
  <2>4. \A s \in Sessions : op'[s] = "resolve" => socket'[s] = "unopened"
    <3> TAKE s \in Sessions
    <3>1. CASE s = n
      BY <1>6, <3>1
    <3>2. CASE s # n
      BY <1>3, <1>4, <3>2, StopSessionFacts DEF StreamInv, TypeOK, Closed
    <3> QED
      BY <3>1, <3>2
  <2> QED
    BY <1>1, <1>2, <2>1, <2>2, <2>3, <2>4 DEF StreamInv, TypeOK
<1>8. OwnerInv'
  <2> SUFFICES ASSUME NEW s \in Sessions
               PROVE  /\ stoppedAt'[s] = "no" <=> s > starts' \/ s = depthClient'
                      /\ s > starts' => socket'[s] = "unopened" /\ opResult'[s] = "running"
    BY DEF OwnerInv
  <2>1. CASE s = n
    BY <1>1, <1>2, <1>6, <2>1
  <2>2. CASE s = depthClient
    BY <1>1, <1>2, <1>3, <2>2, StoppedNow DEF Sessions
  <2>3. CASE s # n /\ s # depthClient
    <3>1. s > starts' <=> s > starts
      BY <1>1, <1>2, <2>3 DEF Sessions
    <3>2. socket'[s] = socket[s] /\ stoppedAt'[s] = stoppedAt[s] /\ opResult' = opResult
      BY <1>2, <1>3, <2>3, StopSessionFacts
    <3> QED
      BY <1>2, <2>3, <3>1, <3>2 DEF StreamInv, OwnerInv
  <2> QED
    BY <2>1, <2>2, <2>3
<1>9. SocketInv' /\ LateInv'
  <2> SUFFICES ASSUME NEW s \in Sessions
               PROVE  /\ op'[s] \in Steps \ {"resolve"} => socket'[s] # "unopened"
                      /\ stoppedAt'[s] \notin {"no", "resolve"} =>
                           op'[s] # "resolve" /\ (op'[s] = "ended" \/ socket'[s] = "closed")
                      /\ LateOk(s)'
    BY DEF SocketInv, LateInv
  <2>0. LateOk(s)
    BY DEF StreamInv, LateInv
  <2>1. CASE s = n
    <3>1. stoppedAt[s] = "no"
      BY <1>1, <1>4, <2>1 DEF StreamInv, OwnerInv
    <3>2. LateOk(s)'
      BY <1>2, <1>4, <1>6, <2>0, <2>1, <3>1 DEF LateOk
    <3> QED
      BY <1>4, <1>6, <2>1, <3>2 DEF Steps
  <2>2. CASE s = depthClient
    <3>1. op'[s] = op[s]
      BY <1>4, <2>2
    <3> QED
      BY <1>2, <1>3, <2>2, <3>1, StoppedNow
  <2>3. CASE s # n /\ s # depthClient
    <3>1. /\ op'[s] = op[s] /\ socket'[s] = socket[s] /\ stoppedAt'[s] = stoppedAt[s]
          /\ held'[s] = held[s]
      BY <1>3, <1>4, <2>3, StopSessionFacts
    <3>2. LateOk(s)'
      BY <1>2, <2>0, <3>1 DEF LateOk
    <3> QED
      BY <3>1, <3>2 DEF StreamInv, SocketInv
  <2> QED
    BY <2>1, <2>2, <2>3
<1> QED
  BY <1>7, <1>8, <1>9 DEF StreamInv

\* stopDepth closes the socket of the session it has, or leaves a resolving
\* one ownerless.
LEMMA StopDepthPreserves ==
  ASSUME StreamInv, StopDepth
  PROVE  StreamInv'
<1>1. /\ starts \in Nat /\ MaxStarts \in Nat /\ depthClient \in 1..starts
  BY BoundsAssumption DEF StreamInv, TypeOK, StopDepth
<1>2. /\ depthClient' = 0 /\ depthHandler' = 0 /\ StopSession
      /\ UNCHANGED <<starts, op, opResult, unread, countVars>> /\ UNCHANGED <<late, messages>>
  BY DEF StopDepth, countVars
<1>4. TypeOK'
  <2>1. /\ socket' \in [Sessions -> {"unopened", "open", "closed"}]
        /\ stoppedAt' \in [Sessions -> Operations \cup {"no", "ended"}]
        /\ held' \in [Sessions -> 0..MaxMessages]
    <3>1. depthClient \in Sessions
      BY <1>1 DEF StreamInv, TypeOK, Sessions
    <3> QED
      BY <1>2, <3>1, StopSessionFacts
  <2>2. \A s \in Sessions : op'[s] = "resolve" => socket'[s] = "unopened"
    BY <1>2, StopSessionFacts DEF StreamInv, TypeOK, Closed
  <2> QED
    BY <1>1, <1>2, <2>1, <2>2 DEF StreamInv, TypeOK
<1>5. OwnerInv'
  <2> SUFFICES ASSUME NEW s \in Sessions
               PROVE  /\ stoppedAt'[s] = "no" <=> s > starts' \/ s = depthClient'
                      /\ s > starts' => socket'[s] = "unopened" /\ opResult'[s] = "running"
    BY DEF OwnerInv
  <2>1. CASE s = depthClient
    BY <1>1, <1>2, <2>1, StoppedNow
  <2>2. CASE s # depthClient
    BY <1>1, <1>2, <2>2, StopSessionFacts DEF StreamInv, OwnerInv, Sessions
  <2> QED
    BY <2>1, <2>2
<1>6. SocketInv' /\ LateInv'
  <2> SUFFICES ASSUME NEW s \in Sessions
               PROVE  /\ op'[s] \in Steps \ {"resolve"} => socket'[s] # "unopened"
                      /\ stoppedAt'[s] \notin {"no", "resolve"} =>
                           op'[s] # "resolve" /\ (op'[s] = "ended" \/ socket'[s] = "closed")
                      /\ LateOk(s)'
    BY DEF SocketInv, LateInv
  <2>1. CASE s = depthClient
    BY <1>2, <2>1, StoppedNow
  <2>2. CASE s # depthClient
    <3>1. /\ socket'[s] = socket[s] /\ stoppedAt'[s] = stoppedAt[s]
          /\ held'[s] = held[s]
      BY <1>2, <2>2, StopSessionFacts
    <3>2. LateOk(s)'
      BY <1>2, <3>1 DEF StreamInv, LateInv, LateOk
    <3> QED
      BY <1>2, <3>1, <3>2 DEF StreamInv, SocketInv
  <2> QED
    BY <2>1, <2>2
<1> QED
  BY <1>4, <1>5, <1>6 DEF StreamInv

-----------------------------------------------------------------------------
\* A callback of session s, or the end of its operation, leaves every other
\* session alone.
LEMMA SessionPreserves ==
  ASSUME StreamInv, NEW s \in Sessions, op[s] \in Steps,
         op' = [op EXCEPT ![s] = op'[s]], op'[s] \in Steps \cup {"ended"},
         opResult' = [opResult EXCEPT ![s] = opResult'[s]],
         opResult'[s] \in {"running", "ok", "failed"},
         socket' = [socket EXCEPT ![s] = socket'[s]],
         socket'[s] \in {"unopened", "open", "closed"},
         late' = [late EXCEPT ![s] = late'[s]], late'[s] \in 0..MaxMessages,
         unread' = [unread EXCEPT ![s] = unread'[s]], unread'[s] \in 0..MaxMessages,
         messages' \in messages..MaxMessages,
         UNCHANGED <<starts, depthClient, depthHandler, stopVars>>,
         op'[s] = "resolve" => op[s] = "resolve" /\ socket'[s] = "unopened",
         op'[s] \in Steps \ {"resolve"} => socket'[s] # "unopened",
         socket[s] = "closed" => op'[s] = "ended" \/ socket'[s] = "closed",
         LateOk(s)'
  PROVE  StreamInv'
<1>0. /\ op \in [Sessions -> Operations \cup {"none", "ended"}]
      /\ opResult \in [Sessions -> {"running", "ok", "failed"}]
      /\ socket \in [Sessions -> {"unopened", "open", "closed"}]
      /\ late \in [Sessions -> 0..MaxMessages] /\ unread \in [Sessions -> 0..MaxMessages]
      /\ starts \in 0..MaxStarts /\ messages \in 0..MaxMessages /\ MaxMessages \in Nat
      /\ ~(s > starts) /\ UNCHANGED <<stoppedAt, held>>
  BY StepsAre, BoundsAssumption DEF StreamInv, TypeOK, Steps, stopVars
<1>1. \A r \in Sessions : r # s =>
        /\ op'[r] = op[r] /\ opResult'[r] = opResult[r]
        /\ socket'[r] = socket[r] /\ late'[r] = late[r] /\ unread'[r] = unread[r]
  BY <1>0
<1>3. TypeOK'
  <2>1. /\ op' \in [Sessions -> Operations \cup {"none", "ended"}]
        /\ opResult' \in [Sessions -> {"running", "ok", "failed"}]
        /\ socket' \in [Sessions -> {"unopened", "open", "closed"}]
        /\ late' \in [Sessions -> 0..MaxMessages] /\ unread' \in [Sessions -> 0..MaxMessages]
        /\ messages' \in 0..MaxMessages
    BY <1>0, StepsAre, BoundsAssumption
  <2>2. ASSUME NEW r \in Sessions PROVE op'[r] = "none" <=> r > starts'
    <3>1. CASE r = s
      BY <1>0, <1>1, <3>1 DEF Steps
    <3>2. CASE r # s
      BY <1>1, <3>2 DEF StreamInv, TypeOK
    <3> QED
      BY <3>1, <3>2
  <2>3. ASSUME NEW r \in Sessions PROVE op'[r] = "resolve" => socket'[r] = "unopened"
    <3>1. CASE r = s
      BY <1>1, <3>1
    <3>2. CASE r # s
      BY <1>1, <3>2 DEF StreamInv, TypeOK
    <3> QED
      BY <3>1, <3>2
  <2> QED
    BY <1>0, <2>1, <2>2, <2>3 DEF StreamInv, TypeOK
<1>4. OwnerInv'
  <2> SUFFICES ASSUME NEW r \in Sessions
               PROVE  /\ stoppedAt'[r] = "no" <=> r > starts' \/ r = depthClient'
                      /\ r > starts' => socket'[r] = "unopened" /\ opResult'[r] = "running"
    BY DEF OwnerInv
  <2>1. CASE r = s
    BY <1>0, <2>1 DEF StreamInv, OwnerInv
  <2>2. CASE r # s
    BY <1>0, <1>1, <2>2 DEF StreamInv, OwnerInv
  <2> QED
    BY <2>1, <2>2
<1>5. SocketInv' /\ LateInv'
  <2> SUFFICES ASSUME NEW r \in Sessions
               PROVE  /\ op'[r] \in Steps \ {"resolve"} => socket'[r] # "unopened"
                      /\ stoppedAt'[r] \notin {"no", "resolve"} =>
                           op'[r] # "resolve" /\ (op'[r] = "ended" \/ socket'[r] = "closed")
                      /\ LateOk(r)'
    BY DEF SocketInv, LateInv
  <2>1. CASE r = s
    <3>1. stoppedAt[s] \notin {"no", "resolve"} => op[s] # "resolve" /\ socket[s] = "closed"
      BY DEF StreamInv, SocketInv, Steps
    <3> QED
      BY <1>0, <2>1, <3>1
  <2>2. CASE r # s
    <3>1. late[r] \in Nat /\ unread[r] \in Nat /\ LateOk(r)
      BY <1>0 DEF StreamInv, LateInv
    <3>2. late[r] + unread[r] <= messages'
      BY <1>0, <3>1 DEF LateOk
    <3>3. LateOk(r)'
      BY <1>0, <1>1, <2>2, <3>1, <3>2 DEF LateOk
    <3> QED
      BY <1>0, <1>1, <2>2, <3>3 DEF StreamInv, SocketInv
  <2> QED
    BY <2>1, <2>2
<1> QED
  BY <1>3, <1>4, <1>5 DEF StreamInv

\* What the invariant says of a session with an operation outstanding.
LEMMA ReadyFacts ==
  ASSUME StreamInv, NEW s \in Sessions, op[s] \in Steps
  PROVE  /\ socket = [socket EXCEPT ![s] = socket[s]] /\ late = [late EXCEPT ![s] = late[s]]
         /\ op = [op EXCEPT ![s] = op[s]] /\ opResult = [opResult EXCEPT ![s] = opResult[s]]
         /\ unread = [unread EXCEPT ![s] = unread[s]]
         /\ opResult[s] \in {"running", "ok", "failed"}
         /\ socket[s] \in {"unopened", "open", "closed"}
         /\ late[s] \in 0..MaxMessages /\ unread[s] \in 0..MaxMessages
         /\ messages \in 0..MaxMessages /\ MaxMessages \in Nat
         /\ op[s] = "resolve" <=> socket[s] = "unopened"
         /\ stoppedAt[s] \notin {"no", "resolve"} => op[s] # "resolve" /\ socket[s] = "closed"
         /\ LateOk(s)
<1>1. /\ op \in [Sessions -> Operations \cup {"none", "ended"}]
      /\ opResult \in [Sessions -> {"running", "ok", "failed"}]
      /\ socket \in [Sessions -> {"unopened", "open", "closed"}]
      /\ late \in [Sessions -> 0..MaxMessages] /\ unread \in [Sessions -> 0..MaxMessages]
      /\ messages \in 0..MaxMessages /\ MaxMessages \in Nat
  BY BoundsAssumption DEF StreamInv, TypeOK
<1>2. op[s] = "resolve" <=> socket[s] = "unopened"
  BY DEF StreamInv, TypeOK, SocketInv, Steps
<1>3. stoppedAt[s] \notin {"no", "resolve"} => op[s] # "resolve" /\ socket[s] = "closed"
  BY DEF StreamInv, SocketInv, Steps
<1> QED
  BY <1>1, <1>2, <1>3 DEF StreamInv, LateInv

\* A callback that ends the session, or begins the operation after the one that
\* ended well, hands nothing to a handler.
LEMMA NothingLate ==
  ASSUME StreamInv, NEW s \in Sessions, op[s] \in Steps,
         UNCHANGED <<unread, stopVars, countVars>>, opResult'[s] = "running",
         \/ op'[s] = "ended"
         \/ op[s] # "read" /\ opResult[s] = "ok" /\ op'[s] = FollowedBy[op[s]]
  PROVE  /\ late' = [late EXCEPT ![s] = late'[s]] /\ late'[s] \in 0..MaxMessages
         /\ unread' = [unread EXCEPT ![s] = unread'[s]] /\ unread'[s] \in 0..MaxMessages
         /\ messages' \in messages..MaxMessages
         /\ LateOk(s)'
<1>1. UNCHANGED <<unread, stoppedAt, held, late, messages>>
  BY DEF stopVars, countVars
<1>2. LateOk(s)'
  BY <1>1, ReadyFacts DEF LateOk, Steps
<1> QED
  BY <1>1, <1>2, ReadyFacts

\* ... and leaves the socket as it is.
LEMMA SocketKept ==
  ASSUME StreamInv, NEW s \in Sessions, op[s] \in Steps, UNCHANGED socket
  PROVE  /\ socket' = [socket EXCEPT ![s] = socket'[s]]
         /\ socket'[s] \in {"unopened", "open", "closed"}
         /\ op[s] = "resolve" <=> socket'[s] = "unopened"
         /\ socket[s] = "closed" => socket'[s] = "closed"
BY ReadyFacts

\* A callback of any session.
LEMMA CallbackPreserves ==
  ASSUME StreamInv, NEW s \in Sessions, Callback(s)
  PROVE  StreamInv'
<1>1. op[s] \in Steps
  BY StepsAre DEF Callback, OnError, OnResolve, OnConnected, OnHandshake, OnMessage, Ready
<1>2. /\ op \in [Sessions -> Operations \cup {"none", "ended"}]
      /\ opResult \in [Sessions -> {"running", "ok", "failed"}]
      /\ socket \in [Sessions -> {"unopened", "open", "closed"}]
      /\ late \in [Sessions -> 0..MaxMessages] /\ unread \in [Sessions -> 0..MaxMessages]
  BY DEF StreamInv, TypeOK
<1>3. CASE OnError(s)
  <2>1. /\ op' = [op EXCEPT ![s] = "ended"] /\ opResult' = [opResult EXCEPT ![s] = "running"]
        /\ op'[s] = "ended" /\ opResult'[s] = "running"
        /\ UNCHANGED <<connectorVars, socket, unread, stopVars, countVars>>
    BY <1>2, <1>3 DEF OnError, Follow
  <2> QED
    BY <1>1, <2>1, NothingLate, SocketKept, SessionPreserves DEF connectorVars, Steps
<1>4. CASE OnResolve(s)
  <2>1. /\ op' = [op EXCEPT ![s] = "connect"] /\ opResult' = [opResult EXCEPT ![s] = "running"]
        /\ socket' = [socket EXCEPT ![s] = "open"] /\ socket'[s] = "open"
        /\ op'[s] = "connect" /\ opResult'[s] = "running"
        /\ UNCHANGED <<connectorVars, unread, stopVars, countVars>>
        /\ op[s] = "resolve" /\ opResult[s] = "ok" /\ FollowedBy[op[s]] = "connect"
    BY <1>2, <1>4 DEF OnResolve, Ready, Follow, FollowedBy
  <2>2. socket[s] = "unopened"
    BY <1>1, <2>1, ReadyFacts
  <2> QED
    BY <1>1, <2>1, <2>2, NothingLate, SessionPreserves DEF connectorVars, Steps
<1>5. CASE OnConnected(s)
  <2>1. /\ opResult' = [opResult EXCEPT ![s] = "running"] /\ opResult'[s] = "running"
        /\ UNCHANGED <<connectorVars, unread, stopVars, countVars>>
        /\ op[s] = "connect" /\ opResult[s] = "ok" /\ FollowedBy[op[s]] = "tlsHandshake"
    BY <1>2, <1>5 DEF OnConnected, Ready, Follow, FollowedBy
  <2>2. \/ /\ op' = [op EXCEPT ![s] = "tlsHandshake"] /\ op'[s] = "tlsHandshake"
           /\ UNCHANGED socket
        \/ /\ op' = [op EXCEPT ![s] = "ended"] /\ op'[s] = "ended"
           /\ socket' = [socket EXCEPT ![s] = Closed(s)] /\ socket'[s] = Closed(s)
    BY <1>2, <1>5 DEF OnConnected, Follow
  <2>3. CASE op'[s] = "tlsHandshake" /\ op' = [op EXCEPT ![s] = "tlsHandshake"] /\ UNCHANGED socket
    BY <1>1, <2>1, <2>3, NothingLate, SocketKept, SessionPreserves DEF connectorVars, Steps
  <2>4. CASE /\ op' = [op EXCEPT ![s] = "ended"] /\ op'[s] = "ended"
             /\ socket' = [socket EXCEPT ![s] = Closed(s)] /\ socket'[s] = Closed(s)
    <3>1. socket'[s] \in {"unopened", "open", "closed"}
      BY <1>1, <2>4, ReadyFacts DEF Closed
    <3> QED
      BY <1>1, <2>1, <2>4, <3>1, NothingLate, SessionPreserves DEF connectorVars, Steps
  <2> QED
    BY <2>2, <2>3, <2>4
<1>6. CASE OnHandshake(s)
  <2>1. /\ op' = [op EXCEPT ![s] = FollowedBy[op[s]]] /\ op'[s] = FollowedBy[op[s]]
        /\ opResult' = [opResult EXCEPT ![s] = "running"] /\ opResult'[s] = "running"
        /\ UNCHANGED <<connectorVars, socket, unread, stopVars, countVars>>
        /\ op[s] # "resolve" /\ op[s] # "read" /\ opResult[s] = "ok"
    BY <1>2, <1>6 DEF OnHandshake, Ready, Follow
  <2>2. op'[s] \in Steps \ {"resolve"}
    BY <1>1, <2>1, StepsAre
  <2> QED
    BY <1>1, <2>1, <2>2, NothingLate, SocketKept, SessionPreserves DEF connectorVars
<1>7. ASSUME NEW isUpdate \in BOOLEAN, OnMessage(s, isUpdate) PROVE StreamInv'
  <2>1. /\ op[s] = "read" /\ opResult[s] = "ok"
        /\ op' = [op EXCEPT ![s] = "read"] /\ op'[s] = "read"
        /\ opResult' = [opResult EXCEPT ![s] = "running"] /\ opResult'[s] = "running"
        /\ unread' = [unread EXCEPT ![s] = unread[s] - 1] /\ unread'[s] = unread[s] - 1
        /\ UNCHANGED <<connectorVars, socket, stopVars, messages>>
    BY <1>2, <1>7 DEF OnMessage, Ready, Follow
  <2>2. \/ late' = late
        \/ late' = [late EXCEPT ![s] = late[s] + 1] /\ late'[s] = late[s] + 1
           /\ stoppedAt[s] # "no"
    BY <1>2, <1>7 DEF OnMessage
  <2>3. late'[s] \in {late[s], late[s] + 1} /\ late' = [late EXCEPT ![s] = late'[s]]
        /\ (stoppedAt[s] = "no" => late'[s] = late[s])
    BY <1>1, <2>2, ReadyFacts
  <2>4. /\ LateOk(s) /\ unread[s] > 0 /\ late[s] + unread[s] <= messages
        /\ stoppedAt[s] \in {"no", "resolve", "subscribe", "read"}
    BY <1>1, <2>1, ReadyFacts, StepsAre DEF LateOk, Steps
  <2>5. late'[s] \in 0..MaxMessages /\ unread'[s] \in 0..MaxMessages
        /\ messages' \in messages..MaxMessages
    BY <1>1, <2>1, <2>3, <2>4, ReadyFacts
  <2>6. late'[s] + unread'[s] <= late[s] + unread[s]
    BY <1>1, <2>1, <2>3, ReadyFacts
  <2>7. UNCHANGED <<stoppedAt, held>> /\ (stoppedAt[s] \notin {"no", "resolve"} => held[s] \in Nat)
    BY <2>1, BoundsAssumption DEF stopVars, StreamInv, TypeOK
  <2>8. LateOk(s)'
    BY <1>1, <2>1, <2>3, <2>4, <2>5, <2>6, <2>7, ReadyFacts DEF LateOk
  <2> QED
    BY <1>1, <2>1, <2>3, <2>5, <2>8, ReadyFacts, SessionPreserves DEF connectorVars, Steps
<1> QED
  BY <1>3, <1>4, <1>5, <1>6, <1>7 DEF Callback

\* A message comes off an open socket, which no stopped session has but one that
\* was resolving.
LEMMA ReceivePreserves ==
  ASSUME StreamInv, NEW s \in Sessions, Receive(s)
  PROVE  StreamInv'
<1>1. op[s] \in Steps /\ op[s] # "resolve" /\ opResult[s] = "running" /\ socket[s] = "open"
  BY DEF Receive, Steps
<1>2. /\ messages < MaxMessages /\ messages' = messages + 1
      /\ unread' = [unread EXCEPT ![s] = unread[s] + 1] /\ unread'[s] = unread[s] + 1
      /\ UNCHANGED <<connectorVars, op, opResult, socket, stopVars, late>>
  BY DEF Receive, sessionVars, StreamInv, TypeOK
<1>3. stoppedAt[s] \in {"no", "resolve"} /\ UNCHANGED <<stoppedAt, held>>
  BY <1>1, <1>2, ReadyFacts DEF stopVars
<1>4. LateOk(s)'
  BY <1>1, <1>2, <1>3, ReadyFacts DEF LateOk
<1>5. unread'[s] \in 0..MaxMessages /\ messages' \in messages..MaxMessages
  BY <1>1, <1>2, ReadyFacts DEF LateOk
<1> QED
  BY <1>1, <1>2, <1>4, <1>5, ReadyFacts, SocketKept, SessionPreserves DEF connectorVars

\* An operation of a session ends; nobody has been told yet.
LEMMA OperationEndsPreserves ==
  ASSUME StreamInv, NEW s \in Sessions, NEW result \in {"ok", "failed"}, OperationEnds(s, result)
  PROVE  StreamInv'
<1>1. op[s] \in Steps
  BY StepsAre DEF OperationEnds
<1>2. /\ opResult[s] = "running"
      /\ UNCHANGED <<connectorVars, op, socket, unread, stopVars, countVars>>
      /\ opResult' = [opResult EXCEPT ![s] = result] /\ opResult'[s] = result
  BY DEF OperationEnds, StreamInv, TypeOK
<1>3. /\ result = "ok" /\ op[s] = "read" => unread[s] > 0
      /\ result = "ok" /\ op[s] # "read" => stoppedAt[s] \in {"no", "resolve"}
  BY <1>1, ReadyFacts DEF OperationEnds
<1>4. UNCHANGED <<stoppedAt, held, late, messages>>
  BY <1>2 DEF stopVars, countVars
<1>5. LateOk(s)'
  BY <1>1, <1>2, <1>3, <1>4, ReadyFacts, StepsAre DEF LateOk, Steps
<1>6. /\ op' = [op EXCEPT ![s] = op'[s]] /\ op'[s] = op[s]
      /\ opResult' = [opResult EXCEPT ![s] = opResult'[s]]
  BY <1>1, <1>2, ReadyFacts
<1>7. /\ late' = [late EXCEPT ![s] = late'[s]] /\ late'[s] \in 0..MaxMessages
      /\ unread' = [unread EXCEPT ![s] = unread'[s]] /\ unread'[s] \in 0..MaxMessages
  BY <1>1, <1>2, <1>4, ReadyFacts
<1>8. messages' \in messages..MaxMessages
  BY <1>1, <1>4, ReadyFacts
<1> QED
  BY <1>1, <1>2, <1>5, <1>6, <1>7, <1>8, SocketKept, SessionPreserves DEF connectorVars, Steps

-----------------------------------------------------------------------------
\* The snapshot request: its handler has not been called yet while it has an
\* operation outstanding.
LEMMA SnapshotPreserves ==
  ASSUME SnapshotInv, Snapshot
  PROVE  SnapshotInv'
<1> USE DEF SnapshotInv, SnapshotReported, SnapshotTypeOK
<1>0. DOMAIN SnapshotStep = {"resolve", "connect", "tlsHandshake", "write"}
      /\ \A o \in DOMAIN SnapshotStep :
           SnapshotStep[o] \in {"connect", "tlsHandshake", "write", "read"}
  BY DEF SnapshotStep
<1>1. SnapshotOperations = {"resolve", "connect", "tlsHandshake", "write", "read"}
  BY <1>0 DEF SnapshotOperations
<1>2. /\ Len(<<>>) = 0
      /\ \A x : Append(<<>>, x) = <<x>> /\ Len(<<x>>) = 1 /\ Head(<<x>>) = x
      /\ <<>> \o <<"snapshot", "failure">> = <<"snapshot", "failure">>
      /\ Len(<<"snapshot", "failure">>) = 2 /\ Head(<<"snapshot", "failure">>) = "snapshot"
  OBVIOUS
<1>3. CASE AsyncSnapshot
  BY <1>1, <1>3 DEF AsyncSnapshot
<1>4. ASSUME snapshotOp \in SnapshotOperations PROVE told = <<>> /\ threw = FALSE
  BY <1>1, <1>2, <1>4
<1>5. ASSUME snapshotOp \in SnapshotOperations, Finish("failure"), response' = response,
             response # "snapshot"
      PROVE  SnapshotInv'
  <2>1. /\ snapshotOp' = "ended" /\ snapshotResult' = "running"
        /\ told' = <<"failure">> /\ UNCHANGED threw
    BY <1>1, <1>2, <1>4, <1>5 DEF Finish, OnSnapshotResponse
  <2> QED
    BY <1>2, <1>4, <1>5, <2>1
<1>6. CASE OnSnapshotFailed
  BY <1>1, <1>5, <1>6 DEF OnSnapshotFailed
<1>7. CASE OnSnapshotStep
  <2>1. snapshotOp \in SnapshotOperations /\ snapshotOp # "read" /\ response = "none"
    BY <1>0, <1>1, <1>7 DEF OnSnapshotStep
  <2>2. CASE /\ snapshotOp' = SnapshotStep[snapshotOp] /\ snapshotResult' = "running"
             /\ UNCHANGED <<told, threw, response>>
    BY <1>0, <1>1, <1>4, <1>7, <2>1, <2>2 DEF OnSnapshotStep
  <2> QED
    BY <1>5, <1>7, <2>1, <2>2 DEF OnSnapshotStep, SnapshotResponses
<1>8. CASE OnSnapshotRead
  <2>1. snapshotOp \in SnapshotOperations /\ response \in SnapshotResponses /\ response' = response
    BY <1>1, <1>8 DEF OnSnapshotRead
  <2>2. snapshotOp' = "ended" /\ snapshotResult' = "running"
    BY <1>8 DEF OnSnapshotRead, Finish
  <2>3. \/ response # "snapshot" /\ told' = <<"failure">> /\ UNCHANGED threw
        \/ response = "snapshot" /\ told' = <<"snapshot">> /\ UNCHANGED threw
        \/ response = "snapshot" /\ told' = <<"snapshot", "failure">> /\ threw' = TRUE
    BY <1>1, <1>2, <1>4, <1>8, <2>1
    DEF OnSnapshotRead, Finish, OnSnapshotResponse, SnapshotResponses
  <2>4. SnapshotTypeOK'
    BY <1>4, <2>1, <2>2, <2>3
  <2>5. CASE response # "snapshot" /\ told' = <<"failure">> /\ UNCHANGED threw
    BY <1>2, <1>4, <2>1, <2>2, <2>4, <2>5
  <2>6. CASE response = "snapshot" /\ told' = <<"snapshot">> /\ UNCHANGED threw
    BY <1>2, <1>4, <2>1, <2>2, <2>4, <2>6
  <2>7. CASE response = "snapshot" /\ told' = <<"snapshot", "failure">> /\ threw' = TRUE
    BY <1>2, <2>1, <2>2, <2>4, <2>7
  <2> QED
    BY <2>3, <2>5, <2>6, <2>7
<1>9. ASSUME NEW result \in {"ok", "failed"}, SnapshotOperationEnds(result)
      PROVE  SnapshotInv'
  BY <1>1, <1>9 DEF SnapshotOperationEnds, SnapshotResponses
<1> QED
  BY <1>3, <1>6, <1>7, <1>8, <1>9 DEF Snapshot, SnapshotCallback

-----------------------------------------------------------------------------
\* Nothing has started.
LEMMA InitIInv == Init => IInv
<1> SUFFICES ASSUME Init PROVE IInv
  OBVIOUS
<1>1. TypeOK
  <2>1. 0 \in 0..MaxMessages /\ 0 \in 0..MaxStarts /\ 0 \in 0..0 /\ \A s \in Sessions : s > 0
    BY BoundsAssumption DEF Sessions
  <2> QED
    BY <2>1 DEF Init, TypeOK
<1>2. \A s \in Sessions : s > 0
  BY BoundsAssumption DEF Sessions
<1>3. OwnerInv /\ SocketInv /\ LateInv
  BY <1>2 DEF Init, OwnerInv, SocketInv, LateInv, LateOk, Steps
<1>4. SnapshotInv
  <2>1. told = <<>> /\ Len(told) = 0 /\ threw = FALSE /\ snapshotOp = "none"
        /\ response = "none" /\ snapshotResult = "running"
    BY DEF Init, SnapshotInit
  <2>2. SnapshotReported
    <3>1. SnapshotTypeOK
      BY <2>1 DEF SnapshotTypeOK
    <3>2. Len(told) = 2 <=> threw
      BY <2>1
    <3> QED
      BY <2>1, <3>1, <3>2 DEF SnapshotReported
  <2> QED
    BY <2>1, <2>2 DEF SnapshotInv
<1> QED
  BY <1>1, <1>3, <1>4 DEF IInv, StreamInv

\* Every step of the stream and of the snapshot keeps the invariant.
LEMMA NextIInv == IInv /\ [Next]_vars => IInv'
<1> SUFFICES ASSUME IInv, [Next]_vars PROVE IInv'
  OBVIOUS
<1>1. ASSUME UNCHANGED snapshotVars PROVE SnapshotInv'
  BY <1>1 DEF IInv, SnapshotInv, SnapshotReported, SnapshotTypeOK, snapshotVars
<1>2. ASSUME UNCHANGED streamVars PROVE StreamInv'
  BY <1>2
  DEF IInv, StreamInv, TypeOK, OwnerInv, SocketInv, LateInv, LateOk, streamVars, connectorVars,
      sessionVars, stopVars, countVars
<1>3. CASE Stream /\ UNCHANGED snapshotVars
  <2>1. StreamInv'
    BY <1>3, StartDepthPreserves, StopDepthPreserves, CallbackPreserves, ReceivePreserves,
       OperationEndsPreserves
    DEF IInv, Stream
  <2> QED
    BY <1>1, <1>3, <2>1 DEF IInv
<1>4. CASE Snapshot /\ UNCHANGED streamVars
  BY <1>2, <1>4, SnapshotPreserves DEF IInv
<1>5. CASE UNCHANGED vars
  BY <1>1, <1>2, <1>5 DEF IInv, vars
<1> QED
  BY <1>3, <1>4, <1>5 DEF Next, Rest

\* The inductive invariant of the connector and the snapshot request.
THEOREM InductiveInvariant == Spec => []IInv
BY InitIInv, NextIInv, PTL DEF Spec

\* An open, living connection is the stream's own, or one whose session was
\* stopped while it resolved.
THEOREM OpenConnectionsOwned == Spec => []OpenMeansOwned
<1>1. IInv => OpenMeansOwned
  <2> SUFFICES ASSUME IInv, NEW s \in Sessions,
                      socket[s] = "open", op[s] # "ended", s # depthClient
               PROVE  stoppedAt[s] = "resolve"
    BY DEF OpenMeansOwned, IInv, StreamInv
  <2> QED
    BY DEF IInv, StreamInv, OwnerInv, SocketInv
<1> QED
  BY <1>1, InductiveInvariant, PTL

\* A session stopped after it resolved gives the next handler no more than it held
\* then, and nothing if it had not come to its subscription.
THEOREM LateMessagesWereHeld == Spec => []LateWasHeld
<1>1. IInv => LateWasHeld
  <2> SUFFICES ASSUME IInv, NEW s \in Sessions, stoppedAt[s] \notin {"no", "resolve"}
               PROVE  /\ late[s] <= held[s]
                      /\ late[s] > 0 => stoppedAt[s] \in {"subscribe", "read"}
    BY DEF LateWasHeld
  <2>1. late[s] \in Nat /\ unread[s] \in Nat /\ held[s] \in Nat
    BY BoundsAssumption DEF IInv, StreamInv, TypeOK
  <2>2. LateOk(s)
    BY DEF IInv, StreamInv, LateInv
  <2> QED
    BY <2>1, <2>2 DEF LateOk
<1> QED
  BY <1>1, InductiveInvariant, PTL

\* A snapshot request that has ended called its handler, once unless it threw,
\* and with a snapshot exactly if the exchange sent one.
THEOREM SnapshotIsReported == Spec => []SnapshotReported
<1>1. IInv => SnapshotReported
  BY DEF IInv, SnapshotInv
<1> QED
  BY <1>1, InductiveInvariant, PTL
=============================================================================
