----------------------------- MODULE Connector -----------------------------
(***************************************************************************)
(* binance::Connector of binance_connector and the WebSocket sessions it   *)
(* starts: startDepth stops the stream it has, installs a handler and      *)
(* starts a session; stopDepth closes the session's socket and forgets     *)
(* both.  The trade stream has the same code over members of its own.      *)
(*                                                                         *)
(* One thread runs the io_context and everything else, so a call and a     *)
(* handler are one step each.  A session has no state and no queue: what   *)
(* it does next is the callback of the operation outstanding.  stop closes *)
(* the socket if there is one: while the session resolves there is none,   *)
(* nothing is cancelled, and it connects afterwards.  Sessions hand their  *)
(* messages to the connector, not to the handler they were started with,   *)
(* and read on until a read fails: on a closed socket, not before what the *)
(* stream's buffers hold has been read.                                    *)
(*                                                                         *)
(* A request for a snapshot (SnapshotRequest) shares the thread with the   *)
(* streams and is touched by none of their calls.                          *)
(*                                                                         *)
(* The n-th call of startDepth makes session n, with handler n.            *)
(***************************************************************************)
EXTENDS Naturals, SnapshotRequest

CONSTANTS
  MaxStarts,    \* bound on calls of startDepth
  MaxMessages   \* bound on messages received, over all sessions

ASSUME BoundsAssumption == MaxStarts \in Nat /\ MaxMessages \in Nat

Sessions == 1..MaxStarts

VARIABLES
  starts,        \* calls of startDepth
  depthClient,   \* the session its client holds, 0 when there is none
  depthHandler,  \* the handler installed, 0 when it is empty
  op,            \* each session's outstanding operation, "none", or "ended"
  opResult,      \* whether it is running, and how it ended
  socket,        \* each session's socket
  unread,        \* messages in each session's buffers, the one just read included
  stoppedAt,     \* the operation outstanding when the session was stopped, or "no"
  held,          \* what was unread then
  late,          \* messages of each stopped session given to a handler
  messages       \* messages received

connectorVars == <<starts, depthClient, depthHandler>>
sessionVars   == <<op, opResult, socket>>
stopVars      == <<stoppedAt, held>>
countVars     == <<late, messages>>
streamVars == <<connectorVars, sessionVars, unread, stopVars, countVars>>
vars == <<streamVars, snapshotVars>>

FollowedBy == [resolve |-> "connect", connect |-> "tlsHandshake",
               tlsHandshake |-> "handshake", handshake |-> "subscribe",
               subscribe |-> "read", read |-> "read"]

Operations == DOMAIN FollowedBy

Init ==
  /\ starts = 0 /\ depthClient = 0 /\ depthHandler = 0
  /\ op = [s \in Sessions |-> "none"]
  /\ opResult = [s \in Sessions |-> "running"]
  /\ socket = [s \in Sessions |-> "unopened"]
  /\ unread = [s \in Sessions |-> 0]
  /\ stoppedAt = [s \in Sessions |-> "no"]
  /\ held = [s \in Sessions |-> 0]
  /\ late = [s \in Sessions |-> 0]
  /\ messages = 0
  /\ SnapshotInit

-----------------------------------------------------------------------------
\* WebSocketSession::stop, of the session the client holds: a socket that is
\* not open cannot be closed.
Closed(s) == IF socket[s] = "open" THEN "closed" ELSE socket[s]

\* What it had come to, for the properties.
Stopped ==
  /\ stoppedAt' = [stoppedAt EXCEPT ![depthClient] = op[depthClient]]
  /\ held' = [held EXCEPT ![depthClient] = unread[depthClient]]

\* Mutant: only a session that reads is closed.
StopSessionReading ==
  IF depthClient = 0
    THEN UNCHANGED <<socket, stopVars>>
    ELSE /\ socket' = IF op[depthClient] = "read"
                        THEN [socket EXCEPT ![depthClient] = Closed(depthClient)] ELSE socket
         /\ Stopped

StopSession ==
  IF depthClient = 0
    THEN UNCHANGED <<socket, stopVars>>
    ELSE /\ socket' = [socket EXCEPT ![depthClient] = Closed(depthClient)]
         /\ Stopped

\* Mutant: the session it has is forgotten, not stopped.
StartDepthOver ==
  /\ starts < MaxStarts
  /\ starts' = starts + 1
  /\ depthClient' = starts' /\ depthHandler' = starts'
  /\ op' = [op EXCEPT ![starts'] = "resolve"]
  /\ UNCHANGED <<socket, stopVars, opResult, unread, countVars>>

StartDepth ==
  /\ starts < MaxStarts
  /\ StopSession
  /\ starts' = starts + 1
  /\ depthClient' = starts' /\ depthHandler' = starts'
  /\ op' = [op EXCEPT ![starts'] = "resolve"]
  /\ UNCHANGED <<opResult, unread, countVars>>

StopDepth ==
  /\ depthClient # 0
  /\ StopSession
  /\ depthClient' = 0 /\ depthHandler' = 0
  /\ UNCHANGED <<starts, op, opResult, unread, countVars>>

-----------------------------------------------------------------------------
\* The callbacks of a session's operations

Ready(s, result) == op[s] \in Operations /\ opResult[s] = result

Follow(s, o) ==
  /\ op' = [op EXCEPT ![s] = o]
  /\ opResult' = [opResult EXCEPT ![s] = "running"]

OnError(s) ==
  /\ Ready(s, "failed")
  /\ Follow(s, "ended")
  /\ UNCHANGED <<connectorVars, socket, unread, stopVars, countVars>>

\* async_connect opens a socket, whatever stop has done before.
OnResolve(s) ==
  /\ Ready(s, "ok") /\ op[s] = "resolve"
  /\ Follow(s, "connect")
  /\ socket' = [socket EXCEPT ![s] = "open"]
  /\ UNCHANGED <<connectorVars, unread, stopVars, countVars>>

\* onConnected may fail to set the server name, and gives up.
OnConnected(s) ==
  /\ Ready(s, "ok") /\ op[s] = "connect"
  /\ \/ Follow(s, "tlsHandshake") /\ UNCHANGED socket
     \/ Follow(s, "ended") /\ socket' = [socket EXCEPT ![s] = Closed(s)]
  /\ UNCHANGED <<connectorVars, unread, stopVars, countVars>>

OnHandshake(s) ==
  /\ Ready(s, "ok") /\ op[s] \in {"tlsHandshake", "handshake", "subscribe"}
  /\ Follow(s, FollowedBy[op[s]])
  /\ UNCHANGED <<connectorVars, socket, unread, stopVars, countVars>>

\* onDepthMessage: a response to the subscription, or a message that does not
\* parse, goes nowhere; an update goes to the handler installed now.  Nothing
\* asks whether the session has been stopped.
OnMessage(s, isUpdate) ==
  /\ Ready(s, "ok") /\ op[s] = "read"
  /\ late' = IF isUpdate /\ depthHandler # 0 /\ stoppedAt[s] # "no"
               THEN [late EXCEPT ![s] = @ + 1] ELSE late
  /\ unread' = [unread EXCEPT ![s] = @ - 1]
  /\ Follow(s, "read")
  /\ UNCHANGED <<connectorVars, socket, stopVars, messages>>

-----------------------------------------------------------------------------
\* The network.  What a read takes off the socket may hold several messages; some
\* may have come behind the response to the WebSocket handshake.
Receive(s) ==
  /\ op[s] \in {"handshake", "read"} /\ opResult[s] = "running" /\ socket[s] = "open"
  /\ messages < MaxMessages
  /\ messages' = messages + 1
  /\ unread' = [unread EXCEPT ![s] = @ + 1]
  /\ UNCHANGED <<connectorVars, sessionVars, stopVars, late>>

\* A read succeeds when there is a message, whatever has become of the socket;
\* any other operation on a closed socket fails.
OperationEnds(s, result) ==
  /\ op[s] \in Operations /\ opResult[s] = "running"
  /\ result = "ok" => IF op[s] = "read" THEN unread[s] > 0 ELSE socket[s] # "closed"
  /\ opResult' = [opResult EXCEPT ![s] = result]
  /\ UNCHANGED <<connectorVars, op, socket, unread, stopVars, countVars>>

Callback(s) ==
  \/ OnError(s) \/ OnResolve(s) \/ OnConnected(s) \/ OnHandshake(s)
  \/ \E isUpdate \in BOOLEAN : OnMessage(s, isUpdate)

Stream ==
  \/ StartDepth
  \/ StopDepth
  \/ \E s \in Sessions : Callback(s) \/ Receive(s)
  \/ \E s \in Sessions, result \in {"ok", "failed"} : OperationEnds(s, result)

Snapshot ==
  \/ AsyncSnapshot
  \/ SnapshotCallback
  \/ \E result \in {"ok", "failed"} : SnapshotOperationEnds(result)

Rest ==
  /\ starts = MaxStarts /\ depthClient = 0
  /\ \A s \in Sessions : op[s] = "ended"
  /\ snapshotOp = "ended"
  /\ UNCHANGED vars

Next ==
  \/ Stream /\ UNCHANGED snapshotVars
  \/ Snapshot /\ UNCHANGED streamVars
  \/ Rest

\* The io_context runs every callback that is ready; an operation on a closed
\* socket ends.  Nothing else has to happen.
Spec ==
  /\ Init /\ [][Next]_vars
  /\ \A s \in Sessions : WF_streamVars(Callback(s))
  /\ \A s \in Sessions :
       WF_streamVars(\E result \in {"ok", "failed"} :
                       socket[s] = "closed" /\ OperationEnds(s, result))

-----------------------------------------------------------------------------
TypeOK ==
  /\ starts \in 0..MaxStarts
  /\ depthClient \in 0..starts /\ depthHandler = depthClient
  /\ op \in [Sessions -> Operations \cup {"none", "ended"}]
  /\ opResult \in [Sessions -> {"running", "ok", "failed"}]
  /\ socket \in [Sessions -> {"unopened", "open", "closed"}]
  /\ stoppedAt \in [Sessions -> Operations \cup {"no", "ended"}]
  /\ {unread, held} \subseteq [Sessions -> 0..MaxMessages]
  /\ late \in [Sessions -> 0..MaxMessages]
  /\ messages \in 0..MaxMessages
  /\ \A s \in Sessions : op[s] = "none" <=> s > starts
  /\ \A s \in Sessions : op[s] = "resolve" => socket[s] = "unopened"

\* A connection that is open and alive belongs to the stream the connector has,
\* or to a session that was stopped while it resolved, which is the one case in
\* which stop does not reach it.
OpenMeansOwned ==
  /\ TypeOK
  /\ \A s \in Sessions :
      socket[s] = "open" /\ op[s] # "ended" /\ s # depthClient => stoppedAt[s] = "resolve"

\* A stopped session that was not resolving gives the next handler no more than
\* it held when it was stopped, what the stream had buffered behind the message it
\* had read included, and none unless it had come to its subscription; a session
\* that was resolving, any number.
LateWasHeld ==
  \A s \in Sessions : stoppedAt[s] \notin {"no", "resolve"} =>
    /\ late[s] <= held[s]
    /\ late[s] > 0 => stoppedAt[s] \in {"subscribe", "read"}

\* A session stopped in any operation but the resolution ends, and lets go of
\* the io_context.
StoppedEnds ==
  \A s \in Sessions : stoppedAt[s] \notin {"no", "resolve"} ~> op[s] = "ended"
=============================================================================
