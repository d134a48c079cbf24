----------------------------- MODULE BinanceWs -----------------------------
(***************************************************************************)
(* BinanceWebSocketClient of binance/ and the program around it.  There is *)
(* one thread: main connects and sends the subscription, which only starts *)
(* the resolver and fills the queue, then runs the io_context.  Later      *)
(* sends, or the first one, and close may be called by functions on that   *)
(* thread.  A handler is one step; the network ends an operation in a step *)
(* of its own.                                                             *)
(*                                                                         *)
(* A ping is answered inside the read that meets it, by a synchronous      *)
(* write, whether or not async_write is under way: two writers on one TLS  *)
(* stream, whose records may mix.  The pong throws when it fails, as the   *)
(* message handler does when it cannot parse; nothing catches either, and  *)
(* the program is terminated.                                              *)
(*                                                                         *)
(* onWrite leaves the state Disconnected.  After the first message, then,  *)
(* write and close return at once, while the read loop goes on: what is    *)
(* sent later stays in writeQueue.  The properties are those the client    *)
(* has all the same.                                                       *)
(***************************************************************************)
EXTENDS Naturals, Sequences

CONSTANTS MaxSends,     \* bound on calls of send
          MaxReceived   \* bound on messages from the server

ASSUME BoundsAssumption == MaxSends \in Nat /\ MaxReceived \in Nat

VARIABLES
  run,               \* io_context::run: "ready", "running", "returned",
                     \* or "terminated", by an exception that left it
  state,
  writeQueue, sent,
  op, opResult,      \* connecting: the operation outstanding, how it ended
  writes, written,   \* writes under way; how the last one ended, until onWrite
  reading,           \* the read outstanding: "none", "running", "ok", ...
  torn,              \* a pong was written into the write that was under way
  wire,              \* messages whose write ended well, as the server gets them
  received,
  closed,            \* the stream, by close or by the server
  errors             \* calls of errorHandler

opVars == <<op, opResult>>
writeVars == <<state, writes, torn>>
peerVars == <<wire, received, closed>>
vars == <<run, writeVars, writeQueue, sent, opVars, written, reading, peerVars, errors>>

Steps == {"resolve", "connect", "sslHandshake", "handshake"}
FollowedBy ==
  [resolve |-> "connect", connect |-> "sslHandshake", sslHandshake |-> "handshake"]

\* After main's connect.
Init ==
  /\ run = "ready" /\ state = "Disconnected"
  /\ writeQueue = <<>> /\ sent = 0
  /\ op = "resolve" /\ opResult = "running"
  /\ writes = 0 /\ torn = FALSE /\ written = "none" /\ reading = "none"
  /\ wire = <<>> /\ received = 0 /\ closed = FALSE /\ errors = 0

Begin(o) == op' = o /\ opResult' = "running"
Reports == errors' = errors + 1

\* Mutant: the state does not tell that a write is under way.
WriteUnmarked(s, queue) ==
  /\ state' = s
  /\ writes' = IF s = "Connected" /\ queue # <<>> THEN writes + 1 ELSE writes

\* write, in state s with these messages queued.
Write(s, queue) ==
  LET starts == s = "Connected" /\ queue # <<>>
  IN  /\ state' = IF starts THEN "Writing" ELSE s
      /\ writes' = IF starts THEN writes + 1 ELSE writes

-----------------------------------------------------------------------------
\* Calls

Send ==
  /\ run \in {"ready", "running"} /\ sent < MaxSends
  /\ sent' = sent + 1
  /\ writeQueue' = Append(writeQueue, sent')
  /\ Write(state, writeQueue')
  /\ UNCHANGED <<run, opVars, torn, written, reading, peerVars, errors>>

\* A synchronous close that fails is reported as a read error is.
Close ==
  /\ run = "running" /\ state = "Connected"
  /\ \/ UNCHANGED <<state, errors>>
     \/ state' = "Disconnected" /\ Reports
  /\ closed' = TRUE
  /\ UNCHANGED <<run, writeQueue, sent, opVars, writes, torn, written, reading, wire, received>>

RunStarts ==
  /\ run = "ready"
  /\ run' = "running"
  /\ UNCHANGED <<writeVars, writeQueue, sent, opVars, written, reading, peerVars, errors>>

RunReturns ==
  /\ run = "running"
  /\ <<op, reading, written>> = <<"none", "none", "none">> /\ writes = 0
  /\ run' = "returned"
  /\ UNCHANGED <<writeVars, writeQueue, sent, opVars, written, reading, peerVars, errors>>

-----------------------------------------------------------------------------
\* Handlers

\* onResolve, onConnect, onSslHandshake, onWebSocketHandshake: an error, the
\* server name TLS would not take among them, is reported and ends the client.
OnStepFails(o) ==
  /\ run = "running" /\ op = o
  /\ opResult = "failed" \/ (opResult = "ok" /\ o = "connect")
  /\ Begin("none")
  /\ Reports
  /\ UNCHANGED <<run, writeVars, writeQueue, sent, written, reading, peerVars>>

OnStep(o) ==
  /\ run = "running" /\ op = o /\ opResult = "ok" /\ o # "handshake"
  /\ Begin(FollowedBy[o])
  /\ UNCHANGED <<run, writeVars, writeQueue, sent, written, reading, peerVars, errors>>

\* Mutant: what was sent before the connection was up is not looked at.
OnHandshakeReads ==
  /\ run = "running" /\ op = "handshake" /\ opResult = "ok"
  /\ Begin("none")
  /\ state' = "Connected"
  /\ reading' = "running"
  /\ UNCHANGED <<run, writes, torn, writeQueue, sent, written, peerVars, errors>>

OnHandshake ==
  /\ run = "running" /\ op = "handshake" /\ opResult = "ok"
  /\ Begin("none")
  /\ Write("Connected", writeQueue)
  /\ reading' = "running"
  /\ UNCHANGED <<run, torn, writeQueue, sent, written, peerVars, errors>>

\* The write that follows finds the state Disconnected.
OnWrite ==
  /\ run = "running" /\ written # "none"
  /\ written' = "none"
  /\ IF written = "failed"
       THEN state' = "Disconnected" /\ Reports /\ UNCHANGED <<writes, writeQueue>>
       ELSE /\ writeQueue' = Tail(writeQueue)
            /\ Write("Disconnected", writeQueue')
            /\ UNCHANGED errors
  /\ UNCHANGED <<run, torn, sent, opVars, reading, peerVars>>

\* From the second message on main's handler parses it, and throws if it cannot.
OnRead ==
  /\ run = "running" /\ reading = "ok"
  /\ received' = received + 1
  /\ \/ reading' = "running" /\ UNCHANGED run
     \/ received > 0 /\ run' = "terminated" /\ UNCHANGED reading
  /\ UNCHANGED <<writeVars, writeQueue, sent, opVars, written, wire, closed, errors>>

\* The control callback, of a ping that a read has met: the pong is written, into
\* the middle of a message perhaps, or it fails.
Ping ==
  /\ run = "running" /\ reading = "running" /\ ~closed
  /\ \/ torn' \in {torn, torn \/ writes > 0} /\ UNCHANGED run
     \/ run' = "terminated" /\ UNCHANGED torn
  /\ UNCHANGED <<state, writes, writeQueue, sent, opVars, written, reading, peerVars, errors>>

\* onClose; the end of a stream that was closed in order is no error.
OnReadFails ==
  /\ run = "running" /\ reading \in {"failed", "closed"}
  /\ reading' = "none"
  /\ state' = "Disconnected"
  /\ IF reading = "closed" THEN UNCHANGED errors ELSE Reports
  /\ UNCHANGED <<run, writes, torn, writeQueue, sent, opVars, written, peerVars>>

-----------------------------------------------------------------------------
\* The network

StepEnds(result) ==
  /\ run # "terminated" /\ op # "none" /\ opResult = "running"
  /\ opResult' = result
  /\ UNCHANGED <<run, writeVars, writeQueue, sent, op, written, reading, peerVars, errors>>

\* What a server reads of a message with a pong in its records.
Garbled == 0

WriteEnds(result) ==
  /\ run # "terminated" /\ writes > 0 /\ written = "none"
  /\ result = "ok" => ~closed
  /\ writes' = writes - 1
  /\ written' = result
  /\ wire' = IF result = "ok"
               THEN Append(wire, IF torn THEN Garbled ELSE Head(writeQueue)) ELSE wire
  /\ UNCHANGED <<run, state, torn, writeQueue, sent, opVars, reading, received, closed, errors>>

ReadEnds(result) ==
  /\ run # "terminated" /\ reading = "running"
  /\ result = "ok" => ~closed /\ received < MaxReceived
  /\ reading' = result
  /\ closed' = (closed \/ result = "closed")
  /\ UNCHANGED <<run, writeVars, writeQueue, sent, opVars, written, wire, received, errors>>

-----------------------------------------------------------------------------
Ended == run \in {"returned", "terminated"} /\ UNCHANGED vars

Next ==
  \/ Send \/ Close \/ RunStarts \/ RunReturns
  \/ \E o \in Steps : OnStepFails(o) \/ OnStep(o)
  \/ OnHandshake \/ OnWrite \/ OnRead \/ Ping \/ OnReadFails
  \/ \E result \in {"ok", "failed"} : StepEnds(result) \/ WriteEnds(result)
  \/ \E result \in {"ok", "failed", "closed"} : ReadEnds(result)
  \/ Ended

\* The thread in run runs the handlers that are ready and returns when there are
\* none to come.  The one write there is ends, being small and the first on its
\* connection but for pongs: the socket's buffer takes it, and them, or the pong
\* throws.  A read of a closed stream ends.
Spec ==
  /\ Init /\ [][Next]_vars
  /\ WF_vars(OnHandshake) /\ WF_vars(OnWrite) /\ WF_vars(OnRead) /\ WF_vars(OnReadFails)
  /\ WF_vars(\E o \in Steps : OnStepFails(o) \/ OnStep(o))
  /\ WF_vars(RunReturns)
  /\ WF_vars(\E result \in {"ok", "failed"} : WriteEnds(result))
  /\ WF_vars(closed /\ ReadEnds("closed"))

-----------------------------------------------------------------------------
TypeOK ==
  /\ run \in {"ready", "running", "returned", "terminated"}
  /\ state \in {"Disconnected", "Connected", "Writing"}
  /\ writeQueue \in Seq(1..MaxSends) /\ sent \in 0..MaxSends
  /\ op \in Steps \cup {"none"} /\ opResult \in {"running", "ok", "failed"}
  /\ writes \in 0..1 /\ written \in {"none", "ok", "failed"}
  /\ reading \in {"none", "running", "ok", "failed", "closed"}
  /\ torn \in BOOLEAN
  /\ wire \in Seq(0..MaxSends) /\ received \in 0..MaxReceived
  /\ closed \in BOOLEAN /\ errors \in Nat

EndsForAReason == run = "returned" => errors > 0 \/ closed

\* No async_write is begun while another is under way, and the one there is has a
\* front to refer to; no message is lost, repeated or overtaken between send, the
\* queue and the wire, where the queue begins with the message last written until
\* onWrite has run: but for the first message, which a pong written at the same
\* time may garble, although its write ends well.  And run returns only for a
\* reason: an error that was reported or a stream that was closed.
NothingLost ==
  /\ TypeOK
  /\ EndsForAReason
  /\ writes > 0 => written = "none" /\ writeQueue # <<>>
  /\ LET left == IF written = "ok" THEN Tail(writeQueue) ELSE writeQueue
         kept == wire \o left
     IN  /\ Len(kept) = sent
         /\ \A k \in 1..sent : kept[k] = k \/ (torn /\ k = 1 /\ kept[k] = Garbled)

\* The subscription main sends before it runs the io_context reaches the server
\* once the handshake is done, unless a pong garbled it, the error handler is told,
\* the stream was closed or the program terminated.
SubscriptionSent ==
  run = "running" /\ op = "handshake" /\ opResult = "ok" /\ sent > 0
    ~> wire = <<1>> \/ torn \/ errors > 0 \/ closed \/ run = "terminated"
=============================================================================
