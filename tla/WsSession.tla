----------------------------- MODULE WsSession -----------------------------
(***************************************************************************)
(* WebSocketClient and its WebSocketSession (web_socket_client; the order  *)
(* execution module carries a copy of the file).  The client is used from  *)
(* any thread: start, send and stop post a call to the session's strand    *)
(* and return.  On the strand the session connects, then keeps one read    *)
(* and at most one write going until it is stopped or an operation fails.  *)
(*                                                                         *)
(* One handler is one step.  inbox holds the posted calls, which run in    *)
(* the order they were posted; an operation ends in a step of its own, and *)
(* its handler runs at any later time.  A write sends the bytes the front  *)
(* of outgoingMessages has while the write is under way: async_write is    *)
(* given a reference, not a copy.                                          *)
(*                                                                         *)
(* Messages are numbered in the order they are sent.  One session is       *)
(* modelled: a client that starts again makes another, which shares        *)
(* nothing with this one.                                                  *)
(***************************************************************************)
EXTENDS Naturals, Sequences

CONSTANTS
  MaxSends,     \* bound on calls of send
  MaxReceived   \* bound on messages from the server

\* The user data stream sends one message.
ASSUME BoundsAssumption == MaxSends \in Nat \ {0} /\ MaxReceived \in Nat

VARIABLES
  session,           \* the client's pointer: "none", "held", "released"
  sent,              \* number of messages given to the session
  inbox,             \* calls posted to the strand
  state,
  outgoingMessages,
  writing,
  op, opResult,      \* connecting: the operation outstanding, how it ended
  reading,           \* the read outstanding: "none", "running", "ok", "failed"
  write,             \* the write outstanding, likewise
  wire,              \* messages whose write ended well
  received           \* number of messages given to the handler

clientVars  == <<session, sent>>
connectVars == <<op, opResult>>
writeVars   == <<outgoingMessages, writing, write>>
vars == <<clientVars, inbox, state, connectVars, reading, writeVars, wire, received>>

Steps == {"resolve", "connect", "tlsHandshake", "handshake"}

Init ==
  /\ session = "none" /\ sent = 0
  /\ inbox = <<>>
  /\ state = "Idle"
  /\ outgoingMessages = <<>> /\ writing = FALSE
  /\ op = "none" /\ opResult = "running"
  /\ reading = "none" /\ write = "none"
  /\ wire = <<>> /\ received = 0

sessionVars == <<state, connectVars, reading, writeVars, wire, received>>

-----------------------------------------------------------------------------
\* The client

Post(call, message) == inbox' = Append(inbox, [call |-> call, message |-> message])

ClientStart ==
  /\ session = "none"
  /\ session' = "held"
  /\ Post("start", 0)
  /\ UNCHANGED <<sent, sessionVars>>

\* Without a session the message is dropped, and nothing changes.
ClientSend ==
  /\ session = "held"
  /\ sent < MaxSends
  /\ sent' = sent + 1
  /\ Post("send", sent')
  /\ UNCHANGED <<session, sessionVars>>

ClientStop ==
  /\ session = "held"
  /\ session' = "released"
  /\ Post("stop", 0)
  /\ UNCHANGED <<sent, sessionVars>>

-----------------------------------------------------------------------------
\* What handlers are made of

\* Mutant: writing is not looked at.
WriteAgain(s, messages, busy) ==
  LET starts == s = "Connected" /\ messages # <<>>
  IN  /\ outgoingMessages' = messages
      /\ writing' = (busy \/ starts)
      /\ write' = IF starts THEN "running" ELSE IF busy THEN write ELSE "none"

\* write(), called in state s with these messages queued: starts a write of the
\* first unless one is under way.
Write(s, messages, busy) ==
  LET starts == s = "Connected" /\ ~busy /\ messages # <<>>
  IN  /\ outgoingMessages' = messages
      /\ writing' = (busy \/ starts)
      /\ write' = IF starts THEN "running" ELSE IF busy THEN write ELSE "none"

\* stopNow(): closes the socket; operations under way are not waited for.
StopNow ==
  /\ state' = "Stopped"
  /\ IF state = "Stopped"
       THEN UNCHANGED <<writing, outgoingMessages>>
       ELSE writing' = FALSE /\ outgoingMessages' = <<>>

Begin(o) == op' = o /\ opResult' = "running"

-----------------------------------------------------------------------------
\* Posted calls

Run(call) ==
  /\ inbox # <<>>
  /\ Head(inbox).call = call
  /\ inbox' = Tail(inbox)

RunStart ==
  /\ Run("start")
  /\ IF state = "Idle"
       THEN state' = "Connecting" /\ Begin("resolve")
       ELSE UNCHANGED <<state, connectVars>>
  /\ UNCHANGED <<clientVars, reading, writeVars, wire, received>>

RunSend ==
  /\ Run("send")
  /\ IF state = "Stopped"
       THEN UNCHANGED writeVars
       ELSE Write(state, Append(outgoingMessages, Head(inbox).message), writing)
  /\ UNCHANGED <<clientVars, state, connectVars, reading, wire, received>>

\* Mutant: a session that is not connected yet ignores stop.
RunStopConnected ==
  /\ Run("stop")
  /\ IF state = "Connected" THEN StopNow
                            ELSE UNCHANGED <<state, writing, outgoingMessages>>
  /\ UNCHANGED <<clientVars, connectVars, reading, write, wire, received>>

RunStop ==
  /\ Run("stop")
  /\ StopNow
  /\ UNCHANGED <<clientVars, connectVars, reading, write, wire, received>>

-----------------------------------------------------------------------------
\* Handlers of operations

FollowedBy ==
  [resolve |-> "connect", connect |-> "tlsHandshake", tlsHandshake |-> "handshake"]

\* Mutants: the handlers do not look at the state; onHandshake does not write.
OnStepAlways(o) ==
  /\ op = o /\ opResult # "running"
  /\ \/ /\ opResult = "failed"
        /\ Begin("none")
        /\ StopNow
        /\ UNCHANGED <<reading, write>>
     \/ /\ opResult = "ok" /\ o # "handshake"
        /\ Begin(FollowedBy[o])
        /\ UNCHANGED <<state, reading, writeVars>>
     \/ /\ opResult = "ok" /\ o = "handshake"
        /\ Begin("none")
        /\ state' = "Connected"
        /\ reading' = "running"
        /\ Write("Connected", outgoingMessages, writing)
  /\ UNCHANGED <<clientVars, inbox, wire, received>>

OnStepReadsOnly(o) ==
  /\ op = o /\ opResult # "running"
  /\ IF opResult = "failed" \/ state # "Connecting"
       THEN Begin("none") /\ StopNow /\ UNCHANGED <<reading, write>>
       ELSE IF o # "handshake"
         THEN Begin(FollowedBy[o]) /\ UNCHANGED <<state, reading, writeVars>>
         ELSE /\ Begin("none")
              /\ state' = "Connected"
              /\ reading' = "running"
              /\ UNCHANGED writeVars
  /\ UNCHANGED <<clientVars, inbox, wire, received>>

\* onResolve, onConnect, onTlsHandshake, onHandshake: nothing is done when the
\* session is no longer connecting.
OnStep(o) ==
  /\ op = o /\ opResult # "running"
  /\ \/ /\ state # "Connecting"
        /\ Begin("none")
        /\ UNCHANGED <<state, reading, writeVars>>
     \/ /\ state = "Connecting" /\ opResult = "failed"
        /\ Begin("none")
        /\ StopNow
        /\ UNCHANGED <<reading, write>>
     \/ /\ state = "Connecting" /\ opResult = "ok" /\ o # "handshake"
        /\ Begin(FollowedBy[o])
        /\ UNCHANGED <<state, reading, writeVars>>
     \/ /\ state = "Connecting" /\ opResult = "ok" /\ o = "handshake"
        /\ Begin("none")
        /\ state' = "Connected"
        /\ reading' = "running"
        /\ Write("Connected", outgoingMessages, writing)
  /\ UNCHANGED <<clientVars, inbox, wire, received>>

\* Mutant: the handler is called and no new read started.
OnReadOnce ==
  /\ reading \in {"ok", "failed"}
  /\ reading' = "none"
  /\ IF state = "Connected" /\ reading = "ok"
       THEN received' = received + 1 /\ UNCHANGED <<state, outgoingMessages, writing>>
       ELSE StopNow /\ UNCHANGED received
  /\ UNCHANGED <<clientVars, inbox, connectVars, write, wire>>

OnRead ==
  /\ reading \in {"ok", "failed"}
  /\ \/ /\ state # "Connected"
        /\ reading' = "none"
        /\ UNCHANGED <<state, outgoingMessages, writing, received>>
     \/ /\ state = "Connected" /\ reading = "failed"
        /\ reading' = "none"
        /\ StopNow
        /\ UNCHANGED received
     \/ /\ state = "Connected" /\ reading = "ok"
        /\ received' = received + 1
        /\ reading' = "running"
        /\ UNCHANGED <<state, outgoingMessages, writing>>
  /\ UNCHANGED <<clientVars, inbox, connectVars, write, wire>>

\* Mutant: the next message is not written.
OnWriteOnce ==
  /\ write \in {"ok", "failed"}
  /\ write' = "none"
  /\ IF state # "Stopped" /\ write = "ok"
       THEN outgoingMessages' = Tail(outgoingMessages) /\ writing' = FALSE /\ UNCHANGED state
       ELSE StopNow
  /\ UNCHANGED <<clientVars, inbox, connectVars, reading, wire, received>>

OnWrite ==
  /\ write \in {"ok", "failed"}
  /\ \/ /\ state = "Stopped"
        /\ write' = "none"
        /\ UNCHANGED <<state, outgoingMessages, writing>>
     \/ /\ state # "Stopped" /\ write = "failed"
        /\ write' = "none"
        /\ StopNow
     \/ /\ state # "Stopped" /\ write = "ok"
        /\ Write(state, Tail(outgoingMessages), FALSE)
        /\ UNCHANGED state
  /\ UNCHANGED <<clientVars, inbox, connectVars, reading, wire, received>>

-----------------------------------------------------------------------------
\* The network: an operation on a closed socket ends in an error, but a read that
\* finds a message in the stream's buffers.  A write on an open one may go on for
\* as long as the peer does not read.

StepEnds(result) ==
  /\ op # "none" /\ opResult = "running"
  /\ result = "ok" => state # "Stopped"
  /\ opResult' = result
  /\ UNCHANGED <<clientVars, inbox, state, op, reading, writeVars, wire, received>>

ReadEnds(result) ==
  /\ reading = "running"
  /\ result = "ok" => received < MaxReceived
  /\ reading' = result
  /\ UNCHANGED <<clientVars, inbox, state, connectVars, writeVars, wire, received>>

WriteEnds(result) ==
  /\ write = "running"
  /\ result = "ok" => state # "Stopped"
  /\ write' = result
  /\ wire' = IF result = "ok" THEN Append(wire, Head(outgoingMessages)) ELSE wire
  /\ UNCHANGED <<clientVars, inbox, state, connectVars, reading, outgoingMessages, writing, received>>

-----------------------------------------------------------------------------
Client  == ClientStart \/ ClientSend \/ ClientStop
Posted  == RunStart \/ RunSend \/ RunStop
Results == {"ok", "failed"}

\* Nothing under way: what the session allocated is freed.
Quiet  == inbox = <<>> /\ <<op, reading, write>> = <<"none", "none", "none">>

-----------------------------------------------------------------------------
Calls == [call : {"start", "send", "stop"}, message : 0..MaxSends]

TypeOK ==
  /\ session \in {"none", "held", "released"}
  /\ sent \in 0..MaxSends
  /\ inbox \in Seq(Calls)
  /\ state \in {"Idle", "Connecting", "Connected", "Stopped"}
  /\ outgoingMessages \in Seq(1..MaxSends)
  /\ writing \in BOOLEAN
  /\ op \in Steps \cup {"none"} /\ opResult \in Results \cup {"running"}
  /\ state = "Connecting" => op # "none"
  /\ state \in {"Idle", "Connected"} => op = "none"
  /\ {reading, write} \subseteq Results \cup {"running", "none"}
  /\ wire \in Seq(1..MaxSends)
  /\ received \in 0..MaxReceived

\* The flag that keeps two writes from overlapping tells the truth, a queued
\* message never waits for a write nobody starts, and the write under way has a
\* front to refer to.  After stopNow the flag is FALSE and the queue is empty
\* while the write it was about may still be under way: state is what keeps
\* another from starting.
WriteLoop ==
  /\ TypeOK
  /\ state # "Stopped" =>
       /\ writing <=> write # "none"
       /\ writing => outgoingMessages # <<>>
       /\ state = "Connected" /\ outgoingMessages # <<>> => writing

\* Messages leave in the order send was called, each once, and none is skipped,
\* those sent before the connection was up included.
WireInOrder ==
  /\ wire = [k \in 1..Len(wire) |-> k]
  /\ Len(wire) <= sent

\* A stopped session stays stopped: it gives no message to the handler and
\* starts no operation, whatever handlers are still to run.
StoppedIsFinal ==
  [][state = "Stopped" =>
       /\ state' = "Stopped" /\ received' = received
       /\ op' \in {op, "none"}
       /\ reading = "none" => reading' = "none"
       /\ write = "none" => write' = "none"]_vars
=============================================================================
