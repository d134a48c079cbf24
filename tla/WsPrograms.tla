----------------------------- MODULE WsPrograms -----------------------------
(***************************************************************************)
(* The programs around WsSession, and the io_context its handlers run in:  *)
(*                                                                         *)
(*   client          any use of WebSocketClient, from any thread, with a   *)
(*                   thread that keeps running the io_context;             *)
(*   userDataStream  binance_order_execution_module: BinanceUserDataStream *)
(*                   starts the client and sends a signed request before   *)
(*                   main runs the io_context; its destructor stops the    *)
(*                   client when run has returned;                         *)
(*   demo            web_socket_client/main.cpp: a second thread runs the  *)
(*                   io_context, main sends after a second's sleep, stops  *)
(*                   the client and the io_context when a key is pressed,  *)
(*                   and joins.                                            *)
(*                                                                         *)
(* run returns when nothing is posted or under way, or when the io_context *)
(* is stopped: the handlers that are left then never run.                  *)
(***************************************************************************)
EXTENDS WsSession

VARIABLES
  program,
  main,    \* where the program's main thread is
  run      \* io_context::run: "ready", "running", "returned"

programVars == <<program, main, run>>
allVars == <<vars, programVars>>

InitPrograms ==
  /\ Init
  /\ \/ program = "client" /\ main = "free" /\ run = "running"
     \/ program \in {"userDataStream", "demo"} /\ main = "start" /\ run = "ready"

At(p, from) == program = p /\ main = from
Goes(to) == main' = to /\ UNCHANGED program

-----------------------------------------------------------------------------
\* Any use of the client
AnyClient == program = "client" /\ Client /\ UNCHANGED programVars

-----------------------------------------------------------------------------
\* The user data stream

\* start: without a key, a secret or a handler, or when the request cannot be
\* signed, the client is not started and run is never called.
StreamRefuses ==
  /\ At("userDataStream", "start")
  /\ Goes("end")
  /\ UNCHANGED <<vars, run>>

\* The request, timestamp and signature included, is made before the session
\* has begun to connect.
StreamStarts ==
  /\ At("userDataStream", "start")
  /\ session' = "held" /\ sent' = 1
  /\ inbox' = <<[call |-> "start", message |-> 0], [call |-> "send", message |-> 1]>>
  /\ Goes("run") /\ run' = "running"
  /\ UNCHANGED sessionVars

\* The destructor's stop is posted to an io_context nobody runs any more.
StreamDestroyed ==
  /\ At("userDataStream", "run") /\ run = "returned"
  /\ ClientStop
  /\ Goes("end")
  /\ UNCHANGED run

-----------------------------------------------------------------------------
\* The demo

DemoStarts ==
  /\ At("demo", "start")
  /\ ClientStart
  /\ Goes("asleep")
  /\ UNCHANGED run

\* The thread begins, or has not begun yet when the io_context is stopped.
ThreadRuns ==
  /\ program = "demo" /\ main \notin {"start", "end"} /\ run = "ready"
  /\ run' = "running"
  /\ UNCHANGED <<vars, program, main>>

\* A second has passed, which says nothing of the connection.
DemoSends ==
  /\ At("demo", "asleep")
  /\ ClientSend
  /\ Goes("waiting")
  /\ UNCHANGED run

DemoStops ==
  /\ At("demo", "waiting")
  /\ ClientStop
  /\ Goes("stopping")
  /\ UNCHANGED run

\* ioContext.stop: whatever is posted or ready, the stop just posted as well,
\* is destroyed without having run.
DemoStopsContext ==
  /\ At("demo", "stopping")
  /\ run' = "returned"
  /\ Goes("end")
  /\ UNCHANGED vars

-----------------------------------------------------------------------------
\* io_context::run

RunReturns ==
  /\ program # "client" /\ run = "running" /\ Quiet
  /\ run' = "returned"
  /\ UNCHANGED <<vars, program, main>>

Runs(handler) == run = "running" /\ handler /\ UNCHANGED programVars

RunsPosted == Runs(Posted)
RunsConnecting == Runs(\E o \in Steps : OnStep(o))
RunsReading == Runs(OnRead)
RunsWriting == Runs(OnWrite)

Network ==
  /\ \E result \in Results : StepEnds(result) \/ ReadEnds(result) \/ WriteEnds(result)
  /\ UNCHANGED programVars

Ended ==
  /\ IF program = "client" THEN session = "released" /\ Quiet ELSE main = "end"
  /\ UNCHANGED allVars

Next ==
  \/ AnyClient
  \/ StreamRefuses \/ StreamStarts \/ StreamDestroyed
  \/ DemoStarts \/ ThreadRuns \/ DemoSends \/ DemoStops \/ DemoStopsContext
  \/ RunsPosted \/ RunsConnecting \/ RunsReading \/ RunsWriting \/ RunReturns
  \/ Network
  \/ Ended

\* The thread in run runs every call posted and every handler that is ready, and
\* returns from run when there are none to come.  Closing the socket ends what
\* is under way.  Nothing makes the connection come about, a message arrive, the
\* client act or a key be pressed; and nothing ends a write on an open connection
\* but the peer, which has to read: timeout::suggested gives a client neither an
\* idle timeout nor pings.
Spec ==
  /\ InitPrograms /\ [][Next]_allVars
  /\ WF_allVars(RunsPosted) /\ WF_allVars(RunsConnecting)
  /\ WF_allVars(RunsReading) /\ WF_allVars(RunsWriting)
  /\ WF_allVars(RunReturns) /\ WF_allVars(StreamDestroyed)
  /\ WF_allVars(/\ state = "Stopped" /\ UNCHANGED programVars
                /\ StepEnds("failed") \/ ReadEnds("failed") \/ WriteEnds("failed"))

-----------------------------------------------------------------------------
\* run returns by itself only when the session has stopped, which is how the user
\* data stream's program learns of its end: a live session always has something
\* under way.  A session that forgot to read would end the program silently, or
\* keep it running deaf.
RunKeepsSession ==
  /\ run = "returned" /\ main # "end" => state = "Stopped"
  /\ run = "running" /\ state = "Connected" => reading # "none"

\* No write stays under way for ever.
PeerReads == []<>(write # "running")

\* Once connected to a peer that reads, every message sent reaches the wire unless
\* the session stops or the io_context is stopped.  A peer that does not read holds
\* its write, and the messages behind it, until the client's stop.
Flushes ==
  PeerReads =>
    \A n \in 1..MaxSends :
      (state = "Connected" /\ sent >= n)
        ~> (Len(wire) >= n \/ state = "Stopped" \/ run # "running")

\* After the client's stop, or an error, the session comes to rest with nothing
\* outstanding, and what kept it alive is gone, unless the io_context is stopped
\* first; the user data stream's program then ends.
Drains ==
  /\ session = "released" \/ state = "Stopped"
       ~> (state = "Stopped" /\ Quiet) \/ run # "running"
  /\ program = "userDataStream" /\ state = "Stopped" ~> main = "end"
=============================================================================
