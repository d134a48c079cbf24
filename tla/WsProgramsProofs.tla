--------------------------- MODULE WsProgramsProofs ---------------------------
(***************************************************************************)
(* Proofs about the WebSocket session and the programs around it, for any  *)
(* number of messages in either direction.  The inductive invariant IInv   *)
(* follows every message from send to the wire: at any time the messages   *)
(* written, those queued and those still posted to the strand are, one     *)
(* after the other, 1..sent, unless the session has stopped.               *)
(***************************************************************************)
EXTENDS WsPrograms, SequenceTheorems, TLAPS

\* The messages the session is done with: the front of the queue stays there
\* until its write's handler has run.
Done == Len(wire) - (IF write = "ok" THEN 1 ELSE 0)

\* Whether start, and stop, are still posted (while the session is not stopped).
Starting == IF state = "Idle" /\ session # "none" THEN 1 ELSE 0
Stopping == IF session = "released" THEN 1 ELSE 0

QueueInv ==
  state # "Stopped" =>
    /\ \A i \in 1..Len(outgoingMessages) : outgoingMessages[i] = Done + i
    /\ \A k \in 1..Len(inbox) :
         /\ inbox[k].call = "start" <=> k = 1 /\ Starting = 1
         /\ inbox[k].call = "stop" <=> k = Len(inbox) /\ Stopping = 1
         /\ inbox[k].call = "send" =>
              inbox[k].message = Done + Len(outgoingMessages) + k - Starting
    /\ Starting + Stopping <= Len(inbox)
    /\ sent = Done + Len(outgoingMessages) + Len(inbox) - Starting - Stopping
    /\ write = "ok" => wire # <<>>

\* Reads and writes begin with the connection.
ConnectedInv ==
  /\ {reading, write} # {"none"} => state \in {"Connected", "Stopped"}
  /\ state = "Connected" => reading # "none"
  /\ reading = "ok" => received < MaxReceived

\* Before start there is nothing.
NoneInv ==
  session = "none" =>
    /\ state = "Idle" /\ inbox = <<>> /\ sent = 0
    /\ outgoingMessages = <<>> /\ wire = <<>> /\ write = "none"

SessionInv == WriteLoop /\ WireInOrder /\ QueueInv /\ ConnectedInv /\ NoneInv

\* How the programs use the session.
ProgramInv ==
  /\ program \in {"client", "userDataStream", "demo"}
  /\ program = "client" => run = "running"
  /\ program # "client" /\ run = "running" => session # "none"
  /\ program # "client" /\ main = "start" => session = "none" /\ run = "ready"
  /\ program = "demo" /\ main # "start" => session # "none"
  /\ run = "returned" /\ main # "end" => state = "Stopped"

IInv == SessionInv /\ ProgramInv

-----------------------------------------------------------------------------
\* Sequences, element by element.
LEMMA AppendElements ==
  ASSUME NEW S, NEW s \in Seq(S), NEW e \in S
  PROVE  /\ Append(s, e) \in Seq(S)
         /\ Append(s, e) # <<>>
         /\ Len(Append(s, e)) = Len(s) + 1
         /\ \A i \in 1..Len(s) : Append(s, e)[i] = s[i]
         /\ Append(s, e)[Len(s) + 1] = e
BY AppendProperties

\* The elements of a tail, one place earlier.
LEMMA TailElements ==
  ASSUME NEW S, NEW s \in Seq(S), s # <<>>
  PROVE  /\ Head(s) \in S /\ Head(s) = s[1]
         /\ Tail(s) \in Seq(S)
         /\ Len(s) \in Nat /\ Len(s) >= 1
         /\ Len(Tail(s)) = Len(s) - 1
         /\ \A i \in 1..(Len(s) - 1) : Tail(s)[i] = s[i + 1]
BY HeadTailProperties, EmptySeq

\* 1..n and the next number.
LEMMA AppendNext ==
  ASSUME NEW s \in Seq(1..MaxSends), s = [k \in 1..Len(s) |-> k], Len(s) + 1 \in 1..MaxSends
  PROVE  LET t == Append(s, Len(s) + 1) IN t = [k \in 1..Len(t) |-> k]
<1> DEFINE t == Append(s, Len(s) + 1)
           u == [k \in 1..(Len(s) + 1) |-> k]
<1>1. /\ t \in Seq(1..MaxSends) /\ Len(t) = Len(s) + 1
      /\ \A i \in 1..Len(s) : t[i] = s[i]
      /\ t[Len(s) + 1] = Len(s) + 1
  BY AppendElements
<1>2. Len(s) \in Nat
  OBVIOUS
<1>3. u \in Seq(Nat) /\ Len(u) = Len(s) + 1
  BY <1>2
<1>4. t \in Seq(Nat)
  BY <1>1, BoundsAssumption
<1>5. \A i \in 1..Len(s) : s[i] = i
  OBVIOUS
<1>6. \A i \in 1..Len(t) : t[i] = u[i]
  BY <1>1, <1>2, <1>5
<1>7. t = u
  BY <1>1, <1>3, <1>4, <1>6, SeqEqual
<1> QED
  BY <1>1, <1>7

-----------------------------------------------------------------------------
\* start makes a session and posts its run.
LEMMA ClientStartPreserves ==
  ASSUME SessionInv, ClientStart
  PROVE  SessionInv'
<1> DEFINE c == [call |-> "start", message |-> 0]
<1>1. /\ session = "none" /\ session' = "held" /\ inbox = <<>> /\ inbox' = Append(inbox, c)
      /\ UNCHANGED <<sent, sessionVars>>
      /\ state = "Idle" /\ sent = 0 /\ outgoingMessages = <<>> /\ wire = <<>> /\ write = "none"
  BY DEF ClientStart, Post, SessionInv, NoneInv
<1>2. UNCHANGED <<sent, state, op, opResult, reading, outgoingMessages, writing, write, wire,
                  received>>
  BY <1>1 DEF sessionVars, connectVars, writeVars
<1>3. c \in Calls
  BY BoundsAssumption DEF Calls
<1>4. inbox' \in Seq(Calls) /\ Len(inbox') = 1 /\ inbox'[1] = c
  BY <1>1, <1>3
<1>5. WriteLoop' /\ ConnectedInv' /\ WireInOrder'
  BY <1>1, <1>2, <1>4 DEF SessionInv, WriteLoop, TypeOK, ConnectedInv, WireInOrder
<1>6. QueueInv'
  BY <1>1, <1>2, <1>4 DEF QueueInv, Done, Starting, Stopping
<1> QED
  BY <1>1, <1>5, <1>6 DEF SessionInv, NoneInv

\* send posts a message.
LEMMA ClientSendPreserves ==
  ASSUME SessionInv, ClientSend
  PROVE  SessionInv'
<1> DEFINE c == [call |-> "send", message |-> sent + 1]
<1>1. /\ session = "held" /\ session' = "held" /\ inbox' = Append(inbox, c)
      /\ sent' = sent + 1 /\ sent < MaxSends
  BY DEF ClientSend, Post
<1>2. UNCHANGED <<state, op, opResult, reading, outgoingMessages, writing, write, wire, received>>
  BY DEF ClientSend, sessionVars, connectVars, writeVars
<1>3. c \in Calls /\ sent' \in 0..MaxSends /\ inbox \in Seq(Calls)
  BY <1>1, BoundsAssumption DEF Calls, SessionInv, WriteLoop, TypeOK
<1>4. /\ inbox' \in Seq(Calls) /\ Len(inbox') = Len(inbox) + 1 /\ Len(inbox) \in Nat
      /\ \A i \in 1..Len(inbox) : inbox'[i] = inbox[i]
      /\ inbox'[Len(inbox) + 1] = c
  BY <1>1, <1>3, AppendElements
<1>5. WriteLoop' /\ ConnectedInv' /\ WireInOrder'
  <2>1. TypeOK'
    BY <1>1, <1>2, <1>3, <1>4 DEF SessionInv, WriteLoop, TypeOK
  <2>2. WriteLoop' /\ ConnectedInv'
    BY <1>2, <2>1 DEF SessionInv, WriteLoop, ConnectedInv
  <2>3. WireInOrder'
    BY <1>1, <1>2, <1>3 DEF SessionInv, WriteLoop, TypeOK, WireInOrder
  <2> QED
    BY <2>2, <2>3
<1>6. QueueInv'
  <2> SUFFICES ASSUME state # "Stopped" PROVE QueueInv'
    BY <1>2 DEF QueueInv
  <2>1. Done' = Done /\ Starting' = Starting /\ Stopping' = 0 /\ Stopping = 0
    BY <1>1, <1>2 DEF Done, Starting, Stopping
  <2>2. Done \in Int /\ Starting \in 0..1 /\ Len(outgoingMessages) \in Nat
    BY DEF Done, Starting, SessionInv, WriteLoop, TypeOK
  <2>3. ASSUME NEW k \in 1..Len(inbox')
        PROVE  /\ inbox'[k].call = "start" <=> k = 1 /\ Starting' = 1
               /\ inbox'[k].call = "stop" <=> k = Len(inbox') /\ Stopping' = 1
               /\ inbox'[k].call = "send" =>
                    inbox'[k].message = Done' + Len(outgoingMessages)' + k - Starting'
    <3>1. CASE k \in 1..Len(inbox)
      BY <1>2, <1>4, <2>1, <3>1 DEF SessionInv, QueueInv
    <3>2. CASE k = Len(inbox) + 1
      BY <1>2, <1>4, <2>1, <2>2, <3>2 DEF SessionInv, QueueInv
    <3> QED
      BY <1>4, <3>1, <3>2
  <2> QED
    BY <1>1, <1>2, <1>4, <2>1, <2>2, <2>3 DEF SessionInv, QueueInv
<1>7. NoneInv'
  BY <1>1 DEF NoneInv
<1> QED
  BY <1>5, <1>6, <1>7 DEF SessionInv

\* stop posts the session's stop.
LEMMA ClientStopPreserves ==
  ASSUME SessionInv, ClientStop
  PROVE  SessionInv'
<1> DEFINE c == [call |-> "stop", message |-> 0]
<1>1. /\ session = "held" /\ session' = "released" /\ inbox' = Append(inbox, c)
      /\ UNCHANGED sent
  BY DEF ClientStop, Post
<1>2. UNCHANGED <<state, op, opResult, reading, outgoingMessages, writing, write, wire, received>>
  BY DEF ClientStop, sessionVars, connectVars, writeVars
<1>3. c \in Calls /\ inbox \in Seq(Calls)
  BY BoundsAssumption DEF Calls, SessionInv, WriteLoop, TypeOK
<1>4. /\ inbox' \in Seq(Calls) /\ Len(inbox') = Len(inbox) + 1 /\ Len(inbox) \in Nat
      /\ \A i \in 1..Len(inbox) : inbox'[i] = inbox[i]
      /\ inbox'[Len(inbox) + 1] = c
  BY <1>1, <1>3, AppendElements
<1>5. WriteLoop' /\ ConnectedInv' /\ WireInOrder' /\ NoneInv'
  BY <1>1, <1>2, <1>4 DEF SessionInv, WriteLoop, TypeOK, ConnectedInv, WireInOrder, NoneInv
<1>6. QueueInv'
  <2> SUFFICES ASSUME state # "Stopped" PROVE QueueInv'
    BY <1>2 DEF QueueInv
  <2>1. Done' = Done /\ Starting' = Starting /\ Stopping' = 1 /\ Stopping = 0
    BY <1>1, <1>2 DEF Done, Starting, Stopping
  <2>2. Done \in Int /\ Starting \in 0..1 /\ Len(outgoingMessages) \in Nat
    BY DEF Done, Starting, SessionInv, WriteLoop, TypeOK
  <2>3. ASSUME NEW k \in 1..Len(inbox')
        PROVE  /\ inbox'[k].call = "start" <=> k = 1 /\ Starting' = 1
               /\ inbox'[k].call = "stop" <=> k = Len(inbox') /\ Stopping' = 1
               /\ inbox'[k].call = "send" =>
                    inbox'[k].message = Done' + Len(outgoingMessages)' + k - Starting'
    <3>1. CASE k \in 1..Len(inbox)
      BY <1>2, <1>4, <2>1, <3>1 DEF SessionInv, QueueInv
    <3>2. CASE k = Len(inbox) + 1
      BY <1>2, <1>4, <2>1, <2>2, <3>2 DEF SessionInv, QueueInv
    <3> QED
      BY <1>4, <3>1, <3>2
  <2> QED
    BY <1>1, <1>2, <1>4, <2>1, <2>2, <2>3 DEF SessionInv, QueueInv
<1> QED
  BY <1>5, <1>6 DEF SessionInv

\* What running the first posted call does to those behind it.
LEMMA RunElements ==
  ASSUME SessionInv, NEW call \in {"start", "send", "stop"}, Run(call)
  PROVE  /\ inbox' \in Seq(Calls) /\ Len(inbox) \in Nat /\ Len(inbox) >= 1
         /\ Head(inbox) \in Calls /\ Head(inbox) = inbox[1] /\ inbox[1].call = call
         /\ Len(inbox') = Len(inbox) - 1
         /\ \A i \in 1..(Len(inbox) - 1) : inbox'[i] = inbox[i + 1]
         /\ session # "none"
<1>1. inbox # <<>> /\ inbox \in Seq(Calls) /\ inbox' = Tail(inbox) /\ Head(inbox).call = call
  BY DEF Run, SessionInv, WriteLoop, TypeOK
<1>2. session # "none"
  BY <1>1 DEF SessionInv, NoneInv
<1> QED
  BY <1>1, <1>2, TailElements

\* The posted run begins to resolve.
LEMMA RunStartPreserves ==
  ASSUME SessionInv, RunStart
  PROVE  SessionInv'
<1>1. /\ inbox' \in Seq(Calls) /\ Len(inbox) \in Nat /\ Len(inbox) >= 1
      /\ inbox[1].call = "start" /\ Len(inbox') = Len(inbox) - 1
      /\ \A i \in 1..(Len(inbox) - 1) : inbox'[i] = inbox[i + 1]
      /\ session # "none"
  BY RunElements DEF RunStart
<1>2. UNCHANGED <<session, sent, reading, outgoingMessages, writing, write, wire, received>>
  BY DEF RunStart, clientVars, writeVars
<1>3. \/ state = "Idle" /\ state' = "Connecting" /\ op' = "resolve" /\ opResult' = "running"
      \/ state # "Idle" /\ UNCHANGED <<state, op, opResult>>
  BY DEF RunStart, Begin, connectVars
<1>4. WriteLoop' /\ ConnectedInv' /\ WireInOrder' /\ NoneInv'
  BY <1>1, <1>2, <1>3
  DEF SessionInv, WriteLoop, TypeOK, ConnectedInv, WireInOrder, NoneInv, Steps
<1>5. QueueInv'
  <2> SUFFICES ASSUME state # "Stopped" PROVE QueueInv'
    BY <1>3 DEF QueueInv
  <2>1. Starting = 1 /\ state = "Idle"
    BY <1>1 DEF SessionInv, QueueInv, Starting
  <2>2. Done' = Done /\ Starting' = 0 /\ Stopping' = Stopping /\ Stopping \in 0..1
    BY <1>2, <1>3, <2>1 DEF Done, Starting, Stopping
  <2>3. Done \in Int /\ Len(outgoingMessages) \in Nat
    BY DEF Done, SessionInv, WriteLoop, TypeOK
  <2>4. Stopping = 1 => Len(inbox) > 1
    BY <1>1, <2>1 DEF SessionInv, QueueInv
  <2>5. ASSUME NEW k \in 1..Len(inbox')
        PROVE  /\ inbox'[k].call = "start" <=> k = 1 /\ Starting' = 1
               /\ inbox'[k].call = "stop" <=> k = Len(inbox') /\ Stopping' = 1
               /\ inbox'[k].call = "send" =>
                    inbox'[k].message = Done' + Len(outgoingMessages)' + k - Starting'
    <3>1. k + 1 \in 1..Len(inbox) /\ inbox'[k] = inbox[k + 1]
      BY <1>1
    <3>2. /\ inbox[k + 1].call = "start" <=> k + 1 = 1 /\ Starting = 1
          /\ inbox[k + 1].call = "stop" <=> k + 1 = Len(inbox) /\ Stopping = 1
          /\ inbox[k + 1].call = "send" =>
               inbox[k + 1].message = Done + Len(outgoingMessages) + (k + 1) - Starting
      BY <3>1 DEF SessionInv, QueueInv
    <3> QED
      BY <1>1, <1>2, <2>1, <2>2, <2>3, <3>1, <3>2
  <2> QED
    BY <1>1, <1>2, <2>1, <2>2, <2>3, <2>4, <2>5 DEF SessionInv, QueueInv
<1> QED
  BY <1>4, <1>5 DEF SessionInv

\* The posted stop clears the queue and closes the connection.
LEMMA RunStopPreserves ==
  ASSUME SessionInv, RunStop
  PROVE  SessionInv'
<1>1. inbox' \in Seq(Calls) /\ session # "none"
  BY RunElements DEF RunStop
<1>2. UNCHANGED <<session, sent, op, opResult, reading, write, wire, received>>
      /\ state' = "Stopped"
  BY DEF RunStop, StopNow, clientVars, connectVars
<1>3. /\ outgoingMessages' \in Seq(1..MaxSends) /\ writing' \in BOOLEAN
  <2>1. outgoingMessages \in Seq(1..MaxSends) /\ writing \in BOOLEAN
    BY DEF SessionInv, WriteLoop, TypeOK
  <2> QED
    BY <2>1, EmptySeq DEF RunStop, StopNow
<1>4. WriteLoop' /\ ConnectedInv' /\ WireInOrder' /\ NoneInv' /\ QueueInv'
  BY <1>1, <1>2, <1>3
  DEF SessionInv, WriteLoop, TypeOK, ConnectedInv, WireInOrder, NoneInv, QueueInv
<1> QED
  BY <1>4 DEF SessionInv

\* write() with the queue grown by one message, or shortened by one.
LEMMA RunSendPreserves ==
  ASSUME SessionInv, RunSend
  PROVE  SessionInv'
<1>1. /\ inbox' \in Seq(Calls) /\ Len(inbox) \in Nat /\ Len(inbox) >= 1
      /\ Head(inbox) \in Calls /\ Head(inbox) = inbox[1]
      /\ inbox[1].call = "send" /\ Len(inbox') = Len(inbox) - 1
      /\ \A i \in 1..(Len(inbox) - 1) : inbox'[i] = inbox[i + 1]
      /\ session # "none"
  BY RunElements DEF RunSend
<1>2. UNCHANGED <<session, sent, state, op, opResult, reading, wire, received>>
  BY DEF RunSend, clientVars, connectVars
<1>3. CASE state = "Stopped"
  <2>1. UNCHANGED <<outgoingMessages, writing, write>>
    BY <1>3 DEF RunSend, writeVars
  <2> QED
    BY <1>1, <1>2, <1>3, <2>1
    DEF SessionInv, WriteLoop, TypeOK, ConnectedInv, WireInOrder, NoneInv, QueueInv
<1>4. CASE state # "Stopped"
  <2> DEFINE m == inbox[1].message
  <2>1. Write(state, Append(outgoingMessages, m), writing)
    BY <1>1, <1>4 DEF RunSend
  <2>2. Starting = 0 /\ m = Done + Len(outgoingMessages) + 1
    BY <1>1, <1>4 DEF SessionInv, QueueInv, Starting
  <2>3. /\ Len(wire) \in Nat /\ Done \in Nat /\ Len(outgoingMessages) \in Nat
        /\ outgoingMessages \in Seq(1..MaxSends) /\ write \in {"running", "ok", "failed", "none"}
        /\ write = "ok" => Len(wire) >= 1
    <3>1. /\ wire \in Seq(1..MaxSends) /\ outgoingMessages \in Seq(1..MaxSends)
          /\ write \in {"running", "ok", "failed", "none"}
      BY DEF SessionInv, WriteLoop, TypeOK, Results
    <3>2. write = "ok" => wire # <<>>
      BY <1>4 DEF SessionInv, QueueInv
    <3> QED
      BY <3>1, <3>2, EmptySeq DEF Done
  <2>4. m \in 1..MaxSends
    BY <1>1, <2>2, <2>3 DEF Calls
  <2>5. /\ outgoingMessages' \in Seq(1..MaxSends) /\ outgoingMessages' # <<>>
        /\ Len(outgoingMessages') = Len(outgoingMessages) + 1
        /\ \A i \in 1..Len(outgoingMessages) : outgoingMessages'[i] = outgoingMessages[i]
        /\ outgoingMessages'[Len(outgoingMessages) + 1] = m
    BY <2>1, <2>3, <2>4, AppendElements DEF Write
  <2>6. /\ writing' <=> writing \/ state = "Connected"
        /\ writing' \in BOOLEAN
        /\ write' = IF state = "Connected" /\ ~writing THEN "running"
                    ELSE IF writing THEN write ELSE "none"
    BY <2>1, <2>5 DEF Write, SessionInv, WriteLoop, TypeOK
  <2>7. writing <=> write # "none"
    BY <1>4 DEF SessionInv, WriteLoop
  <2>8. Done' = Done /\ (write' = "ok" => write = "ok")
    BY <1>2, <2>6, <2>7 DEF Done
  <2>9. WriteLoop' /\ ConnectedInv' /\ WireInOrder' /\ NoneInv'
    <3>1. TypeOK'
      BY <1>1, <1>2, <2>5, <2>6 DEF SessionInv, WriteLoop, TypeOK, Results
    <3>2. WriteLoop'
      BY <1>2, <2>5, <2>6, <2>7, <3>1 DEF WriteLoop
    <3> QED
      BY <1>1, <1>2, <2>6, <2>7, <3>2 DEF SessionInv, ConnectedInv, WireInOrder, NoneInv
  <2>10. QueueInv'
    <3>1. Starting' = 0 /\ Stopping' = Stopping /\ Stopping \in 0..1
      BY <1>2, <2>2 DEF Starting, Stopping
    <3>2. ASSUME NEW i \in 1..Len(outgoingMessages') PROVE outgoingMessages'[i] = Done' + i
      <4>1. \A j \in 1..Len(outgoingMessages) : outgoingMessages[j] = Done + j
        BY <1>4 DEF SessionInv, QueueInv
      <4>2. CASE i \in 1..Len(outgoingMessages)
        BY <2>5, <2>8, <4>1, <4>2
      <4>3. CASE i = Len(outgoingMessages) + 1
        BY <2>2, <2>3, <2>5, <2>8, <4>3
      <4> QED
        BY <2>3, <2>5, <4>2, <4>3
    <3>3. ASSUME NEW k \in 1..Len(inbox')
          PROVE  /\ inbox'[k].call = "start" <=> k = 1 /\ Starting' = 1
                 /\ inbox'[k].call = "stop" <=> k = Len(inbox') /\ Stopping' = 1
                 /\ inbox'[k].call = "send" =>
                      inbox'[k].message = Done' + Len(outgoingMessages)' + k - Starting'
      <4>1. k + 1 \in 1..Len(inbox) /\ inbox'[k] = inbox[k + 1]
        BY <1>1
      <4>2. /\ inbox[k + 1].call = "start" <=> k + 1 = 1 /\ Starting = 1
            /\ inbox[k + 1].call = "stop" <=> k + 1 = Len(inbox) /\ Stopping = 1
            /\ inbox[k + 1].call = "send" =>
                 inbox[k + 1].message = Done + Len(outgoingMessages) + (k + 1) - Starting
        BY <1>4, <4>1 DEF SessionInv, QueueInv
      <4> QED
        BY <1>1, <2>2, <2>3, <2>5, <2>8, <3>1, <4>1, <4>2
    <3>4. Stopping = 1 => Len(inbox) > 1
      BY <1>1, <1>4 DEF SessionInv, QueueInv
    <3>5. sent = Done + Len(outgoingMessages) + Len(inbox) - Starting - Stopping
          /\ (write = "ok" => wire # <<>>)
      BY <1>4 DEF SessionInv, QueueInv
    <3>6. Starting' + Stopping' <= Len(inbox')
      BY <1>1, <3>1, <3>4
    <3>7. sent' = Done' + Len(outgoingMessages') + Len(inbox') - Starting' - Stopping'
      BY <1>1, <1>2, <2>2, <2>3, <2>5, <2>8, <3>1, <3>5
    <3>8. write' = "ok" => wire' # <<>>
      BY <1>2, <2>8, <3>5
    <3> QED
      BY <3>2, <3>3, <3>6, <3>7, <3>8 DEF QueueInv
  <2> QED
    BY <2>9, <2>10 DEF SessionInv
<1> QED
  BY <1>3, <1>4

\* A stop leaves only what holds of a stopped session.
LEMMA StoppedPreserves ==
  ASSUME SessionInv, state' = "Stopped", session # "none",
         UNCHANGED <<session, sent, inbox, wire, received>>,
         op' \in Steps \cup {"none"}, opResult' \in Results \cup {"running"},
         reading' \in {reading, "none"}, write' \in {write, "none"},
         \/ UNCHANGED <<outgoingMessages, writing>>
         \/ outgoingMessages' = <<>> /\ writing' = FALSE
  PROVE  SessionInv'
<1>1. outgoingMessages \in Seq(1..MaxSends) /\ writing \in BOOLEAN
  BY DEF SessionInv, WriteLoop, TypeOK
<1>2. outgoingMessages' \in Seq(1..MaxSends) /\ writing' \in BOOLEAN
  BY <1>1, EmptySeq
<1>3. TypeOK'
  BY <1>2 DEF SessionInv, WriteLoop, TypeOK
<1> QED
  BY <1>3 DEF SessionInv, WriteLoop, WireInOrder, QueueInv, ConnectedInv, NoneInv

\* What says nothing of the operation outstanding while connecting, of the reads
\* or of a failed write is kept when only these change.
LEMMA QuietPreserves ==
  ASSUME SessionInv, TypeOK', UNCHANGED <<clientVars, inbox, outgoingMessages, writing, wire>>,
         state' = state, write' = write \/ (write = "running" /\ write' = "failed"),
         ConnectedInv'
  PROVE  SessionInv'
<1>1. WriteLoop'
  BY DEF SessionInv, WriteLoop, TypeOK, ConnectedInv
<1>2. WireInOrder'
  BY DEF SessionInv, WireInOrder, clientVars
<1>3. QueueInv'
  <2>1. Done' = Done /\ Starting' = Starting /\ Stopping' = Stopping
    BY DEF Done, Starting, Stopping, clientVars
  <2> QED
    BY <2>1 DEF SessionInv, QueueInv, clientVars
<1>4. NoneInv'
  BY DEF SessionInv, NoneInv, clientVars
<1> QED
  BY <1>1, <1>2, <1>3, <1>4 DEF SessionInv

\* The four handlers of the connecting steps; the last starts the read and the
\* first write.
LEMMA OnStepPreserves ==
  ASSUME SessionInv, NEW o \in Steps, OnStep(o)
  PROVE  SessionInv'
<1>1. /\ op = o /\ opResult \in Results
      /\ UNCHANGED <<clientVars, inbox, wire, received>>
  BY DEF OnStep, SessionInv, WriteLoop, TypeOK
<1>2. session # "none" /\ op # "none"
  BY <1>1 DEF Steps, SessionInv, WriteLoop, TypeOK, NoneInv
<1>3. CASE state # "Connecting"
  <2>1. op' = "none" /\ opResult' = "running"
        /\ UNCHANGED <<state, reading, outgoingMessages, writing, write>>
    BY <1>3 DEF OnStep, Begin, writeVars
  <2>2. TypeOK'
    BY <1>1, <1>2, <1>3, <2>1 DEF SessionInv, WriteLoop, TypeOK, clientVars
  <2>3. ConnectedInv'
    BY <1>1, <2>1 DEF SessionInv, ConnectedInv
  <2> QED
    BY <1>1, <2>1, <2>2, <2>3, QuietPreserves
<1>4. CASE state = "Connecting" /\ opResult = "failed"
  <2>1. op' = "none" /\ opResult' = "running" /\ UNCHANGED <<reading, write>> /\ StopNow
    BY <1>4 DEF OnStep, Begin
  <2>2. state' = "Stopped" /\ \/ UNCHANGED <<outgoingMessages, writing>>
                              \/ outgoingMessages' = <<>> /\ writing' = FALSE
    BY <2>1 DEF StopNow
  <2> QED
    BY <1>1, <1>2, <2>1, <2>2, StoppedPreserves DEF clientVars
<1>5. CASE state = "Connecting" /\ opResult = "ok" /\ o # "handshake"
  <2>1. /\ op' = FollowedBy[o] /\ opResult' = "running"
        /\ UNCHANGED <<state, reading, outgoingMessages, writing, write>>
    BY <1>5 DEF OnStep, Begin, writeVars
  <2>2. FollowedBy[o] \in Steps /\ FollowedBy[o] # "none"
    BY <1>5 DEF FollowedBy, Steps
  <2>3. TypeOK'
    BY <1>1, <1>5, <2>1, <2>2 DEF SessionInv, WriteLoop, TypeOK, clientVars
  <2>4. ConnectedInv'
    BY <1>1, <2>1 DEF SessionInv, ConnectedInv
  <2> QED
    BY <1>1, <2>1, <2>3, <2>4, QuietPreserves
<1>6. CASE state = "Connecting" /\ opResult = "ok" /\ o = "handshake"
  <2>1. /\ op' = "none" /\ opResult' = "running" /\ state' = "Connected" /\ reading' = "running"
        /\ Write("Connected", outgoingMessages, writing)
    BY <1>6 DEF OnStep, Begin
  <2>2. reading = "none" /\ write = "none" /\ ~writing
    BY <1>6 DEF SessionInv, ConnectedInv, WriteLoop
  <2>3. /\ outgoingMessages' = outgoingMessages
        /\ writing' = (outgoingMessages # <<>>)
        /\ write' = IF outgoingMessages # <<>> THEN "running" ELSE "none"
    BY <2>1, <2>2 DEF Write
  <2>4. TypeOK'
    BY <1>1, <2>1, <2>3 DEF SessionInv, WriteLoop, TypeOK, clientVars
  <2>5. WriteLoop' /\ ConnectedInv' /\ WireInOrder' /\ NoneInv'
    BY <1>1, <1>2, <2>1, <2>3, <2>4
    DEF SessionInv, WriteLoop, ConnectedInv, WireInOrder, NoneInv, clientVars
  <2>6. Done' = Done /\ Starting' = Starting /\ Stopping' = Stopping
    BY <1>1, <1>6, <2>1, <2>2, <2>3 DEF Done, Starting, Stopping, clientVars
  <2>7. QueueInv'
    BY <1>1, <1>6, <2>1, <2>2, <2>3, <2>6 DEF SessionInv, QueueInv, clientVars
  <2> QED
    BY <2>5, <2>7 DEF SessionInv
<1> QED
  BY <1>1, <1>3, <1>4, <1>5, <1>6 DEF Results

\* The read handler.
LEMMA OnReadPreserves ==
  ASSUME SessionInv, OnRead
  PROVE  SessionInv'
<1>1. reading \in {"ok", "failed"} /\ UNCHANGED <<clientVars, inbox, op, opResult, write, wire>>
  BY DEF OnRead, connectVars
<1>2. session # "none" /\ state \in {"Connected", "Stopped"}
  BY <1>1 DEF SessionInv, ConnectedInv, NoneInv
<1>3. CASE state # "Connected"
  <2>1. reading' = "none" /\ UNCHANGED <<state, outgoingMessages, writing, received>>
    BY <1>3 DEF OnRead
  <2>2. TypeOK' /\ ConnectedInv'
    BY <1>1, <1>2, <1>3, <2>1 DEF SessionInv, WriteLoop, TypeOK, ConnectedInv, clientVars
  <2> QED
    BY <1>1, <2>1, <2>2, QuietPreserves
<1>4. CASE state = "Connected" /\ reading = "failed"
  <2>1. reading' = "none" /\ StopNow /\ UNCHANGED received
    BY <1>4 DEF OnRead
  <2>2. state' = "Stopped" /\ \/ UNCHANGED <<outgoingMessages, writing>>
                              \/ outgoingMessages' = <<>> /\ writing' = FALSE
    BY <2>1 DEF StopNow
  <2>3. op \in Steps \cup {"none"} /\ opResult \in Results \cup {"running"}
    BY DEF SessionInv, WriteLoop, TypeOK
  <2> QED
    BY <1>1, <1>2, <2>1, <2>2, <2>3, StoppedPreserves DEF clientVars
<1>5. CASE state = "Connected" /\ reading = "ok"
  <2>1. /\ received' = received + 1 /\ reading' = "running"
        /\ UNCHANGED <<state, outgoingMessages, writing>>
    BY <1>5 DEF OnRead
  <2>2. received < MaxReceived
    BY <1>5 DEF SessionInv, ConnectedInv
  <2>3. received' \in 0..MaxReceived
    BY <2>1, <2>2, BoundsAssumption DEF SessionInv, WriteLoop, TypeOK
  <2>4. TypeOK'
    BY <1>1, <1>5, <2>1, <2>3 DEF SessionInv, WriteLoop, TypeOK, clientVars
  <2>5. ConnectedInv'
    BY <1>1, <1>5, <2>1 DEF SessionInv, ConnectedInv
  <2> QED
    BY <1>1, <2>1, <2>4, <2>5, QuietPreserves
<1> QED
  BY <1>1, <1>3, <1>4, <1>5

\* The write handler takes the front off the queue and writes the next.
LEMMA OnWritePreserves ==
  ASSUME SessionInv, OnWrite
  PROVE  SessionInv'
<1>1. write \in {"ok", "failed"}
      /\ UNCHANGED <<clientVars, inbox, op, opResult, reading, wire, received>>
  BY DEF OnWrite, connectVars
<1>2. session # "none" /\ state \in {"Connected", "Stopped"}
  BY <1>1 DEF SessionInv, ConnectedInv, NoneInv
<1>3. op \in Steps \cup {"none"} /\ opResult \in Results \cup {"running"}
  BY DEF SessionInv, WriteLoop, TypeOK
<1>4. CASE state = "Stopped"
  <2>1. write' = "none" /\ UNCHANGED <<state, outgoingMessages, writing>>
    BY <1>4 DEF OnWrite
  <2> QED
    BY <1>1, <1>2, <1>3, <1>4, <2>1, StoppedPreserves DEF clientVars
<1>5. CASE state # "Stopped" /\ write = "failed"
  <2>1. write' = "none" /\ StopNow
    BY <1>5 DEF OnWrite
  <2>2. state' = "Stopped" /\ \/ UNCHANGED <<outgoingMessages, writing>>
                              \/ outgoingMessages' = <<>> /\ writing' = FALSE
    BY <2>1 DEF StopNow
  <2> QED
    BY <1>1, <1>2, <1>3, <2>1, <2>2, StoppedPreserves DEF clientVars
<1>6. CASE state # "Stopped" /\ write = "ok"
  <2>1. Write(state, Tail(outgoingMessages), FALSE) /\ state' = state /\ state = "Connected"
    BY <1>2, <1>6 DEF OnWrite
  <2>2. outgoingMessages \in Seq(1..MaxSends) /\ outgoingMessages # <<>>
        /\ wire \in Seq(1..MaxSends)
    BY <1>6 DEF SessionInv, WriteLoop, TypeOK
  <2>3. /\ outgoingMessages' = Tail(outgoingMessages)
        /\ outgoingMessages' \in Seq(1..MaxSends)
        /\ Len(outgoingMessages) \in Nat /\ Len(outgoingMessages) >= 1
        /\ Len(outgoingMessages') = Len(outgoingMessages) - 1
        /\ \A i \in 1..(Len(outgoingMessages) - 1) : outgoingMessages'[i] = outgoingMessages[i + 1]
    BY <2>1, <2>2, TailElements DEF Write
  <2>4. /\ writing' = (outgoingMessages' # <<>>)
        /\ write' = IF outgoingMessages' # <<>> THEN "running" ELSE "none"
    BY <2>1, <2>3 DEF Write
  <2>5. TypeOK'
    BY <1>1, <2>1, <2>3, <2>4 DEF SessionInv, WriteLoop, TypeOK, clientVars
  <2>6. WriteLoop' /\ ConnectedInv' /\ WireInOrder' /\ NoneInv'
    BY <1>1, <1>2, <2>1, <2>4, <2>5
    DEF SessionInv, WriteLoop, ConnectedInv, WireInOrder, NoneInv, clientVars
  <2>7. /\ Done' = Done + 1 /\ Done \in Int
        /\ Starting' = Starting /\ Stopping' = Stopping /\ Starting = 0 /\ Stopping \in 0..1
    BY <1>1, <1>6, <2>1, <2>2, <2>4 DEF Done, Starting, Stopping, clientVars
  <2>8. QueueInv'
    <3>1. ASSUME NEW i \in 1..Len(outgoingMessages') PROVE outgoingMessages'[i] = Done' + i
      <4>1. i + 1 \in 1..Len(outgoingMessages) /\ outgoingMessages'[i] = outgoingMessages[i + 1]
        BY <2>3
      <4>2. outgoingMessages[i + 1] = Done + (i + 1)
        BY <1>6, <4>1 DEF SessionInv, QueueInv
      <4> QED
        BY <2>3, <2>7, <4>1, <4>2
    <3>2. Done' + Len(outgoingMessages') = Done + Len(outgoingMessages)
      BY <2>3, <2>7
    <3>3. /\ Starting + Stopping <= Len(inbox)
          /\ sent = Done + Len(outgoingMessages) + Len(inbox) - Starting - Stopping
      BY <1>6 DEF SessionInv, QueueInv
    <3>4. ASSUME NEW k \in 1..Len(inbox')
          PROVE  /\ inbox'[k].call = "start" <=> k = 1 /\ Starting' = 1
                 /\ inbox'[k].call = "stop" <=> k = Len(inbox') /\ Stopping' = 1
                 /\ inbox'[k].call = "send" =>
                      inbox'[k].message = Done' + Len(outgoingMessages)' + k - Starting'
      <4>1. /\ inbox[k].call = "start" <=> k = 1 /\ Starting = 1
            /\ inbox[k].call = "stop" <=> k = Len(inbox) /\ Stopping = 1
            /\ inbox[k].call = "send" =>
                 inbox[k].message = Done + Len(outgoingMessages) + k - Starting
        BY <1>1, <1>6 DEF SessionInv, QueueInv
      <4> QED
        BY <1>1, <2>7, <3>2, <4>1
    <3>5. sent' = Done' + Len(outgoingMessages') + Len(inbox') - Starting' - Stopping'
      BY <1>1, <2>7, <3>2, <3>3 DEF clientVars
    <3> QED
      BY <1>1, <2>4, <2>7, <3>1, <3>3, <3>4, <3>5 DEF QueueInv
  <2> QED
    BY <2>6, <2>8 DEF SessionInv
<1> QED
  BY <1>1, <1>4, <1>5, <1>6

-----------------------------------------------------------------------------
\* A connecting operation ends.
LEMMA StepEndsPreserves ==
  ASSUME SessionInv, NEW result \in Results, StepEnds(result)
  PROVE  SessionInv'
<1>1. TypeOK' /\ ConnectedInv'
  BY DEF StepEnds, SessionInv, WriteLoop, TypeOK, ConnectedInv, clientVars, writeVars
<1> QED
  BY <1>1, QuietPreserves DEF StepEnds, writeVars

\* A read ends.
LEMMA ReadEndsPreserves ==
  ASSUME SessionInv, NEW result \in Results, ReadEnds(result)
  PROVE  SessionInv'
<1>1. TypeOK'
  BY DEF ReadEnds, SessionInv, WriteLoop, TypeOK, clientVars, writeVars, connectVars
<1>2. ConnectedInv'
  BY DEF ReadEnds, SessionInv, ConnectedInv, writeVars, Results
<1> QED
  BY <1>1, <1>2, QuietPreserves DEF ReadEnds, writeVars

\* A write ends; its message is on the wire or not.
LEMMA WriteEndsPreserves ==
  ASSUME SessionInv, NEW result \in Results, WriteEnds(result)
  PROVE  SessionInv'
<1>1. /\ write = "running" /\ write' = result
      /\ UNCHANGED <<clientVars, inbox, state, op, opResult, reading, outgoingMessages, writing,
                     received>>
  BY DEF WriteEnds, connectVars
<1>2. CASE result = "failed"
  <2>1. wire' = wire
    BY <1>2 DEF WriteEnds
  <2>2. TypeOK' /\ ConnectedInv'
    BY <1>1, <1>2, <2>1 DEF SessionInv, WriteLoop, TypeOK, ConnectedInv, clientVars, Results
  <2> QED
    BY <1>1, <1>2, <2>1, <2>2, QuietPreserves
<1>3. CASE result = "ok"
  <2>1. state # "Stopped" /\ wire' = Append(wire, Head(outgoingMessages))
    BY <1>3 DEF WriteEnds
  <2>2. /\ outgoingMessages \in Seq(1..MaxSends) /\ outgoingMessages # <<>>
        /\ wire \in Seq(1..MaxSends) /\ Len(wire) \in Nat /\ inbox \in Seq(Calls)
    BY <1>1, <2>1 DEF SessionInv, WriteLoop, TypeOK
  <2>3. /\ Head(outgoingMessages) = outgoingMessages[1] /\ outgoingMessages[1] \in 1..MaxSends
        /\ Len(outgoingMessages) \in Nat /\ Len(outgoingMessages) >= 1
    BY <2>2, TailElements
  <2>4. Done = Len(wire)
    BY <1>1, <2>2 DEF Done
  <2>5. outgoingMessages[1] = Len(wire) + 1
    BY <2>1, <2>3, <2>4 DEF SessionInv, QueueInv
  <2>6. /\ wire' \in Seq(1..MaxSends) /\ Len(wire') = Len(wire) + 1 /\ wire' # <<>>
        /\ wire' = [k \in 1..Len(wire') |-> k]
    <3>1. wire' = Append(wire, Len(wire) + 1) /\ Len(wire) + 1 \in 1..MaxSends
      BY <2>1, <2>3, <2>5
    <3>2. wire = [k \in 1..Len(wire) |-> k]
      BY DEF SessionInv, WireInOrder
    <3>3. wire' = [k \in 1..Len(wire') |-> k]
      BY <2>2, <3>1, <3>2, AppendNext
    <3>4. wire' \in Seq(1..MaxSends) /\ wire' # <<>> /\ Len(wire') = Len(wire) + 1
      <4> DEFINE e == Len(wire) + 1
      <4>1. e \in 1..MaxSends
        BY <3>1
      <4>2. wire' = Append(wire, e)
        BY <3>1
      <4> HIDE DEF e
      <4> QED
        BY <2>2, <4>1, <4>2, AppendElements
    <3> QED
      BY <3>3, <3>4
  <2>7. Done' = Done /\ Starting' = Starting /\ Stopping' = Stopping
    BY <1>1, <1>3, <2>2, <2>4, <2>6 DEF Done, Starting, Stopping, clientVars
  <2>8. sent >= Len(wire')
    <3>1. /\ Starting + Stopping <= Len(inbox)
          /\ sent = Done + Len(outgoingMessages) + Len(inbox) - Starting - Stopping
      BY <2>1 DEF SessionInv, QueueInv
    <3>2. Starting \in 0..1 /\ Stopping \in 0..1 /\ Len(inbox) \in Nat
      BY <2>2 DEF Starting, Stopping
    <3> QED
      BY <2>2, <2>3, <2>4, <2>6, <3>1, <3>2
  <2>9. WireInOrder'
    BY <1>1, <2>6, <2>8, <2>2 DEF WireInOrder, clientVars, SessionInv, WriteLoop, TypeOK
  <2>10. TypeOK'
    BY <1>1, <1>3, <2>6 DEF SessionInv, WriteLoop, TypeOK, clientVars
  <2>11. WriteLoop' /\ ConnectedInv' /\ NoneInv'
    BY <1>1, <1>3, <2>1, <2>10 DEF SessionInv, WriteLoop, ConnectedInv, NoneInv, clientVars
  <2>12. QueueInv'
    BY <1>1, <2>1, <2>6, <2>7 DEF SessionInv, QueueInv, clientVars
  <2> QED
    BY <2>9, <2>11, <2>12 DEF SessionInv
<1> QED
  BY <1>2, <1>3 DEF Results

-----------------------------------------------------------------------------
\* No session, nothing sent.
LEMMA InitIInv == InitPrograms => IInv
<1> SUFFICES ASSUME InitPrograms PROVE IInv
  OBVIOUS
<1>1. TypeOK
  <2>1. <<>> \in Seq(Calls) /\ <<>> \in Seq(1..MaxSends)
    BY EmptySeq
  <2>2. 0 \in 0..MaxSends /\ 0 \in 0..MaxReceived
    BY BoundsAssumption
  <2> QED
    BY <2>1, <2>2 DEF InitPrograms, Init, TypeOK, Results
<1>2. WriteLoop /\ ConnectedInv /\ NoneInv
  BY <1>1 DEF InitPrograms, Init, WriteLoop, ConnectedInv, NoneInv
<1>3. WireInOrder
  <2>1. wire = <<>> /\ sent = 0
    BY DEF InitPrograms, Init
  <2>2. Len(wire) = 0 /\ wire = [k \in 1..0 |-> k]
    BY <2>1
  <2> QED
    BY <2>1, <2>2 DEF WireInOrder
<1>4. QueueInv
  BY DEF InitPrograms, Init, QueueInv, Done, Starting, Stopping
<1>5. ProgramInv
  BY DEF InitPrograms, Init, ProgramInv
<1> QED
  BY <1>2, <1>3, <1>4, <1>5 DEF IInv, SessionInv

\* A session that has nothing to do although it was started has stopped.
LEMMA QuietMeansStopped ==
  ASSUME SessionInv, session # "none", Quiet
  PROVE  state = "Stopped"
<1>1. inbox = <<>> /\ op = "none" /\ reading = "none"
  BY DEF Quiet
<1>2. state # "Connecting" /\ state # "Connected"
  BY <1>1 DEF SessionInv, WriteLoop, TypeOK, ConnectedInv
<1>3. state # "Idle"
  BY <1>1 DEF SessionInv, QueueInv, Starting, Stopping
<1> QED
  BY <1>2, <1>3 DEF SessionInv, WriteLoop, TypeOK

\* The user data stream starts and sends before the context runs.
LEMMA StreamStartsPreserves ==
  ASSUME IInv, StreamStarts
  PROVE  IInv'
<1> DEFINE start == [call |-> "start", message |-> 0]
           send == [call |-> "send", message |-> 1]
<1>1. /\ program = "userDataStream" /\ main = "start" /\ main' = "run" /\ run' = "running"
      /\ program' = program /\ session' = "held" /\ sent' = 1 /\ inbox' = <<start, send>>
      /\ UNCHANGED <<state, op, opResult, reading, outgoingMessages, writing, write, wire,
                     received>>
  BY DEF StreamStarts, At, Goes, sessionVars, connectVars, writeVars
<1>2. /\ state = "Idle" /\ outgoingMessages = <<>> /\ wire = <<>> /\ write = "none"
      /\ SessionInv
  BY <1>1 DEF IInv, ProgramInv, SessionInv, NoneInv
<1>3. start \in Calls /\ send \in Calls /\ 1 \in 0..MaxSends
  BY BoundsAssumption DEF Calls
<1>4. inbox' \in Seq(Calls) /\ Len(inbox') = 2 /\ inbox'[1] = start /\ inbox'[2] = send
  BY <1>1, <1>3
<1>5. TypeOK'
  BY <1>1, <1>2, <1>3, <1>4 DEF SessionInv, WriteLoop, TypeOK
<1>6. WriteLoop' /\ ConnectedInv' /\ NoneInv' /\ ProgramInv'
  BY <1>1, <1>2, <1>5 DEF SessionInv, WriteLoop, ConnectedInv, NoneInv, ProgramInv
<1>7. WireInOrder'
  BY <1>1, <1>2 DEF SessionInv, WireInOrder
<1>8. QueueInv'
  <2>1. Done' = 0 /\ Starting' = 1 /\ Stopping' = 0 /\ Len(outgoingMessages') = 0
    BY <1>1, <1>2 DEF Done, Starting, Stopping
  <2>2. ASSUME NEW k \in 1..Len(inbox')
        PROVE  /\ inbox'[k].call = "start" <=> k = 1 /\ Starting' = 1
               /\ inbox'[k].call = "stop" <=> k = Len(inbox') /\ Stopping' = 1
               /\ inbox'[k].call = "send" =>
                    inbox'[k].message = Done' + Len(outgoingMessages)' + k - Starting'
    <3>1. k = 1 \/ k = 2
      BY <1>4
    <3> QED
      BY <1>4, <2>1, <3>1
  <2> QED
    BY <1>1, <1>2, <1>4, <2>1, <2>2 DEF QueueInv
<1> QED
  BY <1>6, <1>7, <1>8 DEF IInv, SessionInv

\* One step per action of the programs; each handler is a lemma above.
LEMMA NextIInv == IInv /\ [Next]_allVars => IInv'
<1> SUFFICES ASSUME IInv, [Next]_allVars PROVE IInv'
  OBVIOUS
<1> USE DEF ProgramInv, programVars, At, Goes
<1>0. SessionInv
  BY DEF IInv
<1>1. ASSUME UNCHANGED vars PROVE SessionInv'
  <2>1. /\ UNCHANGED <<session, sent, inbox, state, op, opResult, reading, received>>
        /\ UNCHANGED <<writing, outgoingMessages, write, wire>>
    BY <1>1 DEF vars, clientVars, connectVars, writeVars
  <2>2. WriteLoop'
    BY <1>0, <2>1 DEF SessionInv, WriteLoop, TypeOK
  <2>3. WireInOrder'
    BY <1>0, <2>1 DEF SessionInv, WireInOrder
  <2>4. QueueInv'
    BY <1>0, <2>1 DEF SessionInv, QueueInv, Done, Starting, Stopping
  <2>5. ConnectedInv' /\ NoneInv'
    BY <1>0, <2>1 DEF SessionInv, ConnectedInv, NoneInv
  <2> QED
    BY <2>2, <2>3, <2>4, <2>5 DEF SessionInv
<1>2. ASSUME Client PROVE SessionInv' /\ state' = state /\ session' # "none"
  BY <1>0, <1>2, ClientStartPreserves, ClientSendPreserves, ClientStopPreserves
  DEF Client, ClientStart, ClientSend, ClientStop, sessionVars
<1>3. CASE AnyClient
  BY <1>2, <1>3 DEF AnyClient, IInv
<1>4. CASE StreamRefuses
  BY <1>1, <1>4 DEF StreamRefuses, IInv, vars, clientVars
<1>5. CASE StreamStarts
  BY <1>5, StreamStartsPreserves
<1>6. CASE StreamDestroyed
  BY <1>2, <1>6 DEF StreamDestroyed, Client, IInv
<1>7. CASE DemoStarts
  BY <1>2, <1>7 DEF DemoStarts, Client, IInv
<1>8. CASE ThreadRuns
  BY <1>1, <1>8 DEF ThreadRuns, IInv, vars, clientVars
<1>9. CASE DemoSends
  BY <1>2, <1>9 DEF DemoSends, Client, IInv
<1>10. CASE DemoStops
  BY <1>2, <1>10 DEF DemoStops, Client, IInv
<1>11. CASE DemoStopsContext
  BY <1>1, <1>11 DEF DemoStopsContext, IInv, vars, clientVars
<1>12. ASSUME UNCHANGED programVars, SessionInv', UNCHANGED clientVars,
              state = "Stopped" => state' = "Stopped"
       PROVE  IInv'
  BY <1>12 DEF IInv, clientVars
<1>13. CASE RunsPosted
  <2>1. SessionInv' /\ UNCHANGED clientVars
    BY <1>0, <1>13, RunStartPreserves, RunSendPreserves, RunStopPreserves
    DEF RunsPosted, Runs, Posted, RunStart, RunSend, RunStop
  <2>2. state = "Stopped" => state' = "Stopped"
    BY <1>13 DEF RunsPosted, Runs, Posted, RunStart, RunSend, RunStop, StopNow
  <2> QED
    BY <1>12, <1>13, <2>1, <2>2 DEF RunsPosted, Runs
<1>14. CASE RunsConnecting
  <2>1. PICK o \in Steps : OnStep(o)
    BY <1>14 DEF RunsConnecting, Runs
  <2>2. UNCHANGED clientVars /\ (state = "Stopped" => state' = "Stopped")
    BY <2>1 DEF OnStep, StopNow
  <2> QED
    BY <1>0, <1>12, <1>14, <2>1, <2>2, OnStepPreserves DEF RunsConnecting, Runs
<1>15. CASE RunsReading
  <2>1. OnRead /\ UNCHANGED programVars
    BY <1>15 DEF RunsReading, Runs
  <2>2. UNCHANGED clientVars /\ (state = "Stopped" => state' = "Stopped")
    BY <2>1 DEF OnRead, StopNow
  <2> QED
    BY <1>0, <1>12, <2>1, <2>2, OnReadPreserves
<1>16. CASE RunsWriting
  <2>1. OnWrite /\ UNCHANGED programVars
    BY <1>16 DEF RunsWriting, Runs
  <2>2. UNCHANGED clientVars /\ (state = "Stopped" => state' = "Stopped")
    BY <2>1 DEF OnWrite, StopNow
  <2> QED
    BY <1>0, <1>12, <2>1, <2>2, OnWritePreserves
<1>17. CASE RunReturns
  <2>1. state = "Stopped"
    BY <1>0, <1>17, QuietMeansStopped DEF RunReturns, IInv
  <2> QED
    BY <1>1, <1>17, <2>1 DEF RunReturns, IInv, vars, clientVars
<1>18. CASE Network
  <2>1. PICK result \in Results : StepEnds(result) \/ ReadEnds(result) \/ WriteEnds(result)
    BY <1>18 DEF Network
  <2>2. SessionInv'
    BY <1>0, <2>1, StepEndsPreserves, ReadEndsPreserves, WriteEndsPreserves
  <2>3. UNCHANGED clientVars /\ state' = state
    BY <2>1 DEF StepEnds, ReadEnds, WriteEnds
  <2> QED
    BY <1>12, <1>18, <2>2, <2>3 DEF Network
<1>19. CASE UNCHANGED allVars
  BY <1>1, <1>12, <1>19 DEF allVars, vars
<1> QED
  BY <1>3, <1>4, <1>5, <1>6, <1>7, <1>8, <1>9, <1>10, <1>11, <1>13, <1>14, <1>15, <1>16, <1>17,
     <1>18, <1>19 DEF Next, Ended

\* The inductive invariant of the session in its programs.
THEOREM InductiveInvariant == Spec => []IInv
BY InitIInv, NextIInv, PTL DEF Spec

\* The flag writing tells whether a write is under way, and no queued message
\* waits for a write nobody starts.
THEOREM WriteLoopHolds == Spec => []WriteLoop
<1>1. IInv => WriteLoop
  BY DEF IInv, SessionInv
<1> QED
  BY <1>1, InductiveInvariant, PTL

\* Messages reach the wire in the order send was called, each once, none skipped.
THEOREM WireKeepsOrder == Spec => []WireInOrder
<1>1. IInv => WireInOrder
  BY DEF IInv, SessionInv
<1> QED
  BY <1>1, InductiveInvariant, PTL

\* io_context::run returns by itself only when the session has stopped.
THEOREM RunKeepsASession == Spec => []RunKeepsSession
<1>1. IInv => RunKeepsSession
  BY DEF IInv, SessionInv, ConnectedInv, ProgramInv, RunKeepsSession
<1> QED
  BY <1>1, InductiveInvariant, PTL

\* Whatever handlers are still to run, a stopped session stays stopped, hands
\* nothing to the handler and starts no operation.
THEOREM StoppedStaysStopped == Spec => StoppedIsFinal
<1> DEFINE A == state = "Stopped" =>
                  /\ state' = "Stopped" /\ received' = received
                  /\ op' \in {op, "none"}
                  /\ reading = "none" => reading' = "none"
                  /\ write = "none" => write' = "none"
<1>1. [Next]_allVars => [A]_vars
  <2> SUFFICES ASSUME [Next]_allVars, state = "Stopped", vars' # vars PROVE A
    OBVIOUS
  <2>1. CASE AnyClient \/ StreamStarts \/ StreamDestroyed \/ DemoStarts \/ DemoSends \/ DemoStops
    BY <2>1
    DEF AnyClient, Client, StreamStarts, StreamDestroyed, DemoStarts, DemoSends, DemoStops,
        ClientStart, ClientSend, ClientStop, sessionVars, connectVars, writeVars
  <2>2. CASE RunsPosted
    BY <2>2
    DEF RunsPosted, Runs, Posted, RunStart, RunSend, RunStop, StopNow, connectVars, writeVars
  <2>3. CASE RunsConnecting
    BY <2>3 DEF RunsConnecting, Runs, OnStep, StopNow, Begin, writeVars
  <2>4. CASE RunsReading \/ RunsWriting
    BY <2>4 DEF RunsReading, RunsWriting, Runs, OnRead, OnWrite, StopNow, connectVars
  <2>5. CASE Network
    BY <2>5 DEF Network, StepEnds, ReadEnds, WriteEnds, writeVars, connectVars
  <2>6. CASE UNCHANGED vars
    BY <2>6
  <2> QED
    BY <2>1, <2>2, <2>3, <2>4, <2>5, <2>6
    DEF Next, StreamRefuses, ThreadRuns, DemoStopsContext, RunReturns, Ended, allVars
<1> QED
  BY <1>1, PTL DEF Spec, StoppedIsFinal

-----------------------------------------------------------------------------
(***************************************************************************)
(* The client of binance/ (BinanceWs).  Its variables are its own: the     *)
(* formulas of Old speak of no behaviour of WsPrograms, although names are *)
(* shared.  It has at most one write in its life, the only one a pong may  *)
(* garble, and what it does not write it keeps: the wire and the queue     *)
(* together are 1..sent, the first of them garbled or not.                 *)
(***************************************************************************)
VARIABLES writeQueue, writes, torn, written, closed, errors

Old == INSTANCE BinanceWs

\* The messages the old client is done with.
FrontDone == Len(wire) - (IF written = "ok" THEN 1 ELSE 0)

\* The wire begins with 1, garbled or not, and the queue goes on where it ends.
OrderInv ==
  /\ \A i \in 1..Len(wire) : wire[i] = i \/ (torn /\ i = 1 /\ wire[i] = 0)
  /\ \A i \in 1..Len(writeQueue) : writeQueue[i] = FrontDone + i
  /\ written = "ok" => wire # <<>>
  /\ sent = FrontDone + Len(writeQueue)

\* Before the handshake nothing is read or written; once connected, a message
\* in the queue is one that is being written, and nothing was written before; the
\* read loop ends for a reason.
PhaseInv ==
  /\ op # "none" =>
       state = "Disconnected" /\ writes = 0 /\ written = "none" /\ reading = "none"
  /\ state = "Connected" => writes = 0 /\ written = "none" /\ writeQueue = <<>>
  /\ wire # <<>> => op = "none" /\ state # "Connected" /\ writes = 0
  /\ writes > 0 => written = "none"
  /\ writes > 0 \/ written # "none" => writeQueue # <<>>
  /\ op = "none" /\ reading = "none" => errors > 0 \/ closed
  /\ reading = "closed" => closed
  /\ reading = "ok" /\ run # "terminated" => received < MaxReceived
  /\ Old!EndsForAReason

ClientInv == Old!TypeOK /\ PhaseInv /\ OrderInv

\* Main has connected and nothing else.
LEMMA ClientInit == Old!Init => ClientInv
<1> SUFFICES ASSUME Old!Init PROVE ClientInv
  OBVIOUS
<1>1. /\ writeQueue = <<>> /\ wire = <<>> /\ Len(writeQueue) = 0 /\ Len(wire) = 0
      /\ 1..Len(writeQueue) = {} /\ 1..Len(wire) = {}
      /\ writeQueue \in Seq(1..MaxSends) /\ wire \in Seq(0..MaxSends)
  BY EmptySeq DEF Old!Init
<1>2. Old!TypeOK
  <2>1. sent \in 0..MaxSends /\ received \in 0..MaxReceived /\ errors \in Nat /\ writes \in 0..1
    BY BoundsAssumption DEF Old!Init
  <2>2. op \in Old!Steps
    BY DEF Old!Init, Old!Steps
  <2> QED
    BY <1>1, <2>1, <2>2 DEF Old!Init, Old!TypeOK
<1>3. PhaseInv
  BY DEF Old!Init, PhaseInv, Old!EndsForAReason, Old!Steps
<1>4. OrderInv
  BY <1>1 DEF Old!Init, OrderInv, FrontDone
<1> QED
  BY <1>2, <1>3, <1>4 DEF ClientInv

\* send, and the write it starts when the client is connected and idle.
LEMMA SendKeeps ==
  ASSUME ClientInv, Old!Send
  PROVE  ClientInv'
<1>1. /\ run # "returned" /\ sent < MaxSends /\ sent' = sent + 1
      /\ writeQueue' = Append(writeQueue, sent + 1)
      /\ Old!Write(state, writeQueue')
      /\ UNCHANGED <<torn, run, op, opResult, written, reading, wire, received, closed, errors>>
  BY DEF Old!Send, Old!opVars, Old!peerVars
<1>2. /\ writeQueue \in Seq(1..MaxSends) /\ sent \in Nat /\ sent + 1 \in 1..MaxSends
      /\ Len(writeQueue) \in Nat /\ Len(wire) \in Nat /\ writes \in 0..1
  BY <1>1, BoundsAssumption DEF ClientInv, Old!TypeOK
<1>3. /\ writeQueue' \in Seq(1..MaxSends) /\ writeQueue' # <<>>
      /\ Len(writeQueue') = Len(writeQueue) + 1
      /\ \A i \in 1..Len(writeQueue) : writeQueue'[i] = writeQueue[i]
      /\ writeQueue'[Len(writeQueue) + 1] = sent + 1
  BY <1>1, <1>2, AppendElements
<1>4. \/ state = "Connected" /\ state' = "Writing" /\ writes = 0 /\ writes' = 1
         /\ written = "none" /\ op = "none"
      \/ state # "Connected" /\ state' = state /\ writes' = writes
  BY <1>1, <1>3 DEF Old!Write, ClientInv, PhaseInv
<1>5. Old!TypeOK'
  <2>1. writes' \in 0..1 /\ state' \in {"Disconnected", "Connected", "Writing"}
    BY <1>2, <1>4 DEF ClientInv, Old!TypeOK
  <2>2. sent' \in 0..MaxSends
    BY <1>1, <1>2, BoundsAssumption
  <2> QED
    BY <1>1, <1>3, <2>1, <2>2 DEF ClientInv, Old!TypeOK
<1>6. PhaseInv'
  <2>1. CASE state # "Connected" /\ state' = state /\ writes' = writes
    BY <1>1, <1>3, <2>1 DEF ClientInv, PhaseInv, Old!EndsForAReason
  <2>2. CASE state = "Connected" /\ state' = "Writing" /\ written = "none" /\ op = "none"
    BY <1>1, <1>3, <2>2 DEF ClientInv, PhaseInv, Old!EndsForAReason
  <2> QED
    BY <1>4, <2>1, <2>2
<1>7. OrderInv'
  <2>1. FrontDone' = FrontDone /\ FrontDone \in Int
    BY <1>1, <1>2 DEF FrontDone
  <2>2. sent = FrontDone + Len(writeQueue)
    BY DEF ClientInv, OrderInv
  <2>3. ASSUME NEW i \in 1..Len(writeQueue') PROVE writeQueue'[i] = FrontDone' + i
    <3>1. CASE i \in 1..Len(writeQueue)
      BY <1>3, <2>1, <3>1 DEF ClientInv, OrderInv
    <3>2. CASE i = Len(writeQueue) + 1
      BY <1>2, <1>3, <2>1, <2>2, <3>2
    <3> QED
      BY <1>2, <1>3, <3>1, <3>2
  <2>4. sent' = FrontDone' + Len(writeQueue')
    BY <1>1, <1>2, <1>3, <2>1, <2>2
  <2> QED
    BY <1>1, <2>3, <2>4 DEF ClientInv, OrderInv
<1> QED
  BY <1>5, <1>6, <1>7 DEF ClientInv

\* The handshake connects and writes what was sent before it.
LEMMA OnHandshakeKeeps ==
  ASSUME ClientInv, Old!OnHandshake
  PROVE  ClientInv'
<1>1. /\ op = "handshake" /\ op' = "none" /\ opResult' = "running" /\ reading' = "running"
      /\ Old!Write("Connected", writeQueue)
      /\ UNCHANGED <<torn, run, writeQueue, sent, written, wire, received, closed, errors>>
  BY DEF Old!OnHandshake, Old!Begin, Old!peerVars
<1>2. writes = 0 /\ written = "none"
  BY <1>1 DEF ClientInv, PhaseInv
<1>3. \/ writeQueue # <<>> /\ state' = "Writing" /\ writes' = 1
      \/ writeQueue = <<>> /\ state' = "Connected" /\ writes' = 0
  BY <1>1, <1>2 DEF Old!Write
<1>4. Old!TypeOK'
  BY <1>1, <1>3 DEF ClientInv, Old!TypeOK
<1>5. PhaseInv'
  BY <1>1, <1>2, <1>3 DEF ClientInv, PhaseInv, Old!EndsForAReason
<1>6. OrderInv'
  BY <1>1 DEF ClientInv, OrderInv, FrontDone
<1> QED
  BY <1>4, <1>5, <1>6 DEF ClientInv

\* onWrite takes the front that was written off the queue; a write that failed
\* stays there.
LEMMA OnWriteKeeps ==
  ASSUME ClientInv, Old!OnWrite
  PROVE  ClientInv'
<1>1. /\ run = "running" /\ written # "none" /\ written' = "none"
      /\ UNCHANGED <<torn, run, sent, op, opResult, reading, wire, received, closed>>
  BY DEF Old!OnWrite, Old!opVars, Old!peerVars
<1>2. /\ writeQueue # <<>> /\ writes = 0 /\ writes \in 0..1 /\ op = "none"
      /\ writeQueue \in Seq(1..MaxSends) /\ wire \in Seq(0..MaxSends)
      /\ Len(wire) \in Nat /\ Len(writeQueue) \in Nat /\ written \in {"ok", "failed"}
  <2>1. ~(writes > 0) /\ writes \in 0..1
    BY <1>1 DEF ClientInv, PhaseInv, Old!TypeOK
  <2> QED
    BY <1>1, <2>1 DEF ClientInv, PhaseInv, Old!TypeOK
<1>3. CASE written = "failed"
  <2>1. /\ state' = "Disconnected" /\ errors' = errors + 1 /\ UNCHANGED <<writes, writeQueue>>
    BY <1>3 DEF Old!OnWrite, Old!Reports
  <2>2. errors' \in Nat /\ errors' > 0
    BY <2>1 DEF ClientInv, Old!TypeOK
  <2>3. Old!TypeOK'
    BY <1>1, <2>1, <2>2 DEF ClientInv, Old!TypeOK
  <2>4. PhaseInv'
    BY <1>1, <1>2, <2>1, <2>2 DEF ClientInv, PhaseInv, Old!EndsForAReason
  <2>5. OrderInv'
    <3>1. FrontDone' = FrontDone
      BY <1>1, <1>3 DEF FrontDone
    <3> QED
      BY <1>1, <2>1, <3>1 DEF ClientInv, OrderInv
  <2> QED
    BY <2>3, <2>4, <2>5 DEF ClientInv
<1>4. CASE written = "ok"
  <2>1. /\ writeQueue' = Tail(writeQueue) /\ errors' = errors
        /\ state' = "Disconnected" /\ writes' = writes
    BY <1>4 DEF Old!OnWrite, Old!Write
  <2>2. /\ writeQueue' \in Seq(1..MaxSends)
        /\ Len(writeQueue') = Len(writeQueue) - 1 /\ Len(writeQueue) >= 1
        /\ \A i \in 1..(Len(writeQueue) - 1) : writeQueue'[i] = writeQueue[i + 1]
    BY <1>2, <2>1, TailElements
  <2>3. Old!TypeOK'
    BY <1>1, <2>1, <2>2 DEF ClientInv, Old!TypeOK
  <2>4. PhaseInv'
    BY <1>1, <1>2, <2>1 DEF ClientInv, PhaseInv, Old!EndsForAReason
  <2>5. OrderInv'
    <3>1. FrontDone = Len(wire) - 1 /\ FrontDone' = Len(wire)
      BY <1>1, <1>2, <1>4 DEF FrontDone
    <3>2. sent' = FrontDone' + Len(writeQueue')
      <4>1. sent = FrontDone + Len(writeQueue)
        BY DEF ClientInv, OrderInv
      <4> QED
        BY <4>1, <1>1, <1>2, <2>2, <3>1
    <3>3. ASSUME NEW i \in 1..Len(writeQueue') PROVE writeQueue'[i] = FrontDone' + i
      <4>1. i + 1 \in 1..Len(writeQueue) /\ i \in 1..(Len(writeQueue) - 1)
        BY <1>2, <2>2
      <4>2. writeQueue[i + 1] = FrontDone + (i + 1)
        BY <4>1 DEF ClientInv, OrderInv
      <4> QED
        BY <1>2, <2>2, <3>1, <4>1, <4>2
    <3> QED
      BY <1>1, <3>2, <3>3 DEF ClientInv, OrderInv
  <2> QED
    BY <2>3, <2>4, <2>5 DEF ClientInv
<1> QED
  BY <1>2, <1>3, <1>4

\* A write ends: well, and its message is on the wire, or not.
LEMMA WriteEndsKeeps ==
  ASSUME ClientInv, NEW result \in {"ok", "failed"}, Old!WriteEnds(result)
  PROVE  ClientInv'
<1>1. /\ writes > 0 /\ written = "none" /\ writes' = writes - 1 /\ written' = result
      /\ wire' = IF result = "ok" THEN Append(wire, IF torn THEN 0 ELSE Head(writeQueue))
                ELSE wire
      /\ UNCHANGED <<torn, run, state, writeQueue, sent, op, opResult, reading, received, closed, errors>>
  BY DEF Old!WriteEnds, Old!opVars, Old!Garbled
<1>2. writes = 1 /\ writes' = 0
  BY <1>1 DEF ClientInv, Old!TypeOK
<1>3. /\ writeQueue # <<>> /\ op = "none" /\ state # "Connected" /\ wire = <<>>
      /\ wire \in Seq(0..MaxSends) /\ writeQueue \in Seq(1..MaxSends) /\ Len(wire) \in Nat
  BY <1>1, <1>2 DEF ClientInv, PhaseInv, Old!TypeOK
<1>4. PhaseInv'
  BY <1>1, <1>2, <1>3 DEF ClientInv, PhaseInv, Old!EndsForAReason
<1>5. CASE result = "ok"
  <2> DEFINE gets == IF torn THEN 0 ELSE Head(writeQueue)
  <2>1. /\ Head(writeQueue) \in 1..MaxSends /\ Head(writeQueue) = writeQueue[1]
        /\ Len(writeQueue) >= 1 /\ Len(writeQueue) \in Nat /\ MaxSends \in Nat
    BY <1>3, TailElements, BoundsAssumption
  <2>2. gets \in 0..MaxSends /\ wire' = Append(wire, gets)
    BY <1>1, <1>5, <2>1
  <2> HIDE DEF gets
  <2>3. /\ wire' \in Seq(0..MaxSends) /\ Len(wire) = 0 /\ Len(wire') = 1 /\ wire' # <<>>
        /\ wire'[1] = gets
    BY <1>3, <2>2, AppendElements
  <2>4. FrontDone = 0 /\ FrontDone' = 0
    BY <1>1, <1>5, <2>3 DEF FrontDone
  <2>5. writeQueue[1] = 1
    <3>1. 1 \in 1..Len(writeQueue)
      BY <2>1
    <3> QED
      BY <3>1, <2>4 DEF ClientInv, OrderInv
  <2>6. ASSUME NEW i \in 1..Len(wire') PROVE wire'[i] = i \/ (torn' /\ i = 1 /\ wire'[i] = 0)
    <3>1. i = 1
      BY <2>3
    <3> QED
      BY <1>1, <2>1, <2>3, <2>5, <3>1 DEF gets
  <2>7. OrderInv'
    BY <1>1, <2>3, <2>4, <2>6 DEF ClientInv, OrderInv
  <2>8. Old!TypeOK'
    BY <1>1, <1>2, <2>3 DEF ClientInv, Old!TypeOK
  <2> QED
    BY <1>4, <2>7, <2>8 DEF ClientInv
<1>6. CASE result = "failed"
  <2>1. Old!TypeOK'
    BY <1>1, <1>2, <1>6 DEF ClientInv, Old!TypeOK
  <2>2. FrontDone' = FrontDone
    BY <1>1, <1>6 DEF FrontDone
  <2>3. OrderInv'
    BY <1>1, <1>6, <2>2 DEF ClientInv, OrderInv
  <2> QED
    BY <1>4, <2>1, <2>3 DEF ClientInv
<1> QED
  BY <1>5, <1>6

\* What leaves the queue and the wire alone need not be told from one another
\* where the order of messages is concerned; a pong may only garble.
LEMMA OrderUnchanged ==
  ASSUME ClientInv, UNCHANGED <<wire, writeQueue, written, sent>>, torn => torn'
  PROVE  OrderInv'
BY DEF ClientInv, OrderInv, FrontDone

\* The steps of connecting.
LEMMA StepKeeps ==
  ASSUME ClientInv,
         \/ \E o \in Old!Steps : Old!OnStepFails(o) \/ Old!OnStep(o)
         \/ \E result \in {"ok", "failed"} : Old!StepEnds(result)
  PROVE  ClientInv'
<1>1. ASSUME NEW o \in Old!Steps, Old!OnStepFails(o) PROVE ClientInv'
  <2>1. /\ op = o /\ op' = "none" /\ opResult' = "running" /\ errors' = errors + 1
        /\ UNCHANGED <<torn, run, state, writes, writeQueue, sent, written, reading, wire, received,
                       closed>>
    BY <1>1 DEF Old!OnStepFails, Old!Begin, Old!Reports, Old!writeVars, Old!peerVars
  <2>2. errors' \in Nat /\ errors' > 0
    BY <2>1 DEF ClientInv, Old!TypeOK
  <2>3. op # "none"
    BY <2>1 DEF Old!Steps
  <2>4. Old!TypeOK'
    BY <2>1, <2>2 DEF ClientInv, Old!TypeOK
  <2>5. PhaseInv'
    BY <2>1, <2>2, <2>3 DEF ClientInv, PhaseInv, Old!EndsForAReason
  <2> QED
    BY <2>1, <2>4, <2>5, OrderUnchanged DEF ClientInv
<1>2. ASSUME NEW o \in Old!Steps, Old!OnStep(o) PROVE ClientInv'
  <2>1. /\ op = o /\ op' = Old!FollowedBy[o] /\ opResult' = "running" /\ o # "handshake"
        /\ UNCHANGED <<torn, run, state, writes, writeQueue, sent, written, reading, wire, received,
                       closed, errors>>
    BY <1>2 DEF Old!OnStep, Old!Begin, Old!writeVars, Old!peerVars
  <2>2. op' \in Old!Steps /\ op # "none" /\ op' # "none"
    BY <2>1 DEF Old!Steps, Old!FollowedBy
  <2>3. Old!TypeOK'
    BY <2>1, <2>2 DEF ClientInv, Old!TypeOK
  <2>4. PhaseInv'
    BY <2>1, <2>2 DEF ClientInv, PhaseInv, Old!EndsForAReason
  <2> QED
    BY <2>1, <2>3, <2>4, OrderUnchanged DEF ClientInv
<1>3. ASSUME NEW result \in {"ok", "failed"}, Old!StepEnds(result) PROVE ClientInv'
  <2>1. /\ opResult' = result
        /\ UNCHANGED <<torn, run, state, writes, writeQueue, sent, op, written, reading, wire, received,
                       closed, errors>>
    BY <1>3 DEF Old!StepEnds, Old!writeVars, Old!peerVars
  <2>2. Old!TypeOK'
    BY <2>1 DEF ClientInv, Old!TypeOK
  <2>3. PhaseInv'
    BY <2>1 DEF ClientInv, PhaseInv, Old!EndsForAReason
  <2> QED
    BY <2>1, <2>2, <2>3, OrderUnchanged DEF ClientInv
<1> QED
  BY <1>1, <1>2, <1>3

\* Reads, close, and the program's own steps.
LEMMA OtherKeeps ==
  ASSUME ClientInv,
         \/ Old!Close \/ Old!RunStarts \/ Old!RunReturns \/ Old!OnRead \/ Old!Ping
         \/ Old!OnReadFails
         \/ \E result \in {"ok", "failed", "closed"} : Old!ReadEnds(result)
         \/ UNCHANGED Old!vars
  PROVE  ClientInv'
<1>1. CASE Old!Close
  <2>1. /\ closed' = TRUE /\ state' \in {state, "Disconnected"} /\ errors' \in {errors, errors + 1}
        /\ UNCHANGED <<torn, run, writeQueue, sent, op, opResult, writes, written, reading, wire,
                       received>>
    BY <1>1 DEF Old!Close, Old!Reports, Old!opVars
  <2>2. errors' \in Nat
    BY <2>1 DEF ClientInv, Old!TypeOK
  <2>3. Old!TypeOK'
    BY <2>1, <2>2 DEF ClientInv, Old!TypeOK
  <2>4. PhaseInv'
    BY <2>1 DEF ClientInv, PhaseInv, Old!EndsForAReason
  <2> QED
    BY <2>1, <2>3, <2>4, OrderUnchanged DEF ClientInv
<1>2. CASE Old!RunStarts \/ Old!RunReturns
  <2>1. /\ run \in {"ready", "running"} /\ run' \in {"running", "returned"}
        /\ run' = "returned" => op = "none" /\ reading = "none"
        /\ UNCHANGED <<torn, state, writes, writeQueue, sent, op, opResult, written, reading, wire,
                       received, closed, errors>>
    BY <1>2 DEF Old!RunStarts, Old!RunReturns, Old!opVars, Old!writeVars, Old!peerVars
  <2>2. Old!TypeOK'
    BY <2>1 DEF ClientInv, Old!TypeOK
  <2>3. PhaseInv'
    BY <2>1 DEF ClientInv, PhaseInv, Old!EndsForAReason
  <2> QED
    BY <2>1, <2>2, <2>3, OrderUnchanged DEF ClientInv
<1>3. CASE Old!OnRead
  <2>1. /\ reading = "ok" /\ reading' \in {"running", "ok"} /\ received' = received + 1
        /\ run = "running" /\ (run' = "terminated" \/ (run' = run /\ reading' = "running"))
        /\ UNCHANGED <<torn, state, writes, writeQueue, sent, op, opResult, written, wire, closed,
                       errors>>
    BY <1>3 DEF Old!OnRead, Old!opVars, Old!writeVars
  <2>2. received' \in 0..MaxReceived
    BY <2>1, BoundsAssumption DEF ClientInv, Old!TypeOK, PhaseInv
  <2>3. Old!TypeOK'
    BY <2>1, <2>2 DEF ClientInv, Old!TypeOK
  <2>4. PhaseInv'
    BY <2>1 DEF ClientInv, PhaseInv, Old!EndsForAReason
  <2> QED
    BY <2>1, <2>3, <2>4, OrderUnchanged DEF ClientInv
<1>4. CASE Old!OnReadFails
  <2>1. /\ reading \in {"failed", "closed"} /\ reading' = "none" /\ state' = "Disconnected"
        /\ errors' = IF reading = "closed" THEN errors ELSE errors + 1
        /\ UNCHANGED <<torn, run, writes, writeQueue, sent, op, opResult, written, wire, received,
                       closed>>
    BY <1>4 DEF Old!OnReadFails, Old!Reports, Old!opVars, Old!peerVars
  <2>2. errors' \in Nat /\ (errors' > 0 \/ closed') /\ (errors > 0 => errors' > 0)
    BY <2>1 DEF ClientInv, Old!TypeOK, PhaseInv
  <2>3. Old!TypeOK'
    BY <2>1, <2>2 DEF ClientInv, Old!TypeOK
  <2>4. PhaseInv'
    BY <2>1, <2>2 DEF ClientInv, PhaseInv, Old!EndsForAReason
  <2> QED
    BY <2>1, <2>3, <2>4, OrderUnchanged DEF ClientInv
<1>5. ASSUME NEW result \in {"ok", "failed", "closed"}, Old!ReadEnds(result) PROVE ClientInv'
  <2>1. /\ reading = "running" /\ reading' = result /\ closed' = (closed \/ result = "closed")
        /\ result = "ok" => received < MaxReceived
        /\ UNCHANGED <<torn, run, state, writes, writeQueue, sent, op, opResult, written, wire, received,
                       errors>>
    BY <1>5 DEF Old!ReadEnds, Old!opVars, Old!writeVars
  <2>2. Old!TypeOK'
    BY <2>1 DEF ClientInv, Old!TypeOK
  <2>3. PhaseInv'
    BY <2>1 DEF ClientInv, PhaseInv, Old!EndsForAReason
  <2> QED
    BY <2>1, <2>2, <2>3, OrderUnchanged DEF ClientInv
<1>6. CASE Old!Ping
  <2>1. /\ run' \in {run, "terminated"} /\ torn' \in {torn, torn \/ writes > 0}
        /\ UNCHANGED <<state, writes, writeQueue, sent, op, opResult, written, reading, wire,
                       received, closed, errors>>
    BY <1>6 DEF Old!Ping, Old!opVars, Old!peerVars
  <2>2. torn' \in BOOLEAN /\ (torn => torn')
    BY <2>1 DEF ClientInv, Old!TypeOK
  <2>3. Old!TypeOK'
    BY <2>1, <2>2 DEF ClientInv, Old!TypeOK
  <2>4. PhaseInv'
    BY <2>1 DEF ClientInv, PhaseInv, Old!EndsForAReason
  <2> QED
    BY <2>1, <2>2, <2>3, <2>4, OrderUnchanged DEF ClientInv
<1>7. CASE UNCHANGED Old!vars
  <2>1. UNCHANGED <<torn, run, state, writes, writeQueue, sent, op, opResult, written, reading, wire,
                    received, closed, errors>>
    BY <1>7 DEF Old!vars, Old!opVars, Old!writeVars, Old!peerVars
  <2>2. Old!TypeOK'
    BY <2>1 DEF ClientInv, Old!TypeOK
  <2>3. PhaseInv'
    BY <2>1 DEF ClientInv, PhaseInv, Old!EndsForAReason
  <2> QED
    BY <2>1, <2>2, <2>3, OrderUnchanged DEF ClientInv
<1> QED
  BY <1>1, <1>2, <1>3, <1>4, <1>5, <1>6, <1>7

\* Every step keeps the invariant.
LEMMA ClientNext == ClientInv /\ [Old!Next]_(Old!vars) => ClientInv'
<1> QED
  BY SendKeeps, OnHandshakeKeeps, OnWriteKeeps, WriteEndsKeeps, StepKeeps, OtherKeeps
     DEF Old!Next, Old!Ended

\* The invariant holds in every reachable state.
THEOREM ClientInvariant == Old!Spec => []ClientInv
<1> QED
  BY ClientInit, ClientNext, PTL DEF Old!Spec

\* One async_write at a time; no message is lost, repeated or overtaken between
\* send, the queue and the wire, but for a first message a pong garbled; and run
\* does not return without an error or a closed stream.
THEOREM OldClientLosesNothing == Old!Spec => []Old!NothingLost
<1>1. ClientInv => Old!NothingLost
  <2> SUFFICES ASSUME ClientInv PROVE Old!NothingLost
    OBVIOUS
  <2> DEFINE left == IF written = "ok" THEN Tail(writeQueue) ELSE writeQueue
  <2>1. /\ wire \in Seq(0..MaxSends) /\ writeQueue \in Seq(1..MaxSends)
        /\ Len(wire) \in Nat /\ Len(writeQueue) \in Nat /\ sent \in Nat /\ MaxSends \in Nat
    BY BoundsAssumption DEF ClientInv, Old!TypeOK
  <2>2. /\ left \in Seq(1..MaxSends) /\ Len(left) \in Nat
        /\ sent = Len(wire) + Len(left)
        /\ \A i \in 1..Len(left) : left[i] = Len(wire) + i
    <3>1. CASE written = "ok"
      <4>1. writeQueue # <<>> /\ sent = (Len(wire) - 1) + Len(writeQueue)
            /\ \A i \in 1..Len(writeQueue) : writeQueue[i] = (Len(wire) - 1) + i
        BY <3>1 DEF ClientInv, PhaseInv, OrderInv, FrontDone
      <4>2. /\ left \in Seq(1..MaxSends) /\ Len(writeQueue) >= 1
            /\ Len(left) = Len(writeQueue) - 1
            /\ \A i \in 1..(Len(writeQueue) - 1) : left[i] = writeQueue[i + 1]
        BY <2>1, <3>1, <4>1, TailElements
      <4> HIDE DEF left
      <4>3. ASSUME NEW i \in 1..Len(left) PROVE left[i] = Len(wire) + i
        <5>1. i + 1 \in 1..Len(writeQueue) /\ i \in 1..(Len(writeQueue) - 1)
          BY <2>1, <4>2
        <5>2. left[i] = (Len(wire) - 1) + (i + 1)
          BY <4>1, <4>2, <5>1
        <5> QED
          BY <2>1, <5>1, <5>2
      <4> QED
        BY <2>1, <4>1, <4>2, <4>3
    <3>2. CASE written # "ok"
      BY <2>1, <3>2 DEF ClientInv, OrderInv, FrontDone
    <3> QED
      BY <3>1, <3>2
  <2>3. /\ Len(wire \o left) = sent
        /\ \A k \in 1..sent : (wire \o left)[k] = k \/ (torn /\ k = 1 /\ (wire \o left)[k] = 0)
    <3>1. left \in Seq(0..MaxSends)
      BY <2>1, <2>2
    <3> HIDE DEF left
    <3>2. /\ Len(wire \o left) = Len(wire) + Len(left)
          /\ \A i \in 1..(Len(wire) + Len(left)) :
               (wire \o left)[i] = IF i <= Len(wire) THEN wire[i] ELSE left[i - Len(wire)]
      BY <2>1, <3>1, ConcatProperties
    <3>3. ASSUME NEW i \in 1..sent
          PROVE  (wire \o left)[i] = i \/ (torn /\ i = 1 /\ (wire \o left)[i] = 0)
      <4>1. CASE i <= Len(wire)
        <5>1. i \in 1..Len(wire) /\ i \in 1..(Len(wire) + Len(left))
          BY <2>1, <2>2, <4>1
        <5>2. (wire \o left)[i] = wire[i]
          BY <3>2, <4>1, <5>1
        <5>3. wire[i] = i \/ (torn /\ i = 1 /\ wire[i] = 0)
          BY <5>1 DEF ClientInv, OrderInv
        <5> QED
          BY <5>2, <5>3
      <4>2. CASE ~(i <= Len(wire))
        <5>1. i - Len(wire) \in 1..Len(left) /\ i \in 1..(Len(wire) + Len(left))
          BY <2>1, <2>2, <4>2
        <5>2. left[i - Len(wire)] = Len(wire) + (i - Len(wire))
          BY <2>2, <5>1
        <5> QED
          BY <2>1, <3>2, <4>2, <5>1, <5>2
      <4> QED
        BY <4>1, <4>2
    <3> QED
      BY <2>2, <3>2, <3>3
  <2>4. writes > 0 => written = "none" /\ writeQueue # <<>>
    BY DEF ClientInv, PhaseInv
  <2>5. Old!TypeOK /\ Old!EndsForAReason
    BY DEF ClientInv, PhaseInv
  <2> QED
    BY <2>3, <2>4, <2>5 DEF Old!NothingLost, Old!Garbled
<1> QED
  BY <1>1, ClientInvariant, PTL
=============================================================================
