------------------------------ MODULE ScspPool ------------------------------
(***************************************************************************)
(* runScSpPool of pools/main.cpp: a fixed pool of BookUpdate objects whose *)
(* free indices live in a RingBuffer, and the two threads that use it.     *)
(* The feed thread acquires an object, fills it and pushes the lease on a  *)
(* Queue; the main thread pops the lease, reads the object and returns it. *)
(* So the feed thread is the ring's CONSUMER and the main thread its       *)
(* PRODUCER.                                                               *)
(*                                                                         *)
(* The Queue (module UpdateQueue) is one mutex and one deque, unbounded:   *)
(* here a push or a pop is one step.  Its mutex is also what orders the    *)
(* two threads' loads of the ring's cursors: a thread that has locked the  *)
(* mutex has seen every cursor the other thread stored before it last      *)
(* unlocked it, and no acquire load may return anything older.             *)
(* mutexRead/mutexWrite are the cursors the mutex carries, knownRead and   *)
(* knownWrite what each thread learnt from it.                             *)
(*                                                                         *)
(* The feed thread dereferences the lease without looking whether acquire  *)
(* found an object: on an empty ring it follows a null pool pointer, and   *)
(* the process dies ("nullDeref").  release calls std::terminate when the  *)
(* ring refuses the index ("terminated").                                  *)
(***************************************************************************)
EXTENDS Integers, Sequences, FiniteSets

CONSTANTS
  Capacity,      \* template parameter of the pool and of its ring
  MessageCount,  \* messages the feed thread produces
  NoIndex        \* an empty lease, an item not set

Indices == 0..(Capacity - 1)

\* The static_asserts of RingBuffer and of the pool; an empty lease has no index.
ASSUME PoolAssumption ==
  /\ Capacity \in Nat /\ Capacity >= 2
  /\ \E k \in 1..31 : Capacity = 2^k
  /\ MessageCount \in Nat
  /\ NoIndex \notin Indices

VARIABLES
  buffer, writeCursor, cachedReadCursor, pusher, pushItem,
  readCursor, cachedWriteCursor, popper, popItem,  \* freeIndices
  objects,     \* the sequence number each object holds, 0 when cleared
  queue,       \* leases pushed and not popped
  closed,      \* the queue's flag
  feeder,      \* where the feed thread is
  sequence,    \* its loop variable
  lease,       \* index in its Lease, NoIndex when the lease is empty
  consumer,    \* where the main thread is
  update,      \* index in the main thread's Lease
  messagesProcessed,
  mutexRead, mutexWrite, knownRead, knownWrite,
  backlog,     \* length of the queue just after the last push
  process      \* how the process stands

ringVars     == <<buffer, writeCursor, cachedReadCursor, pusher, pushItem,
                  readCursor, cachedWriteCursor, popper, popItem>>
feederVars   == <<feeder, sequence, lease, knownWrite, backlog>>
consumerVars == <<consumer, update, messagesProcessed, knownRead>>
queueVars    == <<queue, closed, mutexRead, mutexWrite>>
vars == <<ringVars, feederVars, consumerVars, queueVars, objects, process>>

Ring == INSTANCE SpscRing
          WITH Values <- Indices, NoValue <- NoIndex, MaxPushes <- Capacity + MessageCount

Later(a, b) == IF a > b THEN a ELSE b

\* The constructor emplaces every index, in order, before any thread starts.
Init ==
  /\ buffer = [s \in Indices |-> s]
  /\ writeCursor = Capacity /\ cachedReadCursor = 0
  /\ pusher = "idle" /\ pushItem = NoIndex
  /\ readCursor = 0 /\ cachedWriteCursor = 0
  /\ popper = "idle" /\ popItem = NoIndex
  /\ objects = [i \in Indices |-> 0]
  /\ queue = <<>> /\ closed = FALSE
  /\ feeder = "acquire" /\ sequence = 1 /\ lease = NoIndex
  /\ consumer = "pop" /\ update = NoIndex /\ messagesProcessed = 0
  /\ mutexRead = 0 /\ mutexWrite = Capacity
  /\ knownRead = 0 /\ knownWrite = Capacity
  /\ backlog = 0
  /\ process = "running"

\* A process that has ended takes no step.
FeederAt(places)   == process = "running" /\ feeder \in places
ConsumerAt(places) == process = "running" /\ consumer \in places

-----------------------------------------------------------------------------
\* The feed thread

\* acquire, up to the last step of freeIndices.pop.
Acquire ==
  /\ FeederAt({"acquire"})
  /\ sequence <= MessageCount
  /\ \/ Ring!PopBegin
     \/ \E write \in Later(cachedWriteCursor, knownWrite)..writeCursor :
          Ring!PopRefresh(write)
     \/ Ring!PopTake
  /\ UNCHANGED <<feederVars, consumerVars, queueVars, objects, process>>

Acquired ==
  /\ FeederAt({"acquire"})
  /\ Ring!PopAdvance
  /\ lease' = popItem
  /\ feeder' = "produce"
  /\ UNCHANGED <<sequence, knownWrite, backlog, consumerVars, queueVars, objects, process>>

\* acquire returns an empty lease, and *update is evaluated all the same.
AcquireFailed ==
  /\ FeederAt({"acquire"})
  /\ \E write \in Later(cachedWriteCursor, knownWrite)..writeCursor :
       Ring!PopRefused(write)
  /\ process' = "nullDeref"
  /\ UNCHANGED <<feederVars, consumerVars, queueVars, objects>>

Produce ==
  /\ FeederAt({"produce"})
  /\ objects' = [objects EXCEPT ![lease] = sequence]
  /\ feeder' = "push"
  /\ UNCHANGED <<ringVars, sequence, lease, knownWrite, backlog, consumerVars, queueVars, process>>

\* Mutant: the lease is copied instead of moved.
PushLeaseCopied ==
  /\ FeederAt({"push"})
  /\ queue' = Append(queue, lease)
  /\ backlog' = Len(queue')
  /\ sequence' = sequence + 1
  /\ knownWrite' = mutexWrite
  /\ mutexRead' = readCursor
  /\ feeder' = "acquire"
  /\ UNCHANGED <<lease, ringVars, consumerVars, closed, mutexWrite, objects, process>>

\* queue.push(std::move(update)): the lease in hand is empty afterwards.
PushLease ==
  /\ FeederAt({"push"})
  /\ queue' = Append(queue, lease)
  /\ backlog' = Len(queue')
  /\ lease' = NoIndex
  /\ sequence' = sequence + 1
  /\ knownWrite' = mutexWrite
  /\ mutexRead' = readCursor
  /\ feeder' = "acquire"
  /\ UNCHANGED <<ringVars, consumerVars, closed, mutexWrite, objects, process>>

\* Mutant: the feed thread ends without closing the queue.
CloseForgotten ==
  /\ FeederAt({"acquire"})
  /\ sequence > MessageCount
  /\ feeder' = "done"
  /\ UNCHANGED <<ringVars, sequence, lease, knownWrite, backlog, consumerVars, queueVars, objects, process>>

Close ==
  /\ FeederAt({"acquire"})
  /\ sequence > MessageCount
  /\ closed' = TRUE
  /\ knownWrite' = mutexWrite
  /\ mutexRead' = readCursor
  /\ feeder' = "done"
  /\ UNCHANGED <<ringVars, sequence, lease, backlog, consumerVars, queue, mutexWrite, objects, process>>

-----------------------------------------------------------------------------
\* The main thread

\* Mutant: a queue that hands over leases but orders nothing else.
SynchroniseNothing == UNCHANGED <<knownRead, mutexRead, mutexWrite>>

\* One critical section of the queue's mutex.
Synchronise ==
  /\ knownRead' = mutexRead
  /\ mutexWrite' = writeCursor
  /\ UNCHANGED mutexRead

PopWaits ==
  /\ ConsumerAt({"pop"})
  /\ queue = <<>> /\ ~closed
  /\ consumer' = "waiting"
  /\ Synchronise
  /\ UNCHANGED <<ringVars, feederVars, update, messagesProcessed, queue, closed, objects, process>>

\* Mutant: the newest lease first.
PopLeaseBack ==
  /\ ConsumerAt({"pop", "waiting"})
  /\ queue # <<>>
  /\ update' = queue[Len(queue)]
  /\ queue' = SubSeq(queue, 1, Len(queue) - 1)
  /\ consumer' = "consume"
  /\ Synchronise
  /\ UNCHANGED <<ringVars, feederVars, messagesProcessed, closed, objects, process>>

PopLease ==
  /\ ConsumerAt({"pop", "waiting"})
  /\ queue # <<>>
  /\ update' = Head(queue)
  /\ queue' = Tail(queue)
  /\ consumer' = "consume"
  /\ Synchronise
  /\ UNCHANGED <<ringVars, feederVars, messagesProcessed, closed, objects, process>>

PopEnds ==
  /\ ConsumerAt({"pop", "waiting"})
  /\ queue = <<>> /\ closed
  /\ consumer' = "join"
  /\ Synchronise
  /\ UNCHANGED <<ringVars, feederVars, update, messagesProcessed, queue, closed, objects, process>>

Consume ==
  /\ ConsumerAt({"consume"})
  /\ messagesProcessed' = messagesProcessed + 1
  /\ consumer' = "clear"
  /\ UNCHANGED <<ringVars, feederVars, update, knownRead, queueVars, objects, process>>

\* Mutant: the lease is dropped and its index never comes back.
ReleaseClearLeaks ==
  /\ ConsumerAt({"clear"})
  /\ objects' = [objects EXCEPT ![update] = 0]
  /\ update' = NoIndex
  /\ consumer' = "pop"
  /\ UNCHANGED <<ringVars, feederVars, messagesProcessed, knownRead, queueVars, process>>

\* update = {}: release clears the object, then emplaces its index.
ReleaseClear ==
  /\ ConsumerAt({"clear"})
  /\ objects' = [objects EXCEPT ![update] = 0]
  /\ consumer' = "release"
  /\ UNCHANGED <<ringVars, feederVars, update, messagesProcessed, knownRead, queueVars, process>>

\* std::terminate when freeIndices refuses the index.
Release ==
  /\ ConsumerAt({"release"})
  /\ \/ (Ring!EmplaceBegin(update) \/ Ring!EmplaceConstruct) /\ UNCHANGED process
     \/ \E read \in Later(cachedReadCursor, knownRead)..readCursor :
          \/ Ring!EmplaceRefresh(read) /\ UNCHANGED process
          \/ Ring!EmplaceRefused(read) /\ process' = "terminated"
  /\ UNCHANGED <<feederVars, consumerVars, queueVars, objects>>

Released ==
  /\ ConsumerAt({"release"})
  /\ Ring!EmplacePublish
  /\ update' = NoIndex
  /\ consumer' = "pop"
  /\ UNCHANGED <<feederVars, messagesProcessed, knownRead, queueVars, objects, process>>

Join ==
  /\ ConsumerAt({"join"})
  /\ FeederAt({"done"})
  /\ process' = "finished"
  /\ consumer' = "done"
  /\ UNCHANGED <<ringVars, feederVars, update, messagesProcessed, knownRead, queueVars, objects>>

-----------------------------------------------------------------------------
Feed == Acquire \/ Acquired \/ AcquireFailed \/ Produce \/ PushLease \/ Close

Drain == PopWaits \/ PopLease \/ PopEnds \/ Consume
         \/ ReleaseClear \/ Release \/ Released \/ Join

Ended == process # "running" /\ UNCHANGED vars

Next == Feed \/ Drain \/ Ended

\* The operating system runs both threads.
Spec == /\ Init /\ [][Next]_vars
        /\ WF_vars(Feed)
        /\ WF_vars(Drain)

-----------------------------------------------------------------------------
TypeOK ==
  /\ Ring!TypeOK
  /\ objects \in [Indices -> 0..MessageCount]
  /\ queue \in Seq(Indices) /\ closed \in BOOLEAN
  /\ feeder \in {"acquire", "produce", "push", "done"}
  /\ sequence \in 1..(MessageCount + 1)
  /\ lease \in Indices \cup {NoIndex}
  /\ lease # NoIndex <=> feeder \in {"produce", "push"}
  /\ consumer \in {"pop", "waiting", "consume", "clear", "release", "join", "done"}
  /\ update \in Indices \cup {NoIndex}
  /\ update # NoIndex <=> consumer \in {"consume", "clear", "release"}
  /\ messagesProcessed \in 0..MessageCount
  /\ {mutexRead, knownRead} \subseteq 0..readCursor
  /\ {mutexWrite, knownWrite} \subseteq 0..writeCursor
  /\ backlog \in Nat
  /\ process \in {"running", "nullDeref", "terminated", "finished"}

\* Where index i is: free in the ring, leased by a thread, or on the queue.
Places(i) ==
  {<<"free", s>> : s \in {s \in readCursor..(writeCursor - 1) : buffer[Ring!Slot(s)] = i}}
  \cup {<<"queue", k>> : k \in {k \in DOMAIN queue : queue[k] = i}}
  \cup {<<"feeder", 0>> : t \in {lease} \cap {i}}
  \cup {<<"consumer", 0>> : t \in {update} \cap {i}}

\* No object is ever leased twice, leased while free, or lost: the object a
\* thread writes or clears without a lock is no one else's.
OneOwner ==
  /\ TypeOK
  /\ \A i \in Indices : Cardinality(Places(i)) = 1

BaselineRun == INSTANCE Baseline
  WITH queue  <- [k \in DOMAIN queue |-> objects[queue[k]]],
       update <- IF consumer = "consume" THEN objects[update] ELSE 0,
       ended  <- consumer \in {"join", "done"}

\* Seen through the objects its leases stand for, the pool's run is a baseline
\* run: the main thread reads through a lease what the feed thread wrote
\* through it, each message once and in order, and no object changes while it
\* is on the queue or being read.  So the checksum printed is the baseline's.
ImplementsBaseline == BaselineRun!Spec

\* release never reaches std::terminate, although the read cursor it loads
\* may be stale: the queue that brought it the lease also brought it the read
\* cursor the lease was popped at.
NeverTerminates == process # "terminated"

\* acquire comes back empty-handed only when the last push left at least
\* Capacity - 1 leases on the queue; with a shorter backlog the feed thread's
\* unchecked dereference is safe, however stale the write cursor it loads.
ExhaustedOnlyByBacklog == process = "nullDeref" => backlog >= Capacity - 1

\* Unless the pool runs out, every message is consumed and the run ends.
Finishes ==
  <>(process = "nullDeref"
     \/ (process = "finished" /\ messagesProcessed = MessageCount))
=============================================================================
