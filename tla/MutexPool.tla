----------------------------- MODULE MutexPool -----------------------------
(***************************************************************************)
(* runPool of pools/main.cpp: the growing book_updates_pool::              *)
(* BookUpdatePool, its leases, and the feed thread and the main thread     *)
(* that pass them over an UpdateQueue.                                     *)
(*                                                                         *)
(* The pool's mutex covers its free list and the growth of objects, and    *)
(* nothing else: the threads read, write and clear objects[index] without  *)
(* it.  When acquire finds no free index and the vector is at its          *)
(* capacity, emplace_back moves every object to new storage (Reallocate)   *)
(* and the main thread may be using a reference into the old one.  Such a  *)
(* use is undefined: it reads or writes what is left there, or the process *)
(* dies.                                                                   *)
(***************************************************************************)
EXTENDS Integers, Sequences, FiniteSets

CONSTANTS
  InitialCapacity,  \* the pool's first objects
  MessageCount,     \* messages the feed thread produces
  NoIndex           \* an empty lease

ASSUME PoolAssumption ==
  /\ InitialCapacity \in Nat /\ InitialCapacity > 0
  /\ MessageCount \in Nat
  /\ NoIndex \notin Nat

VARIABLES
  objects,         \* sequence number each object holds, 0 when cleared
  vectorCapacity,  \* capacity() of objects
  freeIndices,     \* used from the back
  items, closed, waiters,  \* the queue of leases
  feeder, sequence, lease,
  consumer, update, messagesProcessed,
  dangling,        \* the main thread's reference is into freed storage
  intact,          \* everything consumed so far was read from a live object
  process

Main == "main"  \* the thread that pops

Queue == INSTANCE UpdateQueue

queueVars    == <<items, closed, waiters>>
poolVars     == <<objects, vectorCapacity, freeIndices>>
feederVars   == <<feeder, sequence, lease>>
consumerVars == <<consumer, update, messagesProcessed, dangling, intact>>
vars == <<poolVars, queueVars, feederVars, consumerVars, process>>

size == Cardinality(DOMAIN objects)

Init ==
  /\ objects = [i \in 0..(InitialCapacity - 1) |-> 0]
  /\ vectorCapacity = InitialCapacity
  /\ freeIndices = [k \in 1..InitialCapacity |-> k - 1]
  /\ Queue!QueueInit
  /\ feeder = "acquire" /\ sequence = 1 /\ lease = NoIndex
  /\ consumer = "pop" /\ update = NoIndex /\ messagesProcessed = 0
  /\ dangling = FALSE /\ intact = TRUE
  /\ process = "running"

FeederAt(place)   == process = "running" /\ feeder = place
ConsumerAt(place) == process = "running" /\ consumer = place

-----------------------------------------------------------------------------
\* The feed thread

\* Mutant: the index handed out stays on the free list.
AcquireFreeKept ==
  /\ FeederAt("acquire")
  /\ sequence <= MessageCount
  /\ freeIndices # <<>>
  /\ lease' = freeIndices[Len(freeIndices)]
  /\ feeder' = "produce"
  /\ UNCHANGED <<freeIndices, sequence, objects, vectorCapacity, queueVars, consumerVars, process>>

AcquireFree ==
  /\ FeederAt("acquire")
  /\ sequence <= MessageCount
  /\ freeIndices # <<>>
  /\ lease' = freeIndices[Len(freeIndices)]
  /\ freeIndices' = SubSeq(freeIndices, 1, Len(freeIndices) - 1)
  /\ feeder' = "produce"
  /\ UNCHANGED <<sequence, objects, vectorCapacity, queueVars, consumerVars, process>>

\* emplace_back: the new object is the last, the lease is for it.
NewObject ==
  /\ objects' = [i \in 0..size |-> IF i = size THEN 0 ELSE objects[i]]
  /\ lease' = size
  /\ feeder' = "produce"

AcquireNew ==
  /\ FeederAt("acquire")
  /\ sequence <= MessageCount
  /\ freeIndices = <<>>
  /\ size < vectorCapacity
  /\ NewObject
  /\ UNCHANGED <<sequence, vectorCapacity, freeIndices, queueVars, consumerVars, process>>

\* The vector's storage is replaced by one twice as large, under the pool's
\* mutex, whatever the main thread is doing with a reference into the old one.
Reallocate ==
  /\ FeederAt("acquire")
  /\ sequence <= MessageCount
  /\ freeIndices = <<>>
  /\ size = vectorCapacity
  /\ vectorCapacity' = 2 * size
  /\ NewObject
  /\ dangling' = (dangling \/ consumer \in {"consuming", "clearing"})
  /\ UNCHANGED <<sequence, freeIndices, queueVars, consumer, update, messagesProcessed, intact, process>>

Produce ==
  /\ FeederAt("produce")
  /\ objects' = [objects EXCEPT ![lease] = sequence]
  /\ feeder' = "push"
  /\ UNCHANGED <<sequence, lease, vectorCapacity, freeIndices, queueVars, consumerVars, process>>

\* Mutant: push does not notify.
PushLeaseSilently ==
  /\ FeederAt("push")
  /\ Queue!Push(lease)
  /\ lease' = NoIndex
  /\ sequence' = sequence + 1
  /\ feeder' = "acquire"
  /\ UNCHANGED <<poolVars, consumerVars, process>>

PushLease ==
  /\ FeederAt("push")
  /\ Queue!Push(lease)
  /\ lease' = NoIndex
  /\ feeder' = "notifyOne"
  /\ UNCHANGED <<sequence, poolVars, consumerVars, process>>

PushNotifies ==
  /\ FeederAt("notifyOne")
  /\ Queue!NotifyOne
  /\ sequence' = sequence + 1
  /\ feeder' = "acquire"
  /\ UNCHANGED <<lease, poolVars, consumerVars, process>>

\* Mutant: close does not notify.
CloseSilently ==
  /\ FeederAt("acquire")
  /\ sequence > MessageCount
  /\ Queue!CloseQueue
  /\ feeder' = "done"
  /\ UNCHANGED <<sequence, lease, poolVars, consumerVars, process>>

Close ==
  /\ FeederAt("acquire")
  /\ sequence > MessageCount
  /\ Queue!CloseQueue
  /\ feeder' = "notifyAll"
  /\ UNCHANGED <<sequence, lease, poolVars, consumerVars, process>>

CloseNotifies ==
  /\ FeederAt("notifyAll")
  /\ Queue!NotifyAll
  /\ feeder' = "done"
  /\ UNCHANGED <<sequence, lease, poolVars, consumerVars, process>>

-----------------------------------------------------------------------------
\* The main thread

PopBlocks ==
  /\ ConsumerAt("pop")
  /\ Queue!PopBlocks(Main)
  /\ UNCHANGED <<poolVars, feederVars, consumerVars, process>>

Wakes ==
  /\ ConsumerAt("pop")
  /\ Queue!SpuriousWakeup(Main)
  /\ UNCHANGED <<poolVars, feederVars, consumerVars, process>>

PopLease ==
  /\ ConsumerAt("pop")
  /\ Queue!PopFront(Main)
  /\ update' = Head(items)
  /\ consumer' = "popped"
  /\ UNCHANGED <<poolVars, feederVars, messagesProcessed, dangling, intact, process>>

PopEnds ==
  /\ ConsumerAt("pop")
  /\ Queue!PopFinds(Main)
  /\ consumer' = "join"
  /\ UNCHANGED <<poolVars, feederVars, update, messagesProcessed, dangling, intact, process>>

\* consume(*update): a reference to objects[update], used until it returns.
ConsumeBegins ==
  /\ ConsumerAt("popped")
  /\ consumer' = "consuming"
  /\ UNCHANGED <<poolVars, feederVars, queueVars, update, messagesProcessed, dangling, intact, process>>

\* What a use of freed storage may come to.
MayCrash == process' \in IF dangling THEN {"running", "crashed"} ELSE {"running"}

ConsumeEnds ==
  /\ ConsumerAt("consuming")
  /\ intact' = (intact /\ ~dangling)
  /\ dangling' = FALSE
  /\ messagesProcessed' = messagesProcessed + 1
  /\ consumer' = "return"
  /\ MayCrash
  /\ UNCHANGED <<poolVars, feederVars, queueVars, update>>

\* update = {}: release takes a reference to the object, clears it unlocked...
ReleaseBegins ==
  /\ ConsumerAt("return")
  /\ consumer' = "clearing"
  /\ UNCHANGED <<poolVars, feederVars, queueVars, update, messagesProcessed, dangling, intact, process>>

ReleaseClears ==
  /\ ConsumerAt("clearing")
  /\ objects' = IF dangling THEN objects ELSE [objects EXCEPT ![update] = 0]
  /\ dangling' = FALSE
  /\ consumer' = "free"
  /\ MayCrash
  /\ UNCHANGED <<vectorCapacity, freeIndices, feederVars, queueVars, update, messagesProcessed, intact>>

\* Mutant: the index is lost.
ReleasedLeaks ==
  /\ ConsumerAt("free")
  /\ update' = NoIndex
  /\ consumer' = "pop"
  /\ UNCHANGED <<poolVars, feederVars, queueVars, messagesProcessed, dangling, intact, process>>

\* ...and puts its index on the free list under the mutex.
Released ==
  /\ ConsumerAt("free")
  /\ freeIndices' = Append(freeIndices, update)
  /\ update' = NoIndex
  /\ consumer' = "pop"
  /\ UNCHANGED <<objects, vectorCapacity, feederVars, queueVars, messagesProcessed, dangling, intact, process>>

Join ==
  /\ ConsumerAt("join")
  /\ feeder = "done"
  /\ process' = "finished"
  /\ UNCHANGED <<poolVars, feederVars, queueVars, consumerVars>>

-----------------------------------------------------------------------------
Feed == AcquireFree \/ AcquireNew \/ Reallocate \/ Produce \/ PushLease
        \/ PushNotifies \/ Close \/ CloseNotifies

Drain == PopBlocks \/ PopLease \/ PopEnds \/ ConsumeBegins \/ ConsumeEnds
         \/ ReleaseBegins \/ ReleaseClears \/ Released \/ Join

Ended == process # "running" /\ UNCHANGED vars

Next == Feed \/ Drain \/ Wakes \/ Ended

\* The operating system runs both threads; it owes nobody a spurious wakeup.
Spec == Init /\ [][Next]_vars /\ WF_vars(Feed) /\ WF_vars(Drain)

-----------------------------------------------------------------------------
Indices == DOMAIN objects

TypeOK ==
  /\ objects \in [0..(size - 1) -> 0..MessageCount]
  /\ size <= vectorCapacity
  /\ freeIndices \in Seq(Indices)
  /\ Queue!QueueTypeOK(Indices, {Main})
  /\ feeder \in {"acquire", "produce", "push", "notifyOne", "notifyAll", "done"}
  /\ sequence \in 1..(MessageCount + 1)
  /\ lease \in Indices \cup {NoIndex}
  /\ lease # NoIndex <=> feeder \in {"produce", "push"}
  /\ consumer \in {"pop", "popped", "consuming", "return", "clearing", "free", "join"}
  /\ update \in Indices \cup {NoIndex}
  /\ update = NoIndex <=> consumer \in {"pop", "join"}
  /\ messagesProcessed \in 0..MessageCount
  /\ {dangling, intact} \subseteq BOOLEAN
  /\ process \in {"running", "crashed", "finished"}

Places(i) ==
  {<<"free", k>> : k \in {k \in DOMAIN freeIndices : freeIndices[k] = i}}
  \cup {<<"queue", k>> : k \in {k \in DOMAIN items : items[k] = i}}
  \cup {<<"feeder", 0>> : t \in {lease} \cap {i}}
  \cup {<<"consumer", 0>> : t \in {update} \cap {i}}

ConsumesInOrder ==
  consumer = "consuming" => objects[update] = messagesProcessed + 1

\* Through growth and reuse every object is free, leased by one thread or on
\* the queue, in exactly one place; so the object the main thread is given holds
\* the message that was written to it, and messages arrive in order, although
\* the free list hands out the index returned last.
OneOwner ==
  /\ TypeOK
  /\ \A i \in Indices : Cardinality(Places(i)) = 1
  /\ ConsumesInOrder

\* The main thread does not sleep on an item or on the close unless a
\* notification is on its way.
NoLostWakeup ==
  Main \in waiters /\ Queue!MayPop
    => feeder \in {"notifyOne", "notifyAll"}

\* The pool grows only when the queue holds all its objects but at most the
\* one being returned: its size tells the backlog's peak.
GrowsOnlyByBacklog ==
  [][size' > size => Len(items) >= size - 1]_vars

\* Unless a dangling reference kills it, the run consumes every message.
Finishes ==
  <>(process = "crashed"
     \/ (process = "finished" /\ messagesProcessed = MessageCount))

\* The recorded run prints for the pool the checksum it prints for the
\* baseline, which moves the updates themselves over the queue: every update
\* is consumed as it was produced.
ChecksumOfBaseline == intact
=============================================================================
