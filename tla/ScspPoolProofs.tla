--------------------------- MODULE ScspPoolProofs ---------------------------
(***************************************************************************)
(* Proofs about the fixed pool and its two threads for every Capacity and  *)
(* any number of messages.                                                 *)
(*                                                                         *)
(* The counting argument.  Every object is free in the ring, on the queue, *)
(* or in one thread's hand, so the cursors' distance plus the length of    *)
(* the queue plus the leases in hand is Capacity (AccountInv).  A cursor   *)
(* loaded late is late by a known amount: the queue's mutex carries the    *)
(* read cursor of the last push, short of the real one by the lease the    *)
(* feed thread has in hand, and the write cursor of the last pop, short by *)
(* at most the object returned since (MutexInv).  So the main thread, with *)
(* a lease in hand, never takes the ring for full, and the feed thread     *)
(* takes it for empty only when the queue holds nearly everything.         *)
(***************************************************************************)
EXTENDS ScspPool, FiniteSetTheorems, SequenceTheorems, TLAPS

InHand(index) == IF index = NoIndex THEN 0 ELSE 1

\* The index in the ring at a sequence number.
FreeAt(s) == buffer[s % Capacity]

\* A thread is inside the ring only where it calls it.
PhaseInv ==
  /\ popper # "idle" => feeder = "acquire" /\ sequence <= MessageCount
  /\ feeder \in {"produce", "push"} => sequence <= MessageCount
  /\ pusher # "idle" => consumer = "release" /\ pushItem = update
  /\ pusher = "publish" => FreeAt(writeCursor) = update
  /\ popper = "advance" => popItem = FreeAt(readCursor)
  /\ process # "terminated"
  /\ process = "nullDeref" => backlog >= Capacity - 1

\* The objects add up.
AccountInv ==
  writeCursor - readCursor + Len(queue) + InHand(lease) + InHand(update) = Capacity

\* How late a loaded cursor can be.
MutexInv ==
  /\ cachedReadCursor <= readCursor
  /\ readCursor <= cachedWriteCursor /\ cachedWriteCursor <= writeCursor
  /\ popper \in {"take", "advance"} => readCursor < cachedWriteCursor
  /\ mutexRead = readCursor - InHand(lease)
  /\ writeCursor - mutexWrite <= 1 - InHand(update)
  /\ update # NoIndex => writeCursor - knownRead < Capacity
  /\ feeder = "acquire" => knownWrite - readCursor + backlog >= Capacity - 1

\* No index is in two places...
DistinctInv ==
  /\ \A s \in readCursor..(writeCursor - 1) : FreeAt(s) \in Indices
  /\ \A s, t \in readCursor..(writeCursor - 1) : FreeAt(s) = FreeAt(t) => s = t
  /\ \A j, k \in 1..Len(queue) : queue[j] = queue[k] => j = k
  /\ \A s \in readCursor..(writeCursor - 1), k \in 1..Len(queue) : FreeAt(s) # queue[k]
  /\ \A s \in readCursor..(writeCursor - 1) : FreeAt(s) # lease /\ FreeAt(s) # update
  /\ \A k \in 1..Len(queue) : queue[k] # lease /\ queue[k] # update
  /\ lease = update => lease = NoIndex

\* ...and every index is somewhere.
CoveredInv ==
  \A i \in Indices :
    \/ \E s \in readCursor..(writeCursor - 1) : FreeAt(s) = i
    \/ \E k \in 1..Len(queue) : queue[k] = i
    \/ i = lease
    \/ i = update

\* The number of the last message taken from the queue.
Popped == IF consumer = "consume" THEN messagesProcessed + 1 ELSE messagesProcessed

\* The objects on the queue hold consecutive messages.
ContentInv ==
  /\ sequence = Popped + Len(queue) + 1
  /\ \A k \in 1..Len(queue) : objects[queue[k]] = Popped + k
  /\ feeder = "push" => objects[lease] = sequence
  /\ consumer = "consume" => objects[update] = Popped

IInv == /\ TypeOK /\ PhaseInv /\ AccountInv /\ MutexInv
        /\ DistinctInv /\ CoveredInv /\ ContentInv

-----------------------------------------------------------------------------
\* All the proofs need of the assumption on the constants.
LEMMA Constants ==
  /\ Capacity \in Nat /\ Capacity >= 2 /\ MessageCount \in Nat
  /\ NoIndex \notin Indices
BY PoolAssumption

\* Two sequence numbers less than Capacity apart share no slot.
LEMMA SlotsDiffer ==
  ASSUME NEW a \in Nat, NEW b \in Nat, a < b, b - a < Capacity
  PROVE  a % Capacity # b % Capacity
<1>0. Capacity \in Nat /\ Capacity > 0
  BY Constants
<1>1. a = Capacity * (a \div Capacity) + (a % Capacity)
      /\ b = Capacity * (b \div Capacity) + (b % Capacity)
  BY <1>0
<1>2. SUFFICES ASSUME a % Capacity = b % Capacity PROVE FALSE
  OBVIOUS
<1>3. PICK p \in Int : p = a \div Capacity
  BY <1>0
<1>4. PICK q \in Int : q = b \div Capacity
  BY <1>0
<1>5. b - a = Capacity * (q - p)
  BY <1>0, <1>1, <1>2, <1>3, <1>4
<1>6. q - p >= 1
  BY <1>0, <1>5
<1>7. Capacity * (q - p) >= Capacity
  BY <1>0, <1>6
<1> QED
  BY <1>0, <1>5, <1>7

\* A sequence number has a slot.
LEMMA SlotExists ==
  ASSUME NEW s \in Nat
  PROVE  s % Capacity \in Indices
BY Constants DEF Indices

\* The types of the numbers the arguments count with.
LEMMA Numbers ==
  ASSUME TypeOK
  PROVE  /\ writeCursor \in Nat /\ readCursor \in Nat
         /\ cachedReadCursor \in Nat /\ cachedWriteCursor \in Nat
         /\ mutexRead \in 0..readCursor /\ knownRead \in 0..readCursor
         /\ mutexWrite \in 0..writeCursor /\ knownWrite \in 0..writeCursor
         /\ backlog \in Nat /\ Len(queue) \in Nat
         /\ sequence \in 1..(MessageCount + 1)
         /\ messagesProcessed \in 0..MessageCount
BY DEF TypeOK, Ring!TypeOK

\* A lease in hand counts for one.
LEMMA Hands ==
  /\ InHand(NoIndex) = 0
  /\ \A index \in Indices : InHand(index) = 1
  /\ \A index \in Indices \cup {NoIndex} : InHand(index) \in {0, 1}
BY Constants DEF InHand

\* A step that leaves every index where it is keeps the partition.
LEMMA NothingMoves ==
  ASSUME AccountInv, DistinctInv, CoveredInv,
         UNCHANGED <<readCursor, writeCursor, queue, lease, update>>,
         \A s \in readCursor..(writeCursor - 1) : FreeAt(s)' = FreeAt(s)
  PROVE  AccountInv' /\ DistinctInv' /\ CoveredInv'
<1>1. AccountInv'
  BY DEF AccountInv, InHand
<1>2. DistinctInv'
  BY DEF DistinctInv
<1>3. CoveredInv'
  BY DEF CoveredInv
<1> QED
  BY <1>1, <1>2, <1>3

\* Steps of the queue and of the objects leave the ring's contents alone.
LEMMA RingKept ==
  ASSUME UNCHANGED buffer
  PROVE  \A s \in Nat : FreeAt(s)' = FreeAt(s)
BY DEF FreeAt

-----------------------------------------------------------------------------
\* The constructor fills the ring; everything else is empty.
LEMMA InitIInv == Init => IInv
<1> SUFFICES ASSUME Init PROVE IInv
  OBVIOUS
<1> USE Constants DEF Init
<1>1. TypeOK
  <2>1. Ring!TypeOK
    BY DEF Ring!TypeOK, Indices
  <2>2. objects \in [Indices -> 0..MessageCount] /\ queue \in Seq(Indices)
    BY EmptySeq
  <2>3. sequence \in 1..(MessageCount + 1) /\ messagesProcessed \in 0..MessageCount
    OBVIOUS
  <2>4. {mutexRead, knownRead} \subseteq 0..readCursor
    OBVIOUS
  <2>5. {mutexWrite, knownWrite} \subseteq 0..writeCursor
    OBVIOUS
  <2>6. /\ feeder \in {"acquire", "produce", "push", "done"}
        /\ lease \in Indices \cup {NoIndex}
        /\ lease # NoIndex <=> feeder \in {"produce", "push"}
        /\ consumer \in {"pop", "waiting", "consume", "clear", "release", "join", "done"}
        /\ update \in Indices \cup {NoIndex}
        /\ update # NoIndex <=> consumer \in {"consume", "clear", "release"}
        /\ process \in {"running", "nullDeref", "terminated", "finished"}
        /\ closed \in BOOLEAN /\ backlog \in Nat
    OBVIOUS
  <2> QED
    BY <2>1, <2>2, <2>3, <2>4, <2>5, <2>6 DEF TypeOK
<1>2. \A s \in readCursor..(writeCursor - 1) : s % Capacity = s /\ FreeAt(s) = s
  BY DEF FreeAt, Indices
<1>3. PhaseInv
  BY DEF PhaseInv
<1>4. AccountInv
  BY DEF AccountInv, InHand
<1>5. MutexInv
  BY DEF MutexInv, InHand
<1>6. DistinctInv
  <2>1. \A s \in readCursor..(writeCursor - 1) : FreeAt(s) \in Indices
    BY <1>2 DEF Indices
  <2>2. \A s, t \in readCursor..(writeCursor - 1) : FreeAt(s) = FreeAt(t) => s = t
    BY <1>2
  <2>3. 1..Len(queue) = {}
    OBVIOUS
  <2> QED
    BY <2>1, <2>2, <2>3 DEF DistinctInv
<1>7. CoveredInv
  BY <1>2 DEF CoveredInv, Indices
<1>8. ContentInv
  BY DEF ContentInv, Popped
<1> QED
  BY <1>1, <1>3, <1>4, <1>5, <1>6, <1>7, <1>8 DEF IInv

-----------------------------------------------------------------------------
\* The feed thread inside the ring's pop, up to the copy out of the slot.
LEMMA AcquirePreserves == IInv /\ Acquire => IInv'
<1> SUFFICES ASSUME IInv, Acquire PROVE IInv'
  OBVIOUS
<1> USE DEF feederVars, consumerVars, queueVars, Ring!pushVars
<1>n. /\ writeCursor \in Nat /\ readCursor \in Nat
      /\ cachedReadCursor \in Nat /\ cachedWriteCursor \in Nat
      /\ mutexRead \in 0..readCursor /\ knownRead \in 0..readCursor
      /\ mutexWrite \in 0..writeCursor /\ knownWrite \in 0..writeCursor
  BY Numbers DEF IInv
<1>u. UNCHANGED <<feederVars, consumerVars, queueVars, objects, process, buffer,
                  writeCursor, cachedReadCursor, pusher, pushItem, readCursor>>
  BY DEF Acquire, Ring!PopBegin, Ring!PopRefresh, Ring!PopTake
<1>k. \A s \in Nat : FreeAt(s)' = FreeAt(s)
  BY <1>u, RingKept
<1>a. feeder = "acquire" /\ sequence <= MessageCount
  BY DEF Acquire, FeederAt
<1>p. AccountInv' /\ DistinctInv' /\ CoveredInv'
  <2>1. \A s \in readCursor..(writeCursor - 1) : FreeAt(s)' = FreeAt(s)
    BY <1>k, <1>n
  <2> QED
    BY <2>1, <1>u, NothingMoves DEF IInv
<1>c. ContentInv'
  BY <1>u DEF IInv, ContentInv, Popped
<1>1. CASE Ring!PopBegin
  <2>1. TypeOK'
    BY <1>1, <1>u DEF IInv, TypeOK, Ring!TypeOK, Ring!PopBegin
  <2>2. PhaseInv'
    BY <1>1, <1>u, <1>k, <1>n, <1>a DEF IInv, PhaseInv, Ring!PopBegin
  <2>3. MutexInv'
    BY <1>1, <1>u, <1>n DEF IInv, MutexInv, Ring!PopBegin, Ring!LooksEmpty, InHand
  <2> QED
    BY <1>p, <1>c, <2>1, <2>2, <2>3 DEF IInv
<1>2. ASSUME NEW write \in Later(cachedWriteCursor, knownWrite)..writeCursor,
             Ring!PopRefresh(write)
      PROVE  IInv'
  <2>0. write \in Nat /\ cachedWriteCursor <= write /\ write <= writeCursor
    BY <1>n DEF Later
  <2>1. TypeOK'
    BY <1>2, <2>0, <1>u DEF IInv, TypeOK, Ring!TypeOK, Ring!PopRefresh
  <2>2. PhaseInv'
    BY <1>2, <1>u, <1>k, <1>n, <1>a DEF IInv, PhaseInv, Ring!PopRefresh
  <2>3. MutexInv'
    BY <1>2, <2>0, <1>u, <1>n DEF IInv, MutexInv, Ring!PopRefresh, Ring!LooksEmpty, InHand
  <2> QED
    BY <1>p, <1>c, <2>1, <2>2, <2>3 DEF IInv
<1>3. CASE Ring!PopTake
  <2>0. /\ popItem' = FreeAt(readCursor) /\ UNCHANGED cachedWriteCursor
        /\ popper = "take" /\ popper' = "advance"
    BY <1>3 DEF Ring!PopTake, Ring!Slot, FreeAt
  <2>1. TypeOK'
    <3>1. readCursor % Capacity \in 0..(Capacity - 1)
      BY <1>n, SlotExists DEF Indices
    <3>2. popItem' \in Indices \cup {NoIndex}
      BY <2>0, <3>1 DEF IInv, TypeOK, Ring!TypeOK, FreeAt
    <3> QED
      BY <2>0, <3>2, <1>u DEF IInv, TypeOK, Ring!TypeOK
  <2>2. PhaseInv'
    BY <2>0, <1>u, <1>k, <1>n, <1>a DEF IInv, PhaseInv
  <2>3. MutexInv'
    BY <2>0, <1>u, <1>n DEF IInv, MutexInv, InHand
  <2> QED
    BY <1>p, <1>c, <2>1, <2>2, <2>3 DEF IInv
<1> QED
  BY <1>1, <1>2, <1>3 DEF Acquire

\* pop's store of the read cursor: the index goes from the ring to the lease.
LEMMA AcquiredPreserves == IInv /\ Acquired => IInv'
<1> SUFFICES ASSUME IInv, Acquired PROVE IInv'
  OBVIOUS
<1> USE DEF consumerVars, queueVars, Ring!pushVars
<1>n. /\ writeCursor \in Nat /\ readCursor \in Nat /\ cachedWriteCursor \in Nat
      /\ cachedReadCursor \in Nat
      /\ mutexRead \in 0..readCursor /\ knownRead \in 0..readCursor
      /\ mutexWrite \in 0..writeCursor /\ knownWrite \in 0..writeCursor
      /\ Len(queue) \in Nat /\ backlog \in Nat
  BY Numbers DEF IInv
<1>a. /\ process = "running" /\ feeder = "acquire" /\ feeder' = "produce"
      /\ popper = "advance" /\ popper' = "idle"
      /\ readCursor' = readCursor + 1
      /\ lease' = popItem
      /\ UNCHANGED <<buffer, writeCursor, cachedReadCursor, pusher, pushItem,
                     cachedWriteCursor, popItem, sequence, knownWrite, backlog,
                     consumerVars, queueVars, objects, process>>
  BY DEF Acquired, Ring!PopAdvance, FeederAt
<1>k. \A s \in Nat : FreeAt(s)' = FreeAt(s)
  BY <1>a, RingKept
<1>b. /\ popItem = FreeAt(readCursor) /\ sequence <= MessageCount
      /\ readCursor < writeCursor
      /\ readCursor < cachedWriteCursor
      /\ lease = NoIndex
  BY <1>a, <1>n DEF IInv, TypeOK, PhaseInv, MutexInv
<1>d. /\ readCursor \in readCursor..(writeCursor - 1)
      /\ lease' = FreeAt(readCursor)
      /\ \A s \in (readCursor + 1)..(writeCursor - 1) :
            s \in Nat /\ s \in readCursor..(writeCursor - 1) /\ s # readCursor
  BY <1>a, <1>b, <1>n
<1>e. lease' \in Indices /\ lease' # NoIndex
  BY <1>d, Constants DEF IInv, DistinctInv
<1>1. TypeOK'
  <2>1. Ring!TypeOK'
    BY <1>a, <1>n DEF IInv, TypeOK, Ring!TypeOK
  <2>2. {mutexRead, knownRead} \subseteq 0..(readCursor + 1)
    BY <1>n
  <2> QED
    BY <2>1, <2>2, <1>a, <1>e DEF IInv, TypeOK
<1>2. PhaseInv'
  BY <1>a, <1>b, <1>k, <1>n DEF IInv, PhaseInv
<1>3. AccountInv'
  <2>1. InHand(lease) = 0 /\ InHand(lease') = 1 /\ InHand(update') = InHand(update)
        /\ InHand(update) \in {0, 1}
    BY <1>a, <1>b, <1>e, Hands DEF IInv, TypeOK
  <2>2. InHand(lease)' = InHand(lease') /\ InHand(update)' = InHand(update')
    BY DEF InHand
  <2> QED
    BY <2>1, <2>2, <1>a, <1>n, Constants DEF IInv, AccountInv
<1>4. MutexInv'
  <2>1. InHand(lease) = 0 /\ InHand(lease)' = 1 /\ InHand(update)' = InHand(update)
        /\ InHand(update) \in {0, 1}
    BY <1>a, <1>b, <1>e, Hands DEF IInv, TypeOK, InHand
  <2> QED
    BY <2>1, <1>a, <1>b, <1>n, Constants DEF IInv, MutexInv
<1>5. DistinctInv'
  <2>1. /\ \A s \in (readCursor + 1)..(writeCursor - 1) : FreeAt(s)' \in Indices
        /\ \A s, t \in (readCursor + 1)..(writeCursor - 1) :
             FreeAt(s)' = FreeAt(t)' => s = t
        /\ \A s \in (readCursor + 1)..(writeCursor - 1), k \in 1..Len(queue) :
             FreeAt(s)' # queue[k]
    BY <1>k, <1>d DEF IInv, DistinctInv
  <2>2. \A s \in (readCursor + 1)..(writeCursor - 1) :
             FreeAt(s)' # lease' /\ FreeAt(s)' # update
    BY <1>k, <1>d DEF IInv, DistinctInv
  <2>3. \A k \in 1..Len(queue) : queue[k] # lease' /\ queue[k] # update
    BY <1>d DEF IInv, DistinctInv
  <2>4. lease' # update
    BY <1>d DEF IInv, DistinctInv
  <2> QED
    BY <2>1, <2>2, <2>3, <2>4, <1>a DEF IInv, DistinctInv
<1>6. CoveredInv'
  <2> SUFFICES ASSUME NEW i \in Indices
               PROVE  \/ \E s \in (readCursor + 1)..(writeCursor - 1) : FreeAt(s)' = i
                      \/ \E k \in 1..Len(queue) : queue[k] = i
                      \/ i = lease'
                      \/ i = update
    BY <1>a DEF CoveredInv
  <2>1. CASE \E s \in readCursor..(writeCursor - 1) : FreeAt(s) = i
    <3>1. PICK s \in readCursor..(writeCursor - 1) : FreeAt(s) = i
      BY <2>1
    <3>2. s = readCursor \/ s \in (readCursor + 1)..(writeCursor - 1)
      BY <1>n
    <3> QED
      BY <3>1, <3>2, <1>d, <1>k
  <2>2. i # lease
    BY <1>b, Constants
  <2> QED
    BY <2>1, <2>2 DEF IInv, CoveredInv
<1>7. ContentInv'
  BY <1>a DEF IInv, ContentInv, Popped
<1> QED
  BY <1>1, <1>2, <1>3, <1>4, <1>5, <1>6, <1>7 DEF IInv

\* The lease is empty: the last push left a backlog of Capacity - 1.
LEMMA AcquireFailedPreserves == IInv /\ AcquireFailed => IInv'
<1> SUFFICES ASSUME IInv, AcquireFailed PROVE IInv'
  OBVIOUS
<1> USE DEF feederVars, consumerVars, queueVars, Ring!pushVars
<1>n. /\ writeCursor \in Nat /\ readCursor \in Nat /\ cachedWriteCursor \in Nat
      /\ knownWrite \in 0..writeCursor /\ backlog \in Nat
  BY Numbers DEF IInv
<1>1. PICK write \in Later(cachedWriteCursor, knownWrite)..writeCursor :
        Ring!PopRefused(write)
  BY DEF AcquireFailed
<1>a. /\ feeder = "acquire" /\ process' = "nullDeref"
      /\ readCursor >= write /\ cachedWriteCursor' = write
      /\ popper' = "idle"
      /\ UNCHANGED <<feederVars, consumerVars, queueVars, objects, buffer, writeCursor,
                     cachedReadCursor, pusher, pushItem, readCursor, popItem>>
  BY <1>1 DEF AcquireFailed, FeederAt, Ring!PopRefused, Ring!LooksEmpty
<1>b. /\ write \in Nat /\ knownWrite <= write /\ cachedWriteCursor <= write
      /\ write <= writeCursor
  BY <1>n DEF Later
<1>k. \A s \in Nat : FreeAt(s)' = FreeAt(s)
  BY <1>a, RingKept
<1>2. TypeOK'
  BY <1>a, <1>b DEF IInv, TypeOK, Ring!TypeOK
<1>3. PhaseInv'
  <2>1. backlog >= Capacity - 1
    BY <1>a, <1>b, <1>n, Constants DEF IInv, MutexInv
  <2> QED
    BY <2>1, <1>a, <1>k, <1>n DEF IInv, PhaseInv
<1>4. AccountInv' /\ DistinctInv' /\ CoveredInv'
  <2>1. \A s \in readCursor..(writeCursor - 1) : FreeAt(s)' = FreeAt(s)
    BY <1>k, <1>n
  <2> QED
    BY <2>1, <1>a, NothingMoves DEF IInv
<1>5. MutexInv'
  BY <1>a, <1>b, <1>n DEF IInv, MutexInv, InHand
<1>6. ContentInv'
  BY <1>a DEF IInv, ContentInv, Popped
<1> QED
  BY <1>2, <1>3, <1>4, <1>5, <1>6 DEF IInv

\* The feed thread fills an object nobody else has.
LEMMA ProducePreserves == IInv /\ Produce => IInv'
<1> SUFFICES ASSUME IInv, Produce PROVE IInv'
  OBVIOUS
<1> USE DEF ringVars, consumerVars, queueVars
<1>n. /\ writeCursor \in Nat /\ readCursor \in Nat
      /\ sequence \in 1..(MessageCount + 1)
  BY Numbers DEF IInv
<1>a. /\ feeder = "produce" /\ feeder' = "push"
      /\ objects' = [objects EXCEPT ![lease] = sequence]
      /\ UNCHANGED <<ringVars, sequence, lease, knownWrite, backlog, consumerVars,
                     queueVars, process>>
  BY DEF Produce, FeederAt
<1>b. sequence <= MessageCount /\ lease \in Indices /\ lease # NoIndex
  BY <1>a DEF IInv, PhaseInv, TypeOK
<1>k. \A s \in Nat : FreeAt(s)' = FreeAt(s)
  BY <1>a, RingKept
<1>1. TypeOK'
  <2>1. objects' \in [Indices -> 0..MessageCount]
    BY <1>a, <1>b, <1>n, Constants DEF IInv, TypeOK
  <2> QED
    BY <2>1, <1>a DEF IInv, TypeOK, Ring!TypeOK
<1>2. PhaseInv'
  BY <1>a, <1>b, <1>k, <1>n DEF IInv, PhaseInv
<1>3. AccountInv' /\ DistinctInv' /\ CoveredInv'
  <2>1. \A s \in readCursor..(writeCursor - 1) : FreeAt(s)' = FreeAt(s)
    BY <1>k, <1>n
  <2> QED
    BY <2>1, <1>a, NothingMoves DEF IInv
<1>4. MutexInv'
  BY <1>a DEF IInv, MutexInv, InHand
<1>5. ContentInv'
  <2>1. \A k \in 1..Len(queue) : objects'[queue[k]] = objects[queue[k]]
    BY <1>a DEF IInv, TypeOK, DistinctInv
  <2>2. lease # update
    BY <1>b DEF IInv, DistinctInv
  <2>3. consumer = "consume" => objects'[update] = objects[update]
    BY <1>a, <2>2 DEF IInv, TypeOK
  <2>4. objects'[lease] = sequence
    BY <1>a, <1>b DEF IInv, TypeOK
  <2> QED
    BY <2>1, <2>3, <2>4, <1>a DEF IInv, ContentInv, Popped
<1> QED
  BY <1>1, <1>2, <1>3, <1>4, <1>5 DEF IInv

\* The lease moves to the back of the queue, and the mutex passes on the
\* cursors: what the main thread will know of the read cursor is exact.
LEMMA PushLeasePreserves == IInv /\ PushLease => IInv'
<1> SUFFICES ASSUME IInv, PushLease PROVE IInv'
  OBVIOUS
<1> USE DEF ringVars, consumerVars
<1>n. /\ writeCursor \in Nat /\ readCursor \in Nat /\ cachedWriteCursor \in Nat
      /\ cachedReadCursor \in Nat
      /\ mutexRead \in 0..readCursor /\ knownRead \in 0..readCursor
      /\ mutexWrite \in 0..writeCursor /\ knownWrite \in 0..writeCursor
      /\ Len(queue) \in Nat /\ backlog \in Nat
      /\ sequence \in 1..(MessageCount + 1)
  BY Numbers DEF IInv
<1>a. /\ feeder = "push" /\ feeder' = "acquire"
      /\ queue' = Append(queue, lease)
      /\ backlog' = Len(queue')
      /\ lease' = NoIndex
      /\ sequence' = sequence + 1
      /\ knownWrite' = mutexWrite
      /\ mutexRead' = readCursor
      /\ UNCHANGED <<ringVars, consumerVars, closed, mutexWrite, objects, process>>
  BY DEF PushLease, FeederAt
<1>b. /\ sequence <= MessageCount /\ lease \in Indices /\ lease # NoIndex
      /\ popper = "idle" /\ update \in Indices \cup {NoIndex}
      /\ queue \in Seq(Indices)
  BY <1>a DEF IInv, PhaseInv, TypeOK, Ring!TypeOK
<1>q. /\ queue' \in Seq(Indices)
      /\ Len(queue') = Len(queue) + 1
      /\ \A k \in 1..Len(queue) : queue'[k] = queue[k]
      /\ queue'[Len(queue) + 1] = lease
  BY <1>a, <1>b, AppendProperties
<1>i. \A k \in 1..Len(queue') : k \in 1..Len(queue) \/ k = Len(queue) + 1
  BY <1>q, <1>n
<1>k. \A s \in Nat : FreeAt(s)' = FreeAt(s)
  BY <1>a, RingKept
<1>h. InHand(lease) = 1 /\ InHand(lease)' = 0 /\ InHand(update)' = InHand(update)
      /\ InHand(update) \in {0, 1}
  BY <1>a, <1>b, Hands DEF InHand
<1>1. TypeOK'
  <2>1. sequence' \in 1..(MessageCount + 1)
    BY <1>a, <1>b, <1>n, Constants
  <2>2. {readCursor, knownRead} \subseteq 0..readCursor
    BY <1>n
  <2> QED
    BY <2>1, <2>2, <1>a, <1>b, <1>q, <1>n DEF IInv, TypeOK, Ring!TypeOK
<1>2. PhaseInv'
  <2>1. process = "running"
    BY DEF PushLease, FeederAt
  <2> QED
    BY <2>1, <1>a, <1>b, <1>k, <1>n DEF IInv, PhaseInv
<1>3. AccountInv'
  BY <1>a, <1>h, <1>q, <1>n, Constants DEF IInv, AccountInv
<1>4. MutexInv'
  <2>1. knownWrite' - readCursor + backlog' >= Capacity - 1
    BY <1>a, <1>h, <1>q, <1>n, Constants DEF IInv, AccountInv, MutexInv
  <2> QED
    BY <2>1, <1>a, <1>h, <1>n DEF IInv, MutexInv
<1>5. DistinctInv'
  <2>1. \A j, k \in 1..Len(queue') : queue'[j] = queue'[k] => j = k
    <3> SUFFICES ASSUME NEW j \in 1..Len(queue'), NEW k \in 1..Len(queue'),
                        queue'[j] = queue'[k]
                 PROVE  j = k
      OBVIOUS
    <3> QED
      BY <1>i, <1>q DEF IInv, DistinctInv
  <2>2. \A s \in readCursor..(writeCursor - 1), k \in 1..Len(queue') :
           FreeAt(s) # queue'[k]
    BY <1>i, <1>q DEF IInv, DistinctInv
  <2>3. \A s \in readCursor..(writeCursor - 1) :
           FreeAt(s)' = FreeAt(s) /\ FreeAt(s) \in Indices /\ FreeAt(s) # NoIndex
    BY <1>k, <1>n, Constants DEF IInv, DistinctInv
  <2>4. \A k \in 1..Len(queue') : queue'[k] # NoIndex /\ queue'[k] # update
    <3>1. lease # update
      BY <1>b DEF IInv, DistinctInv
    <3>2. \A k \in 1..Len(queue) : queue[k] \in Indices
      BY <1>b
    <3> QED
      BY <3>1, <3>2, <1>i, <1>q, <1>b, Constants DEF IInv, DistinctInv
  <2> QED
    BY <2>1, <2>2, <2>3, <2>4, <1>a DEF IInv, DistinctInv
<1>6. CoveredInv'
  <2> SUFFICES ASSUME NEW i \in Indices
               PROVE  \/ \E s \in readCursor..(writeCursor - 1) : FreeAt(s)' = i
                      \/ \E k \in 1..Len(queue') : queue'[k] = i
                      \/ i = update
    BY <1>a DEF CoveredInv
  <2>1. CASE \E s \in readCursor..(writeCursor - 1) : FreeAt(s) = i
    BY <2>1, <1>k, <1>n
  <2>2. CASE \E k \in 1..Len(queue) : queue[k] = i
    <3>1. \A k \in 1..Len(queue) : k \in 1..Len(queue')
      BY <1>q, <1>n
    <3> QED
      BY <2>2, <3>1, <1>q
  <2>3. CASE i = lease
    <3>1. Len(queue) + 1 \in 1..Len(queue')
      BY <1>q, <1>n
    <3> QED
      BY <2>3, <3>1, <1>q
  <2> QED
    BY <2>1, <2>2, <2>3 DEF IInv, CoveredInv
<1>7. ContentInv'
  <2>1. Popped' = Popped /\ Popped \in Int
    BY <1>a, Numbers DEF IInv, Popped
  <2>2. \A k \in 1..Len(queue) : objects[queue[k]] = Popped + k
    BY DEF IInv, ContentInv
  <2>3. objects[lease] = sequence /\ sequence = Popped + Len(queue) + 1
    BY <1>a DEF IInv, ContentInv
  <2>4. objects[queue'[Len(queue) + 1]] = Popped + (Len(queue) + 1)
    BY <2>1, <2>3, <1>q, <1>n
  <2>5. \A k \in 1..Len(queue') : objects[queue'[k]] = Popped + k
    BY <2>2, <2>4, <1>i, <1>q
  <2>6. sequence' = Popped + Len(queue') + 1
    BY <2>1, <2>3, <1>a, <1>q, <1>n
  <2> QED
    BY <2>1, <2>5, <2>6, <1>a DEF IInv, ContentInv
<1> QED
  BY <1>1, <1>2, <1>3, <1>4, <1>5, <1>6, <1>7 DEF IInv

\* The feed thread ends.
LEMMA ClosePreserves == IInv /\ Close => IInv'
<1> SUFFICES ASSUME IInv, Close PROVE IInv'
  OBVIOUS
<1> USE DEF ringVars, consumerVars
<1>n. /\ writeCursor \in Nat /\ readCursor \in Nat
      /\ knownRead \in 0..readCursor
      /\ sequence \in 1..(MessageCount + 1)
  BY Numbers DEF IInv
<1>a. /\ feeder = "acquire" /\ feeder' = "done" /\ sequence > MessageCount
      /\ closed' = TRUE
      /\ knownWrite' = mutexWrite
      /\ mutexRead' = readCursor
      /\ UNCHANGED <<ringVars, sequence, lease, backlog, consumerVars, queue,
                     mutexWrite, objects, process>>
  BY DEF Close, FeederAt
<1>b. lease = NoIndex /\ popper = "idle"
  BY <1>a, <1>n, Constants DEF IInv, TypeOK, PhaseInv, Ring!TypeOK
<1>k. \A s \in Nat : FreeAt(s)' = FreeAt(s)
  BY <1>a, RingKept
<1>1. TypeOK'
  <2>1. {readCursor, knownRead} \subseteq 0..readCursor
    BY <1>n
  <2> QED
    BY <2>1, <1>a, <1>b DEF IInv, TypeOK, Ring!TypeOK
<1>2. PhaseInv'
  BY <1>a, <1>b, <1>k, <1>n DEF IInv, PhaseInv
<1>3. AccountInv' /\ DistinctInv' /\ CoveredInv'
  <2>1. \A s \in readCursor..(writeCursor - 1) : FreeAt(s)' = FreeAt(s)
    BY <1>k, <1>n
  <2> QED
    BY <2>1, <1>a, NothingMoves DEF IInv
<1>4. MutexInv'
  <2>1. InHand(lease) = 0 /\ InHand(lease)' = 0 /\ InHand(update)' = InHand(update)
    BY <1>a, <1>b, Hands DEF InHand
  <2>2. mutexRead' = readCursor' - InHand(lease)'
    BY <2>1, <1>a, <1>n
  <2> QED
    BY <2>1, <2>2, <1>a DEF IInv, MutexInv
<1>5. ContentInv'
  BY <1>a DEF IInv, ContentInv, Popped
<1> QED
  BY <1>1, <1>2, <1>3, <1>4, <1>5 DEF IInv

-----------------------------------------------------------------------------
\* The main thread finds the queue empty, or waits for the feed thread to end.
LEMMA IdlePreserves == IInv /\ (PopWaits \/ PopEnds \/ Join) => IInv'
<1> SUFFICES ASSUME IInv, PopWaits \/ PopEnds \/ Join PROVE IInv'
  OBVIOUS
<1> USE DEF ringVars, feederVars
<1>n. /\ writeCursor \in Nat /\ readCursor \in Nat
      /\ mutexRead \in 0..readCursor /\ knownWrite \in 0..writeCursor
      /\ mutexWrite \in 0..writeCursor
  BY Numbers DEF IInv
<1>a. /\ consumer \in {"pop", "waiting", "join"}
      /\ consumer' \in {"waiting", "join", "done"}
      /\ process' \in {process, "finished"}
      /\ knownRead' \in {knownRead, mutexRead}
      /\ mutexWrite' \in {mutexWrite, writeCursor}
      /\ UNCHANGED <<ringVars, feederVars, update, messagesProcessed, queue, closed,
                     mutexRead, objects>>
  BY DEF PopWaits, PopEnds, Join, Synchronise, ConsumerAt, queueVars
<1>b. update = NoIndex /\ pusher = "idle"
  BY <1>a DEF IInv, TypeOK, PhaseInv, Ring!TypeOK
<1>k. \A s \in Nat : FreeAt(s)' = FreeAt(s)
  BY <1>a, RingKept
<1>1. TypeOK'
  <2>1. {mutexRead, knownRead}' \subseteq 0..readCursor
        /\ {mutexWrite, knownWrite}' \subseteq 0..writeCursor
    BY <1>a, <1>n DEF IInv, TypeOK
  <2> QED
    BY <2>1, <1>a, <1>b DEF IInv, TypeOK, Ring!TypeOK
<1>2. PhaseInv'
  BY <1>a, <1>b, <1>k, <1>n DEF IInv, PhaseInv
<1>3. AccountInv' /\ DistinctInv' /\ CoveredInv'
  <2>1. \A s \in readCursor..(writeCursor - 1) : FreeAt(s)' = FreeAt(s)
    BY <1>k, <1>n
  <2> QED
    BY <2>1, <1>a, NothingMoves DEF IInv
<1>4. MutexInv'
  <2>1. InHand(lease)' = InHand(lease) /\ InHand(update)' = 0 /\ InHand(update) = 0
    BY <1>a, <1>b, Hands DEF InHand
  <2>2. writeCursor - mutexWrite <= 1
    BY <2>1, <1>n DEF IInv, MutexInv
  <2>3. writeCursor - mutexWrite' <= 1
    <3>1. CASE mutexWrite' = mutexWrite
      BY <2>2, <3>1
    <3>2. CASE mutexWrite' = writeCursor
      BY <3>2, <1>n
    <3> QED
      BY <3>1, <3>2, <1>a
  <2> QED
    BY <2>1, <2>3, <1>a, <1>b DEF IInv, MutexInv
<1>5. ContentInv'
  BY <1>a DEF IInv, ContentInv, Popped
<1> QED
  BY <1>1, <1>2, <1>3, <1>4, <1>5 DEF IInv

\* The lease at the front moves to the main thread's hand, and with it the read
\* cursor of the last push: it is recent enough for the return.
LEMMA PopLeasePreserves == IInv /\ PopLease => IInv'
<1> SUFFICES ASSUME IInv, PopLease PROVE IInv'
  OBVIOUS
<1> USE DEF ringVars, feederVars
<1>n. /\ writeCursor \in Nat /\ readCursor \in Nat /\ cachedWriteCursor \in Nat
      /\ cachedReadCursor \in Nat
      /\ mutexRead \in 0..readCursor /\ knownRead \in 0..readCursor
      /\ mutexWrite \in 0..writeCursor /\ knownWrite \in 0..writeCursor
      /\ Len(queue) \in Nat /\ messagesProcessed \in 0..MessageCount
  BY Numbers DEF IInv
<1>a. /\ consumer \in {"pop", "waiting"} /\ consumer' = "consume"
      /\ queue # <<>>
      /\ update' = Head(queue)
      /\ queue' = Tail(queue)
      /\ knownRead' = mutexRead /\ mutexWrite' = writeCursor
      /\ UNCHANGED <<ringVars, feederVars, messagesProcessed, closed, mutexRead,
                     objects, process>>
  BY DEF PopLease, Synchronise, ConsumerAt
<1>b. /\ update = NoIndex /\ pusher = "idle"
      /\ lease \in Indices \cup {NoIndex} /\ queue \in Seq(Indices)
  BY <1>a DEF IInv, TypeOK, PhaseInv, Ring!TypeOK
<1>q. /\ queue' \in Seq(Indices)
      /\ Len(queue') = Len(queue) - 1
      /\ \A k \in 1..Len(queue') : queue'[k] = queue[k + 1]
      /\ update' = queue[1] /\ update' \in Indices
  BY <1>a, <1>b, HeadTailProperties
<1>i. /\ 1 \in 1..Len(queue)
      /\ \A k \in 1..Len(queue') : k + 1 \in 1..Len(queue) /\ k + 1 # 1
      /\ \A k \in 1..Len(queue) : k = 1 \/ (k - 1 \in 1..Len(queue') /\ (k - 1) + 1 = k)
  BY <1>q, <1>n, <1>a, <1>b, EmptySeq
<1>k. \A s \in Nat : FreeAt(s)' = FreeAt(s)
  BY <1>a, RingKept
<1>h. /\ InHand(update) = 0 /\ InHand(update)' = 1 /\ InHand(lease)' = InHand(lease)
      /\ InHand(lease) \in {0, 1}
      /\ update' # NoIndex
  BY <1>a, <1>b, <1>q, Hands, Constants DEF InHand
<1>1. TypeOK'
  <2>1. {mutexRead, knownRead}' \subseteq 0..readCursor
        /\ {mutexWrite, knownWrite}' \subseteq 0..writeCursor
    BY <1>a, <1>n
  <2> QED
    BY <2>1, <1>a, <1>q, <1>h DEF IInv, TypeOK, Ring!TypeOK
<1>2. PhaseInv'
  BY <1>a, <1>b, <1>k, <1>n DEF IInv, PhaseInv, TypeOK, Ring!TypeOK
<1>3. AccountInv'
  BY <1>a, <1>h, <1>q, <1>n, Constants DEF IInv, AccountInv
<1>4. MutexInv'
  <2>1. writeCursor - knownRead' < Capacity
    BY <1>a, <1>h, <1>q, <1>i, <1>n, Constants DEF IInv, AccountInv, MutexInv
  <2>2. writeCursor - mutexWrite' <= 1 - InHand(update)'
    BY <1>a, <1>h, <1>n
  <2> QED
    BY <2>1, <2>2, <1>a, <1>h, <1>n DEF IInv, MutexInv
<1>5. DistinctInv'
  <2>1. \A j, k \in 1..Len(queue') : queue'[j] = queue'[k] => j = k
    <3> SUFFICES ASSUME NEW j \in 1..Len(queue'), NEW k \in 1..Len(queue'),
                        queue'[j] = queue'[k]
                 PROVE  j = k
      OBVIOUS
    <3>1. j + 1 = k + 1
      BY <1>i, <1>q DEF IInv, DistinctInv
    <3> QED
      BY <3>1, <1>n
  <2>2. \A s \in readCursor..(writeCursor - 1) :
           /\ FreeAt(s)' = FreeAt(s)
           /\ FreeAt(s) # lease /\ FreeAt(s) # update'
           /\ \A k \in 1..Len(queue') : FreeAt(s) # queue'[k]
    BY <1>i, <1>q, <1>k, <1>n DEF IInv, DistinctInv
  <2>3. \A k \in 1..Len(queue') : queue'[k] # lease /\ queue'[k] # update'
    BY <1>i, <1>q DEF IInv, DistinctInv
  <2>4. lease # update'
    BY <1>i, <1>q DEF IInv, DistinctInv
  <2> QED
    BY <2>1, <2>2, <2>3, <2>4, <1>a DEF IInv, DistinctInv
<1>6. CoveredInv'
  <2> SUFFICES ASSUME NEW i \in Indices
               PROVE  \/ \E s \in readCursor..(writeCursor - 1) : FreeAt(s)' = i
                      \/ \E k \in 1..Len(queue') : queue'[k] = i
                      \/ i = lease
                      \/ i = update'
    BY <1>a DEF CoveredInv
  <2>1. CASE \E s \in readCursor..(writeCursor - 1) : FreeAt(s) = i
    BY <2>1, <1>k, <1>n
  <2>2. CASE \E k \in 1..Len(queue) : queue[k] = i
    <3>1. PICK k \in 1..Len(queue) : queue[k] = i
      BY <2>2
    <3>2. k = 1 \/ (k - 1 \in 1..Len(queue') /\ queue'[k - 1] = i)
      BY <3>1, <1>i, <1>q
    <3> QED
      BY <3>1, <3>2, <1>q
  <2>3. i # update
    BY <1>b, Constants
  <2> QED
    BY <2>1, <2>2, <2>3 DEF IInv, CoveredInv
<1>7. ContentInv'
  <2>1. Popped = messagesProcessed /\ Popped' = messagesProcessed + 1
    BY <1>a DEF Popped
  <2>2. /\ sequence = Popped + Len(queue) + 1
        /\ \A k \in 1..Len(queue) : objects[queue[k]] = Popped + k
    BY DEF IInv, ContentInv
  <2>3. sequence = Popped' + Len(queue') + 1
    BY <2>1, <2>2, <1>q, <1>n
  <2>4. ASSUME NEW k \in 1..Len(queue') PROVE objects[queue'[k]] = Popped' + k
    <3>1. objects[queue[k + 1]] = Popped + (k + 1)
      BY <2>2, <1>i
    <3> QED
      BY <3>1, <2>1, <1>q, <1>n
  <2>5. objects[update'] = Popped'
    BY <2>1, <2>2, <1>i, <1>q
  <2> QED
    BY <2>3, <2>4, <2>5, <1>a DEF IInv, ContentInv
<1> QED
  BY <1>1, <1>2, <1>3, <1>4, <1>5, <1>6, <1>7 DEF IInv

\* The main thread has read the object.
LEMMA ConsumePreserves == IInv /\ Consume => IInv'
<1> SUFFICES ASSUME IInv, Consume PROVE IInv'
  OBVIOUS
<1> USE DEF ringVars, feederVars, queueVars
<1>n. /\ writeCursor \in Nat /\ readCursor \in Nat /\ Len(queue) \in Nat
      /\ messagesProcessed \in 0..MessageCount
      /\ sequence \in 1..(MessageCount + 1)
  BY Numbers DEF IInv
<1>a. /\ consumer = "consume" /\ consumer' = "clear"
      /\ messagesProcessed' = messagesProcessed + 1
      /\ UNCHANGED <<ringVars, feederVars, update, knownRead, queueVars, objects, process>>
  BY DEF Consume, ConsumerAt
<1>b. pusher = "idle"
  BY <1>a DEF IInv, PhaseInv
<1>c. Popped = messagesProcessed + 1 /\ Popped' = Popped
  BY <1>a DEF Popped
<1>k. \A s \in Nat : FreeAt(s)' = FreeAt(s)
  BY <1>a, RingKept
<1>1. TypeOK'
  <2>1. messagesProcessed' \in 0..MessageCount
    BY <1>a, <1>c, <1>n, Constants DEF IInv, ContentInv
  <2> QED
    BY <2>1, <1>a DEF IInv, TypeOK, Ring!TypeOK
<1>2. PhaseInv'
  BY <1>a, <1>b, <1>k, <1>n DEF IInv, PhaseInv
<1>3. AccountInv' /\ DistinctInv' /\ CoveredInv'
  <2>1. \A s \in readCursor..(writeCursor - 1) : FreeAt(s)' = FreeAt(s)
    BY <1>k, <1>n
  <2> QED
    BY <2>1, <1>a, NothingMoves DEF IInv
<1>4. MutexInv'
  BY <1>a DEF IInv, MutexInv, InHand
<1>5. ContentInv'
  BY <1>a, <1>c DEF IInv, ContentInv
<1> QED
  BY <1>1, <1>2, <1>3, <1>4, <1>5 DEF IInv

\* release clears an object nobody else has.
LEMMA ReleaseClearPreserves == IInv /\ ReleaseClear => IInv'
<1> SUFFICES ASSUME IInv, ReleaseClear PROVE IInv'
  OBVIOUS
<1> USE DEF ringVars, feederVars, queueVars
<1>n. /\ writeCursor \in Nat /\ readCursor \in Nat
  BY Numbers DEF IInv
<1>a. /\ consumer = "clear" /\ consumer' = "release"
      /\ objects' = [objects EXCEPT ![update] = 0]
      /\ UNCHANGED <<ringVars, feederVars, update, messagesProcessed, knownRead,
                     queueVars, process>>
  BY DEF ReleaseClear, ConsumerAt
<1>b. pusher = "idle" /\ update \in Indices /\ update # NoIndex
  BY <1>a DEF IInv, PhaseInv, TypeOK
<1>k. \A s \in Nat : FreeAt(s)' = FreeAt(s)
  BY <1>a, RingKept
<1>1. TypeOK'
  <2>1. objects' \in [Indices -> 0..MessageCount]
    BY <1>a, <1>b, Constants DEF IInv, TypeOK
  <2> QED
    BY <2>1, <1>a DEF IInv, TypeOK, Ring!TypeOK
<1>2. PhaseInv'
  BY <1>a, <1>b, <1>k, <1>n DEF IInv, PhaseInv
<1>3. AccountInv' /\ DistinctInv' /\ CoveredInv'
  <2>1. \A s \in readCursor..(writeCursor - 1) : FreeAt(s)' = FreeAt(s)
    BY <1>k, <1>n
  <2> QED
    BY <2>1, <1>a, NothingMoves DEF IInv
<1>4. MutexInv'
  BY <1>a DEF IInv, MutexInv, InHand
<1>5. ContentInv'
  <2>1. \A k \in 1..Len(queue) : objects'[queue[k]] = objects[queue[k]]
    BY <1>a DEF IInv, TypeOK, DistinctInv
  <2>2. lease # update
    BY <1>b DEF IInv, DistinctInv
  <2>3. feeder = "push" => objects'[lease] = objects[lease]
    BY <1>a, <2>2 DEF IInv, TypeOK
  <2> QED
    BY <2>1, <2>3, <1>a DEF IInv, ContentInv, Popped
<1> QED
  BY <1>1, <1>2, <1>3, <1>4, <1>5 DEF IInv

\* The main thread inside the ring's emplace, which never refuses: whatever
\* read cursor it loads is at least the one it knows.
LEMMA ReleasePreserves == IInv /\ Release => IInv'
<1> SUFFICES ASSUME IInv, Release PROVE IInv'
  OBVIOUS
<1> USE DEF feederVars, consumerVars, queueVars, Ring!popVars
<1>n. /\ writeCursor \in Nat /\ readCursor \in Nat /\ cachedReadCursor \in Nat
      /\ knownRead \in 0..readCursor /\ Len(queue) \in Nat
  BY Numbers DEF IInv
<1>r. consumer = "release"
  BY DEF Release, ConsumerAt
<1>b. /\ update \in Indices /\ update # NoIndex
      /\ writeCursor - knownRead < Capacity
  BY <1>r DEF IInv, TypeOK, MutexInv
<1>u. UNCHANGED <<feederVars, consumerVars, queueVars, objects, writeCursor,
                  readCursor, cachedWriteCursor, popper, popItem>>
  BY DEF Release, Ring!EmplaceBegin, Ring!EmplaceConstruct, Ring!EmplaceRefresh,
         Ring!EmplaceRefused
<1>c. ContentInv'
  BY <1>u DEF IInv, ContentInv, Popped
<1>1. CASE Ring!EmplaceBegin(update) /\ UNCHANGED process
  <2>a. /\ pusher = "idle" /\ pushItem' = update /\ pusher' \in {"refresh", "construct"}
        /\ UNCHANGED <<buffer, cachedReadCursor, process>>
    BY <1>1 DEF Ring!EmplaceBegin
  <2>k. \A s \in Nat : FreeAt(s)' = FreeAt(s)
    BY <2>a, RingKept
  <2>1. TypeOK'
    BY <2>a, <1>u, <1>b DEF IInv, TypeOK, Ring!TypeOK
  <2>2. PhaseInv'
    BY <2>a, <2>k, <1>u, <1>n, <1>r DEF IInv, PhaseInv
  <2>3. AccountInv' /\ DistinctInv' /\ CoveredInv'
    <3>1. \A s \in readCursor..(writeCursor - 1) : FreeAt(s)' = FreeAt(s)
      BY <2>k, <1>n
    <3> QED
      BY <3>1, <1>u, NothingMoves DEF IInv
  <2>4. MutexInv'
    BY <2>a, <1>u DEF IInv, MutexInv, InHand
  <2> QED
    BY <1>c, <2>1, <2>2, <2>3, <2>4 DEF IInv
<1>2. CASE Ring!EmplaceConstruct /\ UNCHANGED process
  <2>a. /\ pusher = "construct" /\ pusher' = "publish"
        /\ buffer' = [buffer EXCEPT ![writeCursor % Capacity] = pushItem]
        /\ UNCHANGED <<cachedReadCursor, pushItem, process>>
    BY <1>2 DEF Ring!EmplaceConstruct, Ring!Slot
  <2>p. pushItem = update
    BY <2>a DEF IInv, PhaseInv
  <2>s. writeCursor % Capacity \in 0..(Capacity - 1)
    BY <1>n, SlotExists DEF Indices
  <2>f. buffer \in [0..(Capacity - 1) -> Indices \cup {NoIndex}]
    BY DEF IInv, TypeOK, Ring!TypeOK
  <2>h. writeCursor - readCursor < Capacity
    <3>1. InHand(update) = 1 /\ InHand(lease) \in {0, 1}
      BY <1>b, Hands DEF IInv, TypeOK
    <3> QED
      BY <3>1, <1>n, Constants DEF IInv, AccountInv
  <2>k. \A s \in readCursor..(writeCursor - 1) : FreeAt(s)' = FreeAt(s)
    <3> SUFFICES ASSUME NEW s \in readCursor..(writeCursor - 1)
                 PROVE  FreeAt(s)' = FreeAt(s)
      OBVIOUS
    <3>1. s \in Nat /\ s < writeCursor /\ writeCursor - s < Capacity
      BY <2>h, <1>n, Constants
    <3>2. s % Capacity # writeCursor % Capacity
      BY <3>1, <1>n, SlotsDiffer
    <3>3. s % Capacity \in 0..(Capacity - 1)
      BY <3>1, SlotExists DEF Indices
    <3> QED
      BY <3>2, <3>3, <2>a, <2>f DEF FreeAt
  <2>1. TypeOK'
    <3>1. buffer' \in [0..(Capacity - 1) -> Indices \cup {NoIndex}]
      BY <2>a, <2>f, <2>p, <1>b
    <3> QED
      BY <3>1, <2>a, <1>u DEF IInv, TypeOK, Ring!TypeOK
  <2>2. PhaseInv'
    <3>1. FreeAt(writeCursor)' = update
      BY <2>a, <2>f, <2>s, <2>p, <1>u DEF FreeAt
    <3>2. popper = "advance" => FreeAt(readCursor)' = FreeAt(readCursor)
      <4>1. popper = "advance" => readCursor \in readCursor..(writeCursor - 1)
        BY <1>n, Numbers DEF IInv, MutexInv
      <4> QED
        BY <4>1, <2>k, <1>u
    <3> QED
      BY <3>1, <3>2, <2>a, <1>u, <1>r DEF IInv, PhaseInv
  <2>3. AccountInv' /\ DistinctInv' /\ CoveredInv'
    BY <2>k, <1>u, NothingMoves DEF IInv
  <2>4. MutexInv'
    BY <2>a, <1>u DEF IInv, MutexInv, InHand
  <2> QED
    BY <1>c, <2>1, <2>2, <2>3, <2>4 DEF IInv
<1>3. ASSUME NEW read \in Later(cachedReadCursor, knownRead)..readCursor,
             \/ Ring!EmplaceRefresh(read) /\ UNCHANGED process
             \/ Ring!EmplaceRefused(read) /\ process' = "terminated"
      PROVE  IInv'
  <2>0. read \in Nat /\ knownRead <= read /\ read <= readCursor
    BY <1>n DEF Later
  <2>1. ~Ring!LooksFull(read)
    BY <2>0, <1>b, <1>n, Constants DEF Ring!LooksFull
  <2>a. /\ pusher = "refresh" /\ pusher' = "construct"
        /\ cachedReadCursor' = read
        /\ UNCHANGED <<buffer, pushItem, process>>
    BY <1>3, <2>1 DEF Ring!EmplaceRefresh, Ring!EmplaceRefused
  <2>k. \A s \in Nat : FreeAt(s)' = FreeAt(s)
    BY <2>a, RingKept
  <2>2. TypeOK'
    BY <2>a, <2>0, <1>u DEF IInv, TypeOK, Ring!TypeOK
  <2>3. PhaseInv'
    BY <2>a, <2>k, <1>u, <1>n, <1>r DEF IInv, PhaseInv
  <2>4. AccountInv' /\ DistinctInv' /\ CoveredInv'
    <3>1. \A s \in readCursor..(writeCursor - 1) : FreeAt(s)' = FreeAt(s)
      BY <2>k, <1>n
    <3> QED
      BY <3>1, <1>u, NothingMoves DEF IInv
  <2>5. MutexInv'
    BY <2>a, <2>0, <1>u DEF IInv, MutexInv, InHand
  <2> QED
    BY <1>c, <2>2, <2>3, <2>4, <2>5 DEF IInv
<1> QED
  BY <1>1, <1>2, <1>3 DEF Release

\* emplace's store of the write cursor: the index goes from the lease to the
\* ring.
LEMMA ReleasedPreserves == IInv /\ Released => IInv'
<1> SUFFICES ASSUME IInv, Released PROVE IInv'
  OBVIOUS
<1> USE DEF feederVars, queueVars, Ring!popVars
<1>n. /\ writeCursor \in Nat /\ readCursor \in Nat /\ cachedWriteCursor \in Nat
      /\ cachedReadCursor \in Nat
      /\ mutexRead \in 0..readCursor /\ knownRead \in 0..readCursor
      /\ mutexWrite \in 0..writeCursor /\ knownWrite \in 0..writeCursor
      /\ Len(queue) \in Nat
  BY Numbers DEF IInv
<1>a. /\ consumer = "release" /\ consumer' = "pop"
      /\ pusher = "publish" /\ pusher' = "idle" /\ pushItem' = NoIndex
      /\ writeCursor' = writeCursor + 1
      /\ update' = NoIndex
      /\ UNCHANGED <<feederVars, messagesProcessed, knownRead, queueVars, objects,
                     process, buffer, cachedReadCursor, readCursor, cachedWriteCursor,
                     popper, popItem>>
  BY DEF Released, ConsumerAt, Ring!EmplacePublish
<1>b. /\ update \in Indices /\ update # NoIndex
      /\ FreeAt(writeCursor) = update
      /\ lease \in Indices \cup {NoIndex}
      /\ queue \in Seq(Indices)
      /\ readCursor <= writeCursor
  BY <1>a, <1>n DEF IInv, TypeOK, PhaseInv, MutexInv
<1>k. \A s \in Nat : FreeAt(s)' = FreeAt(s)
  BY <1>a, RingKept
<1>i. /\ writeCursor \in readCursor..writeCursor
      /\ \A s \in readCursor..writeCursor :
           s \in Nat /\ (s \in readCursor..(writeCursor - 1) \/ s = writeCursor)
      /\ \A s \in readCursor..(writeCursor - 1) : s \in readCursor..writeCursor
      /\ writeCursor + 1 - 1 = writeCursor
  BY <1>b, <1>n
<1>h. /\ InHand(update) = 1 /\ InHand(update)' = 0 /\ InHand(lease)' = InHand(lease)
      /\ InHand(lease) \in {0, 1}
  BY <1>a, <1>b, Hands DEF InHand
<1>1. TypeOK'
  <2>1. {mutexWrite, knownWrite} \subseteq 0..(writeCursor + 1)
    BY <1>n
  <2>2. Ring!TypeOK'
    BY <1>a, <1>n DEF IInv, TypeOK, Ring!TypeOK
  <2> QED
    BY <2>1, <2>2, <1>a DEF IInv, TypeOK
<1>2. PhaseInv'
  BY <1>a, <1>k, <1>n DEF IInv, PhaseInv
<1>3. AccountInv'
  BY <1>a, <1>h, <1>n, Constants DEF IInv, AccountInv
<1>4. MutexInv'
  <2>1. writeCursor + 1 - mutexWrite <= 1
    BY <1>h, <1>n DEF IInv, MutexInv
  <2> QED
    BY <2>1, <1>a, <1>h, <1>n DEF IInv, MutexInv
<1>5. DistinctInv'
  <2>1. \A s \in readCursor..writeCursor :
           /\ FreeAt(s)' \in Indices
           /\ FreeAt(s)' # lease
           /\ FreeAt(s)' # NoIndex
    BY <1>b, <1>i, <1>k, Constants DEF IInv, DistinctInv
  <2>2. \A s, t \in readCursor..writeCursor : FreeAt(s)' = FreeAt(t)' => s = t
    <3> SUFFICES ASSUME NEW s \in readCursor..writeCursor,
                        NEW t \in readCursor..writeCursor, FreeAt(s)' = FreeAt(t)'
                 PROVE  s = t
      OBVIOUS
    <3>1. FreeAt(s) = FreeAt(t)
      BY <1>i, <1>k
    <3> QED
      BY <3>1, <1>b, <1>i DEF IInv, DistinctInv
  <2>3. \A s \in readCursor..writeCursor, k \in 1..Len(queue) : FreeAt(s)' # queue[k]
    BY <1>b, <1>i, <1>k DEF IInv, DistinctInv
  <2>4. \A k \in 1..Len(queue) : queue[k] # NoIndex
    BY <1>b, Constants
  <2> QED
    BY <2>1, <2>2, <2>3, <2>4, <1>a, <1>i DEF IInv, DistinctInv
<1>6. CoveredInv'
  <2> SUFFICES ASSUME NEW i \in Indices
               PROVE  \/ \E s \in readCursor..writeCursor : FreeAt(s)' = i
                      \/ \E k \in 1..Len(queue) : queue[k] = i
                      \/ i = lease
    BY <1>a, <1>i DEF CoveredInv
  <2>1. CASE \E s \in readCursor..(writeCursor - 1) : FreeAt(s) = i
    BY <2>1, <1>i, <1>k
  <2>2. CASE i = update
    BY <2>2, <1>b, <1>i, <1>k
  <2> QED
    BY <2>1, <2>2 DEF IInv, CoveredInv
<1>7. ContentInv'
  BY <1>a DEF IInv, ContentInv, Popped
<1> QED
  BY <1>1, <1>2, <1>3, <1>4, <1>5, <1>6, <1>7 DEF IInv

-----------------------------------------------------------------------------
\* Every step of either thread keeps the invariant.
LEMMA NextIInv == IInv /\ [Next]_vars => IInv'
<1>1. IInv /\ UNCHANGED vars => IInv'
  <2> SUFFICES ASSUME IInv, UNCHANGED vars PROVE IInv'
    OBVIOUS
  <2> USE DEF vars, ringVars, feederVars, consumerVars, queueVars
  <2>k. \A s \in Nat : FreeAt(s)' = FreeAt(s)
    BY RingKept
  <2>n. readCursor \in Nat /\ writeCursor \in Nat
    BY Numbers DEF IInv
  <2>1. TypeOK'
    BY DEF IInv, TypeOK, Ring!TypeOK
  <2>2. PhaseInv'
    BY <2>k, <2>n DEF IInv, PhaseInv
  <2>3. AccountInv' /\ DistinctInv' /\ CoveredInv'
    <3>1. \A s \in readCursor..(writeCursor - 1) : FreeAt(s)' = FreeAt(s)
      BY <2>k, <2>n
    <3> QED
      BY <3>1, NothingMoves DEF IInv
  <2>4. MutexInv'
    BY DEF IInv, MutexInv, InHand
  <2>5. ContentInv'
    BY DEF IInv, ContentInv, Popped
  <2> QED
    BY <2>1, <2>2, <2>3, <2>4, <2>5 DEF IInv
<1> QED
  BY <1>1, AcquirePreserves, AcquiredPreserves, AcquireFailedPreserves,
     ProducePreserves, PushLeasePreserves, ClosePreserves, IdlePreserves,
     PopLeasePreserves, ConsumePreserves, ReleaseClearPreserves, ReleasePreserves,
     ReleasedPreserves
  DEF Next, Feed, Drain, Ended

\* The inductive invariant holds of every run.
THEOREM InductiveInvariant == Spec => []IInv
<1> QED
  BY InitIInv, NextIInv, PTL DEF Spec

-----------------------------------------------------------------------------
\* Distinct and covered, an index has exactly one place.
LEMMA OnePlace ==
  ASSUME IInv, NEW i \in Indices
  PROVE  \E p : Places(i) = {p}
<1> DEFINE free  == {s \in readCursor..(writeCursor - 1) : buffer[Ring!Slot(s)] = i}
           onQueue == {k \in DOMAIN queue : queue[k] = i}
<1>s. \A s : buffer[Ring!Slot(s)] = FreeAt(s)
  BY DEF Ring!Slot, FreeAt
<1>q. DOMAIN queue = 1..Len(queue) /\ i # NoIndex
  BY Constants DEF IInv, TypeOK
<1>f. free = {s \in readCursor..(writeCursor - 1) : FreeAt(s) = i}
  BY <1>s
<1>d. Places(i) = {<<"free", s>> : s \in free} \cup {<<"queue", k>> : k \in onQueue}
                  \cup {<<"feeder", 0>> : t \in {lease} \cap {i}}
                  \cup {<<"consumer", 0>> : t \in {update} \cap {i}}
  BY DEF Places
<1>1. CASE \E s \in readCursor..(writeCursor - 1) : FreeAt(s) = i
  <2>1. PICK s \in readCursor..(writeCursor - 1) : FreeAt(s) = i
    BY <1>1
  <2>2. free = {s} /\ onQueue = {} /\ {lease} \cap {i} = {} /\ {update} \cap {i} = {}
    BY <2>1, <1>f, <1>q DEF IInv, DistinctInv
  <2>3. Places(i) = {<<"free", s>>}
    BY <2>2, <1>d
  <2> QED
    BY <2>3
<1>2. CASE \E k \in 1..Len(queue) : queue[k] = i
  <2>1. PICK k \in 1..Len(queue) : queue[k] = i
    BY <1>2
  <2>2. free = {} /\ onQueue = {k} /\ {lease} \cap {i} = {} /\ {update} \cap {i} = {}
    BY <2>1, <1>f, <1>q DEF IInv, DistinctInv
  <2>3. Places(i) = {<<"queue", k>>}
    BY <2>2, <1>d
  <2> QED
    BY <2>3
<1>3. CASE i = lease
  <2>1. free = {} /\ onQueue = {} /\ {lease} \cap {i} = {i} /\ {update} \cap {i} = {}
    BY <1>3, <1>f, <1>q DEF IInv, DistinctInv
  <2>2. Places(i) = {<<"feeder", 0>>}
    BY <2>1, <1>d
  <2> QED
    BY <2>2
<1>4. CASE i = update
  <2>1. free = {} /\ onQueue = {} /\ {lease} \cap {i} = {} /\ {update} \cap {i} = {i}
    BY <1>4, <1>f, <1>q DEF IInv, DistinctInv
  <2>2. Places(i) = {<<"consumer", 0>>}
    BY <2>1, <1>d
  <2> QED
    BY <2>2
<1> QED
  BY <1>1, <1>2, <1>3, <1>4 DEF IInv, CoveredInv

\* An object is always in exactly one place, free, queued or in one thread's
\* hand, although no lock covers the ring or the objects.
THEOREM EveryObjectHasOneOwner == Spec => []OneOwner
<1>1. IInv => OneOwner
  <2> SUFFICES ASSUME IInv, NEW i \in Indices PROVE Cardinality(Places(i)) = 1
    BY DEF OneOwner, IInv
  <2>1. PICK p : Places(i) = {p}
    BY OnePlace
  <2> QED
    BY <2>1, FS_Singleton
<1> QED
  BY <1>1, InductiveInvariant, PTL

\* Giving an object back never reaches std::terminate, however old the read
\* cursor the load returns.
THEOREM ReleaseNeverTerminates == Spec => []NeverTerminates
<1>1. IInv => NeverTerminates
  BY DEF IInv, PhaseInv, NeverTerminates
<1> QED
  BY <1>1, InductiveInvariant, PTL

\* The unchecked dereference goes wrong only after a push that left at least
\* Capacity - 1 leases on the queue.
THEOREM ExhaustionIsBacklog == Spec => []ExhaustedOnlyByBacklog
<1>1. IInv => ExhaustedOnlyByBacklog
  BY DEF IInv, PhaseInv, ExhaustedOnlyByBacklog
<1> QED
  BY <1>1, InductiveInvariant, PTL

-----------------------------------------------------------------------------
\* Seen through its objects, the queue is a run of consecutive messages, and a
\* step of the pool a step of runBaseline or none at all.

\* The n messages that follow the first p.
Messages(p, n) == [k \in 1..n |-> p + k]

\* What the leases of a queue stand for.
LEMMA Seen ==
  ASSUME NEW q, NEW o, NEW p, DOMAIN q = 1..Len(q),
         \A k \in 1..Len(q) : o[q[k]] = p + k
  PROVE  [k \in DOMAIN q |-> o[q[k]]] = Messages(p, Len(q))
BY DEF Messages

\* Such a queue is empty when it has no messages, grows by the next message
\* and loses its first.
LEMMA MessagesGrow ==
  ASSUME NEW p \in Nat, NEW n \in Nat
  PROVE  /\ Messages(p, 0) = <<>>
         /\ Messages(p, n + 1) = Append(Messages(p, n), p + n + 1)
         /\ n # 0 => /\ Messages(p, n) # <<>>
                     /\ Head(Messages(p, n)) = p + 1
                     /\ Tail(Messages(p, n)) = Messages(p + 1, n - 1)
<1>1. \A m, a \in Nat : Messages(a, m) \in Seq(Nat) /\ Len(Messages(a, m)) = m
  <2> SUFFICES ASSUME NEW m \in Nat, NEW a \in Nat
               PROVE  Messages(a, m) \in Seq(Nat) /\ Len(Messages(a, m)) = m
    OBVIOUS
  <2>1. Len(Messages(a, m)) = m
    BY DEF Messages
  <2>2. Messages(a, m) \in Seq(Nat)
    BY DEF Messages
  <2> QED
    BY <2>1, <2>2
<1>2. Messages(p, 0) = <<>>
  BY <1>1, EmptySeq
<1>3. Messages(p, n + 1) = Append(Messages(p, n), p + n + 1)
  <2>1. /\ Append(Messages(p, n), p + n + 1) \in Seq(Nat)
        /\ Len(Append(Messages(p, n), p + n + 1)) = n + 1
        /\ \A k \in 1..n : Append(Messages(p, n), p + n + 1)[k] = Messages(p, n)[k]
        /\ Append(Messages(p, n), p + n + 1)[n + 1] = p + n + 1
    BY <1>1, AppendProperties
  <2>2. \A k \in 1..(n + 1) : Append(Messages(p, n), p + n + 1)[k] = Messages(p, n + 1)[k]
    <3> SUFFICES ASSUME NEW k \in 1..(n + 1)
                 PROVE  Append(Messages(p, n), p + n + 1)[k] = p + k
      BY DEF Messages
    <3>1. CASE k \in 1..n
      BY <3>1, <2>1 DEF Messages
    <3>2. CASE k = n + 1
      BY <3>2, <2>1
    <3>3. k \in 1..n \/ k = n + 1
      OBVIOUS
    <3> QED
      BY <3>1, <3>2, <3>3
  <2>3. Messages(p, n + 1) \in Seq(Nat) /\ Len(Messages(p, n + 1)) = n + 1
    BY <1>1
  <2> QED
    BY <2>1, <2>2, <2>3, SeqEqual
<1>4. ASSUME n # 0
      PROVE  /\ Messages(p, n) # <<>>
             /\ Head(Messages(p, n)) = p + 1
             /\ Tail(Messages(p, n)) = Messages(p + 1, n - 1)
  <2>1. Messages(p, n) # <<>>
    BY <1>1, <1>4, EmptySeq
  <2>2. Messages(p, n)[1] = p + 1
    BY <1>4 DEF Messages
  <2>3. /\ Head(Messages(p, n)) = p + 1
        /\ Tail(Messages(p, n)) \in Seq(Nat)
        /\ Len(Tail(Messages(p, n))) = n - 1
        /\ \A k \in 1..(n - 1) : Tail(Messages(p, n))[k] = Messages(p, n)[k + 1]
    BY <1>1, <2>1, <2>2, HeadTailProperties
  <2>4. \A k \in 1..(n - 1) : Tail(Messages(p, n))[k] = Messages(p + 1, n - 1)[k]
    <3> SUFFICES ASSUME NEW k \in 1..(n - 1)
                 PROVE  Messages(p, n)[k + 1] = Messages(p + 1, n - 1)[k]
      BY <2>3
    <3>1. k + 1 \in 1..n
      OBVIOUS
    <3>2. Messages(p, n)[k + 1] = p + (k + 1)
      BY <3>1 DEF Messages
    <3>3. Messages(p + 1, n - 1)[k] = (p + 1) + k
      BY DEF Messages
    <3> QED
      BY <3>2, <3>3
  <2>5. n - 1 \in Nat /\ p + 1 \in Nat
    BY <1>4
  <2>6. Messages(p + 1, n - 1) \in Seq(Nat) /\ Len(Messages(p + 1, n - 1)) = n - 1
    BY <1>1, <2>5
  <2>7. Tail(Messages(p, n)) = Messages(p + 1, n - 1)
    BY <2>3, <2>4, <2>6, SeqEqual
  <2> QED
    BY <2>1, <2>3, <2>7
<1> QED
  BY <1>2, <1>3, <1>4

\* What the refinement mapping gives, before and after a step.
LEMMA BaselineSeen ==
  ASSUME IInv
  PROVE  /\ [k \in DOMAIN queue |-> objects[queue[k]]] = Messages(Popped, Len(queue))
         /\ (IF consumer = "consume" THEN objects[update] ELSE 0)
              = IF consumer = "consume" THEN Popped ELSE 0
         /\ Popped \in Nat /\ Len(queue) \in Nat /\ messagesProcessed \in Nat
         /\ sequence = Popped + Len(queue) + 1
<1>1. Popped \in Nat /\ Len(queue) \in Nat /\ messagesProcessed \in Nat
  BY Numbers DEF IInv, Popped
<1>2. [k \in DOMAIN queue |-> objects[queue[k]]] = Messages(Popped, Len(queue))
  <2>1. DOMAIN queue = 1..Len(queue)
    BY DEF IInv, TypeOK
  <2>2. \A k \in 1..Len(queue) : objects[queue[k]] = Popped + k
    BY DEF IInv, ContentInv
  <2> HIDE DEF Popped
  <2> QED
    BY <2>1, <2>2, Seen
<1> QED
  BY <1>1, <1>2 DEF IInv, ContentInv

\* The same of the next state.
LEMMA BaselineSeenNext ==
  ASSUME IInv'
  PROVE  /\ [k \in DOMAIN queue' |-> objects'[queue'[k]]] = Messages(Popped', Len(queue'))
         /\ (IF consumer' = "consume" THEN objects'[update'] ELSE 0)
              = IF consumer' = "consume" THEN Popped' ELSE 0
<1>1. DOMAIN queue' = 1..Len(queue')
  BY DEF IInv, TypeOK
<1>2. \A k \in 1..Len(queue') : objects'[queue'[k]] = Popped' + k
  BY DEF IInv, ContentInv
<1>3. [k \in DOMAIN queue' |-> objects'[queue'[k]]] = Messages(Popped', Len(queue'))
  BY <1>1, <1>2, Seen
<1>4. consumer' = "consume" => objects'[update'] = Popped'
  BY DEF IInv, ContentInv
<1> QED
  BY <1>3, <1>4

\* A step that takes no message, gives none and ends nothing is none of the
\* baseline's.
LEMMA BaselineStutters ==
  ASSUME IInv, IInv', UNCHANGED <<sequence, closed, messagesProcessed>>,
         Len(queue') = Len(queue), Popped' = Popped,
         consumer' = "consume" <=> consumer = "consume",
         consumer' \in {"join", "done"} <=> consumer \in {"join", "done"}
  PROVE  UNCHANGED BaselineRun!vars
BY BaselineSeen, BaselineSeenNext DEF BaselineRun!vars

\* Each step of the pool is a step of the baseline or a stutter.
LEMMA NextBaseline ==
  ASSUME IInv, IInv', [Next]_vars
  PROVE  [BaselineRun!Next]_(BaselineRun!vars)
<1> DEFINE seen == [k \in DOMAIN queue |-> objects[queue[k]]]
           read == IF consumer = "consume" THEN objects[update] ELSE 0
<1>s. /\ seen = Messages(Popped, Len(queue))
      /\ read = IF consumer = "consume" THEN Popped ELSE 0
      /\ Popped \in Nat /\ Len(queue) \in Nat /\ messagesProcessed \in Nat
      /\ sequence = Popped + Len(queue) + 1
  BY BaselineSeen
<1>t. /\ seen' = Messages(Popped', Len(queue'))
      /\ read' = IF consumer' = "consume" THEN Popped' ELSE 0
  BY BaselineSeenNext
<1> USE DEF ringVars, feederVars, consumerVars, queueVars
<1>1. CASE PushLease
  <2>1. /\ sequence <= MessageCount /\ sequence' = sequence + 1
        /\ UNCHANGED <<closed, messagesProcessed, consumer, update>>
        /\ Popped' = Popped
    BY <1>1 DEF PushLease, FeederAt, IInv, PhaseInv, Popped
  <2>2. Len(queue') = Len(queue) + 1
    <3>1. sequence' = Popped' + Len(queue') + 1 /\ Len(queue') \in Nat
      BY Numbers DEF IInv, ContentInv, TypeOK
    <3> QED
      BY <3>1, <2>1, <1>s
  <2> DEFINE first == Popped
             length == Len(queue)
  <2>f. first \in Nat /\ length \in Nat
    BY <1>s
  <2> HIDE DEF first, length
  <2>m. Messages(first, length + 1) = Append(Messages(first, length), first + length + 1)
    BY <2>f, MessagesGrow
  <2>3. seen' = Append(seen, sequence)
    BY <2>1, <2>2, <2>m, <1>s, <1>t DEF first, length
  <2>4. read' = read
    BY <2>1, <1>s, <1>t
  <2> HIDE DEF seen, read
  <2>5. BaselineRun!Push
    BY <2>1, <2>3, <2>4 DEF BaselineRun!Push, seen, read
  <2> QED
    BY <2>5 DEF BaselineRun!Next
<1>2. CASE Close
  <2>1. /\ sequence > MessageCount /\ closed' = TRUE
        /\ UNCHANGED <<sequence, messagesProcessed, consumer, update, queue, objects>>
    BY <1>2 DEF Close
  <2>2. BaselineRun!Close
    BY <2>1 DEF BaselineRun!Close
  <2> QED
    BY <2>2 DEF BaselineRun!Next
<1>3. CASE PopLease
  <2>1. /\ consumer \in {"pop", "waiting"} /\ consumer' = "consume" /\ Len(queue) # 0
        /\ UNCHANGED <<sequence, closed, messagesProcessed>>
        /\ Popped' = Popped + 1
    <3>1. queue \in Seq(Indices) /\ queue # <<>>
      BY <1>3 DEF PopLease, IInv, TypeOK
    <3> QED
      BY <1>3, <3>1, EmptySeq DEF PopLease, ConsumerAt, Popped
  <2>2. Len(queue') = Len(queue) - 1
    <3>1. sequence' = Popped' + Len(queue') + 1 /\ Len(queue') \in Nat
      BY DEF IInv, ContentInv, TypeOK
    <3> QED
      BY <3>1, <2>1, <1>s
  <2> DEFINE first == Popped
             length == Len(queue)
  <2>f. first \in Nat /\ length \in Nat /\ length # 0
    BY <2>1, <1>s
  <2> HIDE DEF first, length
  <2>m. /\ Messages(first, length) # <<>>
        /\ Head(Messages(first, length)) = first + 1
        /\ Tail(Messages(first, length)) = Messages(first + 1, length - 1)
    BY <2>f, MessagesGrow
  <2>3. seen # <<>> /\ read' = Head(seen) /\ seen' = Tail(seen)
    BY <2>1, <2>2, <2>m, <1>s, <1>t DEF first, length
  <2>4. read = 0
    BY <2>1
  <2> HIDE DEF seen, read
  <2>e. ~(consumer \in {"join", "done"})
        /\ UNCHANGED <<sequence, closed, messagesProcessed, consumer \in {"join", "done"}>>
    BY <2>1
  <2>5. BaselineRun!Pop
    BY <2>1, <2>3, <2>4, <2>e, Zenon DEF BaselineRun!Pop, seen, read
  <2> QED
    BY <2>5 DEF BaselineRun!Next
<1>4. CASE Consume
  <2>1. /\ consumer = "consume" /\ consumer' = "clear"
        /\ messagesProcessed' = messagesProcessed + 1
        /\ UNCHANGED <<sequence, queue, objects, closed>>
    BY <1>4 DEF Consume, ConsumerAt
  <2>2. objects[update] # 0
    BY <2>1, <1>s DEF Popped
  <2>3. BaselineRun!Consume
    BY <2>1, <2>2 DEF BaselineRun!Consume
  <2> QED
    BY <2>3 DEF BaselineRun!Next
<1>5. CASE PopEnds
  <2>1. /\ consumer \in {"pop", "waiting"} /\ consumer' = "join" /\ queue = <<>> /\ closed
        /\ UNCHANGED <<sequence, queue, objects, closed, messagesProcessed>>
    BY <1>5 DEF PopEnds, ConsumerAt
  <2>2. seen = <<>>
    BY <2>1, <1>s, MessagesGrow
  <2>3. BaselineRun!PopEnds
    BY <2>1, <2>2 DEF BaselineRun!PopEnds
  <2> QED
    BY <2>3 DEF BaselineRun!Next
<1>6. CASE Acquire \/ Acquired \/ AcquireFailed \/ Produce
  <2>1. UNCHANGED <<sequence, closed, messagesProcessed, queue, consumer>>
    BY <1>6 DEF Acquire, Acquired, AcquireFailed, Produce
  <2> QED
    BY <2>1, BaselineStutters DEF Popped
<1>7. CASE PopWaits \/ ReleaseClear \/ Release \/ Released \/ Join
  <2>1. /\ UNCHANGED <<sequence, closed, messagesProcessed, queue>>
        /\ consumer # "consume" /\ consumer' # "consume"
        /\ consumer' \in {"join", "done"} <=> consumer \in {"join", "done"}
    BY <1>7 DEF PopWaits, ReleaseClear, Release, Released, Join, ConsumerAt
  <2> QED
    BY <2>1, BaselineStutters DEF Popped
<1>8. CASE UNCHANGED vars
  BY <1>8, BaselineStutters DEF vars, Popped
<1> QED
  BY <1>1, <1>2, <1>3, <1>4, <1>5, <1>6, <1>7, <1>8 DEF Next, Feed, Drain, Ended

\* The pool's run is a run of runBaseline seen through the objects its leases
\* stand for: the feed thread's writes are neither lost nor reordered nor
\* overwritten, so the benchmark's checksums agree.
THEOREM BaselineImplemented == Spec => ImplementsBaseline
<1>1. Init => BaselineRun!Init
  BY DEF Init, BaselineRun!Init
<1>2. IInv /\ IInv' /\ [Next]_vars => [BaselineRun!Next]_(BaselineRun!vars)
  BY NextBaseline
<1> QED
  BY <1>1, <1>2, InductiveInvariant, PTL DEF Spec, ImplementsBaseline, BaselineRun!Spec
=============================================================================
