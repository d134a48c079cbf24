-------------------------- MODULE MutexPoolProofs --------------------------
(***************************************************************************)
(* Proofs about the growing pool and its two threads for every initial     *)
(* capacity and any number of messages.                                    *)
(*                                                                         *)
(* The partition is the fixed pool's: every object is on the free list, on *)
(* the queue or in one thread's hand, and their numbers add up to size     *)
(* (AccountInv, DistinctInv, CoveredInv); only the last of them grows.     *)
(***************************************************************************)
EXTENDS MutexPool, FiniteSetTheorems, SequenceTheorems, TLAPS

InHand(index) == IF index = NoIndex THEN 0 ELSE 1

\* The vector is never empty, and its indices are 0..size - 1.
SizeInv ==
  /\ size \in Nat /\ size >= 1
  /\ vectorCapacity \in Nat

\* The feed thread has a message to send wherever it sends one.
PhaseInv ==
  feeder \in {"produce", "push", "notifyOne"} => sequence <= MessageCount

\* The objects add up.
AccountInv ==
  Len(freeIndices) + Len(items) + InHand(lease) + InHand(update) = size

\* No index is in two places...
DistinctInv ==
  /\ \A j, k \in 1..Len(freeIndices) : freeIndices[j] = freeIndices[k] => j = k
  /\ \A j, k \in 1..Len(items) : items[j] = items[k] => j = k
  /\ \A j \in 1..Len(freeIndices), k \in 1..Len(items) : freeIndices[j] # items[k]
  /\ \A j \in 1..Len(freeIndices) : freeIndices[j] # lease /\ freeIndices[j] # update
  /\ \A k \in 1..Len(items) : items[k] # lease /\ items[k] # update
  /\ lease = update => lease = NoIndex

\* ...and every index is somewhere.
CoveredInv ==
  \A i \in 0..(size - 1) :
    \/ \E k \in 1..Len(freeIndices) : freeIndices[k] = i
    \/ \E k \in 1..Len(items) : items[k] = i
    \/ i = lease
    \/ i = update

\* The numbers of the last message taken from the queue and the last put on it.
Popped == IF consumer \in {"popped", "consuming"} THEN messagesProcessed + 1
                                                  ELSE messagesProcessed
Pushed == IF feeder = "notifyOne" THEN sequence ELSE sequence - 1

\* The objects on the queue hold consecutive messages.
ContentInv ==
  /\ Pushed = Popped + Len(items)
  /\ \A k \in 1..Len(items) : objects[items[k]] = Popped + k
  /\ feeder = "push" => objects[lease] = sequence
  /\ consumer \in {"popped", "consuming"} => objects[update] = Popped

IInv == /\ TypeOK /\ SizeInv /\ PhaseInv /\ AccountInv
        /\ DistinctInv /\ CoveredInv /\ ContentInv /\ NoLostWakeup

-----------------------------------------------------------------------------
\* What the invariant says of the shapes of the variables.
LEMMA Shapes ==
  ASSUME IInv
  PROVE  /\ size \in Nat /\ size >= 1 /\ vectorCapacity \in Nat /\ size <= vectorCapacity
         /\ DOMAIN objects = 0..(size - 1)
         /\ objects \in [0..(size - 1) -> 0..MessageCount]
         /\ freeIndices \in Seq(0..(size - 1)) /\ Len(freeIndices) \in Nat
         /\ items \in Seq(0..(size - 1)) /\ Len(items) \in Nat
         /\ lease \in 0..(size - 1) \cup {NoIndex}
         /\ update \in 0..(size - 1) \cup {NoIndex}
         /\ NoIndex \notin 0..size
         /\ sequence \in 1..(MessageCount + 1)
         /\ messagesProcessed \in 0..MessageCount
         /\ MessageCount \in Nat
         /\ waiters \subseteq {Main}
<1> USE DEF IInv, TypeOK, SizeInv, Indices, Queue!QueueTypeOK
<1>1. size \in Nat /\ size >= 1 /\ vectorCapacity \in Nat /\ size <= vectorCapacity
  OBVIOUS
<1>2. objects \in [0..(size - 1) -> 0..MessageCount]
  OBVIOUS
<1>3. DOMAIN objects = 0..(size - 1)
  BY <1>2
<1>4. freeIndices \in Seq(0..(size - 1)) /\ items \in Seq(0..(size - 1))
  BY <1>3
<1>5. Len(freeIndices) \in Nat /\ Len(items) \in Nat
  BY <1>4
<1>6. /\ lease \in 0..(size - 1) \cup {NoIndex}
      /\ update \in 0..(size - 1) \cup {NoIndex}
  BY <1>3
<1>7. NoIndex \notin 0..size /\ MessageCount \in Nat
  BY <1>1, PoolAssumption
<1>8. sequence \in 1..(MessageCount + 1) /\ messagesProcessed \in 0..MessageCount
  OBVIOUS
<1>9. waiters \subseteq {Main}
  OBVIOUS
<1> QED
  BY <1>1, <1>2, <1>3, <1>4, <1>5, <1>6, <1>7, <1>8, <1>9

\* A lease in hand counts for one.
LEMMA Hands ==
  ASSUME NEW n \in Nat
  PROVE  /\ InHand(NoIndex) = 0
         /\ \A index \in 0..n : InHand(index) = 1 /\ index # NoIndex
         /\ \A index \in 0..n \cup {NoIndex} : InHand(index) \in {0, 1}
BY PoolAssumption DEF InHand

\* The number of objects is a matter of the vector's domain.
LEMMA SizeKept ==
  ASSUME DOMAIN objects' = DOMAIN objects
  PROVE  size' = size
BY DEF size

\* An interval from 0 has as many members as its bound says.
LEMMA SizeIs ==
  ASSUME NEW n \in Nat, DOMAIN objects = 0..(n - 1)
  PROVE  size = n
<1>1. Cardinality(0..(n - 1)) = IF 0 > n - 1 THEN 0 ELSE (n - 1) - 0 + 1
  BY FS_Interval
<1> QED
  BY <1>1 DEF size

\* A step that leaves every index where it is keeps the partition.
LEMMA NothingMoves ==
  ASSUME AccountInv, DistinctInv, CoveredInv,
         size' = size, UNCHANGED <<freeIndices, items, lease, update>>
  PROVE  AccountInv' /\ DistinctInv' /\ CoveredInv'
<1>1. AccountInv'
  BY DEF AccountInv, InHand
<1>2. DistinctInv'
  BY DEF DistinctInv
<1>3. CoveredInv'
  BY DEF CoveredInv
<1> QED
  BY <1>1, <1>2, <1>3

\* All objects are free, nobody sleeps.
LEMMA InitIInv == Init => IInv
<1> SUFFICES ASSUME Init PROVE IInv
  OBVIOUS
<1> USE PoolAssumption DEF Init, Queue!QueueInit
<1>n. InitialCapacity \in Nat /\ InitialCapacity >= 1
  OBVIOUS
<1>s. size = InitialCapacity
  BY <1>n, SizeIs
<1>f. /\ freeIndices \in Seq(0..(size - 1)) /\ Len(freeIndices) = InitialCapacity
      /\ \A k \in 1..Len(freeIndices) : freeIndices[k] = k - 1
  BY <1>n, <1>s
<1>q. items = <<>> /\ Len(items) = 0 /\ items \in Seq(0..(size - 1))
  BY EmptySeq
<1>1. TypeOK
  <2>1. objects \in [0..(size - 1) -> 0..MessageCount] /\ DOMAIN objects = 0..(size - 1)
    BY <1>s
  <2>2. freeIndices \in Seq(Indices) /\ items \in Seq(Indices)
    BY <2>1, <1>f, <1>q DEF Indices
  <2>3. size <= vectorCapacity /\ sequence \in 1..(MessageCount + 1)
        /\ messagesProcessed \in 0..MessageCount
    BY <1>s, <1>n
  <2>4. waiters \subseteq {Main}
    OBVIOUS
  <2>5. closed \in BOOLEAN /\ {dangling, intact} \subseteq BOOLEAN
    OBVIOUS
  <2>6. /\ feeder \in {"acquire", "produce", "push", "notifyOne", "notifyAll", "done"}
        /\ lease \in Indices \cup {NoIndex}
        /\ lease # NoIndex <=> feeder \in {"produce", "push"}
        /\ consumer \in {"pop", "popped", "consuming", "return", "clearing", "free", "join"}
        /\ update \in Indices \cup {NoIndex}
        /\ update = NoIndex <=> consumer \in {"pop", "join"}
        /\ process \in {"running", "crashed", "finished"}
    OBVIOUS
  <2> QED
    BY <2>1, <2>2, <2>3, <2>4, <2>5, <2>6 DEF TypeOK, Queue!QueueTypeOK
<1>2. SizeInv
  BY <1>s, <1>n DEF SizeInv
<1>3. PhaseInv
  BY DEF PhaseInv
<1>4. AccountInv
  BY <1>s, <1>f, <1>q, <1>n DEF AccountInv, InHand
<1>5. DistinctInv
  <2>1. \A k \in 1..Len(freeIndices) : freeIndices[k] # NoIndex
    BY <1>f
  <2> QED
    BY <2>1, <1>f, <1>q DEF DistinctInv
<1>6. CoveredInv
  <2> SUFFICES ASSUME NEW i \in 0..(size - 1)
               PROVE  \E k \in 1..Len(freeIndices) : freeIndices[k] = i
    BY DEF CoveredInv
  <2>1. i + 1 \in 1..Len(freeIndices) /\ freeIndices[i + 1] = i
    BY <1>s, <1>f, <1>n
  <2> QED
    BY <2>1
<1>7. ContentInv
  BY <1>q DEF ContentInv, Popped, Pushed
<1>8. NoLostWakeup
  BY DEF NoLostWakeup
<1> QED
  BY <1>1, <1>2, <1>3, <1>4, <1>5, <1>6, <1>7, <1>8 DEF IInv

-----------------------------------------------------------------------------
\* acquire takes the last free index.
LEMMA AcquireFreePreserves == IInv /\ AcquireFree => IInv'
<1> SUFFICES ASSUME IInv, AcquireFree PROVE IInv'
  OBVIOUS
<1> USE DEF queueVars, consumerVars
<1>n. /\ size \in Nat /\ Len(freeIndices) \in Nat /\ Len(items) \in Nat
      /\ freeIndices \in Seq(0..(size - 1))
      /\ items \in Seq(0..(size - 1))
      /\ update \in 0..(size - 1) \cup {NoIndex}
      /\ NoIndex \notin 0..size
      /\ DOMAIN objects = 0..(size - 1)
      /\ sequence \in 1..(MessageCount + 1)
  BY Shapes
<1>a. /\ feeder = "acquire" /\ feeder' = "produce" /\ sequence <= MessageCount
      /\ freeIndices # <<>>
      /\ lease' = freeIndices[Len(freeIndices)]
      /\ freeIndices' = SubSeq(freeIndices, 1, Len(freeIndices) - 1)
      /\ UNCHANGED <<sequence, objects, vectorCapacity, queueVars, consumerVars, process>>
  BY DEF AcquireFree, FeederAt
<1>s. size' = size
  BY <1>a, SizeKept
<1>b. lease = NoIndex
  BY <1>a DEF IInv, TypeOK
<1>l. Len(freeIndices) >= 1
  BY <1>a, <1>n, EmptySeq
<1>q. /\ freeIndices' \in Seq(0..(size - 1))
      /\ Len(freeIndices') = Len(freeIndices) - 1
      /\ \A k \in 1..Len(freeIndices') :
            k \in 1..Len(freeIndices) /\ k # Len(freeIndices) /\ freeIndices'[k] = freeIndices[k]
  <2> DEFINE m == Len(freeIndices) - 1
  <2>1. m \in Nat /\ \A k \in 1..m : freeIndices[k] \in 0..(size - 1)
    BY <1>n, <1>l
  <2>2. /\ SubSeq(freeIndices, 1, m) \in Seq(0..(size - 1))
        /\ Len(SubSeq(freeIndices, 1, m)) = IF 1 <= m THEN m - 1 + 1 ELSE 0
        /\ \A k \in 1..(m - 1 + 1) : SubSeq(freeIndices, 1, m)[k] = freeIndices[1 + k - 1]
    <3> HIDE DEF m
    <3> QED
      BY <2>1, SubSeqProperties
  <2>3. freeIndices' \in Seq(0..(size - 1)) /\ Len(freeIndices') = m
    <3>1. freeIndices' = SubSeq(freeIndices, 1, m)
      BY <1>a
    <3>2. (IF 1 <= m THEN m - 1 + 1 ELSE 0) = m
      <4> HIDE DEF m
      <4> QED
        BY <2>1
    <3> HIDE DEF m
    <3> QED
      BY <3>1, <3>2, <2>2
  <2>4. ASSUME NEW k \in 1..m PROVE freeIndices'[k] = freeIndices[k]
    <3>1. k \in 1..(m - 1 + 1) /\ 1 + k - 1 = k
      BY <2>1
    <3> QED
      BY <3>1, <2>2, <1>a
  <2>5. \A k \in 1..m : k \in 1..Len(freeIndices) /\ k # Len(freeIndices)
    BY <1>n, <1>l
  <2> QED
    BY <2>3, <2>4, <2>5
<1>e. /\ Len(freeIndices) \in 1..Len(freeIndices)
      /\ lease' \in 0..(size - 1) /\ lease' # NoIndex
  BY <1>a, <1>l, <1>n
<1>1. TypeOK'
  <2>1. Indices' = Indices /\ Indices = 0..(size - 1)
    BY <1>a, <1>n DEF Indices
  <2> QED
    BY <2>1, <1>a, <1>s, <1>q, <1>e DEF IInv, TypeOK, Queue!QueueTypeOK
<1>2. SizeInv' /\ PhaseInv'
  BY <1>a, <1>s DEF IInv, SizeInv, PhaseInv
<1>3. AccountInv'
  <2>1. InHand(lease) = 0 /\ InHand(lease)' = 1 /\ InHand(update)' = InHand(update)
        /\ InHand(update) \in {0, 1}
    BY <1>a, <1>b, <1>e, <1>n, Hands DEF InHand
  <2> QED
    BY <2>1, <1>a, <1>s, <1>q, <1>n DEF IInv, AccountInv
<1>4. DistinctInv'
  <2>1. \A j \in 1..Len(freeIndices') :
           /\ freeIndices'[j] # lease' /\ freeIndices'[j] # update
           /\ \A k \in 1..Len(items) : freeIndices'[j] # items[k]
    <3> TAKE j \in 1..Len(freeIndices')
    <3>1. /\ j \in 1..Len(freeIndices) /\ j # Len(freeIndices)
          /\ freeIndices'[j] = freeIndices[j]
      BY <1>q
    <3>2. freeIndices[j] # freeIndices[Len(freeIndices)]
      BY <3>1, <1>e DEF IInv, DistinctInv
    <3>3. freeIndices[j] # update /\ \A k \in 1..Len(items) : freeIndices[j] # items[k]
      BY <3>1 DEF IInv, DistinctInv
    <3> QED
      BY <3>1, <3>2, <3>3, <1>a
  <2>2. \A j, k \in 1..Len(freeIndices') : freeIndices'[j] = freeIndices'[k] => j = k
    BY <1>q DEF IInv, DistinctInv
  <2>3. \A k \in 1..Len(items) : items[k] # lease' /\ items[k] # update
    BY <1>a, <1>e DEF IInv, DistinctInv
  <2>4. lease' # update
    BY <1>a, <1>e DEF IInv, DistinctInv
  <2> QED
    BY <2>1, <2>2, <2>3, <2>4, <1>a DEF IInv, DistinctInv
<1>5. CoveredInv'
  <2> SUFFICES ASSUME NEW i \in 0..(size - 1)
               PROVE  \/ \E k \in 1..Len(freeIndices') : freeIndices'[k] = i
                      \/ \E k \in 1..Len(items) : items[k] = i
                      \/ i = lease'
                      \/ i = update
    BY <1>a, <1>s DEF CoveredInv
  <2>1. CASE \E k \in 1..Len(freeIndices) : freeIndices[k] = i
    <3>1. PICK k \in 1..Len(freeIndices) : freeIndices[k] = i
      BY <2>1
    <3>2. Len(freeIndices') = Len(freeIndices) - 1
      BY <1>q
    <3>3. k = Len(freeIndices) \/ k \in 1..Len(freeIndices')
      BY <3>2, <1>n
    <3> QED
      BY <3>1, <3>3, <1>a, <1>q
  <2>2. i # lease
    BY <1>b, <1>n
  <2> QED
    BY <2>1, <2>2 DEF IInv, CoveredInv
<1>6. ContentInv'
  BY <1>a DEF IInv, ContentInv, Popped, Pushed
<1>7. NoLostWakeup'
  BY <1>a DEF IInv, NoLostWakeup, Queue!MayPop
<1> QED
  BY <1>1, <1>2, <1>3, <1>4, <1>5, <1>6, <1>7 DEF IInv

\* acquire finds no free index: the vector grows by one object, in place or in
\* storage of its own, and nobody's object changes hands or contents.
LEMMA GrowPreserves == IInv /\ (AcquireNew \/ Reallocate) => IInv'
<1> SUFFICES ASSUME IInv, AcquireNew \/ Reallocate PROVE IInv'
  OBVIOUS
<1>n. /\ size \in Nat /\ size >= 1 /\ vectorCapacity \in Nat /\ size <= vectorCapacity
      /\ Len(items) \in Nat /\ items \in Seq(0..(size - 1))
      /\ update \in 0..(size - 1) \cup {NoIndex}
      /\ NoIndex \notin 0..size
      /\ objects \in [0..(size - 1) -> 0..MessageCount]
      /\ sequence \in 1..(MessageCount + 1)
      /\ MessageCount \in Nat
  BY Shapes
<1>a. /\ feeder = "acquire" /\ feeder' = "produce" /\ sequence <= MessageCount
      /\ freeIndices = <<>>
      /\ objects' = [i \in 0..size |-> IF i = size THEN 0 ELSE objects[i]]
      /\ lease' = size
      /\ UNCHANGED <<sequence, freeIndices, items, closed, waiters, consumer, update,
                     messagesProcessed, intact, process>>
  BY DEF AcquireNew, Reallocate, NewObject, FeederAt, queueVars, consumerVars
<1>v. size + 1 <= vectorCapacity' /\ vectorCapacity' \in Nat
  <2>1. CASE AcquireNew
    BY <2>1, <1>n DEF AcquireNew
  <2>2. CASE Reallocate
    BY <2>2, <1>n DEF Reallocate
  <2> QED
    BY <2>1, <2>2
<1>g. dangling' \in BOOLEAN
  <2>1. CASE AcquireNew
    BY <2>1 DEF AcquireNew, consumerVars, IInv, TypeOK
  <2>2. CASE Reallocate
    BY <2>2 DEF Reallocate
  <2> QED
    BY <2>1, <2>2
<1>d. DOMAIN objects' = 0..size /\ size + 1 - 1 = size
  BY <1>a, <1>n
<1>s. size' = size + 1
  <2>1. Cardinality(0..size) = size + 1
    <3>1. Cardinality(0..size) = IF 0 > size THEN 0 ELSE size - 0 + 1
      BY <1>n, FS_Interval
    <3> QED
      BY <3>1, <1>n
  <2> QED
    BY <2>1, <1>d DEF size
<1>b. lease = NoIndex
  BY <1>a DEF IInv, TypeOK
<1>f. Len(freeIndices) = 0 /\ freeIndices \in Seq(0..size)
  BY <1>a, EmptySeq
<1>q. /\ items \in Seq(0..size)
      /\ \A k \in 1..Len(items) : items[k] \in 0..(size - 1) /\ items[k] # size
  <2>1. \A k \in 1..Len(items) : items[k] \in 0..(size - 1) /\ items[k] # size
    BY <1>n
  <2>2. 0..(size - 1) \subseteq 0..size
    BY <1>n
  <2> QED
    BY <2>1, <2>2, <1>n
<1>u. update \in 0..size \cup {NoIndex} /\ update # size
  BY <1>n
<1>o. \A i \in 0..(size - 1) : objects'[i] = objects[i]
  BY <1>a, <1>n
<1>1. TypeOK'
  <2>1. Indices' = 0..size
    BY <1>d DEF Indices
  <2>2. objects' \in [0..size -> 0..MessageCount]
    <3>1. \A i \in 0..size : i = size \/ i \in 0..(size - 1)
      BY <1>n
    <3>2. \A i \in 0..size : (IF i = size THEN 0 ELSE objects[i]) \in 0..MessageCount
      BY <3>1, <1>n
    <3> QED
      BY <3>2, <1>a
  <2>3. size' - 1 = size /\ size' <= vectorCapacity'
    BY <1>s, <1>v, <1>n
  <2>4. Queue!QueueTypeOK(Indices, {Main})'
    BY <2>1, <1>a, <1>q DEF IInv, TypeOK, Queue!QueueTypeOK
  <2>5. lease' \in 0..size /\ lease' # NoIndex
    BY <1>a, <1>n
  <2>6. {dangling, intact}' \subseteq BOOLEAN
    BY <1>a, <1>g DEF IInv, TypeOK
  <2>7. freeIndices' \in Seq(Indices')
    BY <2>1, <1>a, <1>f
  <2>8. objects' \in [0..(size' - 1) -> 0..MessageCount]
    BY <2>2, <2>3
  <2> QED
    BY <2>1, <2>3, <2>4, <2>5, <2>6, <2>7, <2>8, <1>a, <1>u DEF IInv, TypeOK
<1>2. SizeInv' /\ PhaseInv'
  BY <1>a, <1>s, <1>v, <1>n DEF IInv, SizeInv, PhaseInv
<1>3. AccountInv'
  <2>1. InHand(lease) = 0 /\ InHand(lease)' = 1 /\ InHand(update)' = InHand(update)
        /\ InHand(update) \in {0, 1}
    BY <1>a, <1>b, <1>n, Hands DEF InHand
  <2> QED
    BY <2>1, <1>a, <1>s, <1>f, <1>n DEF IInv, AccountInv
<1>4. DistinctInv'
  BY <1>a, <1>f, <1>q, <1>u DEF IInv, DistinctInv
<1>5. CoveredInv'
  <2> SUFFICES ASSUME NEW i \in 0..size
               PROVE  (\E k \in 1..Len(items) : items[k] = i) \/ i = lease' \/ i = update
    <3>1. size' - 1 = size
      BY <1>s, <1>n
    <3> QED
      BY <3>1, <1>a DEF CoveredInv
  <2>1. i = size \/ i \in 0..(size - 1)
    BY <1>n
  <2>2. i # lease
    BY <1>b, <1>n
  <2>3. 1..Len(freeIndices) = {}
    BY <1>f
  <2> QED
    BY <2>1, <2>2, <2>3, <1>a DEF IInv, CoveredInv
<1>6. ContentInv'
  <2>1. \A k \in 1..Len(items) : objects'[items[k]] = objects[items[k]]
    BY <1>o, <1>q
  <2>2. consumer \in {"popped", "consuming"} => objects'[update] = objects[update]
    <3>1. consumer \in {"popped", "consuming"} => update \in 0..(size - 1)
      BY <1>n DEF IInv, TypeOK
    <3> QED
      BY <3>1, <1>o
  <2> QED
    BY <2>1, <2>2, <1>a DEF IInv, ContentInv, Popped, Pushed
<1>7. NoLostWakeup'
  BY <1>a DEF IInv, NoLostWakeup, Queue!MayPop
<1> QED
  BY <1>1, <1>2, <1>3, <1>4, <1>5, <1>6, <1>7 DEF IInv

\* The feed thread fills an object nobody else has.
LEMMA ProducePreserves == IInv /\ Produce => IInv'
<1> SUFFICES ASSUME IInv, Produce PROVE IInv'
  OBVIOUS
<1> USE DEF queueVars, consumerVars
<1>n. /\ size \in Nat /\ DOMAIN objects = 0..(size - 1)
      /\ objects \in [0..(size - 1) -> 0..MessageCount]
      /\ items \in Seq(0..(size - 1))
      /\ lease \in 0..(size - 1) \cup {NoIndex}
      /\ update \in 0..(size - 1) \cup {NoIndex}
      /\ sequence \in 1..(MessageCount + 1) /\ MessageCount \in Nat
  BY Shapes
<1>a. /\ feeder = "produce" /\ feeder' = "push"
      /\ objects' = [objects EXCEPT ![lease] = sequence]
      /\ UNCHANGED <<sequence, lease, vectorCapacity, freeIndices, queueVars,
                     consumerVars, process>>
  BY DEF Produce, FeederAt
<1>b. lease \in 0..(size - 1) /\ lease # NoIndex /\ sequence <= MessageCount
  BY <1>a, <1>n DEF IInv, TypeOK, PhaseInv
<1>s. DOMAIN objects' = DOMAIN objects /\ size' = size
  BY <1>a, SizeKept
<1>1. TypeOK'
  <2>1. objects' \in [0..(size - 1) -> 0..MessageCount]
    BY <1>a, <1>b, <1>n
  <2>2. Indices' = Indices
    BY <1>s DEF Indices
  <2> QED
    BY <2>1, <2>2, <1>a, <1>s DEF IInv, TypeOK, Queue!QueueTypeOK
<1>2. SizeInv' /\ PhaseInv'
  BY <1>a, <1>b, <1>s DEF IInv, SizeInv, PhaseInv
<1>3. AccountInv' /\ DistinctInv' /\ CoveredInv'
  BY <1>a, <1>s, NothingMoves DEF IInv
<1>4. ContentInv'
  <2>1. \A k \in 1..Len(items) : objects'[items[k]] = objects[items[k]]
    BY <1>a, <1>n DEF IInv, DistinctInv
  <2>2. consumer \in {"popped", "consuming"} => objects'[update] = objects[update]
    <3>1. lease # update
      BY <1>b DEF IInv, DistinctInv
    <3> QED
      BY <3>1, <1>a, <1>n DEF IInv, TypeOK
  <2>3. objects'[lease] = sequence
    BY <1>a, <1>b, <1>n
  <2> QED
    BY <2>1, <2>2, <2>3, <1>a DEF IInv, ContentInv, Popped, Pushed
<1>5. NoLostWakeup'
  BY <1>a DEF IInv, NoLostWakeup, Queue!MayPop
<1> QED
  BY <1>1, <1>2, <1>3, <1>4, <1>5 DEF IInv

\* The lease moves to the back of the queue; whoever sleeps will be notified.
LEMMA PushLeasePreserves == IInv /\ PushLease => IInv'
<1> SUFFICES ASSUME IInv, PushLease PROVE IInv'
  OBVIOUS
<1> USE DEF poolVars, consumerVars
<1>n. /\ size \in Nat /\ Len(items) \in Nat /\ Len(freeIndices) \in Nat
      /\ freeIndices \in Seq(0..(size - 1))
      /\ items \in Seq(0..(size - 1))
      /\ lease \in 0..(size - 1) \cup {NoIndex}
      /\ update \in 0..(size - 1) \cup {NoIndex}
      /\ NoIndex \notin 0..size
      /\ DOMAIN objects = 0..(size - 1)
      /\ sequence \in 1..(MessageCount + 1)
      /\ messagesProcessed \in 0..MessageCount /\ MessageCount \in Nat
  BY Shapes
<1>a. /\ feeder = "push" /\ feeder' = "notifyOne"
      /\ items' = Append(items, lease)
      /\ lease' = NoIndex
      /\ UNCHANGED <<closed, waiters, sequence, poolVars, consumerVars, process>>
  BY DEF PushLease, FeederAt, Queue!Push
<1>b. lease \in 0..(size - 1) /\ lease # NoIndex /\ sequence <= MessageCount
  BY <1>a, <1>n DEF IInv, TypeOK, PhaseInv
<1>s. size' = size
  BY <1>a, SizeKept
<1>q. /\ items' \in Seq(0..(size - 1))
      /\ Len(items') = Len(items) + 1
      /\ \A k \in 1..Len(items) : items'[k] = items[k]
      /\ items'[Len(items) + 1] = lease
  BY <1>a, <1>b, <1>n, AppendProperties
<1>i. \A k \in 1..Len(items') : k \in 1..Len(items) \/ k = Len(items) + 1
  BY <1>q, <1>n
<1>h. InHand(lease) = 1 /\ InHand(lease)' = 0 /\ InHand(update)' = InHand(update)
      /\ InHand(update) \in {0, 1}
  BY <1>a, <1>b, <1>n, Hands DEF InHand
<1>1. TypeOK'
  <2>1. Indices' = Indices /\ Indices = 0..(size - 1)
    BY <1>a, <1>n DEF Indices
  <2> QED
    BY <2>1, <1>a, <1>s, <1>q DEF IInv, TypeOK, Queue!QueueTypeOK
<1>2. SizeInv' /\ PhaseInv'
  BY <1>a, <1>b, <1>s DEF IInv, SizeInv, PhaseInv
<1>3. AccountInv'
  BY <1>a, <1>s, <1>h, <1>q, <1>n DEF IInv, AccountInv
<1>4. DistinctInv'
  <2>1. \A j, k \in 1..Len(items') : items'[j] = items'[k] => j = k
    <3> SUFFICES ASSUME NEW j \in 1..Len(items'), NEW k \in 1..Len(items'),
                        items'[j] = items'[k]
                 PROVE  j = k
      OBVIOUS
    <3> QED
      BY <1>i, <1>q DEF IInv, DistinctInv
  <2>2. \A j \in 1..Len(freeIndices) :
           /\ freeIndices[j] \in 0..(size - 1) /\ freeIndices[j] # NoIndex
           /\ freeIndices[j] # lease
    BY <1>n DEF IInv, DistinctInv
  <2>3. \A j \in 1..Len(freeIndices), k \in 1..Len(items') : freeIndices[j] # items'[k]
    BY <2>2, <1>i, <1>q DEF IInv, DistinctInv
  <2>4. \A k \in 1..Len(items') : items'[k] # NoIndex /\ items'[k] # update
    <3>1. lease # update
      BY <1>b DEF IInv, DistinctInv
    <3>2. \A k \in 1..Len(items) : items[k] # NoIndex
      BY <1>n
    <3> QED
      BY <3>1, <3>2, <1>i, <1>q, <1>b DEF IInv, DistinctInv
  <2> QED
    BY <2>1, <2>2, <2>3, <2>4, <1>a DEF IInv, DistinctInv
<1>5. CoveredInv'
  <2> SUFFICES ASSUME NEW i \in 0..(size - 1)
               PROVE  \/ \E k \in 1..Len(freeIndices) : freeIndices[k] = i
                      \/ \E k \in 1..Len(items') : items'[k] = i
                      \/ i = update
    BY <1>a, <1>s DEF CoveredInv
  <2>1. CASE \E k \in 1..Len(items) : items[k] = i
    <3>1. \A k \in 1..Len(items) : k \in 1..Len(items')
      BY <1>q, <1>n
    <3> QED
      BY <2>1, <3>1, <1>q
  <2>2. CASE i = lease
    <3>1. Len(items) + 1 \in 1..Len(items')
      BY <1>q, <1>n
    <3> QED
      BY <2>2, <3>1, <1>q
  <2> QED
    BY <2>1, <2>2 DEF IInv, CoveredInv
<1>6. ContentInv'
  <2>1. /\ Popped' = Popped /\ Popped \in Int
        /\ Pushed = sequence - 1 /\ Pushed' = sequence
    BY <1>a, <1>n DEF Popped, Pushed
  <2>2. /\ Pushed = Popped + Len(items)
        /\ objects[lease] = sequence
        /\ \A k \in 1..Len(items) : objects[items[k]] = Popped + k
    BY <1>a DEF IInv, ContentInv
  <2>3. Pushed' = Popped + Len(items') /\ sequence = Popped + (Len(items) + 1)
    BY <2>1, <2>2, <1>q, <1>n
  <2>4. \A k \in 1..Len(items') : objects[items'[k]] = Popped + k
    BY <2>2, <2>3, <1>i, <1>q
  <2> QED
    BY <2>1, <2>3, <2>4, <1>a DEF IInv, ContentInv
<1>7. NoLostWakeup'
  BY <1>a DEF NoLostWakeup
<1> QED
  BY <1>1, <1>2, <1>3, <1>4, <1>5, <1>6, <1>7 DEF IInv

\* The steps between the pushes: the number of the message moves on only when
\* the sleeper has been notified, and the last notification follows the close.
LEMMA FeederTurns ==
  IInv /\ (PushNotifies \/ Close \/ CloseNotifies) => IInv'
<1> SUFFICES ASSUME IInv, PushNotifies \/ Close \/ CloseNotifies PROVE IInv'
  OBVIOUS
<1> USE DEF poolVars, consumerVars
<1>n. /\ sequence \in 1..(MessageCount + 1) /\ MessageCount \in Nat
      /\ waiters \subseteq {Main}
  BY Shapes
<1>a. /\ feeder \in {"notifyOne", "acquire", "notifyAll"}
      /\ feeder' \in {"acquire", "notifyAll", "done"}
      /\ waiters' \subseteq waiters
      /\ UNCHANGED <<items, lease, poolVars, consumerVars, process>>
  BY <1>n DEF PushNotifies, Close, CloseNotifies, FeederAt, Queue!NotifyOne,
              Queue!CloseQueue, Queue!NotifyAll
<1>b. closed' \in BOOLEAN
  BY DEF PushNotifies, Close, CloseNotifies, Queue!NotifyOne, Queue!CloseQueue,
         Queue!NotifyAll, IInv, TypeOK, Queue!QueueTypeOK
<1>c. /\ sequence' \in 1..(MessageCount + 1)
      /\ Pushed' = Pushed
  <2>1. CASE PushNotifies
    BY <2>1, <1>n DEF PushNotifies, FeederAt, IInv, PhaseInv, Pushed
  <2>2. CASE Close \/ CloseNotifies
    BY <2>2, <1>n DEF Close, CloseNotifies, FeederAt, Pushed
  <2> QED
    BY <2>1, <2>2
<1>s. size' = size
  BY <1>a, SizeKept
<1>1. TypeOK'
  <2>1. Indices' = Indices
    BY <1>a DEF Indices
  <2> QED
    BY <2>1, <1>a, <1>b, <1>c, <1>s DEF IInv, TypeOK, Queue!QueueTypeOK
<1>2. SizeInv' /\ PhaseInv'
  BY <1>a, <1>s DEF IInv, SizeInv, PhaseInv
<1>3. AccountInv' /\ DistinctInv' /\ CoveredInv'
  BY <1>a, <1>s, NothingMoves DEF IInv
<1>4. ContentInv'
  BY <1>a, <1>c DEF IInv, ContentInv, Popped
<1>5. NoLostWakeup'
  <2>1. CASE PushNotifies
    <3>1. Main \notin waiters'
      BY <2>1, <1>n DEF PushNotifies, Queue!NotifyOne
    <3> QED
      BY <3>1 DEF NoLostWakeup
  <2>2. CASE Close
    BY <2>2 DEF Close, NoLostWakeup
  <2>3. CASE CloseNotifies
    BY <2>3 DEF CloseNotifies, Queue!NotifyAll, NoLostWakeup
  <2> QED
    BY <2>1, <2>2, <2>3
<1> QED
  BY <1>1, <1>2, <1>3, <1>4, <1>5 DEF IInv

-----------------------------------------------------------------------------
\* The main thread goes to sleep, wakes, or finds the queue at its end: it
\* sleeps only while there is nothing to pop.
LEMMA SleepPreserves == IInv /\ (PopBlocks \/ Wakes \/ PopEnds \/ Join) => IInv'
<1> SUFFICES ASSUME IInv, PopBlocks \/ Wakes \/ PopEnds \/ Join PROVE IInv'
  OBVIOUS
<1> USE DEF poolVars, feederVars
<1>a. /\ consumer \in {"pop", "join"} /\ consumer' \in {"pop", "join"}
      /\ process' \in {process, "finished"}
      /\ waiters' \subseteq waiters \cup {Main}
      /\ UNCHANGED <<items, closed, poolVars, feederVars, update, messagesProcessed,
                     dangling, intact>>
  BY DEF PopBlocks, Wakes, PopEnds, Join, ConsumerAt, queueVars, consumerVars,
         Queue!PopBlocks, Queue!SpuriousWakeup, Queue!PopFinds, Queue!queueVars
<1>w. Main \in waiters' => Main \in waiters \/ ~Queue!MayPop
  BY DEF PopBlocks, Wakes, PopEnds, Join, queueVars, Queue!PopBlocks,
         Queue!SpuriousWakeup, Queue!PopFinds, Queue!queueVars
<1>s. size' = size
  BY <1>a, SizeKept
<1>1. TypeOK'
  <2>1. Indices' = Indices
    BY <1>a DEF Indices
  <2>2. waiters' \subseteq {Main}
    BY <1>a, Shapes
  <2> QED
    BY <2>1, <2>2, <1>a, <1>s DEF IInv, TypeOK, Queue!QueueTypeOK
<1>2. SizeInv' /\ PhaseInv'
  BY <1>a, <1>s DEF IInv, SizeInv, PhaseInv
<1>3. AccountInv' /\ DistinctInv' /\ CoveredInv'
  BY <1>a, <1>s, NothingMoves DEF IInv
<1>4. ContentInv'
  BY <1>a DEF IInv, ContentInv, Popped, Pushed
<1>5. NoLostWakeup'
  BY <1>a, <1>w DEF IInv, NoLostWakeup, Queue!MayPop
<1> QED
  BY <1>1, <1>2, <1>3, <1>4, <1>5 DEF IInv

\* The lease at the front moves to the main thread's hand.
LEMMA PopLeasePreserves == IInv /\ PopLease => IInv'
<1> SUFFICES ASSUME IInv, PopLease PROVE IInv'
  OBVIOUS
<1> USE DEF poolVars, feederVars
<1>n. /\ size \in Nat /\ Len(items) \in Nat /\ Len(freeIndices) \in Nat
      /\ items \in Seq(0..(size - 1))
      /\ lease \in 0..(size - 1) \cup {NoIndex}
      /\ NoIndex \notin 0..size
      /\ DOMAIN objects = 0..(size - 1)
      /\ messagesProcessed \in 0..MessageCount /\ MessageCount \in Nat
  BY Shapes
<1>a. /\ consumer = "pop" /\ consumer' = "popped"
      /\ items # <<>> /\ Main \notin waiters
      /\ items' = Tail(items) /\ update' = Head(items)
      /\ UNCHANGED <<closed, waiters, poolVars, feederVars, messagesProcessed,
                     dangling, intact, process>>
  BY DEF PopLease, ConsumerAt, Queue!PopFront
<1>b. update = NoIndex
  BY <1>a DEF IInv, TypeOK
<1>s. size' = size
  BY <1>a, SizeKept
<1>q. /\ items' \in Seq(0..(size - 1))
      /\ Len(items') = Len(items) - 1
      /\ \A k \in 1..Len(items') : items'[k] = items[k + 1]
      /\ update' = items[1] /\ update' \in 0..(size - 1)
  BY <1>a, <1>n, HeadTailProperties
<1>l. Len(items) >= 1 /\ Len(items') = Len(items) - 1
  BY <1>q, <1>n, <1>a, EmptySeq
<1>i. /\ 1 \in 1..Len(items)
      /\ \A k \in 1..Len(items') : k + 1 \in 1..Len(items) /\ k + 1 # 1
      /\ \A k \in 1..Len(items) : k = 1 \/ (k - 1 \in 1..Len(items') /\ (k - 1) + 1 = k)
  BY <1>l, <1>n
<1>h. /\ InHand(update) = 0 /\ InHand(update)' = 1 /\ InHand(lease)' = InHand(lease)
      /\ InHand(lease) \in {0, 1}
      /\ update' # NoIndex
  BY <1>a, <1>b, <1>q, <1>n, Hands DEF InHand
<1>1. TypeOK'
  <2>1. Indices' = Indices /\ Indices = 0..(size - 1)
    BY <1>a, <1>n DEF Indices
  <2> QED
    BY <2>1, <1>a, <1>s, <1>q, <1>h DEF IInv, TypeOK, Queue!QueueTypeOK
<1>2. SizeInv' /\ PhaseInv'
  BY <1>a, <1>s DEF IInv, SizeInv, PhaseInv
<1>3. AccountInv'
  BY <1>a, <1>s, <1>h, <1>l, <1>n DEF IInv, AccountInv
<1>4. DistinctInv'
  <2>1. \A j, k \in 1..Len(items') : items'[j] = items'[k] => j = k
    <3> SUFFICES ASSUME NEW j \in 1..Len(items'), NEW k \in 1..Len(items'),
                        items'[j] = items'[k]
                 PROVE  j = k
      OBVIOUS
    <3>1. j + 1 = k + 1
      BY <1>i, <1>q DEF IInv, DistinctInv
    <3> QED
      BY <3>1, <1>n
  <2>2. \A j \in 1..Len(freeIndices) :
           /\ freeIndices[j] # lease /\ freeIndices[j] # update'
           /\ \A k \in 1..Len(items') : freeIndices[j] # items'[k]
    BY <1>i, <1>q DEF IInv, DistinctInv
  <2>3. \A k \in 1..Len(items') : items'[k] # lease /\ items'[k] # update'
    BY <1>i, <1>q DEF IInv, DistinctInv
  <2>4. lease # update'
    BY <1>i, <1>q DEF IInv, DistinctInv
  <2> QED
    BY <2>1, <2>2, <2>3, <2>4, <1>a DEF IInv, DistinctInv
<1>5. CoveredInv'
  <2> SUFFICES ASSUME NEW i \in 0..(size - 1)
               PROVE  \/ \E k \in 1..Len(freeIndices) : freeIndices[k] = i
                      \/ \E k \in 1..Len(items') : items'[k] = i
                      \/ i = lease
                      \/ i = update'
    BY <1>a, <1>s DEF CoveredInv
  <2>1. CASE \E k \in 1..Len(items) : items[k] = i
    <3>1. PICK k \in 1..Len(items) : items[k] = i
      BY <2>1
    <3>2. k = 1 \/ (k - 1 \in 1..Len(items') /\ items'[k - 1] = i)
      BY <3>1, <1>i, <1>q
    <3> QED
      BY <3>1, <3>2, <1>q
  <2>2. i # update
    BY <1>b, <1>n
  <2> QED
    BY <2>1, <2>2 DEF IInv, CoveredInv
<1>6. ContentInv'
  <2>1. Popped = messagesProcessed /\ Popped' = messagesProcessed + 1 /\ Pushed' = Pushed
    BY <1>a DEF Popped, Pushed
  <2>2. /\ Pushed = Popped + Len(items)
        /\ \A k \in 1..Len(items) : objects[items[k]] = Popped + k
    BY DEF IInv, ContentInv
  <2>3. Pushed = Popped' + Len(items')
    BY <2>1, <2>2, <1>l, <1>n
  <2>4. ASSUME NEW k \in 1..Len(items') PROVE objects[items'[k]] = Popped' + k
    <3>1. objects[items[k + 1]] = Popped + (k + 1)
      BY <2>2, <1>i
    <3>2. Popped + (k + 1) = Popped' + k
      BY <2>1, <1>n
    <3> QED
      BY <3>1, <3>2, <1>q
  <2>5. objects[update'] = Popped'
    BY <2>1, <2>2, <1>i, <1>q
  <2> QED
    BY <2>1, <2>3, <2>4, <2>5, <1>a DEF IInv, ContentInv
<1>7. NoLostWakeup'
  BY <1>a DEF NoLostWakeup
<1> QED
  BY <1>1, <1>2, <1>3, <1>4, <1>5, <1>6, <1>7 DEF IInv

\* The main thread uses the object, cleanly or through a dangling reference.
LEMMA ConsumePreserves ==
  IInv /\ (ConsumeBegins \/ ConsumeEnds \/ ReleaseBegins) => IInv'
<1> SUFFICES ASSUME IInv, ConsumeBegins \/ ConsumeEnds \/ ReleaseBegins PROVE IInv'
  OBVIOUS
<1> USE DEF poolVars, feederVars, queueVars
<1>n. /\ Len(items) \in Nat /\ sequence \in 1..(MessageCount + 1)
      /\ messagesProcessed \in 0..MessageCount /\ MessageCount \in Nat
  BY Shapes
<1>a. /\ consumer \in {"popped", "consuming", "return"}
      /\ consumer' \in {"consuming", "return", "clearing"}
      /\ process = "running" /\ process' \in {"running", "crashed"}
      /\ UNCHANGED <<poolVars, feederVars, queueVars, update>>
  BY DEF ConsumeBegins, ConsumeEnds, ReleaseBegins, ConsumerAt, MayCrash
<1>b. {dangling, intact}' \subseteq BOOLEAN
  <2>1. CASE ConsumeBegins \/ ReleaseBegins
    BY <2>1 DEF ConsumeBegins, ReleaseBegins, IInv, TypeOK
  <2>2. CASE ConsumeEnds
    BY <2>2 DEF ConsumeEnds
  <2> QED
    BY <2>1, <2>2
<1>p. /\ Popped' = Popped
      /\ messagesProcessed' = messagesProcessed \/ messagesProcessed' = Popped
      /\ consumer' = "consuming" => consumer = "popped"
  BY DEF ConsumeBegins, ConsumeEnds, ReleaseBegins, ConsumerAt, Popped
<1>m. messagesProcessed' \in 0..MessageCount
  <2>1. Popped <= MessageCount
    <3>1. Pushed <= MessageCount
      <4>1. CASE feeder = "notifyOne"
        BY <4>1 DEF IInv, PhaseInv, Pushed
      <4>2. CASE feeder # "notifyOne"
        BY <4>2, <1>n DEF Pushed
      <4> QED
        BY <4>1, <4>2
    <3>2. Pushed = Popped + Len(items) /\ Popped \in Int
      BY <1>n DEF IInv, ContentInv, Popped
    <3> QED
      BY <3>1, <3>2, <1>n
  <2>2. Popped \in Nat
    BY <1>n DEF Popped
  <2> QED
    BY <2>1, <2>2, <1>p, <1>n
<1>s. size' = size
  BY <1>a, SizeKept
<1>1. TypeOK'
  <2>1. Indices' = Indices
    BY <1>a DEF Indices
  <2> QED
    BY <2>1, <1>a, <1>b, <1>m, <1>s DEF IInv, TypeOK, Queue!QueueTypeOK
<1>2. SizeInv' /\ PhaseInv'
  BY <1>a, <1>s DEF IInv, SizeInv, PhaseInv
<1>3. AccountInv' /\ DistinctInv' /\ CoveredInv'
  BY <1>a, <1>s, NothingMoves DEF IInv
<1>4. ContentInv'
  BY <1>a, <1>p DEF IInv, ContentInv, Pushed
<1>5. NoLostWakeup'
  BY <1>a DEF IInv, NoLostWakeup, Queue!MayPop
<1> QED
  BY <1>1, <1>2, <1>3, <1>4, <1>5 DEF IInv

\* release clears an object nobody else has, or, through a dangling reference,
\* nothing.
LEMMA ReleaseClearsPreserves == IInv /\ ReleaseClears => IInv'
<1> SUFFICES ASSUME IInv, ReleaseClears PROVE IInv'
  OBVIOUS
<1> USE DEF feederVars, queueVars
<1>n. /\ size \in Nat /\ DOMAIN objects = 0..(size - 1)
      /\ objects \in [0..(size - 1) -> 0..MessageCount]
      /\ items \in Seq(0..(size - 1))
      /\ lease \in 0..(size - 1) \cup {NoIndex}
      /\ update \in 0..(size - 1) \cup {NoIndex}
      /\ MessageCount \in Nat
  BY Shapes
<1>a. /\ consumer = "clearing" /\ consumer' = "free"
      /\ objects' \in {objects, [objects EXCEPT ![update] = 0]}
      /\ dangling' = FALSE
      /\ process = "running" /\ process' \in {"running", "crashed"}
      /\ UNCHANGED <<vectorCapacity, freeIndices, feederVars, queueVars, update,
                     messagesProcessed, intact>>
  BY DEF ReleaseClears, ConsumerAt, MayCrash
<1>b. update \in 0..(size - 1) /\ update # NoIndex
  BY <1>a, <1>n DEF IInv, TypeOK
<1>s. DOMAIN objects' = DOMAIN objects /\ size' = size
  BY <1>a, SizeKept
<1>1. TypeOK'
  <2>1. objects' \in [0..(size - 1) -> 0..MessageCount]
    <3>1. [objects EXCEPT ![update] = 0] \in [0..(size - 1) -> 0..MessageCount]
      BY <1>b, <1>n
    <3> QED
      BY <3>1, <1>a, <1>n
  <2>2. Indices' = Indices
    BY <1>s DEF Indices
  <2>3. {dangling, intact}' \subseteq BOOLEAN
    BY <1>a DEF IInv, TypeOK
  <2> QED
    BY <2>1, <2>2, <2>3, <1>a, <1>s DEF IInv, TypeOK, Queue!QueueTypeOK
<1>2. SizeInv' /\ PhaseInv'
  BY <1>a, <1>s DEF IInv, SizeInv, PhaseInv
<1>3. AccountInv' /\ DistinctInv' /\ CoveredInv'
  BY <1>a, <1>s, NothingMoves DEF IInv
<1>4. ContentInv'
  <2>1. \A i \in 0..(size - 1) : i # update => objects'[i] = objects[i]
    BY <1>a, <1>n
  <2>2. \A k \in 1..Len(items) : objects'[items[k]] = objects[items[k]]
    BY <2>1, <1>n DEF IInv, DistinctInv
  <2>3. feeder = "push" => objects'[lease] = objects[lease]
    <3>1. feeder = "push" => lease \in 0..(size - 1) /\ lease # update
      BY <1>n, <1>b DEF IInv, TypeOK, DistinctInv
    <3> QED
      BY <3>1, <2>1
  <2> QED
    BY <2>2, <2>3, <1>a DEF IInv, ContentInv, Popped, Pushed
<1>5. NoLostWakeup'
  BY <1>a DEF IInv, NoLostWakeup, Queue!MayPop
<1> QED
  BY <1>1, <1>2, <1>3, <1>4, <1>5 DEF IInv

\* The index goes to the back of the free list.
LEMMA ReleasedPreserves == IInv /\ Released => IInv'
<1> SUFFICES ASSUME IInv, Released PROVE IInv'
  OBVIOUS
<1> USE DEF feederVars, queueVars
<1>n. /\ size \in Nat /\ Len(items) \in Nat /\ Len(freeIndices) \in Nat
      /\ freeIndices \in Seq(0..(size - 1))
      /\ items \in Seq(0..(size - 1))
      /\ lease \in 0..(size - 1) \cup {NoIndex}
      /\ update \in 0..(size - 1) \cup {NoIndex}
      /\ NoIndex \notin 0..size
      /\ DOMAIN objects = 0..(size - 1)
  BY Shapes
<1>a. /\ consumer = "free" /\ consumer' = "pop"
      /\ freeIndices' = Append(freeIndices, update)
      /\ update' = NoIndex
      /\ UNCHANGED <<objects, vectorCapacity, feederVars, queueVars,
                     messagesProcessed, dangling, intact, process>>
  BY DEF Released, ConsumerAt
<1>b. update \in 0..(size - 1) /\ update # NoIndex
  BY <1>a, <1>n DEF IInv, TypeOK
<1>s. size' = size
  BY <1>a, SizeKept
<1>q. /\ freeIndices' \in Seq(0..(size - 1))
      /\ Len(freeIndices') = Len(freeIndices) + 1
      /\ \A k \in 1..Len(freeIndices) : freeIndices'[k] = freeIndices[k]
      /\ freeIndices'[Len(freeIndices) + 1] = update
  BY <1>a, <1>b, <1>n, AppendProperties
<1>i. \A k \in 1..Len(freeIndices') :
         k \in 1..Len(freeIndices) \/ k = Len(freeIndices) + 1
  BY <1>q, <1>n
<1>h. InHand(update) = 1 /\ InHand(update)' = 0 /\ InHand(lease)' = InHand(lease)
      /\ InHand(lease) \in {0, 1}
  BY <1>a, <1>b, <1>n, Hands DEF InHand
<1>1. TypeOK'
  <2>1. Indices' = Indices /\ Indices = 0..(size - 1)
    BY <1>a, <1>n DEF Indices
  <2> QED
    BY <2>1, <1>a, <1>s, <1>q DEF IInv, TypeOK, Queue!QueueTypeOK
<1>2. SizeInv' /\ PhaseInv'
  BY <1>a, <1>s DEF IInv, SizeInv, PhaseInv
<1>3. AccountInv'
  BY <1>a, <1>s, <1>h, <1>q, <1>n DEF IInv, AccountInv
<1>4. DistinctInv'
  <2>1. \A j, k \in 1..Len(freeIndices') : freeIndices'[j] = freeIndices'[k] => j = k
    <3> SUFFICES ASSUME NEW j \in 1..Len(freeIndices'), NEW k \in 1..Len(freeIndices'),
                        freeIndices'[j] = freeIndices'[k]
                 PROVE  j = k
      OBVIOUS
    <3> QED
      BY <1>i, <1>q DEF IInv, DistinctInv
  <2>2. \A k \in 1..Len(items) :
           /\ items[k] \in 0..(size - 1) /\ items[k] # NoIndex
           /\ items[k] # lease /\ items[k] # update
    BY <1>n DEF IInv, DistinctInv
  <2>3. \A j \in 1..Len(freeIndices'), k \in 1..Len(items) : freeIndices'[j] # items[k]
    BY <2>2, <1>i, <1>q DEF IInv, DistinctInv
  <2>4. \A j \in 1..Len(freeIndices') : freeIndices'[j] # NoIndex /\ freeIndices'[j] # lease
    <3>1. lease # update
      BY <1>b DEF IInv, DistinctInv
    <3>2. \A j \in 1..Len(freeIndices) : freeIndices[j] # NoIndex
      BY <1>n
    <3> QED
      BY <3>1, <3>2, <1>i, <1>q, <1>b DEF IInv, DistinctInv
  <2> QED
    BY <2>1, <2>2, <2>3, <2>4, <1>a DEF IInv, DistinctInv
<1>5. CoveredInv'
  <2> SUFFICES ASSUME NEW i \in 0..(size - 1)
               PROVE  \/ \E k \in 1..Len(freeIndices') : freeIndices'[k] = i
                      \/ \E k \in 1..Len(items) : items[k] = i
                      \/ i = lease
    BY <1>a, <1>s DEF CoveredInv
  <2>1. CASE \E k \in 1..Len(freeIndices) : freeIndices[k] = i
    <3>1. \A k \in 1..Len(freeIndices) : k \in 1..Len(freeIndices')
      BY <1>q, <1>n
    <3> QED
      BY <2>1, <3>1, <1>q
  <2>2. CASE i = update
    <3>1. Len(freeIndices) + 1 \in 1..Len(freeIndices')
      BY <1>q, <1>n
    <3> QED
      BY <2>2, <3>1, <1>q
  <2> QED
    BY <2>1, <2>2 DEF IInv, CoveredInv
<1>6. ContentInv'
  BY <1>a DEF IInv, ContentInv, Popped, Pushed
<1>7. NoLostWakeup'
  BY <1>a DEF IInv, NoLostWakeup, Queue!MayPop
<1> QED
  BY <1>1, <1>2, <1>3, <1>4, <1>5, <1>6, <1>7 DEF IInv

-----------------------------------------------------------------------------
\* Every step of either thread, and every spurious wakeup, keeps the invariant.
LEMMA NextIInv == IInv /\ [Next]_vars => IInv'
<1>1. IInv /\ UNCHANGED vars => IInv'
  <2> SUFFICES ASSUME IInv, UNCHANGED vars PROVE IInv'
    OBVIOUS
  <2> USE DEF vars, poolVars, queueVars, feederVars, consumerVars
  <2>s. size' = size /\ Indices' = Indices
    BY SizeKept DEF Indices
  <2>1. TypeOK'
    BY <2>s DEF IInv, TypeOK, Queue!QueueTypeOK
  <2>2. SizeInv' /\ PhaseInv'
    BY <2>s DEF IInv, SizeInv, PhaseInv
  <2>3. AccountInv' /\ DistinctInv' /\ CoveredInv'
    BY <2>s, NothingMoves DEF IInv
  <2>4. ContentInv'
    BY DEF IInv, ContentInv, Popped, Pushed
  <2>5. NoLostWakeup'
    BY DEF IInv, NoLostWakeup, Queue!MayPop
  <2> QED
    BY <2>1, <2>2, <2>3, <2>4, <2>5 DEF IInv
<1> QED
  BY <1>1, AcquireFreePreserves, GrowPreserves, ProducePreserves, PushLeasePreserves,
     FeederTurns, SleepPreserves, PopLeasePreserves, ConsumePreserves,
     ReleaseClearsPreserves, ReleasedPreserves
  DEF Next, Feed, Drain, Ended

\* The inductive invariant holds of every run.
THEOREM InductiveInvariant == Spec => []IInv
<1> QED
  BY InitIInv, NextIInv, PTL DEF Spec

-----------------------------------------------------------------------------
\* Distinct and covered, an index has exactly one place.
LEMMA OnePlace ==
  ASSUME IInv, NEW i \in Indices
  PROVE  \E p : Places(i) = {p}
<1> DEFINE free == {k \in DOMAIN freeIndices : freeIndices[k] = i}
           onQueue == {k \in DOMAIN items : items[k] = i}
<1>q. /\ DOMAIN items = 1..Len(items) /\ DOMAIN freeIndices = 1..Len(freeIndices)
      /\ i \in 0..(size - 1) /\ i # NoIndex
  <2>1. /\ freeIndices \in Seq(0..(size - 1)) /\ items \in Seq(0..(size - 1))
        /\ DOMAIN objects = 0..(size - 1) /\ size \in Nat /\ NoIndex \notin 0..size
    BY Shapes
  <2> QED
    BY <2>1 DEF Indices
<1>d. Places(i) = {<<"free", k>> : k \in free} \cup {<<"queue", k>> : k \in onQueue}
                  \cup {<<"feeder", 0>> : t \in {lease} \cap {i}}
                  \cup {<<"consumer", 0>> : t \in {update} \cap {i}}
  BY DEF Places
<1>1. CASE \E k \in 1..Len(freeIndices) : freeIndices[k] = i
  <2>1. PICK k \in 1..Len(freeIndices) : freeIndices[k] = i
    BY <1>1
  <2>2. free = {k} /\ onQueue = {} /\ {lease} \cap {i} = {} /\ {update} \cap {i} = {}
    BY <2>1, <1>q DEF IInv, DistinctInv
  <2>3. Places(i) = {<<"free", k>>}
    BY <2>2, <1>d
  <2> QED
    BY <2>3
<1>2. CASE \E k \in 1..Len(items) : items[k] = i
  <2>1. PICK k \in 1..Len(items) : items[k] = i
    BY <1>2
  <2>2. free = {} /\ onQueue = {k} /\ {lease} \cap {i} = {} /\ {update} \cap {i} = {}
    BY <2>1, <1>q DEF IInv, DistinctInv
  <2>3. Places(i) = {<<"queue", k>>}
    BY <2>2, <1>d
  <2> QED
    BY <2>3
<1>3. CASE i = lease
  <2>1. free = {} /\ onQueue = {} /\ {lease} \cap {i} = {i} /\ {update} \cap {i} = {}
    BY <1>3, <1>q DEF IInv, DistinctInv
  <2>2. Places(i) = {<<"feeder", 0>>}
    BY <2>1, <1>d
  <2> QED
    BY <2>2
<1>4. CASE i = update
  <2>1. free = {} /\ onQueue = {} /\ {lease} \cap {i} = {} /\ {update} \cap {i} = {i}
    BY <1>4, <1>q DEF IInv, DistinctInv
  <2>2. Places(i) = {<<"consumer", 0>>}
    BY <2>1, <1>d
  <2> QED
    BY <2>2
<1> QED
  BY <1>1, <1>2, <1>3, <1>4, <1>q DEF IInv, CoveredInv

\* However the vector grows and whichever index is used again, an object is in
\* exactly one place, and the one the main thread is given holds the next
\* message.
THEOREM EveryObjectHasOneOwner == Spec => []OneOwner
<1>1. IInv => OneOwner
  <2>1. ASSUME IInv, NEW i \in Indices PROVE Cardinality(Places(i)) = 1
    <3>1. PICK p : Places(i) = {p}
      BY <2>1, OnePlace
    <3> QED
      BY <3>1, FS_Singleton
  <2>2. IInv => ConsumesInOrder
    BY DEF IInv, ContentInv, Popped, ConsumesInOrder
  <2> QED
    BY <2>1, <2>2 DEF OneOwner, IInv
<1> QED
  BY <1>1, InductiveInvariant, PTL

\* No item and no close goes unnoticed by the sleeping main thread.
THEOREM WakeupsNotLost == Spec => []NoLostWakeup
<1>1. IInv => NoLostWakeup
  BY DEF IInv
<1> QED
  BY <1>1, InductiveInvariant, PTL

\* The pool grows only when all its objects but at most one are on the queue.
THEOREM GrowthIsBacklog == Spec => GrowsOnlyByBacklog
<1>1. IInv /\ [Next]_vars => [size' > size => Len(items) >= size - 1]_vars
  <2> SUFFICES ASSUME IInv, Next, size' > size PROVE Len(items) >= size - 1
    OBVIOUS
  <2>n. /\ size \in Nat /\ Len(items) \in Nat
        /\ update \in 0..(size - 1) \cup {NoIndex}
    BY Shapes
  <2>1. CASE AcquireNew \/ Reallocate
    <3>1. freeIndices = <<>> /\ lease = NoIndex
      BY <2>1 DEF AcquireNew, Reallocate, FeederAt, IInv, TypeOK
    <3>2. Len(freeIndices) = 0 /\ InHand(lease) = 0 /\ InHand(update) \in {0, 1}
      BY <3>1, <2>n, Hands, EmptySeq
    <3> QED
      BY <3>2, <2>n DEF IInv, AccountInv
  <2>2. CASE ~(AcquireNew \/ Reallocate)
    <3>1. DOMAIN objects' = DOMAIN objects
      BY <2>2 DEF Next, Feed, Drain, Ended, vars, poolVars, AcquireFree, Produce, PushLease,
                  PushNotifies, Close, CloseNotifies, PopBlocks, Wakes, PopLease, PopEnds,
                  ConsumeBegins, ConsumeEnds, ReleaseBegins, ReleaseClears, Released, Join
    <3>2. size' = size
      BY <3>1, SizeKept
    <3> QED
      BY <3>2, <2>n
  <2> QED
    BY <2>1, <2>2
<1> QED
  BY <1>1, InductiveInvariant, PTL DEF Spec, GrowsOnlyByBacklog
=============================================================================
