------------------------------ MODULE SpscRing ------------------------------
(***************************************************************************)
(* RingBuffer of pools/main.cpp: a bounded queue between one producer      *)
(* thread, which calls emplace, and one consumer thread, which calls pop.  *)
(* No lock: each side owns one cursor, reads the other side's with an      *)
(* acquire load, and keeps the last value it read in a cache.              *)
(*                                                                         *)
(* A step is one access to shared memory.  An acquire load need not return *)
(* the newest value of the other thread's cursor, only one no older than   *)
(* the last this thread has seen: EmplaceRefresh and PopRefresh take the   *)
(* value loaded as a parameter, and whoever runs the ring says which       *)
(* values the memory model allows.  The cursors are int64_t and only grow; *)
(* their overflow, after 2^63 operations, is not modelled.                 *)
(*                                                                         *)
(* push (used by no caller) is emplace with an assignment where emplace    *)
(* destroys and constructs the slot.                                       *)
(***************************************************************************)
EXTENDS Integers, Sequences

CONSTANTS
  Capacity,   \* template parameter: number of slots
  Values,     \* what may be stored
  NoValue,    \* a slot nobody wrote, a local variable without an item
  MaxPushes   \* bound on the number of published items

\* The static_asserts of the class; Capacity is a uint32_t.
ASSUME CapacityAssumption ==
  /\ Capacity \in Nat
  /\ Capacity >= 2
  /\ \E k \in 1..31 : Capacity = 2^k

ASSUME ValuesAssumption == NoValue \notin Values /\ MaxPushes \in Nat

VARIABLES
  buffer,             \* the slots
  writeCursor,        \* next sequence number to write; stored by the producer
  cachedReadCursor,   \* producer's last view of readCursor
  pusher,             \* where the producer is inside emplace
  pushItem,           \* emplace's argument
  readCursor,         \* next sequence number to read; stored by the consumer
  cachedWriteCursor,  \* consumer's last view of writeCursor
  popper,             \* where the consumer is inside pop
  popItem             \* pop's out parameter

pushVars == <<writeCursor, cachedReadCursor, pusher, pushItem>>
popVars  == <<readCursor, cachedWriteCursor, popper, popItem>>
vars     == <<buffer, pushVars, popVars>>

\* seq & kMask: Capacity is a power of two, so the mask takes the remainder.
Slot(seq) == seq % Capacity

\* Mutants: the ring thinks it is full one item late; it hands out the slot it
\* has not published yet.
LooksFullLate(read) == writeCursor - read > Capacity
LooksEmptyLate(write) == readCursor > write

\* The two tests of emplace and of pop, on the cached cursor.
LooksFull(read)   == writeCursor - read >= Capacity
LooksEmpty(write) == readCursor >= write

Init ==
  /\ buffer = [s \in 0..(Capacity - 1) |-> NoValue]
  /\ writeCursor = 0 /\ cachedReadCursor = 0
  /\ pusher = "idle" /\ pushItem = NoValue
  /\ readCursor = 0 /\ cachedWriteCursor = 0
  /\ popper = "idle" /\ popItem = NoValue

-----------------------------------------------------------------------------
\* emplace

EmplaceBegin(v) ==
  /\ pusher = "idle"
  /\ pushItem' = v
  /\ pusher' = IF LooksFull(cachedReadCursor) THEN "refresh" ELSE "construct"
  /\ UNCHANGED <<buffer, writeCursor, cachedReadCursor, popVars>>

\* Mutant: the return is missing.
EmplaceRefusedAnyway(read) ==
  /\ pusher = "refresh"
  /\ LooksFull(read)
  /\ cachedReadCursor' = read
  /\ pusher' = "construct"
  /\ UNCHANGED <<buffer, writeCursor, pushItem, popVars>>

\* Loads readCursor; returns false when the ring is full by that value too.
EmplaceRefused(read) ==
  /\ pusher = "refresh"
  /\ LooksFull(read)
  /\ cachedReadCursor' = read
  /\ pusher' = "idle"
  /\ pushItem' = NoValue
  /\ UNCHANGED <<buffer, writeCursor, popVars>>

EmplaceRefresh(read) ==
  /\ pusher = "refresh"
  /\ ~LooksFull(read)
  /\ cachedReadCursor' = read
  /\ pusher' = "construct"
  /\ UNCHANGED <<buffer, writeCursor, pushItem, popVars>>

EmplaceConstruct ==
  /\ pusher = "construct"
  /\ buffer' = [buffer EXCEPT ![Slot(writeCursor)] = pushItem]
  /\ pusher' = "publish"
  /\ UNCHANGED <<writeCursor, cachedReadCursor, pushItem, popVars>>

\* The release store; emplace returns true.
EmplacePublish ==
  /\ pusher = "publish"
  /\ writeCursor' = writeCursor + 1
  /\ pusher' = "idle"
  /\ pushItem' = NoValue
  /\ UNCHANGED <<buffer, cachedReadCursor, popVars>>

-----------------------------------------------------------------------------
\* pop

PopBegin ==
  /\ popper = "idle"
  /\ popper' = IF LooksEmpty(cachedWriteCursor) THEN "refresh" ELSE "take"
  /\ UNCHANGED <<buffer, pushVars, readCursor, cachedWriteCursor, popItem>>

\* Loads writeCursor; returns false when the ring is empty by that value too.
PopRefused(write) ==
  /\ popper = "refresh"
  /\ LooksEmpty(write)
  /\ cachedWriteCursor' = write
  /\ popper' = "idle"
  /\ UNCHANGED <<buffer, pushVars, readCursor, popItem>>

PopRefresh(write) ==
  /\ popper = "refresh"
  /\ ~LooksEmpty(write)
  /\ cachedWriteCursor' = write
  /\ popper' = "take"
  /\ UNCHANGED <<buffer, pushVars, readCursor, popItem>>

PopTake ==
  /\ popper = "take"
  /\ popItem' = buffer[Slot(readCursor)]
  /\ popper' = "advance"
  /\ UNCHANGED <<buffer, pushVars, readCursor, cachedWriteCursor>>

\* The release store; pop returns true.
PopAdvance ==
  /\ popper = "advance"
  /\ readCursor' = readCursor + 1
  /\ popper' = "idle"
  /\ UNCHANGED <<buffer, pushVars, cachedWriteCursor, popItem>>

-----------------------------------------------------------------------------
\* The ring on its own: a producer that offers any value, a consumer that
\* polls, and loads that return any value between the cached and the current.

Push ==
  \/ /\ writeCursor < MaxPushes
     /\ \E v \in Values : EmplaceBegin(v)
  \/ \E read \in cachedReadCursor..readCursor :
       EmplaceRefused(read) \/ EmplaceRefresh(read)
  \/ EmplaceConstruct
  \/ EmplacePublish

Pop ==
  \/ PopBegin
  \/ \E write \in cachedWriteCursor..writeCursor :
       PopRefused(write) \/ PopRefresh(write)
  \/ PopTake
  \/ PopAdvance

Next == Push \/ Pop

Spec == Init /\ [][Next]_vars

-----------------------------------------------------------------------------
TypeOK ==
  /\ buffer \in [0..(Capacity - 1) -> Values \cup {NoValue}]
  /\ {writeCursor, cachedReadCursor, readCursor, cachedWriteCursor} \subseteq Nat
  /\ pusher \in {"idle", "refresh", "construct", "publish"}
  /\ popper \in {"idle", "refresh", "take", "advance"}
  /\ pushItem \in Values \cup {NoValue}
  /\ pushItem = NoValue <=> pusher = "idle"
  /\ popItem \in Values \cup {NoValue}

CursorsApart ==
  /\ cachedReadCursor <= readCursor
  /\ readCursor <= cachedWriteCursor
  /\ cachedWriteCursor <= writeCursor
  /\ writeCursor - cachedReadCursor <= Capacity
  /\ pusher \in {"construct", "publish"} => ~LooksFull(cachedReadCursor)
  /\ popper \in {"take", "advance"} => ~LooksEmpty(cachedWriteCursor)

\* Each side's cache runs behind the other side's cursor, never ahead; the
\* two tests bound how far each side may go.
CursorInv == TypeOK /\ CursorsApart

\* The producer never constructs in the slot the consumer is about to read:
\* the only accesses to the buffer that no lock orders.
NoSlotRace ==
  (pusher = "construct" /\ popper = "take")
    => Slot(writeCursor) # Slot(readCursor)

\* Between the construction and the store that publishes it the item is in the
\* slot writeCursor is about to cover.
Constructed == pusher = "publish" => buffer[Slot(writeCursor)] = pushItem

\* Refinement: an item is in the queue from the store of writeCursor until the
\* consumer has copied it out of its slot.
Oldest == IF popper = "advance" THEN readCursor + 1 ELSE readCursor
Held   == [k \in 1..(writeCursor - Oldest) |-> buffer[Slot(Oldest + k - 1)]]

Fifo == INSTANCE BoundedFifo
          WITH items <- Held, submitted <- pushItem, taken <- popItem

\* Whatever the two threads' interleaving and however old the cursors they
\* load, emplace and pop are a bounded first-in first-out queue: nothing is
\* lost, duplicated, reordered or overwritten before it is read.
ImplementsFifo == Fifo!Spec
=============================================================================
