--------------------------- MODULE SpscRingProofs ---------------------------
(***************************************************************************)
(* Proofs about RingBuffer for every Capacity, every set of values and any *)
(* number of pushes.                                                       *)
(***************************************************************************)
EXTENDS SpscRing, SequenceTheorems, TLAPS

\* A sequence is recognised as an Append or a Tail element by element.
LEMMA IsAppend ==
  ASSUME NEW S, NEW s \in Seq(S), NEW t \in Seq(S), NEW e \in S,
         Len(t) = Len(s) + 1, \A i \in 1..Len(s) : t[i] = s[i], t[Len(s) + 1] = e
  PROVE  t = Append(s, e)
<1>1. /\ Append(s, e) \in Seq(S)
      /\ Len(Append(s, e)) = Len(s) + 1
      /\ \A i \in 1..Len(s) : Append(s, e)[i] = s[i]
      /\ Append(s, e)[Len(s) + 1] = e
  BY AppendProperties
<1>2. Len(s) \in Nat
  OBVIOUS
<1>3. \A i \in 1..Len(t) : t[i] = Append(s, e)[i]
  BY <1>1, <1>2
<1> QED
  BY <1>1, <1>3, SeqEqual

\* The other end.
LEMMA IsTail ==
  ASSUME NEW S, NEW s \in Seq(S), s # <<>>, NEW t \in Seq(S),
         Len(t) = Len(s) - 1, \A i \in 1..Len(t) : t[i] = s[i + 1]
  PROVE  t = Tail(s)
<1>1. /\ Tail(s) \in Seq(S)
      /\ Len(Tail(s)) = Len(s) - 1
      /\ \A i \in 1..Len(Tail(s)) : Tail(s)[i] = s[i + 1]
  BY HeadTailProperties
<1> QED
  BY <1>1, SeqEqual

\* All the proofs need of the static_asserts on Capacity.
LEMMA CapacityPositive == Capacity \in Nat /\ Capacity >= 2
BY CapacityAssumption

\* Two sequence numbers less than Capacity apart share no slot.
LEMMA SlotInjective ==
  ASSUME NEW a \in Nat, NEW b \in Nat, a < b, b - a < Capacity
  PROVE  Slot(a) # Slot(b)
<1>0. Capacity \in Nat /\ Capacity > 0
  BY CapacityPositive
<1>1. a = Capacity * (a \div Capacity) + (a % Capacity)
      /\ b = Capacity * (b \div Capacity) + (b % Capacity)
  BY <1>0
<1>2. SUFFICES ASSUME a % Capacity = b % Capacity PROVE FALSE
  BY DEF Slot
<1>3. PICK p \in Int : p = a \div Capacity
  BY <1>0
<1>4. PICK q \in Int : q = b \div Capacity
  BY <1>0
<1>5. b - a = Capacity * (q - p)
  BY <1>0, <1>1, <1>2, <1>3, <1>4
<1>6. q - p >= 1
  BY <1>0, <1>5
<1>7. Capacity * (q - p) >= Capacity
  BY <1>0, <1>6
<1> QED
  BY <1>0, <1>5, <1>7

\* A sequence number has a slot.
LEMMA SlotInRange ==
  ASSUME NEW s \in Nat
  PROVE  Slot(s) \in 0..(Capacity - 1)
BY CapacityPositive DEF Slot

-----------------------------------------------------------------------------
\* Every variable keeps its type, and an item is inside emplace exactly while
\* the producer is.
THEOREM TypeCorrect == Spec => []TypeOK
<1>1. Init => TypeOK
  BY CapacityPositive DEF Init, TypeOK
<1>2. TypeOK /\ [Next]_vars => TypeOK'
  <2> SUFFICES ASSUME TypeOK, [Next]_vars PROVE TypeOK'
    OBVIOUS
  <2> USE CapacityPositive, ValuesAssumption DEF TypeOK, pushVars, popVars
  <2>1. ASSUME NEW v \in Values, EmplaceBegin(v) PROVE TypeOK'
    BY <2>1 DEF EmplaceBegin
  <2>2. ASSUME NEW read \in cachedReadCursor..readCursor,
               EmplaceRefused(read) \/ EmplaceRefresh(read)
        PROVE  TypeOK'
    BY <2>2 DEF EmplaceRefused, EmplaceRefresh
  <2>3. CASE EmplaceConstruct
    BY <2>3, SlotInRange DEF EmplaceConstruct
  <2>4. CASE EmplacePublish
    BY <2>4 DEF EmplacePublish
  <2>5. CASE PopBegin
    BY <2>5 DEF PopBegin
  <2>6. ASSUME NEW write \in cachedWriteCursor..writeCursor,
               PopRefused(write) \/ PopRefresh(write)
        PROVE  TypeOK'
    BY <2>6 DEF PopRefused, PopRefresh
  <2>7. CASE PopTake
    BY <2>7, SlotInRange DEF PopTake
  <2>8. CASE PopAdvance
    BY <2>8 DEF PopAdvance
  <2>9. CASE UNCHANGED vars
    BY <2>9 DEF vars
  <2> QED
    BY <2>1, <2>2, <2>3, <2>4, <2>5, <2>6, <2>7, <2>8, <2>9
    DEF Next, Push, Pop
<1> QED
  BY <1>1, <1>2, PTL DEF Spec

-----------------------------------------------------------------------------
\* The caches never run ahead of the cursors they copy, the producer is never
\* more than Capacity ahead of the consumer, and a side that has passed its
\* test may still rely on it when it touches the slot.
THEOREM CursorsCorrect == Spec => []CursorInv
<1>1. Init => CursorsApart
  BY CapacityPositive DEF Init, CursorsApart
<1>2. TypeOK /\ CursorsApart /\ [Next]_vars => CursorsApart'
  <2> SUFFICES ASSUME TypeOK, CursorsApart, [Next]_vars PROVE CursorsApart'
    OBVIOUS
  <2> USE CapacityPositive
      DEF TypeOK, CursorsApart, LooksFull, LooksEmpty, pushVars, popVars
  <2>1. ASSUME NEW v \in Values, EmplaceBegin(v) PROVE CursorsApart'
    BY <2>1 DEF EmplaceBegin
  <2>2. ASSUME NEW read \in cachedReadCursor..readCursor,
               EmplaceRefused(read) \/ EmplaceRefresh(read)
        PROVE  CursorsApart'
    BY <2>2 DEF EmplaceRefused, EmplaceRefresh
  <2>3. CASE EmplaceConstruct
    BY <2>3 DEF EmplaceConstruct
  <2>4. CASE EmplacePublish
    BY <2>4 DEF EmplacePublish
  <2>5. CASE PopBegin
    BY <2>5 DEF PopBegin
  <2>6. ASSUME NEW write \in cachedWriteCursor..writeCursor,
               PopRefused(write) \/ PopRefresh(write)
        PROVE  CursorsApart'
    BY <2>6 DEF PopRefused, PopRefresh
  <2>7. CASE PopTake
    BY <2>7 DEF PopTake
  <2>8. CASE PopAdvance
    BY <2>8 DEF PopAdvance
  <2>9. CASE UNCHANGED vars
    BY <2>9 DEF vars
  <2> QED
    BY <2>1, <2>2, <2>3, <2>4, <2>5, <2>6, <2>7, <2>8, <2>9
    DEF Next, Push, Pop
<1> QED
  BY <1>1, <1>2, TypeCorrect, PTL DEF Spec, CursorInv

\* The two threads never access one slot at the same time.
THEOREM SlotsExclusive == Spec => []NoSlotRace
<1>1. TypeOK /\ CursorsApart => NoSlotRace
  <2> SUFFICES ASSUME TypeOK, CursorsApart, pusher = "construct", popper = "take"
               PROVE  Slot(writeCursor) # Slot(readCursor)
    BY DEF NoSlotRace
  <2>1. readCursor < writeCursor /\ writeCursor - readCursor < Capacity
    BY CapacityPositive DEF TypeOK, CursorsApart, LooksFull, LooksEmpty
  <2> QED
    BY <2>1, SlotInjective DEF TypeOK
<1> QED
  BY <1>1, CursorsCorrect, PTL DEF CursorInv

-----------------------------------------------------------------------------
\* What publish makes visible is what construct wrote.
LEMMA ConstructedCorrect == Spec => []Constructed
<1>1. Init => Constructed
  BY DEF Init, Constructed
<1>2. TypeOK /\ Constructed /\ [Next]_vars => Constructed'
  BY CapacityPositive, SlotInRange
  DEF TypeOK, Constructed, Next, Push, Pop, vars, pushVars, popVars,
      EmplaceBegin, EmplaceRefused, EmplaceRefresh, EmplaceConstruct, EmplacePublish,
      PopBegin, PopRefused, PopRefresh, PopTake, PopAdvance
<1> QED
  BY <1>1, <1>2, TypeCorrect, PTL DEF Spec

IInv == TypeOK /\ CursorsApart /\ Constructed

\* What the cursors say of the abstract queue.
LEMMA HeldIsSeq ==
  ASSUME IInv
  PROVE  /\ Oldest \in Nat
         /\ Oldest <= writeCursor
         /\ writeCursor - Oldest <= Capacity
         /\ Held \in Seq(Values \cup {NoValue})
         /\ Len(Held) = writeCursor - Oldest
         /\ pusher \in {"construct", "publish"} => writeCursor - readCursor < Capacity
<1> USE CapacityPositive DEF IInv, TypeOK
<1>1. /\ Oldest \in Nat
      /\ Oldest <= writeCursor
      /\ writeCursor - Oldest <= Capacity
      /\ pusher \in {"construct", "publish"} => writeCursor - readCursor < Capacity
  BY DEF CursorsApart, Oldest, LooksEmpty, LooksFull
<1>2. \A k \in 1..(writeCursor - Oldest) :
         buffer[Slot(Oldest + k - 1)] \in Values \cup {NoValue}
  <2> TAKE k \in 1..(writeCursor - Oldest)
  <2>1. Oldest + k - 1 \in Nat
    BY <1>1
  <2> QED
    BY <2>1, SlotInRange
<1>3. writeCursor - Oldest \in Nat
  BY <1>1
<1>4. Held \in Seq(Values \cup {NoValue}) /\ Len(Held) = writeCursor - Oldest
  BY <1>2, <1>3 DEF Held
<1> QED
  BY <1>1, <1>4

\* A step that keeps the buffer and the two ends of the queue keeps the queue.
LEMMA HeldUnchanged ==
  ASSUME UNCHANGED buffer, Oldest' = Oldest, UNCHANGED writeCursor
  PROVE  Held' = Held
BY DEF Held, Slot

\* The ring implements the bounded queue: publishing accepts the submitted
\* item, giving up refuses it, copying the oldest slot takes it, and every
\* other step, the construction in the slot included, leaves the queue alone.
THEOREM RingImplementsFifo == Spec => ImplementsFifo
<1>1. Init => Fifo!Init
  BY DEF Init, Fifo!Init, Held, Oldest
<1>2. IInv /\ [Next]_vars => [Fifo!Next]_(Fifo!vars)
  <2> SUFFICES ASSUME IInv, [Next]_vars PROVE [Fifo!Next]_(Fifo!vars)
    OBVIOUS
  <2> USE CapacityPositive, ValuesAssumption DEF IInv, TypeOK, pushVars, popVars
  <2>h. /\ Oldest \in Nat
        /\ Oldest <= writeCursor
        /\ writeCursor - Oldest <= Capacity
        /\ Held \in Seq(Values \cup {NoValue})
        /\ Len(Held) = writeCursor - Oldest
        /\ pusher \in {"construct", "publish"} => writeCursor - readCursor < Capacity
    BY HeldIsSeq
  <2>1. ASSUME NEW v \in Values, EmplaceBegin(v) PROVE Fifo!Submit(v)
    <3>1. Held' = Held
      BY <2>1, HeldUnchanged DEF EmplaceBegin, Oldest
    <3> QED
      BY <2>1, <3>1 DEF EmplaceBegin, Fifo!Submit
  <2>2. ASSUME NEW read \in cachedReadCursor..readCursor, EmplaceRefused(read)
        PROVE  Fifo!Refuse
    <3>1. Held' = Held
      BY <2>2, HeldUnchanged DEF EmplaceRefused, Oldest
    <3> QED
      BY <2>2, <3>1 DEF EmplaceRefused, Fifo!Refuse
  <2>3. ASSUME NEW read \in cachedReadCursor..readCursor, EmplaceRefresh(read)
        PROVE  UNCHANGED Fifo!vars
    <3>1. Held' = Held
      BY <2>3, HeldUnchanged DEF EmplaceRefresh, Oldest
    <3> QED
      BY <2>3, <3>1 DEF EmplaceRefresh, Fifo!vars
  <2>4. CASE EmplaceConstruct
    <3>1. UNCHANGED <<Oldest, writeCursor, pushItem, popItem>>
      BY <2>4 DEF EmplaceConstruct, Oldest
    <3>2. ASSUME NEW k \in 1..(writeCursor - Oldest)
          PROVE  buffer'[Slot(Oldest + k - 1)] = buffer[Slot(Oldest + k - 1)]
      <4>1. Oldest + k - 1 \in Nat /\ Oldest + k - 1 < writeCursor
        BY <2>h
      <4>0. writeCursor - Oldest < Capacity
        BY <2>h, <2>4 DEF EmplaceConstruct, Oldest
      <4>2. writeCursor - (Oldest + k - 1) < Capacity
        BY <2>h, <4>0
      <4>3. Slot(Oldest + k - 1) # Slot(writeCursor)
        BY <4>1, <4>2, SlotInjective
      <4> QED
        BY <2>4, <4>1, <4>3, SlotInRange DEF EmplaceConstruct
    <3>3. Held' = Held
      BY <3>1, <3>2 DEF Held, Slot
    <3> QED
      BY <3>1, <3>3 DEF Fifo!vars
  <2>5. CASE EmplacePublish
    <3>1. /\ UNCHANGED <<Oldest, buffer, popItem>>
          /\ writeCursor' = writeCursor + 1
          /\ pushItem' = NoValue
          /\ pushItem # NoValue
          /\ buffer[Slot(writeCursor)] = pushItem
          /\ writeCursor - Oldest < Capacity
      BY <2>5, <2>h DEF EmplacePublish, Oldest, Constructed
    <3>2. Held' = Append(Held, pushItem)
      <4> DEFINE n == writeCursor - Oldest
      <4>1. n \in Nat /\ Oldest + (n + 1) - 1 = writeCursor
        BY <2>h
      <4>2. Held' = [k \in 1..(n + 1) |-> buffer[Slot(Oldest + k - 1)]]
        BY <3>1, <2>h DEF Held, Slot
      <4>3. \A k \in 1..(n + 1) :
               buffer[Slot(Oldest + k - 1)] \in Values \cup {NoValue}
        <5> TAKE k \in 1..(n + 1)
        <5>1. Oldest + k - 1 \in Nat
          BY <4>1, <2>h
        <5> QED
          BY <5>1, SlotInRange
      <4>4. Held' \in Seq(Values \cup {NoValue}) /\ Len(Held') = n + 1
        BY <4>1, <4>2, <4>3
      <4>5. \A k \in 1..n : Held'[k] = Held[k]
        <5> TAKE k \in 1..n
        <5>1. k \in 1..(n + 1)
          BY <4>1
        <5> QED
          BY <5>1, <4>2 DEF Held
      <4>6. Held'[n + 1] = pushItem
        BY <3>1, <4>1, <4>2
      <4> QED
        BY <4>1, <4>4, <4>5, <4>6, <2>h, IsAppend
    <3> QED
      BY <3>1, <3>2, <2>h DEF Fifo!Next, Fifo!Accept
  <2>6. CASE PopBegin
    <3>1. Held' = Held
      BY <2>6, HeldUnchanged DEF PopBegin, Oldest
    <3> QED
      BY <2>6, <3>1 DEF PopBegin, Fifo!vars
  <2>7. ASSUME NEW write \in cachedWriteCursor..writeCursor,
               PopRefused(write) \/ PopRefresh(write)
        PROVE  UNCHANGED Fifo!vars
    <3>1. Held' = Held
      BY <2>7, HeldUnchanged DEF PopRefused, PopRefresh, Oldest
    <3> QED
      BY <2>7, <3>1 DEF PopRefused, PopRefresh, Fifo!vars
  <2>8. CASE PopTake
    <3>1. /\ UNCHANGED <<buffer, writeCursor, pushItem>>
          /\ Oldest = readCursor
          /\ Oldest' = Oldest + 1
          /\ popItem' = buffer[Slot(Oldest)]
          /\ Oldest < writeCursor
      BY <2>8 DEF PopTake, Oldest, CursorsApart, LooksEmpty
    <3>2. Held # <<>> /\ popItem' = Head(Held)
      BY <2>h, <3>1 DEF Held
    <3>3. Held' = Tail(Held)
      <4> DEFINE n == writeCursor - Oldest
      <4>1. n \in Nat \ {0}
        BY <2>h, <3>1
      <4>2. Held' = [k \in 1..(n - 1) |-> buffer[Slot((Oldest + 1) + k - 1)]]
        BY <3>1, <2>h DEF Held, Slot
      <4>4. \A k \in 1..(n - 1) : Held'[k] = Held[k + 1]
        <5> TAKE k \in 1..(n - 1)
        <5>1. k + 1 \in 1..n
          BY <4>1
        <5>2. Oldest + (k + 1) - 1 = (Oldest + 1) + k - 1
          BY <4>1, <2>h
        <5> QED
          BY <5>1, <5>2, <4>2 DEF Held
      <4>5. \A k \in 1..(n - 1) :
               buffer[Slot((Oldest + 1) + k - 1)] \in Values \cup {NoValue}
        <5> TAKE k \in 1..(n - 1)
        <5>1. (Oldest + 1) + k - 1 \in Nat
          BY <4>1, <2>h
        <5> QED
          BY <5>1, SlotInRange
      <4>6. Held' \in Seq(Values \cup {NoValue}) /\ Len(Held') = n - 1
        <5>1. n - 1 \in Nat
          BY <4>1
        <5>2. Held' \in [1..(n - 1) -> Values \cup {NoValue}]
          BY <4>2, <4>5
        <5> HIDE DEF n
        <5> QED
          BY <5>1, <5>2
      <4> QED
        BY <4>1, <4>4, <4>6, <3>2, <2>h, IsTail
    <3> QED
      BY <3>1, <3>2, <3>3 DEF Fifo!Next, Fifo!Take
  <2>9. CASE PopAdvance
    <3>1. UNCHANGED <<Oldest, buffer, writeCursor, pushItem, popItem>>
      BY <2>9 DEF PopAdvance, Oldest
    <3> QED
      BY <3>1, HeldUnchanged DEF Fifo!vars
  <2>10. CASE UNCHANGED vars
    <3>1. UNCHANGED <<Oldest, buffer, writeCursor, pushItem, popItem>>
      BY <2>10 DEF vars, Oldest
    <3> QED
      BY <3>1, HeldUnchanged DEF Fifo!vars
  <2> QED
    BY <2>1, <2>2, <2>3, <2>4, <2>5, <2>6, <2>7, <2>8, <2>9, <2>10
    DEF Next, Push, Pop, Fifo!Next
<1> QED
  BY <1>1, <1>2, TypeCorrect, CursorsCorrect, ConstructedCorrect, PTL
  DEF Spec, ImplementsFifo, Fifo!Spec, IInv, CursorInv
=============================================================================
