---------------------------- MODULE BoundedFifo ----------------------------
(***************************************************************************)
(* What a single-producer single-consumer ring promises its two callers:   *)
(* a first-in first-out queue of at most Capacity items.  One side submits *)
(* an item and learns whether it went in; the other side takes the oldest. *)
(* A submission may be refused in any state: the producer judges by its    *)
(* last view of the consumer, which may be old, and the promise is only    *)
(* that a refused item is not in the queue and an accepted one is, once.   *)
(***************************************************************************)
EXTENDS Naturals, Sequences

CONSTANTS Capacity, Values, NoValue

VARIABLES items,      \* the queue's contents, oldest first
          submitted,  \* the item the producer is offering, or NoValue
          taken       \* the item the consumer took last, or NoValue

vars == <<items, submitted, taken>>

Init == items = <<>> /\ submitted = NoValue /\ taken = NoValue

Submit(v) ==
  /\ submitted = NoValue
  /\ submitted' = v
  /\ UNCHANGED <<items, taken>>

Accept ==
  /\ submitted # NoValue
  /\ Len(items) < Capacity
  /\ items' = Append(items, submitted)
  /\ submitted' = NoValue
  /\ UNCHANGED taken

Refuse ==
  /\ submitted # NoValue
  /\ submitted' = NoValue
  /\ UNCHANGED <<items, taken>>

Take ==
  /\ items # <<>>
  /\ taken' = Head(items)
  /\ items' = Tail(items)
  /\ UNCHANGED submitted

Next == (\E v \in Values : Submit(v)) \/ Accept \/ Refuse \/ Take

Spec == Init /\ [][Next]_vars
=============================================================================
