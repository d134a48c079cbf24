------------------------------ MODULE Baseline ------------------------------
(***************************************************************************)
(* runBaseline of pools/main.cpp: the feed thread pushes the messages      *)
(* 1..MessageCount on the queue by value, the main thread pops and         *)
(* consumes them.  The benchmark compares the pools with it: a pool is to  *)
(* deliver the same messages in the same order, and so to print the same   *)
(* checksum, which depends on nothing else.  ScspPool implements it.       *)
(***************************************************************************)
EXTENDS Naturals, Sequences

CONSTANT MessageCount

VARIABLES
  sequence,           \* the feed thread's loop variable
  queue,              \* the messages pushed and not popped
  closed,             \* the queue's flag
  update,             \* the message the main thread has popped, 0 when consumed
  messagesProcessed,
  ended               \* pop has returned false

vars == <<sequence, queue, closed, update, messagesProcessed, ended>>

Init ==
  /\ sequence = 1
  /\ queue = <<>> /\ closed = FALSE
  /\ update = 0 /\ messagesProcessed = 0 /\ ended = FALSE

Push ==
  /\ sequence <= MessageCount
  /\ queue' = Append(queue, sequence)
  /\ sequence' = sequence + 1
  /\ UNCHANGED <<closed, update, messagesProcessed, ended>>

Close ==
  /\ sequence > MessageCount
  /\ closed' = TRUE
  /\ UNCHANGED <<sequence, queue, update, messagesProcessed, ended>>

Pop ==
  /\ update = 0 /\ ~ended
  /\ queue # <<>>
  /\ update' = Head(queue)
  /\ queue' = Tail(queue)
  /\ UNCHANGED <<sequence, closed, messagesProcessed, ended>>

Consume ==
  /\ update # 0
  /\ update' = 0
  /\ messagesProcessed' = messagesProcessed + 1
  /\ UNCHANGED <<sequence, queue, closed, ended>>

PopEnds ==
  /\ update = 0
  /\ queue = <<>> /\ closed
  /\ ended' = TRUE
  /\ UNCHANGED <<sequence, queue, closed, update, messagesProcessed>>

Next == Push \/ Close \/ Pop \/ Consume \/ PopEnds

Spec == Init /\ [][Next]_vars
=============================================================================
