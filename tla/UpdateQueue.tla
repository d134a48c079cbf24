---------------------------- MODULE UpdateQueue ----------------------------
(***************************************************************************)
(* perf_tests::Queue of pools/main.cpp: a mutex, a condition variable, a   *)
(* deque without a limit and a closed flag.  A critical section is one     *)
(* step, since no thread blocks inside one; a notification is a step of    *)
(* its own, since push and close notify after they have unlocked.  pop     *)
(* blocks by joining the waiters in the step that finds the predicate      *)
(* false; a waiter leaves when it is notified or for no reason at all, and *)
(* evaluates the predicate again under the mutex.                          *)
(***************************************************************************)
EXTENDS Naturals, Sequences

VARIABLES
  items,    \* the deque, front first
  closed,   \* no more items will come
  waiters   \* threads blocked in condition.wait

queueVars == <<items, closed, waiters>>

QueueInit == items = <<>> /\ closed = FALSE /\ waiters = {}

Push(item) ==
  /\ items' = Append(items, item)
  /\ UNCHANGED <<closed, waiters>>

\* The second half of push.
NotifyOne ==
  /\ IF waiters = {} THEN UNCHANGED waiters
                     ELSE \E t \in waiters : waiters' = waiters \ {t}
  /\ UNCHANGED <<items, closed>>

CloseQueue ==
  /\ closed' = TRUE
  /\ UNCHANGED <<items, waiters>>

\* The second half of close.
NotifyAll ==
  /\ waiters' = {}
  /\ UNCHANGED <<items, closed>>

\* The wait's predicate.
MayPop == items # <<>> \/ closed

PopBlocks(t) ==
  /\ t \notin waiters
  /\ ~MayPop
  /\ waiters' = waiters \cup {t}
  /\ UNCHANGED <<items, closed>>

SpuriousWakeup(t) ==
  /\ t \in waiters
  /\ waiters' = waiters \ {t}
  /\ UNCHANGED <<items, closed>>

\* pop returns true; the caller reads Head(items) in the same step.
PopFront(t) ==
  /\ t \notin waiters
  /\ items # <<>>
  /\ items' = Tail(items)
  /\ UNCHANGED <<closed, waiters>>

\* pop returns false.
PopFinds(t) ==
  /\ t \notin waiters
  /\ items = <<>> /\ closed
  /\ UNCHANGED queueVars

QueueTypeOK(Items, Threads) ==
  /\ items \in Seq(Items)
  /\ closed \in BOOLEAN
  /\ waiters \subseteq Threads
=============================================================================
