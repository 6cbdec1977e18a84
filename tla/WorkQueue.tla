----------------------------- MODULE WorkQueue -----------------------------
(***************************************************************************)
(* What the work-order queue promises the thread pool: a first-in          *)
(* first-out queue that never holds more orders than it may own nodes.     *)
(* capacity is the counter of list.c: the queue owns capacity + 1 nodes,   *)
(* allocates another one when all of them hold orders, and does so while   *)
(* capacity <= MaxCap.  QueueList is the code; this is its contract.       *)
(***************************************************************************)
EXTENDS Naturals, Sequences

CONSTANTS
  InitialCap,  \* the argument of makeQueue: the number of threads in the pool
  MaxCap       \* max_capacity: MAX_QUEUE_MEMORY_SIZE / sizeof(queueNode)

ASSUME QueueAssumption == InitialCap \in Nat \ {0} /\ MaxCap \in Nat \ {0}

VARIABLES orders, capacity

InitCap == IF InitialCap > MaxCap THEN MaxCap ELSE InitialCap

MakeQueue == orders = <<>> /\ capacity = InitCap

HasFreeNode == Len(orders) < capacity + 1
CanAcceptWork == HasFreeNode \/ capacity <= MaxCap
IsJobAvailable == orders # <<>>

\* The orders that can still be added before canAcceptWork fails.
Room == (MaxCap + 2) - Len(orders)

AddWorkOrder(o) ==
  /\ orders' = Append(orders, o)
  /\ capacity' = IF HasFreeNode THEN capacity ELSE capacity + 1

GetWorkOrder ==
  /\ orders' = Tail(orders)
  /\ UNCHANGED capacity
=============================================================================
