----------------------------- MODULE QueueList -----------------------------
(***************************************************************************)
(* list.c: the queue of work orders of the thread pool.  Nodes live on two *)
(* linked lists that share the prev field: the work list, from tail (the   *)
(* oldest order) to head (the newest), and the free list, from freeTail to *)
(* freeHead.  Following prev from a tail leads to the head, whose prev     *)
(* ought to be NULL.  The next field is written and never read, so it is   *)
(* left out, and the four fields of an order are one value of Order.       *)
(* Nodes are numbered in the order of their allocation: makeQueue          *)
(* allocates 0..InitCap and each later allocation is node capacity + 1.    *)
(*                                                                         *)
(* A definition whose comment starts with "Slip:" is no part of the model: *)
(* it is the one after it with a plausible mistake, kept to show that the  *)
(* properties notice.                                                      *)
(***************************************************************************)
EXTENDS Integers

CONSTANTS
  Order,       \* the work orders: function, argument and cleanup handler
  Unset,       \* the content of a node that no order has been written to
  InitialCap,  \* the argument of makeQueue
  MaxCap       \* max_cap: how many nodes fit MAX_QUEUE_MEMORY_SIZE

ASSUME ListAssumption ==
  /\ InitialCap \in Nat \ {0}
  /\ MaxCap \in Nat \ {0}
  /\ Unset \notin Order

VARIABLES head, tail, freeHead, freeTail, capacity, prev, order, got

listVars == <<head, tail, freeHead, freeTail, capacity, prev, order, got>>

NULL == -1
Node == 0 .. MaxCap + 1     \* every node the queue can ever own
InitCap == IF InitialCap > MaxCap THEN MaxCap ELSE InitialCap

\* makeQueue: node 0 is freeTail, each further node is put before freeHead.
MakeQueue ==
  /\ head = NULL /\ tail = NULL
  /\ freeTail = 0 /\ freeHead = InitCap
  /\ capacity = InitCap
  /\ prev = [n \in Node |-> IF n < InitCap THEN n + 1 ELSE NULL]
  /\ order = [n \in Node |-> Unset]
  /\ got = Unset

\* Slip: one more node than there is room for.
CanAcceptWorkOffByOne == freeTail # NULL \/ capacity <= MaxCap + 1
CanAcceptWork == freeTail # NULL \/ capacity <= MaxCap
IsJobAvailable == tail # NULL

\* The node addWorkOrder writes to, allocated first if none is free, and
\* what it makes the next freeTail: whatever prev of that node says.
Grow == freeTail = NULL
NewNode == IF Grow THEN capacity + 1 ELSE freeTail
NextFree == IF Grow THEN NULL ELSE prev[freeTail]

\* Slip: temp->prev = NULL is forgotten.
NotDetached == prev
\* The prev fields once temp->prev = NULL is done.
Detached == [prev EXCEPT ![NewNode] = NULL]

\* addWorkOrder: the node becomes the head of the work list.
AddWorkOrder(o) ==
  /\ capacity' = IF Grow THEN capacity + 1 ELSE capacity
  /\ freeTail' = NextFree
  /\ freeHead' = IF NextFree = NULL THEN NULL ELSE freeHead
  /\ order' = [order EXCEPT ![NewNode] = o]
  /\ prev' = IF head = NULL THEN Detached
             ELSE [Detached EXCEPT ![head] = NewNode]
  /\ tail' = IF head = NULL THEN NewNode ELSE tail
  /\ head' = NewNode
  /\ UNCHANGED got

\* Slip: the newest order is read.
NewestOrder == order[head]
\* The order getWorkOrder copies out.
OldestOrder == order[tail]

\* getWorkOrder: take the order at tail and put its node before freeHead.
\* The prev of that node is cleared only if the free list was empty.
GetWorkOrder ==
  /\ tail' = prev[tail]
  /\ head' = IF prev[tail] = NULL THEN NULL ELSE head
  /\ got' = OldestOrder
  /\ freeHead' = tail
  /\ freeTail' = IF freeHead = NULL THEN tail ELSE freeTail
  /\ prev' = IF freeHead = NULL THEN [prev EXCEPT ![tail] = NULL]
             ELSE [prev EXCEPT ![freeHead] = tail]
  /\ UNCHANGED <<capacity, order>>
-----------------------------------------------------------------------------
(* The list alone, called in any legal order: an order is added only after *)
(* canAcceptWork and taken only after isJobAvailable.                      *)

Take == IsJobAvailable /\ GetWorkOrder

Next ==
  \/ Take
  \/ \E o \in Order : CanAcceptWork /\ AddWorkOrder(o)

Spec == MakeQueue /\ [][Next]_listVars

Allocated == 0 .. capacity
Pointer == Allocated \cup {NULL}

\* Types.  Even where the lists are wrong, the pointers never leave the
\* nodes allocated so far, and the two ends of a list are NULL together.
ListTypeOK ==
  /\ capacity \in InitCap .. MaxCap + 1
  /\ {head, tail, freeHead, freeTail} \subseteq Pointer
  /\ prev \in [Node -> Node \cup {NULL}]
  /\ \A n \in Allocated : prev[n] \in Pointer
  /\ order \in [Node -> Order \cup {Unset}]
  /\ got \in Order \cup {Unset}
  /\ (head = NULL) <=> (tail = NULL)
  /\ (freeHead = NULL) <=> (freeTail = NULL)

\* getWorkOrder never hands a worker the uninitialised function pointer of
\* a node no order was written to: every node that prev links to from the
\* work list, even by mistake, has held an order.
NoGarbageOrder == tail # NULL => order[tail] # Unset
=============================================================================
