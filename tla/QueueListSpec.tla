--------------------------- MODULE QueueListSpec ---------------------------
(***************************************************************************)
(* The queue of list.c with the history of what it was asked to do.        *)
(* Backlog bounds how many orders the callers let pile up; it is the only  *)
(* limit on them.                                                          *)
(*                                                                         *)
(* work and free are history variables: the nodes that would be on the two *)
(* lists if each were the queue it is meant to be, from tail to head.      *)
(* Nothing in the code's own state depends on them.                        *)
(***************************************************************************)
EXTENDS QueueList, Sequences

CONSTANT Backlog

ASSUME BacklogAssumption == Backlog \in Nat

VARIABLES work, free

queueVars == <<listVars, work, free>>

QInit ==
  /\ MakeQueue
  /\ work = <<>>
  /\ free = [i \in 1 .. InitCap + 1 |-> i - 1]

QPost(o) ==
  /\ CanAcceptWork
  /\ Len(work) < Backlog
  /\ AddWorkOrder(o)
  /\ work' = Append(work, head')
  /\ free' = IF free = <<>> THEN free ELSE Tail(free)

QTake ==
  /\ Take
  /\ work' = IF work = <<>> THEN work ELSE Tail(work)
  /\ free' = Append(free, tail)

QNext == QTake \/ \E o \in Order : QPost(o)

QSpec == QInit /\ [][QNext]_queueVars

\* A bound for TLC.  It cuts nothing while the lists are intact.
HistoryBound == Len(free) <= MaxCap + 2

\* Types, of the list and of the two histories.
TypeOK == ListTypeOK /\ work \in Seq(Node) /\ free \in Seq(Node)

-----------------------------------------------------------------------------
(* The lists as queues.                                                    *)

\* prev leads from first through the nodes of s, in their order, to last.
Linked(first, last, s) ==
  /\ first = IF s = <<>> THEN NULL ELSE s[1]
  /\ last = IF s = <<>> THEN NULL ELSE s[Len(s)]
  /\ \A i \in 1 .. Len(s) - 1 : prev[s[i]] = s[i + 1]

Distinct(s) == \A i, j \in 1 .. Len(s) : s[i] = s[j] => i = j

\* Every node the queue owns is on exactly one list, once.
Partition ==
  /\ Distinct(work) /\ Distinct(free)
  /\ \A i \in 1 .. Len(work), j \in 1 .. Len(free) : work[i] # free[j]
  /\ \A i \in 1 .. Len(work) : work[i] \in Allocated
  /\ \A i \in 1 .. Len(free) : free[i] \in Allocated
  /\ Len(work) + Len(free) = capacity + 1

\* Both lists are intact: the pointers of list.c describe the two queues
\* they are meant to be, and the work list ends in NULL.  The last node of
\* the free list is not required to: getWorkOrder leaves its prev alone.
ListsIntact ==
  /\ Linked(tail, head, work)
  /\ Linked(freeTail, freeHead, free)
  /\ work # <<>> => prev[head] = NULL
  /\ Partition

\* The free list is down to one node, and that node's prev still names the
\* order that was behind it on the work list.
StaleEnd == Len(free) = 1 /\ prev[freeHead] # NULL

\* Adding an order while the free list has a stale end is the one step that
\* can break the lists: from intact lists every other step, growth included,
\* leads to intact lists again.
OnlyStaleEndBreaks ==
  [][ListsIntact /\ (StaleEnd => QTake) => ListsIntact']_queueVars

\* The contract, of the orders posted and not yet taken, oldest first.
Pending == [i \in 1 .. Len(work) |-> order[work[i]]]

Contract == INSTANCE WorkQueueSpec WITH orders <- Pending
ContractSpec == Contract!Spec
=============================================================================
