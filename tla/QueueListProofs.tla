-------------------------- MODULE QueueListProofs --------------------------
(***************************************************************************)
(* Proofs about the queue of list.c, for every capacity, every set of      *)
(* orders and every backlog.                                               *)
(***************************************************************************)
EXTENDS QueueListSpec, SequenceTheorems, TLAPS

USE DEF NULL

\* What every proof needs to know of the constants.
LEMMA Constants ==
  /\ InitCap \in Nat \ {0} /\ InitCap <= MaxCap /\ MaxCap \in Nat
  /\ Unset \notin Order
  BY ListAssumption DEF InitCap

LEMMA MakeQueueTyped == MakeQueue => ListTypeOK
  BY Constants DEF MakeQueue, ListTypeOK, Allocated, Pointer, Node

LEMMA AddTyped ==
  ASSUME NEW o \in Order, ListTypeOK, CanAcceptWork, AddWorkOrder(o)
  PROVE  ListTypeOK'
<1> USE Constants DEF ListTypeOK, Allocated, Pointer, Node
<1>1. /\ capacity \in Nat /\ capacity' \in InitCap .. MaxCap + 1
      /\ capacity <= capacity'
  BY DEF AddWorkOrder, CanAcceptWork, Grow
<1>2. NewNode \in 0 .. capacity' /\ NewNode \in Node /\ NewNode # NULL
  <2>1. CASE Grow
    BY <1>1, <2>1 DEF AddWorkOrder, NewNode
  <2>2. CASE ~Grow
    <3>1. freeTail \in 0 .. capacity
      BY <2>2 DEF Grow
    <3>. QED
      BY <1>1, <2>2, <3>1 DEF AddWorkOrder, NewNode
  <2>. QED
    BY <2>1, <2>2
<1>3. NextFree \in Pointer
  BY DEF NextFree, Grow
<1>4. /\ {head', tail', freeHead', freeTail'} \subseteq Pointer'
      /\ (head' = NULL) <=> (tail' = NULL)
      /\ (freeHead' = NULL) <=> (freeTail' = NULL)
  <2>1. head' = NewNode /\ (tail' = NewNode \/ (tail' = tail /\ head # NULL))
    BY DEF AddWorkOrder
  <2>2. freeTail' = NextFree
    BY DEF AddWorkOrder
  <2>3. CASE NextFree = NULL
    BY <1>1, <1>2, <2>1, <2>2, <2>3 DEF AddWorkOrder
  <2>4. CASE NextFree # NULL
    <3>1. freeTail # NULL
      BY <2>4 DEF NextFree, Grow
    <3>. QED
      BY <1>1, <1>2, <1>3, <2>1, <2>2, <2>4, <3>1 DEF AddWorkOrder
  <2>. QED
    BY <2>3, <2>4
<1>5. Detached \in [Node -> Node \cup {NULL}] /\ Detached[NewNode] = NULL
  BY <1>2 DEF Detached
<1>6. \A n \in Node : Detached[n] = IF n = NewNode THEN NULL ELSE prev[n]
  BY <1>2 DEF Detached
<1>7. prev' \in [Node -> Node \cup {NULL}]
  BY <1>1, <1>2, <1>5 DEF AddWorkOrder
<1>8. \A n \in Allocated' : prev'[n] \in Pointer'
  <2> SUFFICES ASSUME NEW n \in 0 .. capacity' PROVE prev'[n] \in Pointer'
    OBVIOUS
  <2>1. n \in Node
    BY <1>1
  <2>2. Detached[n] \in Pointer'
    <3>1. CASE n = NewNode
      BY <1>5, <3>1
    <3>2. CASE n # NewNode
      <4>1. n \in Allocated
        BY <1>1, <3>2 DEF AddWorkOrder, NewNode, Grow
      <4>. QED
        BY <1>1, <1>6, <2>1, <3>2, <4>1
    <3>. QED
      BY <3>1, <3>2
  <2>3. prev'[n] = Detached[n] \/ prev'[n] = NewNode
    BY <1>5, <2>1 DEF AddWorkOrder
  <2>. QED
    BY <1>2, <2>2, <2>3
<1>9. order' \in [Node -> Order \cup {Unset}] /\ got' = got
  BY <1>2 DEF AddWorkOrder
<1>. QED
  BY <1>1, <1>4, <1>7, <1>8, <1>9

LEMMA TakeTyped ==
  ASSUME ListTypeOK, Take
  PROVE  ListTypeOK'
<1> USE Constants DEF ListTypeOK, Allocated, Pointer, Node
<1>1. /\ tail \in Allocated /\ tail \in Node /\ head # NULL
      /\ prev[tail] \in Pointer /\ capacity' = capacity
  BY DEF Take, IsJobAvailable, GetWorkOrder
<1>2. /\ {head', tail', freeHead', freeTail'} \subseteq Pointer'
      /\ (head' = NULL) <=> (tail' = NULL)
      /\ (freeHead' = NULL) <=> (freeTail' = NULL)
  BY <1>1 DEF Take, GetWorkOrder
<1>3. prev' \in [Node -> Node \cup {NULL}]
  BY <1>1 DEF Take, GetWorkOrder
<1>4. \A n \in Allocated' : prev'[n] \in Pointer'
  BY <1>1 DEF Take, GetWorkOrder
<1>5. order' = order /\ got' \in Order \cup {Unset}
  BY <1>1 DEF Take, GetWorkOrder, OldestOrder
<1>. QED
  BY <1>1, <1>2, <1>3, <1>4, <1>5

\* Whatever orders are added and taken, and however the lists end up linked,
\* list.c only follows pointers to nodes it has allocated.
THEOREM ListTypes == Spec => []ListTypeOK
<1>1. MakeQueue => ListTypeOK
  BY MakeQueueTyped
<1>2. ListTypeOK /\ [Next]_listVars => ListTypeOK'
  <2> SUFFICES ASSUME ListTypeOK, [Next]_listVars PROVE ListTypeOK'
    OBVIOUS
  <2>1. CASE Take
    BY <2>1, TakeTyped
  <2>2. ASSUME NEW o \in Order, CanAcceptWork /\ AddWorkOrder(o)
        PROVE  ListTypeOK'
    BY <2>2, AddTyped
  <2>3. CASE UNCHANGED listVars
    BY <2>3 DEF listVars, ListTypeOK, Allocated, Pointer
  <2>. QED
    BY <2>1, <2>2, <2>3 DEF Next
<1>. QED
  BY <1>1, <1>2, PTL DEF Spec
-----------------------------------------------------------------------------
(* The queue with its history.                                             *)

LEMMA TypeInit == QInit => TypeOK
<1> SUFFICES ASSUME QInit PROVE TypeOK
  OBVIOUS
<1>1. ListTypeOK
  BY MakeQueueTyped DEF QInit
<1>2. free \in Seq(Node)
  <2>1. free \in [1 .. InitCap + 1 -> Node]
    BY Constants DEF QInit, Node
  <2>. QED
    BY <2>1, Constants, SeqDef
<1>. QED
  BY <1>1, <1>2 DEF TypeOK, QInit

LEMMA TypeStep == TypeOK /\ [QNext]_queueVars => TypeOK'
<1> SUFFICES ASSUME TypeOK, [QNext]_queueVars PROVE TypeOK'
  OBVIOUS
<1>1. CASE QTake
  <2>1. tail \in Node
    BY <1>1, Constants DEF QTake, Take, IsJobAvailable, TypeOK, ListTypeOK,
                           Pointer, Allocated, Node
  <2>. QED
    BY <1>1, <2>1, TakeTyped DEF QTake, TypeOK
<1>2. ASSUME NEW o \in Order, QPost(o) PROVE TypeOK'
  <2>1. ListTypeOK'
    BY <1>2, AddTyped DEF QPost, TypeOK
  <2>2. head' \in Node
    <3>1. head' \in Pointer' /\ head' # NULL
      BY <1>2, <2>1, Constants DEF QPost, AddWorkOrder, NewNode, Grow, TypeOK,
                                   ListTypeOK, Pointer, Allocated
    <3>. QED
      BY <2>1, <3>1, Constants DEF ListTypeOK, Pointer, Allocated, Node
  <2>. QED
    BY <1>2, <2>1, <2>2 DEF QPost, TypeOK
<1>3. CASE UNCHANGED queueVars
  BY <1>3 DEF queueVars, listVars, TypeOK, ListTypeOK, Allocated, Pointer
<1>. QED
  BY <1>1, <1>2, <1>3 DEF QNext

\* The same with the two histories: the nodes that the lists should hold are
\* nodes of the queue.
THEOREM QueueTypes == QSpec => []TypeOK
  BY TypeInit, TypeStep, PTL DEF QSpec

-----------------------------------------------------------------------------
(* No garbage.                                                             *)
(*                                                                         *)
(* A node that has held an order stays on a chain of such nodes: prev of   *)
(* it is cleared when the order is written, and is only ever set to the    *)
(* newest order or to a node that an order was taken from.                 *)

Written == {n \in Node : order[n] # Unset}
Chained ==
  /\ \A n \in Written : prev[n] \in Written \cup {NULL}
  /\ {head, tail} \subseteq Written \cup {NULL}

LEMMA ChainedInit == MakeQueue => Chained
  BY Constants DEF MakeQueue, Chained, Written

LEMMA ChainedStep == ListTypeOK /\ Chained /\ [Next]_listVars => Chained'
<1> SUFFICES ASSUME ListTypeOK, Chained, [Next]_listVars PROVE Chained'
  OBVIOUS
<1> USE Constants DEF ListTypeOK, Allocated, Pointer, Node
<1>1. CASE Take
  <2>1. tail \in Written /\ prev[tail] \in Written \cup {NULL}
    BY <1>1 DEF Take, IsJobAvailable, Chained
  <2>2. Written' = Written
    BY <1>1 DEF Take, GetWorkOrder, Written
  <2>3. \A n \in Node : prev'[n] \in {prev[n], tail, NULL}
    BY <1>1, <2>1 DEF Take, GetWorkOrder
  <2>4. (tail' = prev[tail]) /\ (head' = NULL \/ head' = head)
    BY <1>1 DEF Take, GetWorkOrder
  <2>5. \A n \in Written' : prev'[n] \in (Written \cup {NULL})'
    BY <2>1, <2>2, <2>3 DEF Chained, Written
  <2>. QED
    BY <2>1, <2>2, <2>4, <2>5 DEF Chained, Written
<1>2. ASSUME NEW o \in Order, CanAcceptWork, AddWorkOrder(o)
      PROVE  Chained'
  <2>1. NewNode \in Node /\ NewNode # NULL
    <3>1. capacity \in Nat /\ freeTail \in 0 .. capacity \cup {NULL}
          /\ capacity <= MaxCap + 1
      OBVIOUS
    <3>2. CASE Grow
      BY <1>2, <3>1, <3>2 DEF CanAcceptWork, NewNode, Grow, NULL
    <3>3. CASE ~Grow
      BY <3>1, <3>3 DEF NewNode, Grow
    <3>. QED
      BY <3>2, <3>3
  <2>2. Written' = Written \cup {NewNode}
    BY <1>2, <2>1 DEF AddWorkOrder, Written
  <2>3. \A n \in Node :
          prev'[n] = NewNode \/ prev'[n] = IF n = NewNode THEN NULL ELSE prev[n]
    BY <1>2, <2>1 DEF AddWorkOrder, Detached
  <2>4. head' = NewNode /\ tail' \in {NewNode, tail}
    BY <1>2 DEF AddWorkOrder
  <2>5. \A n \in Written' : prev'[n] \in (Written \cup {NULL})'
    BY <2>2, <2>3 DEF Chained, Written
  <2>. QED
    BY <2>1, <2>2, <2>4, <2>5 DEF Chained, Written
<1>3. CASE UNCHANGED listVars
  BY <1>3 DEF listVars, Chained, Written
<1>. QED
  BY <1>1, <1>2, <1>3 DEF Next

\* Even after a stale end has tangled the lists, what getWorkOrder hands to a
\* worker has been posted: it is never the uninitialised content of a node.
THEOREM OnlyPostedOrders == QSpec => []NoGarbageOrder
<1>1. QInit => Chained
  BY ChainedInit DEF QInit
<1>2. TypeOK /\ Chained /\ [QNext]_queueVars => Chained'
  <2>1. [QNext]_queueVars => [Next]_listVars
    BY DEF QNext, QTake, QPost, Next, queueVars
  <2>. QED
    BY <2>1, ChainedStep DEF TypeOK
<1>3. Chained => NoGarbageOrder
  BY DEF Chained, Written, NoGarbageOrder
<1>. QED
  BY <1>1, <1>2, <1>3, QueueTypes, PTL DEF QSpec

-----------------------------------------------------------------------------
(* The lists as queues.                                                    *)

LEMMA IntactInit == QInit => ListsIntact
<1> SUFFICES ASSUME QInit PROVE ListsIntact
  OBVIOUS
<1> USE Constants DEF QInit, MakeQueue
<1>1. Linked(tail, head, work)
  BY DEF Linked
<1>2. /\ Len(free) = InitCap + 1
      /\ \A i \in 1 .. Len(free) : free[i] = i - 1
  OBVIOUS
<1>3. Linked(freeTail, freeHead, free)
  BY <1>2 DEF Linked, Node
<1>4. Partition
  BY <1>2 DEF Partition, Distinct, Allocated
<1>. QED
  BY <1>1, <1>3, <1>4 DEF ListsIntact

\* A node leaves the tail of the work list and joins the head of the free
\* list: both stay intact.
LEMMA TakeIntact ==
  ASSUME TypeOK, ListsIntact, QTake
  PROVE  ListsIntact'
<1> USE DEF TypeOK, Partition, Distinct
<1>1. /\ work \in Seq(Node) /\ free \in Seq(Node) /\ work # <<>>
      /\ tail = work[1] /\ tail \in Node /\ head = work[Len(work)]
  BY DEF ListsIntact, Linked, QTake, Take, IsJobAvailable
<1>2. /\ work' = Tail(work) /\ Len(work') = Len(work) - 1
      /\ \A i \in 1 .. Len(work') : work'[i] = work[i + 1]
  BY <1>1 DEF QTake
<1>3. /\ free' = Append(free, tail) /\ Len(free') = Len(free) + 1
      /\ \A i \in 1 .. Len(free) : free'[i] = free[i]
      /\ free'[Len(free) + 1] = tail
  BY <1>1 DEF QTake
<1>4. /\ \A i \in 1 .. Len(work) - 1 : prev[work[i]] = work[i + 1]
      /\ \A i \in 1 .. Len(free) - 1 : prev[free[i]] = free[i + 1]
      /\ freeTail = IF free = <<>> THEN NULL ELSE free[1]
      /\ freeHead = IF free = <<>> THEN NULL ELSE free[Len(free)]
      /\ prev[head] = NULL
  BY <1>1 DEF ListsIntact, Linked
<1>5. prev \in [Node -> Node \cup {NULL}] /\ NULL \notin Node
  BY Constants DEF ListTypeOK, Node
<1>6. prev[tail] = IF Len(work) = 1 THEN NULL ELSE work[2]
  <2>1. CASE Len(work) = 1
    BY <1>1, <1>4, <2>1
  <2>2. CASE Len(work) # 1
    <3>1. 1 \in 1 .. Len(work) - 1
      BY <1>1, <2>2
    <3>. QED
      BY <1>1, <1>4, <2>2, <3>1
  <2>. QED
    BY <2>1, <2>2
<1>7. \A i \in 1 .. Len(work') : prev'[work'[i]] = prev[work'[i]]
  <2> SUFFICES ASSUME NEW i \in 1 .. Len(work')
               PROVE  prev'[work'[i]] = prev[work'[i]]
    OBVIOUS
  <2>1. i + 1 \in 1 .. Len(work) /\ work'[i] = work[i + 1] /\ work'[i] \in Node
    BY <1>1, <1>2
  <2>2. work'[i] # tail
    BY <1>1, <2>1 DEF ListsIntact
  <2>3. free # <<>> => work'[i] # freeHead
    BY <1>1, <1>4, <2>1 DEF ListsIntact
  <2>. QED
    BY <1>1, <1>4, <1>5, <2>1, <2>2, <2>3 DEF QTake, Take, GetWorkOrder
<1>8. Linked(tail, head, work)'
  <2>1. /\ tail' = IF work' = <<>> THEN NULL ELSE work'[1]
        /\ head' = IF work' = <<>> THEN NULL ELSE work'[Len(work')]
    BY <1>1, <1>2, <1>5, <1>6, SMTT(30) DEF QTake, Take, GetWorkOrder
  <2>2. \A i \in 1 .. Len(work') - 1 : prev'[work'[i]] = work'[i + 1]
    BY <1>1, <1>2, <1>4, <1>7
  <2>. QED
    BY <2>1, <2>2 DEF Linked
<1>9. work' # <<>> => prev'[head'] = NULL
  <2>1. work' # <<>> => /\ Len(work') \in 1 .. Len(work')
                        /\ work'[Len(work')] = head /\ head' = head
    BY <1>1, <1>2, <1>5, <1>6 DEF QTake, Take, GetWorkOrder
  <2>. QED
    BY <1>4, <1>7, <2>1
<1>10. Linked(freeTail, freeHead, free)'
  <2>1. /\ freeTail' = IF free' = <<>> THEN NULL ELSE free'[1]
        /\ freeHead' = IF free' = <<>> THEN NULL ELSE free'[Len(free')]
    BY <1>1, <1>3, <1>4, <1>5 DEF QTake, Take, GetWorkOrder
  <2>2. ASSUME NEW i \in 1 .. Len(free') - 1
        PROVE  prev'[free'[i]] = free'[i + 1]
    <3>1. i \in 1 .. Len(free) /\ free # <<>> /\ free'[i] = free[i]
      BY <1>1, <1>3, <2>2
    <3>2. freeHead = free[Len(free)] /\ freeHead \in Node
      BY <1>1, <1>4, <3>1
    <3>3. prev' = [prev EXCEPT ![freeHead] = tail]
      BY <1>5, <3>2 DEF QTake, Take, GetWorkOrder
    <3>4. CASE i = Len(free)
      BY <1>3, <1>5, <3>1, <3>2, <3>3, <3>4
    <3>5. CASE i # Len(free)
      <4>1. i \in 1 .. Len(free) - 1 /\ i + 1 \in 1 .. Len(free)
        BY <1>1, <3>1, <3>5
      <4>2. free[i] # freeHead /\ free[i] \in Node
        BY <1>1, <3>1, <3>2, <3>5 DEF ListsIntact
      <4>. QED
        BY <1>3, <1>4, <1>5, <3>1, <3>2, <3>3, <4>1, <4>2
    <3>. QED
      BY <3>4, <3>5
  <2>. QED
    BY <2>1, <2>2 DEF Linked
<1>11. Partition'
  <2>1. capacity' = capacity
    BY DEF QTake, Take, GetWorkOrder
  <2>. QED
    BY <1>1, <1>2, <1>3, <2>1 DEF ListsIntact, Allocated
<1>. QED
  BY <1>8, <1>9, <1>10, <1>11 DEF ListsIntact

\* A node leaves the tail of the free list, or is allocated, and becomes the
\* head of the work list: both stay intact unless the free list had a stale
\* end.
LEMMA PostIntact ==
  ASSUME TypeOK, ListsIntact, ~StaleEnd, NEW o \in Order, QPost(o)
  PROVE  ListsIntact'
<1> USE DEF TypeOK, Partition, Distinct
<1>1. /\ work \in Seq(Node) /\ free \in Seq(Node)
      /\ \A i \in 1 .. Len(work) - 1 : prev[work[i]] = work[i + 1]
      /\ \A i \in 1 .. Len(free) - 1 : prev[free[i]] = free[i + 1]
      /\ tail = IF work = <<>> THEN NULL ELSE work[1]
      /\ head = IF work = <<>> THEN NULL ELSE work[Len(work)]
      /\ freeTail = IF free = <<>> THEN NULL ELSE free[1]
      /\ freeHead = IF free = <<>> THEN NULL ELSE free[Len(free)]
      /\ work # <<>> => prev[head] = NULL
  BY DEF ListsIntact, Linked
<1>0. /\ Len(work) \in Nat /\ (work = <<>> <=> Len(work) = 0)
      /\ Len(free) \in Nat /\ (free = <<>> <=> Len(free) = 0)
      /\ Len(work) + Len(free) = capacity + 1
  BY <1>1, LenProperties, EmptySeq DEF ListsIntact
<1>2. prev \in [Node -> Node \cup {NULL}] /\ NULL \notin Node
  BY Constants DEF ListTypeOK, Node
<1>3. capacity \in Nat /\ capacity' \in Nat
      /\ capacity' = IF free = <<>> THEN capacity + 1 ELSE capacity
  BY <1>1, <1>2, Constants DEF ListTypeOK, QPost, AddWorkOrder, Grow
<1>4. NewNode = IF free = <<>> THEN capacity + 1 ELSE free[1]
  BY <1>1, <1>2 DEF NewNode, Grow
<1>5. NewNode \in Node /\ NewNode \in 0 .. capacity'
  <2>1. CASE free = <<>>
    BY <1>3, <1>4, <2>1, Constants DEF ListTypeOK, QPost, CanAcceptWork, Node,
       ListsIntact, Linked
  <2>2. CASE free # <<>>
    BY <1>1, <1>3, <1>4, <2>2 DEF ListsIntact, Allocated
  <2>. QED
    BY <2>1, <2>2
<1>6. \A i \in 1 .. Len(work) : work[i] # NewNode
  <2>1. CASE free = <<>>
    BY <1>1, <1>3, <1>4, <2>1 DEF ListsIntact, Allocated
  <2>2. CASE free # <<>>
    BY <1>1, <1>4, <2>2 DEF ListsIntact
  <2>. QED
    BY <2>1, <2>2
<1>7. /\ head' = NewNode /\ work' = Append(work, NewNode)
      /\ Len(work') = Len(work) + 1
      /\ \A i \in 1 .. Len(work) : work'[i] = work[i]
      /\ work'[Len(work) + 1] = NewNode
  <2>1. head' = NewNode
    BY DEF QPost, AddWorkOrder
  <2>. QED
    BY <1>1, <1>5, <2>1 DEF QPost
<1>8. /\ Len(free') = IF free = <<>> THEN 0 ELSE Len(free) - 1
      /\ free' = IF free = <<>> THEN <<>> ELSE Tail(free)
      /\ \A i \in 1 .. Len(free') : free'[i] = free[i + 1]
  BY <1>1 DEF QPost
<1>9. Detached \in [Node -> Node \cup {NULL}] /\ Detached[NewNode] = NULL
      /\ \A n \in Node : n # NewNode => Detached[n] = prev[n]
  BY <1>2, <1>5 DEF Detached
<1>10. prev' = IF work = <<>> THEN Detached
               ELSE [Detached EXCEPT ![head] = NewNode]
  <2>1. (head = NULL) <=> (work = <<>>)
    BY <1>1, <1>2
  <2>. QED
    BY <2>1 DEF QPost, AddWorkOrder
<1>11. Linked(tail, head, work)'
  <2>1. /\ tail' = IF work' = <<>> THEN NULL ELSE work'[1]
        /\ head' = IF work' = <<>> THEN NULL ELSE work'[Len(work')]
    BY <1>1, <1>2, <1>7 DEF QPost, AddWorkOrder
  <2>2. ASSUME NEW i \in 1 .. Len(work') - 1
        PROVE  prev'[work'[i]] = work'[i + 1]
    <3>1. i \in 1 .. Len(work) /\ work'[i] = work[i] /\ work # <<>>
          /\ work[i] \in Node /\ work[i] # NewNode
      BY <1>1, <1>6, <1>7, <2>2
    <3>2. head = work[Len(work)] /\ head \in Node
      BY <1>1, <3>1
    <3>3. CASE i = Len(work)
      BY <1>7, <1>9, <1>10, <3>1, <3>2, <3>3
    <3>4. CASE i # Len(work)
      <4>1. i \in 1 .. Len(work) - 1 /\ work[i] # head
            /\ work'[i + 1] = work[i + 1]
        BY <1>1, <1>7, <3>1, <3>2, <3>4 DEF ListsIntact
      <4>. QED
        BY <1>1, <1>9, <1>10, <3>1, <3>2, <4>1
    <3>. QED
      BY <3>3, <3>4
  <2>. QED
    BY <2>1, <2>2 DEF Linked
<1>12. prev'[head'] = NULL
  <2>1. CASE work = <<>>
    BY <1>7, <1>9, <1>10, <2>1
  <2>2. CASE work # <<>>
    <3>1. head \in Node /\ head # NewNode
      BY <1>1, <1>6, <2>2
    <3>. QED
      BY <1>5, <1>7, <1>9, <1>10, <2>2, <3>1
  <2>. QED
    BY <2>1, <2>2
<1>13. \A i \in 1 .. Len(free') : prev'[free'[i]] = prev[free'[i]]
  <2> SUFFICES ASSUME NEW i \in 1 .. Len(free')
               PROVE  prev'[free'[i]] = prev[free'[i]]
    OBVIOUS
  <2>1. /\ free # <<>> /\ i + 1 \in 1 .. Len(free) /\ free'[i] = free[i + 1]
        /\ free[i + 1] \in Node /\ i + 1 # 1
    BY <1>1, <1>8
  <2>2. free'[i] # NewNode
    BY <1>1, <1>4, <2>1 DEF ListsIntact
  <2>3. work # <<>> => free'[i] # head /\ head \in Node
    BY <1>1, <2>1, SMTT(30) DEF ListsIntact
  <2>. QED
    BY <1>9, <1>10, <2>1, <2>2, <2>3
<1>14. NextFree = IF Len(free) < 2 THEN NULL ELSE free[2]
  <2>1. CASE free = <<>>
    BY <1>1, <2>1 DEF NextFree, Grow
  <2>2. CASE Len(free) = 1
    <3>1. freeTail = freeHead /\ freeTail \in Node
      <4>1. free # <<>> /\ 1 \in 1 .. Len(free)
        BY <1>0, <2>2
      <4>. QED
        BY <1>1, <2>2, <4>1
    <3>. QED
      BY <1>2, <2>2, <3>1 DEF NextFree, Grow, StaleEnd
  <2>3. CASE Len(free) > 1
    <3>1. 1 \in 1 .. Len(free) - 1 /\ freeTail = free[1] /\ free[1] \in Node
      BY <1>1, <2>3
    <3>. QED
      BY <1>1, <1>2, <2>3, <3>1 DEF NextFree, Grow
  <2>4. free = <<>> \/ Len(free) = 1 \/ Len(free) > 1
    <3>1. Len(free) \in Nat
      BY <1>0
    <3>2. Len(free) = 0 => free = <<>>
      BY <1>0
    <3> DEFINE m == Len(free)
    <3>3. m = 0 \/ m = 1 \/ m > 1
      <4> HIDE DEF m
      <4>1. m \in Nat
        BY <3>1 DEF m
      <4>. QED
        BY <4>1
    <3>. QED
      BY <3>2, <3>3
  <2>5. free = <<>> => Len(free) < 2
    BY <1>0
  <2>. QED
    BY <2>1, <2>2, <2>3, <2>4, <2>5
<1>15. Linked(freeTail, freeHead, free)'
  <2>1. freeTail' = NextFree
        /\ freeHead' = IF NextFree = NULL THEN NULL ELSE freeHead
    BY DEF QPost, AddWorkOrder
  <2>2. /\ freeTail' = IF free' = <<>> THEN NULL ELSE free'[1]
        /\ freeHead' = IF free' = <<>> THEN NULL ELSE free'[Len(free')]
    <3>1. CASE Len(free) < 2
      BY <1>1, <1>8, <1>14, <2>1, <3>1
    <3>2. CASE Len(free) >= 2
      <4>1. /\ free' # <<>> /\ free'[1] = free[2] /\ free[2] \in Node
            /\ free'[Len(free')] = free[Len(free)]
        <5>1. /\ Len(free') = Len(free) - 1 /\ Len(free') \in 1 .. Len(free')
              /\ 1 \in 1 .. Len(free') /\ 2 \in 1 .. Len(free)
          BY <1>0, <1>8, <3>2
        <5>2. /\ free'[1] = free[1 + 1] /\ free[2] \in Node
              /\ free'[Len(free')] = free[Len(free') + 1]
          BY <1>1, <1>8, <5>1
        <5>3. free' # <<>>
          BY <5>1
        <5>4. Len(free') + 1 = Len(free)
          BY <1>0, <5>1
        <5>. QED
          BY <5>2, <5>3, <5>4
      <4>. QED
        BY <1>1, <1>2, <1>14, <2>1, <3>2, <4>1
    <3>. QED
      BY <1>1, <3>1, <3>2
  <2>3. ASSUME NEW i \in 1 .. Len(free') - 1
        PROVE  prev'[free'[i]] = free'[i + 1]
    <3>1. /\ i \in 1 .. Len(free') /\ free'[i] = free[i + 1]
          /\ i + 1 \in 1 .. Len(free) - 1 /\ free'[i + 1] = free[i + 2]
      BY <1>1, <1>8, <2>3
    <3>. QED
      BY <1>1, <1>13, <3>1
  <2>. QED
    BY <2>2, <2>3 DEF Linked
<1>16. Partition'
  <2>1. \A i \in 1 .. Len(free') : i + 1 \in 1 .. Len(free)
                                   /\ free'[i] = free[i + 1]
                                   /\ free[i + 1] # NewNode
    <3> SUFFICES ASSUME NEW i \in 1 .. Len(free')
                 PROVE  i + 1 \in 1 .. Len(free) /\ free'[i] = free[i + 1]
                        /\ free[i + 1] # NewNode
      OBVIOUS
    <3>1. free # <<>> /\ i + 1 \in 1 .. Len(free) /\ free'[i] = free[i + 1]
      BY <1>1, <1>8
    <3>. QED
      BY <1>1, <1>4, <3>1 DEF ListsIntact
  <2>2. Distinct(work)' /\ Distinct(free)'
    BY <1>1, <1>6, <1>7, <2>1 DEF ListsIntact
  <2>3. \A i \in 1 .. Len(work'), j \in 1 .. Len(free') : work'[i] # free'[j]
    <3> SUFFICES ASSUME NEW i \in 1 .. Len(work'), NEW j \in 1 .. Len(free')
                 PROVE  work'[i] # free'[j]
      OBVIOUS
    <3>1. CASE i = Len(work) + 1
      BY <1>7, <2>1, <3>1
    <3>2. CASE i # Len(work) + 1
      <4>1. i \in 1 .. Len(work) /\ work'[i] = work[i]
        BY <1>0, <1>7, <3>2
      <4>. QED
        BY <2>1, <4>1 DEF ListsIntact
    <3>. QED
      BY <3>1, <3>2
  <2>4. Len(work') + Len(free') = capacity' + 1
    <3>1. /\ Len(work') = Len(work) + 1 /\ Len(work) \in Nat
          /\ Len(work) + Len(free) = capacity + 1 /\ Len(free) \in Nat
          /\ capacity \in Nat
      BY <1>0, <1>1, <1>3, <1>7
    <3>2. CASE free = <<>>
      <4>1. Len(free) = 0 /\ Len(free') = 0 /\ capacity' = capacity + 1
        BY <1>1, <1>3, <1>8, <3>2
      <4>. QED
        BY <3>1, <4>1
    <3>3. CASE free # <<>>
      <4>1. Len(free') = Len(free) - 1 /\ capacity' = capacity
        BY <1>1, <1>3, <1>8, <3>3
      <4>. QED
        BY <3>1, <4>1
    <3>. QED
      BY <3>2, <3>3
  <2>5. /\ \A i \in 1 .. Len(work') : work'[i] \in Allocated'
        /\ \A i \in 1 .. Len(free') : free'[i] \in Allocated'
    <3>1. \A n \in Allocated : n \in Allocated'
      BY <1>3 DEF Allocated
    <3>2. NewNode \in Allocated'
      BY <1>5 DEF Allocated
    <3>3. /\ \A i \in 1 .. Len(work) : work[i] \in Allocated
          /\ \A i \in 1 .. Len(free) : free[i] \in Allocated
      BY DEF ListsIntact
    <3>4. ASSUME NEW i \in 1 .. Len(work') PROVE work'[i] \in Allocated'
      <4>1. i \in 1 .. Len(work) \/ i = Len(work) + 1
        BY <1>0, <1>7
      <4>. QED
        BY <1>7, <3>1, <3>2, <3>3, <4>1
    <3>. QED
      BY <2>1, <3>1, <3>3, <3>4
  <2>. QED
    BY <2>2, <2>3, <2>4, <2>5
<1>. QED
  BY <1>11, <1>12, <1>15, <1>16 DEF ListsIntact

\* With any backlog, the lists can only be broken by adding an order while
\* the free list is down to a node with a stale prev.
THEOREM OnlyStaleEnd == QSpec => OnlyStaleEndBreaks
<1>1. TypeOK /\ [QNext]_queueVars
        => [ListsIntact /\ (StaleEnd => QTake) => ListsIntact']_queueVars
  <2> SUFFICES ASSUME TypeOK, [QNext]_queueVars, ~UNCHANGED queueVars,
                      ListsIntact, StaleEnd => QTake
               PROVE  ListsIntact'
    OBVIOUS
  <2>1. CASE QTake
    BY <2>1, TakeIntact
  <2>2. ASSUME NEW o \in Order, QPost(o), ~QTake PROVE ListsIntact'
    BY <2>2, PostIntact
  <2>. QED
    BY <2>1, <2>2 DEF QNext
<1>. QED
  BY <1>1, QueueTypes, PTL DEF QSpec, OnlyStaleEndBreaks

\* While the callers keep the backlog within the initial capacity there are
\* always two free nodes to choose from, so the last one is never needed.
LEMMA SlackAvoidsStaleEnd ==
  ASSUME Backlog <= InitCap, TypeOK, ListsIntact, Len(work) < Backlog
  PROVE  /\ Len(work) < capacity + 1
         /\ free # <<>> /\ ~StaleEnd
<1>1. /\ capacity \in Nat /\ InitCap <= capacity /\ Len(work) \in Nat
      /\ Len(free) \in Nat /\ Len(work) + Len(free) = capacity + 1
  BY Constants, LenProperties DEF TypeOK, ListTypeOK, ListsIntact, Partition
<1>2. Len(work) < InitCap
  BY <1>1, Constants, BacklogAssumption
<1>3. Len(free) > 1 /\ Len(work) < capacity + 1
  <2> DEFINE w == Len(work)
  <2> DEFINE f == Len(free)
  <2> HIDE DEF w, f
  <2>1. w < InitCap /\ w \in Nat /\ f \in Nat /\ w + f = capacity + 1
    BY <1>1, <1>2 DEF w, f
  <2>2. f > 1 /\ w < capacity + 1
    BY <1>1, <2>1, Constants
  <2>. QED
    BY <2>2 DEF w, f
<1>4. free # <<>>
  <2> SUFFICES ASSUME free = <<>> PROVE FALSE
    OBVIOUS
  <2>1. Len(free) = 0
    OBVIOUS
  <2>. QED
    BY <1>3, <2>1
<1>5. Len(free) # 1
  <2> DEFINE f == Len(free)
  <2> HIDE DEF f
  <2>1. f \in Nat /\ f > 1
    BY <1>1, <1>3 DEF f
  <2>2. f # 1
    BY <2>1
  <2>. QED
    BY <2>2 DEF f
<1>. QED
  BY <1>3, <1>4, <1>5 DEF StaleEnd

\* list.c is a correct pair of queues as long as no more orders pile up than
\* the capacity the queue was made with.
THEOREM IntactWithinInitCap ==
  ASSUME Backlog <= InitCap
  PROVE  QSpec => []ListsIntact
<1>1. TypeOK /\ ListsIntact /\ [QNext]_queueVars => ListsIntact'
  <2> SUFFICES ASSUME TypeOK, ListsIntact, [QNext]_queueVars
               PROVE  ListsIntact'
    OBVIOUS
  <2>1. CASE QTake
    BY <2>1, TakeIntact
  <2>2. ASSUME NEW o \in Order, QPost(o) PROVE ListsIntact'
    <3>1. ~StaleEnd
      BY <2>2, SlackAvoidsStaleEnd DEF QPost
    <3>. QED
      BY <2>2, <3>1, PostIntact
  <2>3. CASE UNCHANGED queueVars
    BY <2>3 DEF queueVars, listVars, ListsIntact, Linked, Partition, Distinct,
                Allocated
  <2>. QED
    BY <2>1, <2>2, <2>3 DEF QNext
<1>. QED
  BY <1>1, IntactInit, QueueTypes, PTL DEF QSpec

-----------------------------------------------------------------------------
(* The refinement.                                                         *)

\* What a post does to the orders that are pending.
LEMMA PostPends ==
  ASSUME Backlog <= InitCap, TypeOK, ListsIntact, NEW o \in Order, QPost(o)
  PROVE  /\ Pending \in Seq(Order \cup {Unset}) /\ Len(Pending) = Len(work)
         /\ Len(work) < capacity + 1 /\ free # <<>>
         /\ Pending' = Append(Pending, o) /\ capacity' = capacity /\ got' = got
<1>1. /\ Len(work) < capacity + 1 /\ free # <<>>
      /\ work \in Seq(Node) /\ free \in Seq(Node)
      /\ order \in [Node -> Order \cup {Unset}]
  BY SlackAvoidsStaleEnd DEF QPost, TypeOK, ListTypeOK
<1>2. freeTail = free[1] /\ free[1] \in Node /\ ~Grow /\ NewNode = free[1]
  BY <1>1, Constants DEF ListsIntact, Linked, Grow, NewNode, Node
<1>3. \A i \in 1 .. Len(work) : work[i] # free[1] /\ work[i] \in Node
  BY <1>1 DEF ListsIntact, Partition
<1>4. /\ Len(work') = Len(work) + 1 /\ work'[Len(work) + 1] = free[1]
      /\ \A i \in 1 .. Len(work) : work'[i] = work[i]
      /\ Len(work) \in Nat
  BY <1>1, <1>2 DEF QPost, AddWorkOrder
<1>5. order' = [order EXCEPT ![free[1]] = o] /\ capacity' = capacity
      /\ got' = got
  BY <1>2 DEF QPost, AddWorkOrder
<1>6. Pending \in Seq(Order \cup {Unset}) /\ Len(Pending) = Len(work)
  BY <1>1, <1>3, <1>4, SeqDef DEF Pending
<1>7. Pending' = Append(Pending, o)
  <2>1. /\ Append(Pending, o) \in Seq(Order \cup {Unset})
        /\ Len(Append(Pending, o)) = Len(work) + 1
        /\ \A i \in 1 .. Len(work) : Append(Pending, o)[i] = Pending[i]
        /\ Append(Pending, o)[Len(work) + 1] = o
    BY <1>6, AppendProperties
  <2>2. ASSUME NEW i \in 1 .. Len(work) + 1
        PROVE  order'[work'[i]] = Append(Pending, o)[i]
    <3>1. CASE i = Len(work) + 1
      BY <1>1, <1>2, <1>4, <1>5, <2>1, <3>1
    <3>2. CASE i # Len(work) + 1
      <4>1. i \in 1 .. Len(work)
        BY <1>4, <3>2
      <4>. QED
        BY <1>1, <1>2, <1>3, <1>4, <1>5, <2>1, <4>1 DEF Pending
    <3>. QED
      BY <3>1, <3>2
  <2>3. Pending' = [i \in 1 .. Len(work) + 1 |-> order'[work'[i]]]
    BY <1>4 DEF Pending
  <2>4. Append(Pending, o) = [i \in 1 .. Len(work) + 1 |-> Append(Pending, o)[i]]
    BY <2>1, LenProperties
  <2>. QED
    BY <2>2, <2>3, <2>4
<1>. QED
  BY <1>1, <1>5, <1>6, <1>7

LEMMA PostRefines ==
  ASSUME Backlog <= InitCap, TypeOK, ListsIntact, NEW o \in Order, QPost(o)
  PROVE  Contract!Post(o)
  BY PostPends DEF Contract!Post, Contract!CanAcceptWork, Contract!HasFreeNode,
                   Contract!AddWorkOrder

\* What a take does to them.
LEMMA TakePends ==
  ASSUME TypeOK, ListsIntact, QTake
  PROVE  /\ Pending # <<>> /\ Pending' = Tail(Pending)
         /\ capacity' = capacity /\ got' = Head(Pending)
<1>1. /\ work \in Seq(Node) /\ work # <<>> /\ tail = work[1]
      /\ order \in [Node -> Order \cup {Unset}]
  BY DEF QTake, Take, IsJobAvailable, TypeOK, ListTypeOK, ListsIntact, Linked
<1>2. /\ Len(work') = Len(work) - 1 /\ Len(work) \in Nat /\ Len(work) > 0
      /\ \A i \in 1 .. Len(work) - 1 : work'[i] = work[i + 1]
  BY <1>1, LenProperties, EmptySeq DEF QTake
<1>3. order' = order /\ capacity' = capacity /\ got' = order[tail]
  BY DEF QTake, Take, GetWorkOrder, OldestOrder
<1>4. \A i \in 1 .. Len(work) : work[i] \in Node
  BY <1>1
<1>5. Pending \in Seq(Order \cup {Unset}) /\ Len(Pending) = Len(work)
  BY <1>1, <1>2, <1>4, SeqDef DEF Pending
<1>6. Pending # <<>> /\ Head(Pending) = order[work[1]]
  BY <1>1, <1>2, <1>5 DEF Pending
<1>7. Pending' = Tail(Pending)
  <2>1. Tail(Pending) = [i \in 1 .. Len(work) - 1 |-> Pending[i + 1]]
    <3>1. /\ Tail(Pending) \in Seq(Order \cup {Unset})
          /\ Len(Tail(Pending)) = Len(work) - 1
          /\ \A i \in 1 .. Len(work) - 1 : Tail(Pending)[i] = Pending[i + 1]
      BY <1>5, <1>6, HeadTailProperties
    <3>2. Tail(Pending) = [i \in 1 .. Len(work) - 1 |-> Tail(Pending)[i]]
      BY <3>1, LenProperties
    <3>. QED
      BY <3>1, <3>2
  <2>2. \A i \in 1 .. Len(work) - 1 : order'[work'[i]] = Pending[i + 1]
    <3> SUFFICES ASSUME NEW i \in 1 .. Len(work) - 1
                 PROVE  order'[work'[i]] = Pending[i + 1]
      OBVIOUS
    <3>1. i + 1 \in 1 .. Len(work) /\ work'[i] = work[i + 1]
      BY <1>2
    <3>. QED
      BY <1>3, <3>1 DEF Pending
  <2>3. Pending' = [i \in 1 .. Len(work) - 1 |-> order'[work'[i]]]
    BY <1>2 DEF Pending
  <2>. QED
    BY <2>1, <2>2, <2>3
<1>. QED
  BY <1>1, <1>3, <1>6, <1>7

LEMMA TakeRefines ==
  ASSUME TypeOK, ListsIntact, QTake
  PROVE  Contract!Take
  BY TakePends DEF Contract!Take, Contract!IsJobAvailable, Contract!GetWorkOrder

\* Within the initial capacity list.c implements the contract of the queue:
\* orders come out once each, oldest first, and none is lost.
THEOREM ImplementsContract ==
  ASSUME Backlog <= InitCap
  PROVE  QSpec => ContractSpec
<1>1. QInit => Contract!Init
  <2> SUFFICES ASSUME QInit PROVE Contract!Init
    OBVIOUS
  <2>1. Pending = <<>>
    BY DEF QInit, Pending
  <2>. QED
    BY <2>1 DEF QInit, MakeQueue, InitCap, Contract!Init, Contract!MakeQueue,
                Contract!InitCap
<1>2. TypeOK /\ ListsIntact /\ [QNext]_queueVars
        => [Contract!Next]_<<Pending, capacity, got>>
  <2> SUFFICES ASSUME TypeOK, ListsIntact, [QNext]_queueVars
               PROVE  [Contract!Next]_<<Pending, capacity, got>>
    OBVIOUS
  <2>1. CASE QTake
    BY <2>1, TakeRefines DEF Contract!Next
  <2>2. ASSUME NEW o \in Order, QPost(o)
        PROVE  [Contract!Next]_<<Pending, capacity, got>>
    BY <2>2, PostRefines DEF Contract!Next
  <2>3. CASE UNCHANGED queueVars
    BY <2>3 DEF queueVars, listVars, Pending
  <2>. QED
    BY <2>1, <2>2, <2>3 DEF QNext
<1>. QED
  BY <1>1, <1>2, QueueTypes, IntactWithinInitCap, PTL
     DEF QSpec, ContractSpec, Contract!Spec
=============================================================================
