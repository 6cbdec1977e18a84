--------------------------- MODULE WorkQueueSpec ---------------------------
(***************************************************************************)
(* The contract of WorkQueue as a specification: orders are posted while   *)
(* there is room and taken while there are any, and got is the last order  *)
(* taken.  QueueListSpec implements it (QueueListSpec!Contract).           *)
(***************************************************************************)
EXTENDS WorkQueue

CONSTANTS Order, Unset

VARIABLE got

Init == MakeQueue /\ got = Unset

Post(o) == CanAcceptWork /\ AddWorkOrder(o) /\ UNCHANGED got
Take == IsJobAvailable /\ got' = Head(orders) /\ GetWorkOrder

Next == Take \/ \E o \in Order : Post(o)

Spec == Init /\ [][Next]_<<orders, capacity, got>>
=============================================================================
