---------------------------- MODULE PoolOverList ----------------------------
(***************************************************************************)
(* The thread pool with the real queue.  ThreadPool decides by the         *)
(* contract of the queue; the list of list.c is driven along with it: each *)
(* step that adds or takes an order does the same to the list.  While the  *)
(* list answers as the contract does, the two together are the code; the   *)
(* first disagreement is where list.c fails the pool.  work and free are   *)
(* the history variables of QueueListSpec; its bound is never reached.     *)
(***************************************************************************)
EXTENDS ThreadPool

VARIABLES head, tail, freeHead, freeTail, lcapacity, prev, order, lgot,
          work, free

List == INSTANCE QueueListSpec
          WITH Order <- Job, Unset <- None, capacity <- lcapacity, got <- lgot,
               Backlog <- MaxCap + 2

listVars == <<head, tail, freeHead, freeTail, lcapacity, prev, order, lgot,
              work, free>>

PoolInit == Init /\ List!QInit

\* dispatch calls addWorkOrder with the job when the list has room, do_work
\* calls getWorkOrder when the list has an order.
PoolPost(t) == Post(t) /\ List!QPost(Head(todo[t]))
PoolTake(w) == TakeJob(w) /\ List!QTake

\* Everything else leaves the queue alone.
PoolElse == Next /\ orders' = orders /\ UNCHANGED listVars

PoolNext ==
  \/ \E t \in Thread : PoolPost(t)
  \/ \E w \in Worker : PoolTake(w)
  \/ PoolElse

PoolSpec == PoolInit /\ [][PoolNext]_<<vars, listVars>>
PoolFairSpec == PoolSpec /\ Fairness

-----------------------------------------------------------------------------
\* The list answers the pool's two questions as the contract does: whether a
\* job is available, which do_work waits for, and whether there is room,
\* which dispatch waits for.
ListAnswers ==
  /\ List!IsJobAvailable <=> IsJobAvailable
  /\ List!CanAcceptWork <=> CanAcceptWork
  /\ lcapacity = capacity

\* A worker runs the job that was dispatched first of those not yet taken,
\* with its own argument: what the list hands out is what the contract says.
RunsWhatWasDispatched ==
  [][\A w \in Worker : myjob'[w] # myjob[w] /\ myjob'[w] # None
                         => lgot' = myjob'[w]]_<<vars, listVars>>
=============================================================================
