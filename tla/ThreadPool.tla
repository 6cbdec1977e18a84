----------------------------- MODULE ThreadPool -----------------------------
(***************************************************************************)
(* threadpool.c: the pool that runs the plugin's jobs.  Workers and the    *)
(* threads that dispatch share a mutex and two condition variables,        *)
(* job_posted and job_taken.  Each thread has a program counter, and one   *)
(* step is what a thread does between two points where another thread can  *)
(* see it: taking the mutex, a decision under it, going to sleep, or the   *)
(* stretch of code that ends by releasing it.                              *)
(*                                                                         *)
(* The queue is its contract, WorkQueue; PoolOverList puts list.c in its   *)
(* place.  A job stands for a function, its argument and its cleanup       *)
(* handler, which do_work runs right after the function.  Each job is      *)
(* dispatched by one call: clients make the calls Roots lists, and a job   *)
(* that dispatches, as getLibrary does for each document, makes those of   *)
(* Spawn from inside the worker that runs it.                              *)
(*                                                                         *)
(* dispatch unlocks the mutex explicitly and then once more by             *)
(* pthread_cleanup_pop(1), and so does a worker that leaves.  The second   *)
(* unlock is a step of its own, StrayUnlock.  On the default mutex it      *)
(* frees the mutex whoever holds it, and the code does nothing to prevent  *)
(* that.  StrayHarmless restricts the model to the schedules in which      *)
(* every second unlock meets a mutex nobody holds.  Without it the model   *)
(* has not all that can go wrong: a change of the queue is still one step, *)
(* which another thread that is inside as well could see half done.  What  *)
(* such a run violates is violated by the code; what is claimed to hold,   *)
(* is claimed under StrayHarmless.                                         *)
(*                                                                         *)
(* A definition whose comment starts with "Slip:" is no part of the model: *)
(* it is the one after it with a plausible mistake, kept to show that the  *)
(* properties notice.                                                      *)
(***************************************************************************)
EXTENDS WorkQueue, Integers, FiniteSets

CONSTANTS
  Worker, Client,   \* the threads of the pool and the others
  Job,
  Roots,            \* Roots[c]: the jobs client c dispatches, in order
  Spawn,            \* Spawn[j]: the jobs that running j dispatches
  SelfArg,          \* the jobs whose argument is the pool itself
  Destroyer,        \* the clients that end by destroying the pool
  StrayHarmless,
  Free, None        \* nobody holds the mutex; no job

Thread == Worker \cup Client

ASSUME PoolAssumption ==
  /\ IsFiniteSet(Worker) /\ IsFiniteSet(Client)
  /\ Worker # {} /\ Worker \cap Client = {}
  /\ Free \notin Thread
  /\ None \notin Job
  /\ Roots \in [Client -> Seq(Job)]
  /\ Spawn \in [Job -> Seq(Job)]
  /\ SelfArg \subseteq Job
  /\ Destroyer \subseteq Client
  /\ StrayHarmless \in BOOLEAN

\* Two calls of dispatch are two jobs, even if they pass the same function.
ASSUME OneCallAssumption ==
  /\ \A c, d \in Client : \A i \in DOMAIN Roots[c], k \in DOMAIN Roots[d] :
       Roots[c][i] = Roots[d][k] => c = d /\ i = k
  /\ \A j, l \in Job : \A i \in DOMAIN Spawn[j], k \in DOMAIN Spawn[l] :
       Spawn[j][i] = Spawn[l][k] => j = l /\ i = k
  /\ \A c \in Client, l \in Job : \A i \in DOMAIN Roots[c], k \in DOMAIN Spawn[l] :
       Roots[c][i] # Spawn[l][k]

VARIABLES
  mutex,   \* its holder, or Free
  pc,
  state,   \* ALL_RUN or ALL_EXIT
  live,
  freed,   \* free(pool) has been called
  myjob,   \* per worker, the job it took
  todo,    \* per thread, the dispatch calls it has still to make
  done     \* history: the jobs that have been run

vars == <<orders, capacity, mutex, pc, state, live, freed, myjob, todo, done>>

\* Where a thread wants the mutex, and where it is once it has it.
Acquired == [wLock |-> "wLoop", dLock |-> "dLoop",
             xLock |-> "xSet", xRelock |-> "xLoop"]
\* Where a thread has decided to wait, and where it sleeps.
Asleep == [wWait |-> "wPosted", dWait |-> "dTaken", xWait |-> "xTaken"]
\* Where a thread sleeps on a condition, and where it wakes up.
Woken == [wPosted |-> "wLock", dTaken |-> "dLock", xTaken |-> "xRelock"]

Holding == {"wLoop", "wWait", "wTake", "dLoop", "dWait", "xSet", "xLoop",
            "xWait"}
WorkerPc == {"wLock", "wLoop", "wWait", "wPosted", "wTake", "run", "wStray",
             "gone"}
DispatchPc == {"dLock", "dLoop", "dWait", "dTaken", "dStray"}
DestroyPc == {"xLock", "xSet", "xRelock", "xLoop", "xWait", "xTaken", "xFree",
              "xDone"}

OnPosted == {w \in Worker : pc[w] = "wPosted"}
OnTaken == {t \in Thread : pc[t] \in {"dTaken", "xTaken"}}

\* Slip: the signal is forgotten.
GoWithoutSignal(t, next, waiting) == pc' = [pc EXCEPT ![t] = next]

\* t moves on and signals one of waiting, if there is one.
GoAndSignal(t, next, waiting) ==
  LET moved == [pc EXCEPT ![t] = next]
  IN IF waiting = {} THEN pc' = moved
     ELSE \E u \in waiting : pc' = [moved EXCEPT ![u] = Woken[pc[u]]]

Go(t, next) == pc' = [pc EXCEPT ![t] = next]

\* create_threadpool has returned; the workers have not run yet.  One that
\* runs before it has returned can only find the queue empty and wait, and
\* what it reads of live then is a number for debug output.
Init ==
  /\ MakeQueue
  /\ mutex = Free
  /\ pc = [t \in Thread |-> IF t \in Worker THEN "wLock" ELSE "idle"]
  /\ state = "ALL_RUN"
  /\ live = Cardinality(Worker)
  /\ freed = FALSE
  /\ myjob = [w \in Worker |-> None]
  /\ todo = [t \in Thread |-> IF t \in Worker THEN <<>> ELSE Roots[t]]
  /\ done = {}

-----------------------------------------------------------------------------
(* The mutex and the condition variables.                                  *)

Lock(t) ==
  /\ pc[t] \in DOMAIN Acquired
  /\ mutex = Free
  /\ mutex' = t
  /\ Go(t, Acquired[pc[t]])
  /\ UNCHANGED <<orders, capacity, state, live, freed, myjob, todo, done>>

\* Slip: a worker that dispatched does not go back to its job.
AfterStrayNoWorker(t) == IF pc[t] = "wStray" THEN "gone" ELSE "idle"
\* A worker leaves, or a call of dispatch returns to its caller.
AfterStray(t) == IF pc[t] = "wStray" THEN "gone"
                 ELSE IF t \in Worker THEN "run" ELSE "idle"

\* pthread_cleanup_pop(1) after the explicit unlock.
StrayUnlock(t) ==
  /\ pc[t] \in {"wStray", "dStray"}
  /\ StrayHarmless => mutex = Free
  /\ mutex' = Free
  /\ Go(t, AfterStray(t))
  /\ UNCHANGED <<orders, capacity, state, live, freed, myjob, todo, done>>

\* pthread_cond_wait releases the mutex and puts t to sleep in one step.  A
\* signal between the decision to wait and this step wakes nobody.
CondWait(t) ==
  /\ pc[t] \in DOMAIN Asleep
  /\ mutex' = Free
  /\ Go(t, Asleep[pc[t]])
  /\ UNCHANGED <<orders, capacity, state, live, freed, myjob, todo, done>>

\* pthread_cond_wait may return without a signal.
SpuriousWake(t) ==
  /\ pc[t] \in DOMAIN Woken
  /\ Go(t, Woken[pc[t]])
  /\ UNCHANGED <<orders, capacity, mutex, state, live, freed, myjob, todo,
                 done>>

-----------------------------------------------------------------------------
(* do_work                                                                 *)

WaitForJob(w) ==
  /\ pc[w] = "wLoop" /\ ~IsJobAvailable
  /\ Go(w, "wWait")
  /\ UNCHANGED <<orders, capacity, mutex, state, live, freed, myjob, todo,
                 done>>

\* Slip: the queue is not looked at again after the wait.
FindJobUnchecked(w) ==
  /\ pc[w] = "wLoop" /\ state = "ALL_RUN"
  /\ Go(w, "wTake")
  /\ UNCHANGED <<orders, capacity, mutex, state, live, freed, myjob, todo,
                 done>>

FindJob(w) ==
  /\ pc[w] = "wLoop" /\ IsJobAvailable /\ state = "ALL_RUN"
  /\ Go(w, "wTake")
  /\ UNCHANGED <<orders, capacity, mutex, state, live, freed, myjob, todo,
                 done>>

\* getWorkOrder exits the program if the queue is empty.
TakeJob(w) ==
  /\ pc[w] = "wTake" /\ IsJobAvailable
  /\ myjob' = [myjob EXCEPT ![w] = Head(orders)]
  /\ todo' = [todo EXCEPT ![w] = Spawn[Head(orders)]]
  /\ GetWorkOrder
  /\ GoAndSignal(w, "run", OnTaken)
  /\ mutex' = Free
  /\ UNCHANGED <<state, live, freed, done>>

FinishJob(w) ==
  /\ pc[w] = "run" /\ todo[w] = <<>>
  /\ done' = done \cup {myjob[w]}
  /\ myjob' = [myjob EXCEPT ![w] = None]
  /\ Go(w, "wLock")
  /\ UNCHANGED <<orders, capacity, mutex, state, live, freed, todo>>

\* The worker looks at the state only once it has found a job, and leaves
\* the job where it is.
Leave(w) ==
  /\ pc[w] = "wLoop" /\ IsJobAvailable /\ state = "ALL_EXIT"
  /\ live' = live - 1
  /\ GoAndSignal(w, "wStray", OnTaken)
  /\ mutex' = Free
  /\ UNCHANGED <<orders, capacity, state, freed, myjob, todo, done>>

-----------------------------------------------------------------------------
(* dispatch and dispatch_with_cleanup                                      *)

CallDispatch(t) ==
  /\ pc[t] = IF t \in Worker THEN "run" ELSE "idle"
  /\ todo[t] # <<>>
  /\ IF Head(todo[t]) \in SelfArg
     THEN todo' = [todo EXCEPT ![t] = Tail(@)] /\ UNCHANGED pc
     ELSE Go(t, "dLock") /\ UNCHANGED todo
  /\ UNCHANGED <<orders, capacity, mutex, state, live, freed, myjob, done>>

WaitForRoom(t) ==
  /\ pc[t] = "dLoop" /\ ~CanAcceptWork
  /\ GoAndSignal(t, "dWait", OnPosted)
  /\ UNCHANGED <<orders, capacity, mutex, state, live, freed, myjob, todo,
                 done>>

\* Slip: a caller that was made to wait dispatches again.
PostAndRepeat(t) ==
  /\ pc[t] = "dLoop" /\ CanAcceptWork
  /\ AddWorkOrder(Head(todo[t]))
  /\ GoAndSignal(t, "dStray", OnPosted)
  /\ mutex' = Free
  /\ UNCHANGED <<state, live, freed, myjob, todo, done>>

Post(t) ==
  /\ pc[t] = "dLoop" /\ CanAcceptWork
  /\ AddWorkOrder(Head(todo[t]))
  /\ todo' = [todo EXCEPT ![t] = Tail(@)]
  /\ GoAndSignal(t, "dStray", OnPosted)
  /\ mutex' = Free
  /\ UNCHANGED <<state, live, freed, myjob, done>>

-----------------------------------------------------------------------------
(* destroy_threadpool, called when no client is using the pool any more.   *)

CallDestroy(c) ==
  /\ c \in Destroyer
  /\ \A d \in Client : pc[d] = "idle" /\ todo[d] = <<>>
  /\ Go(c, "xLock")
  /\ UNCHANGED <<orders, capacity, mutex, state, live, freed, myjob, todo,
                 done>>

SetExit(c) ==
  /\ pc[c] = "xSet"
  /\ state' = "ALL_EXIT"
  /\ Go(c, "xLoop")
  /\ UNCHANGED <<orders, capacity, mutex, live, freed, myjob, todo, done>>

\* Slip: the workers are not called in.
WaitForExitSilently(c) ==
  /\ pc[c] = "xLoop" /\ live > 0
  /\ Go(c, "xWait")
  /\ UNCHANGED <<orders, capacity, mutex, state, live, freed, myjob, todo,
                 done>>

WaitForExit(c) ==
  /\ pc[c] = "xLoop" /\ live > 0
  /\ GoAndSignal(c, "xWait", OnPosted)
  /\ UNCHANGED <<orders, capacity, mutex, state, live, freed, myjob, todo,
                 done>>

\* Slip: the last worker is not waited for.
StopWaitingEarly(c) ==
  /\ pc[c] = "xLoop" /\ live <= 1
  /\ mutex' = Free
  /\ Go(c, "xFree")
  /\ UNCHANGED <<orders, capacity, state, live, freed, myjob, todo, done>>

StopWaiting(c) ==
  /\ pc[c] = "xLoop" /\ live <= 0
  /\ mutex' = Free
  /\ Go(c, "xFree")
  /\ UNCHANGED <<orders, capacity, state, live, freed, myjob, todo, done>>

\* pthread_mutex_destroy to free(pool).  theQueue is not freed.
FreePool(c) ==
  /\ pc[c] = "xFree"
  /\ freed' = TRUE
  /\ Go(c, "xDone")
  /\ UNCHANGED <<orders, capacity, mutex, state, live, myjob, todo, done>>

-----------------------------------------------------------------------------
DoWork(w) ==
  WaitForJob(w) \/ FindJob(w) \/ TakeJob(w) \/ FinishJob(w) \/ Leave(w)
Dispatch(t) == WaitForRoom(t) \/ Post(t)
Destroy(c) == SetExit(c) \/ WaitForExit(c) \/ StopWaiting(c) \/ FreePool(c)

Next ==
  \/ \E t \in Thread : \/ Lock(t) \/ StrayUnlock(t)
                       \/ CondWait(t) \/ SpuriousWake(t)
                       \/ CallDispatch(t) \/ Dispatch(t)
  \/ \E w \in Worker : DoWork(w)
  \/ \E c \in Client : CallDestroy(c) \/ Destroy(c)

Spec == Init /\ [][Next]_vars

\* A thread that can take a step takes it, and one that wants the mutex
\* gets it if it becomes free again and again.  Clients need not call.
Fairness ==
  /\ \A t \in Thread : /\ SF_vars(Lock(t))
                       /\ SF_vars(StrayUnlock(t))
                       /\ WF_vars(CondWait(t))
                       /\ WF_vars(Dispatch(t))
  /\ \A w \in Worker : WF_vars(DoWork(w)) /\ WF_vars(CallDispatch(w))
  /\ \A c \in Client : WF_vars(Destroy(c))

FairSpec == Spec /\ Fairness
-----------------------------------------------------------------------------
(* Properties.                                                             *)

DataOK ==
  /\ orders \in Seq(Job) /\ capacity \in Nat
  /\ mutex \in Thread \cup {Free}
  /\ state \in {"ALL_RUN", "ALL_EXIT"}
  /\ live \in Int
  /\ freed \in BOOLEAN
  /\ myjob \in [Worker -> Job \cup {None}]
  /\ todo \in [Thread -> Seq(Job)]
  /\ done \subseteq Job

\* The threads of a role are at the places of that role, a thread inside
\* dispatch has a job to dispatch, and a worker has a job exactly while it
\* runs one.
PcOK ==
  /\ pc \in [Thread -> WorkerPc \cup DispatchPc \cup DestroyPc \cup {"idle"}]
  /\ \A w \in Worker : pc[w] \in WorkerPc \cup DispatchPc
  /\ \A c \in Client : pc[c] \in DispatchPc \cup DestroyPc \cup {"idle"}
  /\ \A t \in Thread : pc[t] \in DispatchPc \ {"dStray"} => todo[t] # <<>>
  /\ \A w \in Worker : pc[w] \in DispatchPc \cup {"run"} <=> myjob[w] \in Job

\* Types.
TypeOK == DataOK /\ PcOK

\* The assertion of getWorkOrder: a worker that saw a job still finds one.
TakeFindsWork == \A w \in Worker : pc[w] = "wTake" => IsJobAvailable

\* No wake-up is lost between workers: while one of them sleeps, every
\* order in the queue has an awake worker of its own on the way to it, one
\* that has not decided to wait.
Awake == {w \in Worker : pc[w] \in {"wLock", "wLoop", "wTake"}}
WorkConserving ==
  state = "ALL_RUN" /\ OnPosted # {} => Len(orders) <= Cardinality(Awake)

\* Nor between dispatchers: while one of them sleeps, every free place in
\* the queue has an awake dispatcher of its own on the way to it.
Entering == {t \in Thread : pc[t] \in {"dLock", "dLoop"}}
RoomConserving ==
  state = "ALL_RUN" /\ OnTaken # {} => Room <= Cardinality(Entering)

\* Every job whose dispatch has become due is in one place: still to be
\* dispatched, queued, running, or done.  So no job is lost or run twice.
Occurrences(j, s) == Cardinality({i \in 1 .. Len(s) : s[i] = j})
Due(j) == \/ \E c \in Client : Occurrences(j, Roots[c]) > 0
          \/ \E k \in done \cup {myjob[w] : w \in Worker} :
               k # None /\ Occurrences(j, Spawn[k]) > 0
Places(j) ==
  {<<"todo", t>> : t \in {u \in Thread : Occurrences(j, todo[u]) > 0}}
    \cup {<<"queued", i>> : i \in {k \in 1 .. Len(orders) : orders[k] = j}}
    \cup {<<"running", w>> : w \in {u \in Worker : myjob[u] = j}}
    \cup (IF j \in done THEN {<<"done", j>>} ELSE {})
JobsAccounted ==
  \A j \in Job \ SelfArg : Cardinality(Places(j)) = IF Due(j) THEN 1 ELSE 0

\* The destroyer gives the pool's memory back only after every worker has
\* signed off, and none of them waits, holds the mutex or runs a job then.
Left == {w \in Worker : pc[w] \in {"wStray", "gone"}}
DestroyedWhenDrained ==
  /\ live = Cardinality(Worker \ Left)
  /\ (freed \/ \E c \in Client : pc[c] = "xFree") => Left = Worker

\* Whatever dispatch has queued is run, unless the pool is destroyed.
Queued(j) == \E i \in 1 .. Len(orders) : orders[i] = j
EveryJobRuns == \A j \in Job : Queued(j) ~> (j \in done \/ state = "ALL_EXIT")

\* A call of dispatch returns.
Dispatching(t) == pc[t] \in DispatchPc
DispatchReturns == \A t \in Thread : Dispatching(t) ~> ~Dispatching(t)

\* destroy_threadpool makes the workers leave and frees the pool when a job
\* is still waiting for a thread.  When none is, it does not: an idle worker
\* that it wakes finds no job, and sleeps again without a look at the state.
DestroyWithBacklogFinishes == (state = "ALL_EXIT" /\ orders # <<>>) ~> freed
=============================================================================
