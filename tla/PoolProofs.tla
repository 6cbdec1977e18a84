-------------------------- MODULE PoolProofs --------------------------
(***************************************************************************)
(* Proofs about the thread pool, for any number of workers, clients, jobs  *)
(* and any capacity of the queue: that no wake-up is lost as long as the   *)
(* second unlocks meet a free mutex, that the pool is freed only after     *)
(* every worker has left, and that no job is lost.                         *)
(***************************************************************************)
EXTENDS PoolOverList, FiniteSetTheorems, SequenceTheorems, TLAPS

\* What a thread other than t may do in a step of t: be woken up.
OthersMove(t) ==
  \A u \in Thread \ {t} :
    \/ pc'[u] = pc[u]
    \/ pc[u] = "wPosted" /\ pc'[u] = "wLock"
    \/ pc[u] = "dTaken" /\ pc'[u] = "dLock"
    \/ pc[u] = "xTaken" /\ pc'[u] = "xRelock"

LEMMA GoMoves ==
  ASSUME PcOK, NEW t \in Thread, NEW next, Go(t, next)
  PROVE  /\ DOMAIN pc' = Thread /\ pc' = [u \in Thread |-> pc'[u]]
         /\ pc'[t] = next /\ \A u \in Thread \ {t} : pc'[u] = pc[u]
         /\ OthersMove(t)
  BY DEF PcOK, Go, OthersMove

\* A signal wakes exactly one of the threads that wait, if any does.
LEMMA SignalMoves ==
  ASSUME PcOK, NEW t \in Thread, NEW next, NEW waiting \in {OnPosted, OnTaken},
         t \notin waiting, GoAndSignal(t, next, waiting)
  PROVE  /\ DOMAIN pc' = Thread /\ pc' = [u \in Thread |-> pc'[u]]
         /\ pc'[t] = next
         /\ OthersMove(t)
         /\ \A u \in Thread \ {t} : u \notin waiting => pc'[u] = pc[u]
         /\ waiting # {} =>
              \E u \in waiting : /\ u # t /\ pc'[u] = Woken[pc[u]]
                                 /\ \A v \in Thread \ {t, u} : pc'[v] = pc[v]
<1>1. waiting \subseteq Thread
  BY DEF OnPosted, OnTaken, Thread
<1>2. \A u \in waiting : pc[u] \in {"wPosted", "dTaken", "xTaken"}
  BY DEF OnPosted, OnTaken
<1>3. CASE waiting = {}
  BY <1>3 DEF GoAndSignal, PcOK, OthersMove
<1>4. CASE waiting # {}
  <2>1. PICK u \in waiting :
          pc' = [[pc EXCEPT ![t] = next] EXCEPT ![u] = Woken[pc[u]]]
    BY <1>4 DEF GoAndSignal
  <2>2. u # t /\ u \in Thread
    BY <1>1
  <2>3. /\ DOMAIN pc' = Thread /\ pc' = [v \in Thread |-> pc'[v]]
        /\ pc'[t] = next /\ pc'[u] = Woken[pc[u]]
        /\ \A v \in Thread \ {t, u} : pc'[v] = pc[v]
    BY <2>1, <2>2 DEF PcOK
  <2>4. \/ pc[u] = "wPosted" /\ pc'[u] = "wLock"
        \/ pc[u] = "dTaken" /\ pc'[u] = "dLock"
        \/ pc[u] = "xTaken" /\ pc'[u] = "xRelock"
    BY <1>2, <2>3 DEF Woken
  <2>. QED
    BY <2>2, <2>3, <2>4 DEF OthersMove
<1>. QED
  BY <1>3, <1>4

\* The places of the threads stay right if the one that moves goes to a
\* place of its role.
LEMMA PcStep ==
  ASSUME DataOK', PcOK, NEW t \in Thread, NEW next,
         pc' = [u \in Thread |-> pc'[u]], pc'[t] = next, OthersMove(t),
         \A u \in Thread \ {t} : todo'[u] = todo[u],
         \A w \in Worker \ {t} : myjob'[w] = myjob[w],
         t \in Worker => /\ next \in WorkerPc \cup DispatchPc
                         /\ next \in DispatchPc \cup {"run"}
                              <=> myjob'[t] \in Job,
         t \in Client => next \in DispatchPc \cup DestroyPc \cup {"idle"},
         next \in DispatchPc \ {"dStray"} => todo'[t] # <<>>
  PROVE  PcOK'
<1> USE DEF WorkerPc, DispatchPc, DestroyPc
<1>1. ASSUME NEW w \in Worker
      PROVE  /\ pc'[w] \in WorkerPc \cup DispatchPc
             /\ pc'[w] \in DispatchPc \cup {"run"} <=> myjob'[w] \in Job
  BY <1>1 DEF PcOK, OthersMove, Thread
<1>2. ASSUME NEW c \in Client
      PROVE  pc'[c] \in DispatchPc \cup DestroyPc \cup {"idle"}
  BY <1>2 DEF PcOK, OthersMove, Thread
<1>3. ASSUME NEW u \in Thread
      PROVE  pc'[u] \in DispatchPc \ {"dStray"} => todo'[u] # <<>>
  BY <1>3 DEF PcOK, OthersMove
<1>4. pc' \in [Thread -> WorkerPc \cup DispatchPc \cup DestroyPc \cup {"idle"}]
  <2>1. \A u \in Thread :
          pc'[u] \in WorkerPc \cup DispatchPc \cup DestroyPc \cup {"idle"}
    BY <1>1, <1>2 DEF Thread
  <2>. QED
    BY <2>1
<1>. QED
  BY <1>1, <1>2, <1>3, <1>4 DEF PcOK

-----------------------------------------------------------------------------
LEMMA TypeInit == Init => TypeOK
<1> SUFFICES ASSUME Init PROVE TypeOK
  OBVIOUS
<1> USE PoolAssumption, QueueAssumption DEF Init, Thread
<1>1. DataOK
  <2>1. live \in Int
    BY FS_CardinalityType
  <2>2. capacity \in Nat /\ orders \in Seq(Job)
    BY DEF MakeQueue, InitCap
  <2>3. todo \in [Thread -> Seq(Job)]
    <3>1. \A t \in Thread : (IF t \in Worker THEN <<>> ELSE Roots[t]) \in Seq(Job)
      BY EmptySeq
    <3>. QED
      BY <3>1
  <2>4. myjob \in [Worker -> Job \cup {None}]
    OBVIOUS
  <2>. QED
    BY <2>1, <2>2, <2>3, <2>4 DEF DataOK
<1>2. PcOK
  BY DEF PcOK, WorkerPc, DispatchPc, DestroyPc
<1>. QED
  BY <1>1, <1>2 DEF TypeOK

LEMMA TypeStep == TypeOK /\ [Next]_vars => TypeOK'
<1> SUFFICES ASSUME TypeOK, [Next]_vars PROVE TypeOK'
  OBVIOUS
<1> USE PoolAssumption DEF TypeOK, Thread
<1>1. ASSUME NEW t \in Thread, Lock(t) PROVE TypeOK'
  <2> DEFINE next == Acquired[pc[t]]
  <2>1. DataOK'
    BY <1>1 DEF Lock, DataOK
  <2>2. /\ Go(t, next) /\ todo' = todo /\ myjob' = myjob
        /\ pc[t] \in {"wLock", "dLock", "xLock", "xRelock"}
    BY <1>1 DEF Lock, Acquired
  <2>3. next = CASE pc[t] = "wLock" -> "wLoop" [] pc[t] = "dLock" -> "dLoop"
                 [] pc[t] = "xLock" -> "xSet" [] pc[t] = "xRelock" -> "xLoop"
    BY <2>2 DEF Acquired
  <2>4. /\ t \in Worker => /\ next \in WorkerPc \cup DispatchPc
                           /\ next \in DispatchPc \cup {"run"}
                                <=> myjob'[t] \in Job
        /\ t \in Client => next \in DispatchPc \cup DestroyPc \cup {"idle"}
        /\ next \in DispatchPc \ {"dStray"} => todo'[t] # <<>>
    BY <2>2, <2>3 DEF PcOK, WorkerPc, DispatchPc, DestroyPc
  <2> HIDE DEF next
  <2>5. /\ pc' = [u \in Thread |-> pc'[u]] /\ pc'[t] = next /\ OthersMove(t)
    BY <2>2, GoMoves
  <2>. QED
    BY <2>1, <2>2, <2>4, <2>5, PcStep
<1>2. ASSUME NEW t \in Thread, StrayUnlock(t) PROVE TypeOK'
  <2> DEFINE next == AfterStray(t)
  <2>1. DataOK'
    BY <1>2 DEF StrayUnlock, DataOK
  <2>2. /\ Go(t, next) /\ todo' = todo /\ myjob' = myjob
        /\ pc[t] \in {"wStray", "dStray"}
    BY <1>2 DEF StrayUnlock, AfterStray
  <2>3. next = IF pc[t] = "wStray" THEN "gone"
               ELSE IF t \in Worker THEN "run" ELSE "idle"
    BY DEF AfterStray
  <2>4. /\ t \in Worker => /\ next \in WorkerPc \cup DispatchPc
                           /\ next \in DispatchPc \cup {"run"}
                                <=> myjob'[t] \in Job
        /\ t \in Client => next \in DispatchPc \cup DestroyPc \cup {"idle"}
        /\ next \in DispatchPc \ {"dStray"} => todo'[t] # <<>>
    BY <2>2, <2>3 DEF PcOK, WorkerPc, DispatchPc, DestroyPc
  <2> HIDE DEF next
  <2>5. /\ pc' = [u \in Thread |-> pc'[u]] /\ pc'[t] = next /\ OthersMove(t)
    BY <2>2, GoMoves
  <2>. QED
    BY <2>1, <2>2, <2>4, <2>5, PcStep
<1>3. ASSUME NEW t \in Thread, SpuriousWake(t) PROVE TypeOK'
  <2> DEFINE next == Woken[pc[t]]
  <2>1. DataOK'
    BY <1>3 DEF SpuriousWake, DataOK
  <2>2. /\ Go(t, next) /\ todo' = todo /\ myjob' = myjob
        /\ pc[t] \in {"wPosted", "dTaken", "xTaken"}
    BY <1>3 DEF SpuriousWake, Woken
  <2>3. next = CASE pc[t] = "wPosted" -> "wLock" [] pc[t] = "dTaken" -> "dLock"
                 [] pc[t] = "xTaken" -> "xRelock"
    BY <2>2 DEF Woken
  <2>4. /\ t \in Worker => /\ next \in WorkerPc \cup DispatchPc
                           /\ next \in DispatchPc \cup {"run"}
                                <=> myjob'[t] \in Job
        /\ t \in Client => next \in DispatchPc \cup DestroyPc \cup {"idle"}
        /\ next \in DispatchPc \ {"dStray"} => todo'[t] # <<>>
    BY <2>2, <2>3 DEF PcOK, WorkerPc, DispatchPc, DestroyPc
  <2> HIDE DEF next
  <2>5. /\ pc' = [u \in Thread |-> pc'[u]] /\ pc'[t] = next /\ OthersMove(t)
    BY <2>2, GoMoves
  <2>. QED
    BY <2>1, <2>2, <2>4, <2>5, PcStep
<1>18. ASSUME NEW t \in Thread, CondWait(t) PROVE TypeOK'
  <2> DEFINE next == Asleep[pc[t]]
  <2>1. DataOK'
    BY <1>18 DEF CondWait, DataOK
  <2>2. /\ Go(t, next) /\ todo' = todo /\ myjob' = myjob
        /\ pc[t] \in {"wWait", "dWait", "xWait"}
    BY <1>18 DEF CondWait, Asleep
  <2>3. next = CASE pc[t] = "wWait" -> "wPosted" [] pc[t] = "dWait" -> "dTaken"
                 [] pc[t] = "xWait" -> "xTaken"
    BY <2>2 DEF Asleep
  <2>4. /\ t \in Worker => /\ next \in WorkerPc \cup DispatchPc
                           /\ next \in DispatchPc \cup {"run"}
                                <=> myjob'[t] \in Job
        /\ t \in Client => next \in DispatchPc \cup DestroyPc \cup {"idle"}
        /\ next \in DispatchPc \ {"dStray"} => todo'[t] # <<>>
    BY <2>2, <2>3 DEF PcOK, WorkerPc, DispatchPc, DestroyPc
  <2> HIDE DEF next
  <2>5. /\ pc' = [u \in Thread |-> pc'[u]] /\ pc'[t] = next /\ OthersMove(t)
    BY <2>2, GoMoves
  <2>. QED
    BY <2>1, <2>2, <2>4, <2>5, PcStep
<1>4. ASSUME NEW w \in Worker, WaitForJob(w) PROVE TypeOK'
  <2>1. DataOK'
    BY <1>4 DEF WaitForJob, DataOK
  <2>2. /\ Go(w, "wWait") /\ pc[w] = "wLoop" /\ w \in Worker /\ w \notin Client
        /\ \A u \in Thread \ {w} : todo'[u] = todo[u]
        /\ \A u \in Worker \ {w} : myjob'[u] = myjob[u]
    BY <1>4 DEF WaitForJob, DataOK
  <2>4. /\ pc' = [u \in Thread |-> pc'[u]] /\ pc'[w] = "wWait" /\ OthersMove(w)
    BY <2>2, GoMoves
  <2>. QED
    BY <1>4, <2>1, <2>2, <2>4, PcStep
       DEF WaitForJob, DataOK, PcOK, WorkerPc, DispatchPc, DestroyPc
<1>5. ASSUME NEW w \in Worker, FindJob(w) PROVE TypeOK'
  <2>1. DataOK'
    BY <1>5 DEF FindJob, DataOK
  <2>2. /\ Go(w, "wTake") /\ pc[w] = "wLoop" /\ w \in Worker /\ w \notin Client
        /\ \A u \in Thread \ {w} : todo'[u] = todo[u]
        /\ \A u \in Worker \ {w} : myjob'[u] = myjob[u]
    BY <1>5 DEF FindJob, DataOK
  <2>4. /\ pc' = [u \in Thread |-> pc'[u]] /\ pc'[w] = "wTake" /\ OthersMove(w)
    BY <2>2, GoMoves
  <2>. QED
    BY <1>5, <2>1, <2>2, <2>4, PcStep
       DEF FindJob, DataOK, PcOK, WorkerPc, DispatchPc, DestroyPc
<1>6. ASSUME NEW w \in Worker, TakeJob(w) PROVE TypeOK'
  <2>1. DataOK'
    BY <1>6, HeadTailProperties DEF TakeJob, DataOK, GetWorkOrder, IsJobAvailable
  <2>2. /\ GoAndSignal(w, "run", OnTaken) /\ pc[w] = "wTake" /\ w \in Worker /\ w \notin Client
        /\ \A u \in Thread \ {w} : todo'[u] = todo[u]
        /\ \A u \in Worker \ {w} : myjob'[u] = myjob[u]
    BY <1>6 DEF TakeJob, DataOK, GetWorkOrder
  <2>3. w \notin OnTaken
    BY <2>2 DEF OnTaken
  <2>4. /\ pc' = [u \in Thread |-> pc'[u]] /\ pc'[w] = "run" /\ OthersMove(w)
    BY <2>2, <2>3, SignalMoves
  <2>5. myjob'[w] \in Job
    <3>1. Head(orders) \in Job
      BY <1>6, HeadTailProperties DEF TakeJob, DataOK, IsJobAvailable
    <3>. QED
      BY <1>6, <3>1 DEF TakeJob, DataOK
  <2>. QED
    BY <2>1, <2>2, <2>4, <2>5, PcStep
       DEF PcOK, WorkerPc, DispatchPc, DestroyPc
<1>7. ASSUME NEW w \in Worker, FinishJob(w) PROVE TypeOK'
  <2>1. DataOK'
    <3>1. myjob[w] \in Job
      BY <1>7 DEF FinishJob, PcOK
    <3>. QED
      BY <1>7, <3>1 DEF FinishJob, DataOK
  <2>2. /\ Go(w, "wLock") /\ pc[w] = "run" /\ w \in Worker /\ w \notin Client
        /\ \A u \in Thread \ {w} : todo'[u] = todo[u]
        /\ \A u \in Worker \ {w} : myjob'[u] = myjob[u]
    BY <1>7 DEF FinishJob, DataOK
  <2>4. /\ pc' = [u \in Thread |-> pc'[u]] /\ pc'[w] = "wLock" /\ OthersMove(w)
    BY <2>2, GoMoves
  <2>. QED
    BY <1>7, <2>1, <2>2, <2>4, PcStep, ZenonT(30)
       DEF FinishJob, DataOK, PcOK, WorkerPc, DispatchPc, DestroyPc
<1>8. ASSUME NEW w \in Worker, Leave(w) PROVE TypeOK'
  <2>1. DataOK'
    BY <1>8 DEF Leave, DataOK
  <2>2. /\ GoAndSignal(w, "wStray", OnTaken) /\ pc[w] = "wLoop" /\ w \in Worker /\ w \notin Client
        /\ \A u \in Thread \ {w} : todo'[u] = todo[u]
        /\ \A u \in Worker \ {w} : myjob'[u] = myjob[u]
    BY <1>8 DEF Leave, DataOK
  <2>3. w \notin OnTaken
    BY <2>2 DEF OnTaken
  <2>4. /\ pc' = [u \in Thread |-> pc'[u]] /\ pc'[w] = "wStray" /\ OthersMove(w)
    BY <2>2, <2>3, SignalMoves
  <2>. QED
    BY <1>8, <2>1, <2>2, <2>4, PcStep
       DEF Leave, DataOK, PcOK, WorkerPc, DispatchPc, DestroyPc
<1>9. ASSUME NEW t \in Thread, WaitForRoom(t) PROVE TypeOK'
  <2>1. DataOK'
    BY <1>9 DEF WaitForRoom, DataOK
  <2>2. /\ GoAndSignal(t, "dWait", OnPosted) /\ pc[t] = "dLoop" /\ t \in Thread
        /\ \A u \in Thread \ {t} : todo'[u] = todo[u]
        /\ \A u \in Worker \ {t} : myjob'[u] = myjob[u]
    BY <1>9 DEF WaitForRoom, DataOK
  <2>3. t \notin OnPosted
    BY <2>2 DEF OnPosted
  <2>4. /\ pc' = [u \in Thread |-> pc'[u]] /\ pc'[t] = "dWait" /\ OthersMove(t)
    BY <2>2, <2>3, SignalMoves
  <2>. QED
    BY <1>9, <2>1, <2>2, <2>4, PcStep
       DEF WaitForRoom, DataOK, PcOK, WorkerPc, DispatchPc, DestroyPc
<1>10. ASSUME NEW t \in Thread, Post(t) PROVE TypeOK'
  <2>1. DataOK'
    <3>1. todo[t] \in Seq(Job) /\ todo[t] # <<>>
      BY <1>10 DEF Post, DataOK, PcOK, DispatchPc
    <3>2. Head(todo[t]) \in Job /\ Tail(todo[t]) \in Seq(Job)
      BY <3>1, HeadTailProperties
    <3>. QED
      BY <1>10, <3>2 DEF Post, DataOK, AddWorkOrder
  <2>2. /\ GoAndSignal(t, "dStray", OnPosted) /\ pc[t] = "dLoop" /\ t \in Thread
        /\ \A u \in Thread \ {t} : todo'[u] = todo[u]
        /\ \A u \in Worker \ {t} : myjob'[u] = myjob[u]
    BY <1>10 DEF Post, DataOK
  <2>3. t \notin OnPosted
    BY <2>2 DEF OnPosted
  <2>4. /\ pc' = [u \in Thread |-> pc'[u]] /\ pc'[t] = "dStray" /\ OthersMove(t)
    BY <2>2, <2>3, SignalMoves
  <2>. QED
    BY <1>10, <2>1, <2>2, <2>4, PcStep
       DEF Post, DataOK, PcOK, WorkerPc, DispatchPc, DestroyPc
<1>11. ASSUME NEW c \in Client, CallDestroy(c) PROVE TypeOK'
  <2>1. DataOK'
    BY <1>11 DEF CallDestroy, DataOK
  <2>2. /\ Go(c, "xLock") /\ pc[c] = "idle" /\ c \in Client /\ c \notin Worker
        /\ \A u \in Thread \ {c} : todo'[u] = todo[u]
        /\ \A u \in Worker \ {c} : myjob'[u] = myjob[u]
    BY <1>11 DEF CallDestroy, DataOK
  <2>4. /\ pc' = [u \in Thread |-> pc'[u]] /\ pc'[c] = "xLock" /\ OthersMove(c)
    BY <2>2, GoMoves
  <2>. QED
    BY <1>11, <2>1, <2>2, <2>4, PcStep
       DEF CallDestroy, DataOK, PcOK, WorkerPc, DispatchPc, DestroyPc
<1>12. ASSUME NEW c \in Client, SetExit(c) PROVE TypeOK'
  <2>1. DataOK'
    BY <1>12 DEF SetExit, DataOK
  <2>2. /\ Go(c, "xLoop") /\ pc[c] = "xSet" /\ c \in Client /\ c \notin Worker
        /\ \A u \in Thread \ {c} : todo'[u] = todo[u]
        /\ \A u \in Worker \ {c} : myjob'[u] = myjob[u]
    BY <1>12 DEF SetExit, DataOK
  <2>4. /\ pc' = [u \in Thread |-> pc'[u]] /\ pc'[c] = "xLoop" /\ OthersMove(c)
    BY <2>2, GoMoves
  <2>. QED
    BY <1>12, <2>1, <2>2, <2>4, PcStep
       DEF SetExit, DataOK, PcOK, WorkerPc, DispatchPc, DestroyPc
<1>13. ASSUME NEW c \in Client, WaitForExit(c) PROVE TypeOK'
  <2>1. DataOK'
    BY <1>13 DEF WaitForExit, DataOK
  <2>2. /\ GoAndSignal(c, "xWait", OnPosted) /\ pc[c] = "xLoop" /\ c \in Client /\ c \notin Worker
        /\ \A u \in Thread \ {c} : todo'[u] = todo[u]
        /\ \A u \in Worker \ {c} : myjob'[u] = myjob[u]
    BY <1>13 DEF WaitForExit, DataOK
  <2>3. c \notin OnPosted
    BY <2>2 DEF OnPosted
  <2>4. /\ pc' = [u \in Thread |-> pc'[u]] /\ pc'[c] = "xWait" /\ OthersMove(c)
    BY <2>2, <2>3, SignalMoves
  <2>. QED
    BY <1>13, <2>1, <2>2, <2>4, PcStep
       DEF WaitForExit, DataOK, PcOK, WorkerPc, DispatchPc, DestroyPc
<1>14. ASSUME NEW c \in Client, StopWaiting(c) PROVE TypeOK'
  <2>1. DataOK'
    BY <1>14 DEF StopWaiting, DataOK
  <2>2. /\ Go(c, "xFree") /\ pc[c] = "xLoop" /\ c \in Client /\ c \notin Worker
        /\ \A u \in Thread \ {c} : todo'[u] = todo[u]
        /\ \A u \in Worker \ {c} : myjob'[u] = myjob[u]
    BY <1>14 DEF StopWaiting, DataOK
  <2>4. /\ pc' = [u \in Thread |-> pc'[u]] /\ pc'[c] = "xFree" /\ OthersMove(c)
    BY <2>2, GoMoves
  <2>. QED
    BY <1>14, <2>1, <2>2, <2>4, PcStep
       DEF StopWaiting, DataOK, PcOK, WorkerPc, DispatchPc, DestroyPc
<1>15. ASSUME NEW c \in Client, FreePool(c) PROVE TypeOK'
  <2>1. DataOK'
    BY <1>15 DEF FreePool, DataOK
  <2>2. /\ Go(c, "xDone") /\ pc[c] = "xFree" /\ c \in Client /\ c \notin Worker
        /\ \A u \in Thread \ {c} : todo'[u] = todo[u]
        /\ \A u \in Worker \ {c} : myjob'[u] = myjob[u]
    BY <1>15 DEF FreePool, DataOK
  <2>4. /\ pc' = [u \in Thread |-> pc'[u]] /\ pc'[c] = "xDone" /\ OthersMove(c)
    BY <2>2, GoMoves
  <2>. QED
    BY <1>15, <2>1, <2>2, <2>4, PcStep
       DEF FreePool, DataOK, PcOK, WorkerPc, DispatchPc, DestroyPc
<1>16. ASSUME NEW t \in Thread, CallDispatch(t) PROVE TypeOK'
  <2>1. todo[t] \in Seq(Job) /\ todo[t] # <<>>
        /\ pc[t] = IF t \in Worker THEN "run" ELSE "idle"
    BY <1>16 DEF CallDispatch, DataOK
  <2>2. DataOK'
    <3>1. Tail(todo[t]) \in Seq(Job)
      BY <2>1, HeadTailProperties
    <3>2. todo' \in [Thread -> Seq(Job)]
      BY <1>16, <3>1 DEF CallDispatch, DataOK
    <3>. QED
      BY <1>16, <3>2 DEF CallDispatch, DataOK
  <2>3. CASE UNCHANGED pc
    <3>1. \A u \in Thread : pc[u] \in DispatchPc => todo'[u] = todo[u]
      BY <1>16, <2>1 DEF CallDispatch, DataOK, DispatchPc
    <3>. QED
      BY <1>16, <2>2, <2>3, <3>1 DEF CallDispatch, PcOK
  <2>4. CASE Go(t, "dLock") /\ UNCHANGED todo
    <3>1. /\ pc' = [u \in Thread |-> pc'[u]] /\ pc'[t] = "dLock" /\ OthersMove(t)
      BY <2>4, GoMoves
    <3>2. myjob' = myjob
      BY <1>16 DEF CallDispatch
    <3>. QED
      BY <2>1, <2>2, <2>4, <3>1, <3>2, PcStep
         DEF PcOK, WorkerPc, DispatchPc, DestroyPc
  <2>. QED
    BY <1>16, <2>3, <2>4 DEF CallDispatch
<1>17. CASE UNCHANGED vars
  BY <1>17 DEF vars, DataOK, PcOK
<1>. QED
  BY <1>1, <1>2, <1>3, <1>4, <1>5, <1>6, <1>7, <1>8, <1>9, <1>10, <1>11, <1>12, <1>13, <1>14, <1>15, <1>16, <1>17, <1>18
     DEF Next, DoWork, Dispatch, Destroy

\* Every thread of the pool is at a place of its role, a call of dispatch
\* has a job in hand, and a worker has a job exactly while it runs one.
THEOREM Types == Spec => []TypeOK
  BY TypeInit, TypeStep, PTL DEF Spec
-----------------------------------------------------------------------------
(* How each action moves the threads.                                      *)

\* t goes from one place to another and wakes up one of waiting, if any.
Moves(t, from, to, waiting) ==
  /\ pc[t] = from /\ pc'[t] = to /\ OthersMove(t)
  /\ \A u \in Thread \ {t} : u \notin waiting => pc'[u] = pc[u]
  /\ waiting # {} =>
       \E u \in waiting : /\ u \in Thread \ {t} /\ pc'[u] = Woken[pc[u]]
                          /\ \A v \in Thread \ {t, u} : pc'[v] = pc[v]

LEMMA WorkerMoves ==
  ASSUME TypeOK, NEW w \in Worker
  PROVE  /\ WaitForJob(w) => Moves(w, "wLoop", "wWait", {})
         /\ FindJob(w) => Moves(w, "wLoop", "wTake", {})
         /\ TakeJob(w) => Moves(w, "wTake", "run", OnTaken)
         /\ FinishJob(w) => Moves(w, "run", "wLock", {})
         /\ Leave(w) => Moves(w, "wLoop", "wStray", OnTaken)
<1>1. ASSUME WaitForJob(w) PROVE Moves(w, "wLoop", "wWait", {})
  BY <1>1, GoMoves DEF WaitForJob, TypeOK, Moves, Thread
<1>2. ASSUME FindJob(w) PROVE Moves(w, "wLoop", "wTake", {})
  BY <1>2, GoMoves DEF FindJob, TypeOK, Moves, Thread
<1>3. ASSUME TakeJob(w) PROVE Moves(w, "wTake", "run", OnTaken)
  <2>1. pc[w] = "wTake" /\ GoAndSignal(w, "run", OnTaken) /\ w \notin OnTaken
    BY <1>3 DEF TakeJob, OnTaken
  <2>2. OnTaken \subseteq Thread
    BY DEF OnTaken, Thread
  <2>. QED
    BY <2>1, <2>2, SignalMoves DEF TypeOK, Moves, Thread
<1>4. ASSUME FinishJob(w) PROVE Moves(w, "run", "wLock", {})
  BY <1>4, GoMoves DEF FinishJob, TypeOK, Moves, Thread
<1>5. ASSUME Leave(w) PROVE Moves(w, "wLoop", "wStray", OnTaken)
  <2>1. pc[w] = "wLoop" /\ GoAndSignal(w, "wStray", OnTaken) /\ w \notin OnTaken
    BY <1>5 DEF Leave, OnTaken
  <2>2. OnTaken \subseteq Thread
    BY DEF OnTaken, Thread
  <2>. QED
    BY <2>1, <2>2, SignalMoves DEF TypeOK, Moves, Thread
<1>. QED
  BY <1>1, <1>2, <1>3, <1>4, <1>5

LEMMA DispatchMoves ==
  ASSUME TypeOK, NEW t \in Thread
  PROVE  /\ WaitForRoom(t) => Moves(t, "dLoop", "dWait", OnPosted)
         /\ Post(t) => Moves(t, "dLoop", "dStray", OnPosted)
<1>1. ASSUME WaitForRoom(t) PROVE Moves(t, "dLoop", "dWait", OnPosted)
  <2>1. pc[t] = "dLoop" /\ GoAndSignal(t, "dWait", OnPosted) /\ t \notin OnPosted
    BY <1>1 DEF WaitForRoom, OnPosted
  <2>2. OnPosted \subseteq Thread
    BY DEF OnPosted, Thread
  <2>. QED
    BY <2>1, <2>2, SignalMoves DEF TypeOK, Moves, Thread
<1>2. ASSUME Post(t) PROVE Moves(t, "dLoop", "dStray", OnPosted)
  <2>1. pc[t] = "dLoop" /\ GoAndSignal(t, "dStray", OnPosted) /\ t \notin OnPosted
    BY <1>2 DEF Post, OnPosted
  <2>2. OnPosted \subseteq Thread
    BY DEF OnPosted, Thread
  <2>. QED
    BY <2>1, <2>2, SignalMoves DEF TypeOK, Moves, Thread
<1>. QED
  BY <1>1, <1>2

LEMMA DestroyMoves ==
  ASSUME TypeOK, NEW c \in Client
  PROVE  /\ CallDestroy(c) => Moves(c, "idle", "xLock", {})
         /\ SetExit(c) => Moves(c, "xSet", "xLoop", {})
         /\ WaitForExit(c) => Moves(c, "xLoop", "xWait", OnPosted)
         /\ StopWaiting(c) => Moves(c, "xLoop", "xFree", {})
         /\ FreePool(c) => Moves(c, "xFree", "xDone", {})
<1>1. ASSUME CallDestroy(c) PROVE Moves(c, "idle", "xLock", {})
  BY <1>1, GoMoves DEF CallDestroy, TypeOK, Moves, Thread
<1>2. ASSUME SetExit(c) PROVE Moves(c, "xSet", "xLoop", {})
  BY <1>2, GoMoves DEF SetExit, TypeOK, Moves, Thread
<1>3. ASSUME WaitForExit(c) PROVE Moves(c, "xLoop", "xWait", OnPosted)
  <2>1. pc[c] = "xLoop" /\ GoAndSignal(c, "xWait", OnPosted) /\ c \notin OnPosted
    BY <1>3 DEF WaitForExit, OnPosted
  <2>2. OnPosted \subseteq Thread
    BY DEF OnPosted, Thread
  <2>. QED
    BY <2>1, <2>2, SignalMoves DEF TypeOK, Moves, Thread
<1>4. ASSUME StopWaiting(c) PROVE Moves(c, "xLoop", "xFree", {})
  BY <1>4, GoMoves DEF StopWaiting, TypeOK, Moves, Thread
<1>5. ASSUME FreePool(c) PROVE Moves(c, "xFree", "xDone", {})
  BY <1>5, GoMoves DEF FreePool, TypeOK, Moves, Thread
<1>. QED
  BY <1>1, <1>2, <1>3, <1>4, <1>5

LEMMA OtherMoves ==
  ASSUME TypeOK, NEW t \in Thread
  PROVE  /\ Lock(t) =>
              /\ Moves(t, pc[t], pc'[t], {})
              /\ <<pc[t], pc'[t]>> \in {<<"wLock", "wLoop">>, <<"dLock", "dLoop">>,
                                        <<"xLock", "xSet">>, <<"xRelock", "xLoop">>}
         /\ StrayUnlock(t) =>
              /\ Moves(t, pc[t], pc'[t], {})
              /\ pc[t] = "wStray" => pc'[t] = "gone"
              /\ pc[t] # "wStray" => pc[t] = "dStray" /\ pc'[t] \in {"run", "idle"}
         /\ CondWait(t) =>
              /\ Moves(t, pc[t], pc'[t], {})
              /\ <<pc[t], pc'[t]>> \in {<<"wWait", "wPosted">>, <<"dWait", "dTaken">>,
                                        <<"xWait", "xTaken">>}
         /\ SpuriousWake(t) =>
              /\ Moves(t, pc[t], pc'[t], {})
              /\ <<pc[t], pc'[t]>> \in {<<"wPosted", "wLock">>, <<"dTaken", "dLock">>,
                                        <<"xTaken", "xRelock">>}
         /\ CallDispatch(t) =>
              pc' = pc \/ (/\ Moves(t, pc[t], "dLock", {})
                           /\ pc[t] \in {"run", "idle"})
<1>1. ASSUME NEW next, Go(t, next)
      PROVE  Moves(t, pc[t], next, {}) /\ pc'[t] = next
  BY <1>1, GoMoves DEF TypeOK, Moves
<1>2. ASSUME Lock(t)
      PROVE  /\ Moves(t, pc[t], pc'[t], {})
             /\ <<pc[t], pc'[t]>> \in {<<"wLock", "wLoop">>, <<"dLock", "dLoop">>,
                                       <<"xLock", "xSet">>, <<"xRelock", "xLoop">>}
  BY <1>1, <1>2 DEF Lock, Acquired
<1>3. ASSUME StrayUnlock(t)
      PROVE  /\ Moves(t, pc[t], pc'[t], {})
             /\ pc[t] = "wStray" => pc'[t] = "gone"
             /\ pc[t] # "wStray" => pc[t] = "dStray" /\ pc'[t] \in {"run", "idle"}
  BY <1>1, <1>3 DEF StrayUnlock, AfterStray
<1>4. ASSUME SpuriousWake(t)
      PROVE  /\ Moves(t, pc[t], pc'[t], {})
             /\ <<pc[t], pc'[t]>> \in {<<"wPosted", "wLock">>, <<"dTaken", "dLock">>,
                                       <<"xTaken", "xRelock">>}
  BY <1>1, <1>4 DEF SpuriousWake, Woken
<1>5. ASSUME CallDispatch(t)
      PROVE  pc' = pc \/ (/\ Moves(t, pc[t], "dLock", {})
                          /\ pc[t] \in {"run", "idle"})
  BY <1>1, <1>5 DEF CallDispatch
<1>6. ASSUME CondWait(t)
      PROVE  /\ Moves(t, pc[t], pc'[t], {})
             /\ <<pc[t], pc'[t]>> \in {<<"wWait", "wPosted">>, <<"dWait", "dTaken">>,
                                       <<"xWait", "xTaken">>}
  BY <1>1, <1>6 DEF CondWait, Asleep
<1>. QED
  BY <1>2, <1>3, <1>4, <1>5, <1>6
-----------------------------------------------------------------------------
(* What a thread has seen under the mutex stays true until it acts on it,  *)
(* as long as no second unlock frees a mutex that is held.                 *)

\* No thread but the one that moves enters or leaves the protected code, the
\* place between finding a job and taking it, or that between a decision to
\* wait and falling asleep.
LEMMA OthersStay ==
  ASSUME NEW t \in Thread, OthersMove(t)
  PROVE  \A u \in Thread \ {t} : /\ pc'[u] \in Holding <=> pc[u] \in Holding
                                 /\ pc'[u] = "wTake" <=> pc[u] = "wTake"
                                 /\ pc'[u] = "wWait" <=> pc[u] = "wWait"
                                 /\ pc'[u] = "dWait" <=> pc[u] = "dWait"
  BY DEF OthersMove, Holding

\* A thread between its lock and the unlock or wait that matches it is the
\* mutex's holder.
MutualExclusion ==
  /\ \A t \in Thread : pc[t] \in Holding => mutex = t
  /\ mutex # Free => pc[mutex] \in Holding

\* A worker about to sleep would still find no job, and a dispatcher no room.
WaitsWell ==
  /\ \A w \in Worker : pc[w] = "wWait" => ~IsJobAvailable
  /\ \A t \in Thread : pc[t] = "dWait" => ~CanAcceptWork

LockInv == MutualExclusion /\ TakeFindsWork /\ WaitsWell

\* A step that leaves the mutex and the queue alone.
LEMMA KeepStep ==
  ASSUME DataOK, LockInv, NEW t \in Thread, OthersMove(t),
         mutex' = mutex, orders' = orders, capacity' = capacity,
         pc[t] \in Holding <=> pc'[t] \in Holding,
         pc'[t] = "wTake" => IsJobAvailable,
         pc'[t] = "wWait" => ~IsJobAvailable,
         pc'[t] = "dWait" => ~CanAcceptWork
  PROVE  LockInv'
<1>1. \A u \in Thread : pc'[u] \in Holding <=> pc[u] \in Holding
  BY OthersStay
<1>2. MutualExclusion'
  BY <1>1 DEF LockInv, MutualExclusion, DataOK
<1>3. TakeFindsWork'
  BY OthersStay DEF LockInv, TakeFindsWork, IsJobAvailable, Thread
<1>4. /\ IsJobAvailable' <=> IsJobAvailable
      /\ CanAcceptWork' <=> CanAcceptWork
  BY DEF IsJobAvailable, CanAcceptWork, HasFreeNode
<1>5. WaitsWell'
  BY <1>4, OthersStay DEF LockInv, WaitsWell, Thread
<1>. QED
  BY <1>2, <1>3, <1>5 DEF LockInv

\* A thread takes the free mutex.
LEMMA AcquireStep ==
  ASSUME LockInv, NEW t \in Thread, OthersMove(t),
         mutex = Free, mutex' = t, orders' = orders,
         pc'[t] \in Holding, pc'[t] \notin {"wTake", "wWait", "dWait"}
  PROVE  LockInv'
<1>1. MutualExclusion'
  BY OthersStay, PoolAssumption DEF LockInv, MutualExclusion
<1>2. TakeFindsWork'
  BY OthersStay DEF LockInv, TakeFindsWork, IsJobAvailable, Thread
<1>3. \A u \in Thread : pc'[u] \notin {"wWait", "dWait"}
  BY OthersStay, PoolAssumption DEF LockInv, MutualExclusion, Holding
<1>4. WaitsWell'
  BY <1>3 DEF WaitsWell, Thread
<1>. QED
  BY <1>1, <1>2, <1>4 DEF LockInv

\* The holder releases the mutex; it may have changed the queue.
LEMMA ReleaseStep ==
  ASSUME LockInv, NEW t \in Thread, OthersMove(t),
         pc[t] \in Holding, mutex' = Free, pc'[t] \notin Holding
  PROVE  LockInv'
<1>1. \A u \in Thread : u # t => pc[u] \notin Holding
  BY PoolAssumption DEF LockInv, MutualExclusion
<1>2. \A u \in Thread : pc'[u] \notin Holding
  BY <1>1, OthersStay
<1>3. MutualExclusion'
  BY <1>2 DEF MutualExclusion
<1>4. TakeFindsWork'
  BY <1>2 DEF TakeFindsWork, Holding, Thread
<1>5. WaitsWell'
  BY <1>2 DEF WaitsWell, Holding, Thread
<1>. QED
  BY <1>3, <1>4, <1>5 DEF LockInv

LEMMA LockStep ==
  ASSUME StrayHarmless, TypeOK, LockInv, [Next]_vars
  PROVE  LockInv'
<1> USE DEF Thread
<1>0. DataOK
  BY DEF TypeOK
<1>1. ASSUME NEW t \in Thread, Lock(t) PROVE LockInv'
  <2>1. mutex = Free /\ mutex' = t /\ orders' = orders
    BY <1>1 DEF Lock
  <2>2. /\ OthersMove(t) /\ pc'[t] \in Holding
        /\ pc'[t] \notin {"wTake", "wWait", "dWait"}
    BY <1>1, OtherMoves DEF Moves, Holding
  <2>. QED
    BY <2>1, <2>2, AcquireStep
<1>2. ASSUME NEW t \in Thread, StrayUnlock(t) PROVE LockInv'
  <2>1. /\ mutex' = mutex /\ orders' = orders /\ capacity' = capacity
        /\ pc[t] \in {"wStray", "dStray"}
    BY <1>2 DEF StrayUnlock
  <2>2. OthersMove(t) /\ pc'[t] \in {"gone", "run", "idle"}
    BY <1>2, OtherMoves DEF Moves
  <2>3. /\ pc[t] \notin Holding /\ pc'[t] \notin Holding
        /\ pc'[t] \notin {"wTake", "wWait", "dWait"}
    BY <2>1, <2>2 DEF Holding
  <2>. QED
    BY <1>0, <2>1, <2>2, <2>3, KeepStep
<1>3. ASSUME NEW t \in Thread, SpuriousWake(t) PROVE LockInv'
  <2>1. mutex' = mutex /\ orders' = orders /\ capacity' = capacity
    BY <1>3 DEF SpuriousWake
  <2>2. /\ OthersMove(t)
        /\ <<pc[t], pc'[t]>> \in {<<"wPosted", "wLock">>, <<"dTaken", "dLock">>,
                                  <<"xTaken", "xRelock">>}
    BY <1>3, OtherMoves DEF Moves
  <2>3. /\ pc[t] \notin Holding /\ pc'[t] \notin Holding
        /\ pc'[t] \notin {"wTake", "wWait", "dWait"}
    BY <2>2 DEF Holding
  <2>. QED
    BY <1>0, <2>1, <2>2, <2>3, KeepStep
<1>4. ASSUME NEW t \in Thread, CallDispatch(t) PROVE LockInv'
  <2>1. mutex' = mutex /\ orders' = orders /\ capacity' = capacity
    BY <1>4 DEF CallDispatch
  <2>2. CASE pc' = pc
    BY <1>0, <2>1, <2>2
       DEF LockInv, MutualExclusion, TakeFindsWork, WaitsWell, IsJobAvailable,
           CanAcceptWork, HasFreeNode
  <2>3. CASE Moves(t, pc[t], "dLock", {}) /\ pc[t] \in {"run", "idle"}
    BY <1>0, <2>1, <2>3, KeepStep DEF Moves, Holding
  <2>. QED
    BY <1>4, <2>2, <2>3, OtherMoves
<1>5. ASSUME NEW t \in Thread, CondWait(t) PROVE LockInv'
  <2>1. mutex' = Free
    BY <1>5 DEF CondWait
  <2>2. OthersMove(t) /\ pc[t] \in Holding /\ pc'[t] \notin Holding
    BY <1>5, OtherMoves DEF Moves, Holding
  <2>. QED
    BY <2>1, <2>2, ReleaseStep
<1>6. ASSUME NEW t \in Thread, Post(t) PROVE LockInv'
  <2>1. mutex' = Free
    BY <1>6 DEF Post
  <2>2. OthersMove(t) /\ pc[t] \in Holding /\ pc'[t] \notin Holding
    BY <1>6, DispatchMoves DEF Moves, Holding
  <2>. QED
    BY <2>1, <2>2, ReleaseStep
<1>7. ASSUME NEW w \in Worker, TakeJob(w) \/ Leave(w) PROVE LockInv'
  <2>1. mutex' = Free
    BY <1>7 DEF TakeJob, Leave
  <2>2. OthersMove(w) /\ pc[w] \in Holding /\ pc'[w] \notin Holding
    BY <1>7, WorkerMoves DEF Moves, Holding
  <2>. QED
    BY <2>1, <2>2, ReleaseStep
<1>8. ASSUME NEW w \in Worker, WaitForJob(w) PROVE LockInv'
  <2>1. /\ mutex' = mutex /\ orders' = orders /\ capacity' = capacity
        /\ ~IsJobAvailable
    BY <1>8 DEF WaitForJob
  <2>2. OthersMove(w) /\ pc[w] = "wLoop" /\ pc'[w] = "wWait"
    BY <1>8, WorkerMoves DEF Moves
  <2>. QED
    BY <1>0, <2>1, <2>2, KeepStep DEF Holding
<1>9. ASSUME NEW t \in Thread, WaitForRoom(t) PROVE LockInv'
  <2>1. /\ mutex' = mutex /\ orders' = orders /\ capacity' = capacity
        /\ ~CanAcceptWork
    BY <1>9 DEF WaitForRoom
  <2>2. OthersMove(t) /\ pc[t] = "dLoop" /\ pc'[t] = "dWait"
    BY <1>9, DispatchMoves DEF Moves
  <2>. QED
    BY <1>0, <2>1, <2>2, KeepStep DEF Holding
<1>10. ASSUME NEW w \in Worker, FindJob(w) PROVE LockInv'
  <2>1. /\ mutex' = mutex /\ orders' = orders /\ capacity' = capacity
        /\ IsJobAvailable
    BY <1>10 DEF FindJob
  <2>2. OthersMove(w) /\ pc[w] = "wLoop" /\ pc'[w] = "wTake"
    BY <1>10, WorkerMoves DEF Moves
  <2>. QED
    BY <1>0, <2>1, <2>2, KeepStep DEF Holding
<1>11. ASSUME NEW w \in Worker, FinishJob(w) PROVE LockInv'
  <2>1. mutex' = mutex /\ orders' = orders /\ capacity' = capacity
    BY <1>11 DEF FinishJob
  <2>2. OthersMove(w) /\ pc[w] = "run" /\ pc'[w] = "wLock"
    BY <1>11, WorkerMoves DEF Moves
  <2>. QED
    BY <1>0, <2>1, <2>2, KeepStep DEF Holding
<1>12. ASSUME NEW c \in Client,
              CallDestroy(c) \/ SetExit(c) \/ WaitForExit(c) \/ FreePool(c)
       PROVE  LockInv'
  <2>1. mutex' = mutex /\ orders' = orders /\ capacity' = capacity
    BY <1>12 DEF CallDestroy, SetExit, WaitForExit, FreePool
  <2>2. /\ OthersMove(c) /\ pc'[c] \notin {"wTake", "wWait", "dWait"}
        /\ pc[c] \in Holding <=> pc'[c] \in Holding
    BY <1>12, DestroyMoves DEF Moves, Holding
  <2>. QED
    BY <1>0, <2>1, <2>2, KeepStep
<1>13. ASSUME NEW c \in Client, StopWaiting(c) PROVE LockInv'
  <2>1. mutex' = Free
    BY <1>13 DEF StopWaiting
  <2>2. OthersMove(c) /\ pc[c] \in Holding /\ pc'[c] \notin Holding
    BY <1>13, DestroyMoves DEF Moves, Holding
  <2>. QED
    BY <2>1, <2>2, ReleaseStep
<1>14. CASE UNCHANGED vars
  BY <1>14 DEF vars, LockInv, MutualExclusion, TakeFindsWork, WaitsWell,
               IsJobAvailable, CanAcceptWork, HasFreeNode
<1>. QED
  BY <1>1, <1>2, <1>3, <1>4, <1>5, <1>6, <1>7, <1>8, <1>9, <1>10, <1>11,
     <1>12, <1>13, <1>14
     DEF Next, DoWork, Dispatch, Destroy

LEMMA LockInit == Init => LockInv
  BY PoolAssumption
     DEF Init, LockInv, MutualExclusion, TakeFindsWork, WaitsWell, Holding, Thread

\* As long as no second unlock meets a mutex that is held, what a thread has
\* seen in the queue is still so when it takes a job or falls asleep.
LEMMA Locked == ASSUME StrayHarmless PROVE Spec => []LockInv
<1>1. TypeOK /\ LockInv /\ [Next]_vars => LockInv'
  BY LockStep
<1>. QED
  BY <1>1, LockInit, Types, PTL DEF Spec

-----------------------------------------------------------------------------
(* Wake-ups.                                                               *)
(*                                                                         *)
(* The threads that are awake are counted: a step of one thread takes at   *)
(* most itself out of a count, and a signal puts one sleeper in.  A thread *)
(* that has decided to wait is in no count, so what it saw must still be   *)
(* true when it falls asleep, and that needs StrayHarmless.                *)

\* The sets that are counted are finite.
LEMMA FiniteCounts ==
  /\ IsFiniteSet(Thread)
  /\ IsFiniteSet(Awake) /\ Cardinality(Awake) \in Nat
  /\ IsFiniteSet(Awake') /\ Cardinality(Awake') \in Nat
  /\ IsFiniteSet(Entering) /\ Cardinality(Entering) \in Nat
  /\ IsFiniteSet(Entering') /\ Cardinality(Entering') \in Nat
<1>1. IsFiniteSet(Thread) /\ IsFiniteSet(Worker)
  BY FS_Union, PoolAssumption DEF Thread
<1>2. /\ Awake \subseteq Worker /\ Awake' \subseteq Worker
      /\ Entering \subseteq Thread /\ Entering' \subseteq Thread
  BY DEF Awake, Entering
<1>3. /\ IsFiniteSet(Awake) /\ IsFiniteSet(Awake')
      /\ IsFiniteSet(Entering) /\ IsFiniteSet(Entering')
  BY <1>1, <1>2, FS_Subset
<1>. QED
  BY <1>1, <1>3, FS_CardinalityType

\* A set that keeps all of another but possibly one member has at most one
\* member less, and one that has a member more, one more.
LEMMA OneLess ==
  ASSUME NEW S, NEW T, NEW x \in S, IsFiniteSet(S), IsFiniteSet(T),
         S \ {x} \subseteq T
  PROVE  Cardinality(S) - 1 <= Cardinality(T)
<1>1. IsFiniteSet(S \ {x}) /\ Cardinality(S \ {x}) = Cardinality(S) - 1
  BY FS_RemoveElement
<1>2. Cardinality(S \ {x}) <= Cardinality(T)
  BY FS_Subset
<1>. QED
  BY <1>1, <1>2

LEMMA OneMore ==
  ASSUME NEW S, NEW T, NEW x, x \notin S, IsFiniteSet(S), IsFiniteSet(T),
         S \cup {x} \subseteq T
  PROVE  Cardinality(S) + 1 <= Cardinality(T)
<1>1. /\ IsFiniteSet(S \cup {x})
      /\ Cardinality(S \cup {x}) = Cardinality(S) + 1
  BY FS_AddElement
<1>2. Cardinality(S \cup {x}) <= Cardinality(T)
  BY FS_Subset
<1>. QED
  BY <1>1, <1>2

-----------------------------------------------------------------------------
(* Where the threads that do not move stand in the counts.                 *)

\* Nobody but the thread that moves falls asleep, leaves the workers that
\* are awake or the dispatchers on their way in, or signs off.
LEMMA OthersCount ==
  ASSUME NEW t \in Thread, OthersMove(t)
  PROVE  /\ Awake \ {t} \subseteq Awake'
         /\ Entering \ {t} \subseteq Entering'
         /\ OnPosted' \subseteq OnPosted \cup {t}
         /\ OnTaken' \subseteq OnTaken \cup {t}
         /\ Left \ {t} = Left' \ {t}
  BY DEF OthersMove, Awake, Entering, OnPosted, OnTaken, Left, Thread

\* A step that leaves the queue's length, the worker that moves awake if it
\* was, and puts nobody to sleep on job_posted.
LEMMA QuietForWork ==
  ASSUME TypeOK, WorkConserving, NEW t \in Thread, OthersMove(t),
         orders' = orders, state' = "ALL_RUN" => state = "ALL_RUN",
         t \in Awake => t \in Awake', t \notin OnPosted'
  PROVE  WorkConserving'
<1>1. Awake \subseteq Awake' /\ OnPosted' \subseteq OnPosted
  BY OthersCount
<1>2. Cardinality(Awake) <= Cardinality(Awake')
  BY <1>1, FiniteCounts, FS_Subset
<1>3. Len(orders) \in Nat
  BY LenProperties DEF TypeOK, DataOK
<1>. QED
  BY <1>1, <1>2, <1>3, FiniteCounts DEF WorkConserving

LEMMA WorkInit == Init => WorkConserving
  BY PoolAssumption DEF Init, WorkConserving, OnPosted, Thread

LEMMA WorkStep ==
  ASSUME TypeOK, LockInv, WorkConserving, [Next]_vars
  PROVE  WorkConserving'
<1> USE DEF Thread
<1>0. Len(orders) \in Nat
  BY LenProperties DEF TypeOK, DataOK
<1>1. ASSUME NEW t \in Thread, Lock(t) \/ StrayUnlock(t) \/ SpuriousWake(t)
      PROVE  WorkConserving'
  <2>1. orders' = orders /\ state' = state
    BY <1>1 DEF Lock, StrayUnlock, SpuriousWake
  <2>2. /\ OthersMove(t)
        /\ \/ <<pc[t], pc'[t]>> \in
                {<<"wLock", "wLoop">>, <<"dLock", "dLoop">>,
                 <<"xLock", "xSet">>, <<"xRelock", "xLoop">>,
                 <<"wPosted", "wLock">>, <<"dTaken", "dLock">>,
                 <<"xTaken", "xRelock">>, <<"wStray", "gone">>}
           \/ pc[t] = "dStray" /\ pc'[t] \in {"run", "idle"}
    BY <1>1, OtherMoves DEF Moves
  <2>3. (t \in Awake => t \in Awake') /\ t \notin OnPosted'
    BY <2>2 DEF Awake, OnPosted
  <2>. QED
    BY <2>1, <2>2, <2>3, QuietForWork
<1>2. ASSUME NEW t \in Thread, CallDispatch(t) PROVE WorkConserving'
  <2>1. orders' = orders /\ state' = state
    BY <1>2 DEF CallDispatch
  <2>2. CASE pc' = pc
    BY <2>1, <2>2 DEF WorkConserving, OnPosted, Awake
  <2>3. CASE Moves(t, pc[t], "dLock", {}) /\ pc[t] \in {"run", "idle"}
    BY <2>1, <2>3, QuietForWork DEF Moves, Awake, OnPosted
  <2>. QED
    BY <1>2, <2>2, <2>3, OtherMoves
<1>3. ASSUME NEW t \in Thread, WaitForRoom(t) PROVE WorkConserving'
  BY <1>3, DispatchMoves, QuietForWork DEF WaitForRoom, Moves, Awake, OnPosted
<1>4. ASSUME NEW t \in Thread, Post(t) PROVE WorkConserving'
  <2>1. Len(orders') = Len(orders) + 1 /\ state' = state
    <3>1. Head(todo[t]) \in Job
      <4>1. todo[t] \in Seq(Job) /\ todo[t] # <<>>
        BY <1>4 DEF Post, TypeOK, DataOK, PcOK, DispatchPc
      <4>. QED
        BY <4>1, HeadTailProperties
    <3>. QED
      BY <1>4, <3>1, AppendProperties DEF Post, AddWorkOrder, TypeOK, DataOK
  <2>2. Moves(t, "dLoop", "dStray", OnPosted)
    BY <1>4, DispatchMoves
  <2>3. Awake \subseteq Awake' /\ OnPosted' \subseteq OnPosted
    BY <2>2, OthersCount DEF Moves, Awake, OnPosted
  <2>4. CASE OnPosted' = {}
    BY <2>4 DEF WorkConserving
  <2>5. CASE OnPosted' # {}
    <3>1. PICK u \in OnPosted : pc'[u] = Woken[pc[u]]
      BY <2>2, <2>3, <2>5 DEF Moves
    <3>2. u \notin Awake /\ u \in Awake'
      BY <3>1 DEF OnPosted, Awake, Woken
    <3>3. Cardinality(Awake) + 1 <= Cardinality(Awake')
      BY <2>3, <3>2, OneMore, FiniteCounts
    <3>. QED
      BY <1>0, <2>1, <2>3, <2>5, <3>3, FiniteCounts DEF WorkConserving
  <2>. QED
    BY <2>4, <2>5
<1>5. ASSUME NEW w \in Worker, WaitForJob(w) PROVE WorkConserving'
  <2>1. Len(orders') = 0
    BY <1>5 DEF WaitForJob, IsJobAvailable
  <2>. QED
    BY <2>1, FiniteCounts DEF WorkConserving
<1>11. ASSUME NEW t \in Thread, CondWait(t) PROVE WorkConserving'
  <2>1. orders' = orders /\ state' = state
    BY <1>11 DEF CondWait
  <2>2. /\ OthersMove(t)
        /\ <<pc[t], pc'[t]>> \in {<<"wWait", "wPosted">>, <<"dWait", "dTaken">>,
                                  <<"xWait", "xTaken">>}
    BY <1>11, OtherMoves DEF Moves
  <2>3. CASE pc[t] = "wWait"
    <3>1. t \in Worker
      BY <2>3 DEF TypeOK, PcOK, DispatchPc, DestroyPc
    <3>2. Len(orders') = 0
      BY <2>1, <2>3, <3>1 DEF LockInv, WaitsWell, IsJobAvailable
    <3>. QED
      BY <3>2, FiniteCounts DEF WorkConserving
  <2>4. CASE pc[t] # "wWait"
    <3>1. (t \in Awake => t \in Awake') /\ t \notin OnPosted'
      BY <2>2, <2>4 DEF Awake, OnPosted
    <3>. QED
      BY <2>1, <2>2, <3>1, QuietForWork
  <2>. QED
    BY <2>3, <2>4
<1>6. ASSUME NEW w \in Worker, FindJob(w) \/ FinishJob(w)
      PROVE  WorkConserving'
  BY <1>6, WorkerMoves, QuietForWork
     DEF FindJob, FinishJob, Moves, Awake, OnPosted
<1>7. ASSUME NEW w \in Worker, TakeJob(w) PROVE WorkConserving'
  <2>1. Len(orders') = Len(orders) - 1 /\ state' = state
    BY <1>7, HeadTailProperties
       DEF TakeJob, GetWorkOrder, IsJobAvailable, TypeOK, DataOK
  <2>2. Moves(w, "wTake", "run", OnTaken)
    BY <1>7, WorkerMoves
  <2>3. w \in Awake /\ Awake \ {w} \subseteq Awake' /\ OnPosted' \subseteq OnPosted
    BY <2>2, OthersCount DEF Moves, Awake, OnPosted
  <2>4. Cardinality(Awake) - 1 <= Cardinality(Awake')
    BY <2>3, OneLess, FiniteCounts
  <2>. QED
    BY <1>0, <2>1, <2>3, <2>4, FiniteCounts DEF WorkConserving
<1>8. ASSUME NEW w \in Worker, Leave(w) PROVE WorkConserving'
  BY <1>8 DEF Leave, WorkConserving
<1>9. ASSUME NEW c \in Client, CallDestroy(c) \/ Destroy(c)
      PROVE  WorkConserving'
  <2>1. orders' = orders /\ (state' = "ALL_RUN" => state = "ALL_RUN")
    BY <1>9 DEF CallDestroy, Destroy, SetExit, WaitForExit, StopWaiting, FreePool
  <2>2. /\ OthersMove(c) /\ pc[c] \in DestroyPc \cup {"idle"}
        /\ pc'[c] \in DestroyPc
    BY <1>9, DestroyMoves DEF Destroy, Moves, DestroyPc
  <2>3. c \notin Awake /\ c \notin OnPosted'
    BY <2>2 DEF Awake, OnPosted, DestroyPc
  <2>. QED
    BY <2>1, <2>2, <2>3, QuietForWork
<1>10. CASE UNCHANGED vars
  BY <1>10 DEF vars, WorkConserving, OnPosted, Awake
<1>. QED
  BY <1>1, <1>2, <1>3, <1>4, <1>5, <1>6, <1>7, <1>8, <1>9, <1>10, <1>11
     DEF Next, DoWork, Dispatch

\* dispatch signals job_posted once for each order and do_work waits only on
\* an empty queue: while a worker sleeps, every queued order has an awake
\* worker of its own on the way to it.  This holds as long as each second
\* unlock meets a mutex nobody holds.
THEOREM NoWorkSleeps == ASSUME StrayHarmless PROVE Spec => []WorkConserving
<1>1. TypeOK /\ LockInv /\ WorkConserving /\ [Next]_vars => WorkConserving'
  BY WorkStep
<1>. QED
  BY <1>1, WorkInit, Types, Locked, PTL DEF Spec

-----------------------------------------------------------------------------
(* The dispatchers.  A destroyer sleeps on job_taken too, but by then the  *)
(* state is ALL_EXIT.                                                      *)

\* Whoever is past the change of state in destroy_threadpool has made it.
ExitBegun ==
  \A c \in Client :
    pc[c] \in {"xLoop", "xWait", "xTaken", "xRelock", "xFree", "xDone"}
      => state = "ALL_EXIT"

LEMMA ExitInit == Init => ExitBegun
  BY DEF Init, ExitBegun, Thread, PoolAssumption

LEMMA ExitKept ==
  ASSUME TypeOK, ExitBegun, NEW t \in Thread, OthersMove(t),
         state = "ALL_EXIT" => state' = "ALL_EXIT",
         \/ pc'[t] \notin {"xLoop", "xWait", "xTaken", "xRelock", "xFree", "xDone"}
         \/ pc[t] \in {"xLoop", "xWait", "xTaken", "xRelock", "xFree", "xDone"}
         \/ state' = "ALL_EXIT"
  PROVE  ExitBegun'
  BY DEF ExitBegun, OthersMove, Thread

LEMMA ExitStep ==
  ASSUME TypeOK, ExitBegun, [Next]_vars
  PROVE  ExitBegun'
<1> USE DEF Thread
<1>1. ASSUME NEW t \in Thread, Lock(t) \/ StrayUnlock(t) \/ SpuriousWake(t) \/ CondWait(t)
      PROVE  ExitBegun'
  <2>1. state' = state
    BY <1>1 DEF Lock, StrayUnlock, SpuriousWake, CondWait
  <2>2. /\ OthersMove(t)
        /\ \/ <<pc[t], pc'[t]>> \in
                {<<"wLock", "wLoop">>, <<"dLock", "dLoop">>,
                 <<"xLock", "xSet">>, <<"xRelock", "xLoop">>,
                 <<"wPosted", "wLock">>, <<"dTaken", "dLock">>,
                 <<"xTaken", "xRelock">>, <<"wStray", "gone">>,
                 <<"wWait", "wPosted">>, <<"dWait", "dTaken">>,
                 <<"xWait", "xTaken">>}
           \/ pc[t] = "dStray" /\ pc'[t] \in {"run", "idle"}
    BY <1>1, OtherMoves DEF Moves
  <2>. QED
    BY <2>1, <2>2, ExitKept
<1>2. ASSUME NEW t \in Thread, CallDispatch(t) PROVE ExitBegun'
  <2>1. state' = state
    BY <1>2 DEF CallDispatch
  <2>. QED
    BY <1>2, <2>1, OtherMoves, ExitKept DEF Moves, ExitBegun
<1>3. ASSUME NEW t \in Thread, Dispatch(t) PROVE ExitBegun'
  <2>1. state' = state
    BY <1>3 DEF Dispatch, WaitForRoom, Post
  <2>2. OthersMove(t) /\ pc'[t] \in {"dWait", "dStray"}
    BY <1>3, DispatchMoves DEF Dispatch, Moves
  <2>. QED
    BY <2>1, <2>2, ExitKept
<1>4. ASSUME NEW w \in Worker, DoWork(w) PROVE ExitBegun'
  <2>1. state' = state
    BY <1>4 DEF DoWork, WaitForJob, FindJob, TakeJob, FinishJob, Leave
  <2>2. OthersMove(w) /\ pc'[w] \in WorkerPc
    BY <1>4, WorkerMoves DEF DoWork, Moves, WorkerPc
  <2>. QED
    BY <2>1, <2>2, ExitKept DEF WorkerPc
<1>5. ASSUME NEW c \in Client, CallDestroy(c) \/ Destroy(c)
      PROVE  ExitBegun'
  <2>1. CASE CallDestroy(c)
    BY <2>1, DestroyMoves, ExitKept DEF CallDestroy, Moves
  <2>2. CASE SetExit(c)
    BY <2>2, DestroyMoves, ExitKept DEF SetExit, Moves
  <2>3. CASE WaitForExit(c) \/ StopWaiting(c) \/ FreePool(c)
    <3>1. state' = state
      BY <2>3 DEF WaitForExit, StopWaiting, FreePool
    <3>2. OthersMove(c) /\ pc[c] \in {"xLoop", "xFree"}
      BY <2>3, DestroyMoves DEF Moves
    <3>. QED
      BY <3>1, <3>2, ExitKept
  <2>. QED
    BY <1>5, <2>1, <2>2, <2>3 DEF Destroy
<1>6. CASE UNCHANGED vars
  BY <1>6 DEF vars, ExitBegun
<1>. QED
  BY <1>1, <1>2, <1>3, <1>4, <1>5, <1>6 DEF Next

\* A step that does not shorten the queue, leaves the dispatcher that moves
\* on its way in if it was, and puts nobody to sleep on job_taken.
LEMMA QuietForRoom ==
  ASSUME TypeOK, RoomConserving, NEW t \in Thread, OthersMove(t),
         orders' = orders, state' = "ALL_RUN" => state = "ALL_RUN",
         t \in Entering => t \in Entering', t \notin OnTaken'
  PROVE  RoomConserving'
<1>1. Entering \subseteq Entering' /\ OnTaken' \subseteq OnTaken
  BY OthersCount
<1>2. Cardinality(Entering) <= Cardinality(Entering')
  BY <1>1, FiniteCounts, FS_Subset
<1>3. Room \in Int /\ Room' = Room
  BY LenProperties, QueueAssumption DEF TypeOK, DataOK, Room
<1>. QED
  BY <1>1, <1>2, <1>3, FiniteCounts DEF RoomConserving

LEMMA RoomInit == Init => RoomConserving
  BY DEF Init, RoomConserving, OnTaken, Thread

LEMMA RoomStep ==
  ASSUME TypeOK, LockInv, ExitBegun, RoomConserving, [Next]_vars
  PROVE  RoomConserving'
<1> USE DEF Thread
<1>0. Len(orders) \in Nat /\ Room \in Int
  BY LenProperties, QueueAssumption DEF TypeOK, DataOK, Room
<1>1. ASSUME NEW t \in Thread, Lock(t) \/ StrayUnlock(t) \/ SpuriousWake(t)
      PROVE  RoomConserving'
  <2>1. orders' = orders /\ state' = state
    BY <1>1 DEF Lock, StrayUnlock, SpuriousWake
  <2>2. /\ OthersMove(t)
        /\ \/ <<pc[t], pc'[t]>> \in
                {<<"wLock", "wLoop">>, <<"dLock", "dLoop">>,
                 <<"xLock", "xSet">>, <<"xRelock", "xLoop">>,
                 <<"wPosted", "wLock">>, <<"dTaken", "dLock">>,
                 <<"xTaken", "xRelock">>, <<"wStray", "gone">>}
           \/ pc[t] = "dStray" /\ pc'[t] \in {"run", "idle"}
    BY <1>1, OtherMoves DEF Moves
  <2>3. (t \in Entering => t \in Entering') /\ t \notin OnTaken'
    BY <2>2 DEF Entering, OnTaken
  <2>. QED
    BY <2>1, <2>2, <2>3, QuietForRoom
<1>2. ASSUME NEW t \in Thread, CallDispatch(t) PROVE RoomConserving'
  <2>1. orders' = orders /\ state' = state
    BY <1>2 DEF CallDispatch
  <2>2. CASE pc' = pc
    BY <2>1, <2>2 DEF RoomConserving, OnTaken, Entering, Room
  <2>3. CASE Moves(t, pc[t], "dLock", {}) /\ pc[t] \in {"run", "idle"}
    BY <2>1, <2>3, QuietForRoom DEF Moves, Entering, OnTaken
  <2>. QED
    BY <1>2, <2>2, <2>3, OtherMoves
<1>3. ASSUME NEW t \in Thread, WaitForRoom(t) PROVE RoomConserving'
  <2>1. Room' <= 0
    BY <1>0, <1>3, QueueAssumption
       DEF WaitForRoom, CanAcceptWork, HasFreeNode, Room, TypeOK, DataOK
  <2>2. Room' \in Int
    BY <1>0, <1>3 DEF WaitForRoom, Room
  <2>. QED
    BY <2>1, <2>2, FiniteCounts DEF RoomConserving
<1>11. ASSUME NEW t \in Thread, CondWait(t) PROVE RoomConserving'
  <2>1. orders' = orders /\ state' = state
    BY <1>11 DEF CondWait
  <2>2. /\ OthersMove(t)
        /\ <<pc[t], pc'[t]>> \in {<<"wWait", "wPosted">>, <<"dWait", "dTaken">>,
                                  <<"xWait", "xTaken">>}
    BY <1>11, OtherMoves DEF Moves
  <2>3. CASE pc[t] = "dWait"
    <3>1. Room <= 0 /\ Room' = Room
      BY <1>0, <2>1, <2>3, QueueAssumption
         DEF LockInv, WaitsWell, CanAcceptWork, HasFreeNode, Room, TypeOK, DataOK
    <3>. QED
      BY <1>0, <3>1, FiniteCounts DEF RoomConserving
  <2>4. CASE pc[t] = "wWait"
    <3>1. (t \in Entering => t \in Entering') /\ t \notin OnTaken'
      BY <2>2, <2>4 DEF Entering, OnTaken
    <3>. QED
      BY <2>1, <2>2, <3>1, QuietForRoom
  <2>5. CASE pc[t] = "xWait"
    <3>1. t \in Client
      BY <2>5 DEF TypeOK, PcOK, WorkerPc, DispatchPc
    <3>2. state' = "ALL_EXIT"
      BY <2>1, <2>5, <3>1 DEF ExitBegun
    <3>. QED
      BY <3>2 DEF RoomConserving
  <2>. QED
    BY <2>2, <2>3, <2>4, <2>5
<1>4. ASSUME NEW t \in Thread, Post(t) PROVE RoomConserving'
  <2>1. Room' = Room - 1 /\ state' = state
    <3>1. Head(todo[t]) \in Job
      <4>1. todo[t] \in Seq(Job) /\ todo[t] # <<>>
        BY <1>4 DEF Post, TypeOK, DataOK, PcOK, DispatchPc
      <4>. QED
        BY <4>1, HeadTailProperties
    <3>2. Len(orders') = Len(orders) + 1 /\ state' = state
      BY <1>4, <3>1, AppendProperties DEF Post, AddWorkOrder, TypeOK, DataOK
    <3>. QED
      BY <1>0, <3>2, QueueAssumption DEF Room
  <2>2. Moves(t, "dLoop", "dStray", OnPosted)
    BY <1>4, DispatchMoves
  <2>3. /\ t \in Entering /\ Entering \ {t} \subseteq Entering'
        /\ OnTaken' \subseteq OnTaken
    BY <2>2, OthersCount DEF Moves, Entering, OnTaken
  <2>4. Cardinality(Entering) - 1 <= Cardinality(Entering')
    BY <2>3, OneLess, FiniteCounts
  <2>. QED
    BY <1>0, <2>1, <2>3, <2>4, FiniteCounts DEF RoomConserving
<1>5. ASSUME NEW w \in Worker, WaitForJob(w) \/ FindJob(w) \/ FinishJob(w)
      PROVE  RoomConserving'
  <2>1. orders' = orders /\ state' = state
    BY <1>5 DEF WaitForJob, FindJob, FinishJob
  <2>2. /\ OthersMove(w) /\ pc[w] \in {"wLoop", "run"}
        /\ pc'[w] \in {"wWait", "wTake", "wLock"}
    BY <1>5, WorkerMoves DEF Moves
  <2>. QED
    BY <2>1, <2>2, QuietForRoom DEF Entering, OnTaken
<1>6. ASSUME NEW w \in Worker, TakeJob(w) PROVE RoomConserving'
  <2>1. Room' = Room + 1 /\ state' = state
    <3>1. Len(orders') = Len(orders) - 1 /\ state' = state
      BY <1>6, HeadTailProperties
         DEF TakeJob, GetWorkOrder, IsJobAvailable, TypeOK, DataOK
    <3>. QED
      BY <1>0, <3>1, QueueAssumption DEF Room
  <2>2. Moves(w, "wTake", "run", OnTaken)
    BY <1>6, WorkerMoves
  <2>3. Entering \subseteq Entering' /\ OnTaken' \subseteq OnTaken
    BY <2>2, OthersCount DEF Moves, Entering, OnTaken
  <2>4. CASE OnTaken' = {} \/ state = "ALL_EXIT"
    BY <2>1, <2>4 DEF RoomConserving
  <2>5. CASE OnTaken' # {} /\ state # "ALL_EXIT"
    <3>1. PICK u \in OnTaken : pc'[u] = Woken[pc[u]]
      BY <2>2, <2>3, <2>5 DEF Moves
    <3>2. pc[u] = "dTaken"
      <4>1. pc[u] # "xTaken"
        BY <2>5, <3>1 DEF ExitBegun, OnTaken, TypeOK, PcOK, WorkerPc, DispatchPc
      <4>. QED
        BY <3>1, <4>1 DEF OnTaken
    <3>3. u \notin Entering /\ u \in Entering'
      BY <3>1, <3>2 DEF OnTaken, Entering, Woken
    <3>4. Cardinality(Entering) + 1 <= Cardinality(Entering')
      BY <2>3, <3>3, OneMore, FiniteCounts
    <3>. QED
      BY <1>0, <2>1, <2>3, <2>5, <3>4, FiniteCounts DEF RoomConserving
  <2>. QED
    BY <2>4, <2>5
<1>7. ASSUME NEW w \in Worker, Leave(w) PROVE RoomConserving'
  BY <1>7 DEF Leave, RoomConserving
<1>8. ASSUME NEW c \in Client, CallDestroy(c) PROVE RoomConserving'
  BY <1>8, DestroyMoves, QuietForRoom
     DEF CallDestroy, Moves, Entering, OnTaken
<1>9. ASSUME NEW c \in Client, Destroy(c) PROVE RoomConserving'
  <2>1. state' = "ALL_EXIT"
    BY <1>9, DestroyMoves
       DEF Destroy, SetExit, WaitForExit, StopWaiting, FreePool, Moves, ExitBegun
  <2>. QED
    BY <2>1 DEF RoomConserving
<1>10. CASE UNCHANGED vars
  BY <1>10 DEF vars, RoomConserving, OnTaken, Entering, Room
<1>. QED
  BY <1>1, <1>2, <1>3, <1>4, <1>5, <1>6, <1>7, <1>8, <1>9, <1>10, <1>11
     DEF Next, DoWork, Dispatch

\* do_work signals job_taken once for each order it takes and dispatch waits
\* only on a full queue: while a dispatcher sleeps, every free place has an
\* awake dispatcher of its own on the way to it.  This holds under the same
\* condition.
THEOREM NoRoomSleeps == ASSUME StrayHarmless PROVE Spec => []RoomConserving
<1>1. TypeOK /\ ExitBegun /\ [Next]_vars => ExitBegun'
  BY ExitStep
<1>2. TypeOK /\ LockInv /\ ExitBegun /\ RoomConserving /\ [Next]_vars => RoomConserving'
  BY RoomStep
<1>. QED
  BY <1>1, <1>2, ExitInit, RoomInit, Types, Locked, PTL DEF Spec

-----------------------------------------------------------------------------
(* The end of the pool.                                                    *)

LEMMA DrainInit == Init => DestroyedWhenDrained
<1> SUFFICES ASSUME Init PROVE DestroyedWhenDrained
  OBVIOUS
<1>1. Left = {} /\ ~freed /\ \A c \in Client : pc[c] # "xFree"
  BY PoolAssumption DEF Init, Left, Thread
<1>2. live = Cardinality(Worker \ Left)
  BY <1>1 DEF Init
<1>. QED
  BY <1>1, <1>2 DEF DestroyedWhenDrained

\* A step in which no worker signs off and nobody gets to free the pool.
LEMMA DrainKept ==
  ASSUME TypeOK, DestroyedWhenDrained, NEW t \in Thread, OthersMove(t),
         live' = live, freed' = freed, t \in Left <=> t \in Left',
         pc'[t] # "xFree"
  PROVE  DestroyedWhenDrained'
<1>1. Left' = Left
  BY OthersCount
<1>2. \A c \in Client : pc'[c] = "xFree" => pc[c] = "xFree"
  BY DEF OthersMove, Thread
<1>. QED
  BY <1>1, <1>2 DEF DestroyedWhenDrained

LEMMA DrainStep ==
  ASSUME TypeOK, DestroyedWhenDrained, [Next]_vars
  PROVE  DestroyedWhenDrained'
<1> USE DEF Thread
<1>1. ASSUME NEW t \in Thread, Lock(t) \/ StrayUnlock(t) \/ SpuriousWake(t) \/ CondWait(t)
      PROVE  DestroyedWhenDrained'
  <2>1. live' = live /\ freed' = freed
    BY <1>1 DEF Lock, StrayUnlock, SpuriousWake, CondWait
  <2>2. /\ OthersMove(t)
        /\ \/ <<pc[t], pc'[t]>> \in
                {<<"wLock", "wLoop">>, <<"dLock", "dLoop">>,
                 <<"xLock", "xSet">>, <<"xRelock", "xLoop">>,
                 <<"wPosted", "wLock">>, <<"dTaken", "dLock">>,
                 <<"xTaken", "xRelock">>, <<"wStray", "gone">>,
                 <<"wWait", "wPosted">>, <<"dWait", "dTaken">>,
                 <<"xWait", "xTaken">>}
           \/ pc[t] = "dStray" /\ pc'[t] \in {"run", "idle"}
    BY <1>1, OtherMoves DEF Moves
  <2>3. (t \in Left <=> t \in Left') /\ pc'[t] # "xFree"
    BY <2>2 DEF Left
  <2>. QED
    BY <2>1, <2>2, <2>3, DrainKept
<1>2. ASSUME NEW t \in Thread, CallDispatch(t) PROVE DestroyedWhenDrained'
  <2>1. live' = live /\ freed' = freed
    BY <1>2 DEF CallDispatch
  <2>2. CASE pc' = pc
    BY <2>1, <2>2 DEF DestroyedWhenDrained, Left
  <2>3. CASE Moves(t, pc[t], "dLock", {}) /\ pc[t] \in {"run", "idle"}
    BY <2>1, <2>3, DrainKept DEF Moves, Left
  <2>. QED
    BY <1>2, <2>2, <2>3, OtherMoves
<1>3. ASSUME NEW t \in Thread, Dispatch(t) PROVE DestroyedWhenDrained'
  <2>1. live' = live /\ freed' = freed
    BY <1>3 DEF Dispatch, WaitForRoom, Post
  <2>2. OthersMove(t) /\ pc[t] = "dLoop" /\ pc'[t] \in {"dWait", "dStray"}
    BY <1>3, DispatchMoves DEF Dispatch, Moves
  <2>. QED
    BY <2>1, <2>2, DrainKept DEF Left
<1>4. ASSUME NEW w \in Worker,
             WaitForJob(w) \/ FindJob(w) \/ TakeJob(w) \/ FinishJob(w)
      PROVE  DestroyedWhenDrained'
  <2>1. live' = live /\ freed' = freed
    BY <1>4 DEF WaitForJob, FindJob, TakeJob, FinishJob
  <2>2. /\ OthersMove(w) /\ pc[w] \in {"wLoop", "wTake", "run"}
        /\ pc'[w] \in {"wWait", "wTake", "run", "wLock"}
    BY <1>4, WorkerMoves DEF Moves
  <2>. QED
    BY <2>1, <2>2, DrainKept DEF Left
<1>5. ASSUME NEW w \in Worker, Leave(w) PROVE DestroyedWhenDrained'
  <2>1. live' = live - 1 /\ freed' = freed
    BY <1>5 DEF Leave
  <2>2. Moves(w, "wLoop", "wStray", OnTaken)
    BY <1>5, WorkerMoves
  <2>3. w \notin Left /\ Left' = Left \cup {w}
    BY <2>2, OthersCount DEF Moves, Left
  <2>4. Cardinality(Worker \ Left') = Cardinality(Worker \ Left) - 1
    <3>1. IsFiniteSet(Worker \ Left)
      BY FS_Subset, PoolAssumption
    <3>2. Worker \ Left' = (Worker \ Left) \ {w}
      BY <2>3
    <3>. QED
      BY <2>3, <3>1, <3>2, FS_RemoveElement
  <2>5. ~freed /\ \A c \in Client : pc[c] # "xFree"
    BY <2>3 DEF DestroyedWhenDrained
  <2>6. \A c \in Client : pc'[c] # "xFree"
    BY <2>2, <2>5, PoolAssumption DEF Moves, OthersMove
  <2>. QED
    BY <2>1, <2>4, <2>5, <2>6 DEF DestroyedWhenDrained
<1>6. ASSUME NEW c \in Client, CallDestroy(c) \/ SetExit(c) \/ WaitForExit(c)
      PROVE  DestroyedWhenDrained'
  <2>1. live' = live /\ freed' = freed
    BY <1>6 DEF CallDestroy, SetExit, WaitForExit
  <2>2. /\ OthersMove(c) /\ pc[c] \in {"idle", "xSet", "xLoop"}
        /\ pc'[c] \in {"xLock", "xLoop", "xWait"}
    BY <1>6, DestroyMoves DEF Moves
  <2>. QED
    BY <2>1, <2>2, DrainKept DEF Left
<1>7. ASSUME NEW c \in Client, StopWaiting(c) PROVE DestroyedWhenDrained'
  <2>1. live' = live /\ freed' = freed /\ live <= 0
    BY <1>7 DEF StopWaiting
  <2>2. OthersMove(c) /\ pc[c] = "xLoop" /\ pc'[c] = "xFree"
    BY <1>7, DestroyMoves DEF Moves
  <2>3. Left' = Left
    BY <2>2, OthersCount DEF Left
  <2>4. Left = Worker
    <3>1. IsFiniteSet(Worker \ Left) /\ Cardinality(Worker \ Left) \in Nat
      BY FS_Subset, FS_CardinalityType, PoolAssumption
    <3>2. Cardinality(Worker \ Left) = 0
      BY <2>1, <3>1 DEF DestroyedWhenDrained
    <3>3. Worker \ Left = {}
      BY <3>1, <3>2, FS_EmptySet
    <3>. QED
      BY <3>3 DEF Left
  <2>. QED
    BY <2>1, <2>3, <2>4 DEF DestroyedWhenDrained
<1>8. ASSUME NEW c \in Client, FreePool(c) PROVE DestroyedWhenDrained'
  <2>1. live' = live
    BY <1>8 DEF FreePool
  <2>2. OthersMove(c) /\ pc[c] = "xFree" /\ pc'[c] = "xDone"
    BY <1>8, DestroyMoves DEF Moves
  <2>3. Left' = Left
    BY <2>2, OthersCount DEF Left
  <2>4. Left = Worker
    BY <2>2 DEF DestroyedWhenDrained
  <2>. QED
    BY <2>1, <2>3, <2>4 DEF DestroyedWhenDrained
<1>9. CASE UNCHANGED vars
  BY <1>9 DEF vars, DestroyedWhenDrained, Left
<1>. QED
  BY <1>1, <1>2, <1>3, <1>4, <1>5, <1>6, <1>7, <1>8, <1>9
     DEF Next, DoWork, Destroy

\* destroy_threadpool waits until live is zero, and live counts the workers
\* that have not signed off: the pool is freed after every worker has left.
THEOREM FreedAfterAllLeft == Spec => []DestroyedWhenDrained
<1>1. TypeOK /\ DestroyedWhenDrained /\ [Next]_vars => DestroyedWhenDrained'
  BY DrainStep
<1>. QED
  BY <1>1, DrainInit, Types, PTL DEF Spec

-----------------------------------------------------------------------------
(* Every job is in one place.                                              *)
(*                                                                         *)
(* A job waits in the calls that a thread has still to make, in the queue, *)
(* in the hands of a worker, or is done.  It is in one of these places, and *)
(* once, from the moment the job that dispatches it is taken.              *)

At(s, j) == {i \in 1 .. Len(s) : s[i] = j}
Once(s) == \A i, k \in 1 .. Len(s) : s[i] = s[k] => i = k
One(S) == \A x, y \in S : x = y

CalledBy(j) == {t \in Thread : At(todo[t], j) # {}}
RunBy(j) == {w \in Worker : myjob[w] = j}
Somewhere(j) ==
  CalledBy(j) # {} \/ At(orders, j) # {} \/ RunBy(j) # {} \/ j \in done
InOnePlace(j) ==
  /\ One(CalledBy(j)) /\ One(At(orders, j)) /\ One(RunBy(j))
  /\ CalledBy(j) # {} => At(orders, j) = {} /\ RunBy(j) = {} /\ j \notin done
  /\ At(orders, j) # {} => RunBy(j) = {} /\ j \notin done
  /\ RunBy(j) # {} => j \notin done

Started == {k \in Job : k \in done \/ RunBy(k) # {}}
IsDue(j) == \/ \E c \in Client : At(Roots[c], j) # {}
            \/ \E k \in Started : At(Spawn[k], j) # {}

\* Who is inside dispatch has a job to pass on that dispatch does not refuse.
CallsOK ==
  /\ \A t \in Thread : Once(todo[t])
  /\ \A t \in Thread :
       pc[t] \in DispatchPc \ {"dStray"} => Head(todo[t]) \notin SelfArg
  /\ \A w \in Worker : myjob[w] = None => todo[w] = <<>>
  /\ \A i \in 1 .. Len(orders) : orders[i] \notin SelfArg

JobsInv ==
  CallsOK /\ \A j \in Job \ SelfArg : InOnePlace(j) /\ (Somewhere(j) <=> IsDue(j))

\* A job is dispatched by one call.
LEMMA OneCall ==
  /\ \A c \in Client : Once(Roots[c])
  /\ \A k \in Job : Once(Spawn[k])
  /\ \A j : \A c, d \in Client :
       At(Roots[c], j) # {} /\ At(Roots[d], j) # {} => c = d
  /\ \A j : \A k, l \in Job :
       At(Spawn[k], j) # {} /\ At(Spawn[l], j) # {} => k = l
  /\ \A j : \A c \in Client, k \in Job :
       ~(At(Roots[c], j) # {} /\ At(Spawn[k], j) # {})
<1>1. /\ \A c \in Client : DOMAIN Roots[c] = 1 .. Len(Roots[c])
      /\ \A k \in Job : DOMAIN Spawn[k] = 1 .. Len(Spawn[k])
  BY PoolAssumption, LenProperties
<1>. QED
  BY <1>1, OneCallAssumption DEF At, Once

LEMMA AtEmpty == \A j : At(<<>>, j) = {}
  BY DEF At

LEMMA AtAppend ==
  ASSUME NEW s \in Seq(Job), NEW e \in Job
  PROVE  /\ \A j : j # e => At(Append(s, e), j) = At(s, j)
         /\ At(Append(s, e), e) = At(s, e) \cup {Len(s) + 1}
         /\ Len(Append(s, e)) = Len(s) + 1 /\ Len(s) \in Nat
         /\ \A i \in 1 .. Len(s) : Append(s, e)[i] = s[i]
         /\ Append(s, e)[Len(s) + 1] = e
<1>1. /\ Len(Append(s, e)) = Len(s) + 1 /\ Len(s) \in Nat
      /\ \A i \in 1 .. Len(s) : Append(s, e)[i] = s[i]
      /\ Append(s, e)[Len(s) + 1] = e
  BY AppendProperties, LenProperties
<1>2. 1 .. Len(s) + 1 = (1 .. Len(s)) \cup {Len(s) + 1}
  BY <1>1
<1>. QED
  BY <1>1, <1>2 DEF At

LEMMA AtTail ==
  ASSUME NEW s \in Seq(Job), s # <<>>
  PROVE  /\ Head(s) \in Job /\ 1 \in At(s, Head(s)) /\ Tail(s) \in Seq(Job)
         /\ \A j : j # Head(s) => (At(Tail(s), j) # {} <=> At(s, j) # {})
         /\ \A j : One(At(s, j)) => One(At(Tail(s), j))
         /\ One(At(s, Head(s))) => At(Tail(s), Head(s)) = {}
         /\ Once(s) => Once(Tail(s)) /\ One(At(s, Head(s)))
         /\ \A i \in 1 .. Len(Tail(s)) : Tail(s)[i] = s[i + 1] /\ i + 1 \in 1 .. Len(s)
<1>1. PICK n \in Nat : n + 1 = Len(s)
  <2>1. Len(s) \in Nat /\ Len(s) # 0
    BY EmptySeq, LenProperties
  <2>2. \A m \in Nat : m # 0 => \E n \in Nat : n + 1 = m
    <3>1. \A m \in Nat : m # 0 => m - 1 \in Nat /\ m - 1 + 1 = m
      OBVIOUS
    <3>. QED
      BY <3>1
  <2>. QED
    BY <2>1, <2>2
<1>2. /\ Head(s) \in Job /\ Head(s) = s[1] /\ Tail(s) \in Seq(Job)
      /\ Len(Tail(s)) = n /\ \A i \in 1 .. n : Tail(s)[i] = s[i + 1]
  BY <1>1, HeadTailProperties
<1>3. 1 \in At(s, Head(s))
  BY <1>1, <1>2 DEF At
<1>4. \A j : \A i \in At(Tail(s), j) : i \in Nat \ {0} /\ i + 1 \in At(s, j)
  BY <1>1, <1>2 DEF At
<1>5. \A j : \A i \in At(s, j) : i = 1 \/ i - 1 \in At(Tail(s), j)
  <2> SUFFICES ASSUME NEW j, NEW i \in At(s, j), i # 1
               PROVE  i - 1 \in At(Tail(s), j)
    OBVIOUS
  <2>1. i \in 1 .. n + 1 /\ s[i] = j
    BY <1>1 DEF At
  <2>2. i - 1 \in 1 .. n /\ i - 1 + 1 = i
    BY <2>1
  <2>3. Tail(s)[i - 1] = s[i - 1 + 1]
    BY <1>2, <2>2
  <2>. QED
    BY <1>2, <2>1, <2>2, <2>3 DEF At
<1>6. \A j : j # Head(s) => 1 \notin At(s, j)
  BY <1>2 DEF At
<1>7. \A j : j # Head(s) => (At(Tail(s), j) # {} <=> At(s, j) # {})
  BY <1>4, <1>5, <1>6
<1>8. \A j : One(At(s, j)) => One(At(Tail(s), j))
  BY <1>4 DEF One
<1>9. One(At(s, Head(s))) => At(Tail(s), Head(s)) = {}
  BY <1>3, <1>4 DEF One
<1>10. Once(s) => Once(Tail(s)) /\ One(At(s, Head(s)))
  <2>1. Once(s) => One(At(s, Head(s)))
    BY DEF Once, One, At
  <2>2. ASSUME Once(s), NEW i \in 1 .. n, NEW k \in 1 .. n, Tail(s)[i] = Tail(s)[k]
        PROVE  i = k
    <3>1. i + 1 \in 1 .. n + 1 /\ k + 1 \in 1 .. n + 1 /\ s[i + 1] = s[k + 1]
      BY <1>2, <2>2
    <3>2. i + 1 = k + 1
      BY <1>1, <2>2, <3>1 DEF Once
    <3>. QED
      BY <3>2
  <2>. QED
    BY <1>2, <2>1, <2>2 DEF Once
<1>11. \A i \in 1 .. n : i + 1 \in 1 .. n + 1
  OBVIOUS
<1>. QED
  BY <1>1, <1>2, <1>3, <1>7, <1>8, <1>9, <1>10, <1>11

LEMMA JobsInit == Init => JobsInv
<1> SUFFICES ASSUME Init PROVE JobsInv
  OBVIOUS
<1> USE PoolAssumption DEF Init, MakeQueue, Thread
<1>1. /\ \A w \in Worker : todo[w] = <<>> /\ myjob[w] = None
      /\ \A c \in Client : c \in Thread /\ todo[c] = Roots[c]
      /\ orders = <<>> /\ done = {}
  OBVIOUS
<1>2. CallsOK
  <2>1. \A t \in Thread : Once(todo[t])
    BY <1>1, OneCall DEF Once
  <2>2. \A t \in Thread : pc[t] \notin DispatchPc
    BY DEF DispatchPc
  <2>3. \A i \in 1 .. Len(orders) : orders[i] \notin SelfArg
    <3>1. Len(orders) = 0
      BY <1>1
    <3>. QED
      BY <3>1
  <2> HIDE DEF Init, MakeQueue
  <2>. QED
    BY <1>1, <2>1, <2>2, <2>3 DEF CallsOK
<1>3. ASSUME NEW j \in Job PROVE InOnePlace(j) /\ (Somewhere(j) <=> IsDue(j))
  <2>1. CalledBy(j) = {c \in Client : At(Roots[c], j) # {}}
    BY <1>1, AtEmpty DEF CalledBy
  <2>2. At(orders, j) = {} /\ RunBy(j) = {} /\ j \notin done
    BY <1>1, AtEmpty DEF RunBy
  <2>3. One(CalledBy(j))
    BY <2>1, OneCall DEF One
  <2>4. Started = {}
    BY <1>1 DEF Started, RunBy
  <2>. QED
    BY <2>1, <2>2, <2>3, <2>4 DEF InOnePlace, Somewhere, IsDue, One
<1>. QED
  BY <1>2, <1>3 DEF JobsInv

LEMMA CallsKept ==
  ASSUME TypeOK, CallsOK, NEW t \in Thread, OthersMove(t), Once(todo'[t]),
         \A u \in Thread \ {t} : todo'[u] = todo[u],
         \A w \in Worker \ {t} : myjob'[w] = myjob[w],
         pc'[t] \in DispatchPc \ {"dStray"} => Head(todo'[t]) \notin SelfArg,
         t \in Worker /\ myjob'[t] = None => todo'[t] = <<>>,
         \A i \in 1 .. Len(orders') : orders'[i] \notin SelfArg
  PROVE  CallsOK'
<1>1. \A u \in Thread \ {t} : pc'[u] \in DispatchPc \ {"dStray"} =>
                              pc[u] \in DispatchPc \ {"dStray"}
  BY DEF OthersMove, DispatchPc
<1>. QED
  BY <1>1 DEF CallsOK, Thread

\* A step that moves no job.
LEMMA SamePlaces ==
  ASSUME TypeOK, JobsInv, NEW t \in Thread, OthersMove(t),
         orders' = orders, todo' = todo, myjob' = myjob, done' = done,
         pc'[t] \in DispatchPc \ {"dStray"} => Head(todo[t]) \notin SelfArg
  PROVE  JobsInv'
<1>1. CallsOK'
  BY CallsKept DEF JobsInv, CallsOK
<1>2. \A j \in Job : /\ InOnePlace(j)' <=> InOnePlace(j)
                     /\ Somewhere(j)' <=> Somewhere(j)
                     /\ IsDue(j)' <=> IsDue(j)
  BY DEF InOnePlace, Somewhere, IsDue, CalledBy, RunBy, Started
<1>. QED
  BY <1>1, <1>2 DEF JobsInv

\* A call that dispatch refuses.
LEMMA RefuseStep ==
  ASSUME TypeOK, JobsInv, NEW t \in Thread, CallDispatch(t),
         Head(todo[t]) \in SelfArg
  PROVE  JobsInv'
<1> USE DEF TypeOK, DataOK
<1>1. PICK s \in Seq(Job), j0 \in Job : s = todo[t] /\ s # <<>> /\ j0 = Head(s)
  BY HeadTailProperties DEF CallDispatch
<1>2. /\ todo' = [todo EXCEPT ![t] = Tail(s)] /\ pc' = pc
      /\ orders' = orders /\ myjob' = myjob /\ done' = done
      /\ pc[t] = IF t \in Worker THEN "run" ELSE "idle"
  BY <1>1 DEF CallDispatch
<1>3. /\ todo'[t] = Tail(s) /\ \A u \in Thread \ {t} : todo'[u] = todo[u]
  BY <1>2
<1>4. \A j : j # j0 => (At(Tail(s), j) # {} <=> At(s, j) # {})
  BY <1>1, AtTail
<1>5. CallsOK'
  <2>1. Once(Tail(s))
    BY <1>1, AtTail DEF JobsInv, CallsOK
  <2>2. t \in Worker => myjob[t] # None
    BY <1>2, PoolAssumption DEF PcOK
  <2>3. OthersMove(t) /\ pc'[t] \notin DispatchPc
    BY <1>2 DEF OthersMove, DispatchPc
  <2>4. \A i \in 1 .. Len(orders') : orders'[i] \notin SelfArg
    BY <1>2 DEF JobsInv, CallsOK
  <2>. QED
    BY <1>2, <1>3, <2>1, <2>2, <2>3, <2>4, CallsKept DEF JobsInv
<1>6. ASSUME NEW j \in Job \ SelfArg
      PROVE  InOnePlace(j)' /\ (Somewhere(j)' <=> IsDue(j)')
  <2>1. CalledBy(j)' = CalledBy(j)
    BY <1>1, <1>3, <1>4, <1>6 DEF CalledBy
  <2>2. /\ At(orders, j)' = At(orders, j) /\ RunBy(j)' = RunBy(j)
        /\ IsDue(j)' <=> IsDue(j)
    BY <1>2 DEF RunBy, IsDue, Started
  <2>3. InOnePlace(j) /\ (Somewhere(j) <=> IsDue(j))
    BY DEF JobsInv
  <2>. QED
    BY <1>2, <2>1, <2>2, <2>3 DEF InOnePlace, Somewhere
<1>. QED
  BY <1>5, <1>6 DEF JobsInv

\* dispatch passes a job on from its caller to the queue.
LEMMA PostJobStep ==
  ASSUME TypeOK, JobsInv, NEW t \in Thread, Post(t)
  PROVE  JobsInv'
<1> USE DEF TypeOK, DataOK
<1>0. /\ pc[t] = "dLoop" /\ OthersMove(t) /\ pc'[t] = "dStray"
  BY DispatchMoves DEF Post, Moves
<1>1. PICK s \in Seq(Job), j0 \in Job : s = todo[t] /\ s # <<>> /\ j0 = Head(s)
  <2>1. todo[t] \in Seq(Job) /\ todo[t] # <<>>
    BY <1>0 DEF PcOK, DispatchPc
  <2>. QED
    BY <2>1, HeadTailProperties
<1>2. /\ todo' = [todo EXCEPT ![t] = Tail(s)]
      /\ orders' = Append(orders, j0) /\ myjob' = myjob /\ done' = done
  BY <1>1 DEF Post, AddWorkOrder
<1>3. /\ todo'[t] = Tail(s) /\ \A u \in Thread \ {t} : todo'[u] = todo[u]
  BY <1>2
<1>4. /\ \A j : j # j0 => (At(Tail(s), j) # {} <=> At(s, j) # {})
      /\ At(Tail(s), j0) = {} /\ At(s, j0) # {} /\ Once(Tail(s))
  BY <1>1, AtTail DEF JobsInv, CallsOK
<1>5. /\ \A j : j # j0 => At(orders', j) = At(orders, j)
      /\ At(orders', j0) = At(orders, j0) \cup {Len(orders) + 1}
  BY <1>2, AtAppend
<1>6. j0 \notin SelfArg
  BY <1>0, <1>1 DEF JobsInv, CallsOK, DispatchPc
<1>7. CallsOK'
  <2>1. \A i \in 1 .. Len(orders') : orders'[i] \notin SelfArg
    <3>1. /\ Len(orders') = Len(orders) + 1 /\ Len(orders) \in Nat
          /\ \A i \in 1 .. Len(orders) : orders'[i] = orders[i]
          /\ orders'[Len(orders) + 1] = j0
      BY <1>2, AtAppend
    <3>2. \A i \in 1 .. Len(orders) : orders[i] \notin SelfArg
      BY DEF JobsInv, CallsOK
    <3>. QED
      BY <1>6, <3>1, <3>2
  <2>2. t \in Worker => myjob[t] # None
    BY <1>0, PoolAssumption DEF PcOK, DispatchPc
  <2>. QED
    BY <1>0, <1>2, <1>3, <1>4, <2>1, <2>2, CallsKept DEF JobsInv
<1>8. ASSUME NEW j \in Job \ SelfArg
      PROVE  InOnePlace(j)' /\ (Somewhere(j)' <=> IsDue(j)')
  <2>1. /\ RunBy(j)' = RunBy(j) /\ (j \in done' <=> j \in done)
        /\ IsDue(j)' <=> IsDue(j)
    BY <1>2 DEF RunBy, IsDue, Started
  <2>2. InOnePlace(j) /\ (Somewhere(j) <=> IsDue(j))
    BY DEF JobsInv
  <2>3. CASE j # j0
    <3>1. CalledBy(j)' = CalledBy(j) /\ At(orders, j)' = At(orders, j)
      BY <1>1, <1>3, <1>4, <1>5, <2>3 DEF CalledBy
    <3>. QED
      BY <2>1, <2>2, <3>1 DEF InOnePlace, Somewhere
  <2>4. CASE j = j0
    <3>1. t \in CalledBy(j)
      BY <1>1, <1>4, <2>4 DEF CalledBy
    <3>2. CalledBy(j) = {t} /\ At(orders, j) = {} /\ RunBy(j) = {} /\ j \notin done
      BY <2>2, <3>1 DEF InOnePlace, One
    <3>3. CalledBy(j)' = {}
      <4>1. \A u \in Thread \ {t} : At(todo[u], j) = {}
        BY <3>2 DEF CalledBy
      <4>2. \A u \in Thread : At(todo'[u], j) = {}
        BY <1>3, <1>4, <2>4, <4>1
      <4>. QED
        BY <4>2 DEF CalledBy
    <3>4. At(orders, j)' = {Len(orders) + 1}
      BY <1>5, <2>4, <3>2
    <3>. QED
      BY <2>1, <2>2, <3>1, <3>2, <3>3, <3>4 DEF InOnePlace, Somewhere, One
  <2>. QED
    BY <2>3, <2>4
<1>. QED
  BY <1>7, <1>8 DEF JobsInv

\* A worker takes the oldest job, and what that one dispatches becomes due.
LEMMA TakeJobStep ==
  ASSUME TypeOK, JobsInv, NEW w \in Worker, TakeJob(w)
  PROVE  JobsInv'
<1> USE DEF TypeOK, DataOK, Thread
<1>0. pc[w] = "wTake" /\ OthersMove(w) /\ pc'[w] = "run"
  BY WorkerMoves DEF TakeJob, Moves
<1>1. PICK h \in Job : h = Head(orders) /\ orders # <<>>
  BY HeadTailProperties DEF TakeJob, IsJobAvailable
<1>2. /\ todo' = [todo EXCEPT ![w] = Spawn[h]] /\ orders' = Tail(orders)
      /\ myjob' = [myjob EXCEPT ![w] = h] /\ done' = done
  BY <1>1 DEF TakeJob, GetWorkOrder
<1>3. /\ todo'[w] = Spawn[h] /\ \A u \in Thread \ {w} : todo'[u] = todo[u]
      /\ myjob'[w] = h /\ \A u \in Worker \ {w} : myjob'[u] = myjob[u]
  BY <1>2
<1>4. myjob[w] = None /\ todo[w] = <<>> /\ h # None
  <2>1. myjob[w] \notin Job
    BY <1>0 DEF PcOK, DispatchPc
  <2>. QED
    BY <2>1, PoolAssumption DEF JobsInv, CallsOK
<1>5. /\ 1 \in At(orders, h)
      /\ \A j : j # h => (At(orders', j) # {} <=> At(orders, j) # {})
      /\ \A j : One(At(orders, j)) => One(At(orders', j))
      /\ One(At(orders, h)) => At(orders', h) = {}
      /\ \A i \in 1 .. Len(orders') : orders'[i] = orders[i + 1]
                                      /\ i + 1 \in 1 .. Len(orders)
  BY <1>1, <1>2, AtTail
<1>6. h \notin SelfArg
  <2>1. \A i \in At(orders, h) : i \in 1 .. Len(orders) /\ orders[i] = h
    BY DEF At
  <2>. QED
    BY <1>5, <2>1 DEF JobsInv, CallsOK
<1>7. CallsOK'
  <2>1. \A i \in 1 .. Len(orders') : orders'[i] \notin SelfArg
    BY <1>5 DEF JobsInv, CallsOK
  <2>2. Once(todo'[w])
    BY <1>3, OneCall
  <2>3. pc'[w] \notin DispatchPc
    BY <1>0 DEF DispatchPc
  <2>. QED
    BY <1>0, <1>3, <1>4, <2>1, <2>2, <2>3, CallsKept DEF JobsInv
<1>8. InOnePlace(h) /\ One(At(orders, h)) /\ At(orders, h) # {}
      /\ CalledBy(h) = {} /\ RunBy(h) = {} /\ h \notin done
  BY <1>5, <1>6 DEF JobsInv, InOnePlace
<1>9. h \notin Started /\ Started' = Started \cup {h}
  <2>1. \A k \in Job : RunBy(k)' = IF k = h THEN RunBy(k) \cup {w} ELSE RunBy(k)
    BY <1>3, <1>4, PoolAssumption DEF RunBy
  <2>2. \A k \in Job : k \in Started' <=> k \in Started \/ k = h
    BY <1>2, <2>1 DEF Started
  <2>. QED
    BY <1>8, <2>2 DEF Started
<1>10. ASSUME NEW j \in Job \ SelfArg
       PROVE  InOnePlace(j)' /\ (Somewhere(j)' <=> IsDue(j)')
  <2>1. /\ RunBy(j)' = (IF j = h THEN RunBy(j) \cup {w} ELSE RunBy(j))
        /\ j \in done' <=> j \in done
    BY <1>2, <1>3, <1>4, PoolAssumption DEF RunBy
  <2>2. w \notin CalledBy(j)
    BY <1>4, AtEmpty DEF CalledBy
  <2>3. CalledBy(j)' = IF At(Spawn[h], j) # {} THEN CalledBy(j) \cup {w}
                       ELSE CalledBy(j)
    BY <1>3, <2>2 DEF CalledBy
  <2>4. IsDue(j)' <=> IsDue(j) \/ At(Spawn[h], j) # {}
    BY <1>9 DEF IsDue
  <2>5. InOnePlace(j) /\ (Somewhere(j) <=> IsDue(j))
    BY DEF JobsInv
  <2>6. CASE At(Spawn[h], j) # {}
    <3>1. ~IsDue(j)
      BY <1>9, <2>6, OneCall DEF IsDue, Started
    <3>2. CalledBy(j) = {} /\ At(orders, j) = {} /\ RunBy(j) = {} /\ j \notin done
      BY <2>5, <3>1 DEF Somewhere
    <3>3. j # h
      BY <1>8, <3>2
    <3>4. CalledBy(j)' = {w} /\ At(orders, j)' = {} /\ RunBy(j)' = {} /\ j \notin done'
      BY <1>5, <2>1, <2>3, <2>6, <3>2, <3>3
    <3>. QED
      BY <2>4, <2>6, <3>4 DEF InOnePlace, Somewhere, One
  <2>7. CASE At(Spawn[h], j) = {} /\ j = h
    <3>1. CalledBy(j)' = {} /\ At(orders, j)' = {} /\ RunBy(j)' = {w} /\ j \notin done'
      BY <1>5, <1>8, <2>1, <2>3, <2>7
    <3>2. IsDue(j)
      BY <1>8, <2>5, <2>7 DEF Somewhere
    <3>. QED
      BY <2>4, <3>1, <3>2 DEF InOnePlace, Somewhere, One
  <2>8. CASE At(Spawn[h], j) = {} /\ j # h
    <3>1. /\ CalledBy(j)' = CalledBy(j) /\ RunBy(j)' = RunBy(j)
          /\ At(orders, j)' # {} <=> At(orders, j) # {}
          /\ One(At(orders, j)) => One(At(orders, j)')
      BY <1>5, <2>1, <2>3, <2>8
    <3>. QED
      BY <2>1, <2>4, <2>5, <2>8, <3>1 DEF InOnePlace, Somewhere
  <2>. QED
    BY <2>6, <2>7, <2>8
<1>. QED
  BY <1>7, <1>10 DEF JobsInv

\* A job that was run is done.
LEMMA FinishJobStep ==
  ASSUME TypeOK, JobsInv, NEW w \in Worker, FinishJob(w)
  PROVE  JobsInv'
<1> USE DEF TypeOK, DataOK, Thread
<1>0. pc[w] = "run" /\ OthersMove(w) /\ pc'[w] = "wLock"
  BY WorkerMoves DEF FinishJob, Moves
<1>1. PICK h \in Job : h = myjob[w]
  BY <1>0 DEF PcOK
<1>2. /\ myjob' = [myjob EXCEPT ![w] = None] /\ done' = done \cup {h}
      /\ orders' = orders /\ todo' = todo /\ todo[w] = <<>>
  BY <1>1 DEF FinishJob
<1>3. /\ myjob'[w] = None /\ \A u \in Worker \ {w} : myjob'[u] = myjob[u]
  BY <1>2
<1>4. CallsOK'
  <2>1. pc'[w] \notin DispatchPc
    BY <1>0 DEF DispatchPc
  <2>2. Once(todo'[w]) /\ \A i \in 1 .. Len(orders') : orders'[i] \notin SelfArg
    BY <1>2 DEF JobsInv, CallsOK
  <2>. QED
    BY <1>0, <1>2, <1>3, <2>1, <2>2, CallsKept DEF JobsInv
<1>5. \A k \in Job : RunBy(k)' = IF k = h THEN RunBy(k) \ {w} ELSE RunBy(k)
  BY <1>1, <1>3, PoolAssumption DEF RunBy
<1>6. Started' = Started
  <2>1. h \in Started
    BY <1>1 DEF Started, RunBy
  <2>. QED
    BY <1>2, <1>5, <2>1 DEF Started
<1>7. ASSUME NEW j \in Job \ SelfArg
      PROVE  InOnePlace(j)' /\ (Somewhere(j)' <=> IsDue(j)')
  <2>1. /\ CalledBy(j)' = CalledBy(j) /\ At(orders, j)' = At(orders, j)
        /\ IsDue(j)' <=> IsDue(j)
    BY <1>2, <1>6 DEF CalledBy, IsDue
  <2>2. InOnePlace(j) /\ (Somewhere(j) <=> IsDue(j))
    BY DEF JobsInv
  <2>3. CASE j # h
    BY <1>2, <1>5, <2>1, <2>2, <2>3 DEF InOnePlace, Somewhere
  <2>4. CASE j = h
    <3>1. w \in RunBy(j)
      BY <1>1, <2>4 DEF RunBy
    <3>2. RunBy(j)' = {} /\ j \in done'
      BY <1>2, <1>5, <2>2, <2>4, <3>1 DEF InOnePlace, One
    <3>. QED
      BY <2>1, <2>2, <3>1, <3>2 DEF InOnePlace, Somewhere, One
  <2>. QED
    BY <2>3, <2>4
<1>. QED
  BY <1>4, <1>7 DEF JobsInv

LEMMA JobsStep ==
  ASSUME TypeOK, JobsInv, [Next]_vars
  PROVE  JobsInv'
<1> USE DEF Thread
<1>1. ASSUME NEW t \in Thread, Lock(t) \/ StrayUnlock(t) \/ SpuriousWake(t) \/ CondWait(t)
      PROVE  JobsInv'
  <2>1. /\ OthersMove(t) /\ orders' = orders /\ todo' = todo
        /\ myjob' = myjob /\ done' = done
    BY <1>1, OtherMoves DEF Moves, Lock, StrayUnlock, SpuriousWake, CondWait
  <2>2. pc'[t] \in DispatchPc \ {"dStray"} => pc[t] \in DispatchPc \ {"dStray"}
    BY <1>1, OtherMoves DEF DispatchPc
  <2>. QED
    BY <2>1, <2>2, SamePlaces DEF JobsInv, CallsOK
<1>2. ASSUME NEW t \in Thread, CallDispatch(t) PROVE JobsInv'
  <2>1. CASE Head(todo[t]) \in SelfArg
    BY <1>2, <2>1, RefuseStep
  <2>2. CASE Head(todo[t]) \notin SelfArg
    <3>1. /\ OthersMove(t) /\ orders' = orders /\ todo' = todo
          /\ myjob' = myjob /\ done' = done
      BY <1>2, <2>2, GoMoves DEF CallDispatch, TypeOK
    <3>. QED
      BY <2>2, <3>1, SamePlaces
  <2>. QED
    BY <2>1, <2>2
<1>3. ASSUME NEW t \in Thread, WaitForRoom(t) PROVE JobsInv'
  <2>1. /\ OthersMove(t) /\ orders' = orders /\ todo' = todo
        /\ myjob' = myjob /\ done' = done /\ pc[t] = "dLoop"
    BY <1>3, DispatchMoves DEF Moves, WaitForRoom
  <2>. QED
    BY <2>1, SamePlaces DEF JobsInv, CallsOK, DispatchPc
<1>4. ASSUME NEW w \in Worker, WaitForJob(w) \/ FindJob(w) \/ Leave(w)
      PROVE  JobsInv'
  <2>1. /\ OthersMove(w) /\ orders' = orders /\ todo' = todo
        /\ myjob' = myjob /\ done' = done
        /\ pc'[w] \in {"wWait", "wTake", "wStray"}
    BY <1>4, WorkerMoves DEF Moves, WaitForJob, FindJob, Leave
  <2>. QED
    BY <2>1, SamePlaces DEF DispatchPc
<1>5. ASSUME NEW c \in Client, CallDestroy(c) \/ Destroy(c)
      PROVE  JobsInv'
  <2>1. /\ OthersMove(c) /\ orders' = orders /\ todo' = todo
        /\ myjob' = myjob /\ done' = done
        /\ pc'[c] \in {"xLock", "xLoop", "xWait", "xFree", "xDone"}
    BY <1>5, DestroyMoves
       DEF Moves, Destroy, CallDestroy, SetExit, WaitForExit, StopWaiting, FreePool
  <2>. QED
    BY <2>1, SamePlaces DEF DispatchPc
<1>6. CASE UNCHANGED vars
  <2>1. CallsOK'
    BY <1>6 DEF vars, JobsInv, CallsOK
  <2>2. \A j \in Job : /\ InOnePlace(j)' <=> InOnePlace(j)
                       /\ Somewhere(j)' <=> Somewhere(j)
                       /\ IsDue(j)' <=> IsDue(j)
    BY <1>6 DEF vars, InOnePlace, Somewhere, IsDue, CalledBy, RunBy, Started
  <2>. QED
    BY <2>1, <2>2 DEF JobsInv
<1>7. ASSUME NEW w \in Worker, DoWork(w) PROVE JobsInv'
  BY <1>4, <1>7, TakeJobStep, FinishJobStep DEF DoWork
<1>. QED
  BY <1>1, <1>2, <1>3, <1>5, <1>6, <1>7, PostJobStep DEF Next, Dispatch

LEMMA OneElement ==
  ASSUME NEW S, One(S), S # {}
  PROVE  \E x : S = {x}
<1>1. PICK x : x \in S
  OBVIOUS
<1>2. S = {x}
  BY <1>1 DEF One
<1>. QED
  BY <1>2

LEMMA CountAt ==
  ASSUME NEW s \in Seq(Job), NEW j
  PROVE  Occurrences(j, s) > 0 <=> At(s, j) # {}
<1>1. IsFiniteSet(1 .. Len(s))
  BY FS_Interval, LenProperties
<1>2. IsFiniteSet(At(s, j))
  <2>1. At(s, j) \subseteq 1 .. Len(s)
    BY DEF At
  <2>. QED
    BY <1>1, <2>1, FS_Subset
<1>3. Cardinality(At(s, j)) \in Nat /\ (Cardinality(At(s, j)) = 0 <=> At(s, j) = {})
  BY <1>2, FS_CardinalityType, FS_EmptySet
<1>4. Occurrences(j, s) = Cardinality(At(s, j))
  BY DEF Occurrences, At
<1>. QED
  BY <1>3, <1>4

\* No job that dispatch was called for is lost, and none is queued or run
\* twice, in any interleaving of the steps of the threads.
THEOREM NoJobLost == Spec => []JobsAccounted
<1>1. TypeOK /\ JobsInv => JobsAccounted
  <2> SUFFICES ASSUME TypeOK, JobsInv, NEW j \in Job \ SelfArg
               PROVE  Cardinality(Places(j)) = IF Due(j) THEN 1 ELSE 0
    BY DEF JobsAccounted
  <2> USE DEF TypeOK, DataOK
  <2>1. Due(j) <=> IsDue(j)
    <3>1. \A c \in Client : Occurrences(j, Roots[c]) > 0 <=> At(Roots[c], j) # {}
      BY CountAt, PoolAssumption
    <3>2. \A k \in Job : Occurrences(j, Spawn[k]) > 0 <=> At(Spawn[k], j) # {}
      BY CountAt, PoolAssumption
    <3>3. Started = (done \cup {myjob[w] : w \in Worker}) \ {None}
      BY PoolAssumption DEF Started, RunBy
    <3>. QED
      BY <3>1, <3>2, <3>3, PoolAssumption DEF Due, IsDue, Started
  <2>2. /\ {u \in Thread : Occurrences(j, todo[u]) > 0} = CalledBy(j)
        /\ {k \in 1 .. Len(orders) : orders[k] = j} = At(orders, j)
        /\ {u \in Worker : myjob[u] = j} = RunBy(j)
    <3>1. \A u \in Thread : Occurrences(j, todo[u]) > 0 <=> At(todo[u], j) # {}
      BY CountAt
    <3>. QED
      BY <3>1 DEF CalledBy, At, RunBy
  <2>3. Places(j) = {<<"todo", t>> : t \in CalledBy(j)}
                      \cup {<<"queued", i>> : i \in At(orders, j)}
                      \cup {<<"running", w>> : w \in RunBy(j)}
                      \cup (IF j \in done THEN {<<"done", j>>} ELSE {})
    BY <2>2 DEF Places
  <2>4. InOnePlace(j) /\ (Somewhere(j) <=> IsDue(j))
    BY DEF JobsInv
  <2>5. CASE ~Due(j)
    <3>1. Places(j) = {}
      BY <2>1, <2>3, <2>4, <2>5 DEF Somewhere
    <3>. QED
      BY <2>5, <3>1, FS_EmptySet
  <2>6. CASE Due(j)
    <3>1. \E p : Places(j) = {p}
      <4>1. CASE CalledBy(j) # {}
        <5>1. PICK t : CalledBy(j) = {t}
          BY <2>4, <4>1, OneElement DEF InOnePlace
        <5>2. Places(j) = {<<"todo", t>>}
          BY <2>3, <2>4, <5>1 DEF InOnePlace
        <5>. QED
          BY <5>2
      <4>2. CASE At(orders, j) # {}
        <5>1. PICK i : At(orders, j) = {i}
          BY <2>4, <4>2, OneElement DEF InOnePlace
        <5>2. Places(j) = {<<"queued", i>>}
          BY <2>3, <2>4, <5>1 DEF InOnePlace
        <5>. QED
          BY <5>2
      <4>3. CASE RunBy(j) # {}
        <5>1. PICK w : RunBy(j) = {w}
          BY <2>4, <4>3, OneElement DEF InOnePlace
        <5>2. Places(j) = {<<"running", w>>}
          BY <2>3, <2>4, <5>1 DEF InOnePlace
        <5>. QED
          BY <5>2
      <4>4. CASE j \in done
        <5>1. Places(j) = {<<"done", j>>}
          BY <2>3, <2>4, <4>4 DEF InOnePlace
        <5>. QED
          BY <5>1
      <4>. QED
        BY <2>1, <2>4, <2>6, <4>1, <4>2, <4>3, <4>4 DEF Somewhere
    <3>. QED
      BY <2>6, <3>1, FS_Singleton
  <2>. QED
    BY <2>5, <2>6
<1>2. TypeOK /\ JobsInv /\ [Next]_vars => JobsInv'
  BY JobsStep
<1>. QED
  BY <1>1, <1>2, Types, JobsInit, PTL DEF Spec

-----------------------------------------------------------------------------
\* The list again, with its theorems, called for at most InitCap orders.
Lists == INSTANCE QueueListProofs
           WITH Order <- Job, Unset <- None, capacity <- lcapacity, got <- lgot,
                Backlog <- InitCap

WithinInitCap == Len(orders) <= InitCap

PoolInv ==
  /\ Lists!TypeOK /\ Lists!ListsIntact
  /\ Lists!Pending = orders
  /\ lcapacity = InitCap /\ capacity = InitCap

\* What the lemmas about the list need of the constants.
LEMMA ListConstants ==
  /\ InitCap \in Nat \ {0} /\ InitialCap \in Nat \ {0} /\ MaxCap \in Nat \ {0}
  /\ InitCap <= MaxCap
  /\ None \notin Job /\ Lists!InitCap = InitCap
  BY QueueAssumption, PoolAssumption DEF InitCap, Lists!InitCap

\* A post and a take are the same in both instances of the list, but for the
\* backlog.
LEMMA SameList ==
  /\ List!QInit <=> Lists!QInit
  /\ \A o : List!QPost(o) /\ Len(work) < InitCap => Lists!QPost(o)
  /\ List!QTake => Lists!QTake
<1>1. List!QInit <=> Lists!QInit
  BY DEF List!QInit, Lists!QInit, List!MakeQueue, Lists!MakeQueue,
         List!InitCap, Lists!InitCap, List!NULL, Lists!NULL, List!Node, Lists!Node
<1>2. ASSUME NEW o, List!QPost(o), Len(work) < InitCap PROVE Lists!QPost(o)
  BY <1>2 DEF List!QPost, Lists!QPost, List!CanAcceptWork, Lists!CanAcceptWork,
         List!AddWorkOrder, Lists!AddWorkOrder, List!Grow, Lists!Grow,
         List!NewNode, Lists!NewNode, List!NextFree, Lists!NextFree,
         List!Detached, Lists!Detached, List!NULL, Lists!NULL
<1>3. List!QTake => Lists!QTake
  BY DEF List!QTake, Lists!QTake, List!Take, Lists!Take,
         List!IsJobAvailable, Lists!IsJobAvailable,
         List!GetWorkOrder, Lists!GetWorkOrder,
         List!OldestOrder, Lists!OldestOrder, List!NULL, Lists!NULL
<1>. QED
  BY <1>1, <1>2, <1>3

-----------------------------------------------------------------------------
(* The pool over the list is a pool.                                       *)

LEMMA PoolStep == [PoolNext]_<<vars, listVars>> => [Next]_vars
<1> SUFFICES ASSUME PoolNext PROVE Next
  BY DEF vars
<1>1. ASSUME NEW t \in Thread, PoolPost(t) PROVE Next
  BY <1>1 DEF PoolPost, Next, Dispatch
<1>2. ASSUME NEW w \in Worker, PoolTake(w) PROVE Next
  BY <1>2 DEF PoolTake, Next, DoWork
<1>. QED
  BY <1>1, <1>2 DEF PoolNext, PoolElse

\* What the pool does over the list of list.c is something it may do over the
\* contract of the queue, so all that is proved of ThreadPool holds of it.
LEMMA PoolOverListIsPool == PoolSpec => Spec
<1>1. PoolInit => Init
  BY DEF PoolInit
<1>. QED
  BY <1>1, PoolStep, PTL DEF PoolSpec, Spec

-----------------------------------------------------------------------------
(* The list answers as the contract does.                                  *)

LEMMA PoolInvInit == PoolInit => PoolInv
<1> SUFFICES ASSUME PoolInit PROVE PoolInv
  OBVIOUS
<1>1. Lists!QInit
  BY SameList DEF PoolInit
<1>2. Lists!TypeOK /\ Lists!ListsIntact
  BY <1>1, ListConstants, Lists!TypeInit, Lists!IntactInit
<1>3. work = <<>> /\ orders = <<>> /\ lcapacity = InitCap /\ capacity = InitCap
  BY <1>1, ListConstants
     DEF PoolInit, Init, MakeQueue, Lists!QInit, Lists!MakeQueue
<1>4. Lists!Pending = orders
  BY <1>3 DEF Lists!Pending
<1>. QED
  BY <1>2, <1>3, <1>4 DEF PoolInv

\* The length of the list, and which of its lists are empty.
LEMMA Lengths ==
  ASSUME TypeOK, PoolInv
  PROVE  /\ Len(work) = Len(orders) /\ Len(work) \in Nat /\ Len(free) \in Nat
         /\ Len(work) + Len(free) = InitCap + 1
         /\ tail = -1 <=> orders = <<>>
         /\ freeTail = -1 <=> Len(free) = 0
<1>1. /\ work \in Seq(Lists!Node) /\ free \in Seq(Lists!Node)
      /\ Lists!Linked(tail, head, work) /\ Lists!Linked(freeTail, freeHead, free)
      /\ Len(work) + Len(free) = InitCap + 1
  BY DEF PoolInv, Lists!TypeOK, Lists!ListsIntact, Lists!Partition
<1>2. Len(work) \in Nat /\ Len(free) \in Nat /\ Len(orders) \in Nat
  BY <1>1, LenProperties DEF TypeOK, DataOK
<1>3. Len(work) = Len(orders)
  <2>1. DOMAIN orders = 1 .. Len(work)
    BY DEF PoolInv, Lists!Pending
  <2>2. DOMAIN orders = 1 .. Len(orders)
    BY LenProperties DEF TypeOK, DataOK
  <2>. QED
    BY <1>2, <2>1, <2>2
<1>4. \A n \in Lists!Node : n # -1
  BY ListConstants DEF Lists!Node
<1>5. ASSUME NEW first, NEW last, NEW s \in Seq(Lists!Node),
             Lists!Linked(first, last, s)
      PROVE  first = -1 <=> s = <<>>
  <2>1. s # <<>> => s[1] \in Lists!Node
    <3>1. s # <<>> => 1 \in 1 .. Len(s)
      BY EmptySeq, LenProperties
    <3>. QED
      BY <3>1, ElementOfSeq
  <2>. QED
    BY <1>4, <1>5, <2>1 DEF Lists!Linked, Lists!NULL
<1>6. tail = -1 <=> Len(work) = 0
  BY <1>1, <1>5, EmptySeq
<1>7. freeTail = -1 <=> Len(free) = 0
  BY <1>1, <1>5, EmptySeq
<1>8. Len(orders) = 0 <=> orders = <<>>
  BY EmptySeq DEF TypeOK, DataOK
<1>. QED
  BY <1>1, <1>2, <1>3, <1>6, <1>7, <1>8

LEMMA PoolPostStep ==
  ASSUME TypeOK, PoolInv, WithinInitCap', NEW t \in Thread, PoolPost(t)
  PROVE  PoolInv'
<1>1. PICK j \in Job : j = Head(todo[t])
  <2>1. todo[t] \in Seq(Job) /\ todo[t] # <<>>
    BY DEF PoolPost, Post, TypeOK, DataOK, PcOK, DispatchPc
  <2>. QED
    BY <2>1, HeadTailProperties
<1>2. /\ List!QPost(j) /\ orders' = Append(orders, j)
      /\ capacity' = IF HasFreeNode THEN capacity ELSE capacity + 1
  BY <1>1 DEF PoolPost, Post, AddWorkOrder
<1>3. Len(work) < InitCap
  <2>1. Len(orders') = Len(orders) + 1
    BY <1>2, AppendProperties DEF TypeOK, DataOK
  <2>. QED
    BY <2>1, Lengths, ListConstants DEF WithinInitCap
<1>4. Lists!QPost(j)
  BY <1>2, <1>3, SameList
<1>5. /\ Lists!TypeOK /\ Lists!ListsIntact /\ Lists!Pending = orders
      /\ lcapacity = InitCap /\ capacity = InitCap
  BY DEF PoolInv
<1>6. InitCap <= Lists!InitCap
  BY ListConstants
<1>7. ~Lists!StaleEnd
  BY <1>3, <1>5, <1>6, ListConstants, Lists!SlackAvoidsStaleEnd
<1>8. Lists!ListsIntact'
  BY <1>4, <1>5, <1>7, ListConstants, Lists!PostIntact
<1>9. Lists!TypeOK'
  <2>1. Lists!QNext
    BY <1>4 DEF Lists!QNext
  <2>. QED
    BY <1>5, <2>1, ListConstants, Lists!TypeStep
<1>10. Lists!Pending' = Append(Lists!Pending, j) /\ lcapacity' = lcapacity
  BY <1>4, <1>5, <1>6, ListConstants, Lists!PostPends
<1>11. capacity' = InitCap
  BY <1>2, <1>3, <1>5, Lengths, ListConstants DEF HasFreeNode
<1>. QED
  BY <1>2, <1>5, <1>8, <1>9, <1>10, <1>11 DEF PoolInv

LEMMA PoolTakeStep ==
  ASSUME TypeOK, PoolInv, NEW w \in Worker, PoolTake(w)
  PROVE  PoolInv' /\ lgot' = Head(orders)
<1>1. Lists!QTake /\ orders' = Tail(orders) /\ capacity' = capacity
  BY SameList DEF PoolTake, TakeJob, GetWorkOrder
<1>2. /\ Lists!TypeOK /\ Lists!ListsIntact /\ Lists!Pending = orders
      /\ lcapacity = InitCap /\ capacity = InitCap
  BY DEF PoolInv
<1>3. Lists!ListsIntact'
  BY <1>1, <1>2, ListConstants, Lists!TakeIntact
<1>4. Lists!TypeOK'
  <2>1. Lists!QNext
    BY <1>1 DEF Lists!QNext
  <2>. QED
    BY <1>2, <2>1, ListConstants, Lists!TypeStep
<1>5. /\ Lists!Pending' = Tail(Lists!Pending) /\ lcapacity' = lcapacity
      /\ lgot' = Head(Lists!Pending)
  BY <1>1, <1>2, ListConstants, Lists!TakePends
<1>. QED
  BY <1>1, <1>2, <1>3, <1>4, <1>5 DEF PoolInv

LEMMA PoolInvStep ==
  ASSUME TypeOK, PoolInv, WithinInitCap', [PoolNext]_<<vars, listVars>>
  PROVE  PoolInv'
<1>1. ASSUME NEW t \in Thread, PoolPost(t) PROVE PoolInv'
  BY <1>1, PoolPostStep
<1>2. ASSUME NEW w \in Worker, PoolTake(w) PROVE PoolInv'
  BY <1>2, PoolTakeStep
<1>3. CASE PoolElse \/ UNCHANGED <<vars, listVars>>
  <2>1. UNCHANGED listVars /\ orders' = orders
    BY <1>3 DEF PoolElse, vars
  <2>2. capacity' = capacity
    <3>1. CASE UNCHANGED vars
      BY <3>1 DEF vars
    <3>2. ASSUME NEW t \in Thread, Post(t) PROVE orders' # orders
      <4>1. todo[t] \in Seq(Job) /\ todo[t] # <<>>
        BY <3>2 DEF Post, TypeOK, DataOK, PcOK, DispatchPc
      <4>2. Head(todo[t]) \in Job
        BY <4>1, HeadTailProperties
      <4>3. Len(orders') = Len(orders) + 1 /\ Len(orders) \in Nat
        BY <3>2, <4>2, AppendProperties, LenProperties
           DEF Post, AddWorkOrder, TypeOK, DataOK
      <4>. QED
        BY <4>3
    <3>3. CASE Next
      BY <2>1, <3>2, <3>3
         DEF Next, Lock, StrayUnlock, SpuriousWake, CondWait, CallDispatch, Dispatch,
             WaitForRoom, DoWork, WaitForJob, FindJob, TakeJob, GetWorkOrder,
             FinishJob, Leave, CallDestroy, Destroy, SetExit, WaitForExit,
             StopWaiting, FreePool
    <3>. QED
      BY <1>3, <3>1, <3>3 DEF PoolElse
  <2>3. Lists!TypeOK' /\ Lists!ListsIntact' /\ Lists!Pending' = Lists!Pending
    <3>1. UNCHANGED Lists!queueVars
      BY <2>1 DEF listVars, Lists!queueVars, Lists!listVars
    <3>2. Lists!TypeOK'
      BY <3>1, ListConstants, Lists!TypeStep DEF PoolInv
    <3>3. Lists!ListsIntact'
      BY <3>1 DEF PoolInv, Lists!queueVars, Lists!listVars, Lists!ListsIntact,
         Lists!Linked, Lists!Partition, Lists!Distinct, Lists!Allocated
    <3>4. Lists!Pending' = Lists!Pending
      BY <3>1 DEF Lists!queueVars, Lists!listVars, Lists!Pending
    <3>. QED
      BY <3>2, <3>3, <3>4
  <2>. QED
    BY <2>1, <2>2, <2>3 DEF PoolInv, listVars
<1>. QED
  BY <1>1, <1>2, <1>3 DEF PoolNext

LEMMA IntactAnswers ==
  ASSUME TypeOK, PoolInv, WithinInitCap
  PROVE  ListAnswers
<1>1. List!NULL = -1
  BY DEF List!NULL
<1>2. /\ Len(work) = Len(orders) /\ Len(work) \in Nat /\ Len(free) \in Nat
      /\ Len(work) + Len(free) = InitCap + 1
      /\ tail = -1 <=> orders = <<>>
      /\ freeTail = -1 <=> Len(free) = 0
      /\ lcapacity = InitCap /\ capacity = InitCap
  BY Lengths DEF PoolInv
<1>3. List!IsJobAvailable <=> IsJobAvailable
  BY <1>1, <1>2 DEF List!IsJobAvailable, IsJobAvailable
<1>4. List!CanAcceptWork /\ CanAcceptWork
  BY <1>1, <1>2, ListConstants
     DEF List!CanAcceptWork, CanAcceptWork, HasFreeNode, WithinInitCap
<1>. QED
  BY <1>2, <1>3, <1>4 DEF ListAnswers

\* As long as no more orders wait than the initial capacity, the list tells
\* workers and dispatchers what the contract would.
THEOREM ListAgrees == PoolSpec /\ []WithinInitCap => []ListAnswers
<1>1. PoolSpec => []TypeOK
  BY PoolOverListIsPool, Types, PTL
<1>2. TypeOK /\ PoolInv /\ WithinInitCap' /\ [PoolNext]_<<vars, listVars>>
        => PoolInv'
  BY PoolInvStep
<1>3. TypeOK /\ PoolInv /\ WithinInitCap => ListAnswers
  BY IntactAnswers
<1>. QED
  BY <1>1, <1>2, <1>3, PoolInvInit, PTL DEF PoolSpec

\* Under the same condition a worker gets from the list, with its argument,
\* the job that was dispatched first of those not yet taken.
THEOREM RunsInOrder == PoolSpec /\ []WithinInitCap => RunsWhatWasDispatched
<1>1. PoolSpec => []TypeOK
  BY PoolOverListIsPool, Types, PTL
<1>2. TypeOK /\ PoolInv /\ WithinInitCap' /\ [PoolNext]_<<vars, listVars>>
        => PoolInv'
  BY PoolInvStep
<1>3. TypeOK /\ PoolInv /\ [PoolNext]_<<vars, listVars>>
        => [\A w \in Worker : myjob'[w] # myjob[w] /\ myjob'[w] # None
              => lgot' = myjob'[w]]_<<vars, listVars>>
  <2> SUFFICES ASSUME TypeOK, PoolInv, PoolNext, NEW w \in Worker,
                      myjob'[w] # myjob[w], myjob'[w] # None
               PROVE  lgot' = myjob'[w]
    OBVIOUS
  <2>1. ASSUME NEW t \in Thread, PoolPost(t) PROVE FALSE
    BY <2>1 DEF PoolPost, Post
  <2>2. ASSUME NEW u \in Worker, PoolTake(u) PROVE lgot' = myjob'[w]
    <3>1. lgot' = Head(orders)
      BY <2>2, PoolTakeStep
    <3>2. myjob' = [myjob EXCEPT ![u] = Head(orders)]
      BY <2>2 DEF PoolTake, TakeJob
    <3>. QED
      BY <3>1, <3>2 DEF TypeOK, DataOK
  <2>3. ASSUME PoolElse PROVE FALSE
    <3>1. ASSUME NEW u \in Worker, FinishJob(u) PROVE FALSE
      BY <3>1 DEF FinishJob, TypeOK, DataOK
    <3>2. ASSUME NEW u \in Worker, TakeJob(u) PROVE FALSE
      <4>1. orders \in Seq(Job) /\ orders # <<>> /\ orders' = Tail(orders)
        BY <3>2 DEF TakeJob, GetWorkOrder, IsJobAvailable, TypeOK, DataOK
      <4>2. Len(Tail(orders)) = Len(orders) - 1 /\ Len(orders) \in Nat
        BY <4>1, HeadTailProperties, LenProperties
      <4>. QED
        BY <2>3, <4>1, <4>2 DEF PoolElse
    <3>. QED
      BY <2>3, <3>1, <3>2
         DEF PoolElse, Next, Lock, StrayUnlock, SpuriousWake, CondWait, CallDispatch,
             Dispatch, WaitForRoom, Post, DoWork, WaitForJob, FindJob, Leave,
             CallDestroy, Destroy, SetExit, WaitForExit, StopWaiting, FreePool
  <2>. QED
    BY <2>1, <2>2, <2>3 DEF PoolNext
<1>. QED
  BY <1>1, <1>2, <1>3, PoolInvInit, PTL DEF PoolSpec, RunsWhatWasDispatched

-----------------------------------------------------------------------------
(* Enough places for all jobs.                                             *)

\* No job is queued twice, so the backlog is at most the number of jobs.
LEMMA BacklogOfJobs ==
  ASSUME IsFiniteSet(Job \ SelfArg), TypeOK, JobsInv
  PROVE  Len(orders) <= Cardinality(Job \ SelfArg)
<1>1. Len(orders) \in Nat /\ \A i \in 1 .. Len(orders) : orders[i] \in Job
  BY LenProperties, ElementOfSeq DEF TypeOK, DataOK
<1>2. \A i \in 1 .. Len(orders) : orders[i] \in Job \ SelfArg
  BY <1>1 DEF JobsInv, CallsOK
<1>3. \A i, k \in 1 .. Len(orders) : orders[i] = orders[k] => i = k
  <2> SUFFICES ASSUME NEW i \in 1 .. Len(orders), NEW k \in 1 .. Len(orders),
                      orders[i] = orders[k]
               PROVE  i = k
    OBVIOUS
  <2>1. One(At(orders, orders[i]))
    BY <1>2 DEF JobsInv, InOnePlace
  <2>2. i \in At(orders, orders[i]) /\ k \in At(orders, orders[i])
    BY DEF At
  <2>. QED
    BY <2>1, <2>2 DEF One
<1>4. PICK n \in Nat : n = Len(orders)
  BY <1>1
<1>5. PICK f : f = [i \in 1 .. n |-> orders[i]]
  OBVIOUS
<1>6. f \in [1 .. n -> Job \ SelfArg] /\ IsInjective(f)
  BY <1>2, <1>3, <1>4, <1>5 DEF IsInjective
<1>7. f \in Injection(1 .. n, Job \ SelfArg)
  BY <1>6 DEF Injection, IsInjective
<1>8. ASSUME NEW m \in Nat PROVE Cardinality(1 .. m) = m
  <2>1. 1 \in Int /\ m \in Int
    OBVIOUS
  <2>2. Cardinality(1 .. m) = IF 1 > m THEN 0 ELSE m - 1 + 1
    BY <2>1, FS_Interval
  <2>. QED
    BY <2>2
<1>9. n <= Cardinality(Job \ SelfArg)
  BY <1>7, <1>8, FS_Injection
<1>. QED
  BY <1>4, <1>9

\* If the initial capacity, which is the number of threads, is enough for all
\* the jobs that the clients will ever dispatch, the list of list.c serves the
\* pool as its contract demands, in every interleaving of the threads.
THEOREM FewJobsAreSafe ==
  ASSUME IsFiniteSet(Job \ SelfArg), Cardinality(Job \ SelfArg) <= InitCap
  PROVE  PoolSpec => []ListAnswers /\ RunsWhatWasDispatched
<1>1. TypeOK /\ JobsInv => WithinInitCap
  <2> SUFFICES ASSUME TypeOK, JobsInv PROVE WithinInitCap
    OBVIOUS
  <2>1. /\ Len(orders) <= Cardinality(Job \ SelfArg) /\ Len(orders) \in Nat
        /\ Cardinality(Job \ SelfArg) \in Nat /\ InitCap \in Nat
    BY BacklogOfJobs, FS_CardinalityType, ListConstants, LenProperties
       DEF TypeOK, DataOK
  <2>. QED
    BY <2>1 DEF WithinInitCap
<1>2. TypeOK /\ JobsInv /\ [Next]_vars => JobsInv'
  BY JobsStep
<1>3. Spec => []WithinInitCap
  BY <1>1, <1>2, Types, JobsInit, PTL DEF Spec
<1>. QED
  BY <1>3, PoolOverListIsPool, ListAgrees, RunsInOrder, PTL
=============================================================================
