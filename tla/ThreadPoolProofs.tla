--------------------------- MODULE ThreadPoolProofs ---------------------------
(***************************************************************************)
(* The safety of ThreadPool for any number of workers, callers and jobs and   *)
(* any size of the queue, whether or not the calls of EnqueueRun are serial.  *)
(***************************************************************************)
EXTENDS ThreadPool, FiniteSetTheorems, TLAPS

WorkerStates == {"none", "check", "dequeue", "count", "routine", "uncount", "notify",
                 "wait", "blocked", "exiting", "exited"}

(* The workers that count in mThreadsRunning.                                 *)
Counted == {w \in Workers : wpc[w] \in {"routine", "uncount"}}

CountInv == mThreadsRunning = Cardinality(Counted)

(* A job is at one place at a time: in a call of EnqueueRun that has not put it
   yet, or in the queue, or with a worker; the last two are the pending ones.  *)
JobInv ==
  /\ \A i, j \in DOMAIN mRunQueue : mRunQueue[i] = mRunQueue[j] => i = j
  /\ \A w, v \in Workers : runArg[w] # NoTask /\ runArg[w] = runArg[v] => w = v
  /\ \A w \in Workers, i \in DOMAIN mRunQueue : runArg[w] # mRunQueue[i]
  /\ \A t \in Tasks : t \in pending <=> \/ \E i \in DOMAIN mRunQueue : mRunQueue[i] = t
                                        \/ \E w \in Workers : runArg[w] = t
  /\ \A w \in Workers : runArg[w] # NoTask <=> wpc[w] \in {"count", "routine"}
  /\ \A c \in Callers : eArg[c] # NoTask <=> epc[c] = "put"
  /\ \A c \in Callers : eArg[c] \notin pending
  /\ \A c, d \in Callers : eArg[c] # NoTask /\ eArg[c] = eArg[d] => c = d

(* What the controlling thread knows of the run state, which only it writes, and
   of the threads it has joined.                                              *)
CtlInv ==
  /\ ctl \in {"idle", "stopRelease", "joinRunning", "joinWait", "joinBlocked"} => next = 1
  /\ ctl \in {"startThread", "startRelease"} => mRunState = "Running"
  /\ ctl \in {"stopRelease", "joinThread"} => mRunState = "Stopped"
  /\ ctl \in {"joinRunning", "joinWait", "joinBlocked"} => mRunState = "Paused"
  /\ ctl = "joinThread" => \A w \in 1 .. next - 1 : wpc[w] \in {"none", "exited"}

(* Nobody sleeps while the semaphore has a token.                             *)
SleepInv == (\E w \in Workers : wpc[w] = "blocked") => mSemaphore = 0

(* Until the pool is stopped no thread ends, once Start has started it.        *)
AliveInv ==
  mRunState # "Stopped" /\ ~restarted =>
    \A w \in Workers :
      (ctl = "startThread" => w < next) => wpc[w] \notin {"none", "exiting", "exited"}

(* While there is a job and the pool runs, some worker has still to look at the
   queue, or will find a token that makes it look, or somebody is about to wake
   one.                                                                       *)
WakeInv ==
  mRunState = "Running" /\ mRunQueue # <<>> /\ ~restarted =>
    \/ \E w \in Workers :
         wpc[w] \in {"check", "dequeue", "count", "routine", "uncount", "notify"}
    \/ mSemaphore > 0 /\ \E w \in Workers : wpc[w] = "wait"
    \/ \E c \in Callers : epc[c] \in {"signal", "release"}
    \/ ctl \in {"startThread", "startRelease"}

IInv == TypeOK /\ CountInv /\ JobInv /\ CtlInv /\ SleepInv /\ AliveInv /\ WakeInv

LEMMA WorkersFinite ==
  /\ IsFiniteSet(Workers) /\ Cardinality(Workers) = NumThreads
  /\ \A S \in SUBSET Workers : IsFiniteSet(S) /\ Cardinality(S) \in 0 .. NumThreads
<1>1. IsFiniteSet(Workers) /\ Cardinality(Workers) = NumThreads
  BY FS_Interval, PoolAssumption DEF Workers
<1>2. ASSUME NEW S \in SUBSET Workers PROVE IsFiniteSet(S) /\ Cardinality(S) \in 0 .. NumThreads
  BY <1>1, FS_Subset, FS_CardinalityType, PoolAssumption
<1> QED
  BY <1>1, <1>2

(* A release of mSemaphore wakes sleepers and leaves no sleeper beside a token;
   afterwards there is a token or a worker that is awake.                     *)
LEMMA ReleaseWakes ==
  ASSUME TypeOK, SleepInv, NEW n \in Workers, ReleaseWorkers(n)
  PROVE  /\ mSemaphore' \in 0 .. NumThreads
         /\ wpc' \in [Workers -> WorkerStates]
         /\ \A w \in Workers : wpc'[w] = wpc[w] \/ (wpc[w] = "blocked" /\ wpc'[w] = "check")
         /\ SleepInv'
         /\ mSemaphore' > 0 \/ \E w \in Workers : wpc'[w] = "check"
<1> USE PoolAssumption DEF TypeOK, Workers, WorkerStates
<1>1. Asleep \in SUBSET Workers /\ IsFiniteSet(Asleep) /\ Cardinality(Asleep) \in 0 .. NumThreads
  <2>1. Asleep \in SUBSET Workers
    BY DEF Asleep
  <2> QED
    BY <2>1, WorkersFinite
<1> DEFINE k == IF n < Cardinality(Asleep) THEN n ELSE Cardinality(Asleep)
<1>2. CASE mSemaphore + n > NumThreads
  <2>1. mSemaphore' = mSemaphore /\ wpc' = [w \in Workers |-> wpc[w]]
    BY <1>2 DEF ReleaseWorkers, Release
  <2> QED
    BY <1>2, <2>1 DEF SleepInv
<1>3. CASE mSemaphore + n <= NumThreads
  <2>1. PICK S \in SUBSET Asleep :
          /\ Cardinality(S) = k
          /\ mSemaphore' = mSemaphore + n - k
          /\ wpc' = [w \in Workers |-> IF w \in S THEN "check" ELSE wpc[w]]
    <3>1. PICK r \in Release(mSemaphore, NumThreads, Asleep, n) :
            /\ mSemaphore' = r.count
            /\ wpc' = [w \in Workers |-> IF w \in r.woken THEN "check" ELSE wpc[w]]
      BY DEF ReleaseWorkers
    <3>2. \E S \in {T \in SUBSET Asleep : Cardinality(T) = k} :
            r = [count |-> mSemaphore + n - k, woken |-> S]
      BY <1>1, <1>3, <3>1 DEF Release
    <3> QED
      BY <3>1, <3>2
  <2>2. k \in 0 .. n
    BY <1>1
  <2> HIDE DEF k
  <2>3. mSemaphore' \in 0 .. NumThreads
    BY <1>3, <2>1, <2>2
  <2>4. /\ wpc' \in [Workers -> WorkerStates]
        /\ \A w \in Workers : wpc'[w] = wpc[w] \/ (wpc[w] = "blocked" /\ wpc'[w] = "check")
    BY <2>1 DEF Asleep
  <2>5. SleepInv'
    <3> SUFFICES ASSUME NEW w \in Workers, wpc'[w] = "blocked" PROVE mSemaphore' = 0
      BY DEF SleepInv
    <3>1. w \in Asleep /\ w \notin S
      BY <2>1 DEF Asleep
    <3>2. mSemaphore = 0
      BY <3>1 DEF SleepInv, Asleep
    <3>3. Cardinality(S) # Cardinality(Asleep)
      BY <1>1, <3>1, FS_Subset
    <3>4. k = n
      BY <1>1, <2>1, <3>3 DEF k
    <3> QED
      BY <2>1, <3>2, <3>4
  <2>6. mSemaphore' > 0 \/ \E w \in Workers : wpc'[w] = "check"
    <3>1. CASE S = {}
      BY <2>1, <2>2, <3>1, FS_EmptySet
    <3>2. CASE S # {}
      BY <1>1, <2>1, <3>2
    <3> QED
      BY <3>1, <3>2
  <2> QED
    BY <2>3, <2>4, <2>5, <2>6
<1> QED
  BY <1>2, <1>3

(* The other semaphore has one token at most, and one sleeper.                 *)
LEMMA ParentRelease ==
  ASSUME mParentSemaphore \in 0 .. 1, NEW w \in Workers, WorkerNotify(w)
  PROVE  /\ mParentSemaphore' \in 0 .. 1
         /\ ctl' = ctl \/ (ctl = "joinBlocked" /\ ctl' = "joinRunning")
<1> DEFINE S == IF ctl = "joinBlocked" THEN {"ctl"} ELSE {}
<1>1. PICK r \in Release(mParentSemaphore, 1, S, 1) :
        mParentSemaphore' = r.count /\ ctl' = IF r.woken = {} THEN ctl ELSE "joinRunning"
  BY DEF WorkerNotify
<1>2. Cardinality(S) = (IF ctl = "joinBlocked" THEN 1 ELSE 0) /\ IsFiniteSet(S)
  BY FS_EmptySet, FS_Singleton
<1> DEFINE k == IF 1 < Cardinality(S) THEN 1 ELSE Cardinality(S)
<1>3. k \in 0 .. 1
  BY <1>2
<1>4. \/ r = [count |-> mParentSemaphore, woken |-> {}] /\ mParentSemaphore = 1
      \/ /\ mParentSemaphore = 0
         /\ \E T \in {T \in SUBSET S : Cardinality(T) = k} :
              r = [count |-> mParentSemaphore + 1 - k, woken |-> T]
  BY <1>1 DEF Release
<1> HIDE DEF k
<1>5. r.count \in 0 .. 1 /\ r.woken \in SUBSET S
  <2>1. CASE r = [count |-> mParentSemaphore, woken |-> {}] /\ mParentSemaphore = 1
    BY <2>1
  <2>2. CASE mParentSemaphore = 0 /\ \E T \in SUBSET S : r = [count |-> 0 + 1 - k, woken |-> T]
    <3>1. r.count = 1 - k /\ r.woken \in SUBSET S
      BY <1>3, <2>2
    <3> QED
      BY <1>3, <3>1
  <2> QED
    BY <1>4, <2>1, <2>2
<1> QED
  BY <1>1, <1>5

(* The initial states.                                                        *)
LEMMA InitIInv == Init => IInv
<1> SUFFICES ASSUME Init PROVE IInv
  OBVIOUS
<1> USE PoolAssumption DEF Init
<1>1. TypeOK
  <2>1. timed \in BOOLEAN /\ restarted \in BOOLEAN
    BY Zenon
  <2>2. mRunQueue \in Seq(Tasks) /\ Len(mRunQueue) = 0
    OBVIOUS
  <2> QED
    BY <2>1, <2>2 DEF TypeOK, Workers
<1>2. CountInv
  <2>1. Counted = {}
    BY DEF Counted
  <2> QED
    BY <2>1, FS_EmptySet DEF CountInv
<1>3. JobInv
  BY DEF JobInv
<1>4. CtlInv /\ SleepInv /\ AliveInv /\ WakeInv
  BY DEF CtlInv, SleepInv, AliveInv, WakeInv
<1> QED
  BY <1>1, <1>2, <1>3, <1>4 DEF IInv

(* mThreadsRunning counts.                                                    *)
LEMMA CountStep ==
  ASSUME TypeOK, SleepInv, CountInv, [Next]_vars
  PROVE  CountInv'
<1>0. Workers # {} /\ 1 \in Workers /\ NumThreads \in Workers
  BY PoolAssumption DEF Workers
<1>1. IsFiniteSet(Counted)
  BY WorkersFinite DEF Counted
<1>2. ASSUME NEW w \in Workers, WorkerCount(w) PROVE CountInv'
  <2>1. Counted' = Counted \cup {w} /\ w \notin Counted
    BY <1>2 DEF WorkerCount, WorkerGoTo, Counted, TypeOK
  <2> QED
    BY <1>1, <1>2, <2>1, FS_AddElement DEF WorkerCount, CountInv
<1>3. ASSUME NEW w \in Workers, WorkerUncount(w) PROVE CountInv'
  <2>1. Counted' = Counted \ {w} /\ w \in Counted
    BY <1>3 DEF WorkerUncount, WorkerGoTo, Counted, TypeOK
  <2> QED
    BY <1>1, <1>3, <2>1, FS_RemoveElement DEF WorkerUncount, CountInv
<1>4. ASSUME mThreadsRunning' = mThreadsRunning, wpc' \in [Workers -> WorkerStates],
             \A w \in Workers : (wpc'[w] \in {"routine", "uncount"}) = (wpc[w] \in {"routine", "uncount"})
      PROVE  CountInv'
  <2>1. Counted' = Counted
    BY <1>4 DEF Counted
  <2> QED
    BY <1>4, <2>1 DEF CountInv
<1>5. ASSUME NEW n \in Workers, ReleaseWorkers(n), mThreadsRunning' = mThreadsRunning
      PROVE  CountInv'
  BY <1>4, <1>5, ReleaseWakes
<1>6. ASSUME NEW w \in Workers, WorkerPoolStep(w) \/ WorkerRoutine(w) PROVE CountInv'
  BY <1>2, <1>3, <1>4, <1>6 DEF WorkerPoolStep, WorkerCheck, WorkerDequeue, WorkerRoutine,
     WorkerNotify, WorkerWait, WorkerExit, WorkerGoTo, TypeOK, WorkerStates
<1>7. ASSUME NEW c \in Callers, EnqueueCall(c) \/ CallerStep(c) PROVE CountInv'
  BY <1>0, <1>4, <1>5, <1>7 DEF EnqueueCall, EnqueueBegin, CallerStep, EnqueuePut, EnqueueSignal,
     EnqueueRelease, workerVars, TypeOK, WorkerStates
<1>8. CASE CtlCall \/ JoinTimeout
  BY <1>4, <1>8 DEF CtlCall, StartBegin, PauseCall, StopBegin, JoinBegin, JoinTimeout,
     workerVars, TypeOK, WorkerStates
<1>9. CASE StartRelease \/ StopRelease
  BY <1>0, <1>5, <1>9 DEF StartRelease, StopRelease
<1>10. CASE StartThread \/ JoinThread \/ JoinRunning \/ JoinWait
  BY <1>4, <1>10 DEF StartThread, JoinThread, JoinRunning, JoinWait,
     workerVars, TypeOK, WorkerStates
<1>11. CASE UNCHANGED vars
  BY <1>4, <1>11 DEF vars, workerVars, TypeOK, WorkerStates
<1> QED
  BY <1>6, <1>7, <1>8, <1>9, <1>10, <1>11 DEF Next, CtlStep

(* The two flags stay flags.                                                  *)
LEMMA BoolStep ==
  ASSUME TypeOK, [Next]_vars
  PROVE  timed' \in BOOLEAN /\ restarted' \in BOOLEAN
<1> USE DEF TypeOK, ctlVars
<1>1. ASSUME NEW w \in Workers, WorkerPoolStep(w) \/ WorkerRoutine(w)
      PROVE  timed' = timed /\ restarted' = restarted
  BY <1>1, Zenon DEF WorkerPoolStep, WorkerCheck, WorkerDequeue, WorkerCount, WorkerRoutine,
     WorkerUncount, WorkerNotify, WorkerWait, WorkerExit
<1>2. ASSUME NEW c \in Callers, EnqueueCall(c) \/ CallerStep(c)
      PROVE  timed' = timed /\ restarted' = restarted
  BY <1>2, Zenon DEF EnqueueCall, EnqueueBegin, CallerStep, EnqueuePut, EnqueueSignal, EnqueueRelease
<1>3. CASE StartThread
  BY <1>3, Zenon DEF StartThread, NextThread, CtlReturn
<1>4. CASE StartRelease \/ StopRelease
  BY <1>4, Zenon DEF StartRelease, StopRelease, NextThread, CtlReturn, CtlGoTo
<1>5. CASE JoinThread \/ JoinRunning \/ JoinWait \/ JoinTimeout
  BY <1>5, Zenon DEF JoinThread, JoinRunning, JoinWait, JoinTimeout, CtlReturn, CtlGoTo
<1>6. CASE StartBegin \/ PauseCall
  BY <1>6, Zenon DEF StartBegin, PauseCall, CtlReturn
<1>7. ASSUME NEW t \in BOOLEAN, StopBegin(t) \/ JoinBegin(t)
      PROVE  timed' \in BOOLEAN /\ restarted' \in BOOLEAN
  BY <1>7, Zenon DEF StopBegin, JoinBegin, CtlReturn
<1>8. CASE UNCHANGED vars
  BY <1>8, Zenon DEF vars
<1> QED
  BY <1>1, <1>2, <1>3, <1>4, <1>5, <1>6, <1>7, <1>8, Zenon DEF Next, CtlStep, CtlCall

(* Every variable keeps its type.                                            *)
LEMMA TypeStep ==
  ASSUME TypeOK, SleepInv, CountInv, JobInv, [Next]_vars
  PROVE  TypeOK'
<1>0. 1 \in Workers /\ NumThreads \in Workers
  BY PoolAssumption DEF Workers
<1>1. mThreadsRunning' \in 0 .. NumThreads
  BY CountStep, WorkersFinite DEF CountInv, Counted
<1>2. timed' \in BOOLEAN /\ restarted' \in BOOLEAN
  BY BoolStep
<1> USE PoolAssumption, <1>1, <1>2 DEF TypeOK, workerVars, callerVars, ctlVars
<1>6. ASSUME NEW w \in Workers, WorkerPoolStep(w) \/ WorkerRoutine(w) PROVE TypeOK'
  <2> USE DEF WorkerGoTo
  <2>1. CASE WorkerCheck(w)
    BY <2>1 DEF WorkerCheck
  <2>2. CASE WorkerDequeue(w)
    <3>1. CASE mRunQueue = <<>>
      BY <2>2, <3>1 DEF WorkerDequeue
    <3>2. CASE mRunQueue # <<>>
      <4>1. /\ Head(mRunQueue) \in Tasks
            /\ Tail(mRunQueue) \in Seq(Tasks) /\ Len(Tail(mRunQueue)) = Len(mRunQueue) - 1
        BY <3>2
      <4>2. mRunQueue' = Tail(mRunQueue) /\ runArg' = [runArg EXCEPT ![w] = Head(mRunQueue)]
        BY <2>2, <3>2 DEF WorkerDequeue
      <4>3. runArg' \in [Workers -> Tasks \cup {NoTask}]
        BY <4>1, <4>2
      <4>4. mRunQueue' \in Seq(Tasks) /\ Len(mRunQueue') <= QueueSize
        BY <4>1, <4>2
      <4> QED
        BY <2>2, <3>2, <4>3, <4>4 DEF WorkerDequeue
    <3> QED
      BY <3>1, <3>2
  <2>3. CASE WorkerCount(w)
    BY <2>3 DEF WorkerCount
  <2>4. CASE WorkerRoutine(w)
    BY <2>4 DEF WorkerRoutine
  <2>5. CASE WorkerUncount(w)
    BY <2>5 DEF WorkerUncount
  <2>6. CASE WorkerNotify(w)
    BY <2>6, ParentRelease DEF WorkerNotify
  <2>7. CASE WorkerWait(w)
    BY <2>7 DEF WorkerWait
  <2>8. CASE WorkerExit(w)
    BY <2>8 DEF WorkerExit
  <2> QED
    BY <1>6, <2>1, <2>2, <2>3, <2>4, <2>5, <2>6, <2>7, <2>8 DEF WorkerPoolStep
<1>7. ASSUME NEW c \in Callers, EnqueueCall(c) \/ CallerStep(c) PROVE TypeOK'
  <2> USE DEF CallerGoTo
  <2>1. CASE EnqueueCall(c)
    BY <2>1 DEF EnqueueCall, EnqueueBegin
  <2>2. CASE EnqueuePut(c)
    <3>1. eArg[c] \in Tasks
      BY <2>2 DEF EnqueuePut, JobInv
    <3>2. /\ Append(mRunQueue, eArg[c]) \in Seq(Tasks)
          /\ Len(Append(mRunQueue, eArg[c])) = Len(mRunQueue) + 1
      BY <3>1
    <3>3. mRunQueue' \in Seq(Tasks) /\ Len(mRunQueue') <= QueueSize
      <4>1. CASE Len(mRunQueue) < QueueSize
        <5>1. mRunQueue' = Append(mRunQueue, eArg[c])
          BY <2>2, <4>1 DEF EnqueuePut
        <5>2. Len(mRunQueue) \in Nat /\ Len(mRunQueue) + 1 <= QueueSize
          BY <4>1
        <5> QED
          BY <3>2, <5>1, <5>2
      <4>2. CASE ~(Len(mRunQueue) < QueueSize)
        BY <2>2, <4>2 DEF EnqueuePut
      <4> QED
        BY <4>1, <4>2
    <3>4. pending' \subseteq Tasks
      BY <2>2, <3>1 DEF EnqueuePut
    <3>5. /\ eArg' \in [Callers -> Tasks \cup {NoTask}]
          /\ epc' \in [Callers -> {"idle", "put", "signal", "release"}]
      BY <2>2 DEF EnqueuePut
    <3> QED
      BY <2>2, <3>3, <3>4, <3>5 DEF EnqueuePut
  <2>3. CASE EnqueueSignal(c)
    BY <2>3 DEF EnqueueSignal
  <2>4. CASE EnqueueRelease(c)
    BY <1>0, <2>4, ReleaseWakes DEF EnqueueRelease, WorkerStates
  <2> QED
    BY <1>7, <2>1, <2>2, <2>3, <2>4 DEF CallerStep
<1>8. CASE CtlCall
  <2>1. CASE StartBegin
    BY <2>1 DEF StartBegin, CtlReturn, Workers
  <2>2. CASE PauseCall
    BY <2>2 DEF PauseCall, CtlReturn, Workers
  <2>3. ASSUME NEW t \in BOOLEAN, StopBegin(t) PROVE TypeOK'
    BY <2>3 DEF StopBegin
  <2>4. ASSUME NEW t \in BOOLEAN, JoinBegin(t) PROVE TypeOK'
    BY <2>4 DEF JoinBegin, CtlReturn, Workers
  <2> QED
    BY <1>8, <2>1, <2>2, <2>3, <2>4 DEF CtlCall
<1>13. CASE JoinTimeout
  <2>1. CASE ctl \in {"joinThread", "joinWait"} /\ CtlReturn("failed")
    BY <1>13, <2>1 DEF JoinTimeout, CtlReturn, Workers
  <2>2. CASE ctl = "joinBlocked" /\ CtlGoTo("joinRunning")
    BY <1>13, <2>2 DEF JoinTimeout, CtlGoTo
  <2> QED
    BY <1>13, <2>1, <2>2 DEF JoinTimeout
<1>9. CASE StartRelease \/ StopRelease
  <2>1. PICK n \in Workers : ReleaseWorkers(n)
    BY <1>0, <1>9 DEF StartRelease, StopRelease
  <2>2. mSemaphore' \in 0 .. NumThreads /\ wpc' \in [Workers -> WorkerStates]
    BY <2>1, ReleaseWakes
  <2> QED
    BY <1>9, <2>2 DEF StartRelease, StopRelease, NextThread, CtlReturn, CtlGoTo, Workers, WorkerStates
<1>10. CASE StartThread
  BY <1>10 DEF StartThread, NextThread, CtlReturn, Workers
<1>11. CASE JoinThread \/ JoinRunning \/ JoinWait
  BY <1>11 DEF JoinThread, JoinRunning, JoinWait, CtlReturn, CtlGoTo, Workers
<1>12. CASE UNCHANGED vars
  BY <1>12 DEF vars
<1> QED
  BY <1>6, <1>7, <1>8, <1>9, <1>10, <1>11, <1>12, <1>13 DEF Next, CtlStep

(* Jobs go from the callers to the queue to the workers, one at a time.        *)
LEMMA JobStep ==
  ASSUME TypeOK, SleepInv, JobInv, [Next]_vars
  PROVE  JobInv'
<1>0. 1 \in Workers /\ NumThreads \in Workers
  BY PoolAssumption DEF Workers
<1> USE PoolAssumption
<1>1. ASSUME UNCHANGED <<mRunQueue, runArg, eArg, pending>>,
             \A w \in Workers : (wpc'[w] \in {"count", "routine"}) = (wpc[w] \in {"count", "routine"}),
             \A c \in Callers : (epc'[c] = "put") = (epc[c] = "put")
      PROVE  JobInv'
  BY <1>1 DEF JobInv
<1>2. ASSUME NEW n \in Workers, ReleaseWorkers(n), UNCHANGED <<mRunQueue, runArg, eArg, pending>>,
             \A c \in Callers : (epc'[c] = "put") = (epc[c] = "put")
      PROVE  JobInv'
  BY <1>1, <1>2, ReleaseWakes
<1>3. ASSUME NEW w \in Workers, WorkerDequeue(w) PROVE JobInv'
  <2>1. CASE mRunQueue = <<>>
    BY <1>1, <1>3, <2>1 DEF WorkerDequeue, WorkerGoTo, callerVars, TypeOK
  <2>2. CASE mRunQueue # <<>>
    <3> DEFINE q == mRunQueue
    <3>1. /\ q \in Seq(Tasks) /\ Len(q) \in Nat \ {0} /\ DOMAIN q = 1 .. Len(q)
          /\ Tail(q) \in Seq(Tasks) /\ DOMAIN Tail(q) = 1 .. Len(q) - 1
          /\ \A i \in 1 .. Len(q) - 1 : Tail(q)[i] = q[i + 1]
          /\ Head(q) = q[1] /\ q[1] \in Tasks
      BY <2>2 DEF TypeOK
    <3>2. /\ mRunQueue' = Tail(q) /\ pending' = pending /\ eArg' = eArg /\ epc' = epc
          /\ runArg' = [runArg EXCEPT ![w] = q[1]] /\ wpc' = [wpc EXCEPT ![w] = "count"]
          /\ wpc[w] = "dequeue"
      BY <1>3, <2>2, <3>1 DEF WorkerDequeue, WorkerGoTo, callerVars
    <3>3. /\ runArg'[w] = q[1] /\ \A v \in Workers \ {w} : runArg'[v] = runArg[v]
          /\ runArg[w] = NoTask
      BY <3>2 DEF TypeOK, JobInv
    <3>4. \A i, j \in DOMAIN mRunQueue' : mRunQueue'[i] = mRunQueue'[j] => i = j
      BY <3>1, <3>2 DEF JobInv
    <3>5. \A u, v \in Workers : runArg'[u] # NoTask /\ runArg'[u] = runArg'[v] => u = v
      BY <3>1, <3>3 DEF JobInv
    <3>6. \A u \in Workers, i \in DOMAIN mRunQueue' : runArg'[u] # mRunQueue'[i]
      BY <3>1, <3>2, <3>3 DEF JobInv
    <3>7. ASSUME NEW t \in Tasks
          PROVE  t \in pending' <=> \/ \E i \in DOMAIN mRunQueue' : mRunQueue'[i] = t
                                    \/ \E u \in Workers : runArg'[u] = t
      <4>1. (\E i \in DOMAIN q : q[i] = t) <=> t = q[1] \/ \E i \in DOMAIN Tail(q) : Tail(q)[i] = t
        <5>1. ASSUME NEW i \in DOMAIN q, q[i] = t, t # q[1]
              PROVE  \E j \in DOMAIN Tail(q) : Tail(q)[j] = t
          <6>1. i - 1 \in 1 .. Len(q) - 1 /\ (i - 1) + 1 = i
            BY <3>1, <5>1
          <6> QED
            BY <3>1, <5>1, <6>1
        <5>2. ASSUME NEW i \in DOMAIN Tail(q), Tail(q)[i] = t PROVE \E j \in DOMAIN q : q[j] = t
          <6>1. i + 1 \in DOMAIN q
            BY <3>1
          <6> QED
            BY <3>1, <5>2, <6>1
        <5> QED
          BY <3>1, <5>1, <5>2
      <4>2. (\E u \in Workers : runArg'[u] = t) <=> t = q[1] \/ \E u \in Workers : runArg[u] = t
        BY <3>3
      <4>3. t \in pending <=> (\E i \in DOMAIN q : q[i] = t) \/ \E u \in Workers : runArg[u] = t
        BY DEF JobInv
      <4> HIDE DEF q
      <4> QED
        BY <3>2, <4>1, <4>2, <4>3, Zenon
    <3>8. \A u \in Workers : runArg'[u] # NoTask <=> wpc'[u] \in {"count", "routine"}
      BY <3>1, <3>2, <3>3 DEF JobInv, TypeOK
    <3> QED
      BY <3>2, <3>4, <3>5, <3>6, <3>7, <3>8 DEF JobInv
  <2> QED
    BY <2>1, <2>2
<1>4. ASSUME NEW w \in Workers, WorkerRoutine(w) PROVE JobInv'
  <2>1. /\ runArg[w] # NoTask /\ runArg[w] \in Tasks
        /\ runArg'[w] = NoTask /\ \A v \in Workers \ {w} : runArg'[v] = runArg[v]
        /\ wpc'[w] = "uncount" /\ \A v \in Workers \ {w} : wpc'[v] = wpc[v]
        /\ pending' = pending \ {runArg[w]}
        /\ mRunQueue' = mRunQueue /\ eArg' = eArg /\ epc' = epc
    BY <1>4 DEF WorkerRoutine, WorkerGoTo, callerVars, TypeOK, JobInv
  <2>2. mRunQueue \in Seq(Tasks)
    BY DEF TypeOK
  <2>3. \A t \in Tasks : t \in pending' <=> \/ \E i \in DOMAIN mRunQueue' : mRunQueue'[i] = t
                                            \/ \E u \in Workers : runArg'[u] = t
    BY <2>1, <2>2 DEF JobInv
  <2> QED
    BY <2>1, <2>2, <2>3 DEF JobInv
<1>5. ASSUME NEW w \in Workers, WorkerPoolStep(w) PROVE JobInv'
  BY <1>1, <1>3, <1>5 DEF WorkerPoolStep, WorkerCheck, WorkerCount, WorkerUncount,
     WorkerNotify, WorkerWait, WorkerExit, WorkerGoTo, callerVars, TypeOK
<1>6. ASSUME NEW c \in Callers, EnqueueCall(c) PROVE JobInv'
  <2>1. PICK task \in Tasks : /\ task \notin pending /\ \A d \in Callers : task # eArg[d]
                              /\ EnqueueBegin(c, task)
    BY <1>6 DEF EnqueueCall
  <2>2. /\ eArg' = [eArg EXCEPT ![c] = task] /\ epc' = [epc EXCEPT ![c] = "put"]
        /\ UNCHANGED <<mRunQueue, runArg, wpc, pending>>
    BY <2>1 DEF EnqueueBegin, CallerGoTo, workerVars
  <2> QED
    BY <2>1, <2>2 DEF JobInv, TypeOK
<1>7. ASSUME NEW c \in Callers, EnqueuePut(c) PROVE JobInv'
  <2>0. /\ eArg[c] \in Tasks /\ eArg[c] # NoTask
        /\ eArg'[c] = NoTask /\ \A d \in Callers \ {c} : eArg'[d] = eArg[d]
        /\ epc'[c] # "put" /\ \A d \in Callers \ {c} : epc'[d] = epc[d]
        /\ runArg' = runArg /\ wpc' = wpc
    BY <1>7 DEF EnqueuePut, CallerGoTo, workerVars, TypeOK, JobInv
  <2>1. CASE Len(mRunQueue) < QueueSize
    <3> DEFINE q == mRunQueue
    <3>1. /\ q \in Seq(Tasks) /\ Len(q) \in Nat /\ DOMAIN q = 1 .. Len(q)
          /\ mRunQueue' = Append(q, eArg[c]) /\ DOMAIN mRunQueue' = 1 .. Len(q) + 1
          /\ mRunQueue'[Len(q) + 1] = eArg[c]
          /\ \A i \in 1 .. Len(q) : mRunQueue'[i] = q[i]
          /\ pending' = pending \cup {eArg[c]}
      BY <1>7, <2>0, <2>1 DEF EnqueuePut, TypeOK
    <3>2. \A i \in DOMAIN q : q[i] # eArg[c] /\ q[i] \in Tasks
      BY <2>0, <3>1 DEF JobInv
    <3>3. \A w \in Workers : runArg[w] # eArg[c]
      BY <2>0 DEF JobInv
    <3>4. \A i, j \in DOMAIN mRunQueue' : mRunQueue'[i] = mRunQueue'[j] => i = j
      BY <3>1, <3>2 DEF JobInv
    <3>5. \A w \in Workers, i \in DOMAIN mRunQueue' : runArg'[w] # mRunQueue'[i]
      BY <2>0, <3>1, <3>3 DEF JobInv
    <3>6. ASSUME NEW t \in Tasks
          PROVE  t \in pending' <=> \/ \E i \in DOMAIN mRunQueue' : mRunQueue'[i] = t
                                    \/ \E w \in Workers : runArg'[w] = t
      <4>1. (\E i \in DOMAIN mRunQueue' : mRunQueue'[i] = t)
              <=> t = eArg[c] \/ \E i \in DOMAIN q : q[i] = t
        BY <3>1
      <4> QED
        BY <2>0, <3>1, <4>1 DEF JobInv
    <3>7. \A d \in Callers : eArg'[d] \notin pending'
      BY <2>0, <3>1, PoolAssumption DEF JobInv, TypeOK
    <3> QED
      BY <2>0, <3>4, <3>5, <3>6, <3>7 DEF JobInv
  <2>2. CASE ~(Len(mRunQueue) < QueueSize)
    <3>1. mRunQueue' = mRunQueue /\ pending' = pending
      BY <1>7, <2>2 DEF EnqueuePut
    <3> QED
      BY <2>0, <3>1 DEF JobInv, TypeOK
  <2> QED
    BY <2>1, <2>2
<1>8. ASSUME NEW c \in Callers, EnqueueSignal(c) PROVE JobInv'
  BY <1>1, <1>8 DEF EnqueueSignal, CallerGoTo, workerVars, TypeOK
<1>9. ASSUME NEW c \in Callers, EnqueueRelease(c) PROVE JobInv'
  BY <1>0, <1>2, <1>9 DEF EnqueueRelease, CallerGoTo, TypeOK
<1>10. CASE StartRelease \/ StopRelease
  BY <1>0, <1>2, <1>10 DEF StartRelease, StopRelease, callerVars
<1>11. CASE CtlCall \/ JoinTimeout \/ JoinThread \/ JoinRunning \/ JoinWait
  BY <1>1, <1>11 DEF CtlCall, StartBegin, PauseCall, StopBegin, JoinBegin, JoinTimeout,
     JoinThread, JoinRunning, JoinWait, workerVars, callerVars
<1>12. CASE StartThread
  BY <1>1, <1>12 DEF StartThread, callerVars, TypeOK
<1>13. CASE UNCHANGED vars
  BY <1>1, <1>13 DEF vars, workerVars, callerVars
<1> QED
  BY <1>4, <1>5, <1>6, <1>7, <1>8, <1>9, <1>10, <1>11, <1>12, <1>13
  DEF Next, CtlStep, CallerStep

(* What one step may do to the workers: only Start brings a thread to life, and
   only a worker that has seen the pool stopped ends.                          *)
LEMMA WorkerMoves ==
  ASSUME TypeOK, SleepInv, [Next]_vars, NEW w \in Workers
  PROVE  /\ wpc[w] \in {"none", "exited"} /\ wpc'[w] # wpc[w] => ctl = "startThread" /\ w = next
         /\ wpc'[w] \in {"none", "exiting", "exited"} =>
              \/ wpc[w] \in {"none", "exiting", "exited"}
              \/ mRunState = "Stopped"
<1>0. 1 \in Workers /\ NumThreads \in Workers
  BY PoolAssumption DEF Workers
<1>1. ASSUME NEW n \in Workers, ReleaseWorkers(n)
      PROVE  wpc'[w] = wpc[w] \/ (wpc[w] = "blocked" /\ wpc'[w] = "check")
  BY <1>1, ReleaseWakes
<1> USE DEF TypeOK, workerVars
<1>2. ASSUME NEW v \in Workers, WorkerPoolStep(v) \/ WorkerRoutine(v)
      PROVE  wpc[w] \in {"none", "exited"} => wpc'[w] = wpc[w]
  BY <1>2 DEF WorkerPoolStep, WorkerRoutine, WorkerCheck, WorkerDequeue, WorkerCount,
     WorkerUncount, WorkerNotify, WorkerWait, WorkerExit, WorkerGoTo
<1>3. ASSUME NEW v \in Workers, WorkerPoolStep(v) \/ WorkerRoutine(v),
             wpc'[w] \in {"none", "exiting", "exited"}
      PROVE  wpc[w] \in {"none", "exiting", "exited"} \/ mRunState = "Stopped"
  BY <1>3 DEF WorkerPoolStep, WorkerRoutine, WorkerCheck, WorkerDequeue, WorkerCount,
     WorkerUncount, WorkerNotify, WorkerWait, WorkerExit, WorkerGoTo
<1>4. ASSUME NEW c \in Callers, EnqueueCall(c) \/ CallerStep(c)
      PROVE  wpc'[w] = wpc[w] \/ (wpc[w] = "blocked" /\ wpc'[w] = "check")
  BY <1>0, <1>1, <1>4 DEF EnqueueCall, EnqueueBegin, CallerStep, EnqueuePut, EnqueueSignal, EnqueueRelease
<1>5. CASE CtlCall \/ JoinTimeout
  BY <1>5 DEF CtlCall, StartBegin, PauseCall, StopBegin, JoinBegin, JoinTimeout
<1>6. CASE StartRelease \/ StopRelease
  BY <1>0, <1>1, <1>6 DEF StartRelease, StopRelease
<1>7. CASE StartThread
  BY <1>7 DEF StartThread
<1>8. CASE JoinThread \/ JoinRunning \/ JoinWait
  BY <1>8 DEF JoinThread, JoinRunning, JoinWait
<1>9. CASE UNCHANGED vars
  BY <1>9 DEF vars
<1> QED
  BY <1>2, <1>3, <1>4, <1>5, <1>6, <1>7, <1>8, <1>9 DEF Next, CtlStep

(* The steps of the workers and callers leave the controlling thread where it is,
   or wake it from its sleep.                                                 *)
LEMMA OthersLeaveCtl ==
  ASSUME TypeOK,
         \/ \E w \in Workers : WorkerPoolStep(w) \/ WorkerRoutine(w)
         \/ \E c \in Callers : EnqueueCall(c) \/ CallerStep(c)
  PROVE  /\ mRunState' = mRunState /\ next' = next /\ ret' = ret
         /\ ctl' = ctl \/ (ctl = "joinBlocked" /\ ctl' = "joinRunning")
<1>1. ASSUME NEW w \in Workers, WorkerNotify(w)
      PROVE  ctl' = ctl \/ (ctl = "joinBlocked" /\ ctl' = "joinRunning")
  BY <1>1, ParentRelease DEF TypeOK
<1>2. ASSUME NEW w \in Workers, WorkerPoolStep(w) \/ WorkerRoutine(w)
      PROVE  /\ mRunState' = mRunState /\ next' = next /\ ret' = ret
             /\ ctl' = ctl \/ (ctl = "joinBlocked" /\ ctl' = "joinRunning")
  BY <1>1, <1>2 DEF WorkerPoolStep, WorkerRoutine, WorkerCheck, WorkerDequeue, WorkerCount,
     WorkerUncount, WorkerNotify, WorkerWait, WorkerExit, ctlVars
<1>3. ASSUME NEW c \in Callers, EnqueueCall(c) \/ CallerStep(c)
      PROVE  mRunState' = mRunState /\ next' = next /\ ret' = ret /\ ctl' = ctl
  BY <1>3 DEF EnqueueCall, EnqueueBegin, CallerStep, EnqueuePut, EnqueueSignal, EnqueueRelease, ctlVars
<1> QED
  BY <1>2, <1>3

LEMMA CtlInvStep ==
  ASSUME TypeOK, SleepInv, CtlInv, [Next]_vars
  PROVE  CtlInv'
<1>0. \A w \in Workers : wpc[w] \in {"none", "exited"} /\ ctl # "startThread" => wpc'[w] = wpc[w]
  BY WorkerMoves
<1>1. 1 .. next - 1 \subseteq Workers
  BY PoolAssumption DEF TypeOK, Workers
<1>2. CASE \/ \E w \in Workers : WorkerPoolStep(w) \/ WorkerRoutine(w)
           \/ \E c \in Callers : EnqueueCall(c) \/ CallerStep(c)
  BY <1>0, <1>1, <1>2, OthersLeaveCtl DEF CtlInv
<1>3. CASE CtlCall
  BY <1>3 DEF CtlCall, StartBegin, PauseCall, StopBegin, JoinBegin, CtlReturn, CtlInv, TypeOK
<1>4. CASE JoinTimeout
  BY <1>4 DEF JoinTimeout, CtlReturn, CtlGoTo, CtlInv
<1>5. CASE StartThread \/ StartRelease
  BY <1>5 DEF StartThread, StartRelease, NextThread, CtlReturn, CtlInv
<1>6. CASE StopRelease
  BY <1>6 DEF StopRelease, CtlGoTo, CtlInv
<1>7. CASE JoinThread
  BY <1>7, <1>1, PoolAssumption DEF JoinThread, CtlReturn, CtlInv, workerVars, TypeOK, Workers
<1>8. CASE JoinRunning \/ JoinWait
  BY <1>8 DEF JoinRunning, JoinWait, CtlReturn, CtlGoTo, CtlInv
<1>9. CASE UNCHANGED vars
  BY <1>9 DEF vars, workerVars, ctlVars, CtlInv
<1> QED
  BY <1>2, <1>3, <1>4, <1>5, <1>6, <1>7, <1>8, <1>9 DEF Next, CtlStep

LEMMA SleepStep ==
  ASSUME TypeOK, SleepInv, [Next]_vars
  PROVE  SleepInv'
<1>0. 1 \in Workers /\ NumThreads \in Workers
  BY PoolAssumption DEF Workers
<1>1. ASSUME mSemaphore' = mSemaphore, \A w \in Workers : wpc'[w] = "blocked" => wpc[w] = "blocked"
      PROVE  SleepInv'
  BY <1>1 DEF SleepInv
<1>2. ASSUME NEW n \in Workers, ReleaseWorkers(n) PROVE SleepInv'
  BY <1>2, ReleaseWakes
<1>3. ASSUME NEW w \in Workers, WorkerWait(w) PROVE SleepInv'
  BY <1>3 DEF WorkerWait, WorkerGoTo, SleepInv, TypeOK
<1>4. ASSUME NEW w \in Workers, WorkerPoolStep(w) \/ WorkerRoutine(w) PROVE SleepInv'
  BY <1>1, <1>3, <1>4 DEF WorkerPoolStep, WorkerRoutine, WorkerCheck, WorkerDequeue, WorkerCount,
     WorkerUncount, WorkerNotify, WorkerExit, WorkerGoTo, TypeOK
<1>5. ASSUME NEW c \in Callers, EnqueueCall(c) \/ CallerStep(c) PROVE SleepInv'
  BY <1>0, <1>1, <1>2, <1>5 DEF EnqueueCall, EnqueueBegin, CallerStep, EnqueuePut, EnqueueSignal,
     EnqueueRelease, workerVars
<1>6. CASE CtlCall \/ JoinTimeout
  BY <1>1, <1>6 DEF CtlCall, StartBegin, PauseCall, StopBegin, JoinBegin, JoinTimeout, workerVars
<1>7. CASE StartRelease \/ StopRelease
  BY <1>0, <1>2, <1>7 DEF StartRelease, StopRelease
<1>8. CASE StartThread
  BY <1>1, <1>8 DEF StartThread, TypeOK
<1>9. CASE JoinThread \/ JoinRunning \/ JoinWait
  BY <1>1, <1>9 DEF JoinThread, JoinRunning, JoinWait, workerVars
<1>10. CASE UNCHANGED vars
  BY <1>1, <1>10 DEF vars, workerVars
<1> QED
  BY <1>4, <1>5, <1>6, <1>7, <1>8, <1>9, <1>10 DEF Next, CtlStep

LEMMA AliveStep ==
  ASSUME TypeOK, SleepInv, CtlInv, AliveInv, [Next]_vars
  PROVE  AliveInv'
<1> SUFFICES ASSUME mRunState' # "Stopped", ~restarted', NEW w \in Workers,
                    ctl' = "startThread" => w < next'
             PROVE  wpc'[w] \notin {"none", "exiting", "exited"}
  BY DEF AliveInv
<1>0. next \in Nat /\ w \in 1 .. NumThreads /\ 1 \in Workers
  BY PoolAssumption DEF TypeOK, Workers
<1>1. wpc'[w] \in {"none", "exiting", "exited"} =>
        wpc[w] \in {"none", "exiting", "exited"} \/ mRunState = "Stopped"
  BY WorkerMoves
<1>2. ASSUME mRunState # "Stopped", ~restarted, ctl = "startThread" => w < next
      PROVE  wpc'[w] \notin {"none", "exiting", "exited"}
  BY <1>1, <1>2 DEF AliveInv
<1>3. CASE \/ \E v \in Workers : WorkerPoolStep(v) \/ WorkerRoutine(v)
           \/ \E c \in Callers : EnqueueCall(c) \/ CallerStep(c)
  <2>1. restarted' = restarted
    BY <1>3, Zenon DEF WorkerPoolStep, WorkerRoutine, WorkerCheck, WorkerDequeue, WorkerCount,
       WorkerUncount, WorkerNotify, WorkerWait, WorkerExit, EnqueueCall, EnqueueBegin, CallerStep,
       EnqueuePut, EnqueueSignal, EnqueueRelease
  <2> QED
    BY <1>2, <1>3, <2>1, OthersLeaveCtl
<1>4. CASE CtlCall
  <2>1. wpc' = wpc /\ restarted' = restarted /\ ctl = "idle" /\ next = 1
    BY <1>4, Zenon DEF CtlCall, StartBegin, PauseCall, StopBegin, JoinBegin, workerVars, CtlInv
  <2>2. mRunState = "Stopped" => ctl' = "startThread" /\ next' = next
    BY <1>4 DEF CtlCall, StartBegin, PauseCall, StopBegin, JoinBegin
  <2> QED
    BY <1>0, <1>2, <2>1, <2>2
<1>5. CASE StartThread
  <2>1. ctl = "startThread" /\ mRunState = "Running"
    BY <1>5 DEF StartThread, CtlInv
  <2>2. CASE wpc[next] \in {"none", "exited"}
    <3>1. wpc' = [wpc EXCEPT ![next] = "check"] /\ restarted' = restarted
      BY <1>5, <2>2, Zenon DEF StartThread
    <3>2. w = next \/ w < next
      <4>1. CASE next < NumThreads
        <5>1. next' = next + 1 /\ ctl' = "startThread"
          BY <1>5, <2>1, <4>1, Zenon DEF StartThread, NextThread
        <5>2. w < next + 1
          BY <5>1
        <5> QED
          BY <1>0, <5>2
      <4>2. CASE ~(next < NumThreads)
        BY <1>0, <4>2, PoolAssumption
      <4> QED
        BY <4>1, <4>2
    <3>3. CASE w = next
      BY <3>1, <3>3 DEF TypeOK
    <3>4. CASE w < next
      BY <1>2, <2>1, <3>1, <3>4
    <3> QED
      BY <3>2, <3>3, <3>4
  <2>3. CASE wpc[next] \notin {"none", "exited"}
    BY <1>5, <2>3, Zenon DEF StartThread
  <2> QED
    BY <2>2, <2>3
<1>6. CASE StartRelease
  <2>1. ctl = "startRelease" /\ mRunState = "Running" /\ restarted' = restarted
    BY <1>6, Zenon DEF StartRelease, CtlInv
  <2> QED
    BY <1>2, <2>1
<1>7. CASE StopRelease \/ JoinThread
  BY <1>7 DEF StopRelease, JoinThread, CtlInv
<1>8. CASE JoinRunning \/ JoinWait
  <2>1. ctl # "startThread" /\ mRunState = "Paused" /\ restarted' = restarted
    BY <1>8, Zenon DEF JoinRunning, JoinWait, CtlInv
  <2> QED
    BY <1>2, <2>1
<1>9. CASE JoinTimeout
  <2>1. ctl # "startThread" /\ mRunState' = mRunState /\ restarted' = restarted
    BY <1>9, Zenon DEF JoinTimeout
  <2> QED
    BY <1>2, <2>1
<1>10. CASE UNCHANGED vars
  <2>1. UNCHANGED <<ctl, next, mRunState>> /\ restarted' = restarted
    BY <1>10, Zenon DEF vars, ctlVars
  <2> QED
    BY <1>2, <2>1
<1> QED
  BY <1>3, <1>4, <1>5, <1>6, <1>7, <1>8, <1>9, <1>10 DEF Next, CtlStep

(* After a release a job will be looked for: by the worker it woke, or by one on
   its way to the semaphore, which has a token now, as nobody sleeps beside one. *)
LEMMA ReleaseIsSeen ==
  ASSUME TypeOK, SleepInv, AliveInv', TypeOK', NEW n \in Workers, ReleaseWorkers(n),
         mRunState' = "Running", ~restarted', ctl' # "startThread"
  PROVE  \/ \E w \in Workers :
              wpc'[w] \in {"check", "dequeue", "count", "routine", "uncount", "notify"}
         \/ mSemaphore' > 0 /\ \E w \in Workers : wpc'[w] = "wait"
<1>1. SleepInv' /\ (mSemaphore' > 0 \/ \E w \in Workers : wpc'[w] = "check")
  BY ReleaseWakes
<1>2. CASE mSemaphore' > 0
  <2>1. wpc'[n] \notin {"blocked", "none", "exiting", "exited"}
    BY <1>1, <1>2 DEF SleepInv, AliveInv
  <2> QED
    BY <1>2, <2>1 DEF TypeOK
<1> QED
  BY <1>1, <1>2

LEMMA WakeStep ==
  ASSUME TypeOK, SleepInv, CtlInv, AliveInv, WakeInv, TypeOK', AliveInv', [Next]_vars
  PROVE  WakeInv'
<1> DEFINE Up == {"check", "dequeue", "count", "routine", "uncount", "notify"}
<1> SUFFICES ASSUME mRunState' = "Running", mRunQueue' # <<>>, ~restarted',
                    ctl' \notin {"startThread", "startRelease"},
                    \A c \in Callers : epc'[c] \notin {"signal", "release"}
             PROVE  \/ \E w \in Workers : wpc'[w] \in Up
                    \/ mSemaphore' > 0 /\ \E w \in Workers : wpc'[w] = "wait"
  BY DEF WakeInv
<1>0. 1 \in Workers /\ NumThreads \in Workers
  BY PoolAssumption DEF Workers
<1>1. ASSUME NEW n \in Workers, ReleaseWorkers(n)
      PROVE  \/ \E w \in Workers : wpc'[w] \in Up
             \/ mSemaphore' > 0 /\ \E w \in Workers : wpc'[w] = "wait"
  BY <1>1, ReleaseIsSeen
<1>2. ASSUME mRunState = "Running", mRunQueue # <<>>, ~restarted,
             ctl \notin {"startThread", "startRelease"},
             \A c \in Callers : epc[c] \notin {"signal", "release"}
      PROVE  \/ \E w \in Workers : wpc[w] \in Up
             \/ mSemaphore > 0 /\ \E w \in Workers : wpc[w] = "wait"
  BY <1>2 DEF WakeInv
<1>3. ASSUME NEW w \in Workers, WorkerPoolStep(w) \/ WorkerRoutine(w)
      PROVE  \/ \E v \in Workers : wpc'[v] \in Up
             \/ mSemaphore' > 0 /\ \E v \in Workers : wpc'[v] = "wait"
  <2>0. /\ mRunState = "Running" /\ ctl \notin {"startThread", "startRelease"} /\ restarted' = restarted
        /\ epc' = epc
    <3>1. mRunState' = mRunState /\ (ctl' = ctl \/ ctl = "joinBlocked")
      BY <1>3, OthersLeaveCtl
    <3>2. restarted' = restarted /\ epc' = epc
      BY <1>3, Zenon DEF WorkerPoolStep, WorkerRoutine, WorkerCheck, WorkerDequeue, WorkerCount,
         WorkerUncount, WorkerNotify, WorkerWait, WorkerExit, callerVars
    <3> QED
      BY <3>1, <3>2
  <2>1. CASE WorkerWait(w)
    <3>1. CASE mSemaphore > 0
      BY <2>1, <3>1 DEF WorkerWait, WorkerGoTo, TypeOK
    <3>2. CASE ~(mSemaphore > 0)
      <4>1. PICK v \in Workers : wpc[v] \in Up
        BY <1>2, <2>0, <2>1, <3>2 DEF WorkerWait
      <4> QED
        BY <2>1, <3>2, <4>1 DEF WorkerWait, WorkerGoTo, TypeOK
    <3> QED
      BY <3>1, <3>2
  <2>2. CASE WorkerExit(w)
    <3>1. /\ wpc[w] = "exiting" /\ \A v \in Workers \ {w} : wpc'[v] = wpc[v]
          /\ mSemaphore' = mSemaphore /\ mRunQueue' = mRunQueue
      BY <2>2 DEF WorkerExit, WorkerGoTo, TypeOK
    <3> QED
      BY <1>2, <2>0, <3>1
  <2> QED
    BY <1>3, <2>0, <2>1, <2>2 DEF WorkerPoolStep, WorkerCheck, WorkerDequeue, WorkerCount,
       WorkerRoutine, WorkerUncount, WorkerNotify, WorkerGoTo, TypeOK
<1>4. ASSUME NEW c \in Callers, EnqueueCall(c) \/ CallerStep(c)
      PROVE  \/ \E v \in Workers : wpc'[v] \in Up
             \/ mSemaphore' > 0 /\ \E v \in Workers : wpc'[v] = "wait"
  <2>0. mRunState = "Running" /\ ctl' = ctl /\ restarted' = restarted
    BY <1>4, Zenon DEF EnqueueCall, EnqueueBegin, CallerStep, EnqueuePut, EnqueueSignal,
       EnqueueRelease, ctlVars
  <2>1. CASE EnqueueCall(c) \/ (EnqueuePut(c) /\ epc'[c] # "signal")
    <3>1. /\ epc[c] \in {"idle", "put"} /\ \A d \in Callers \ {c} : epc'[d] = epc[d]
          /\ UNCHANGED <<mRunQueue, wpc, mSemaphore>>
      BY <2>1 DEF EnqueueCall, EnqueueBegin, EnqueuePut, CallerGoTo, workerVars, TypeOK
    <3> QED
      BY <1>2, <2>0, <3>1
  <2>2. CASE EnqueuePut(c) /\ epc'[c] = "signal"
    BY <2>2
  <2>3. CASE EnqueueSignal(c)
    BY <2>0, <2>3 DEF EnqueueSignal, CallerGoTo, TypeOK
  <2>4. CASE EnqueueRelease(c)
    BY <1>0, <1>1, <2>4 DEF EnqueueRelease
  <2> QED
    BY <1>4, <2>1, <2>2, <2>3, <2>4 DEF CallerStep
<1>5. CASE CtlCall
  <2>1. ctl = "idle" /\ restarted' = restarted /\ UNCHANGED <<mRunQueue, wpc, mSemaphore, epc>>
    BY <1>5, Zenon DEF CtlCall, StartBegin, PauseCall, StopBegin, JoinBegin, workerVars, callerVars
  <2>2. mRunState = "Running"
    BY <1>5 DEF CtlCall, StartBegin, PauseCall, StopBegin, JoinBegin, TypeOK
  <2> QED
    BY <1>2, <2>1, <2>2
<1>6. CASE StartThread
  <2>1. CASE wpc[next] \in {"none", "exited"}
    BY <1>6, <2>1 DEF StartThread, TypeOK
  <2>2. CASE wpc[next] \notin {"none", "exited"}
    BY <1>6, <2>2, Zenon DEF StartThread
  <2> QED
    BY <2>1, <2>2
<1>7. CASE StartRelease
  BY <1>0, <1>1, <1>7 DEF StartRelease
<1>8. CASE StopRelease \/ JoinThread \/ JoinRunning \/ JoinWait \/ JoinTimeout
  BY <1>8 DEF StopRelease, JoinThread, JoinRunning, JoinWait, JoinTimeout, CtlInv
<1>9. CASE UNCHANGED vars
  <2>1. UNCHANGED <<mRunState, mRunQueue, ctl, epc, wpc, mSemaphore>> /\ restarted' = restarted
    BY <1>9, Zenon DEF vars, ctlVars, workerVars, callerVars
  <2> QED
    BY <1>2, <2>1
<1> QED
  BY <1>3, <1>4, <1>5, <1>6, <1>7, <1>8, <1>9 DEF Next, CtlStep

LEMMA IInvStep == IInv /\ [Next]_vars => IInv'
BY CountStep, TypeStep, JobStep, CtlInvStep, SleepStep, AliveStep, WakeStep DEF IInv

(* The inductive invariant.                                                   *)
THEOREM InductiveInvariant == Spec => []IInv
BY InitIInv, IInvStep, PTL DEF Spec

(* Counters and semaphores stay in their bounds.                              *)
THEOREM TypeCorrect == Spec => []TypeOK
<1>1. IInv => TypeOK
  BY DEF IInv
<1> QED
  BY <1>1, InductiveInvariant, PTL

(* One place at a time means one place, counted.                              *)
LEMMA OnePlace ==
  ASSUME TypeOK, JobInv
  PROVE  JobsConserved
<1> SUFFICES ASSUME NEW t \in pending
             PROVE  Cardinality({i \in DOMAIN mRunQueue : mRunQueue[i] = t})
                    + Cardinality({w \in Workers : runArg[w] = t}) = 1
  BY DEF JobsConserved, JobInv
<1> DEFINE Q == {i \in DOMAIN mRunQueue : mRunQueue[i] = t}
           W == {w \in Workers : runArg[w] = t}
<1>0. t \in Tasks /\ t # NoTask
  BY PoolAssumption DEF TypeOK
<1>1. CASE \E i \in DOMAIN mRunQueue : mRunQueue[i] = t
  <2>1. PICK i \in DOMAIN mRunQueue : mRunQueue[i] = t
    BY <1>1
  <2>2. Q = {i} /\ W = {}
    BY <2>1 DEF JobInv
  <2>3. Cardinality(Q) = 1
    BY <2>2, FS_Singleton, Zenon
  <2>4. Cardinality(W) = 0
    BY <2>2, FS_EmptySet, Zenon
  <2> QED
    BY <2>3, <2>4
<1>2. CASE ~\E i \in DOMAIN mRunQueue : mRunQueue[i] = t
  <2>1. PICK w \in Workers : runArg[w] = t
    BY <1>0, <1>2 DEF JobInv
  <2>2. Q = {} /\ W = {w}
    BY <1>0, <1>2, <2>1 DEF JobInv
  <2>3. Cardinality(Q) = 0
    BY <2>2, FS_EmptySet, Zenon
  <2>4. Cardinality(W) = 1
    BY <2>2, FS_Singleton, Zenon
  <2> QED
    BY <2>3, <2>4
<1> QED
  BY <1>1, <1>2

(* No job is lost or run twice, for any workers, callers and jobs.              *)
THEOREM JobsConservedHolds == Spec => []JobsConserved
<1>1. IInv => JobsConserved
  BY OnePlace DEF IInv
<1> QED
  BY <1>1, InductiveInvariant, PTL

(* No wake-up is lost.                                                        *)
THEOREM NoLostWakeupHolds == Spec => []NoLostWakeup
<1>1. IInv => NoLostWakeup
  BY DEF IInv, WakeInv, NoLostWakeup
<1> QED
  BY <1>1, InductiveInvariant, PTL

(* When Join succeeds nobody is counted, or everybody has exited.               *)
LEMMA JoinReturns ==
  ASSUME IInv, Next, ret # "joined", ret' = "joined"
  PROVE  /\ \A w \in Workers : wpc'[w] # "routine"
         /\ mRunState = "Stopped" => \A w \in Workers : wpc'[w] \in {"none", "exited"}
<1> USE DEF IInv
<1>1. JoinThread \/ JoinRunning
  <2>1. ~\/ \E w \in Workers : WorkerPoolStep(w) \/ WorkerRoutine(w)
         \/ \E c \in Callers : EnqueueCall(c) \/ CallerStep(c)
    BY OthersLeaveCtl
  <2> QED
    BY <2>1 DEF Next, CtlStep, CtlCall, StartBegin, PauseCall, StopBegin, JoinBegin, JoinTimeout,
       StartThread, StartRelease, StopRelease, JoinWait, NextThread, CtlReturn, CtlGoTo
<1>2. CASE JoinThread
  <2>1. ctl = "joinThread" /\ wpc[next] \in {"none", "exited"} /\ wpc' = wpc /\ next >= NumThreads
    BY <1>2, PoolAssumption DEF JoinThread, CtlReturn, workerVars, TypeOK, Workers
  <2>2. \A w \in Workers : w = next \/ w \in 1 .. next - 1
    BY <2>1, PoolAssumption DEF TypeOK, Workers
  <2> QED
    BY <2>1, <2>2 DEF CtlInv
<1>3. CASE JoinRunning
  <2>1. mThreadsRunning = 0 /\ mRunState = "Paused" /\ wpc' = wpc
    BY <1>3 DEF JoinRunning, CtlGoTo, CtlInv, workerVars
  <2>2. Counted = {}
    BY <2>1, WorkersFinite, FS_EmptySet DEF CountInv, Counted
  <2> QED
    BY <2>1, <2>2 DEF Counted
<1> QED
  BY <1>1, <1>2, <1>3

(* Join returns true only when no routine runs, and after a stop only when every
   thread has exited.                                                          *)
THEOREM JoinWaitsForRunningHolds == Spec => JoinWaitsForRunning
<1>1. IInv /\ [Next]_vars =>
        [ret # "joined" /\ ret' = "joined" =>
           /\ \A w \in Workers : wpc'[w] # "routine"
           /\ mRunState = "Stopped" => \A w \in Workers : wpc'[w] \in {"none", "exited"}]_vars
  BY JoinReturns
<1> QED
  BY <1>1, InductiveInvariant, PTL DEF Spec, JoinWaitsForRunning

==============================================================================
