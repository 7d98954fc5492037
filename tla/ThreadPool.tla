----------------------------- MODULE ThreadPool -----------------------------
(***************************************************************************)
(* ycommon/containers/thread_pool.{h,cpp} on platform/thread_win.cpp and     *)
(* platform/semaphore_win.cpp: worker threads that take jobs from a queue,   *)
(* one controlling thread (Start, Pause, Stop, Join) and the threads that    *)
(* call EnqueueRun.                                                          *)
(*                                                                           *)
(* Each action is one access to shared state.  The queue is a sequence: that *)
(* AtomicQueue behaves as one is what AtomicQueue!ImplementsFifo says, for a *)
(* single producer.  A worker asleep on the semaphore is at "blocked".  A    *)
(* semaphore release hands its tokens to sleepers, as Windows does, and does *)
(* nothing at all if it would take the count over the maximum.               *)
(***************************************************************************)
EXTENDS Integers, Sequences, FiniteSets

CONSTANTS
  NumThreads,     (* mNumThreads                                             *)
  Callers,        (* the threads that call EnqueueRun                        *)
  Tasks,          (* the jobs                                                *)
  NoTask,
  QueueSize,      (* slots of mRunQueue                                      *)
  SerialEnqueue   (* the callers respect that Enqueue has a single producer  *)

Workers == 1 .. NumThreads

ASSUME PoolAssumption ==
  /\ NumThreads \in Nat \ {0} /\ QueueSize \in Nat \ {0}
  /\ NoTask \notin Tasks
  /\ SerialEnqueue \in BOOLEAN

VARIABLES
  mRunState, mSemaphore, mParentSemaphore, mRunQueue, mThreadsRunning,
  wpc,       (* program counter of each worker; "none": no thread yet        *)
  runArg,    (* its run_arg                                                  *)
  epc, eArg, (* program counter and argument of each EnqueueRun              *)
  ctl,       (* program counter of the controlling thread                    *)
  next,      (* the loop counter of its call                                 *)
  timed,     (* its call was given a time to wait                            *)
  ret,       (* what its last call returned; "joined": Join returned true    *)
  pending,   (* ghost: jobs accepted by EnqueueRun whose routine has not     *)
             (* returned                                                     *)
  restarted  (* ghost: Start has found a thread of an earlier Start alive    *)

workerVars == <<wpc, runArg>>
callerVars == <<epc, eArg>>
ctlVars == <<ctl, next, timed, ret>>
vars == <<mRunState, mSemaphore, mParentSemaphore, mRunQueue, mThreadsRunning,
          workerVars, callerVars, ctlVars, pending, restarted>>

Init ==
  /\ mRunState = "Stopped"
  /\ mSemaphore = NumThreads /\ mParentSemaphore = 0
  /\ mRunQueue = <<>>
  /\ mThreadsRunning = 0
  /\ wpc = [w \in Workers |-> "none"] /\ runArg = [w \in Workers |-> NoTask]
  /\ epc = [c \in Callers |-> "idle"] /\ eArg = [c \in Callers |-> NoTask]
  /\ ctl = "idle" /\ next = 1 /\ timed = FALSE /\ ret = "none"
  /\ pending = {} /\ restarted = FALSE

------------------------------------------------------------------------------
(* Semaphores: what ReleaseSemaphore(n) may do to a count and its sleepers.   *)

\* Mutant: the maximum is not enforced.
ReleaseUnbounded(count, maximum, sleepers, n) ==
  LET k == IF n < Cardinality(sleepers) THEN n ELSE Cardinality(sleepers)
  IN {[count |-> count + n - k, woken |-> S] :
        S \in {S \in SUBSET sleepers : Cardinality(S) = k}}

Release(count, maximum, sleepers, n) ==
  IF count + n > maximum
    THEN {[count |-> count, woken |-> {}]}
    ELSE LET k == IF n < Cardinality(sleepers) THEN n ELSE Cardinality(sleepers)
         IN {[count |-> count + n - k, woken |-> S] :
               S \in {S \in SUBSET sleepers : Cardinality(S) = k}}

Asleep == {w \in Workers : wpc[w] = "blocked"}

\* mSemaphore.Release(n)
ReleaseWorkers(n) ==
  \E r \in Release(mSemaphore, NumThreads, Asleep, n) :
    /\ mSemaphore' = r.count
    /\ wpc' = [w \in Workers |-> IF w \in r.woken THEN "check" ELSE wpc[w]]

------------------------------------------------------------------------------
(* ThreadPoolThread                                                          *)

WorkerGoTo(w, to) == wpc' = [wpc EXCEPT ![w] = to]

WorkerCheck(w) ==
  /\ wpc[w] = "check"
  /\ WorkerGoTo(w, CASE mRunState = "Stopped" -> "exiting"
                     [] mRunState = "Running" -> "dequeue"
                     [] OTHER -> "wait")
  /\ UNCHANGED <<mRunState, mSemaphore, mParentSemaphore, mRunQueue,
                 mThreadsRunning, runArg, callerVars, ctlVars, pending, restarted>>

WorkerDequeue(w) ==
  /\ wpc[w] = "dequeue"
  /\ IF mRunQueue = <<>>
       THEN /\ WorkerGoTo(w, "wait")
            /\ UNCHANGED <<mRunQueue, runArg>>
       ELSE /\ runArg' = [runArg EXCEPT ![w] = Head(mRunQueue)]
            /\ mRunQueue' = Tail(mRunQueue)
            /\ WorkerGoTo(w, "count")
  /\ UNCHANGED <<mRunState, mSemaphore, mParentSemaphore, mThreadsRunning,
                 callerVars, ctlVars, pending, restarted>>

WorkerCount(w) ==
  /\ wpc[w] = "count"
  /\ mThreadsRunning' = mThreadsRunning + 1
  /\ WorkerGoTo(w, "routine")
  /\ UNCHANGED <<mRunState, mSemaphore, mParentSemaphore, mRunQueue,
                 runArg, callerVars, ctlVars, pending, restarted>>

\* The routine returns.
WorkerRoutine(w) ==
  /\ wpc[w] = "routine"
  /\ pending' = pending \ {runArg[w]}
  /\ runArg' = [runArg EXCEPT ![w] = NoTask]
  /\ WorkerGoTo(w, "uncount")
  /\ UNCHANGED <<mRunState, mSemaphore, mParentSemaphore, mRunQueue,
                 mThreadsRunning, callerVars, ctlVars, restarted>>

WorkerUncount(w) ==
  /\ wpc[w] = "uncount"
  /\ mThreadsRunning' = mThreadsRunning - 1
  /\ WorkerGoTo(w, "notify")
  /\ UNCHANGED <<mRunState, mSemaphore, mParentSemaphore, mRunQueue,
                 runArg, callerVars, ctlVars, pending, restarted>>

\* Mutant: the controlling thread is not woken.
WorkerNotifyNobody(w) ==
  /\ wpc[w] = "notify"
  /\ WorkerGoTo(w, "check")
  /\ UNCHANGED <<mRunState, mSemaphore, mParentSemaphore, mRunQueue,
                 mThreadsRunning, runArg, callerVars, ctlVars, pending, restarted>>

\* mParentSemaphore.Release(), which the controlling thread may sleep on.
WorkerNotify(w) ==
  /\ wpc[w] = "notify"
  /\ \E r \in Release(mParentSemaphore, 1,
                      IF ctl = "joinBlocked" THEN {"ctl"} ELSE {}, 1) :
       /\ mParentSemaphore' = r.count
       /\ ctl' = IF r.woken = {} THEN ctl ELSE "joinRunning"
  /\ WorkerGoTo(w, "check")
  /\ UNCHANGED <<mRunState, mSemaphore, mRunQueue, mThreadsRunning,
                 runArg, callerVars, next, timed, ret, pending, restarted>>

WorkerWait(w) ==
  /\ wpc[w] = "wait"
  /\ IF mSemaphore > 0
       THEN mSemaphore' = mSemaphore - 1 /\ WorkerGoTo(w, "check")
       ELSE UNCHANGED mSemaphore /\ WorkerGoTo(w, "blocked")
  /\ UNCHANGED <<mRunState, mParentSemaphore, mRunQueue, mThreadsRunning,
                 runArg, callerVars, ctlVars, pending, restarted>>

WorkerExit(w) ==
  /\ wpc[w] = "exiting"
  /\ WorkerGoTo(w, "exited")
  /\ UNCHANGED <<mRunState, mSemaphore, mParentSemaphore, mRunQueue,
                 mThreadsRunning, runArg, callerVars, ctlVars, pending, restarted>>

------------------------------------------------------------------------------
(* EnqueueRun                                                                *)

CallerGoTo(c, to) == epc' = [epc EXCEPT ![c] = to]

EnqueueBegin(c, task) ==
  /\ epc[c] = "idle"
  /\ SerialEnqueue => \A d \in Callers : epc[d] # "put"
  /\ eArg' = [eArg EXCEPT ![c] = task]
  /\ CallerGoTo(c, "put")
  /\ UNCHANGED <<mRunState, mSemaphore, mParentSemaphore, mRunQueue,
                 mThreadsRunning, workerVars, ctlVars, pending, restarted>>

\* Returns false if the queue is full.
EnqueuePut(c) ==
  /\ epc[c] = "put"
  /\ IF Len(mRunQueue) < QueueSize
       THEN /\ mRunQueue' = Append(mRunQueue, eArg[c])
            /\ pending' = pending \cup {eArg[c]}
            /\ CallerGoTo(c, "signal")
       ELSE /\ CallerGoTo(c, "idle")
            /\ UNCHANGED <<mRunQueue, pending>>
  /\ eArg' = [eArg EXCEPT ![c] = NoTask]
  /\ UNCHANGED <<mRunState, mSemaphore, mParentSemaphore, mThreadsRunning,
                 workerVars, ctlVars, restarted>>

\* Mutant: nobody is woken for a job.
EnqueueSignalNever(c) ==
  /\ epc[c] = "signal"
  /\ CallerGoTo(c, "idle")
  /\ UNCHANGED <<mRunState, mSemaphore, mParentSemaphore, mRunQueue, eArg,
                 mThreadsRunning, workerVars, ctlVars, pending, restarted>>

EnqueueSignal(c) ==
  /\ epc[c] = "signal"
  /\ CallerGoTo(c, IF mRunState = "Running" THEN "release" ELSE "idle")
  /\ UNCHANGED <<mRunState, mSemaphore, mParentSemaphore, mRunQueue, eArg,
                 mThreadsRunning, workerVars, ctlVars, pending, restarted>>

EnqueueRelease(c) ==
  /\ epc[c] = "release"
  /\ ReleaseWorkers(1)
  /\ CallerGoTo(c, "idle")
  /\ UNCHANGED <<mRunState, mParentSemaphore, mRunQueue, mThreadsRunning,
                 runArg, eArg, ctlVars, pending, restarted>>

------------------------------------------------------------------------------
(* The controlling thread.  Only it writes mRunState.                        *)

CtlReturn(r) == ctl' = "idle" /\ ret' = r /\ next' = 1 /\ timed' = FALSE

CtlGoTo(to) == ctl' = to /\ UNCHANGED <<next, timed, ret>>

\* Returns false when running.
StartBegin ==
  /\ ctl = "idle"
  /\ IF mRunState = "Running"
       THEN CtlReturn("failed") /\ UNCHANGED mRunState
       ELSE /\ mRunState' = "Running"
            /\ ctl' = IF mRunState = "Stopped" THEN "startThread" ELSE "startRelease"
            /\ ret' = "none"
            /\ UNCHANGED <<next, timed>>
  /\ UNCHANGED <<mSemaphore, mParentSemaphore, mRunQueue, mThreadsRunning,
                 workerVars, callerVars, pending, restarted>>

\* The next turn of Start's loop, at `ctl', or its end.
NextThread ==
  IF next < NumThreads
    THEN next' = next + 1 /\ UNCHANGED <<ctl, timed, ret>>
    ELSE CtlReturn("ok")

\* Mutant: a thread that is still alive is started again.
StartThreadAnyway ==
  /\ ctl = "startThread"
  /\ wpc' = [wpc EXCEPT ![next] = "check"]
  /\ NextThread
  /\ UNCHANGED <<mRunState, mSemaphore, mParentSemaphore, mRunQueue,
                 mThreadsRunning, runArg, callerVars, pending, restarted>>

\* Thread::Initialize and Run, which do nothing for a thread still alive.
StartThread ==
  /\ ctl = "startThread"
  /\ IF wpc[next] \in {"none", "exited"}
       THEN wpc' = [wpc EXCEPT ![next] = "check"] /\ UNCHANGED restarted
       ELSE restarted' = TRUE /\ UNCHANGED wpc
  /\ NextThread
  /\ UNCHANGED <<mRunState, mSemaphore, mParentSemaphore, mRunQueue,
                 mThreadsRunning, runArg, callerVars, pending>>

\* Mutant: nobody is woken when the pool goes on after a pause.
StartReleaseNobody ==
  /\ ctl = "startRelease"
  /\ NextThread
  /\ UNCHANGED <<mRunState, mSemaphore, mParentSemaphore, mRunQueue,
                 mThreadsRunning, workerVars, callerVars, pending, restarted>>

StartRelease ==
  /\ ctl = "startRelease"
  /\ ReleaseWorkers(1)
  /\ NextThread
  /\ UNCHANGED <<mRunState, mParentSemaphore, mRunQueue, mThreadsRunning,
                 runArg, callerVars, pending, restarted>>

PauseCall ==
  /\ ctl = "idle"
  /\ IF mRunState = "Running" THEN mRunState' = "Paused" /\ CtlReturn("ok")
                              ELSE UNCHANGED mRunState /\ CtlReturn("failed")
  /\ UNCHANGED <<mSemaphore, mParentSemaphore, mRunQueue, mThreadsRunning,
                 workerVars, callerVars, pending, restarted>>

StopBegin(t) ==
  /\ ctl = "idle"
  /\ mRunState' = "Stopped"
  /\ timed' = t
  /\ ctl' = "stopRelease" /\ ret' = "none"
  /\ UNCHANGED <<mSemaphore, mParentSemaphore, mRunQueue, mThreadsRunning,
                 workerVars, callerVars, next, pending, restarted>>

StopRelease ==
  /\ ctl = "stopRelease"
  /\ ReleaseWorkers(NumThreads)
  /\ CtlGoTo("joinThread")
  /\ UNCHANGED <<mRunState, mParentSemaphore, mRunQueue, mThreadsRunning,
                 runArg, callerVars, pending, restarted>>

\* Returns false at once unless stopped or paused.
JoinBegin(t) ==
  /\ ctl = "idle"
  /\ IF mRunState = "Running"
       THEN CtlReturn("failed")
       ELSE /\ ctl' = IF mRunState = "Stopped" THEN "joinThread" ELSE "joinRunning"
            /\ timed' = t
            /\ ret' = "none"
            /\ UNCHANGED next
  /\ UNCHANGED <<mRunState, mSemaphore, mParentSemaphore, mRunQueue,
                 mThreadsRunning, workerVars, callerVars, pending, restarted>>

\* Mutant: the last thread is not waited for.
JoinThreadShort ==
  /\ ctl = "joinThread" /\ wpc[next] \in {"none", "exited"}
  /\ IF next + 1 < NumThreads
       THEN next' = next + 1 /\ UNCHANGED <<ctl, timed, ret>>
       ELSE CtlReturn("joined")
  /\ UNCHANGED <<mRunState, mSemaphore, mParentSemaphore, mRunQueue,
                 mThreadsRunning, workerVars, callerVars, pending, restarted>>

\* Thread::Join returns true for a thread that has exited and false for one
\* never started; only the timed Join takes notice of that.
JoinThread ==
  /\ ctl = "joinThread" /\ wpc[next] \in {"none", "exited"}
  /\ IF timed /\ wpc[next] = "none" THEN CtlReturn("failed")
     ELSE IF next < NumThreads THEN next' = next + 1 /\ UNCHANGED <<ctl, timed, ret>>
     ELSE CtlReturn("joined")
  /\ UNCHANGED <<mRunState, mSemaphore, mParentSemaphore, mRunQueue,
                 mThreadsRunning, workerVars, callerVars, pending, restarted>>

JoinRunning ==
  /\ ctl = "joinRunning"
  /\ IF mThreadsRunning = 0 THEN CtlReturn("joined") ELSE CtlGoTo("joinWait")
  /\ UNCHANGED <<mRunState, mSemaphore, mParentSemaphore, mRunQueue,
                 mThreadsRunning, workerVars, callerVars, pending, restarted>>

\* mParentSemaphore.Wait
JoinWait ==
  /\ ctl = "joinWait"
  /\ IF mParentSemaphore > 0
       THEN mParentSemaphore' = mParentSemaphore - 1 /\ CtlGoTo("joinRunning")
       ELSE UNCHANGED mParentSemaphore /\ CtlGoTo("joinBlocked")
  /\ UNCHANGED <<mRunState, mSemaphore, mRunQueue, mThreadsRunning,
                 workerVars, callerVars, pending, restarted>>

\* The time is over.  Join returns false, but when it sleeps on mParentSemaphore
\* it first looks at mThreadsRunning again.
JoinTimeout ==
  /\ timed
  /\ \/ ctl \in {"joinThread", "joinWait"} /\ CtlReturn("failed")
     \/ ctl = "joinBlocked" /\ CtlGoTo("joinRunning")
  /\ UNCHANGED <<mRunState, mSemaphore, mParentSemaphore, mRunQueue,
                 mThreadsRunning, workerVars, callerVars, pending, restarted>>

------------------------------------------------------------------------------
WorkerPoolStep(w) ==
  \/ WorkerCheck(w) \/ WorkerDequeue(w) \/ WorkerCount(w) \/ WorkerUncount(w)
  \/ WorkerNotify(w) \/ WorkerWait(w) \/ WorkerExit(w)

CallerStep(c) == EnqueuePut(c) \/ EnqueueSignal(c) \/ EnqueueRelease(c)

CtlStep ==
  \/ StartThread \/ StartRelease \/ StopRelease
  \/ JoinThread \/ JoinRunning \/ JoinWait

CtlCall ==
  \/ StartBegin \/ PauseCall
  \/ \E t \in BOOLEAN : StopBegin(t) \/ JoinBegin(t)

\* A job is enqueued again only when its routine has returned.
EnqueueCall(c) ==
  \E task \in Tasks \ (pending \cup {eArg[d] : d \in Callers}) :
    EnqueueBegin(c, task)

Next ==
  \/ \E w \in Workers : WorkerPoolStep(w) \/ WorkerRoutine(w)
  \/ \E c \in Callers : EnqueueCall(c) \/ CallerStep(c)
  \/ CtlCall \/ CtlStep \/ JoinTimeout

\* A thread that can run keeps running and every routine returns; nobody is
\* obliged to call the pool, and a timeout is never certain.
Fairness ==
  /\ \A w \in Workers : WF_vars(WorkerPoolStep(w) \/ WorkerRoutine(w))
  /\ \A c \in Callers : WF_vars(CallerStep(c))
  /\ WF_vars(CtlStep)

Spec == Init /\ [][Next]_vars
FairSpec == Spec /\ Fairness

------------------------------------------------------------------------------
TypeOK ==
  /\ mRunState \in {"Running", "Paused", "Stopped"}
  /\ mSemaphore \in 0 .. NumThreads /\ mParentSemaphore \in 0 .. 1
  /\ mRunQueue \in Seq(Tasks) /\ Len(mRunQueue) <= QueueSize
  /\ mThreadsRunning \in 0 .. NumThreads
  /\ wpc \in [Workers -> {"none", "check", "dequeue", "count", "routine",
                          "uncount", "notify", "wait", "blocked", "exiting",
                          "exited"}]
  /\ runArg \in [Workers -> Tasks \cup {NoTask}]
  /\ epc \in [Callers -> {"idle", "put", "signal", "release"}]
  /\ eArg \in [Callers -> Tasks \cup {NoTask}]
  /\ ctl \in {"idle", "startThread", "startRelease", "stopRelease",
              "joinThread", "joinRunning", "joinWait", "joinBlocked"}
  /\ next \in Workers /\ timed \in BOOLEAN
  /\ ret \in {"none", "ok", "failed", "joined"}
  /\ pending \subseteq Tasks
  /\ restarted \in BOOLEAN

(* No job is lost or run twice over starts, pauses and stops, even when Start
   finds a thread of an earlier Start still at work (thread_pool.cpp:86-88): an
   accepted job is once in the queue or once with a worker until its routine
   returns.                                                                  *)
JobsConserved ==
  /\ \A t \in pending :
       Cardinality({i \in DOMAIN mRunQueue : mRunQueue[i] = t})
       + Cardinality({w \in Workers : runArg[w] = t}) = 1
  /\ \A w \in Workers : (runArg[w] # NoTask) = (wpc[w] \in {"count", "routine"})

(* No wake-up is lost between a worker that found the queue empty and goes to
   sleep (thread_pool.cpp:176-186), EnqueueRun, which signals only if it sees
   the pool running (65-68), and Start after a pause (90): while there is a job
   some worker is awake, or some thread is about to wake one.                 *)
NoLostWakeup ==
  /\ mRunState = "Running" /\ mRunQueue # <<>> /\ ~restarted
  /\ ctl = "idle" /\ \A c \in Callers : epc[c] \in {"idle", "put"}
  => \E w \in Workers : wpc[w] \notin {"blocked", "exiting", "exited"}

(* When Join returns true (thread_pool.cpp:115-161) no routine is running, and
   after a stop every thread has exited, so that its buffer may be released.   *)
JoinWaitsForRunning ==
  [][ret # "joined" /\ ret' = "joined" =>
       /\ \A w \in Workers : wpc'[w] # "routine"
       /\ mRunState = "Stopped" => \A w \in Workers : wpc'[w] \in {"none", "exited"}]_vars

(* Join on a paused pool returns: the single token of mParentSemaphore, which
   swallows releases, wakes it for the last worker (thread_pool.cpp:140-143,
   180-181).                                                                 *)
JoinPausedReturns ==
  ctl \in {"joinRunning", "joinWait", "joinBlocked"} ~> ctl = "idle"

(* A job in the queue of a pool that stays running gets a worker.            *)
JobsGetRun ==
  \A t \in Tasks :
    (\E i \in DOMAIN mRunQueue : mRunQueue[i] = t)
      ~> \/ \E w \in Workers : runArg[w] = t
         \/ mRunState # "Running"
         \/ restarted

(* What thread_pool.h:38 says of Join: it waits till no jobs are running.  The
   program does not keep to it: a worker that has taken a job from the queue
   and not yet counted itself in mThreadsRunning (thread_pool.cpp:177-178)
   starts the routine after Join has returned true.                          *)
JoinedMeansQuiet == ret = "joined" => \A w \in Workers : wpc[w] # "routine"

(* What the tests expect of Stop (thread_pool_test.cpp): it returns once the
   jobs are over.  The program does not keep to it: Release(NumThreads) does
   nothing when the semaphore has a token left (thread_pool.cpp:110), and of
   two workers on their way to Wait one takes it and the other sleeps on.     *)
StopReturns == ctl = "joinThread" ~> ctl = "idle"

==============================================================================
