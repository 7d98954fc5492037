-------------------------- MODULE CommandTreeProofs --------------------------
(***************************************************************************)
(* The safety of CommandTree for any tree, any number of workers and any      *)
(* commands that fail, over any number of executions, whether or not the      *)
(* calls of Enqueue are serial.                                               *)
(*                                                                           *)
(* The tree is shown to be a client the pool allows for, so that the pool's    *)
(* inductive invariant, proved in ThreadPoolProofs, holds here as well: PP is  *)
(* that module for the pool of the tree.                                      *)
(***************************************************************************)
EXTENDS CommandTree, FiniteSetTheorems, TLAPS

PP == INSTANCE ThreadPoolProofs WITH
  Tasks <- Nodes, NoTask <- NoNode, QueueSize <- Cardinality(Nodes),
  Callers <- Workers \cup {Main}

(* The threads that call EnqueueRun.                                           *)
Threads == Workers \cup {Main}

(* No command is queued, or with a worker.                                      *)
Quiet == mRunQueue = <<>> /\ \A w \in Workers : wpc[w] \notin {"count", "routine"}

(* A node that is past its dependencies: on its way to the pool, in it, or begun. *)
Released(n) ==
  n \in started \cup pending \/ \E t \in Threads : eArg[t] = n

(* The routine in worker w has yet to count its node among the finished
   dependencies of n.                                                          *)
StillToCredit(w, n) ==
  /\ wpc[w] = "routine"
  /\ \/ npc[w] \in {"finish", "children"}
     \/ /\ npc[w] = "child"
        /\ \E i \in child[w] .. Len(Children[runArg[w]]) : Children[runArg[w]][i] = n

(* The dependencies of n that have ended without error and been counted.         *)
Credited(n) ==
  {m \in Dependencies[n] :
     m \in done /\ \A w \in Workers : runArg[w] = m => ~StillToCredit(w, n)}

(* The nodes that have ended without error and are not in mNumNodesFinished yet. *)
Finishing == {m \in done : \E w \in Workers : In(w, "finish") /\ runArg[w] = m}

(* What Main does to the pool: it runs from Start to Pause, and Join follows.    *)
MainInv ==
  /\ mpc # "idle" => mCommandTreeState = "Executing"
  /\ mpc = "start" => root = 1
  /\ mpc \notin {"roots", "joined"} => ctl = "idle"
  /\ mpc = "roots" => ctl \in {"idle", "startThread", "startRelease"}
  /\ mpc = "joined" => ctl \in {"idle", "joinRunning", "joinWait", "joinBlocked"}
  /\ mpc \in {"roots", "asleep", "pause"} => mRunState = "Running"
  /\ mpc \in {"join", "joined"} => mRunState = "Paused"
  /\ epc[Main] # "idle" => mpc = "roots"

(* Where a worker is in CommandTreeThread says what has become of its node.      *)
NodeInv ==
  \A w \in Workers :
    /\ wpc[w] # "routine" => npc[w] = "begin"
    /\ npc[w] # "child" => child[w] = 1
    /\ npc[w] = "child" => child[w] <= Len(Children[runArg[w]]) + 1
    /\ epc[w] # "idle" => In(w, "child")
    /\ wpc[w] = "count" => runArg[w] \notin started
    /\ wpc[w] = "routine" => (npc[w] = "begin" <=> runArg[w] \notin started)
    /\ npc[w] = "command" => runArg[w] \notin done
    /\ npc[w] \in {"finish", "children", "child"} => runArg[w] \in done

(* A command that has begun is not enqueued again: its count is reset, and all
   that would raise it again have done so.                                     *)
StartedInv ==
  \A n \in started :
    /\ mNumDependenciesFinished[n] = 0
    /\ n \notin Elements(mRunQueue)
    /\ \A t \in Threads : eArg[t] # n

(* The count of a node is at most the number of its dependencies that have been
   credited, and a node is released only when all have.  It may be less: the node
   itself resets it when it begins.                                            *)
DepInv ==
  /\ mNumDependenciesFinished \in [Nodes -> Nat]
  /\ \A n \in Nodes :
       /\ mNumDependenciesFinished[n] <= Cardinality(Credited(n))
       /\ Released(n) => Credited(n) = Dependencies[n]

(* The roots Main has still to enqueue are not released by anybody else.         *)
RootInv ==
  mpc \in {"start", "roots"} => \A i \in root .. Len(Roots) : ~Released(Roots[i])

(* mNumNodesFinished counts.                                                     *)
FinishInv == mNumNodesFinished = Cardinality(done \ Finishing)

(* Main has been woken, and has not yet returned.                                *)
Woken == mpc \in {"pause", "join", "joined"}

(* As long as no command fails, the one wake-up is that of the last node to
   finish: there is one token, or one worker about to release it, or Main has it. *)
TokenInv ==
  mReturnValue = 0 =>
    /\ mTreeSemaphore = 1 \/ Woken \/ (\E w \in Workers : In(w, "release"))
         => mNumNodesFinished = Cardinality(Nodes)
    /\ ~(mTreeSemaphore = 1 /\ Woken)
    /\ \A w \in Workers : In(w, "release") =>
         /\ mTreeSemaphore = 0 /\ ~Woken
         /\ \A v \in Workers : In(v, "release") => v = w

(* A tree that is ready has nothing left of the last execution.                  *)
CleanInv ==
  /\ mCommandTreeState = "ReadyToExecute" =>
       /\ Quiet /\ mTreeSemaphore = 0
       /\ \A n \in Nodes : mNumDependenciesFinished[n] = 0
  /\ result = "success" => mCommandTreeState = "ReadyToExecute" /\ done = Nodes

(* Join has returned true: no routine is running, and none can begin, since every
   command has.                                                                *)
JoinedInv ==
  mpc = "joined" /\ ctl = "idle" /\ ret = "joined" /\ mReturnValue = 0
    => \A w \in Workers : wpc[w] # "routine"

IInv ==
  /\ PP!IInv /\ TypeOK /\ MainInv /\ NodeInv /\ StartedInv /\ DepInv /\ RootInv
  /\ FinishInv /\ TokenInv /\ CleanInv /\ JoinedInv

------------------------------------------------------------------------------
(* The two instances of the pool's module are one.                            *)

LEMMA PoolAssumptionHolds == PP!PoolAssumption
<1>1. Cardinality(Nodes) \in Nat \ {0}
  BY TreeAssumption, FS_CardinalityType, FS_EmptySet
<1> QED
  BY <1>1, TreeAssumption DEF PP!PoolAssumption

LEMMA SameCardinality ==
  \A S : PP!Cardinality(S) = Cardinality(S) /\ Pool!Cardinality(S) = Cardinality(S)
BY DEF PP!Cardinality, Pool!Cardinality, Cardinality

LEMMA SameRelease ==
  /\ \A count, maximum, sleepers, n :
       Pool!Release(count, maximum, sleepers, n) = PP!Release(count, maximum, sleepers, n)
  /\ \A n : Pool!ReleaseWorkers(n) <=> PP!ReleaseWorkers(n)
<1>1. \A count, maximum, sleepers, n :
        Pool!Release(count, maximum, sleepers, n) = PP!Release(count, maximum, sleepers, n)
  BY SameCardinality DEF PP!Release, Pool!Release
<1> QED
  BY <1>1 DEF PP!ReleaseWorkers, Pool!ReleaseWorkers, PP!Asleep, Pool!Asleep,
     PP!Workers, Pool!Workers

LEMMA SameWorkerSteps ==
  ASSUME NEW w
  PROVE  (Pool!WorkerPoolStep(w) \/ Pool!WorkerRoutine(w))
           <=> (PP!WorkerPoolStep(w) \/ PP!WorkerRoutine(w))
BY SameRelease, Zenon
 DEF Pool!WorkerCheck, PP!WorkerCheck, Pool!WorkerDequeue, PP!WorkerDequeue,
     Pool!WorkerCount, PP!WorkerCount, Pool!WorkerRoutine, PP!WorkerRoutine,
     Pool!WorkerUncount, PP!WorkerUncount, Pool!WorkerNotify, PP!WorkerNotify,
     Pool!WorkerWait, PP!WorkerWait, Pool!WorkerExit, PP!WorkerExit, Pool!WorkerGoTo,
     PP!WorkerGoTo, Pool!CallerGoTo, PP!CallerGoTo, Pool!CtlReturn, PP!CtlReturn,
     Pool!CtlGoTo, PP!CtlGoTo, Pool!NextThread, PP!NextThread, Pool!workerVars,
     PP!workerVars, Pool!callerVars, PP!callerVars, Pool!ctlVars, PP!ctlVars,
     Pool!WorkerPoolStep, PP!WorkerPoolStep

LEMMA SameCallerSteps ==
  ASSUME NEW c
  PROVE  (Pool!EnqueueCall(c) \/ Pool!CallerStep(c)) <=> (PP!EnqueueCall(c) \/ PP!CallerStep(c))
BY SameRelease, Zenon
 DEF Pool!EnqueueBegin, PP!EnqueueBegin, Pool!EnqueuePut, PP!EnqueuePut, Pool!EnqueueSignal,
     PP!EnqueueSignal, Pool!EnqueueRelease, PP!EnqueueRelease, Pool!WorkerGoTo,
     PP!WorkerGoTo, Pool!CallerGoTo, PP!CallerGoTo, Pool!CtlReturn, PP!CtlReturn,
     Pool!CtlGoTo, PP!CtlGoTo, Pool!NextThread, PP!NextThread, Pool!workerVars,
     PP!workerVars, Pool!callerVars, PP!callerVars, Pool!ctlVars, PP!ctlVars,
     Pool!EnqueueCall, PP!EnqueueCall, Pool!CallerStep, PP!CallerStep

LEMMA SameCtlSteps ==
  (Pool!CtlCall \/ Pool!CtlStep \/ Pool!JoinTimeout)
    <=> (PP!CtlCall \/ PP!CtlStep \/ PP!JoinTimeout)
BY SameRelease, Zenon
 DEF Pool!StartBegin, PP!StartBegin, Pool!StartThread, PP!StartThread, Pool!StartRelease,
     PP!StartRelease, Pool!PauseCall, PP!PauseCall, Pool!StopBegin, PP!StopBegin,
     Pool!StopRelease, PP!StopRelease, Pool!JoinBegin, PP!JoinBegin, Pool!JoinThread,
     PP!JoinThread, Pool!JoinRunning, PP!JoinRunning, Pool!JoinWait, PP!JoinWait,
     Pool!JoinTimeout, PP!JoinTimeout, Pool!WorkerGoTo, PP!WorkerGoTo, Pool!CallerGoTo,
     PP!CallerGoTo, Pool!CtlReturn, PP!CtlReturn, Pool!CtlGoTo, PP!CtlGoTo, Pool!NextThread,
     PP!NextThread, Pool!workerVars, PP!workerVars, Pool!callerVars, PP!callerVars,
     Pool!ctlVars, PP!ctlVars, Pool!CtlCall, PP!CtlCall, Pool!CtlStep, PP!CtlStep

LEMMA SamePool ==
  /\ Pool!Init <=> PP!Init
  /\ [Pool!Next]_(Pool!vars) <=> [PP!Next]_(PP!vars)
  /\ Pool!TypeOK <=> PP!TypeOK
<1>1. Pool!Next <=> PP!Next
  BY SameWorkerSteps, SameCallerSteps, SameCtlSteps, Zenon
  DEF Pool!Next, PP!Next, Pool!Workers, PP!Workers
<1>2. Pool!vars = PP!vars
  BY Zenon DEF Pool!vars, PP!vars, Pool!workerVars, PP!workerVars, Pool!callerVars, PP!callerVars,
     Pool!ctlVars, PP!ctlVars
<1>3. Pool!vars' = PP!vars'
  BY Zenon DEF Pool!vars, PP!vars, Pool!workerVars, PP!workerVars, Pool!callerVars, PP!callerVars,
     Pool!ctlVars, PP!ctlVars
<1>4. Pool!Init <=> PP!Init
  BY Zenon DEF Pool!Init, PP!Init, Pool!Workers, PP!Workers
<1>5. Pool!TypeOK <=> PP!TypeOK
  BY Zenon DEF Pool!TypeOK, PP!TypeOK, Pool!Workers, PP!Workers
<1> QED
  BY <1>1, <1>2, <1>3, <1>4, <1>5, Zenon

------------------------------------------------------------------------------
(* The lists of children and of roots.                                        *)

LEMMA NodesFinite ==
  /\ Cardinality(Nodes) \in Nat \ {0}
  /\ \A S \in SUBSET Nodes : IsFiniteSet(S) /\ Cardinality(S) \in 0 .. Cardinality(Nodes)
<1>1. Cardinality(Nodes) \in Nat \ {0}
  BY TreeAssumption, FS_CardinalityType, FS_EmptySet
<1>2. ASSUME NEW S \in SUBSET Nodes
      PROVE  IsFiniteSet(S) /\ Cardinality(S) \in 0 .. Cardinality(Nodes)
  BY <1>1, TreeAssumption, FS_Subset, FS_CardinalityType
<1> QED
  BY <1>1, <1>2

(* A list as long as the set of its elements has no element twice.             *)
LEMMA NoRepeats ==
  ASSUME NEW s \in Seq(Nodes), Len(s) = Cardinality(Elements(s))
  PROVE  \A i, j \in 1 .. Len(s) : s[i] = s[j] => i = j
<1>0. DOMAIN s = 1 .. Len(s) /\ s = [i \in 1 .. Len(s) |-> s[i]]
  OBVIOUS
<1>1. s \in Surjection(1 .. Len(s), Elements(s))
  <2>1. \A i \in 1 .. Len(s) : s[i] \in Elements(s)
    BY <1>0 DEF Elements
  <2>2. \A x \in Elements(s) : \E i \in 1 .. Len(s) : s[i] = x
    BY <1>0 DEF Elements
  <2>3. s \in [1 .. Len(s) -> Elements(s)]
    BY <1>0, <2>1
  <2> QED
    BY <2>2, <2>3 DEF Surjection
<1>2. IsFiniteSet(1 .. Len(s)) /\ Cardinality(1 .. Len(s)) = Len(s)
  BY FS_Interval
<1>3. s \in Injection(1 .. Len(s), Elements(s))
  BY <1>1, <1>2, FS_Surjection
<1> QED
  BY <1>3 DEF Injection, IsInjective

LEMMA ChildrenList ==
  ASSUME NEW m \in Nodes
  PROVE  /\ Children[m] \in Seq(Nodes) /\ Len(Children[m]) \in 0 .. Cardinality(Nodes)
         /\ \A i, j \in 1 .. Len(Children[m]) : Children[m][i] = Children[m][j] => i = j
         /\ \A i \in 1 .. Len(Children[m]) : Children[m][i] \in Nodes
                                             /\ m \in Dependencies[Children[m][i]]
<1> DEFINE dependents == {n \in Nodes : m \in Dependencies[n]}
<1>1. /\ Children[m] \in Seq(Nodes) /\ Elements(Children[m]) = dependents
      /\ Len(Children[m]) = Cardinality(dependents)
  BY TreeAssumption
<1>2. Cardinality(dependents) \in 0 .. Cardinality(Nodes)
  BY NodesFinite
<1>3. \A i \in 1 .. Len(Children[m]) : Children[m][i] \in dependents
  BY <1>1 DEF Elements
<1> QED
  BY <1>1, <1>2, <1>3, NoRepeats

LEMMA RootsList ==
  /\ Roots \in Seq(Nodes) /\ Len(Roots) \in Nat
  /\ \A i, j \in 1 .. Len(Roots) : Roots[i] = Roots[j] => i = j
  /\ \A i \in 1 .. Len(Roots) : Roots[i] \in Nodes /\ Dependencies[Roots[i]] = {}
<1> DEFINE independent == {n \in Nodes : Dependencies[n] = {}}
<1>1. /\ Roots \in Seq(Nodes) /\ Elements(Roots) = independent
      /\ Len(Roots) = Cardinality(independent)
  BY TreeAssumption
<1>2. DOMAIN Roots = 1 .. Len(Roots) /\ Len(Roots) \in Nat
  BY <1>1
<1>3. \A i \in 1 .. Len(Roots) : Roots[i] \in independent
  BY <1>1, <1>2 DEF Elements
<1> QED
  BY <1>1, <1>2, <1>3, NoRepeats

------------------------------------------------------------------------------
(* What the tree needs to know of the pool's invariant.                        *)
LEMMA PoolFacts ==
  ASSUME IInv
  PROVE  /\ runArg \in [Workers -> Nodes \cup {NoNode}] /\ NoNode \notin Nodes
         /\ eArg \in [Threads -> Nodes \cup {NoNode}]
         /\ wpc \in [Workers -> PP!WorkerStates]
         /\ epc \in [Threads -> {"idle", "put", "signal", "release"}]
         /\ mRunQueue \in Seq(Nodes) /\ Elements(mRunQueue) \subseteq Nodes
         /\ pending \subseteq Nodes /\ PP!Workers = Workers
         /\ \A w \in Workers : runArg[w] # NoNode <=> wpc[w] \in {"count", "routine"}
         /\ \A w, v \in Workers : runArg[w] # NoNode /\ runArg[w] = runArg[v] => w = v
         /\ \A n \in Nodes :
              n \in pending <=> n \in Elements(mRunQueue) \/ \E w \in Workers : runArg[w] = n
         /\ \A w \in Workers : runArg[w] \notin Elements(mRunQueue)
         /\ \A t \in Threads : eArg[t] # NoNode <=> epc[t] = "put"
         /\ \A t \in Threads : eArg[t] \notin pending
<1> USE DEF IInv, PP!IInv, PP!TypeOK, PP!JobInv, PP!Workers, Workers, Threads, PP!WorkerStates
<1>1. DOMAIN mRunQueue = 1 .. Len(mRunQueue) /\ mRunQueue \in Seq(Nodes)
  OBVIOUS
<1>2. /\ \A x : x \in Elements(mRunQueue) <=> \E i \in DOMAIN mRunQueue : mRunQueue[i] = x
      /\ \A i \in DOMAIN mRunQueue : mRunQueue[i] \in Nodes
  BY <1>1 DEF Elements
<1>3. Elements(mRunQueue) \subseteq Nodes
  BY <1>2
<1>4. \A w \in Workers : runArg[w] \notin Elements(mRunQueue)
  BY <1>2
<1>5. \A n \in Nodes :
        n \in pending <=> n \in Elements(mRunQueue) \/ \E w \in Workers : runArg[w] = n
  BY <1>2
<1>6. /\ \A w \in Workers : runArg[w] # NoNode <=> wpc[w] \in {"count", "routine"}
      /\ \A w, v \in Workers : runArg[w] # NoNode /\ runArg[w] = runArg[v] => w = v
      /\ \A t \in Threads : eArg[t] # NoNode <=> epc[t] = "put"
      /\ \A t \in Threads : eArg[t] \notin pending
  OBVIOUS
<1> QED
  BY <1>1, <1>3, <1>4, <1>5, <1>6, TreeAssumption

(* The node of a worker in CommandTreeThread is its own.                        *)
LEMMA NodeOf ==
  ASSUME IInv, NEW w \in Workers, wpc[w] = "routine"
  PROVE  /\ runArg[w] \in Nodes /\ runArg[w] \in pending
         /\ \A v \in Workers : runArg[v] = runArg[w] => v = w
         /\ runArg[w] \notin Elements(mRunQueue)
         /\ \A t \in Threads : eArg[t] # runArg[w]
BY PoolFacts

LEMMA PoolRelease ==
  ASSUME IInv, NEW n \in Workers, Pool!ReleaseWorkers(n)
  PROVE  \A w \in Workers : wpc'[w] = wpc[w] \/ (wpc[w] = "blocked" /\ wpc'[w] = "check")
<1>1. PP!TypeOK /\ PP!SleepInv /\ PP!ReleaseWorkers(n) /\ PP!Workers = Workers
  BY SameRelease, PoolFacts DEF IInv, PP!IInv
<1> QED
  BY <1>1, PP!ReleaseWakes, PoolAssumptionHolds

(* The steps of the pool that are no steps of the tree.                        *)
PoolOnly ==
  \/ \E w \in Workers : WorkerStep(w)
  \/ \E t \in Threads : CallerStep(t)
  \/ CtlStep \/ JoinTimeout

(* A worker does not move as far as the tree is concerned, or it has taken a node
   from the queue, or is about to start with it.                               *)
WorkerMove(w) ==
  \/ /\ runArg'[w] = runArg[w]
     /\ wpc'[w] = "routine" <=> wpc[w] = "routine"
     /\ wpc'[w] = "count" <=> wpc[w] = "count"
  \/ /\ wpc[w] = "dequeue" /\ wpc'[w] = "count" /\ runArg'[w] \in Elements(mRunQueue)
  \/ /\ wpc[w] = "count" /\ wpc'[w] = "routine" /\ runArg'[w] = runArg[w]

LEMMA PoolOnlyWorkers ==
  ASSUME IInv, PoolOnly
  PROVE  \A w \in Workers : WorkerMove(w)
<1> USE PoolFacts DEF PP!WorkerStates
<1> SUFFICES ASSUME NEW w \in Workers PROVE WorkerMove(w)
  OBVIOUS
<1>0. 1 \in Workers /\ NumThreads \in Workers
  BY TreeAssumption DEF Workers
<1>1. ASSUME NEW v \in Workers, WorkerStep(v) PROVE WorkerMove(w)
  <2>1. CASE Pool!WorkerDequeue(v) /\ mRunQueue # <<>>
    <3>1. Head(mRunQueue) \in Elements(mRunQueue)
      <4>1. 1 \in DOMAIN mRunQueue /\ Head(mRunQueue) = mRunQueue[1]
        BY <2>1
      <4> QED
        BY <4>1 DEF Elements
    <3> QED
      BY <2>1, <3>1 DEF Pool!WorkerDequeue, Pool!WorkerGoTo, WorkerMove
  <2>2. CASE ~(Pool!WorkerDequeue(v) /\ mRunQueue # <<>>)
    <3>1. runArg' = runArg
      BY <1>1, <2>2, Zenon DEF WorkerStep, Pool!WorkerPoolStep, Pool!WorkerCheck, Pool!WorkerDequeue,
         Pool!WorkerCount, Pool!WorkerUncount, Pool!WorkerNotify, Pool!WorkerWait, Pool!WorkerExit
    <3> QED
      BY <1>1, <2>2, <3>1 DEF WorkerStep, Pool!WorkerPoolStep, Pool!WorkerCheck, Pool!WorkerDequeue,
         Pool!WorkerCount, Pool!WorkerUncount, Pool!WorkerNotify, Pool!WorkerWait, Pool!WorkerExit,
         Pool!WorkerGoTo, WorkerMove
  <2> QED
    BY <2>1, <2>2
<1>2. ASSUME NEW t \in Threads, CallerStep(t) PROVE WorkerMove(w)
  <2>1. CASE Pool!EnqueueRelease(t)
    BY <1>0, <2>1, PoolRelease DEF Pool!EnqueueRelease, WorkerMove
  <2>2. CASE Pool!EnqueuePut(t) \/ Pool!EnqueueSignal(t)
    BY <2>2 DEF Pool!EnqueuePut, Pool!EnqueueSignal, Pool!workerVars, WorkerMove
  <2> QED
    BY <1>2, <2>1, <2>2 DEF CallerStep, Pool!CallerStep
<1>3. CASE CtlStep
  <2>1. CASE Pool!StartRelease
    BY <1>0, <2>1, PoolRelease DEF Pool!StartRelease, WorkerMove
  <2>2. CASE Pool!StopRelease
    BY <1>0, <2>2, PoolRelease DEF Pool!StopRelease, WorkerMove
  <2>3. CASE Pool!StartThread
    BY <2>3 DEF Pool!StartThread, WorkerMove
  <2>4. CASE Pool!JoinThread \/ Pool!JoinRunning \/ Pool!JoinWait
    BY <2>4 DEF Pool!JoinThread, Pool!JoinRunning, Pool!JoinWait, Pool!workerVars, WorkerMove
  <2> QED
    BY <1>3, <2>1, <2>2, <2>3, <2>4 DEF CtlStep, Pool!CtlStep
<1>4. CASE JoinTimeout
  BY <1>4 DEF JoinTimeout, Pool!JoinTimeout, Pool!workerVars, WorkerMove
<1> QED
  BY <1>1, <1>2, <1>3, <1>4 DEF PoolOnly

LEMMA PoolOnlyQueue ==
  ASSUME IInv, PoolOnly
  PROVE  /\ mRunState' = mRunState
         /\ Elements(mRunQueue') \subseteq Elements(mRunQueue) \cup {eArg[t] : t \in Threads}
         /\ pending' \subseteq pending \cup {eArg[t] : t \in Threads}
         /\ \A t \in Threads : eArg'[t] = eArg[t] \/ eArg'[t] = NoNode
         /\ \A t \in Threads : epc'[t] # "idle" => epc[t] # "idle"
         /\ (\A t \in Threads : epc[t] # "put") /\ mRunQueue = <<>> => mRunQueue' = <<>>
<1> USE PoolFacts
<1>1. ASSUME NEW t \in Threads, CallerStep(t), Pool!EnqueuePut(t), Len(mRunQueue) < Cardinality(Nodes)
      PROVE  /\ Elements(mRunQueue') \subseteq Elements(mRunQueue) \cup {eArg[c] : c \in Threads}
             /\ epc[t] = "put"
  <2>1. mRunQueue' = Append(mRunQueue, eArg[t]) /\ epc[t] = "put" /\ eArg[t] \in Nodes
    BY <1>1 DEF Pool!EnqueuePut
  <2>2. /\ DOMAIN mRunQueue = 1 .. Len(mRunQueue) /\ Len(mRunQueue) \in Nat
        /\ DOMAIN mRunQueue' = 1 .. Len(mRunQueue) + 1
        /\ \A i \in 1 .. Len(mRunQueue) : mRunQueue'[i] = mRunQueue[i]
        /\ mRunQueue'[Len(mRunQueue) + 1] = eArg[t]
    BY <2>1
  <2>3. \A i \in DOMAIN mRunQueue' : i \in DOMAIN mRunQueue \/ i = Len(mRunQueue) + 1
    BY <2>2
  <2> QED
    BY <2>1, <2>2, <2>3 DEF Elements
<1>2. ASSUME NEW w \in Workers, Pool!WorkerDequeue(w), mRunQueue # <<>>
      PROVE  Elements(mRunQueue') \subseteq Elements(mRunQueue)
  <2>1. /\ mRunQueue' = Tail(mRunQueue) /\ Len(mRunQueue) \in Nat \ {0}
        /\ DOMAIN mRunQueue = 1 .. Len(mRunQueue)
    BY <1>2 DEF Pool!WorkerDequeue
  <2>2. /\ DOMAIN mRunQueue' = 1 .. Len(mRunQueue) - 1
        /\ \A i \in 1 .. Len(mRunQueue) - 1 : mRunQueue'[i] = mRunQueue[i + 1]
    BY <2>1
  <2>3. \A i \in 1 .. Len(mRunQueue) - 1 : i + 1 \in 1 .. Len(mRunQueue)
    BY <2>1
  <2> QED
    BY <2>1, <2>2, <2>3 DEF Elements
<1>3. mRunState' = mRunState
  BY Zenon DEF PoolOnly, WorkerStep, CallerStep, CtlStep, JoinTimeout, Pool!WorkerPoolStep,
     Pool!WorkerCheck, Pool!WorkerDequeue, Pool!WorkerCount, Pool!WorkerUncount, Pool!WorkerNotify,
     Pool!WorkerWait, Pool!WorkerExit, Pool!CallerStep, Pool!EnqueuePut, Pool!EnqueueSignal,
     Pool!EnqueueRelease, Pool!CtlStep, Pool!StartThread, Pool!StartRelease, Pool!StopRelease,
     Pool!JoinThread, Pool!JoinRunning, Pool!JoinWait, Pool!JoinTimeout
<1>4. ASSUME NEW t \in Threads, CallerStep(t)
      PROVE  /\ pending' \subseteq pending \cup {eArg[c] : c \in Threads}
             /\ \A c \in Threads : eArg'[c] = eArg[c] \/ eArg'[c] = NoNode
             /\ \A c \in Threads : epc'[c] # "idle" => epc[c] # "idle"
             /\ mRunQueue' = mRunQueue \/ (Pool!EnqueuePut(t) /\ Len(mRunQueue) < Cardinality(Nodes))
  BY <1>4 DEF CallerStep, Pool!CallerStep, Pool!EnqueuePut, Pool!EnqueueSignal,
     Pool!EnqueueRelease, Pool!CallerGoTo
<1>5. ASSUME ~\E t \in Threads : CallerStep(t)
      PROVE  pending' = pending /\ eArg' = eArg /\ epc' = epc
  BY <1>5, Zenon DEF PoolOnly, WorkerStep, CtlStep, JoinTimeout, Pool!WorkerPoolStep,
     Pool!WorkerCheck, Pool!WorkerDequeue, Pool!WorkerCount, Pool!WorkerUncount, Pool!WorkerNotify,
     Pool!WorkerWait, Pool!WorkerExit, Pool!CtlStep, Pool!StartThread, Pool!StartRelease,
     Pool!StopRelease, Pool!JoinThread, Pool!JoinRunning, Pool!JoinWait, Pool!JoinTimeout,
     Pool!callerVars
<1>6. ASSUME ~\E t \in Threads : CallerStep(t)
      PROVE  mRunQueue' = mRunQueue \/ \E w \in Workers : Pool!WorkerDequeue(w) /\ mRunQueue # <<>>
  BY <1>6, Zenon DEF PoolOnly, WorkerStep, CtlStep, JoinTimeout, Pool!WorkerPoolStep,
     Pool!WorkerCheck, Pool!WorkerDequeue, Pool!WorkerCount, Pool!WorkerUncount, Pool!WorkerNotify,
     Pool!WorkerWait, Pool!WorkerExit, Pool!CtlStep, Pool!StartThread, Pool!StartRelease,
     Pool!StopRelease, Pool!JoinThread, Pool!JoinRunning, Pool!JoinWait, Pool!JoinTimeout
<1>7. CASE \E t \in Threads : CallerStep(t)
  BY <1>1, <1>3, <1>4, <1>7
<1>8. CASE ~\E t \in Threads : CallerStep(t)
  BY <1>2, <1>3, <1>5, <1>6, <1>8
<1> QED
  BY <1>7, <1>8

------------------------------------------------------------------------------
LEMMA TreeTypes ==
  ASSUME IInv
  PROVE  /\ mTreeSemaphore \in 0 .. 1 /\ mReturnValue \in 0 .. 1
         /\ mNumNodesFinished \in 0 .. Cardinality(Nodes)
         /\ \A n \in Nodes :
              mNumDependenciesFinished[n] \in 0 .. Cardinality(Dependencies[n])
         /\ root \in Nat \ {0} /\ root <= Len(Roots) + 1
         /\ npc \in [Workers -> {"begin", "command", "finish", "release", "children", "child"}]
         /\ child \in [Workers -> Nat \ {0}]
         /\ started \subseteq Nodes /\ done \subseteq started
<1>1. child \in [Workers -> 1 .. Cardinality(Nodes) + 1] /\ root \in 1 .. Len(Roots) + 1
  BY DEF IInv, TypeOK
<1>2. child \in [Workers -> Nat \ {0}]
  BY <1>1, NodesFinite
<1>3. root \in Nat \ {0} /\ root <= Len(Roots) + 1
  BY <1>1, RootsList
<1> QED
  BY <1>2, <1>3 DEF IInv, TypeOK

(* The next child of a node is a node that nobody has released yet, since this
   one has still to credit it.                                                *)
LEMMA ChildIsFree ==
  ASSUME IInv, NEW w \in Workers, In(w, "child"), child[w] <= Len(Children[runArg[w]]),
         NEW dep, dep = Children[runArg[w]][child[w]]
  PROVE  /\ child[w] \in 1 .. Len(Children[runArg[w]])
         /\ dep \in Nodes /\ runArg[w] \in Dependencies[dep] /\ runArg[w] \in done
         /\ runArg[w] \notin Credited(dep) /\ ~Released(dep)
<1>1. runArg[w] \in Nodes /\ wpc[w] = "routine" /\ npc[w] = "child" /\ runArg[w] \in done
  BY NodeOf DEF In, IInv, NodeInv
<1>2. child[w] \in 1 .. Len(Children[runArg[w]])
  BY <1>1, ChildrenList, TreeTypes
<1>3. dep \in Nodes /\ runArg[w] \in Dependencies[dep]
  BY <1>1, <1>2, ChildrenList
<1>4. child[w] \in child[w] .. Len(Children[runArg[w]])
  BY <1>1, <1>2, ChildrenList
<1>5. StillToCredit(w, dep)
  BY <1>1, <1>4 DEF StillToCredit
<1>6. runArg[w] \notin Credited(dep)
  BY <1>5 DEF Credited
<1> QED
  BY <1>1, <1>2, <1>3, <1>6 DEF IInv, DepInv

(* Every step of the tree is one the pool's specification allows for: in
   particular, a node is enqueued only when it is not in the pool already.       *)
LEMMA PoolStep ==
  ASSUME IInv, [Next]_vars
  PROVE  [Pool!Next]_(Pool!vars)
<1>0. UNCHANGED poolVars => UNCHANGED Pool!vars
  BY Zenon DEF poolVars, Pool!vars, Pool!workerVars, Pool!callerVars, Pool!ctlVars
<1>1. CASE UNCHANGED vars
  BY <1>0, <1>1 DEF vars
<1>2. CASE ConstructTree \/ ExecBegin \/ ExecTimeout \/ ExecWait \/ ExecReturn
  BY <1>0, <1>2 DEF ConstructTree, ExecBegin, ExecTimeout, ExecWait, ExecReturn
<1>3. CASE ExecStart \/ ExecPause \/ ExecJoin
  BY <1>3, Zenon DEF ExecStart, ExecPause, ExecJoin, Pool!Next, Pool!CtlCall
<1>4. ASSUME NEW t \in Threads, NEW n \in Nodes, ~Released(n), Pool!EnqueueBegin(t, n)
      PROVE  Pool!Next
  <2>1. n \notin pending /\ n \notin {eArg[d] : d \in Threads}
    BY <1>4 DEF Released
  <2>2. Pool!EnqueueCall(t)
    BY <1>4, <2>1 DEF Pool!EnqueueCall, Threads
  <2> QED
    BY <2>2 DEF Pool!Next, Threads
<1>5. CASE ExecEnqueueRoot
  <2>1. /\ mpc = "roots" /\ root <= Len(Roots) /\ Pool!EnqueueBegin(Main, Roots[root])
        /\ root \in Nat \ {0}
    BY <1>5, TreeTypes, Zenon DEF ExecEnqueueRoot
  <2>2. root \in 1 .. Len(Roots) /\ root \in root .. Len(Roots)
    BY <2>1, RootsList
  <2>3. Roots[root] \in Nodes /\ ~Released(Roots[root])
    BY <2>1, <2>2, RootsList DEF IInv, RootInv
  <2> QED
    BY <1>4, <2>1, <2>3 DEF Threads
<1>6. ASSUME NEW w \in Workers, NodeStep(w) PROVE [Pool!Next]_(Pool!vars)
  <2>1. CASE NodeBegin(w) \/ NodeSucceed(w) \/ NodeFail(w) \/ NodeFinish(w) \/ NodeChildren(w)
    BY <1>0, <2>1 DEF NodeBegin, NodeSucceed, NodeFail, NodeFinish, NodeChildren
  <2>2. CASE NodeRelease(w) \/ NodeEnd(w)
    BY <2>2, Zenon DEF NodeRelease, NodeEnd, NodeReturn, Pool!Next, Pool!Workers, Workers
  <2>3. CASE NodeChild(w)
    <3> DEFINE dep == Children[runArg[w]][child[w]]
    <3>1. dep \in Nodes /\ ~Released(dep)
      BY <2>3, ChildIsFree DEF NodeChild
    <3>2. UNCHANGED poolVars \/ Pool!EnqueueBegin(w, dep)
      BY <2>3, Zenon DEF NodeChild
    <3> QED
      BY <1>0, <1>4, <3>1, <3>2 DEF Threads
  <2> QED
    BY <1>6, <2>1, <2>2, <2>3 DEF NodeStep
<1>7. CASE PoolOnly
  BY <1>7, Zenon DEF PoolOnly, WorkerStep, CallerStep, CtlStep, JoinTimeout, Threads, Pool!Next,
     Pool!Workers, Workers
<1> QED
  BY <1>1, <1>2, <1>3, <1>5, <1>6, <1>7, Zenon DEF Next, MainStep, PoolOnly, Threads

LEMMA PoolInvStep ==
  ASSUME IInv, [Next]_vars
  PROVE  PP!IInv'
<1>1. [PP!Next]_(PP!vars) /\ PP!IInv
  BY PoolStep, SamePool DEF IInv
<1> QED
  BY <1>1, PP!IInvStep, PoolAssumptionHolds

------------------------------------------------------------------------------
(* What the steps do, for the parts of the state the invariant is about.        *)

(* ExecuteCommands and ConstructTree leave the workers alone.                   *)
MainSteps == ConstructTree \/ ExecBegin \/ MainStep \/ ExecTimeout

LEMMA MainEffects ==
  ASSUME IInv, MainSteps
  PROVE  /\ wpc' = wpc /\ runArg' = runArg /\ npc' = npc /\ child' = child
         /\ mRunQueue' = mRunQueue /\ pending' = pending
         /\ \A t \in Threads : eArg'[t] = eArg[t] \/ (ExecEnqueueRoot /\ t = Main)
         /\ \A w \in Workers : epc'[w] = epc[w]
<1>0. /\ Main \notin Workers /\ Main \in Threads
      /\ \A w \in Workers : w \in Threads
  BY TreeAssumption DEF Workers, Threads
<1>1. wpc' = wpc /\ runArg' = runArg /\ npc' = npc /\ child' = child
      /\ mRunQueue' = mRunQueue /\ pending' = pending
  BY Zenon DEF MainSteps, MainStep, ConstructTree, ExecBegin, ExecTimeout, ExecStart, ExecEnqueueRoot,
     ExecWait, ExecPause, ExecJoin, ExecReturn, poolVars, nodeVars, Pool!StartBegin,
     Pool!EnqueueBegin, Pool!PauseCall, Pool!JoinBegin, Pool!workerVars
<1>2. ASSUME ~ExecEnqueueRoot PROVE eArg' = eArg /\ epc' = epc
  BY <1>2, Zenon DEF MainSteps, MainStep, ConstructTree, ExecBegin, ExecTimeout, ExecStart,
     ExecWait, ExecPause, ExecJoin, ExecReturn, poolVars, Pool!StartBegin,
     Pool!PauseCall, Pool!JoinBegin, Pool!callerVars
<1>3. CASE ExecEnqueueRoot
  BY <1>0, <1>1, <1>3, PoolFacts DEF ExecEnqueueRoot, Pool!EnqueueBegin, Pool!CallerGoTo
<1> QED
  BY <1>1, <1>2, <1>3

(* The root that is enqueued is free.                                           *)
LEMMA RootEnqueued ==
  ASSUME IInv, ExecEnqueueRoot
  PROVE  /\ root \in 1 .. Len(Roots) /\ Roots[root] \in Nodes /\ Dependencies[Roots[root]] = {}
         /\ ~Released(Roots[root]) /\ mpc = "roots" /\ mpc' = "roots" /\ root' = root + 1
         /\ eArg' = [eArg EXCEPT ![Main] = Roots[root]] /\ epc' = [epc EXCEPT ![Main] = "put"]
         /\ mRunState' = mRunState /\ ctl' = ctl /\ ret' = ret
         /\ UNCHANGED <<mTreeSemaphore, treeData, mCommandTreeState, result, nodeVars>>
<1>1. /\ mpc = "roots" /\ root <= Len(Roots) /\ Pool!EnqueueBegin(Main, Roots[root])
      /\ root' = root + 1 /\ mpc' = mpc
      /\ UNCHANGED <<mTreeSemaphore, treeData, mCommandTreeState, result, nodeVars>>
  BY Zenon DEF ExecEnqueueRoot
<1>2. root \in 1 .. Len(Roots) /\ root \in root .. Len(Roots)
  BY <1>1, RootsList, TreeTypes
<1>3. Roots[root] \in Nodes /\ Dependencies[Roots[root]] = {} /\ ~Released(Roots[root])
  BY <1>1, <1>2, RootsList DEF IInv, RootInv
<1> QED
  BY <1>1, <1>2, <1>3, Zenon DEF Pool!EnqueueBegin, Pool!CallerGoTo, Pool!ctlVars

(* The steps of CommandTreeThread within the routine.                           *)
NodeInside(w) ==
  NodeBegin(w) \/ NodeSucceed(w) \/ NodeFail(w) \/ NodeFinish(w) \/ NodeChildren(w)

LEMMA NodeInsideEffects ==
  ASSUME IInv, NEW w \in Workers, NodeInside(w)
  PROVE  /\ wpc[w] = "routine" /\ wpc' = wpc /\ runArg' = runArg /\ child' = child
         /\ mRunQueue' = mRunQueue /\ pending' = pending /\ eArg' = eArg /\ epc' = epc
         /\ mRunState' = mRunState /\ ctl' = ctl /\ ret' = ret
         /\ mTreeSemaphore' = mTreeSemaphore
         /\ mCommandTreeState' = mCommandTreeState /\ mpc' = mpc /\ root' = root
         /\ result' = result
         /\ npc' \in [Workers -> {"begin", "command", "finish", "release", "children", "child"}]
         /\ npc'[w] # "begin"
         /\ \A v \in Workers : v # w => npc'[v] = npc[v]
<1>1. /\ wpc[w] = "routine" /\ UNCHANGED poolVars /\ mTreeSemaphore' = mTreeSemaphore
      /\ child' = child /\ UNCHANGED mainVars
  BY Zenon DEF NodeInside, NodeBegin, NodeSucceed, NodeFail, NodeFinish, NodeChildren, In
<1>2. /\ npc' \in [Workers -> {"begin", "command", "finish", "release", "children", "child"}]
      /\ npc'[w] # "begin"
      /\ \A v \in Workers : v # w => npc'[v] = npc[v]
  BY TreeTypes DEF NodeInside, NodeBegin, NodeSucceed, NodeFail, NodeFinish, NodeChildren, NodeGoTo
<1> QED
  BY <1>1, <1>2, Zenon DEF poolVars, mainVars

(* The release of the tree's semaphore wakes Main, leaves a token, or is lost.  *)
LEMMA TreeRelease ==
  ASSUME IInv, NEW w \in Workers, NodeRelease(w)
  PROVE  \/ mTreeSemaphore = 1 /\ mTreeSemaphore' = 1 /\ mpc' = mpc
         \/ mTreeSemaphore = 0 /\ mTreeSemaphore' = 1 /\ mpc' = mpc
         \/ mTreeSemaphore = 0 /\ mTreeSemaphore' = 0 /\ mpc = "asleep" /\ mpc' = "pause"
<1> DEFINE S == IF mpc = "asleep" THEN {Main} ELSE {}
<1>0. mTreeSemaphore \in 0 .. 1
  BY TreeTypes
<1>1. PICK r \in PP!Release(mTreeSemaphore, 1, S, 1) :
        mTreeSemaphore' = r.count /\ mpc' = IF r.woken = {} THEN mpc ELSE "pause"
  BY SameRelease, Zenon DEF NodeRelease
<1>2. Cardinality(S) = (IF mpc = "asleep" THEN 1 ELSE 0) /\ IsFiniteSet(S)
  BY FS_EmptySet, FS_Singleton
<1>3. PP!Cardinality(S) = Cardinality(S)
  BY SameCardinality
<1>4. CASE mTreeSemaphore = 1
  <2>1. r = [count |-> mTreeSemaphore, woken |-> {}]
    BY <1>1, <1>4 DEF PP!Release
  <2> QED
    BY <1>1, <1>4, <2>1
<1>5. CASE mTreeSemaphore = 0 /\ mpc = "asleep"
  <2>1. PICK T \in SUBSET S : PP!Cardinality(T) = 1 /\ r = [count |-> 0, woken |-> T]
    BY <1>1, <1>2, <1>3, <1>5 DEF PP!Release
  <2>2. T # {}
    BY <2>1, SameCardinality, FS_EmptySet
  <2> QED
    BY <1>1, <1>5, <2>1, <2>2
<1>6. CASE mTreeSemaphore = 0 /\ mpc # "asleep"
  <2>1. PICK T \in SUBSET S : r = [count |-> 1, woken |-> T]
    BY <1>1, <1>2, <1>3, <1>6 DEF PP!Release
  <2>2. T = {}
    BY <1>6, <2>1
  <2> QED
    BY <1>1, <1>6, <2>1, <2>2
<1> QED
  BY <1>0, <1>4, <1>5, <1>6

(* The routine returns.                                                         *)
LEMMA NodeLeaveEffects ==
  ASSUME IInv, NEW w \in Workers, NodeRelease(w) \/ NodeEnd(w)
  PROVE  /\ wpc[w] = "routine" /\ npc[w] \in {"release", "children", "child"}
         /\ wpc' = [wpc EXCEPT ![w] = "uncount"] /\ runArg' = [runArg EXCEPT ![w] = NoNode]
         /\ npc' = [npc EXCEPT ![w] = "begin"] /\ child' = [child EXCEPT ![w] = 1]
         /\ mRunQueue' = mRunQueue /\ pending' = pending \ {runArg[w]}
         /\ eArg' = eArg /\ epc' = epc /\ epc[w] = "idle"
         /\ mRunState' = mRunState /\ ctl' = ctl /\ ret' = ret
         /\ mCommandTreeState' = mCommandTreeState /\ root' = root /\ result' = result
         /\ UNCHANGED <<treeData, started, done>>
         /\ mpc' = mpc \/ (mpc = "asleep" /\ mpc' = "pause")
<1>1. NodeReturn(w) /\ wpc[w] = "routine" /\ npc[w] \in {"release", "children", "child"}
      /\ (npc[w] = "child" => epc[w] = "idle")
  BY DEF NodeRelease, NodeEnd, In
<1>2. epc[w] = "idle"
  BY <1>1 DEF IInv, NodeInv, In
<1>3. /\ wpc' = [wpc EXCEPT ![w] = "uncount"] /\ runArg' = [runArg EXCEPT ![w] = NoNode]
      /\ npc' = [npc EXCEPT ![w] = "begin"] /\ child' = [child EXCEPT ![w] = 1]
      /\ mRunQueue' = mRunQueue /\ pending' = pending \ {runArg[w]}
      /\ eArg' = eArg /\ epc' = epc /\ mRunState' = mRunState /\ ctl' = ctl /\ ret' = ret
  BY <1>1, Zenon DEF NodeReturn, NodeGoTo, Pool!WorkerRoutine, Pool!WorkerGoTo, Pool!callerVars,
     Pool!ctlVars
<1>4. /\ mCommandTreeState' = mCommandTreeState /\ root' = root /\ result' = result
      /\ UNCHANGED <<treeData, started, done>>
  BY Zenon DEF NodeRelease, NodeEnd, mainVars
<1>5. mpc' = mpc \/ (mpc = "asleep" /\ mpc' = "pause")
  BY TreeRelease, Zenon DEF NodeEnd, mainVars
<1> QED
  BY <1>1, <1>2, <1>3, <1>4, <1>5

(* A child is credited, and enqueued if this was its last dependency.            *)
LEMMA NodeChildEffects ==
  ASSUME IInv, NEW w \in Workers, NodeChild(w),
         NEW dep, dep = Children[runArg[w]][child[w]]
  PROVE  /\ In(w, "child") /\ child[w] \in 1 .. Len(Children[runArg[w]])
         /\ dep \in Nodes /\ runArg[w] \in Dependencies[dep] /\ runArg[w] \in done
         /\ runArg[w] \notin Credited(dep) /\ ~Released(dep)
         /\ mNumDependenciesFinished' =
              [mNumDependenciesFinished EXCEPT ![dep] = mNumDependenciesFinished[dep] + 1]
         /\ child' = [child EXCEPT ![w] = child[w] + 1]
         /\ wpc' = wpc /\ runArg' = runArg /\ mRunQueue' = mRunQueue /\ pending' = pending
         /\ mRunState' = mRunState /\ ctl' = ctl /\ ret' = ret /\ npc' = npc
         /\ \/ eArg' = eArg /\ epc' = epc
            \/ /\ mNumDependenciesFinished[dep] = Cardinality(Dependencies[dep]) - 1
               /\ eArg' = [eArg EXCEPT ![w] = dep] /\ epc' = [epc EXCEPT ![w] = "put"]
         /\ UNCHANGED <<mTreeSemaphore, mReturnValue, mNumNodesFinished, mainVars, started, done>>
<1>1. In(w, "child") /\ child[w] <= Len(Children[runArg[w]])
  BY DEF NodeChild
<1>2. /\ child[w] \in 1 .. Len(Children[runArg[w]])
      /\ dep \in Nodes /\ runArg[w] \in Dependencies[dep] /\ runArg[w] \in done
      /\ runArg[w] \notin Credited(dep) /\ ~Released(dep)
  BY <1>1, ChildIsFree
<1>3. /\ mNumDependenciesFinished' =
           [mNumDependenciesFinished EXCEPT ![dep] = mNumDependenciesFinished[dep] + 1]
      /\ \/ UNCHANGED poolVars
         \/ /\ mNumDependenciesFinished[dep] = Cardinality(Dependencies[dep]) - 1
            /\ Pool!EnqueueBegin(w, dep)
      /\ child' = [child EXCEPT ![w] = child[w] + 1]
      /\ UNCHANGED <<mTreeSemaphore, mReturnValue, mNumNodesFinished, mainVars, npc, started, done>>
  BY Zenon DEF NodeChild
<1>4. /\ wpc' = wpc /\ runArg' = runArg /\ mRunQueue' = mRunQueue /\ pending' = pending
      /\ mRunState' = mRunState /\ ctl' = ctl /\ ret' = ret
      /\ \/ eArg' = eArg /\ epc' = epc
         \/ /\ mNumDependenciesFinished[dep] = Cardinality(Dependencies[dep]) - 1
            /\ eArg' = [eArg EXCEPT ![w] = dep] /\ epc' = [epc EXCEPT ![w] = "put"]
  BY <1>3, Zenon DEF poolVars, Pool!EnqueueBegin, Pool!CallerGoTo, Pool!workerVars, Pool!ctlVars
<1> QED
  BY <1>1, <1>2, <1>3, <1>4

LEMMA StepCases ==
  ASSUME Next
  PROVE  \/ MainSteps \/ PoolOnly
         \/ \E w \in Workers : NodeInside(w) \/ NodeRelease(w) \/ NodeEnd(w) \/ NodeChild(w)
BY Zenon DEF Next, NodeStep, MainSteps, PoolOnly, NodeInside, Threads

(* The controlling thread's pc while Main waits for the pool; when Join has
   returned true no worker is in its routine.                                   *)
LEMMA PoolOnlyCtl ==
  ASSUME IInv, PoolOnly
  PROVE  /\ ctl = "idle" => ctl' = "idle" /\ ret' = ret
         /\ ctl \in {"startThread", "startRelease"}
              => ctl' \in {"idle", "startThread", "startRelease"}
         /\ ctl \in {"joinRunning", "joinWait", "joinBlocked"} =>
              /\ ctl' \in {"idle", "joinRunning", "joinWait", "joinBlocked"}
              /\ ctl' = "idle" /\ ret' = "joined" => \A w \in Workers : wpc'[w] # "routine"
<1>1. ASSUME ~CtlStep, ~JoinTimeout, ~\E w \in Workers : Pool!WorkerNotify(w)
      PROVE  ctl' = ctl /\ ret' = ret
  BY <1>1, Zenon DEF PoolOnly, WorkerStep, CallerStep, Pool!WorkerPoolStep,
     Pool!WorkerCheck, Pool!WorkerDequeue, Pool!WorkerCount, Pool!WorkerUncount,
     Pool!WorkerWait, Pool!WorkerExit, Pool!CallerStep, Pool!EnqueuePut, Pool!EnqueueSignal,
     Pool!EnqueueRelease, Pool!ctlVars
<1>2. ASSUME NEW w \in Workers, Pool!WorkerNotify(w)
      PROVE  ret' = ret /\ (ctl' = ctl \/ (ctl = "joinBlocked" /\ ctl' = "joinRunning"))
  <2>1. ret' = ret
    BY <1>2 DEF Pool!WorkerNotify
  <2>2. PP!WorkerNotify(w)
    BY <1>2, SameRelease, Zenon DEF Pool!WorkerNotify, PP!WorkerNotify, Pool!WorkerGoTo,
       PP!WorkerGoTo, Pool!callerVars, PP!callerVars
  <2>3. mParentSemaphore \in 0 .. 1 /\ w \in PP!Workers
    BY PoolFacts DEF IInv, PP!IInv, PP!TypeOK
  <2> QED
    BY <2>1, <2>2, <2>3, PP!ParentRelease, PoolAssumptionHolds
<1>3. CASE JoinTimeout
  BY <1>3 DEF JoinTimeout, Pool!JoinTimeout, Pool!CtlReturn, Pool!CtlGoTo
<1>4. CASE CtlStep /\ ctl \in {"startThread", "startRelease"}
  BY <1>4 DEF CtlStep, Pool!CtlStep, Pool!StartThread, Pool!StartRelease, Pool!StopRelease,
     Pool!JoinThread, Pool!JoinRunning, Pool!JoinWait, Pool!NextThread, Pool!CtlReturn
<1>5. CASE CtlStep /\ ctl = "idle"
  BY <1>5 DEF CtlStep, Pool!CtlStep, Pool!StartThread, Pool!StartRelease, Pool!StopRelease,
     Pool!JoinThread, Pool!JoinRunning, Pool!JoinWait
<1>6. CASE CtlStep /\ ctl \in {"joinRunning", "joinWait", "joinBlocked"}
  <2>1. CASE Pool!JoinRunning /\ mThreadsRunning = 0
    <3>1. PP!Counted = {}
      <4>1. PP!Counted \subseteq PP!Workers
        BY DEF PP!Counted
      <4>2. IsFiniteSet(PP!Counted)
        <5>1. PP!Workers = 1 .. NumThreads /\ IsFiniteSet(1 .. NumThreads)
          BY FS_Interval, TreeAssumption DEF PP!Workers
        <5> QED
          BY <4>1, <5>1, FS_Subset
      <4>3. Cardinality(PP!Counted) = 0
        BY <2>1, SameCardinality DEF IInv, PP!IInv, PP!CountInv
      <4> QED
        BY <4>2, <4>3, FS_EmptySet
    <3>2. \A w \in Workers : wpc[w] # "routine"
      BY <3>1, PoolFacts DEF PP!Counted
    <3>3. wpc' = wpc /\ ctl' = "idle"
      BY <2>1 DEF Pool!JoinRunning, Pool!workerVars, Pool!CtlReturn
    <3> QED
      BY <1>6, <3>2, <3>3
  <2>2. CASE Pool!JoinRunning /\ mThreadsRunning # 0
    BY <1>6, <2>2 DEF Pool!JoinRunning, Pool!CtlGoTo
  <2>3. CASE ~Pool!JoinRunning
    BY <1>6, <2>3 DEF CtlStep, Pool!CtlStep, Pool!StartThread, Pool!StartRelease, Pool!StopRelease,
       Pool!JoinThread, Pool!JoinWait, Pool!CtlGoTo
  <2> QED
    BY <2>1, <2>2, <2>3
<1> QED
  BY <1>1, <1>2, <1>3, <1>4, <1>5, <1>6, Zenon

LEMMA MainInvStep ==
  ASSUME IInv, Next
  PROVE  MainInv'
<1> USE DEF MainInv, treeVars, mainVars
<1>0. MainInv /\ Main \in Threads /\ Main \notin Workers
  BY TreeAssumption DEF IInv, Workers, Threads
<1>1. CASE PoolOnly
  <2>1. UNCHANGED treeVars
    BY <1>1, Zenon DEF PoolOnly, WorkerStep, CallerStep, CtlStep, JoinTimeout
  <2>2. mRunState' = mRunState /\ (epc'[Main] # "idle" => epc[Main] # "idle")
    BY <1>0, <1>1, PoolOnlyQueue
  <2> QED
    BY <1>0, <1>1, <2>1, <2>2, PoolOnlyCtl
<1>2. CASE ExecEnqueueRoot
  BY <1>0, <1>2, RootEnqueued
<1>3. CASE ExecStart
  BY <1>0, <1>3 DEF ExecStart, Pool!StartBegin, Pool!CtlReturn, Pool!callerVars
<1>4. CASE ExecJoin
  BY <1>0, <1>4 DEF ExecJoin, Pool!JoinBegin, Pool!CtlReturn, Pool!callerVars
<1>5. CASE ExecPause
  BY <1>0, <1>5 DEF ExecPause, Pool!PauseCall, Pool!CtlReturn, Pool!callerVars
<1>6. CASE ConstructTree \/ ExecBegin \/ ExecWait \/ ExecReturn \/ ExecTimeout
  BY <1>0, <1>6 DEF ConstructTree, ExecBegin, ExecWait, ExecReturn, ExecTimeout, poolVars,
     AllRootsEnqueued
<1>7. ASSUME NEW w \in Workers, NodeInside(w) PROVE MainInv'
  BY <1>0, <1>7, NodeInsideEffects
<1>8. ASSUME NEW w \in Workers, NodeRelease(w) \/ NodeEnd(w) PROVE MainInv'
  BY <1>0, <1>8, NodeLeaveEffects
<1>9. ASSUME NEW w \in Workers, NodeChild(w) PROVE MainInv'
  <2> DEFINE dep == Children[runArg[w]][child[w]]
  <2>1. /\ mRunState' = mRunState /\ ctl' = ctl /\ UNCHANGED mainVars
        /\ epc' = epc \/ epc' = [epc EXCEPT ![w] = "put"]
    BY <1>9, NodeChildEffects
  <2>2. epc'[Main] = epc[Main]
    BY <1>0, <2>1, PoolFacts
  <2> QED
    BY <1>0, <2>1, <2>2
<1> QED
  BY <1>1, <1>2, <1>3, <1>4, <1>5, <1>6, <1>7, <1>8, <1>9, StepCases DEF MainSteps, MainStep

------------------------------------------------------------------------------
(* Nothing is released in the steps of the pool, and no node becomes a worker's
   that it has not taken from the queue.                                       *)
LEMMA PoolOnlyKeeps ==
  ASSUME IInv, PoolOnly
  PROVE  /\ UNCHANGED treeVars
         /\ \A n \in Nodes : Released(n)' => Released(n)
         /\ \A n \in Nodes, w \in Workers : StillToCredit(w, n)' =>
              StillToCredit(w, n) /\ runArg'[w] = runArg[w]
         /\ \A w \in Workers : wpc'[w] = "routine" /\ npc[w] # "begin" =>
              wpc[w] = "routine" /\ runArg'[w] = runArg[w]
         /\ \A w \in Workers : wpc[w] = "routine" => wpc'[w] = "routine" /\ runArg'[w] = runArg[w]
<1>1. UNCHANGED treeVars
  BY Zenon DEF PoolOnly, WorkerStep, CallerStep, CtlStep, JoinTimeout
<1>2. npc' = npc /\ child' = child /\ started' = started /\ done' = done
  BY <1>1 DEF treeVars, nodeVars
<1>3. \A n \in Nodes : Released(n)' => Released(n)
  BY <1>2, PoolOnlyQueue, PoolFacts DEF Released
<1>4. \A w \in Workers : /\ wpc[w] = "routine" => wpc'[w] = "routine" /\ runArg'[w] = runArg[w]
                         /\ wpc'[w] = "routine" /\ npc[w] # "begin" =>
                              wpc[w] = "routine" /\ runArg'[w] = runArg[w]
  BY PoolOnlyWorkers DEF WorkerMove, IInv, NodeInv
<1>5. ASSUME NEW n \in Nodes, NEW w \in Workers, StillToCredit(w, n)'
      PROVE  StillToCredit(w, n) /\ runArg'[w] = runArg[w]
  <2>1. wpc'[w] = "routine" /\ npc[w] # "begin"
    BY <1>2, <1>5 DEF StillToCredit
  <2>2. wpc[w] = "routine" /\ runArg'[w] = runArg[w]
    BY <1>4, <2>1
  <2> QED
    BY <1>2, <1>5, <2>2 DEF StillToCredit
<1> QED
  BY <1>1, <1>3, <1>4, <1>5

(* Before an execution begins nothing is released.                              *)
LEMMA BeginClean ==
  ASSUME IInv, ExecBegin
  PROVE  /\ \A w \in Workers : wpc[w] # "routine" /\ wpc[w] # "count" /\ npc[w] = "begin"
         /\ \A n \in Nodes : ~Released(n)' /\ mNumDependenciesFinished[n] = 0
         /\ mTreeSemaphore = 0
<1>1. /\ Quiet /\ mTreeSemaphore = 0 /\ mpc = "idle"
      /\ \A n \in Nodes : mNumDependenciesFinished[n] = 0
  BY DEF ExecBegin, IInv, CleanInv
<1>2. \A w \in Workers : wpc[w] # "routine" /\ wpc[w] # "count" /\ npc[w] = "begin"
  BY <1>1 DEF IInv, NodeInv, Quiet
<1>3. \A t \in Threads : epc[t] = "idle"
  <2>1. epc[Main] = "idle"
    BY <1>1 DEF IInv, MainInv
  <2>2. \A w \in Workers : epc[w] = "idle"
    BY <1>2 DEF IInv, NodeInv, In
  <2> QED
    BY <2>1, <2>2 DEF Threads
<1>4. \A t \in Threads : eArg[t] = NoNode
  BY <1>3, PoolFacts
<1>5. pending = {}
  <2>1. Elements(mRunQueue) = {}
    BY <1>1 DEF Quiet, Elements
  <2>2. \A w \in Workers : runArg[w] = NoNode
    BY <1>2, PoolFacts
  <2> QED
    BY <2>1, <2>2, PoolFacts
<1>6. pending' = pending /\ eArg' = eArg /\ started' = {}
  BY Zenon DEF ExecBegin, poolVars
<1>7. \A n \in Nodes : ~Released(n)'
  BY <1>4, <1>5, <1>6, PoolFacts DEF Released
<1> QED
  BY <1>1, <1>2, <1>7

LEMMA NodeInvStep ==
  ASSUME IInv, Next
  PROVE  NodeInv'
<1> SUFFICES ASSUME NEW u \in Workers
             PROVE  (/\ wpc[u] # "routine" => npc[u] = "begin"
                     /\ npc[u] # "child" => child[u] = 1
                     /\ npc[u] = "child" => child[u] <= Len(Children[runArg[u]]) + 1
                     /\ epc[u] # "idle" => In(u, "child")
                     /\ wpc[u] = "count" => runArg[u] \notin started
                     /\ wpc[u] = "routine" => (npc[u] = "begin" <=> runArg[u] \notin started)
                     /\ npc[u] = "command" => runArg[u] \notin done
                     /\ npc[u] \in {"finish", "children", "child"} => runArg[u] \in done)'
  BY DEF NodeInv
<1> USE DEF In
<1>0. /\ wpc[u] # "routine" => npc[u] = "begin"
      /\ npc[u] # "child" => child[u] = 1
      /\ npc[u] = "child" => child[u] <= Len(Children[runArg[u]]) + 1
      /\ epc[u] # "idle" => In(u, "child")
      /\ wpc[u] = "count" => runArg[u] \notin started
      /\ wpc[u] = "routine" => (npc[u] = "begin" <=> runArg[u] \notin started)
      /\ npc[u] = "command" => runArg[u] \notin done
      /\ npc[u] \in {"finish", "children", "child"} => runArg[u] \in done
  BY DEF IInv, NodeInv
<1>t. npc[u] \in {"begin", "command", "finish", "release", "children", "child"}
      /\ u \in Threads /\ u # Main
  BY TreeTypes, TreeAssumption DEF Threads, Workers
<1>1. CASE PoolOnly
  <2>1. UNCHANGED <<npc, child, started, done>>
    BY <1>1, PoolOnlyKeeps DEF treeVars, nodeVars
  <2>2. epc'[u] # "idle" => epc[u] # "idle"
    BY <1>1, <1>t, PoolOnlyQueue
  <2>3. WorkerMove(u)
    BY <1>1, PoolOnlyWorkers
  <2>4. \A n \in Elements(mRunQueue) : n \notin started
    BY DEF IInv, StartedInv
  <2>5. CASE wpc[u] = "routine"
    BY <1>0, <2>1, <2>2, <2>3, <2>5 DEF WorkerMove
  <2>6. CASE wpc[u] # "routine"
    BY <1>0, <2>1, <2>2, <2>3, <2>4, <2>6 DEF WorkerMove
  <2> QED
    BY <2>5, <2>6
<1>2. CASE MainSteps
  <2>1. wpc' = wpc /\ runArg' = runArg /\ npc' = npc /\ child' = child /\ epc'[u] = epc[u]
    BY <1>2, MainEffects
  <2>2. CASE ExecBegin
    BY <1>0, <2>1, <2>2, BeginClean DEF ExecBegin
  <2>3. CASE ~ExecBegin
    <3>1. started' = started /\ done' = done
      BY <1>2, <2>3, Zenon DEF MainSteps, MainStep, ConstructTree, ExecTimeout, ExecStart,
         ExecEnqueueRoot, ExecWait, ExecPause, ExecJoin, ExecReturn, nodeVars
    <3> QED
      BY <1>0, <2>1, <3>1
  <2> QED
    BY <2>2, <2>3
<1>3. ASSUME NEW w \in Workers, NodeInside(w) \/ NodeRelease(w) \/ NodeEnd(w) \/ NodeChild(w)
      PROVE  /\ wpc[w] = "routine" /\ runArg[w] \in Nodes /\ runArg[w] # NoNode
             /\ u # w => runArg[u] # runArg[w]
             /\ u # w => wpc'[u] = wpc[u] /\ runArg'[u] = runArg[u] /\ npc'[u] = npc[u]
                         /\ child'[u] = child[u] /\ epc'[u] = epc[u]
             /\ started' \subseteq started \cup {runArg[w]} /\ started \subseteq started'
             /\ done' \subseteq done \cup {runArg[w]} /\ done \subseteq done'
  <2> DEFINE dep == Children[runArg[w]][child[w]]
  <2>1. wpc[w] = "routine"
    BY <1>3, NodeInsideEffects, NodeLeaveEffects, NodeChildEffects
  <2>2. runArg[w] \in Nodes /\ runArg[w] # NoNode /\ (u # w => runArg[u] # runArg[w])
    BY <2>1, NodeOf, PoolFacts
  <2>3. u # w => wpc'[u] = wpc[u] /\ runArg'[u] = runArg[u] /\ npc'[u] = npc[u]
                 /\ child'[u] = child[u] /\ epc'[u] = epc[u]
    <3>1. CASE NodeInside(w)
      BY <3>1, NodeInsideEffects
    <3>2. CASE NodeRelease(w) \/ NodeEnd(w)
      BY <3>2, NodeLeaveEffects, PoolFacts, TreeTypes
    <3>3. CASE NodeChild(w)
      BY <3>3, NodeChildEffects, PoolFacts, TreeTypes, <1>t
    <3> QED
      BY <1>3, <3>1, <3>2, <3>3
  <2>4. /\ started' \subseteq started \cup {runArg[w]} /\ started \subseteq started'
        /\ done' \subseteq done \cup {runArg[w]} /\ done \subseteq done'
    <3>1. CASE NodeInside(w)
      BY <3>1 DEF NodeInside, NodeBegin, NodeSucceed, NodeFail, NodeFinish, NodeChildren
    <3>2. CASE NodeRelease(w) \/ NodeEnd(w)
      BY <3>2, NodeLeaveEffects
    <3>3. CASE NodeChild(w)
      BY <3>3, NodeChildEffects
    <3> QED
      BY <1>3, <3>1, <3>2, <3>3
  <2> QED
    BY <2>1, <2>2, <2>3, <2>4
<1>4. ASSUME NEW w \in Workers, NodeInside(w) \/ NodeRelease(w) \/ NodeEnd(w) \/ NodeChild(w),
             u # w
      PROVE  (/\ wpc[u] # "routine" => npc[u] = "begin"
              /\ npc[u] # "child" => child[u] = 1
              /\ npc[u] = "child" => child[u] <= Len(Children[runArg[u]]) + 1
              /\ epc[u] # "idle" => In(u, "child")
              /\ wpc[u] = "count" => runArg[u] \notin started
              /\ wpc[u] = "routine" => (npc[u] = "begin" <=> runArg[u] \notin started)
              /\ npc[u] = "command" => runArg[u] \notin done
              /\ npc[u] \in {"finish", "children", "child"} => runArg[u] \in done)'
  BY <1>0, <1>3, <1>4
<1>5. CASE NodeInside(u)
  <2>1. /\ wpc[u] = "routine" /\ wpc' = wpc /\ runArg' = runArg /\ child' = child /\ epc' = epc
    BY <1>5, NodeInsideEffects
  <2>2. CASE NodeBegin(u)
    BY <1>0, <2>1, <2>2, TreeTypes DEF NodeBegin, NodeGoTo
  <2>3. CASE NodeSucceed(u)
    BY <1>0, <2>1, <2>3, TreeTypes DEF NodeSucceed, NodeGoTo
  <2>4. CASE NodeFail(u)
    BY <1>0, <2>1, <2>4, TreeTypes DEF NodeFail, NodeGoTo
  <2>5. CASE NodeFinish(u)
    BY <1>0, <2>1, <2>5, TreeTypes DEF NodeFinish, NodeGoTo
  <2>6. CASE NodeChildren(u)
    <3>1. Len(Children[runArg[u]]) \in Nat
      BY <2>1, NodeOf, ChildrenList
    <3> QED
      BY <1>0, <2>1, <2>6, <3>1, TreeTypes DEF NodeChildren, NodeGoTo
  <2> QED
    BY <1>5, <2>2, <2>3, <2>4, <2>5, <2>6 DEF NodeInside
<1>6. CASE NodeRelease(u) \/ NodeEnd(u)
  BY <1>6, NodeLeaveEffects, PoolFacts, TreeTypes DEF PP!WorkerStates
<1>7. CASE NodeChild(u)
  <2> DEFINE dep == Children[runArg[u]][child[u]]
  <2>1. /\ wpc[u] = "routine" /\ npc[u] = "child" /\ child[u] \in 1 .. Len(Children[runArg[u]])
        /\ wpc' = wpc /\ runArg' = runArg /\ npc' = npc /\ started' = started /\ done' = done
        /\ child' = [child EXCEPT ![u] = child[u] + 1]
    BY <1>7, NodeChildEffects
  <2>2. Len(Children[runArg[u]]) \in Nat
    BY <2>1, NodeOf, ChildrenList
  <2>3. child'[u] = child[u] + 1
    BY <2>1, TreeTypes
  <2> QED
    BY <1>0, <2>1, <2>2, <2>3
<1> QED
  BY <1>1, <1>2, <1>4, <1>5, <1>6, <1>7, StepCases

LEMMA StartedInvStep ==
  ASSUME IInv, Next
  PROVE  StartedInv'
<1>0. /\ \A n \in started : /\ mNumDependenciesFinished[n] = 0 /\ n \notin Elements(mRunQueue)
                            /\ \A t \in Threads : eArg[t] # n
      /\ started \subseteq Nodes /\ NoNode \notin Nodes
      /\ mNumDependenciesFinished \in [Nodes -> Nat]
      /\ Main \in Threads /\ Workers \subseteq Threads
  BY TreeTypes, PoolFacts DEF IInv, StartedInv, DepInv, Threads
<1>1. CASE PoolOnly
  <2>1. UNCHANGED <<mNumDependenciesFinished, started>>
    BY <1>1, PoolOnlyKeeps DEF treeVars, treeData, nodeVars
  <2>2. /\ Elements(mRunQueue') \subseteq Elements(mRunQueue) \cup {eArg[t] : t \in Threads}
        /\ \A t \in Threads : eArg'[t] = eArg[t] \/ eArg'[t] = NoNode
    BY <1>1, PoolOnlyQueue
  <2> QED
    BY <1>0, <2>1, <2>2 DEF StartedInv
<1>2. CASE ExecEnqueueRoot
  <2>1. /\ ~Released(Roots[root]) /\ eArg' = [eArg EXCEPT ![Main] = Roots[root]]
        /\ UNCHANGED <<treeData, nodeVars>> /\ mRunQueue' = mRunQueue
    BY <1>2, RootEnqueued, MainEffects DEF MainSteps, MainStep
  <2>2. Roots[root] \notin started /\ \A t \in Threads : eArg'[t] = eArg[t] \/ eArg'[t] = Roots[root]
    BY <2>1, PoolFacts DEF Released
  <2> QED
    BY <1>0, <2>1, <2>2 DEF StartedInv, treeData, nodeVars
<1>3. CASE MainSteps /\ ~ExecEnqueueRoot
  <2>1. mRunQueue' = mRunQueue /\ \A t \in Threads : eArg'[t] = eArg[t]
    BY <1>3, MainEffects
  <2>2. CASE ExecBegin
    BY <2>2 DEF StartedInv, ExecBegin
  <2>3. CASE ~ExecBegin
    <3>1. /\ started' = started
          /\ \/ mNumDependenciesFinished' = mNumDependenciesFinished
             \/ mNumDependenciesFinished' = [n \in Nodes |-> 0]
      BY <1>3, <2>3, Zenon DEF MainSteps, MainStep, ConstructTree, ExecTimeout, ExecStart,
         ExecEnqueueRoot, ExecWait, ExecPause, ExecJoin, ExecReturn, nodeVars, treeData
    <3> QED
      BY <1>0, <2>1, <3>1 DEF StartedInv
  <2> QED
    BY <2>2, <2>3
<1>4. ASSUME NEW w \in Workers, NodeInside(w) \/ NodeRelease(w) \/ NodeEnd(w) PROVE StartedInv'
  <2>1. wpc[w] = "routine" /\ mRunQueue' = mRunQueue /\ eArg' = eArg
    BY <1>4, NodeInsideEffects, NodeLeaveEffects
  <2>2. CASE NodeBegin(w)
    <3>1. /\ runArg[w] \in Nodes /\ runArg[w] \notin Elements(mRunQueue)
          /\ \A t \in Threads : eArg[t] # runArg[w]
      BY <2>1, NodeOf
    <3> QED
      BY <1>0, <2>1, <2>2, <3>1 DEF NodeBegin, StartedInv
  <2>3. CASE ~NodeBegin(w)
    <3>1. started' = started /\ mNumDependenciesFinished' = mNumDependenciesFinished
      BY <1>4, <2>3, NodeLeaveEffects, Zenon DEF NodeInside, NodeSucceed, NodeFail, NodeFinish,
         NodeChildren, treeData
    <3> QED
      BY <1>0, <2>1, <3>1 DEF StartedInv
  <2> QED
    BY <2>2, <2>3
<1>5. ASSUME NEW w \in Workers, NodeChild(w) PROVE StartedInv'
  <2> DEFINE dep == Children[runArg[w]][child[w]]
  <2>1. /\ dep \in Nodes /\ ~Released(dep) /\ mRunQueue' = mRunQueue /\ started' = started
        /\ mNumDependenciesFinished' =
             [mNumDependenciesFinished EXCEPT ![dep] = mNumDependenciesFinished[dep] + 1]
        /\ eArg' = eArg \/ eArg' = [eArg EXCEPT ![w] = dep]
    BY <1>5, NodeChildEffects
  <2> HIDE DEF dep
  <2>2. dep \notin started /\ \A t \in Threads : eArg'[t] = eArg[t] \/ eArg'[t] = dep
    BY <2>1, PoolFacts DEF Released
  <2> QED
    BY <1>0, <2>1, <2>2 DEF StartedInv
<1> QED
  BY <1>1, <1>2, <1>3, <1>4, <1>5, StepCases

------------------------------------------------------------------------------
(* A node that has been credited stays so as long as no routine goes back on it. *)
LEMMA CreditKept ==
  ASSUME IInv, done \subseteq done',
         \A n \in Nodes, w \in Workers : runArg'[w] \in done /\ StillToCredit(w, n)'
           => runArg'[w] = runArg[w] /\ StillToCredit(w, n)
  PROVE  \A n \in Nodes : Credited(n) \subseteq Credited(n)'
BY DEF Credited

LEMMA CreditedType ==
  ASSUME NEW n \in Nodes
  PROVE  /\ Dependencies[n] \subseteq Nodes /\ IsFiniteSet(Dependencies[n])
         /\ Cardinality(Dependencies[n]) \in Nat
         /\ Credited(n) \subseteq Dependencies[n] /\ Credited(n)' \subseteq Dependencies[n]
         /\ IsFiniteSet(Credited(n)) /\ IsFiniteSet(Credited(n)')
         /\ Cardinality(Credited(n)) \in Nat /\ Cardinality(Credited(n)') \in Nat
         /\ Cardinality(Credited(n)') <= Cardinality(Dependencies[n])
         /\ Cardinality(Credited(n)') = Cardinality(Dependencies[n])
              => Credited(n)' = Dependencies[n]
<1>1. Dependencies[n] \subseteq Nodes /\ IsFiniteSet(Dependencies[n])
      /\ Cardinality(Dependencies[n]) \in Nat
  BY TreeAssumption, NodesFinite
<1>2. Credited(n) \subseteq Dependencies[n] /\ Credited(n)' \subseteq Dependencies[n]
  BY DEF Credited
<1>3. IsFiniteSet(Credited(n)) /\ IsFiniteSet(Credited(n)')
      /\ Cardinality(Credited(n)) \in Nat /\ Cardinality(Credited(n)') \in Nat
  BY <1>1, <1>2, NodesFinite
<1>4. /\ Cardinality(Credited(n)') <= Cardinality(Dependencies[n])
      /\ Cardinality(Credited(n)') = Cardinality(Dependencies[n]) => Credited(n)' = Dependencies[n]
  BY <1>1, <1>2, <1>3, FS_Subset
<1> QED
  BY <1>1, <1>2, <1>3, <1>4

LEMMA DepKept ==
  ASSUME IInv, mNumDependenciesFinished' \in [Nodes -> Nat],
         \A n \in Nodes : Credited(n) \subseteq Credited(n)',
         \A n \in Nodes : mNumDependenciesFinished'[n] <= mNumDependenciesFinished[n],
         \A n \in Nodes : Released(n)' => Released(n) \/ Dependencies[n] = {}
  PROVE  DepInv'
<1> SUFFICES ASSUME NEW n \in Nodes
             PROVE  /\ mNumDependenciesFinished'[n] <= Cardinality(Credited(n)')
                    /\ Released(n)' => Credited(n)' = Dependencies[n]
  BY DEF DepInv
<1>1. /\ Cardinality(Credited(n)) <= Cardinality(Credited(n)')
      /\ mNumDependenciesFinished[n] <= Cardinality(Credited(n))
      /\ mNumDependenciesFinished[n] \in Nat /\ mNumDependenciesFinished'[n] \in Nat
      /\ Released(n) => Credited(n) = Dependencies[n]
  BY CreditedType, FS_Subset DEF IInv, DepInv
<1> QED
  BY <1>1, CreditedType

LEMMA DepInvStep ==
  ASSUME IInv, Next
  PROVE  DepInv'
<1>0. /\ mNumDependenciesFinished \in [Nodes -> Nat] /\ NoNode \notin Nodes
      /\ done \subseteq started /\ NodeInv /\ Main \in Threads /\ Workers \subseteq Threads
  BY TreeTypes, PoolFacts DEF IInv, DepInv, Threads
<1>1. CASE PoolOnly
  <2>1. UNCHANGED <<mNumDependenciesFinished, done>>
    BY <1>1, PoolOnlyKeeps DEF treeVars, treeData, nodeVars
  <2> QED
    BY <1>0, <1>1, <2>1, PoolOnlyKeeps, CreditKept, DepKept
<1>2. CASE ExecBegin
  <2>1. /\ \A n \in Nodes : ~Released(n)' /\ mNumDependenciesFinished[n] = 0
        /\ mNumDependenciesFinished' = mNumDependenciesFinished
    BY <1>2, BeginClean DEF ExecBegin
  <2> QED
    BY <1>0, <2>1, CreditedType DEF DepInv
<1>3. CASE MainSteps /\ ~ExecBegin
  <2>1. /\ UNCHANGED <<started, done>>
        /\ \/ mNumDependenciesFinished' = mNumDependenciesFinished
           \/ mNumDependenciesFinished' = [n \in Nodes |-> 0]
    BY <1>3, Zenon DEF MainSteps, MainStep, ConstructTree, ExecTimeout, ExecStart,
       ExecEnqueueRoot, ExecWait, ExecPause, ExecJoin, ExecReturn, nodeVars, treeData
  <2>2. wpc' = wpc /\ runArg' = runArg /\ npc' = npc /\ child' = child /\ pending' = pending
        /\ \A t \in Threads : eArg'[t] = eArg[t] \/ (ExecEnqueueRoot /\ t = Main)
    BY <1>3, MainEffects
  <2>3. \A n \in Nodes, w \in Workers : StillToCredit(w, n)' => StillToCredit(w, n)
    BY <2>2 DEF StillToCredit
  <2>4. ASSUME NEW n \in Nodes, Released(n)' PROVE Released(n) \/ Dependencies[n] = {}
    <3>1. CASE ExecEnqueueRoot
      <4>1. eArg' = [eArg EXCEPT ![Main] = Roots[root]] /\ Dependencies[Roots[root]] = {}
        BY <3>1, RootEnqueued
      <4>2. eArg'[Main] = Roots[root]
        BY <1>0, <4>1, PoolFacts
      <4> QED
        BY <2>1, <2>2, <2>4, <4>1, <4>2 DEF Released
    <3>2. CASE ~ExecEnqueueRoot
      BY <2>1, <2>2, <2>4, <3>2 DEF Released
    <3> QED
      BY <3>1, <3>2
  <2>5. mNumDependenciesFinished' \in [Nodes -> Nat]
        /\ \A n \in Nodes : mNumDependenciesFinished'[n] <= mNumDependenciesFinished[n]
    BY <1>0, <2>1
  <2> QED
    BY <2>1, <2>2, <2>3, <2>4, <2>5, CreditKept, DepKept
<1>4. ASSUME NEW w \in Workers, NodeInside(w) \/ NodeRelease(w) \/ NodeEnd(w) PROVE DepInv'
  <2>1. /\ wpc[w] = "routine" /\ runArg[w] \in Nodes /\ runArg[w] \in pending
        /\ eArg' = eArg /\ pending' \subseteq pending
        /\ \A v \in Workers : runArg[v] = runArg[w] => v = w
    <3>1. wpc[w] = "routine" /\ eArg' = eArg /\ pending' \subseteq pending
      BY <1>4, NodeInsideEffects, NodeLeaveEffects
    <3> QED
      BY <3>1, NodeOf
  <2>2. /\ done \subseteq done' /\ started' \subseteq started \cup {runArg[w]}
        /\ mNumDependenciesFinished' \in [Nodes -> Nat]
        /\ \A n \in Nodes : mNumDependenciesFinished'[n] <= mNumDependenciesFinished[n]
    <3>1. CASE NodeBegin(w)
      BY <1>0, <2>1, <3>1 DEF NodeBegin
    <3>2. CASE ~NodeBegin(w)
      <4>1. /\ mNumDependenciesFinished' = mNumDependenciesFinished /\ started' = started
            /\ done \subseteq done'
        BY <1>4, <3>2, NodeLeaveEffects DEF NodeInside, NodeSucceed, NodeFail, NodeFinish,
           NodeChildren, treeData
      <4> QED
        BY <1>0, <4>1
    <3> QED
      BY <3>1, <3>2
  <2>3. \A n \in Nodes : Released(n)' => Released(n)
    BY <2>1, <2>2 DEF Released
  <2>4. ASSUME NEW n \in Nodes, NEW v \in Workers, StillToCredit(v, n)', runArg'[v] \in done
        PROVE  runArg'[v] = runArg[v] /\ StillToCredit(v, n)
    <3>1. CASE v # w
      <4>1. wpc'[v] = wpc[v] /\ runArg'[v] = runArg[v] /\ npc'[v] = npc[v] /\ child'[v] = child[v]
        BY <1>4, <3>1, NodeInsideEffects, NodeLeaveEffects, PoolFacts, TreeTypes
      <4> QED
        BY <2>4, <4>1 DEF StillToCredit
    <3>2. CASE v = w /\ NodeInside(w)
      <4>1. wpc' = wpc /\ runArg' = runArg /\ child' = child
        BY <3>2, NodeInsideEffects
      <4>2. CASE NodeBegin(w) \/ NodeFail(w)
        BY <2>4, <3>2, <4>2, TreeTypes DEF NodeBegin, NodeFail, NodeGoTo, StillToCredit
      <4>3. CASE NodeSucceed(w)
        BY <1>0, <2>4, <3>2, <4>1, <4>3 DEF NodeSucceed, NodeInv, In
      <4>4. CASE NodeFinish(w) \/ NodeChildren(w)
        BY <3>2, <4>1, <4>4 DEF NodeFinish, NodeChildren, StillToCredit, In
      <4> QED
        BY <3>2, <4>2, <4>3, <4>4 DEF NodeInside
    <3>3. CASE v = w /\ (NodeRelease(w) \/ NodeEnd(w))
      BY <2>4, <3>3, NodeLeaveEffects, PoolFacts DEF StillToCredit, PP!WorkerStates
    <3> QED
      BY <1>4, <3>1, <3>2, <3>3
  <2> QED
    BY <2>2, <2>3, <2>4, CreditKept, DepKept
<1>5. ASSUME NEW w \in Workers, NodeChild(w) PROVE DepInv'
  <2>m. PICK m : m = runArg[w]
    OBVIOUS
  <2>d. PICK dep : dep = Children[runArg[w]][child[w]]
    OBVIOUS
  <2>1. /\ In(w, "child") /\ child[w] \in 1 .. Len(Children[m])
        /\ dep \in Nodes /\ m \in Dependencies[dep] /\ m \in done
        /\ m \notin Credited(dep) /\ ~Released(dep)
        /\ mNumDependenciesFinished' =
             [mNumDependenciesFinished EXCEPT ![dep] = mNumDependenciesFinished[dep] + 1]
        /\ child' = [child EXCEPT ![w] = child[w] + 1]
        /\ wpc' = wpc /\ runArg' = runArg /\ pending' = pending /\ npc' = npc
        /\ \/ eArg' = eArg
           \/ /\ mNumDependenciesFinished[dep] = Cardinality(Dependencies[dep]) - 1
              /\ eArg' = [eArg EXCEPT ![w] = dep]
        /\ started' = started /\ done' = done
    BY <1>5, <2>m, <2>d, NodeChildEffects
  <2>2. /\ m \in Nodes /\ \A v \in Workers : runArg[v] = m => v = w
        /\ Len(Children[m]) \in Nat
        /\ \A i, j \in 1 .. Len(Children[m]) : Children[m][i] = Children[m][j] => i = j
    BY <2>1, <2>m, NodeOf, ChildrenList DEF In
  <2>3. child'[w] = child[w] + 1 /\ \A v \in Workers : v # w => child'[v] = child[v]
    BY <2>1, TreeTypes
  <2>4. ASSUME NEW n \in Nodes, NEW v \in Workers, StillToCredit(v, n)'
        PROVE  StillToCredit(v, n)
    <3>1. CASE v # w
      BY <2>1, <2>3, <2>4, <3>1 DEF StillToCredit
    <3>2. CASE v = w
      <4>1. child'[w] .. Len(Children[m]) \subseteq child[w] .. Len(Children[m])
        BY <2>1, <2>2, <2>3
      <4> QED
        BY <2>1, <2>m, <2>4, <3>2, <4>1 DEF StillToCredit, In
    <3> QED
      BY <3>1, <3>2
  <2>5. \A n \in Nodes : Credited(n) \subseteq Credited(n)'
    BY <2>1, <2>4, CreditKept
  <2>6. m \in Credited(dep)'
    <3>1. ~StillToCredit(w, dep)'
      <4>1. \A i \in child'[w] .. Len(Children[m]) : Children[m][i] # dep
        BY <2>1, <2>2, <2>3, <2>m, <2>d
      <4> QED
        BY <2>1, <2>m, <4>1 DEF StillToCredit, In
    <3>2. \A v \in Workers : runArg'[v] = m => ~StillToCredit(v, dep)'
      BY <2>1, <2>2, <3>1
    <3> QED
      BY <2>1, <3>2 DEF Credited
  <2>7. Cardinality(Credited(dep)) + 1 <= Cardinality(Credited(dep)')
    <3>1. Cardinality(Credited(dep) \cup {m}) = Cardinality(Credited(dep)) + 1
      BY <2>1, CreditedType, FS_AddElement
    <3>2. Credited(dep) \cup {m} \subseteq Credited(dep)'
      BY <2>1, <2>5, <2>6
    <3>3. Cardinality(Credited(dep) \cup {m}) <= Cardinality(Credited(dep)')
      BY <2>1, <3>2, CreditedType, FS_Subset
    <3> QED
      BY <3>1, <3>3
  <2>8. \A n \in Nodes : /\ mNumDependenciesFinished[n] <= Cardinality(Credited(n))
                         /\ mNumDependenciesFinished[n] \in Nat
                         /\ Released(n) => Credited(n) = Dependencies[n]
    BY <1>0 DEF IInv, DepInv
  <2>9. mNumDependenciesFinished' \in [Nodes -> Nat]
        /\ mNumDependenciesFinished'[dep] = mNumDependenciesFinished[dep] + 1
        /\ \A n \in Nodes : n # dep => mNumDependenciesFinished'[n] = mNumDependenciesFinished[n]
    BY <1>0, <2>1
  <2>10. ASSUME NEW n \in Nodes
         PROVE  /\ mNumDependenciesFinished'[n] <= Cardinality(Credited(n)')
                /\ Released(n)' => Credited(n)' = Dependencies[n]
    <3>0. \A t \in Threads : eArg'[t] = eArg[t] \/ eArg'[t] = dep
      BY <2>1, PoolFacts
    <3>1. CASE n # dep
      <4>1. Released(n)' => Released(n)
        BY <2>1, <3>0, <3>1 DEF Released
      <4>2. Cardinality(Credited(n)) <= Cardinality(Credited(n)')
        BY <2>5, CreditedType, FS_Subset
      <4>3. mNumDependenciesFinished'[n] = mNumDependenciesFinished[n]
        BY <2>9, <3>1
      <4> QED
        BY <2>5, <2>8, <4>1, <4>2, <4>3, CreditedType
    <3>2. CASE n = dep
      <4>1. mNumDependenciesFinished'[dep] <= Cardinality(Credited(dep)')
        BY <2>1, <2>7, <2>8, <2>9, CreditedType
      <4>2. CASE eArg' = eArg
        <5>1. ~Released(dep)'
          BY <2>1, <4>2 DEF Released
        <5> QED
          BY <3>2, <4>1, <5>1
      <4>3. CASE mNumDependenciesFinished[dep] = Cardinality(Dependencies[dep]) - 1
        <5>1. Cardinality(Credited(dep)') = Cardinality(Dependencies[dep])
          BY <2>1, <2>9, <4>1, <4>3, CreditedType
        <5> QED
          BY <2>1, <3>2, <4>1, <5>1, CreditedType
      <4> QED
        BY <2>1, <4>2, <4>3
    <3> QED
      BY <3>1, <3>2
  <2> QED
    BY <2>9, <2>10 DEF DepInv
<1> QED
  BY <1>1, <1>2, <1>3, <1>4, <1>5, StepCases

LEMMA RootInvStep ==
  ASSUME IInv, Next
  PROVE  RootInv'
<1>0. /\ mpc \in {"start", "roots"} => \A i \in root .. Len(Roots) : ~Released(Roots[i])
      /\ root \in Nat \ {0} /\ Len(Roots) \in Nat
      /\ \A i \in 1 .. Len(Roots) : Roots[i] \in Nodes /\ Dependencies[Roots[i]] = {}
      /\ \A i, j \in 1 .. Len(Roots) : Roots[i] = Roots[j] => i = j
  BY RootsList, TreeTypes DEF IInv, RootInv
<1>r. root .. Len(Roots) \subseteq 1 .. Len(Roots)
  BY <1>0
<1>k. ASSUME \A n \in Nodes : Dependencies[n] = {} /\ Released(n)' => Released(n),
             root' = root, mpc' \in {"start", "roots"} => mpc \in {"start", "roots"}
      PROVE  RootInv'
  <2> SUFFICES ASSUME mpc' \in {"start", "roots"}, NEW i \in root .. Len(Roots)
               PROVE  ~Released(Roots[i])'
    BY <1>k DEF RootInv
  <2>1. Roots[i] \in Nodes /\ Dependencies[Roots[i]] = {} /\ ~Released(Roots[i])
    BY <1>0, <1>r, <1>k
  <2> QED
    BY <1>k, <2>1
<1>1. CASE PoolOnly
  <2>1. UNCHANGED <<root, mpc>>
    BY <1>1, PoolOnlyKeeps DEF treeVars, mainVars
  <2> QED
    BY <1>1, <1>k, <2>1, PoolOnlyKeeps
<1>2. CASE ExecBegin
  <2>1. root' = 1
    BY <1>2 DEF ExecBegin
  <2> QED
    BY <1>0, <1>2, <2>1, BeginClean DEF RootInv
<1>3. CASE ExecEnqueueRoot
  <2>1. /\ root \in 1 .. Len(Roots) /\ mpc = "roots" /\ root' = root + 1
        /\ eArg' = [eArg EXCEPT ![Main] = Roots[root]] /\ started' = started /\ pending' = pending
    BY <1>3, RootEnqueued, MainEffects DEF MainSteps, MainStep, nodeVars
  <2> SUFFICES ASSUME NEW i \in root + 1 .. Len(Roots) PROVE ~Released(Roots[i])'
    BY <2>1 DEF RootInv
  <2>2. i \in root .. Len(Roots) /\ i \in 1 .. Len(Roots) /\ i # root
    BY <1>0, <2>1
  <2>3. ~Released(Roots[i]) /\ Roots[i] # Roots[root]
    BY <1>0, <2>1, <2>2
  <2>4. \A t \in Threads : eArg'[t] = eArg[t] \/ eArg'[t] = Roots[root]
    BY <2>1, PoolFacts
  <2> QED
    BY <2>1, <2>3, <2>4 DEF Released
<1>4. CASE MainSteps /\ ~ExecBegin /\ ~ExecEnqueueRoot
  <2>1. pending' = pending /\ \A t \in Threads : eArg'[t] = eArg[t]
    BY <1>4, MainEffects
  <2>2. started' = started /\ root' = root
        /\ (mpc' \in {"start", "roots"} => mpc \in {"start", "roots"})
    BY <1>4 DEF MainSteps, MainStep, ConstructTree, ExecTimeout, ExecStart,
       ExecWait, ExecPause, ExecJoin, ExecReturn, nodeVars
  <2>3. \A n \in Nodes : Released(n)' => Released(n)
    BY <2>1, <2>2 DEF Released
  <2> QED
    BY <1>k, <2>2, <2>3
<1>5. ASSUME NEW w \in Workers, NodeInside(w) \/ NodeRelease(w) \/ NodeEnd(w) PROVE RootInv'
  <2>1. /\ wpc[w] = "routine" /\ runArg[w] \in pending /\ eArg' = eArg
        /\ pending' \subseteq pending /\ root' = root
        /\ (mpc' \in {"start", "roots"} => mpc \in {"start", "roots"})
    <3>1. /\ wpc[w] = "routine" /\ eArg' = eArg /\ pending' \subseteq pending /\ root' = root
          /\ (mpc' \in {"start", "roots"} => mpc \in {"start", "roots"})
      BY <1>5, NodeInsideEffects, NodeLeaveEffects
    <3> QED
      BY <3>1, NodeOf
  <2>2. started' \subseteq started \cup {runArg[w]}
    BY <1>5, NodeLeaveEffects DEF NodeInside, NodeBegin, NodeSucceed, NodeFail, NodeFinish,
       NodeChildren
  <2>3. \A n \in Nodes : Released(n)' => Released(n)
    BY <2>1, <2>2 DEF Released
  <2> QED
    BY <1>k, <2>1, <2>3
<1>6. ASSUME NEW w \in Workers, NodeChild(w) PROVE RootInv'
  <2>1. PICK dep : dep = Children[runArg[w]][child[w]]
    OBVIOUS
  <2>2. /\ dep \in Nodes /\ runArg[w] \in Dependencies[dep] /\ pending' = pending
        /\ eArg' = eArg \/ eArg' = [eArg EXCEPT ![w] = dep]
        /\ UNCHANGED <<root, mpc, started>>
    BY <1>6, <2>1, NodeChildEffects DEF mainVars
  <2>3. \A t \in Threads : eArg'[t] = eArg[t] \/ eArg'[t] = dep
    BY <2>2, PoolFacts
  <2>4. \A n \in Nodes : Dependencies[n] = {} /\ Released(n)' => Released(n)
    BY <2>2, <2>3 DEF Released
  <2> QED
    BY <1>k, <2>2, <2>4
<1> QED
  BY <1>1, <1>2, <1>3, <1>4, <1>5, <1>6, StepCases

------------------------------------------------------------------------------
LEMMA DoneFinite ==
  ASSUME IInv
  PROVE  /\ done \subseteq Nodes /\ Finishing \subseteq done
         /\ IsFiniteSet(done \ Finishing) /\ Cardinality(done \ Finishing) \in Nat
BY TreeTypes, NodesFinite DEF Finishing

LEMMA FinishInvStep ==
  ASSUME IInv, Next
  PROVE  FinishInv'
<1>0. /\ mNumNodesFinished = Cardinality(done \ Finishing) /\ NodeInv /\ done \subseteq started
      /\ done \subseteq Nodes
  BY TreeTypes DEF IInv, FinishInv
<1>1. CASE PoolOnly
  <2>1. UNCHANGED <<mNumNodesFinished, done, npc>>
    BY <1>1, PoolOnlyKeeps DEF treeVars, treeData, nodeVars
  <2>2. \A w \in Workers : In(w, "finish")' => In(w, "finish") /\ runArg'[w] = runArg[w]
    BY <1>1, <2>1, PoolOnlyKeeps DEF In
  <2>3. \A w \in Workers : In(w, "finish") => In(w, "finish")' /\ runArg'[w] = runArg[w]
    BY <1>1, <2>1, PoolOnlyKeeps DEF In
  <2>4. Finishing' = Finishing
    BY <2>1, <2>2, <2>3 DEF Finishing
  <2> QED
    BY <1>0, <2>1, <2>4 DEF FinishInv
<1>2. CASE ExecBegin
  <2>1. done' = {} /\ mNumNodesFinished' = 0
    BY <1>2 DEF ExecBegin
  <2>2. done' \ Finishing' = {}
    BY <2>1
  <2> QED
    BY <2>1, <2>2, FS_EmptySet DEF FinishInv
<1>3. CASE MainSteps /\ ~ExecBegin
  <2>1. UNCHANGED <<mNumNodesFinished, done>>
    BY <1>3, Zenon DEF MainSteps, MainStep, ConstructTree, ExecTimeout, ExecStart,
       ExecEnqueueRoot, ExecWait, ExecPause, ExecJoin, ExecReturn, nodeVars, treeData
  <2>2. Finishing' = Finishing
    BY <1>3, <2>1, MainEffects DEF Finishing, In
  <2> QED
    BY <1>0, <2>1, <2>2 DEF FinishInv
<1>4. ASSUME NEW w \in Workers, NodeInside(w) \/ NodeRelease(w) \/ NodeEnd(w) \/ NodeChild(w)
      PROVE  FinishInv'
  <2>0. PICK m : m = runArg[w]
    OBVIOUS
  <2>1. /\ wpc[w] = "routine" /\ m \in Nodes
        /\ \A v \in Workers : runArg[v] = m => v = w
    <3>1. wpc[w] = "routine"
      BY <1>4, NodeInsideEffects, NodeLeaveEffects, NodeChildEffects DEF In
    <3> QED
      BY <2>0, <3>1, NodeOf
  <2>2. \A v \in Workers : v # w => /\ In(v, "finish")' = In(v, "finish")
                                    /\ runArg'[v] = runArg[v]
    <3>1. \A v \in Workers : v # w => wpc'[v] = wpc[v] /\ npc'[v] = npc[v] /\ runArg'[v] = runArg[v]
      <4>1. CASE NodeInside(w)
        BY <4>1, NodeInsideEffects
      <4>2. CASE NodeRelease(w) \/ NodeEnd(w)
        BY <4>2, NodeLeaveEffects, PoolFacts, TreeTypes
      <4>3. CASE NodeChild(w)
        BY <4>3, NodeChildEffects
      <4> QED
        BY <1>4, <4>1, <4>2, <4>3
    <3> QED
      BY <3>1 DEF In
  <2>3. \A x \in done : x # m => (x \in Finishing' <=> x \in Finishing)
    <3>1. done \subseteq done'
      BY <1>4, NodeLeaveEffects, NodeChildEffects DEF NodeInside, NodeBegin, NodeSucceed,
         NodeFail, NodeFinish, NodeChildren
    <3>2. NodeInside(w) \/ NodeChild(w) => runArg' = runArg
      BY NodeInsideEffects, NodeChildEffects
    <3>3. NodeRelease(w) \/ NodeEnd(w) => runArg'[w] = NoNode
      BY NodeLeaveEffects, PoolFacts
    <3> SUFFICES ASSUME NEW x \in done, x # m PROVE x \in Finishing' <=> x \in Finishing
      OBVIOUS
    <3>4. \A v \in Workers : (In(v, "finish") /\ runArg[v] = x)
                               <=> (In(v, "finish")' /\ runArg'[v] = x)
      BY <1>0, <1>4, <2>0, <2>1, <2>2, <3>2, <3>3, PoolFacts
    <3> QED
      BY <3>1, <3>4 DEF Finishing
  <2>4. CASE NodeSucceed(w)
    <3>1. /\ npc[w] = "command" /\ done' = done \cup {m} /\ npc' = [npc EXCEPT ![w] = "finish"]
          /\ wpc' = wpc /\ runArg' = runArg /\ mNumNodesFinished' = mNumNodesFinished
      BY <2>0, <2>4, NodeInsideEffects DEF NodeSucceed, NodeGoTo, NodeInside, treeData, In
    <3>2. m \notin done
      BY <1>0, <2>0, <3>1 DEF NodeInv
    <3>3. m \in Finishing'
      BY <2>0, <2>1, <3>1, TreeTypes DEF Finishing, In
    <3>4. done' \ Finishing' = done \ Finishing
      BY <2>3, <3>1, <3>2, <3>3
    <3> QED
      BY <1>0, <3>1, <3>4 DEF FinishInv
  <2>5. CASE NodeFinish(w)
    <3>1. /\ npc[w] = "finish" /\ done' = done /\ npc'[w] # "finish"
          /\ runArg' = runArg /\ mNumNodesFinished' = mNumNodesFinished + 1
      BY <2>5, NodeInsideEffects, TreeTypes DEF NodeFinish, NodeGoTo, NodeInside, In
    <3>2. m \in done /\ m \in Finishing
      BY <1>0, <2>0, <2>1, <3>1 DEF NodeInv, Finishing, In
    <3>3. m \notin Finishing'
      BY <2>0, <2>1, <3>1 DEF Finishing, In
    <3>4. done' \ Finishing' = (done \ Finishing) \cup {m}
      BY <2>3, <3>1, <3>2, <3>3
    <3>5. Cardinality((done \ Finishing) \cup {m}) = Cardinality(done \ Finishing) + 1
      BY <3>2, DoneFinite, FS_AddElement
    <3> QED
      BY <1>0, <3>1, <3>4, <3>5 DEF FinishInv
  <2>6. CASE ~NodeSucceed(w) /\ ~NodeFinish(w)
    <3>1. done' = done /\ mNumNodesFinished' = mNumNodesFinished
      BY <1>4, <2>6, NodeLeaveEffects, NodeChildEffects DEF NodeInside, NodeBegin, NodeFail,
         NodeChildren, treeData
    <3>2. ~In(w, "finish") /\ ~In(w, "finish")'
      <4>1. CASE NodeInside(w)
        BY <2>6, <4>1, TreeTypes DEF NodeInside, NodeBegin, NodeFail, NodeChildren, NodeGoTo, In
      <4>2. CASE NodeRelease(w) \/ NodeEnd(w)
        BY <4>2, NodeLeaveEffects, TreeTypes DEF In
      <4>3. CASE NodeChild(w)
        BY <4>3, NodeChildEffects DEF In
      <4> QED
        BY <1>4, <4>1, <4>2, <4>3
    <3>3. m \notin Finishing /\ m \notin Finishing'
      <4>1. m \notin Finishing
        BY <2>1, <3>2 DEF Finishing
      <4>2. \A v \in Workers : In(v, "finish")' => runArg'[v] # m
        BY <2>0, <2>1, <2>2, <3>2
      <4> QED
        BY <4>1, <4>2 DEF Finishing
    <3>4. done' \ Finishing' = done \ Finishing
      BY <2>3, <3>1, <3>3
    <3> QED
      BY <1>0, <3>1, <3>4 DEF FinishInv
  <2> QED
    BY <2>4, <2>5, <2>6
<1> QED
  BY <1>1, <1>2, <1>3, <1>4, StepCases

(* The count of finished nodes is complete only when every node has finished.   *)
LEMMA AllFinished ==
  ASSUME IInv, mNumNodesFinished = Cardinality(Nodes)
  PROVE  done = Nodes /\ started = Nodes /\ \A w \in Workers : ~In(w, "finish")
<1>1. done \ Finishing \subseteq Nodes /\ Cardinality(done \ Finishing) = Cardinality(Nodes)
  BY DoneFinite DEF IInv, FinishInv
<1>2. done \ Finishing = Nodes
  BY <1>1, TreeAssumption, FS_Subset
<1>3. done = Nodes /\ started = Nodes /\ Finishing = {}
  BY <1>2, TreeTypes, DoneFinite
<1>4. \A w \in Workers : In(w, "finish") => runArg[w] \in Nodes
  BY NodeOf DEF In
<1> QED
  BY <1>3, <1>4 DEF Finishing

------------------------------------------------------------------------------
LEMMA TokenKept ==
  ASSUME IInv, mReturnValue' = mReturnValue, mNumNodesFinished' = mNumNodesFinished,
         mTreeSemaphore' = mTreeSemaphore, Woken' => Woken,
         \A w \in Workers : In(w, "release")' => In(w, "release")
  PROVE  TokenInv'
<1>1. TokenInv
  BY DEF IInv
<1> QED
  BY <1>1 DEF TokenInv

LEMMA TokenInvStep ==
  ASSUME IInv, Next
  PROVE  TokenInv'
<1>0. TokenInv /\ mTreeSemaphore \in 0 .. 1 /\ mReturnValue \in 0 .. 1
  BY TreeTypes DEF IInv
<1>1. CASE PoolOnly
  <2>1. UNCHANGED <<mReturnValue, mNumNodesFinished, mTreeSemaphore, mpc, npc>>
    BY <1>1, PoolOnlyKeeps DEF treeVars, treeData, mainVars, nodeVars
  <2>2. \A w \in Workers : In(w, "release")' => In(w, "release")
    BY <1>1, <2>1, PoolOnlyKeeps DEF In
  <2> QED
    BY <2>1, <2>2, TokenKept DEF Woken
<1>2. CASE ExecBegin
  <2>1. mTreeSemaphore' = 0 /\ mpc' = "start" /\ \A w \in Workers : ~In(w, "release")'
    BY <1>2, BeginClean DEF ExecBegin, poolVars, In
  <2> QED
    BY <2>1 DEF TokenInv, Woken
<1>3. CASE ExecWait
  <2>1. /\ mReturnValue' = mReturnValue /\ mNumNodesFinished' = mNumNodesFinished
        /\ \A w \in Workers : In(w, "release")' = In(w, "release")
    BY <1>3 DEF ExecWait, poolVars, treeData, nodeVars, In
  <2>2. CASE mTreeSemaphore = 1
    <3>1. mTreeSemaphore' = 0 /\ mpc' = "pause"
      BY <1>3, <2>2 DEF ExecWait
    <3> QED
      BY <1>0, <2>1, <2>2, <3>1 DEF TokenInv, Woken
  <2>3. CASE mTreeSemaphore = 0
    <3>1. mTreeSemaphore' = mTreeSemaphore /\ mpc' = "asleep"
      BY <1>3, <2>3 DEF ExecWait
    <3> QED
      BY <2>1, <3>1, TokenKept DEF Woken
  <2> QED
    BY <1>0, <2>2, <2>3
<1>4. CASE MainSteps /\ ~ExecBegin /\ ~ExecWait
  <2>1. UNCHANGED <<mReturnValue, mNumNodesFinished, mTreeSemaphore>> /\ (Woken' => Woken)
    BY <1>4 DEF MainSteps, MainStep, ConstructTree, ExecTimeout, ExecStart,
       ExecEnqueueRoot, ExecPause, ExecJoin, ExecReturn, treeData, Woken
  <2> QED
    BY <1>4, <2>1, MainEffects, TokenKept DEF In
<1>5. ASSUME NEW w \in Workers, NodeInside(w) PROVE TokenInv'
  <2>1. /\ wpc' = wpc /\ mTreeSemaphore' = mTreeSemaphore /\ mpc' = mpc /\ wpc[w] = "routine"
        /\ \A v \in Workers : v # w => npc'[v] = npc[v]
    BY <1>5, NodeInsideEffects
  <2>2. CASE NodeFail(w)
    BY <2>2 DEF NodeFail, TokenInv
  <2>3. CASE NodeFinish(w)
    <3>1. /\ In(w, "finish") /\ mNumNodesFinished' = mNumNodesFinished + 1
          /\ mReturnValue' = mReturnValue
          /\ npc'[w] = "release" => mNumNodesFinished = Cardinality(Nodes) - 1
      BY <2>3, TreeTypes DEF NodeFinish, NodeGoTo
    <3>2. mNumNodesFinished # Cardinality(Nodes)
      BY <3>1, AllFinished
    <3>3. mReturnValue = 0 => mTreeSemaphore = 0 /\ ~Woken /\ \A v \in Workers : ~In(v, "release")
      BY <1>0, <3>2 DEF TokenInv
    <3>4. \A v \in Workers : In(v, "release")' => In(v, "release") \/ v = w
      BY <2>1 DEF In
    <3>5. In(w, "release")' => mNumNodesFinished' = Cardinality(Nodes)
      BY <3>1, TreeTypes, NodesFinite DEF In
    <3> QED
      BY <2>1, <3>1, <3>3, <3>4, <3>5 DEF TokenInv, Woken
  <2>4. CASE ~NodeFail(w) /\ ~NodeFinish(w)
    <3>1. mReturnValue' = mReturnValue /\ mNumNodesFinished' = mNumNodesFinished
          /\ npc'[w] # "release"
      BY <1>5, <2>4, TreeTypes DEF NodeInside, NodeBegin, NodeSucceed, NodeChildren, NodeGoTo, treeData
    <3> QED
      BY <2>1, <3>1, TokenKept DEF In, Woken
  <2> QED
    BY <2>2, <2>3, <2>4
<1>6. ASSUME NEW w \in Workers, NodeRelease(w) PROVE TokenInv'
  <2>1. /\ mReturnValue' = mReturnValue /\ mNumNodesFinished' = mNumNodesFinished
        /\ wpc' = [wpc EXCEPT ![w] = "uncount"] /\ npc' = [npc EXCEPT ![w] = "begin"]
    BY <1>6, NodeLeaveEffects DEF treeData
  <2>2. \A v \in Workers : In(v, "release")' => In(v, "release") /\ v # w
    BY <2>1, PoolFacts, TreeTypes DEF In
  <2>3. In(w, "release")
    BY <1>6 DEF NodeRelease
  <2>4. ASSUME mReturnValue = 0
        PROVE  /\ mNumNodesFinished = Cardinality(Nodes) /\ mTreeSemaphore = 0 /\ ~Woken
               /\ \A v \in Workers : ~In(v, "release")'
    BY <1>0, <2>2, <2>3, <2>4 DEF TokenInv
  <2> QED
    BY <1>6, <2>1, <2>4, TreeRelease DEF TokenInv, Woken
<1>7. ASSUME NEW w \in Workers, NodeEnd(w) PROVE TokenInv'
  <2>1. /\ mReturnValue' = mReturnValue /\ mNumNodesFinished' = mNumNodesFinished
        /\ wpc' = [wpc EXCEPT ![w] = "uncount"] /\ npc' = [npc EXCEPT ![w] = "begin"]
    BY <1>7, NodeLeaveEffects DEF treeData
  <2>2. \A v \in Workers : In(v, "release")' => In(v, "release")
    BY <2>1, PoolFacts, TreeTypes DEF In
  <2>3. mTreeSemaphore' = mTreeSemaphore /\ mpc' = mpc
    BY <1>7 DEF NodeEnd, mainVars
  <2> QED
    BY <2>1, <2>2, <2>3, TokenKept DEF Woken
<1>8. ASSUME NEW w \in Workers, NodeChild(w) PROVE TokenInv'
  BY <1>8, NodeChildEffects, TokenKept DEF In, Woken, mainVars
<1> QED
  BY <1>1, <1>2, <1>3, <1>4, <1>5, <1>6, <1>7, <1>8, StepCases

(* When Main is awake and no command has failed, all of them are over, and no
   worker has one that it has not begun.                                       *)
LEMMA WokenDone ==
  ASSUME IInv, Woken, mReturnValue = 0
  PROVE  /\ done = Nodes /\ started = Nodes /\ mTreeSemaphore = 0 /\ mRunQueue = <<>>
         /\ \A n \in Nodes : mNumDependenciesFinished[n] = 0
         /\ \A w \in Workers : wpc[w] # "count"
<1>1. mNumNodesFinished = Cardinality(Nodes) /\ mTreeSemaphore = 0
  BY TreeTypes DEF IInv, TokenInv
<1>2. done = Nodes /\ started = Nodes
  BY <1>1, AllFinished
<1>3. \A n \in Nodes : mNumDependenciesFinished[n] = 0 /\ n \notin Elements(mRunQueue)
  BY <1>2 DEF IInv, StartedInv
<1>4. mRunQueue = <<>>
  <2>1. Elements(mRunQueue) = {} /\ mRunQueue \in Seq(Nodes)
    BY <1>3, PoolFacts
  <2>2. DOMAIN mRunQueue = 1 .. Len(mRunQueue) /\ Len(mRunQueue) \in Nat
    BY <2>1
  <2>3. 1 \notin DOMAIN mRunQueue
    BY <2>1 DEF Elements
  <2>4. Len(mRunQueue) = 0
    BY <2>2, <2>3
  <2> QED
    BY <2>1, <2>4
<1>5. \A w \in Workers : wpc[w] # "count"
  BY <1>2, PoolFacts DEF IInv, NodeInv
<1> QED
  BY <1>1, <1>2, <1>3, <1>4, <1>5

LEMMA JoinedInvStep ==
  ASSUME IInv, Next
  PROVE  JoinedInv'
<1>0. JoinedInv /\ MainInv
  BY DEF IInv
<1>1. CASE PoolOnly
  <2>1. UNCHANGED <<mpc, mReturnValue>>
    BY <1>1, PoolOnlyKeeps DEF treeVars, treeData, mainVars
  <2> SUFFICES ASSUME mpc = "joined", ctl' = "idle", ret' = "joined", mReturnValue = 0
               PROVE  \A w \in Workers : wpc'[w] # "routine"
    BY <2>1 DEF JoinedInv
  <2>2. CASE ctl = "idle"
    <3>1. ret = "joined"
      BY <1>1, <2>2, PoolOnlyCtl
    <3>2. \A w \in Workers : wpc[w] # "routine" /\ wpc[w] # "count"
      BY <1>0, <2>2, <3>1, WokenDone DEF JoinedInv, Woken
    <3> QED
      BY <1>1, <3>2, PoolOnlyWorkers DEF WorkerMove
  <2>3. CASE ctl \in {"joinRunning", "joinWait", "joinBlocked"}
    BY <1>1, <2>3, PoolOnlyCtl
  <2> QED
    BY <1>0, <2>2, <2>3 DEF MainInv
<1>2. CASE ExecJoin
  <2>1. ctl' = "joinRunning"
    BY <1>0, <1>2 DEF ExecJoin, Pool!JoinBegin, MainInv
  <2> QED
    BY <2>1 DEF JoinedInv
<1>3. CASE MainSteps /\ ~ExecJoin
  <2>1. mpc' # "joined"
    BY <1>3 DEF MainSteps, MainStep, ConstructTree, ExecBegin, ExecTimeout, ExecStart,
       ExecEnqueueRoot, ExecWait, ExecPause, ExecReturn
  <2> QED
    BY <2>1 DEF JoinedInv
<1>4. ASSUME NEW w \in Workers, NodeInside(w) PROVE JoinedInv'
  <2>1. wpc' = wpc /\ ctl' = ctl /\ ret' = ret /\ mpc' = mpc
    BY <1>4, NodeInsideEffects
  <2>2. mReturnValue' = 0 => mReturnValue = 0
    BY <1>4 DEF NodeInside, NodeBegin, NodeSucceed, NodeFail, NodeFinish, NodeChildren, treeData
  <2> QED
    BY <1>0, <2>1, <2>2 DEF JoinedInv
<1>5. ASSUME NEW w \in Workers, NodeRelease(w) \/ NodeEnd(w) PROVE JoinedInv'
  BY <1>0, <1>5, NodeLeaveEffects, PoolFacts DEF JoinedInv, treeData
<1>6. ASSUME NEW w \in Workers, NodeChild(w) PROVE JoinedInv'
  BY <1>0, <1>6, NodeChildEffects DEF JoinedInv, mainVars
<1> QED
  BY <1>1, <1>2, <1>3, <1>4, <1>5, <1>6, StepCases

LEMMA CleanInvStep ==
  ASSUME IInv, Next
  PROVE  CleanInv'
<1>0. CleanInv /\ MainInv /\ mReturnValue \in 0 .. 1
  BY TreeTypes DEF IInv
<1>1. CASE PoolOnly
  <2>1. UNCHANGED <<mTreeSemaphore, mNumDependenciesFinished, mCommandTreeState, result, done>>
    BY <1>1, PoolOnlyKeeps DEF treeVars, treeData, mainVars, nodeVars
  <2>2. ASSUME mCommandTreeState = "ReadyToExecute" PROVE Quiet'
    <3>1. Quiet /\ epc[Main] = "idle"
      BY <1>0, <2>2 DEF CleanInv, MainInv
    <3>2. \A w \in Workers : epc[w] = "idle"
      BY <3>1 DEF Quiet, IInv, NodeInv, In
    <3>3. mRunQueue' = <<>>
      BY <1>1, <3>1, <3>2, PoolOnlyQueue DEF Quiet, Threads
    <3>4. Elements(mRunQueue) = {}
      BY <3>1 DEF Quiet, Elements
    <3>5. \A w \in Workers : wpc'[w] \notin {"count", "routine"}
      BY <1>1, <3>1, <3>4, PoolOnlyWorkers DEF WorkerMove, Quiet
    <3> QED
      BY <3>3, <3>5 DEF Quiet
  <2> QED
    BY <1>0, <2>1, <2>2 DEF CleanInv
<1>2. CASE ExecReturn
  <2>1. /\ mpc = "joined" /\ ctl = "idle" /\ Woken
        /\ UNCHANGED <<mRunQueue, wpc, mTreeSemaphore, mNumDependenciesFinished, done>>
        /\ mCommandTreeState = "Executing"
    BY <1>0, <1>2 DEF ExecReturn, poolVars, treeData, nodeVars, Woken, MainInv
  <2>2. CASE ret = "joined" /\ mReturnValue = 0
    <3>1. mCommandTreeState' = "ReadyToExecute" /\ result' = "success"
      BY <1>2, <2>2 DEF ExecReturn
    <3>2. \A w \in Workers : wpc[w] # "routine"
      BY <2>1, <2>2 DEF IInv, JoinedInv
    <3> QED
      BY <2>1, <2>2, <3>1, <3>2, WokenDone DEF CleanInv, Quiet
  <2>3. CASE ~(ret = "joined" /\ mReturnValue = 0)
    <3>1. mCommandTreeState' # "ReadyToExecute" /\ result' # "success"
      BY <1>2, <2>1, <2>3 DEF ExecReturn
    <3> QED
      BY <3>1 DEF CleanInv
  <2> QED
    BY <2>2, <2>3
<1>3. CASE ConstructTree
  <2>1. /\ Quiet' /\ mTreeSemaphore' = 0 /\ mNumDependenciesFinished' = [n \in Nodes |-> 0]
        /\ result' = result /\ mCommandTreeState = "Initialized"
    BY <1>3 DEF ConstructTree, NothingLeft, Quiet, poolVars
  <2> QED
    BY <1>0, <2>1 DEF CleanInv
<1>4. CASE ExecBegin \/ ExecTimeout
  <2>1. mCommandTreeState' # "ReadyToExecute" /\ result' # "success"
    BY <1>0, <1>4 DEF ExecBegin, ExecTimeout, AllRootsEnqueued, MainInv
  <2> QED
    BY <2>1 DEF CleanInv
<1>5. CASE ExecStart \/ ExecEnqueueRoot \/ ExecWait \/ ExecPause \/ ExecJoin
  <2>1. /\ mpc # "idle" /\ result' = result /\ mCommandTreeState' = mCommandTreeState
    BY <1>5 DEF ExecStart, ExecEnqueueRoot, ExecWait, ExecPause, ExecJoin, AllRootsEnqueued
  <2> QED
    BY <1>0, <2>1 DEF CleanInv, MainInv
<1>6. ASSUME NEW w \in Workers, NodeInside(w) \/ NodeRelease(w) \/ NodeEnd(w) \/ NodeChild(w)
      PROVE  CleanInv'
  <2>1. wpc[w] = "routine" /\ mCommandTreeState' = mCommandTreeState /\ result' = result
    BY <1>6, NodeInsideEffects, NodeLeaveEffects, NodeChildEffects DEF In, mainVars
  <2>2. mCommandTreeState # "ReadyToExecute"
    BY <1>0, <2>1 DEF CleanInv, Quiet
  <2> QED
    BY <1>0, <2>1, <2>2 DEF CleanInv
<1> QED
  BY <1>1, <1>2, <1>3, <1>4, <1>5, <1>6, StepCases DEF MainSteps, MainStep

------------------------------------------------------------------------------
(* The types follow from what the other parts keep.                             *)
LEMMA SameTypes == Pool!TypeOK' <=> PP!TypeOK'
BY Zenon DEF Pool!TypeOK, PP!TypeOK, Pool!Workers, PP!Workers

LEMMA TypeStep ==
  ASSUME IInv, Next, PP!IInv', NodeInv', DepInv', FinishInv'
  PROVE  TypeOK'
<1>0. /\ mTreeSemaphore \in 0 .. 1 /\ mReturnValue \in 0 .. 1
      /\ mCommandTreeState \in {"ReadyToExecute", "Executing", "Initialized"}
      /\ mpc \in {"idle", "start", "roots", "asleep", "pause", "join", "joined"}
      /\ root \in 1 .. Len(Roots) + 1
      /\ result \in {"none", "success", "failure", "timed out"}
      /\ npc \in [Workers -> {"begin", "command", "finish", "release", "children", "child"}]
      /\ child \in [Workers -> 1 .. Cardinality(Nodes) + 1]
      /\ started \subseteq Nodes /\ done \subseteq started
  BY DEF IInv, TypeOK
<1>t. Pool!TypeOK'
  BY SameTypes DEF PP!IInv
<1>1. mTreeSemaphore' \in 0 .. 1
  <2>1. CASE PoolOnly
    BY <1>0, <2>1, PoolOnlyKeeps DEF treeVars
  <2>2. CASE ExecWait
    <3>1. mTreeSemaphore' = mTreeSemaphore \/ (mTreeSemaphore > 0 /\ mTreeSemaphore' = mTreeSemaphore - 1)
      BY <2>2, Zenon DEF ExecWait
    <3>2. mTreeSemaphore \in 0 .. 1
      BY <1>0
    <3> QED
      BY <3>1, <3>2
  <2>3. CASE MainSteps /\ ~ExecWait
    <3>1. mTreeSemaphore' = mTreeSemaphore
      BY <2>3, Zenon DEF MainSteps, MainStep, ConstructTree, ExecBegin, ExecTimeout, ExecStart,
         ExecEnqueueRoot, ExecPause, ExecJoin, ExecReturn
    <3> QED
      BY <1>0, <3>1
  <2>4. ASSUME NEW w \in Workers, NodeInside(w) \/ NodeRelease(w) \/ NodeEnd(w) \/ NodeChild(w)
        PROVE  mTreeSemaphore' \in 0 .. 1
    <3>1. CASE NodeInside(w)
      BY <1>0, <3>1, NodeInsideEffects
    <3>2. CASE NodeRelease(w)
      BY <3>2, TreeRelease
    <3>3. CASE NodeEnd(w)
      BY <1>0, <3>3 DEF NodeEnd
    <3>4. CASE NodeChild(w)
      BY <1>0, <3>4, NodeChildEffects
    <3> QED
      BY <2>4, <3>1, <3>2, <3>3, <3>4
  <2> QED
    BY <2>1, <2>2, <2>3, <2>4, StepCases
<1>2. /\ mReturnValue' \in 0 .. 1
      /\ mCommandTreeState' \in {"ReadyToExecute", "Executing", "Initialized"}
      /\ result' \in {"none", "success", "failure", "timed out"}
      /\ mpc' \in {"idle", "start", "roots", "asleep", "pause", "join", "joined"}
      /\ root' \in 1 .. Len(Roots) + 1
  <2>1. CASE PoolOnly
    BY <1>0, <2>1, PoolOnlyKeeps DEF treeVars, treeData, mainVars
  <2>2. CASE ExecEnqueueRoot
    <3>1. root \in 1 .. Len(Roots) /\ root' = root + 1 /\ Len(Roots) \in Nat
      BY <2>2, RootEnqueued, RootsList
    <3>2. root' \in 1 .. Len(Roots) + 1
      BY <3>1
    <3>3. UNCHANGED <<mReturnValue, mCommandTreeState, result>> /\ mpc' = "roots"
      BY <2>2, RootEnqueued DEF treeData
    <3> QED
      BY <1>0, <3>2, <3>3
  <2>3. CASE MainSteps /\ ~ExecEnqueueRoot
    <3>1. 1 \in 1 .. Len(Roots) + 1
      BY RootsList
    <3>2. root' = root \/ root' = 1
      BY <2>3, Zenon DEF MainSteps, MainStep, ConstructTree, ExecBegin, ExecTimeout, ExecStart,
         ExecWait, ExecPause, ExecJoin, ExecReturn
    <3>3. mReturnValue' = mReturnValue \/ mReturnValue' = 0
      BY <2>3, Zenon DEF MainSteps, MainStep, ConstructTree, ExecBegin, ExecTimeout, ExecStart,
         ExecWait, ExecPause, ExecJoin, ExecReturn, treeData
    <3>4. mCommandTreeState' \in {"ReadyToExecute", "Executing", "Initialized"}
      BY <1>0, <2>3 DEF MainSteps, MainStep, ConstructTree, ExecBegin, ExecTimeout, ExecStart,
         ExecWait, ExecPause, ExecJoin, ExecReturn
    <3>5. result' \in {"none", "success", "failure", "timed out"}
      BY <1>0, <2>3 DEF MainSteps, MainStep, ConstructTree, ExecBegin, ExecTimeout, ExecStart,
         ExecWait, ExecPause, ExecJoin, ExecReturn
    <3>6. mpc' \in {"idle", "start", "roots", "asleep", "pause", "join", "joined"}
      BY <1>0, <2>3 DEF MainSteps, MainStep, ConstructTree, ExecBegin, ExecTimeout, ExecStart,
         ExecWait, ExecPause, ExecJoin, ExecReturn
    <3>7. root \in 1 .. Len(Roots) + 1 /\ mReturnValue \in 0 .. 1
      BY <1>0
    <3>8. root' \in 1 .. Len(Roots) + 1 /\ mReturnValue' \in 0 .. 1
      BY <3>1, <3>2, <3>3, <3>7
    <3> QED
      BY <3>4, <3>5, <3>6, <3>8
  <2>4. ASSUME NEW w \in Workers, NodeInside(w)
        PROVE  mReturnValue' \in 0 .. 1 /\ UNCHANGED mainVars
    <3>1. mReturnValue' = mReturnValue \/ mReturnValue' = 1
      BY <2>4, Zenon DEF NodeInside, NodeBegin, NodeSucceed, NodeFail, NodeFinish,
         NodeChildren, treeData
    <3>2. UNCHANGED mainVars
      BY <2>4, NodeInsideEffects DEF mainVars
    <3>3. mReturnValue \in 0 .. 1
      BY <1>0
    <3> QED
      BY <3>1, <3>2, <3>3
  <2>5. ASSUME NEW w \in Workers, NodeRelease(w) \/ NodeEnd(w)
        PROVE  /\ UNCHANGED <<mReturnValue, mCommandTreeState, root, result>>
               /\ mpc' = mpc \/ mpc' = "pause"
    BY <2>5, NodeLeaveEffects DEF treeData
  <2>6. ASSUME NEW w \in Workers, NodeChild(w)
        PROVE  UNCHANGED <<mReturnValue, mainVars>>
    BY <2>6, NodeChildEffects
  <2> QED
    BY <1>0, <2>1, <2>2, <2>3, <2>4, <2>5, <2>6, StepCases DEF mainVars
<1>3. npc' \in [Workers -> {"begin", "command", "finish", "release", "children", "child"}]
  <2>1. CASE PoolOnly
    BY <1>0, <2>1, PoolOnlyKeeps DEF treeVars, nodeVars
  <2>2. CASE MainSteps
    BY <1>0, <2>2, MainEffects
  <2>3. ASSUME NEW w \in Workers, NodeInside(w) \/ NodeRelease(w) \/ NodeEnd(w) \/ NodeChild(w)
        PROVE  npc' \in [Workers -> {"begin", "command", "finish", "release", "children", "child"}]
    BY <1>0, <2>3, NodeInsideEffects, NodeLeaveEffects, NodeChildEffects
  <2> QED
    BY <2>1, <2>2, <2>3, StepCases
<1>4. child' \in [Workers -> 1 .. Cardinality(Nodes) + 1]
  <2>1. child' \in [Workers -> Nat \ {0}]
    <3>1. CASE PoolOnly
      BY TreeTypes, <3>1, PoolOnlyKeeps DEF treeVars, nodeVars
    <3>2. CASE MainSteps
      BY TreeTypes, <3>2, MainEffects
    <3>3. ASSUME NEW w \in Workers, NodeInside(w) PROVE child' \in [Workers -> Nat \ {0}]
      BY TreeTypes, <3>3, NodeInsideEffects
    <3>4. ASSUME NEW w \in Workers, NodeRelease(w) \/ NodeEnd(w) \/ NodeChild(w)
          PROVE  child' \in [Workers -> Nat \ {0}]
      BY TreeTypes, <3>4, NodeLeaveEffects, NodeChildEffects
    <3> QED
      BY <3>1, <3>2, <3>3, <3>4, StepCases
  <2>2. ASSUME NEW w \in Workers PROVE child'[w] \in 1 .. Cardinality(Nodes) + 1
    <3>1. CASE npc'[w] # "child"
      <4>1. child'[w] = 1
        BY <3>1 DEF NodeInv
      <4> QED
        BY <4>1, NodesFinite
    <3>2. CASE npc'[w] = "child"
      <4>1. child'[w] <= Len(Children[runArg'[w]]) + 1 /\ wpc'[w] = "routine"
        BY <3>2 DEF NodeInv
      <4>2. runArg'[w] \in Nodes
        <5>1. /\ runArg' \in [Workers -> Nodes \cup {NoNode}]
              /\ runArg'[w] # NoNode
          BY <4>1 DEF PP!IInv, PP!TypeOK, PP!JobInv, PP!Workers, Workers
        <5> QED
          BY <5>1
      <4>3. Len(Children[runArg'[w]]) \in 0 .. Cardinality(Nodes)
        BY <4>2, ChildrenList
      <4> QED
        BY <2>1, <4>1, <4>3, NodesFinite
    <3> QED
      BY <3>1, <3>2
  <2> QED
    BY <2>1, <2>2
<1>5. started' \subseteq Nodes /\ done' \subseteq started'
  <2>1. CASE PoolOnly
    BY <1>0, <2>1, PoolOnlyKeeps DEF treeVars, nodeVars
  <2>2. CASE MainSteps
    BY <1>0, <2>2 DEF MainSteps, MainStep, ConstructTree, ExecBegin, ExecTimeout, ExecStart,
       ExecEnqueueRoot, ExecWait, ExecPause, ExecJoin, ExecReturn, nodeVars
  <2>3. ASSUME NEW w \in Workers, NodeInside(w)
        PROVE  started' \subseteq Nodes /\ done' \subseteq started'
    <3>1. wpc[w] = "routine" /\ runArg[w] \in Nodes
      BY <2>3, NodeInsideEffects, NodeOf
    <3>2. npc[w] = "command" => runArg[w] \in started
      BY <3>1 DEF IInv, NodeInv
    <3> QED
      BY <1>0, <2>3, <3>1, <3>2 DEF NodeInside, NodeBegin, NodeSucceed, NodeFail, NodeFinish,
         NodeChildren, In
  <2>4. ASSUME NEW w \in Workers, NodeRelease(w) \/ NodeEnd(w) \/ NodeChild(w)
        PROVE  started' \subseteq Nodes /\ done' \subseteq started'
    BY <1>0, <2>4, NodeLeaveEffects, NodeChildEffects
  <2> QED
    BY <2>1, <2>2, <2>3, <2>4, StepCases
<1>6. mNumNodesFinished' \in 0 .. Cardinality(Nodes)
  <2>1. done' \ Finishing' \subseteq Nodes
    BY <1>5
  <2>2. Cardinality(done' \ Finishing') \in 0 .. Cardinality(Nodes)
    BY <2>1, NodesFinite
  <2> QED
    BY <2>2 DEF FinishInv
<1>7. \A n \in Nodes : mNumDependenciesFinished'[n] \in 0 .. Cardinality(Dependencies[n])
  BY CreditedType DEF DepInv
<1> QED
  BY <1>t, <1>1, <1>2, <1>3, <1>4, <1>5, <1>6, <1>7 DEF TypeOK

LEMMA InitIInv == Init => IInv
<1> SUFFICES ASSUME Init PROVE IInv
  OBVIOUS
<1>1. PP!IInv
  BY PP!InitIInv, PoolAssumptionHolds, SamePool DEF Init
<1>2. /\ mRunState = "Stopped" /\ mRunQueue = <<>> /\ wpc = [w \in Workers |-> "none"]
      /\ epc = [t \in Threads |-> "idle"] /\ eArg = [t \in Threads |-> NoNode]
      /\ ctl = "idle" /\ pending = {} /\ ret = "none"
  BY DEF Init, Pool!Init, Pool!Workers, Workers, Threads
<1>3. Main \in Threads /\ Workers \subseteq Threads /\ NoNode \notin Nodes
  BY TreeAssumption DEF Threads
<1>4. TypeOK
  <2>1. Pool!TypeOK
    BY <1>1, SamePool DEF PP!IInv
  <2>2. \A n \in Nodes : 0 \in 0 .. Cardinality(Dependencies[n])
    BY CreditedType
  <2>3. 1 \in 1 .. Len(Roots) + 1 /\ 1 \in 1 .. Cardinality(Nodes) + 1
        /\ 0 \in 0 .. Cardinality(Nodes)
    BY RootsList, NodesFinite
  <2> QED
    BY <2>1, <2>2, <2>3 DEF Init, TypeOK
<1>5. MainInv /\ NodeInv /\ StartedInv
  BY <1>2, <1>3 DEF Init, MainInv, NodeInv, StartedInv, In
<1>6. \A n \in Nodes : ~Released(n)
  BY <1>2, <1>3 DEF Init, Released
<1>7. DepInv
  BY <1>6, CreditedType DEF Init, DepInv
<1>8. RootInv /\ TokenInv /\ JoinedInv
  BY <1>2 DEF Init, RootInv, TokenInv, JoinedInv, Woken, In
<1>9. FinishInv
  <2>1. done \ Finishing = {}
    BY DEF Init
  <2> QED
    BY <2>1, FS_EmptySet DEF Init, FinishInv
<1>10. CleanInv
  BY <1>2 DEF Init, CleanInv, Quiet
<1> QED
  BY <1>1, <1>4, <1>5, <1>7, <1>8, <1>9, <1>10 DEF IInv

LEMMA Stutter ==
  ASSUME IInv, PP!IInv', UNCHANGED vars
  PROVE  (/\ TypeOK /\ MainInv /\ NodeInv /\ StartedInv /\ DepInv /\ RootInv
          /\ FinishInv /\ TokenInv /\ CleanInv /\ JoinedInv)'
<1>1. UNCHANGED <<mRunState, mSemaphore, mParentSemaphore, mRunQueue, mThreadsRunning, wpc,
                  runArg, epc, eArg, ctl, next, timed, ret, pending, restarted>>
      /\ UNCHANGED <<mTreeSemaphore, mReturnValue, mNumNodesFinished, mNumDependenciesFinished,
                     mCommandTreeState, mpc, root, result, npc, child, started, done>>
  BY Zenon DEF vars, poolVars, treeVars, treeData, mainVars, nodeVars
<1>2. TypeOK'
  <2>1. Pool!TypeOK'
    BY SameTypes DEF PP!IInv
  <2> QED
    BY <1>1, <2>1, Zenon DEF IInv, TypeOK
<1>3. (MainInv /\ NodeInv /\ StartedInv /\ RootInv /\ TokenInv /\ CleanInv /\ JoinedInv)'
  BY <1>1, Zenon DEF IInv, MainInv, NodeInv, StartedInv, RootInv, TokenInv, CleanInv, JoinedInv,
     In, Woken, Released, Quiet
<1>4. FinishInv'
  <2>1. Finishing' = Finishing
    BY <1>1 DEF Finishing, In
  <2> QED
    BY <1>1, <2>1 DEF IInv, FinishInv
<1>5. DepInv'
  <2>1. \A n \in Nodes : Credited(n) \subseteq Credited(n)'
    BY <1>1, CreditKept DEF StillToCredit
  <2>2. \A n \in Nodes : Released(n)' => Released(n)
    BY <1>1 DEF Released
  <2>3. mNumDependenciesFinished \in [Nodes -> Nat]
    BY DEF IInv, DepInv
  <2> QED
    BY <1>1, <2>1, <2>2, <2>3, DepKept
<1> QED
  BY <1>2, <1>3, <1>4, <1>5

LEMMA IInvStep == IInv /\ [Next]_vars => IInv'
<1> SUFFICES ASSUME IInv, [Next]_vars PROVE IInv'
  OBVIOUS
<1>1. PP!IInv'
  BY PoolInvStep
<1>2. CASE Next
  <2>1. NodeInv' /\ DepInv' /\ FinishInv'
    BY <1>2, NodeInvStep, DepInvStep, FinishInvStep
  <2>2. TypeOK'
    BY <1>1, <1>2, <2>1, TypeStep
  <2> QED
    BY <1>1, <1>2, <2>1, <2>2, MainInvStep, StartedInvStep, RootInvStep, TokenInvStep,
       CleanInvStep, JoinedInvStep DEF IInv
<1>3. CASE UNCHANGED vars
  BY <1>1, <1>3, Stutter DEF IInv
<1> QED
  BY <1>2, <1>3

------------------------------------------------------------------------------
(* The inductive invariant holds in every execution of the tree.                *)
THEOREM InductiveInvariant == Spec => []IInv
<1>1. Init => IInv
  BY InitIInv
<1>2. IInv /\ [Next]_vars => IInv'
  BY IInvStep
<1> QED
  BY <1>1, <1>2, PTL DEF Spec

(* The tree's counters stay within their ranges, and the pool's with them.      *)
THEOREM TypeCorrect == Spec => []TypeOK
<1>1. IInv => TypeOK
  BY DEF IInv
<1> QED
  BY <1>1, InductiveInvariant, PTL

(* The tree makes only the calls the pool's specification allows for: what is
   proved of the pool alone holds of the pool inside the tree.                  *)
THEOREM TreeUsesPool == Spec => Pool!Init /\ [][Pool!Next]_(Pool!vars)
<1>1. Init => Pool!Init
  BY DEF Init
<1>2. IInv /\ [Next]_vars => [Pool!Next]_(Pool!vars)
  BY PoolStep
<1> QED
  BY <1>1, <1>2, InductiveInvariant, PTL DEF Spec

(* A command runs only after all the commands it depends on have ended without
   error, in this execution and not in an earlier one (command_tree.cpp:228,
   252-259).                                                                  *)
THEOREM DependencyOrderHolds == Spec => []DependencyOrder
<1>1. IInv => DependencyOrder
  <2> SUFFICES ASSUME IInv, NEW w \in Workers, In(w, "command")
               PROVE  Dependencies[runArg[w]] \subseteq done
    BY DEF DependencyOrder
  <2>1. runArg[w] \in Nodes /\ runArg[w] \in started
    BY NodeOf DEF In, IInv, NodeInv
  <2>2. Credited(runArg[w]) = Dependencies[runArg[w]]
    BY <2>1 DEF IInv, DepInv, Released
  <2> QED
    BY <2>2 DEF Credited
<1> QED
  BY <1>1, InductiveInvariant, PTL

(* No command is run twice in an execution, by one worker or by two.            *)
THEOREM OncePerExecutionHolds == Spec => []OncePerExecution
<1>1. IInv => OncePerExecution
  BY PoolFacts DEF IInv, StartedInv, OncePerExecution
<1> QED
  BY <1>1, InductiveInvariant, PTL

(* When ExecuteCommands returns 0 all the commands have ended without error and
   the pool is at rest (command_tree.h:49).                                    *)
THEOREM SuccessMeansAllDoneHolds == Spec => []SuccessMeansAllDone
<1>1. IInv => SuccessMeansAllDone
  BY DEF IInv, CleanInv, Quiet, SuccessMeansAllDone
<1> QED
  BY <1>1, InductiveInvariant, PTL

==============================================================================
