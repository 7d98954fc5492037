----------------------------- MODULE CommandTree -----------------------------
(***************************************************************************)
(* ycommon/containers/command_tree.{h,cpp}: commands with dependencies, run  *)
(* by the workers of a ThreadPool.  One thread, Main, calls ExecuteCommands, *)
(* which enqueues the commands that depend on none and sleeps; the worker    *)
(* that completes a command's last dependency enqueues it, and the one that  *)
(* completes the last command, or fails, wakes Main.                         *)
(*                                                                           *)
(* Pool is the thread pool, with the commands as its jobs; a worker whose    *)
(* pool program counter is "routine" is in CommandTreeThread, at npc.  Main  *)
(* and the workers call EnqueueRun, and Main the rest of the pool.           *)
(***************************************************************************)
EXTENDS Integers, Sequences, FiniteSets

CONSTANTS
  NumThreads,
  Nodes,
  Dependencies,   (* the nodes each node depends on                          *)
  Children,       (* the sequence of nodes that depend on each node          *)
  Roots,          (* the sequence of nodes that depend on none               *)
  Failing,        (* the nodes whose command may return non-zero             *)
  Main, NoNode,
  SerialEnqueue   (* assumption: no two threads are inside Enqueue at once   *)

Elements(s) == {s[i] : i \in DOMAIN s}

\* What ConstructTree builds.  It does not check that there is a node and that
\* the dependencies have no cycle, without which ExecuteCommands never returns.
ASSUME TreeAssumption ==
  /\ NumThreads \in Nat \ {0} /\ NoNode \notin Nodes /\ SerialEnqueue \in BOOLEAN
  /\ IsFiniteSet(Nodes) /\ Nodes # {} /\ Failing \subseteq Nodes
  /\ Main \notin 1 .. NumThreads
  /\ Dependencies \in [Nodes -> SUBSET Nodes]
  /\ \A S \in (SUBSET Nodes) \ {{}} : \E n \in S : Dependencies[n] \cap S = {}
  /\ Children \in [Nodes -> Seq(Nodes)] /\ Roots \in Seq(Nodes)
  /\ \A n \in Nodes :
       LET dependents == {m \in Nodes : n \in Dependencies[m]} IN
       /\ Elements(Children[n]) = dependents
       /\ Len(Children[n]) = Cardinality(dependents)
  /\ LET independent == {n \in Nodes : Dependencies[n] = {}} IN
       Elements(Roots) = independent /\ Len(Roots) = Cardinality(independent)

VARIABLES
  mRunState, mSemaphore, mParentSemaphore, mRunQueue, mThreadsRunning,
  wpc, runArg, epc, eArg, ctl, next, timed, ret, pending, restarted,
  mTreeSemaphore,           (* CommandTree::mSemaphore                       *)
  mCommandTreeState,
  mReturnValue,             (* 1 stands for every error code                 *)
  mNumNodesFinished,
  mNumDependenciesFinished, (* of each node                                  *)
  mpc,                      (* program counter of Main                       *)
  root,                     (* its loop counter                              *)
  result,                   (* how ExecuteCommands ended                     *)
  npc, child,               (* each worker's program counter in              *)
                            (* CommandTreeThread and loop counter            *)
  started, done             (* ghosts: the commands begun, and those ended   *)
                            (* without error, in this execution              *)

poolVars ==
  <<mRunState, mSemaphore, mParentSemaphore, mRunQueue, mThreadsRunning, wpc,
    runArg, epc, eArg, ctl, next, timed, ret, pending, restarted>>
treeData == <<mReturnValue, mNumNodesFinished, mNumDependenciesFinished>>
mainVars == <<mCommandTreeState, mpc, root, result>>
nodeVars == <<npc, child, started, done>>
treeVars == <<mTreeSemaphore, treeData, mainVars, nodeVars>>

Workers == 1 .. NumThreads

Pool == INSTANCE ThreadPool WITH
  Tasks <- Nodes, NoTask <- NoNode, QueueSize <- Cardinality(Nodes),
  Callers <- Workers \cup {Main}

vars == <<poolVars, treeVars>>

Init ==
  /\ Pool!Init
  /\ mTreeSemaphore = 0
  /\ mCommandTreeState = "ReadyToExecute"
  /\ mReturnValue = 0 /\ mNumNodesFinished = 0
  /\ mNumDependenciesFinished = [n \in Nodes |-> 0]
  /\ mpc = "idle" /\ root = 1 /\ result = "none"
  /\ npc = [w \in Workers |-> "begin"] /\ child = [w \in Workers |-> 1]
  /\ started = {} /\ done = {}

------------------------------------------------------------------------------
(* ExecuteCommands                                                           *)

\* PrepareStart; a caller may not execute a tree that is not ready.
ExecBegin ==
  /\ mpc = "idle" /\ mCommandTreeState = "ReadyToExecute"
  /\ mReturnValue' = 0 /\ mNumNodesFinished' = 0
  /\ mCommandTreeState' = "Executing"
  /\ mpc' = "start" /\ root' = 1 /\ result' = "none"
  /\ started' = {} /\ done' = {}
  /\ UNCHANGED <<poolVars, mTreeSemaphore, mNumDependenciesFinished, npc, child>>

ExecStart ==
  /\ mpc = "start"
  /\ Pool!StartBegin
  /\ mpc' = "roots"
  /\ UNCHANGED <<mTreeSemaphore, treeData, mCommandTreeState, root, result, nodeVars>>

ExecEnqueueRoot ==
  /\ mpc = "roots" /\ ctl = "idle" /\ root <= Len(Roots)
  /\ Pool!EnqueueBegin(Main, Roots[root])
  /\ root' = root + 1
  /\ UNCHANGED <<mTreeSemaphore, treeData, mCommandTreeState, mpc, result, nodeVars>>

AllRootsEnqueued ==
  mpc = "roots" /\ epc[Main] = "idle" /\ ctl = "idle" /\ root > Len(Roots)

\* mSemaphore.Wait
ExecWait ==
  /\ AllRootsEnqueued
  /\ IF mTreeSemaphore > 0
       THEN mTreeSemaphore' = mTreeSemaphore - 1 /\ mpc' = "pause"
       ELSE UNCHANGED mTreeSemaphore /\ mpc' = "asleep"
  /\ UNCHANGED <<poolVars, treeData, mCommandTreeState, root, result, nodeVars>>

ExecPause ==
  /\ mpc = "pause"
  /\ Pool!PauseCall
  /\ mpc' = "join"
  /\ UNCHANGED <<mTreeSemaphore, treeData, mCommandTreeState, root, result, nodeVars>>

\* Mutant: the pool is not joined.
ExecDoNotJoin ==
  /\ mpc = "join"
  /\ ret' = "joined"
  /\ mpc' = "joined"
  /\ UNCHANGED <<mRunState, mSemaphore, mParentSemaphore, mRunQueue,
                 mThreadsRunning, wpc, runArg, epc, eArg, ctl, next, timed,
                 pending, restarted>>
  /\ UNCHANGED <<mTreeSemaphore, treeData, mCommandTreeState, root, result, nodeVars>>

ExecJoin ==
  /\ mpc = "join"
  /\ \E t \in BOOLEAN : Pool!JoinBegin(t)
  /\ mpc' = "joined"
  /\ UNCHANGED <<mTreeSemaphore, treeData, mCommandTreeState, root, result, nodeVars>>

\* Join returned: true, or false because the time is over.
ExecReturn ==
  /\ mpc = "joined" /\ ctl = "idle"
  /\ IF ret = "joined"
       THEN /\ mCommandTreeState' =
                 IF mReturnValue = 0 THEN "ReadyToExecute" ELSE "Initialized"
            /\ result' = IF mReturnValue = 0 THEN "success" ELSE "failure"
       ELSE /\ result' = "timed out"
            /\ UNCHANGED mCommandTreeState
  /\ mpc' = "idle"
  /\ UNCHANGED <<poolVars, mTreeSemaphore, treeData, root, nodeVars>>

\* The time is over, as noticed before, in or after the wait; the pool is left as
\* it is and the tree cannot be executed again.
ExecTimeout ==
  /\ AllRootsEnqueued \/ mpc \in {"asleep", "pause"}
  /\ result' = "timed out"
  /\ mpc' = "idle"
  /\ UNCHANGED <<poolVars, mTreeSemaphore, treeData, mCommandTreeState, root, nodeVars>>

\* The failed execution left no command queued or begun and no wake-up pending.
NothingLeft ==
  /\ mRunQueue = <<>> /\ mTreeSemaphore = 0
  /\ \A w \in Workers : wpc[w] \notin {"count", "routine"}

\* ConstructTree after a failure, with the same nodes.  The program does not ask
\* for NothingLeft, nor offer a way to bring it about: an assumption.
ConstructTree ==
  /\ mpc = "idle" /\ mCommandTreeState = "Initialized"
  /\ NothingLeft
  /\ mNumDependenciesFinished' = [n \in Nodes |-> 0]
  /\ mCommandTreeState' = "ReadyToExecute"
  /\ UNCHANGED <<poolVars, mTreeSemaphore, mReturnValue, mNumNodesFinished,
                 mpc, root, result, nodeVars>>

------------------------------------------------------------------------------
(* CommandTreeThread, in worker w                                            *)

In(w, at) == wpc[w] = "routine" /\ npc[w] = at

NodeGoTo(w, to) == npc' = [npc EXCEPT ![w] = to]

\* The routine returns to the pool.
NodeReturn(w) ==
  /\ Pool!WorkerRoutine(w)
  /\ NodeGoTo(w, "begin")
  /\ child' = [child EXCEPT ![w] = 1]

\* Mutant: the count of finished dependencies is not reset.
NodeKeepCount(w) ==
  /\ In(w, "begin")
  /\ started' = started \cup {runArg[w]}
  /\ NodeGoTo(w, "command")
  /\ UNCHANGED <<poolVars, mTreeSemaphore, treeData, mainVars, child, done>>

\* The count is reset for the next execution, and the command starts.
NodeBegin(w) ==
  /\ In(w, "begin")
  /\ mNumDependenciesFinished' = [mNumDependenciesFinished EXCEPT ![runArg[w]] = 0]
  /\ started' = started \cup {runArg[w]}
  /\ NodeGoTo(w, "command")
  /\ UNCHANGED <<poolVars, mTreeSemaphore, mReturnValue, mNumNodesFinished,
                 mainVars, child, done>>

NodeSucceed(w) ==
  /\ In(w, "command")
  /\ done' = done \cup {runArg[w]}
  /\ NodeGoTo(w, "finish")
  /\ UNCHANGED <<poolVars, mTreeSemaphore, treeData, mainVars, child, started>>

NodeFail(w) ==
  /\ In(w, "command") /\ runArg[w] \in Failing
  /\ mReturnValue' = 1
  /\ NodeGoTo(w, "release")
  /\ UNCHANGED <<poolVars, mTreeSemaphore, mNumNodesFinished,
                 mNumDependenciesFinished, mainVars, child, started, done>>

\* Mutant: off by one, the increment is taken to return the new value.
NodeFinishLate(w) ==
  /\ In(w, "finish")
  /\ mNumNodesFinished' = mNumNodesFinished + 1
  /\ NodeGoTo(w, IF mNumNodesFinished = Cardinality(Nodes) THEN "release"
                                                           ELSE "children")
  /\ UNCHANGED <<poolVars, mTreeSemaphore, mReturnValue,
                 mNumDependenciesFinished, mainVars, child, started, done>>

\* The atomic increment: the last node to finish wakes Main.
NodeFinish(w) ==
  /\ In(w, "finish")
  /\ mNumNodesFinished' = mNumNodesFinished + 1
  /\ NodeGoTo(w, IF mNumNodesFinished = Cardinality(Nodes) - 1
                   THEN "release" ELSE "children")
  /\ UNCHANGED <<poolVars, mTreeSemaphore, mReturnValue,
                 mNumDependenciesFinished, mainVars, child, started, done>>

\* mSemaphore.Release()
NodeRelease(w) ==
  /\ In(w, "release")
  /\ \E r \in Pool!Release(mTreeSemaphore, 1,
                           IF mpc = "asleep" THEN {Main} ELSE {}, 1) :
       /\ mTreeSemaphore' = r.count
       /\ mpc' = IF r.woken = {} THEN mpc ELSE "pause"
  /\ NodeReturn(w)
  /\ UNCHANGED <<treeData, mCommandTreeState, root, result, started, done>>

\* The loop over the children is over, or not begun because some command failed.
NodeEnd(w) ==
  /\ \/ In(w, "children") /\ (mReturnValue # 0 \/ Children[runArg[w]] = <<>>)
     \/ In(w, "child") /\ epc[w] = "idle" /\ child[w] > Len(Children[runArg[w]])
  /\ NodeReturn(w)
  /\ UNCHANGED <<mTreeSemaphore, treeData, mainVars, started, done>>

NodeChildren(w) ==
  /\ In(w, "children") /\ mReturnValue = 0 /\ Children[runArg[w]] # <<>>
  /\ NodeGoTo(w, "child")
  /\ UNCHANGED <<poolVars, mTreeSemaphore, treeData, mainVars, child, started, done>>

\* Mutant: a child is enqueued by everybody who completes a dependency.
NodeChildEach(w) ==
  /\ In(w, "child") /\ epc[w] = "idle" /\ child[w] <= Len(Children[runArg[w]])
  /\ LET dep == Children[runArg[w]][child[w]] IN
       /\ mNumDependenciesFinished' = [mNumDependenciesFinished EXCEPT ![dep] = @ + 1]
       /\ Pool!EnqueueBegin(w, dep)
  /\ child' = [child EXCEPT ![w] = @ + 1]
  /\ UNCHANGED <<mTreeSemaphore, mReturnValue, mNumNodesFinished, mainVars,
                 npc, started, done>>

\* Mutant: a child is enqueued by whoever completes its first dependency.
NodeChildFirst(w) ==
  /\ In(w, "child") /\ epc[w] = "idle" /\ child[w] <= Len(Children[runArg[w]])
  /\ LET dep == Children[runArg[w]][child[w]] IN
       /\ mNumDependenciesFinished' = [mNumDependenciesFinished EXCEPT ![dep] = @ + 1]
       /\ IF mNumDependenciesFinished[dep] = 0
            THEN Pool!EnqueueBegin(w, dep)
            ELSE UNCHANGED poolVars
  /\ child' = [child EXCEPT ![w] = @ + 1]
  /\ UNCHANGED <<mTreeSemaphore, mReturnValue, mNumNodesFinished, mainVars,
                 npc, started, done>>

\* The atomic increment of the next child's count, and EnqueueRun if this was
\* its last dependency.
NodeChild(w) ==
  /\ In(w, "child") /\ epc[w] = "idle" /\ child[w] <= Len(Children[runArg[w]])
  /\ LET dep == Children[runArg[w]][child[w]] IN
       /\ mNumDependenciesFinished' = [mNumDependenciesFinished EXCEPT ![dep] = @ + 1]
       /\ IF mNumDependenciesFinished[dep] = Cardinality(Dependencies[dep]) - 1
            THEN Pool!EnqueueBegin(w, dep)
            ELSE UNCHANGED poolVars
  /\ child' = [child EXCEPT ![w] = @ + 1]
  /\ UNCHANGED <<mTreeSemaphore, mReturnValue, mNumNodesFinished, mainVars,
                 npc, started, done>>

------------------------------------------------------------------------------
NodeStep(w) ==
  \/ NodeBegin(w) \/ NodeSucceed(w) \/ NodeFail(w) \/ NodeFinish(w)
  \/ NodeRelease(w) \/ NodeEnd(w) \/ NodeChildren(w) \/ NodeChild(w)

\* The pool's own steps.
WorkerStep(w) == Pool!WorkerPoolStep(w) /\ UNCHANGED treeVars
CallerStep(t) == Pool!CallerStep(t) /\ UNCHANGED treeVars
CtlStep == Pool!CtlStep /\ UNCHANGED treeVars
JoinTimeout == Pool!JoinTimeout /\ UNCHANGED treeVars

MainStep ==
  ExecStart \/ ExecEnqueueRoot \/ ExecWait \/ ExecPause \/ ExecJoin \/ ExecReturn

Next ==
  \/ ConstructTree \/ ExecBegin \/ MainStep \/ ExecTimeout
  \/ \E w \in Workers : NodeStep(w) \/ WorkerStep(w)
  \/ \E t \in Workers \cup {Main} : CallerStep(t)
  \/ CtlStep \/ JoinTimeout

\* A thread that can run keeps running and every command returns; nobody is
\* obliged to construct or execute the tree, and a timeout is never certain.
Fairness ==
  /\ \A w \in Workers : WF_vars(NodeStep(w)) /\ WF_vars(WorkerStep(w))
  /\ \A t \in Workers \cup {Main} : WF_vars(CallerStep(t))
  /\ WF_vars(CtlStep) /\ WF_vars(MainStep)

Spec == Init /\ [][Next]_vars
FairSpec == Spec /\ Fairness

------------------------------------------------------------------------------
TypeOK ==
  /\ Pool!TypeOK
  /\ mTreeSemaphore \in 0 .. 1
  /\ mCommandTreeState \in {"ReadyToExecute", "Executing", "Initialized"}
  /\ mReturnValue \in 0 .. 1 /\ mNumNodesFinished \in 0 .. Cardinality(Nodes)
  /\ \A n \in Nodes :
       mNumDependenciesFinished[n] \in 0 .. Cardinality(Dependencies[n])
  /\ mpc \in {"idle", "start", "roots", "asleep", "pause", "join", "joined"}
  /\ root \in 1 .. Len(Roots) + 1
  /\ result \in {"none", "success", "failure", "timed out"}
  /\ npc \in [Workers -> {"begin", "command", "finish", "release", "children",
                          "child"}]
  /\ child \in [Workers -> 1 .. Cardinality(Nodes) + 1]
  /\ started \subseteq Nodes /\ done \subseteq started

(* A command runs after all it depends on, though these end on several workers
   at once (command_tree.cpp:252-259), and in every execution of the tree: the
   counts left by one are clean for the next (228).                          *)
DependencyOrder ==
  \A w \in Workers : In(w, "command") => Dependencies[runArg[w]] \subseteq done

(* Nothing runs a command twice in one execution: once started it is not in the
   queue again and one worker at most has it.                                 *)
OncePerExecution ==
  /\ \A n \in started : n \notin Elements(mRunQueue)
  /\ \A w, v \in Workers : w # v /\ runArg[w] = runArg[v] => runArg[w] = NoNode

(* When ExecuteCommands returns 0 every command of the tree has run without
   error, and no worker is still in a routine or on its way into one
   (command_tree.h:49), whatever stage the workers were at when Main paused the
   pool.                                                                     *)
SuccessMeansAllDone ==
  mpc = "idle" /\ result = "success" =>
    /\ done = Nodes
    /\ mRunQueue = <<>>
    /\ \A w \in Workers : wpc[w] \notin {"count", "routine"}

(* ExecuteCommands returns, without the help of a timeout, however often the
   tree has been executed before: its wake-up is not lost, the pool starts again
   after the pause, and Join returns.                                         *)
ExecuteReturns == mpc # "idle" ~> mpc = "idle"

(* The contract of the queue the pool enqueues to (atomic_queue.h:8): only one
   thread can Enqueue at a time.  The program does not keep to it: a worker that
   completes a node enqueues its children (command_tree.cpp:256) while Main
   enqueues the roots (176) or another worker other children.                 *)
OneProducer ==
  \A s, t \in Workers \cup {Main} : epc[s] = "put" /\ epc[t] = "put" => s = t

==============================================================================
