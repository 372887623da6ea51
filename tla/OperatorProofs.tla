--------------------------- MODULE OperatorProofs ---------------------------
(***************************************************************************)
(* Proofs about the run while people steer it: a run that is over stays    *)
(* over, and no two ticks ever hold the same task, for every plan, every   *)
(* number of ticks and requests, and every set of routes and events; and,  *)
(* as long as the server does not crash, no result is undone and nothing   *)
(* runs before what it depends on.                                         *)
(***************************************************************************)
EXTENDS TaskRoutes, OperatorInvariant, WorkersProofs

-----------------------------------------------------------------------------
(***************************************************************************)
(* A run that is over.  The table has no row that starts there, and every  *)
(* route and every recovery that writes runs.state without the table looks *)
(* at what it was in the same statement.                                   *)
(***************************************************************************)
RunOver == runState \in {"COMPLETED", "CANCELLED"}

LEMMA OverCannotMove ==
    ASSUME RunOver, NEW target, MoveOrConflict(target)
    PROVE  runState' = runState
BY DEF RunOver, MoveOrConflict, TryRunMove, CanRunMove, LegalRunTransitions

LEMMA WorkersLeaveOver == ASSUME RunOver, Next PROVE runState' = runState
<1> USE DEF dbVars
<1>1. ASSUME NEW r \in RTick, RouteStep(r) PROVE runState' = runState
  BY <1>1, OverCannotMove
  DEF RouteStep, RouteFire, RouteQueue, RouteDispatch, RouteExecute, RouteTimeOut,
      DispatchOrConflict, DispatchTasks
<1>2. ASSUME NEW w \in Tick, TickStep(w) PROVE runState' = runState
  <2>1. CASE AwaitApproval(w) \/ Declare(w)
    BY <2>1, OverCannotMove DEF AwaitApproval, Declare
  <2>2. CASE Dispatch(w)
    BY <2>2 DEF Dispatch, DispatchOrConflict, DispatchTasks
  <2>3. CASE \/ Fire(w) \/ Claim(w) \/ ClaimCommitFails(w) \/ Begin(w) \/ Requeue(w)
             \/ CallSucceeds(w) \/ CallFails(w) \/ NoProvider(w) \/ CallNeedsApproval(w)
             \/ Complete(w) \/ CompleteRejected(w) \/ Check(w)
             \/ Fail(w) \/ Retry(w) \/ FailRejected(w)
    BY <2>3
    DEF Fire, Claim, ClaimCommitFails, Begin, Requeue, CallSucceeds, CallFails, NoProvider,
        CallNeedsApproval, Complete, CompleteRejected, Check, Fail, Retry, FailRejected
  <2> QED
    BY <1>2, <2>1, <2>2, <2>3 DEF TickStep
<1>3. ASSUME Cancel PROVE runState' = runState
  BY <1>3 DEF Cancel, RunOver
<1>4. ASSUME NEW i \in Instance, Restart(i) PROVE runState' = runState
  BY <1>4 DEF Restart, RecoverOrphans
<1> QED
  BY <1>1, <1>2, <1>3, <1>4 DEF Next

LEMMA OperatorsLeaveOver == ASSUME RunOver, OperatorNext PROVE runState' = runState
<1>1. CASE WorkersStep
  BY <1>1, WorkersLeaveOver DEF WorkersStep
<1>2. ASSUME NEW a \in DOMAIN approvals, Approve(a) \/ Reject(a) PROVE runState' = runState
  BY <1>2 DEF Approve, Reject, RunResumed, RunOver
<1>3. ASSUME Resume PROVE runState' = runState
  BY <1>3 DEF Resume, RunOver
<1>4. ASSUME NEW q \in Request,
             DispatchFound(q) \/ DispatchRun(q) \/ DispatchQueue(q) \/ DispatchReady(q)
      PROVE  runState' = runState
  BY <1>4, OverCannotMove
  DEF MoveOrConflict, DispatchFound, DispatchRun, DispatchQueue, DispatchReady, DispatchOrConflict,
      DispatchTasks, vars, dbVars
<1> QED
  BY <1>1, <1>2, <1>3, <1>4 DEF OperatorNext, OperatorStep

LEMMA RoutesLeaveOver ==
    ASSUME RunOver, NEW x \in TaskRequest, TaskRequestStep(x)
    PROVE  runState' = runState
<1>1. CASE AskExecute(x) \/ AskComplete(x) \/ AskFail(x) \/ AskRetry(x)
           \/ RunTask(x) \/ CheckRun(x) \/ ReadToFail(x) \/ AskApproval(x)
  BY <1>1
  DEF AskExecute, AskComplete, AskFail, AskRetry, Asks, RunTask, CheckRun, ReadToFail,
      AskApproval, allVars, vars, dbVars
<1>2. CASE LeaveWaiting(x) \/ DeclareRun(x)
  BY <1>2, OverCannotMove DEF LeaveWaiting, DeclareRun, MoveOrConflict
<1>3. CASE StartTask(x) \/ CompleteTask(x) \/ FailTask(x) \/ RequeueTask(x) \/ RetryTask(x)
  BY <1>3 DEF StartTask, CompleteTask, FailTask, RequeueTask, RetryTask
<1>4. CASE RetryRun(x)
  BY <1>4 DEF RetryRun, RunOver
<1> QED
  BY <1>1, <1>2, <1>3, <1>4 DEF TaskRequestStep

\* A COMPLETED or CANCELLED run stays so, with the workers and with everything the
\* operators and the task routes may do.
THEOREM OverStaysOver == OperatorSpec => RunTerminal
<1>1. [OperatorNext]_allVars =>
        [RunOver => runState' = runState]_allVars
  BY OperatorsLeaveOver
<1> QED
  BY <1>1, PTL DEF OperatorSpec, RunTerminal, RunOver

THEOREM OverStaysOverInRoutes == TaskRoutesSpec => RunTerminal
<1>1. [TaskRoutesNext]_routesVars =>
        [RunOver => runState' = runState]_allVars
  BY OperatorsLeaveOver, RoutesLeaveOver DEF TaskRoutesNext, OthersStep, routesVars
<1> QED
  BY <1>1, PTL DEF TaskRoutesSpec, RunTerminal, RunOver

-----------------------------------------------------------------------------
(***************************************************************************)
(* Who holds which task.  No request writes processingTasks.               *)
(***************************************************************************)
LEMMA ClaimsStep ==
    ASSUME SingleInstance, ClaimsInv, [OperatorNext]_allVars
    PROVE  ClaimsInv'
<1>1. ASSUME OperatorStep PROVE UNCHANGED tickVars
  BY <1>1
  DEF OperatorStep, Approve, Reject, Resume, DispatchFound, DispatchRun, DispatchQueue,
      DispatchReady, vars
<1> QED
  BY <1>1, ClaimsStay, WorkersKeepClaims DEF OperatorNext, WorkersStep, allVars

LEMMA RoutesKeepClaims ==
    ASSUME NEW x \in TaskRequest, TaskRequestStep(x)
    PROVE  UNCHANGED tickVars
BY DEF TaskRequestStep, AskExecute, AskComplete, AskFail, AskRetry, Asks, RunTask, CheckRun,
       ReadToFail, AskApproval, LeaveWaiting, DeclareRun, StartTask, CompleteTask, FailTask,
       RequeueTask, RetryTask, RetryRun, allVars, vars

\* Two ticks of a server never hold the same task, whatever operators do: a task that is
\* re-queued under the tick that holds it is not claimed by another one.
THEOREM ExclusiveWhileSteered == ASSUME SingleInstance PROVE OperatorSpec => []Exclusive
<1>1. OperatorInit => ClaimsInv
  BY ClaimsInitial DEF OperatorInit
<1>2. ClaimsInv /\ [OperatorNext]_allVars => ClaimsInv'
  BY ClaimsStep
<1>3. ClaimsInv => Exclusive
  BY DEF ClaimsInv
<1> QED
  BY <1>1, <1>2, <1>3, PTL DEF OperatorSpec

\* Nor do the routes that move a task by its id make two ticks hold it.
THEOREM ExclusiveWithRoutes == ASSUME SingleInstance PROVE TaskRoutesSpec => []Exclusive
<1>1. TaskRoutesInit => ClaimsInv
  BY ClaimsInitial DEF TaskRoutesInit, OperatorInit
<1>2. ClaimsInv /\ [TaskRoutesNext]_routesVars => ClaimsInv'
  BY ClaimsStep, ClaimsStay, RoutesKeepClaims DEF TaskRoutesNext, OthersStep, routesVars
<1>3. ClaimsInv => Exclusive
  BY DEF ClaimsInv
<1> QED
  BY <1>1, <1>2, <1>3, PTL DEF TaskRoutesSpec

-----------------------------------------------------------------------------
(***************************************************************************)
(* The limit of dispatchTasks.  A dispatch by request keeps it, and what   *)
(* else requests do starts no task but one that is dispatched.             *)
(***************************************************************************)
LEMMA OperatorsBounded ==
    ASSUME TasksTyped, ActiveBound, [OperatorNext]_allVars
    PROVE  TasksTyped' /\ ActiveBound'
<1>1. CASE Resume \/ \E a \in DOMAIN approvals : Approve(a) \/ Reject(a)
  <2>1. TasksTyped' /\ ActiveTasks' \subseteq ActiveTasks
    BY <1>1 DEF Resume, ResumedTasks, Approve, Reject, ActiveTasks, TasksTyped, TaskStates
  <2> QED
    BY <2>1, FewerBounded
<1>2. ASSUME NEW q \in Request,
             DispatchFound(q) \/ DispatchRun(q) \/ DispatchQueue(q) \/ DispatchReady(q)
      PROVE  TasksTyped' /\ ActiveBound'
  BY <1>2, StillBounded, QueueingBounded, DispatchBounded
  DEF DispatchFound, DispatchRun, DispatchQueue, DispatchReady, vars, dbVars
<1>3. CASE [Next]_vars
  BY <1>3, WorkersBounded
<1> QED
  BY <1>1, <1>2, <1>3 DEF OperatorNext, OperatorStep, WorkersStep, allVars

LEMMA RoutesBounded ==
    ASSUME TasksTyped, ActiveBound, NEW x \in TaskRequest, TaskRequestStep(x)
    PROVE  TasksTyped' /\ ActiveBound'
<1>1. CASE \/ AskExecute(x) \/ AskComplete(x) \/ AskFail(x) \/ AskRetry(x) \/ RunTask(x)
           \/ CheckRun(x) \/ ReadToFail(x) \/ AskApproval(x) \/ LeaveWaiting(x)
           \/ DeclareRun(x) \/ RetryRun(x)
  BY <1>1, StillBounded
  DEF AskExecute, AskComplete, AskFail, AskRetry, Asks, RunTask, CheckRun, ReadToFail,
      AskApproval, LeaveWaiting, DeclareRun, RetryRun, allVars, vars, dbVars
<1>2. CASE StartTask(x)
  <2>1. TasksTyped' /\ ActiveTasks' \subseteq ActiveTasks
    BY <1>2
    DEF StartTask, CanTaskMove, TransitionTask, LegalTaskTransitions, ActiveTasks,
        TasksTyped, TaskStates
  <2> QED
    BY <2>1, FewerBounded
<1>3. CASE CompleteTask(x) \/ FailTask(x) \/ RequeueTask(x) \/ RetryTask(x)
  <2>1. \/ taskState' = taskState
        \/ \E state \in {"QUEUED", "SUCCEEDED", "FAILED"} :
               taskState' = [taskState EXCEPT ![tqTask[x]] = state]
    BY <1>3 DEF CompleteTask, FailTask, RequeueTask, RetryTask, TransitionTask
  <2> QED
    BY <2>1, StillBounded, MoveBounded DEF TaskStates
<1> QED
  BY <1>1, <1>2, <1>3 DEF TaskRequestStep

\* No more than maxConcurrent tasks are ever dispatched or running, although operators
\* dispatch next to the workers, put tasks back into the queue and reject results: with any
\* number of servers, and whatever crashes.
THEOREM BoundedWhileSteered == OperatorSpec => []ActiveBound
<1>1. (TasksTyped /\ ActiveBound) /\ [OperatorNext]_allVars => (TasksTyped /\ ActiveBound)'
  BY OperatorsBounded
<1>2. OperatorInit => TasksTyped /\ ActiveBound
  BY BoundedInitially DEF OperatorInit
<1> QED
  BY <1>1, <1>2, PTL DEF OperatorSpec

\* Nor when tasks are executed, completed, failed and retried by request.
THEOREM BoundedWithRoutes == TaskRoutesSpec => []ActiveBound
<1>1. (TasksTyped /\ ActiveBound) /\ [TaskRoutesNext]_routesVars => (TasksTyped /\ ActiveBound)'
  BY OperatorsBounded, RoutesBounded DEF TaskRoutesNext, OthersStep, routesVars
<1>2. TaskRoutesInit => TasksTyped /\ ActiveBound
  BY BoundedInitially DEF TaskRoutesInit, OperatorInit
<1> QED
  BY <1>1, <1>2, PTL DEF TaskRoutesSpec

-----------------------------------------------------------------------------
(***************************************************************************)
(* What a step of a tick does with the tasks that are held after it.       *)
(***************************************************************************)
\* The moves of queueReadyTasks, dispatchTasks and resume.
Queued(t) ==
    \/ taskState'[t] = taskState[t]
    \/ taskState[t] \in {"PENDING", "QUEUED", "FAILED"} /\ taskState'[t] \in {"QUEUED", "DISPATCHED"}

LEMMA QueueingQueues ==
    ASSUME OperatorTypeOK, NEW t \in Task
    PROVE  /\ taskState' = AfterQueueing => Queued(t)
           /\ \A chosen : DispatchOrConflict(chosen) => Queued(t)
BY DEF OperatorTypeOK, AfterQueueing, QueueableTasks, DispatchOrConflict, DispatchTasks,
       ReadyTasks, Queued, dbVars

\* A task that was held before and with which nobody did anything.
LeftAlone(v, t) ==
    /\ t \in batch[v]
    /\ HeldAt(v, t)' = HeldAt(v, t)
    /\ Queued(t)

Started(v, t) ==
    /\ taskState[t] = "DISPATCHED" /\ taskState'[t] = "RUNNING"
    /\ HeldAt(v, t)' = "next"

\* The task in hand of a step that goes on with it.
WorkedOn(v, t) ==
    /\ t \in batch[v]
    /\ \/ /\ HeldAt(v, t) = "next" /\ HeldAt(v, t)' \in {"call", "requeue"}
          /\ taskState'[t] = taskState[t]
       \/ /\ HeldAt(v, t) = "call" /\ HeldAt(v, t)' \in {"complete", "fail", "await_approval"}
          /\ taskState'[t] = taskState[t]
       \/ /\ HeldAt(v, t) = "complete" /\ HeldAt(v, t)' = "check"
          /\ taskState'[t] = "SUCCEEDED"
       \/ /\ HeldAt(v, t) = "complete" /\ HeldAt(v, t)' = "fail"
          /\ taskState'[t] = taskState[t]
       \/ /\ HeldAt(v, t) = "check" /\ HeldAt(v, t)' = "declare" /\ Queued(t)
       \/ /\ HeldAt(v, t) = "fail" /\ HeldAt(v, t)' = "cooldown"
          /\ taskState'[t] = "FAILED"
       \/ /\ HeldAt(v, t) \in {"fail", "cooldown"} /\ HeldAt(v, t)' = "fail"
          /\ taskState'[t] = taskState[t]

\* A task held by a tick after another's step was not in that one's hand.
OthersQueued(w) == \A t \in Task \ {cur[w]} : Queued(t)

LEMMA NotInHand ==
    ASSUME SingleInstance, ClaimsInv, NEW w \in Tick, pc[w] \in TaskSteps, OthersAlone(w),
           OthersQueued(w), NEW v \in Tick, NEW t \in batch'[v],
           batch'[w] \subseteq batch[w], t # cur[w], cur'[w] \in {NoTask, cur[w]},
           v = w => cur'[w] = cur[w] \/ pc'[w] \in {"idle", "next"}
    PROVE  LeftAlone(v, t)
<1>1. t \in batch[v] /\ t \in Task
  BY DEF OthersAlone, ClaimsInv, ClaimsTypeOK
<1>2. Queued(t)
  BY <1>1 DEF OthersQueued
<1>3. HeldAt(v, t)' = HeldAt(v, t)
  BY <1>1, NoTaskAssumption DEF OthersAlone, HeldAt
<1> QED
  BY <1>1, <1>2, <1>3 DEF LeftAlone

LEMMA HandFree ==
    ASSUME SingleInstance, ClaimsInv, NEW w \in Tick, pc[w] \in TaskSteps,
           Finish(w) \/ Abort(w), OthersQueued(w)
    PROVE  \A v \in Tick : \A t \in batch'[v] : LeftAlone(v, t)
<1> SUFFICES ASSUME NEW v \in Tick, NEW t \in batch'[v] PROVE LeftAlone(v, t)
  OBVIOUS
<1>1. /\ OthersAlone(w) /\ batch'[w] \subseteq batch[w] \ {cur[w]}
      /\ pc'[w] \in {"idle", "next"} /\ cur'[w] = NoTask
  BY LetGo
<1>2. cur[w] \in batch[w]
  BY InHand
<1>3. t # cur[w]
  BY <1>1, <1>2 DEF OthersAlone, ClaimsInv, Exclusive
<1> QED
  BY <1>1, <1>3, NotInHand

LEMMA HandKept ==
    ASSUME SingleInstance, ClaimsInv, NEW w \in Tick, pc[w] \in TaskSteps,
           NEW step \in TaskSteps, NEW a, GoTo(w, step, a), OthersQueued(w)
    PROVE  \A v \in Tick : \A t \in batch'[v] :
               \/ LeftAlone(v, t)
               \/ /\ v = w /\ t = cur[w] /\ t \in batch[v]
                  /\ HeldAt(v, t) = pc[w] /\ HeldAt(v, t)' = step
<1> SUFFICES ASSUME NEW v \in Tick, NEW t \in batch'[v]
             PROVE  \/ LeftAlone(v, t)
                    \/ /\ v = w /\ t = cur[w] /\ t \in batch[v]
                       /\ HeldAt(v, t) = pc[w] /\ HeldAt(v, t)' = step
  OBVIOUS
<1>1. OthersAlone(w) /\ batch'[w] = batch[w] /\ cur'[w] = cur[w] /\ pc'[w] = step
  BY GoOn
<1>2. cur[w] \in batch[w]
  BY InHand
<1>3. CASE t # cur[w]
  BY <1>1, <1>3, NotInHand
<1>4. CASE t = cur[w]
  <2>1. v = w
    BY <1>1, <1>2, <1>4 DEF OthersAlone, ClaimsInv, Exclusive
  <2> QED
    BY <1>1, <1>2, <1>4, <2>1 DEF HeldAt
<1> QED
  BY <1>3, <1>4

LEMMA TransitionQueues ==
    ASSUME OperatorTypeOK, NEW w \in Tick, NEW target, TransitionTask(cur[w], target)
    PROVE  OthersQueued(w)
BY DEF OperatorTypeOK, TransitionTask, OthersQueued, Queued

LEMMA TickHolds ==
    ASSUME SingleInstance, OperatorTypeOK, ClaimsInv, NEW w \in Tick, TickStep(w)
    PROVE  \A v \in Tick : \A t \in batch'[v] :
               LeftAlone(v, t) \/ (v = w /\ (Started(v, t) \/ WorkedOn(v, t)))
<1> SUFFICES ASSUME NEW v \in Tick, NEW t \in batch'[v]
             PROVE  LeftAlone(v, t) \/ (v = w /\ (Started(v, t) \/ WorkedOn(v, t)))
  OBVIOUS
<1>a. (UNCHANGED taskState => OthersQueued(w)) /\ (taskState' = AfterQueueing => OthersQueued(w))
  BY QueueingQueues DEF OthersQueued, Queued
<1>1. CASE Fire(w) \/ Dispatch(w) \/ ClaimCommitFails(w) \/ Begin(w)
  <2>1. t \in batch[v] /\ OthersAlone(w) /\ t \in Task
    BY <1>1, PassKeeps DEF ClaimsInv, ClaimsTypeOK
  <2>2. Queued(t)
    BY <1>1, <2>1, QueueingQueues DEF Fire, Dispatch, ClaimCommitFails, Begin, dbVars, Queued
  <2>3. CASE v # w
    BY <2>1, <2>2, <2>3 DEF LeftAlone, HeldAt, OthersAlone
  <2>4. CASE v = w /\ ~ Begin(w)
    BY <1>1, <2>1, <2>4
    DEF Fire, Dispatch, ClaimCommitFails, ClaimsInv, Owned
  <2>5. CASE v = w /\ Begin(w)
    <3>1. /\ HeldAt(w, t) = "next"
          /\ pc'[w] \in {"call", "requeue"}
          /\ taskState'[t] = taskState[t]
      BY <2>5 DEF Begin, HeldAt, ClaimsInv, ClaimsTypeOK, dbVars
    <3> QED
      BY <2>1, <2>2, <2>5, <3>1 DEF LeftAlone, WorkedOn, HeldAt
  <2> QED
    BY <2>3, <2>4, <2>5
<1>2. CASE Claim(w)
  <2>1. /\ ClaimsInv' /\ OthersAlone(w)
        /\ pc'[w] \in {"idle", "next"} /\ cur'[w] = cur[w]
        /\ \A u \in batch'[w] : taskState[u] = "DISPATCHED" /\ taskState'[u] = "RUNNING"
        /\ \A u \in Task \ batch'[w] : taskState'[u] = taskState[u]
        /\ \A u \in Tick : u # w => batch'[u] \cap batch'[w] = {}
    BY <1>2, ClaimTakes
  <2>2. CASE v = w
    <3>1. pc'[w] = "next"
      BY <2>1, <2>2 DEF ClaimsInv, Owned
    <3> QED
      BY <2>1, <2>2, <3>1 DEF Started, HeldAt
  <2>3. CASE v # w
    <3>1. t \in Task
      BY <2>1 DEF ClaimsInv, ClaimsTypeOK
    <3>2. t \notin batch'[w]
      BY <2>1, <2>3
    <3> QED
      BY <2>1, <2>3, <3>1, <3>2 DEF LeftAlone, HeldAt, OthersAlone, Queued
  <2> QED
    BY <2>2, <2>3
<1>3. CASE CallSucceeds(w) \/ CallFails(w) \/ NoProvider(w) \/ CallNeedsApproval(w)
  <2>1. PICK step \in {"complete", "fail", "await_approval"} : \E a : GoTo(w, step, a)
    BY <1>3 DEF CallSucceeds, CallFails, NoProvider, CallNeedsApproval
  <2>2. pc[w] = "call" /\ UNCHANGED taskState
    BY <1>3 DEF CallSucceeds, CallFails, NoProvider, CallNeedsApproval, dbVars
  <2>3. step \in TaskSteps /\ pc[w] \in TaskSteps
    BY <2>2 DEF TaskSteps
  <2> QED
    BY <1>a, <2>1, <2>2, <2>3, HandKept DEF WorkedOn
<1>4. CASE Complete(w)
  <2>1. OthersQueued(w) /\ pc[w] = "complete" /\ GoTo(w, "check", "none")
    BY <1>4, TransitionQueues DEF Complete
  <2>2. "check" \in TaskSteps /\ pc[w] \in TaskSteps
    BY <2>1 DEF TaskSteps
  <2>3. cur[w] \in Task
    BY <2>2, InHand
  <2>4. taskState'[cur[w]] = "SUCCEEDED"
    BY <1>4, <2>3 DEF Complete, TransitionTask, OperatorTypeOK
  <2> QED
    BY <2>1, <2>2, <2>4, HandKept DEF WorkedOn
<1>5. CASE CompleteRejected(w)
  <2>1. OthersQueued(w) /\ pc[w] = "complete" /\ GoTo(w, "fail", "INTERNAL_ERROR")
    BY <1>5, <1>a DEF CompleteRejected, dbVars
  <2>2. "fail" \in TaskSteps /\ pc[w] \in TaskSteps /\ UNCHANGED taskState
    BY <1>5, <2>1 DEF TaskSteps, CompleteRejected, dbVars
  <2> QED
    BY <2>1, <2>2, HandKept DEF WorkedOn
<1>6. CASE Check(w)
  <2>1. OthersQueued(w) /\ pc[w] = "check" /\ taskState' = AfterQueueing
    BY <1>6, <1>a DEF Check
  <2>2. "declare" \in TaskSteps /\ pc[w] \in TaskSteps
    BY <2>1 DEF TaskSteps
  <2>3. Finish(w) \/ \E a : GoTo(w, "declare", a)
    BY <1>6 DEF Check
  <2>4. CASE Finish(w)
    BY <2>1, <2>2, <2>4, HandFree
  <2>5. ASSUME NEW a, GoTo(w, "declare", a)
        PROVE  LeftAlone(v, t) \/ (v = w /\ (Started(v, t) \/ WorkedOn(v, t)))
    <3>1. cur[w] \in Task
      BY <2>2, InHand
    <3>2. Queued(cur[w])
      BY <2>1, <3>1, QueueingQueues
    <3> QED
      BY <2>1, <2>2, <2>5, <3>2, HandKept DEF WorkedOn
  <2> QED
    BY <2>3, <2>4, <2>5
<1>7. CASE Requeue(w) \/ AwaitApproval(w) \/ Declare(w) \/ Retry(w)
  <2>1. pc[w] \in TaskSteps /\ Finish(w)
    BY <1>7 DEF Requeue, AwaitApproval, Declare, Retry, TaskSteps
  <2>2. OthersQueued(w)
    BY <1>7, <1>a, TransitionQueues
    DEF Requeue, Requeued, AwaitApproval, Declare, Retry, OthersQueued, Queued, OperatorTypeOK
  <2> QED
    BY <2>1, <2>2, HandFree
<1>8. CASE Fail(w)
  <2>1. OthersQueued(w) /\ pc[w] = "fail" /\ pc[w] \in TaskSteps /\ "cooldown" \in TaskSteps
    BY <1>8, TransitionQueues DEF Fail, TaskSteps
  <2>2. cur[w] \in Task
    BY <2>1, InHand
  <2>3. taskState'[cur[w]] = "FAILED"
    BY <1>8, <2>2 DEF Fail, TransitionTask, OperatorTypeOK
  <2>4. Finish(w) \/ \E a : GoTo(w, "cooldown", a)
    BY <1>8 DEF Fail
  <2> QED
    BY <2>1, <2>3, <2>4, HandFree, HandKept DEF WorkedOn
<1>9. CASE FailRejected(w)
  <2>1. /\ OthersQueued(w) /\ pc[w] \in {"fail", "cooldown"} /\ UNCHANGED taskState
        /\ Abort(w) \/ \E a : GoTo(w, "fail", a)
    BY <1>9, <1>a DEF FailRejected, dbVars
  <2>2. "fail" \in TaskSteps /\ pc[w] \in TaskSteps
    BY <2>1 DEF TaskSteps
  <2> QED
    BY <2>1, <2>2, HandFree, HandKept DEF WorkedOn
<1> QED
  BY <1>1, <1>2, <1>3, <1>4, <1>5, <1>6, <1>7, <1>8, <1>9 DEF TickStep

-----------------------------------------------------------------------------
(***************************************************************************)
(* The invariant, step by step.  OperatorInv says more as long as the      *)
(* server does not crash; Calm is what it says then.                       *)
(***************************************************************************)
Calm == NoCrash => HeldMeanwhile /\ PendingUntouched

\* A rejection touches no task that is done, and takes none out of the hands of a tick
\* that checks the run.
LEMMA RejectedUndone ==
    ASSUME OperatorInv, NoLateRejection, NEW a \in DOMAIN approvals, Reject(a)
    PROVE  /\ NoCrash
           /\ a \in Pending
           /\ taskState[approvals[a].task] \in {"RUNNING", "CANCELLED"}
BY DEF OperatorInv, NoLateRejection, Reject, Resolve, Pending, PendingUntouched

ApprovalRow == [task : Task, state : ApprovalStates]

LEMMA ApprovalTask ==
    ASSUME OperatorTypeOK
    PROVE  /\ Len(approvals) \in Nat /\ DOMAIN approvals = 1..Len(approvals)
           /\ \A a \in DOMAIN approvals : approvals[a] \in ApprovalRow
                                        /\ approvals[a].task \in Task
<1>1. approvals \in Seq(ApprovalRow)
  BY DEF OperatorTypeOK, ApprovalRow
<1>2. Len(approvals) \in Nat /\ DOMAIN approvals = 1..Len(approvals)
  BY <1>1
<1>3. \A a \in DOMAIN approvals : approvals[a] \in ApprovalRow
  BY <1>1, <1>2, ElementOfSeq
<1> QED
  BY <1>2, <1>3 DEF ApprovalRow

-----------------------------------------------------------------------------
\* What no step does: it moves no task that is done, and activates none whose
\* dependencies are not.
Respectful ==
    \A t \in Task :
        /\ taskState[t] \in {"SUCCEEDED", "SKIPPED"} => taskState'[t] = taskState[t]
        /\ taskState'[t] \in {"DISPATCHED", "RUNNING"} =>
              taskState[t] \in {"DISPATCHED", "RUNNING"} \/ DepsMet(t)

LEMMA QueueingRespects ==
    ASSUME OperatorTypeOK
    PROVE  /\ UNCHANGED taskState => Respectful
           /\ taskState' = AfterQueueing => Respectful
           /\ \A chosen : DispatchOrConflict(chosen) => Respectful
BY DEF OperatorTypeOK, Respectful, AfterQueueing, QueueableTasks, DispatchOrConflict,
       DispatchTasks, ReadyTasks, dbVars

LEMMA TransitionRespects ==
    ASSUME OperatorTypeOK, NEW t \in Task, NEW target \in {"QUEUED", "SUCCEEDED", "FAILED"},
           TransitionTask(t, target)
    PROVE  Respectful
BY DEF OperatorTypeOK, TransitionTask, CanTaskMove, LegalTaskTransitions, Respectful

LEMMA TickRespects ==
    ASSUME SingleInstance, OperatorInv, NEW w \in Tick, TickStep(w)
    PROVE  Respectful
<1>0. OperatorTypeOK /\ ClaimsInv /\ HeldUndone
  BY DEF OperatorInv
<1>1. CASE UNCHANGED taskState
  BY <1>0, <1>1, QueueingRespects
<1>2. CASE Dispatch(w) \/ Check(w)
  BY <1>0, <1>2, QueueingRespects DEF Dispatch, Check
<1>3. CASE Claim(w)
  <2>1. /\ \A t \in batch'[w] : taskState[t] = "DISPATCHED"
        /\ \A t \in Task \ batch'[w] : taskState'[t] = taskState[t]
    BY <1>0, <1>3, ClaimTakes
  <2> QED
    BY <2>1 DEF Respectful
<1>4. CASE Complete(w) \/ Fail(w) \/ Retry(w)
  <2>1. cur[w] \in Task
    BY <1>0, <1>4, InHand DEF Complete, Fail, Retry, TaskSteps
  <2> QED
    BY <1>0, <1>4, <2>1, TransitionRespects DEF Complete, Fail, Retry
<1>5. CASE Requeue(w)
  <2>1. cur[w] \in batch[w] /\ cur[w] \in Task
    BY <1>0, <1>5, InHand DEF Requeue, TaskSteps
  <2>2. taskState[cur[w]] \notin {"SUCCEEDED", "SKIPPED"}
    BY <1>0, <1>5, <2>1 DEF HeldUndone, HeldAt, Requeue
  <2> QED
    BY <1>0, <1>5, <2>1, <2>2 DEF Requeue, Requeued, Respectful, OperatorTypeOK
<1> QED
  BY <1>1, <1>2, <1>3, <1>4, <1>5
  DEF TickStep, Fire, ClaimCommitFails, Begin, CallSucceeds, CallFails, NoProvider,
      CallNeedsApproval, AwaitApproval, CompleteRejected, Declare, FailRejected, dbVars

LEMMA OthersRespect ==
    ASSUME OperatorInv, NoLateRejection,
           \/ \E r \in RTick : RouteStep(r)
           \/ Cancel
           \/ \E i \in Instance : Restart(i)
           \/ OperatorStep
    PROVE  Respectful
<1>0. OperatorTypeOK
  BY DEF OperatorInv
<1>1. ASSUME NEW r \in RTick, RouteStep(r) PROVE Respectful
  BY <1>0, <1>1, QueueingRespects
  DEF RouteStep, RouteFire, RouteQueue, RouteDispatch, RouteExecute, RouteTimeOut, dbVars
<1>2. ASSUME Cancel PROVE Respectful
  BY <1>0, <1>2 DEF Cancel, Respectful, InProgress, OperatorTypeOK
<1>3. ASSUME NEW i \in Instance, Restart(i) PROVE Respectful
  BY <1>0, <1>3 DEF Restart, RecoverOrphans, ActiveTasks, Respectful, OperatorTypeOK
<1>4. ASSUME NEW a \in DOMAIN approvals, Approve(a) PROVE Respectful
  <2>1. approvals[a].task \in Task
    BY <1>0, ApprovalTask
  <2> QED
    BY <1>0, <1>4, <2>1 DEF Approve, Respectful, OperatorTypeOK
<1>5. ASSUME NEW a \in DOMAIN approvals, Reject(a) PROVE Respectful
  <2>1. approvals[a].task \in Task
    BY <1>0, ApprovalTask
  <2>2. taskState[approvals[a].task] \in {"RUNNING", "CANCELLED"}
    BY <1>5, RejectedUndone
  <2> QED
    BY <1>0, <1>5, <2>1, <2>2 DEF Reject, Respectful, OperatorTypeOK
<1>6. ASSUME Resume PROVE Respectful
  BY <1>0, <1>6 DEF Resume, ResumedTasks, Respectful, OperatorTypeOK
<1>7. ASSUME NEW q \in Request,
             DispatchFound(q) \/ DispatchRun(q) \/ DispatchQueue(q) \/ DispatchReady(q)
      PROVE  Respectful
  BY <1>0, <1>7, QueueingRespects
  DEF DispatchFound, DispatchRun, DispatchQueue, DispatchReady, vars, dbVars
<1> QED
  BY <1>1, <1>2, <1>3, <1>4, <1>5, <1>6, <1>7 DEF OperatorStep

LEMMA StepRespects ==
    ASSUME SingleInstance, NoLateRejection, OperatorInv, [OperatorNext]_allVars
    PROVE  Respectful
<1>1. ASSUME UNCHANGED allVars PROVE Respectful
  BY <1>1, QueueingRespects DEF allVars, vars, dbVars, OperatorInv
<1> QED
  BY <1>1, TickRespects, OthersRespect DEF OperatorNext, WorkersStep, Next

\* What is done stays done, so what was dispatched rightly stays dispatched rightly.
LEMMA RespectKeepsDeps ==
    ASSUME OperatorInv, Respectful
    PROVE  DepsSafe'
<1>1. DoneTasks \subseteq DoneTasks'
  BY DEF Respectful, DoneTasks
<1>2. ASSUME NEW t \in ActiveTasks' PROVE Deps[t] \subseteq DoneTasks'
  <2>1. t \in ActiveTasks \/ DepsMet(t)
    BY <1>2 DEF Respectful, ActiveTasks
  <2>2. CASE t \in ActiveTasks
    BY <1>1, <2>2 DEF OperatorInv, DepsSafe
  <2>3. CASE DepsMet(t)
    <3>1. t \in Task /\ Deps[t] \subseteq Task
      BY <1>2, DepsAssumption DEF ActiveTasks
    <3> QED
      BY <1>1, <2>3, <3>1 DEF DepsMet, DoneTasks
  <2> QED
    BY <2>1, <2>2, <2>3
<1> QED
  BY <1>2 DEF DepsSafe

-----------------------------------------------------------------------------
\* The tasks in the hands of the ticks, after a step of one of them ...
LEMMA TickKeepsHeld ==
    ASSUME SingleInstance, OperatorInv, NEW w \in Tick, TickStep(w)
    PROVE  HeldUndone' /\ (HeldMeanwhile => HeldMeanwhile')
<1>0. OperatorTypeOK /\ ClaimsInv /\ HeldUndone
  BY DEF OperatorInv
<1>1. ASSUME NEW v \in Tick, NEW t \in batch'[v]
      PROVE  LeftAlone(v, t) \/ Started(v, t) \/ WorkedOn(v, t)
  BY <1>0, TickHolds
<1>2. HeldUndone'
  <2> SUFFICES ASSUME NEW v \in Tick, NEW t \in batch'[v]
               PROVE  IF HeldAt(v, t)' \in {"check", "declare"}
                      THEN taskState'[t] = "SUCCEEDED"
                      ELSE taskState'[t] \notin {"SUCCEEDED", "SKIPPED"}
    BY DEF HeldUndone
  <2>1. t \in batch[v] => IF HeldAt(v, t) \in {"check", "declare"}
                          THEN taskState[t] = "SUCCEEDED"
                          ELSE taskState[t] \notin {"SUCCEEDED", "SKIPPED"}
    BY <1>0 DEF HeldUndone
  <2>2. CASE LeftAlone(v, t)
    BY <2>1, <2>2 DEF LeftAlone, Queued
  <2>3. CASE Started(v, t)
    BY <2>3 DEF Started
  <2>4. CASE WorkedOn(v, t)
    BY <2>1, <2>4 DEF WorkedOn, Queued
  <2> QED
    BY <1>1, <2>2, <2>3, <2>4
<1>3. ASSUME HeldMeanwhile PROVE HeldMeanwhile'
  <2> SUFFICES ASSUME NEW v \in Tick, NEW t \in batch'[v]
               PROVE  taskState'[t] \in StatesMeanwhile(HeldAt(v, t)')
    BY DEF HeldMeanwhile, StatesMeanwhile
  <2>1. t \in batch[v] => taskState[t] \in StatesMeanwhile(HeldAt(v, t))
    BY <1>3 DEF HeldMeanwhile
  <2>2. CASE LeftAlone(v, t)
    BY <2>1, <2>2 DEF LeftAlone, Queued, StatesMeanwhile
  <2>3. CASE Started(v, t)
    BY <2>3 DEF Started, StatesMeanwhile
  <2>4. CASE WorkedOn(v, t)
    BY <2>1, <2>4 DEF WorkedOn, Queued, StatesMeanwhile
  <2> QED
    BY <1>1, <2>2, <2>3, <2>4
<1> QED
  BY <1>2, <1>3

\* ... after a cancellation, a queueing, a dispatch or a resumption ...
Steered(t) == Queued(t) \/ (taskState[t] \in InProgress /\ taskState'[t] = "CANCELLED")

LEMMA SteeringKeepsHeld ==
    ASSUME OperatorInv, UNCHANGED <<tickVars, approvals>>, \A t \in Task : Steered(t)
    PROVE  HeldUndone' /\ Calm'
<1>0. OperatorTypeOK /\ ClaimsInv /\ HeldUndone /\ Calm
  BY DEF OperatorInv, Calm
<1>1. /\ batch' = batch /\ cur' = cur /\ pc' = pc
      /\ \A v, t : HeldAt(v, t)' = HeldAt(v, t)
  BY DEF tickVars, HeldAt
<1>2. \A v \in Tick : \A t \in batch[v] : Steered(t)
  BY <1>0 DEF ClaimsInv, ClaimsTypeOK
<1>3. HeldUndone'
  BY <1>0, <1>1, <1>2 DEF HeldUndone, Steered, Queued, InProgress
<1>4. ASSUME NoCrash PROVE HeldMeanwhile'
  BY <1>0, <1>1, <1>2, <1>4
  DEF Calm, HeldMeanwhile, Steered, Queued, InProgress, StatesMeanwhile
<1>5. ASSUME NoCrash PROVE PendingUntouched'
  <2>1. \A a \in DOMAIN approvals : Steered(approvals[a].task)
    BY <1>0, ApprovalTask
  <2> QED
    BY <1>0, <1>1, <1>5, <2>1
    DEF Calm, PendingUntouched, Pending, Steered, Queued, InProgress
<1> QED
  BY <1>3, <1>4, <1>5 DEF Calm

\* ... and after a verdict on the approval that was asked for one of them.
LEMMA VerdictKeepsHeld ==
    ASSUME OperatorInv, NoLateRejection, NEW a \in DOMAIN approvals, Approve(a) \/ Reject(a)
    PROVE  HeldUndone' /\ Calm'
<1> DEFINE u == approvals[a].task
<1>0. OperatorTypeOK /\ ClaimsInv /\ HeldUndone /\ Calm
  BY DEF OperatorInv, Calm
<1>1. u \in Task /\ \A b \in DOMAIN approvals : approvals[b].task \in Task
  BY <1>0, ApprovalTask
<1>2. /\ batch' = batch /\ cur' = cur /\ pc' = pc
      /\ \A v, t : HeldAt(v, t)' = HeldAt(v, t)
  BY DEF Approve, Reject, tickVars, HeldAt
<1>3. /\ \A t \in Task \ {u} : taskState'[t] = taskState[t]
      /\ \/ taskState'[u] = taskState[u]
         \/ taskState[u] = "RUNNING" /\ taskState'[u] = "QUEUED"
         \/ /\ NoCrash /\ taskState[u] \in {"RUNNING", "CANCELLED"}
            /\ taskState'[u] = "FAILED"
  <2>1. Reject(a) => NoCrash /\ taskState[u] \in {"RUNNING", "CANCELLED"}
    BY RejectedUndone
  <2> QED
    BY <1>0, <1>1, <2>1 DEF Approve, Reject, OperatorTypeOK
<1>4. \A v \in Tick : \A t \in batch[v] : t \in Task
  BY <1>0 DEF ClaimsInv, ClaimsTypeOK
<1>5. a \in Pending
  BY DEF Approve, Reject, Resolve, Pending
<1>6. /\ Pending' = Pending \ {a}
      /\ \A b \in DOMAIN approvals : approvals'[b].task = approvals[b].task
  <2>1. PICK verdict \in {"APPROVED", "REJECTED"} :
          approvals' = [approvals EXCEPT ![a].state = verdict]
    BY DEF Approve, Reject, Resolve
  <2>2. \A b \in DOMAIN approvals :
          /\ approvals[b] \in ApprovalRow
          /\ approvals'[b] = IF b = a THEN [approvals[b] EXCEPT !.state = verdict]
                                      ELSE approvals[b]
    BY <1>0, <2>1, ApprovalTask
  <2>3. DOMAIN approvals' = DOMAIN approvals
    BY <2>1
  <2> QED
    BY <2>2, <2>3 DEF Pending, ApprovalRow
<1> HIDE DEF u
<1>7. HeldUndone'
  BY <1>0, <1>2, <1>3, <1>4 DEF HeldUndone
<1>8. ASSUME NoCrash PROVE HeldMeanwhile'
  <2>1. \A v \in Tick : u \in batch[v] => HeldAt(v, u) = "await_approval"
    BY <1>0, <1>5, <1>8 DEF Calm, PendingUntouched, HeldAt, u
  <2> QED
    BY <1>0, <1>2, <1>3, <1>4, <1>8, <2>1 DEF Calm, HeldMeanwhile, StatesMeanwhile
<1>9. ASSUME NoCrash PROVE PendingUntouched'
  <2>1. \A b \in Pending : b \in DOMAIN approvals
    BY DEF Pending
  <2>2. \A b \in Pending \ {a} : approvals[b].task # u
    BY <1>0, <1>5, <1>9 DEF Calm, PendingUntouched, u
  <2>3. PendingUntouched
    BY <1>0, <1>9 DEF Calm
  <2> QED
    BY <1>1, <1>2, <1>3, <1>6, <2>1, <2>2, <2>3 DEF PendingUntouched
<1> QED
  BY <1>7, <1>8, <1>9 DEF Calm

-----------------------------------------------------------------------------
\* The tasks whose approvals are pending, after a step of a tick.
LEMMA WaitingKept ==
    ASSUME SingleInstance, OperatorInv, HeldMeanwhile, PendingUntouched,
           NEW w \in Tick, TickStep(w), NEW a \in Pending
    PROVE  /\ taskState'[approvals[a].task] = taskState[approvals[a].task]
           /\ \A v \in Tick : approvals[a].task \in batch'[v] =>
                 HeldAt(v, approvals[a].task)' = "await_approval"
<1> DEFINE u == approvals[a].task
<1>0. OperatorTypeOK /\ ClaimsInv
  BY DEF OperatorInv
<1>1. u \in Task
  BY <1>0, ApprovalTask DEF Pending
<1>2. /\ taskState[u] \in {"RUNNING", "CANCELLED"}
      /\ \A v \in Tick : u \in batch[v] => cur[v] = u /\ pc[v] = "await_approval"
  BY DEF PendingUntouched
<1> HIDE DEF u
<1>3. pc[w] \in TaskSteps /\ pc[w] # "await_approval" => cur[w] # u
  BY <1>0, <1>2, InHand
<1>4. /\ taskState' = AfterQueueing => taskState'[u] = taskState[u]
      /\ \A chosen : DispatchOrConflict(chosen) => taskState'[u] = taskState[u]
  BY <1>0, <1>1, <1>2, QueueingQueues DEF Queued
<1>5. \A target : TransitionTask(cur[w], target) /\ cur[w] # u => taskState'[u] = taskState[u]
  BY <1>0, <1>1 DEF TransitionTask, OperatorTypeOK
<1>6. taskState'[u] = taskState[u]
  <2>1. CASE UNCHANGED taskState
    BY <2>1
  <2>2. CASE Dispatch(w) \/ Check(w)
    BY <1>4, <2>2 DEF Dispatch, Check
  <2>3. CASE Claim(w)
    <3>1. /\ \A t \in batch'[w] : taskState[t] = "DISPATCHED"
          /\ \A t \in Task \ batch'[w] : taskState'[t] = taskState[t]
      BY <1>0, <2>3, ClaimTakes
    <3> QED
      BY <1>1, <1>2, <3>1
  <2>4. CASE Complete(w) \/ Fail(w) \/ Retry(w)
    BY <1>3, <1>5, <2>4 DEF Complete, Fail, Retry, TaskSteps
  <2>5. CASE Requeue(w)
    BY <1>0, <1>1, <1>3, <2>5 DEF Requeue, Requeued, OperatorTypeOK, TaskSteps
  <2> QED
    BY <2>1, <2>2, <2>3, <2>4, <2>5
    DEF TickStep, Fire, ClaimCommitFails, Begin, CallSucceeds, CallFails, NoProvider,
        CallNeedsApproval, AwaitApproval, CompleteRejected, Declare, FailRejected, dbVars
<1>7. ASSUME NEW v \in Tick, u \in batch'[v] PROVE HeldAt(v, u)' = "await_approval"
  <2>1. LeftAlone(v, u) \/ Started(v, u) \/ WorkedOn(v, u)
    BY <1>0, <1>7, TickHolds
  <2>2. ~ Started(v, u)
    BY <1>2 DEF Started
  <2>3. ~ WorkedOn(v, u)
    BY <1>2 DEF WorkedOn, HeldAt
  <2> QED
    BY <1>2, <2>1, <2>2, <2>3 DEF LeftAlone, HeldAt
<1> QED
  BY <1>6, <1>7 DEF u

LEMMA TickKeepsPending ==
    ASSUME SingleInstance, OperatorInv, HeldMeanwhile, PendingUntouched,
           NEW w \in Tick, TickStep(w)
    PROVE  PendingUntouched'
<1>0. OperatorTypeOK /\ ClaimsInv
  BY DEF OperatorInv
<1>1. \A a \in Pending :
          /\ approvals[a].task \in Task
          /\ taskState'[approvals[a].task] \in {"RUNNING", "CANCELLED"}
          /\ \A v \in Tick : approvals[a].task \in batch'[v] =>
                HeldAt(v, approvals[a].task)' = "await_approval"
          /\ \A b \in Pending : approvals[b].task = approvals[a].task => b = a
  BY <1>0, WaitingKept, ApprovalTask DEF PendingUntouched, Pending
<1>1a. \A v \in Tick : \A t : HeldAt(v, t)' = "await_approval" =>
          cur'[v] = t /\ pc'[v] = "await_approval"
  BY DEF HeldAt
<1>2. CASE UNCHANGED approvals
  BY <1>1, <1>1a, <1>2 DEF PendingUntouched, Pending
<1>3. CASE CallNeedsApproval(w)
  <2> DEFINE n == Len(approvals) + 1
  <2>1. /\ pc[w] = "call" /\ pc[w] \in TaskSteps
        /\ approvals' = Append(approvals, [task |-> cur[w], state |-> "PENDING"])
        /\ UNCHANGED taskState /\ GoTo(w, "await_approval", "none")
        /\ "await_approval" \in TaskSteps
    BY <1>3 DEF CallNeedsApproval, TaskSteps, dbVars
  <2>2. cur[w] \in batch[w] /\ cur[w] \in Task
    BY <1>0, <2>1, InHand
  <2>3. taskState'[cur[w]] \in {"RUNNING", "CANCELLED"}
    BY <2>1, <2>2 DEF HeldMeanwhile, HeldAt, StatesMeanwhile
  <2>4. OthersAlone(w) /\ batch'[w] = batch[w] /\ cur'[w] = cur[w] /\ pc'[w] = "await_approval"
    BY <1>0, <2>1, GoOn
  <2>5. \A v \in Tick : cur[w] \in batch'[v] => cur'[v] = cur[w] /\ pc'[v] = "await_approval"
    BY <1>0, <2>2, <2>4 DEF ClaimsInv, Exclusive, OthersAlone
  <2>6. \A b \in Pending : approvals[b].task # cur[w]
    BY <2>1, <2>2 DEF PendingUntouched
  <2>7. /\ approvals \in Seq(ApprovalRow)
        /\ [task |-> cur[w], state |-> "PENDING"] \in ApprovalRow
    BY <1>0, <2>2 DEF OperatorTypeOK, ApprovalRow, ApprovalStates
  <2>8. /\ DOMAIN approvals' = DOMAIN approvals \cup {n}
        /\ n \notin DOMAIN approvals
        /\ \A b \in DOMAIN approvals : approvals'[b] = approvals[b]
        /\ approvals'[n] = [task |-> cur[w], state |-> "PENDING"]
    BY <2>1, <2>7
  <2> HIDE DEF n
  <2>9. /\ Pending' = Pending \cup {n}
        /\ \A b \in Pending : approvals'[b].task = approvals[b].task
        /\ approvals'[n].task = cur[w]
    BY <2>8 DEF Pending
  <2> QED
    BY <1>1, <1>1a, <2>3, <2>5, <2>6, <2>9 DEF PendingUntouched
<1> QED
  BY <1>2, <1>3
  DEF TickStep, Fire, Dispatch, Claim, ClaimCommitFails, Begin, Requeue, CallSucceeds,
      CallFails, NoProvider, AwaitApproval, Complete, CompleteRejected, Check, Declare,
      Fail, Retry, FailRejected

-----------------------------------------------------------------------------
\* Types.
LEMMA ColumnsTyped ==
    ASSUME OperatorTypeOK
    PROVE  /\ \A target : MoveOrConflict(target) => runState' \in RunStates
           /\ AfterQueueing \in [Task -> TaskStates]
           /\ \A t \in Task, target \in TaskStates : TransitionTask(t, target) =>
                 taskState' \in [Task -> TaskStates] /\ retryCount' \in [Task -> Nat]
           /\ \A chosen : DispatchOrConflict(chosen) =>
                 /\ runState' \in RunStates
                 /\ taskState' \in [Task -> TaskStates] /\ retryCount' \in [Task -> Nat]
<1>1. \A target : MoveOrConflict(target) => runState' \in RunStates
  BY DEF OperatorTypeOK, MoveOrConflict, TryRunMove, CanRunMove, LegalRunTransitions, RunStates
<1>2. AfterQueueing \in [Task -> TaskStates]
  BY DEF OperatorTypeOK, AfterQueueing, TaskStates
<1>3. \A t \in Task, target \in TaskStates : TransitionTask(t, target) =>
         taskState' \in [Task -> TaskStates] /\ retryCount' \in [Task -> Nat]
  BY DEF OperatorTypeOK, TransitionTask
<1>4. \A chosen : DispatchOrConflict(chosen) =>
         /\ runState' \in RunStates
         /\ taskState' \in [Task -> TaskStates] /\ retryCount' \in [Task -> Nat]
  BY DEF OperatorTypeOK, DispatchOrConflict, DispatchTasks, TaskStates, dbVars
<1> QED
  BY <1>1, <1>2, <1>3, <1>4

DbTypeOK ==
    /\ runState \in RunStates
    /\ taskState \in [Task -> TaskStates]
    /\ retryCount \in [Task -> Nat]
    /\ approvals \in Seq(ApprovalRow)

LEMMA RestartTyped ==
    ASSUME OperatorTypeOK, NEW i \in Instance, Restart(i)
    PROVE  DbTypeOK'
<1>1. PICK overdue \in SUBSET DOMAIN approvals : approvals' = ExpireOverdue(overdue)
  BY DEF Restart
<1>2. /\ Len(approvals) \in Nat /\ DOMAIN approvals = 1..Len(approvals)
      /\ \A b \in DOMAIN approvals : approvals[b] \in ApprovalRow
                                     /\ approvals[b].task \in Task
  BY ApprovalTask
<1>3. \A b \in DOMAIN approvals :
          [task |-> approvals[b].task, state |-> "EXPIRED"] \in ApprovalRow
  BY <1>2 DEF ApprovalRow, ApprovalStates
<1>4. approvals' \in [1..Len(approvals) -> ApprovalRow]
  BY <1>1, <1>2, <1>3 DEF ExpireOverdue
<1>5. approvals' \in Seq(ApprovalRow)
  <2>1. Seq(ApprovalRow) = UNION {[1..n -> ApprovalRow] : n \in Nat}
    BY SeqDef, Zenon
  <2> QED
    BY <1>2, <1>4, <2>1
<1>6. /\ runState' \in RunStates
      /\ taskState' \in [Task -> TaskStates]
      /\ retryCount' \in [Task -> Nat]
  BY DEF Restart, RecoverOrphans, OperatorTypeOK, TaskStates
<1> QED
  BY <1>5, <1>6 DEF DbTypeOK

LEMMA TickTyped ==
    ASSUME OperatorTypeOK, ClaimsInv, NEW w \in Tick, TickStep(w)
    PROVE  DbTypeOK'
<1>0. approvals \in Seq(ApprovalRow)
  BY DEF OperatorTypeOK, ApprovalRow
<1>1. CASE UNCHANGED <<dbVars, approvals>>
  BY <1>0, <1>1 DEF OperatorTypeOK, DbTypeOK, dbVars
<1>2. CASE Dispatch(w)
  BY <1>0, <1>2, ColumnsTyped DEF Dispatch, DbTypeOK
<1>3. CASE Claim(w)
  <2>1. PICK mine : taskState' = [t \in Task |-> IF t \in mine THEN "RUNNING" ELSE taskState[t]]
    BY <1>3 DEF Claim
  <2> QED
    BY <1>0, <1>3, <2>1 DEF Claim, OperatorTypeOK, DbTypeOK, TaskStates
<1>4. CASE Requeue(w)
  BY <1>0, <1>4 DEF Requeue, Requeued, OperatorTypeOK, DbTypeOK, TaskStates
<1>5. CASE CallNeedsApproval(w)
  <2>1. cur[w] \in Task
    BY <1>5, InHand DEF CallNeedsApproval, TaskSteps
  <2>2. [task |-> cur[w], state |-> "PENDING"] \in ApprovalRow
    BY <2>1 DEF ApprovalRow, ApprovalStates
  <2>3. approvals' \in Seq(ApprovalRow)
    BY <1>0, <1>5, <2>2 DEF CallNeedsApproval
  <2> QED
    BY <1>5, <2>3 DEF CallNeedsApproval, OperatorTypeOK, DbTypeOK, dbVars
<1>6. CASE AwaitApproval(w) \/ Declare(w)
  BY <1>0, <1>6, ColumnsTyped DEF AwaitApproval, Declare, OperatorTypeOK, DbTypeOK
<1>7. CASE Complete(w) \/ Fail(w) \/ Retry(w)
  <2>1. PICK target \in {"SUCCEEDED", "FAILED", "QUEUED"} : TransitionTask(cur[w], target)
    BY <1>7 DEF Complete, Fail, Retry
  <2>2. target \in TaskStates /\ cur[w] \in Task
    BY <1>7, InHand DEF TaskStates, TaskSteps, Complete, Fail, Retry
  <2>3. taskState' \in [Task -> TaskStates] /\ retryCount' \in [Task -> Nat]
    BY <2>1, <2>2, ColumnsTyped
  <2> QED
    BY <1>0, <1>7, <2>3 DEF Complete, Fail, Retry, OperatorTypeOK, DbTypeOK
<1>8. CASE Check(w)
  BY <1>0, <1>8, ColumnsTyped DEF Check, OperatorTypeOK, DbTypeOK
<1> QED
  BY <1>1, <1>2, <1>3, <1>4, <1>5, <1>6, <1>7, <1>8
  DEF TickStep, Fire, ClaimCommitFails, Begin, CallSucceeds, CallFails, NoProvider,
      CompleteRejected, FailRejected

LEMMA SteeringTyped ==
    ASSUME OperatorTypeOK,
           (\E r \in RTick : RouteStep(r)) \/ Cancel \/ OperatorStep
    PROVE  DbTypeOK'
<1>0. approvals \in Seq(ApprovalRow)
  BY DEF OperatorTypeOK, ApprovalRow
<1>1. ASSUME NEW r \in RTick, RouteStep(r) PROVE DbTypeOK'
  BY <1>0, <1>1, ColumnsTyped
  DEF RouteStep, RouteFire, RouteQueue, RouteDispatch, RouteExecute, RouteTimeOut,
      OperatorTypeOK, DbTypeOK, dbVars
<1>2. ASSUME Cancel PROVE DbTypeOK'
  BY <1>0, <1>2 DEF Cancel, OperatorTypeOK, DbTypeOK, TaskStates, RunStates
<1>3. ASSUME NEW a \in DOMAIN approvals, Approve(a) \/ Reject(a) PROVE DbTypeOK'
  <2>1. PICK verdict \in {"APPROVED", "REJECTED"} :
          approvals' = [approvals EXCEPT ![a].state = verdict]
    BY <1>3 DEF Approve, Reject, Resolve
  <2>2. /\ Len(approvals) \in Nat /\ DOMAIN approvals = 1..Len(approvals)
        /\ \A b \in DOMAIN approvals : approvals[b] \in ApprovalRow
    BY ApprovalTask
  <2>3. [approvals[a] EXCEPT !.state = verdict] \in ApprovalRow
    BY <2>2 DEF ApprovalRow, ApprovalStates
  <2>4. approvals' = [approvals EXCEPT ![a] = [approvals[a] EXCEPT !.state = verdict]]
    BY <2>1
  <2>5. approvals' \in Seq(ApprovalRow)
    BY <1>0, <2>2, <2>3, <2>4, ExceptSeq
  <2>6. /\ runState' \in RunStates /\ retryCount' \in [Task -> Nat]
        /\ taskState' \in [Task -> TaskStates]
    BY <1>3 DEF Approve, Reject, RunResumed, OperatorTypeOK, RunStates, TaskStates
  <2> QED
    BY <2>5, <2>6 DEF DbTypeOK
<1>4. ASSUME Resume PROVE DbTypeOK'
  BY <1>0, <1>4 DEF Resume, OperatorTypeOK, DbTypeOK, RunStates, TaskStates
<1>5. ASSUME NEW q \in Request,
             DispatchFound(q) \/ DispatchRun(q) \/ DispatchQueue(q) \/ DispatchReady(q)
      PROVE  DbTypeOK'
  BY <1>0, <1>5, ColumnsTyped
  DEF MoveOrConflict, DispatchFound, DispatchRun, DispatchQueue, DispatchReady, OperatorTypeOK, DbTypeOK,
      vars, dbVars
<1> QED
  BY <1>1, <1>2, <1>3, <1>4, <1>5 DEF OperatorStep

LEMMA OperatorTyped ==
    ASSUME SingleInstance, OperatorInv, [OperatorNext]_allVars
    PROVE  OperatorTypeOK'
<1>0. OperatorTypeOK /\ ClaimsInv
  BY DEF OperatorInv
<1>1. ClaimsInv'
  BY <1>0, ClaimsStep
<1>2. pc' \in [Tick -> TickSteps]
  BY <1>1 DEF ClaimsInv, ClaimsTypeOK
<1>3. reqPc' \in [Request -> {"none", "dispatch_run", "dispatch_queue", "dispatch_tasks"}]
  BY <1>0
  DEF OperatorNext, WorkersStep, OperatorStep, Approve, Reject, Resume, DispatchFound,
      DispatchRun, DispatchQueue, DispatchReady, Proceed, OperatorTypeOK, allVars
<1>4. CASE UNCHANGED allVars
  BY <1>0, <1>4 DEF OperatorTypeOK, allVars, vars, dbVars, tickVars
<1>5. CASE OperatorNext
  <2>1. DbTypeOK'
    BY <1>0, <1>5, TickTyped, RestartTyped, SteeringTyped
    DEF OperatorNext, WorkersStep, Next
  <2> QED
    BY <1>2, <1>3, <2>1 DEF DbTypeOK, OperatorTypeOK, ApprovalRow
<1> QED
  BY <1>4, <1>5

-----------------------------------------------------------------------------
LEMMA OthersKeepHeld ==
    ASSUME SingleInstance, NoLateRejection, OperatorInv,
           \/ \E r \in RTick : RouteStep(r)
           \/ Cancel
           \/ \E i \in Instance : Restart(i)
           \/ OperatorStep
    PROVE  HeldUndone' /\ Calm'
<1>0. OperatorTypeOK
  BY DEF OperatorInv
<1>1. ASSUME NEW r \in RTick, RouteStep(r) PROVE HeldUndone' /\ Calm'
  <2>1. UNCHANGED <<tickVars, approvals>>
    BY <1>1
    DEF RouteStep, RouteFire, RouteQueue, RouteDispatch, RouteExecute, RouteTimeOut
  <2>2. \A t \in Task : Steered(t)
    BY <1>0, <1>1, QueueingQueues
    DEF RouteStep, RouteFire, RouteQueue, RouteDispatch, RouteExecute, RouteTimeOut, dbVars,
        Steered, Queued
  <2> QED
    BY <2>1, <2>2, SteeringKeepsHeld
<1>2. ASSUME Cancel PROVE HeldUndone' /\ Calm'
  <2>1. \A t \in Task : Steered(t)
    BY <1>2 DEF Cancel, Steered, Queued
  <2> QED
    BY <1>2, <2>1, SteeringKeepsHeld DEF Cancel
<1>3. ASSUME NEW i \in Instance, Restart(i) PROVE HeldUndone' /\ Calm'
  <2>1. \A w \in Tick : Home[w] = i
    BY HomeAssumption DEF SingleInstance
  <2>2. \A w \in Tick : batch'[w] = {}
    BY <1>3, <2>1 DEF Restart
  <2> QED
    BY <1>3, <2>2 DEF HeldUndone, Calm, NoCrash, Restart
<1>4. ASSUME NEW a \in DOMAIN approvals, Approve(a) \/ Reject(a) PROVE HeldUndone' /\ Calm'
  BY <1>4, VerdictKeepsHeld
<1>5. ASSUME Resume PROVE HeldUndone' /\ Calm'
  <2>1. \A t \in Task : Steered(t)
    BY <1>5 DEF Resume, ResumedTasks, Steered, Queued
  <2> QED
    BY <1>5, <2>1, SteeringKeepsHeld DEF Resume
<1>6. ASSUME NEW q \in Request,
             DispatchFound(q) \/ DispatchRun(q) \/ DispatchQueue(q) \/ DispatchReady(q)
      PROVE  HeldUndone' /\ Calm'
  <2>1. UNCHANGED <<tickVars, approvals>>
    BY <1>6 DEF DispatchFound, DispatchRun, DispatchQueue, DispatchReady, vars
  <2>2. \A t \in Task : Steered(t)
    BY <1>0, <1>6, QueueingQueues
    DEF DispatchFound, DispatchRun, DispatchQueue, DispatchReady, vars, dbVars, Steered, Queued
  <2> QED
    BY <2>1, <2>2, SteeringKeepsHeld
<1> QED
  BY <1>1, <1>2, <1>3, <1>4, <1>5, <1>6 DEF OperatorStep

LEMMA OperatorInvStep ==
    ASSUME SingleInstance, NoLateRejection, OperatorInv, [OperatorNext]_allVars
    PROVE  OperatorInv'
<1>1. OperatorTypeOK'
  BY OperatorTyped
<1>2. ClaimsInv'
  BY ClaimsStep DEF OperatorInv
<1>3. DepsSafe'
  BY StepRespects, RespectKeepsDeps
<1>4. HeldUndone' /\ Calm'
  <2>1. ASSUME UNCHANGED allVars PROVE HeldUndone' /\ Calm'
    <3>1. UNCHANGED <<tickVars, approvals>> /\ \A t \in Task : Steered(t)
      BY <2>1 DEF allVars, vars, dbVars, Steered, Queued
    <3> QED
      BY <3>1, SteeringKeepsHeld
  <2>2. ASSUME NEW w \in Tick, TickStep(w) PROVE HeldUndone' /\ Calm'
    BY <2>2, TickKeepsHeld, TickKeepsPending DEF Calm, OperatorInv
  <2> QED
    BY <2>1, <2>2, OthersKeepHeld DEF OperatorNext, WorkersStep, Next
<1> QED
  BY <1>1, <1>2, <1>3, <1>4 DEF OperatorInv, Calm

LEMMA OperatorInvInitial == OperatorInit => OperatorInv
<1> SUFFICES ASSUME OperatorInit PROVE OperatorInv
  OBVIOUS
<1>1. OperatorTypeOK
  BY DEF OperatorInit, Init, OperatorTypeOK, RunStates, TaskStates, TickSteps
<1>2. ClaimsInv
  BY ClaimsInitial DEF OperatorInit
<1>3. HeldUndone /\ HeldMeanwhile
  BY DEF OperatorInit, Init, HeldUndone, HeldMeanwhile
<1>4. PendingUntouched
  BY DEF OperatorInit, Init, PendingUntouched, Pending
<1>5. DepsSafe
  BY DEF OperatorInit, Init, DepsSafe, ActiveTasks
<1> QED
  BY <1>1, <1>2, <1>3, <1>4, <1>5 DEF OperatorInv

-----------------------------------------------------------------------------
(***************************************************************************)
(* Refinement: the workers and the operators together still implement the  *)
(* abstract scheduler.                                                     *)
(***************************************************************************)
LEMMA VerdictsTyped ==
    ASSUME EndInv, [OperatorNext]_allVars
    PROVE  arg' \in [Tick -> Args]
<1>0. arg \in [Tick -> Args] /\ "none" \in Args
  BY DEF EndInv, Args
<1>1. CASE UNCHANGED arg
  BY <1>0, <1>1
<1>2. ASSUME NEW w \in Tick, TickStep(w) PROVE arg' \in [Tick -> Args]
  <2>1. \/ UNCHANGED arg
        \/ \E a \in Args : arg' = [arg EXCEPT ![w] = a]
    <3>1. Verdict(AfterQueueing) \in Args
      BY DEF Verdict, Args
    <3>2. arg[w] \in Args
      BY <1>0
    <3> QED
      BY <1>2, <3>1, <3>2
      DEF TickStep, Fire, Dispatch, Claim, ClaimCommitFails, Begin, Requeue, CallSucceeds,
          CallFails, NoProvider, CallNeedsApproval, AwaitApproval, Complete,
          CompleteRejected, Check, Declare, Fail, Retry, FailRejected, Finish, Abort, GoTo,
          Args, FailureArgs
  <2> QED
    BY <1>0, <2>1
<1>3. ASSUME NEW i \in Instance, Restart(i) PROVE arg' \in [Tick -> Args]
  BY <1>0, <1>3 DEF Restart
<1> QED
  BY <1>1, <1>2, <1>3
  DEF OperatorNext, WorkersStep, Next, OperatorStep, RouteStep, RouteFire, RouteQueue,
      RouteDispatch, RouteExecute, RouteTimeOut, Cancel, Approve, Reject, Resume,
      DispatchFound, DispatchRun, DispatchQueue, DispatchReady, allVars, vars, tickVars

LEMMA TickSchedules ==
    ASSUME SingleInstance, OperatorInv, EndInv, NEW w \in Tick, TickStep(w)
    PROVE  DagMoves
<1>0. OperatorTypeOK /\ ClaimsInv /\ HeldUndone /\ VerdictHolds /\ CompletedDone
  BY DEF OperatorInv, EndInv
<1>1. CASE Dispatch(w)
  BY <1>0, <1>1, DispatchMoves DEF Dispatch
<1>2. CASE UNCHANGED dbVars
  <2>1. ActiveTasks' = ActiveTasks /\ DoneTasks' = DoneTasks /\ UNCHANGED runState
    BY <1>2 DEF dbVars, ActiveTasks, DoneTasks
  <2> QED
    BY <2>1, QuietMoves
<1>3. CASE Claim(w)
  <2>1. /\ \A t \in batch'[w] : taskState[t] = "DISPATCHED" /\ taskState'[t] = "RUNNING"
        /\ \A t \in Task \ batch'[w] : taskState'[t] = taskState[t]
    BY <1>0, <1>3, ClaimTakes
  <2>2. ActiveTasks' = ActiveTasks /\ DoneTasks' = DoneTasks /\ UNCHANGED runState
    BY <1>3, <2>1 DEF Claim, ActiveTasks, DoneTasks
  <2> QED
    BY <2>2, QuietMoves
<1>4. CASE Requeue(w) \/ Fail(w) \/ Retry(w)
  <2>1. PICK target \in {"QUEUED", "FAILED"} :
          taskState' = [taskState EXCEPT ![cur[w]] = target]
    BY <1>4 DEF Requeue, Requeued, Fail, Retry, TransitionTask
  <2>2. cur[w] \in batch[w] /\ cur[w] \in Task
    BY <1>0, <1>4, InHand DEF Requeue, Fail, Retry, TaskSteps
  <2>3. cur[w] \notin DoneTasks
    BY <1>0, <1>4, <2>2
    DEF Requeue, Fail, Retry, TransitionTask, CanTaskMove, LegalTaskTransitions, HeldUndone,
        HeldAt, DoneTasks
  <2>4. ActiveTasks' \subseteq ActiveTasks /\ DoneTasks' = DoneTasks
    BY <1>0, <2>1, <2>2, <2>3 DEF ActiveTasks, DoneTasks, OperatorTypeOK
  <2> QED
    BY <1>4, <2>4, QuietMoves DEF Requeue, Fail, Retry
<1>5. CASE AwaitApproval(w)
  <2>1. ActiveTasks' = ActiveTasks /\ DoneTasks' = DoneTasks
    BY <1>5 DEF AwaitApproval, ActiveTasks, DoneTasks
  <2>2. runState' = "COMPLETED" <=> runState = "COMPLETED"
    BY <1>5, RunMoves DEF AwaitApproval
  <2> QED
    BY <2>1, <2>2, QuietMoves
<1>6. CASE Complete(w)
  <2>1. /\ cur[w] \in Task /\ taskState[cur[w]] = "RUNNING"
        /\ taskState' = [taskState EXCEPT ![cur[w]] = "SUCCEEDED"]
        /\ UNCHANGED runState
    BY <1>0, <1>6, InHand
    DEF Complete, TransitionTask, CanTaskMove, LegalTaskTransitions, TaskSteps
  <2>2. /\ cur[w] \in ActiveTasks
        /\ ActiveTasks' = ActiveTasks \ {cur[w]}
        /\ DoneTasks' = DoneTasks \cup {cur[w]}
    BY <1>0, <2>1 DEF ActiveTasks, DoneTasks, OperatorTypeOK
  <2>3. Dag!Accomplish(cur[w])
    BY <2>1, <2>2 DEF Dag!Accomplish
  <2> QED
    BY <2>1, <2>3 DEF Dag!Next, DagMoves
<1>7. CASE Check(w)
  BY <1>7, QueueingMoves DEF Check
<1>8. CASE Declare(w)
  <2>1. ActiveTasks' = ActiveTasks /\ DoneTasks' = DoneTasks
    BY <1>8 DEF Declare, ActiveTasks, DoneTasks
  <2>2. CASE runState' = "COMPLETED" <=> runState = "COMPLETED"
    BY <2>1, <2>2, QuietMoves
  <2>3. CASE runState' = "COMPLETED" /\ runState # "COMPLETED"
    <3>1. arg[w] = "COMPLETED" /\ runState = "EXECUTING"
      BY <1>8, <2>3 DEF Declare, MoveOrConflict, TryRunMove, CanRunMove, LegalRunTransitions
    <3>2. DoneTasks = Task
      BY <1>0, <1>8, <3>1 DEF Declare, VerdictHolds
    <3>3. Dag!Close
      BY <2>1, <2>3, <3>2 DEF Dag!Close
    <3> QED
      BY <3>3 DEF Dag!Next, DagMoves
  <2>4. CASE runState' # "COMPLETED" /\ runState = "COMPLETED"
    BY <1>8, <2>4 DEF Declare, MoveOrConflict, TryRunMove, CanRunMove, LegalRunTransitions
  <2> QED
    BY <2>2, <2>3, <2>4
<1> QED
  BY <1>1, <1>2, <1>3, <1>4, <1>5, <1>6, <1>7, <1>8
  DEF TickStep, Fire, ClaimCommitFails, Begin, CallSucceeds, CallFails, NoProvider,
      CallNeedsApproval, CompleteRejected, FailRejected

LEMMA OthersSchedule ==
    ASSUME OperatorInv, EndInv, NoLateRejection,
           \/ \E r \in RTick : RouteStep(r)
           \/ Cancel
           \/ \E i \in Instance : Restart(i)
           \/ OperatorStep
    PROVE  DagMoves
<1>0. OperatorTypeOK /\ CompletedDone
  BY DEF OperatorInv, EndInv
<1>1. ASSUME NEW r \in RTick, RouteStep(r) PROVE DagMoves
  BY <1>0, <1>1, RouteStepMoves
<1>2. CASE Cancel
  <2>1. ActiveTasks' \subseteq ActiveTasks /\ DoneTasks' = DoneTasks
    BY <1>2 DEF Cancel, ActiveTasks, DoneTasks, InProgress
  <2> QED
    BY <1>2, <2>1, QuietMoves DEF Cancel
<1>3. ASSUME NEW i \in Instance, Restart(i) PROVE DagMoves
  <2>1. ActiveTasks' \subseteq ActiveTasks /\ DoneTasks' = DoneTasks /\ UNCHANGED runState
    BY <1>3 DEF Restart, RecoverOrphans, ActiveTasks, DoneTasks
  <2> QED
    BY <2>1, QuietMoves
<1>4. ASSUME NEW a \in DOMAIN approvals, Approve(a) \/ Reject(a) PROVE DagMoves
  <2>1. approvals[a].task \in Task
    BY <1>0, ApprovalTask
  <2>2. Reject(a) => taskState[approvals[a].task] \in {"RUNNING", "CANCELLED"}
    BY RejectedUndone
  <2>3. ActiveTasks' \subseteq ActiveTasks /\ DoneTasks' = DoneTasks
    BY <1>0, <1>4, <2>1, <2>2 DEF Approve, Reject, ActiveTasks, DoneTasks, OperatorTypeOK
  <2>4. runState' = "COMPLETED" <=> runState = "COMPLETED"
    BY <1>4 DEF Approve, Reject, RunResumed
  <2> QED
    BY <2>3, <2>4, QuietMoves
<1>5. CASE Resume
  <2>1. ActiveTasks' = ActiveTasks /\ DoneTasks' = DoneTasks
    BY <1>5 DEF Resume, ResumedTasks, ActiveTasks, DoneTasks
  <2>2. runState' = "COMPLETED" <=> runState = "COMPLETED"
    BY <1>5 DEF Resume
  <2> QED
    BY <2>1, <2>2, QuietMoves
<1>6. ASSUME NEW q \in Request, DispatchFound(q) \/ DispatchRun(q) PROVE DagMoves
  <2>1. ActiveTasks' = ActiveTasks /\ DoneTasks' = DoneTasks
    BY <1>6 DEF DispatchFound, DispatchRun, vars, dbVars, ActiveTasks, DoneTasks
  <2>2. runState' = "COMPLETED" <=> runState = "COMPLETED"
    BY <1>6, RunMoves DEF DispatchFound, DispatchRun, MoveOrConflict, vars, dbVars
  <2> QED
    BY <2>1, <2>2, QuietMoves
<1>7. ASSUME NEW q \in Request, DispatchQueue(q) PROVE DagMoves
  BY <1>7, QueueingMoves DEF DispatchQueue
<1>8. ASSUME NEW q \in Request, DispatchReady(q) PROVE DagMoves
  BY <1>0, <1>8, DispatchMoves DEF DispatchReady
<1> QED
  BY <1>1, <1>2, <1>3, <1>4, <1>5, <1>6, <1>7, <1>8 DEF OperatorStep

LEMMA StepSchedules ==
    ASSUME SingleInstance, NoLateRejection, OperatorInv, EndInv, [OperatorNext]_allVars
    PROVE  DagMoves
<1>1. CASE UNCHANGED allVars
  <2>1. ActiveTasks' = ActiveTasks /\ DoneTasks' = DoneTasks /\ UNCHANGED runState
    BY <1>1 DEF allVars, vars, dbVars, ActiveTasks, DoneTasks
  <2> QED
    BY <2>1, QuietMoves
<1> QED
  BY <1>1, TickSchedules, OthersSchedule DEF OperatorNext, WorkersStep, Next

\* Operators cancel no task but by cancelling its run, and declare no verdict.
LEMMA EndInvStep ==
    ASSUME SingleInstance, NoLateRejection, OperatorInv, EndInv, [OperatorNext]_allVars
    PROVE  EndInv'
<1>0. StatesTypeOK /\ CancelledTogether /\ VerdictHolds
  BY DEF OperatorInv, OperatorTypeOK, EndInv, StatesTypeOK, Args
<1>1. DagMoves
  BY StepSchedules
<1>2. ActiveBound' /\ CompletedDone'
  BY <1>1, DagKeeps DEF OperatorInv, EndInv
<1>3. CancelledTogether' /\ VerdictHolds'
  <2>1. CASE [Next]_vars
    BY <1>0, <1>1, <2>1, CancelledStep, VerdictStep
  <2>2. CASE OperatorStep
    <3>1. runState = "CANCELLED" => runState' = "CANCELLED"
      BY <2>2, OperatorsLeaveOver DEF RunOver, OperatorNext
    <3>2. ASSUME NEW t \in Task, taskState'[t] = "CANCELLED"
          PROVE  taskState[t] = "CANCELLED"
      BY <1>0, <2>2, <3>2
      DEF OperatorStep, Approve, Reject, Resume, DispatchFound, DispatchRun, DispatchQueue,
          DispatchReady, DispatchOrConflict, DispatchTasks, AfterQueueing, vars, dbVars,
          StatesTypeOK
    <3>3. UNCHANGED <<pc, arg>>
      BY <2>2
      DEF OperatorStep, Approve, Reject, Resume, DispatchFound, DispatchRun, DispatchQueue,
          DispatchReady, vars, tickVars
    <3>4. DoneTasks = Task => DoneTasks' = Task
      BY <1>1, DoneGrows DEF DoneTasks
    <3>5. CancelledTogether'
      BY <1>0, <3>1, <3>2 DEF CancelledTogether
    <3>6. VerdictHolds'
      BY <1>0, <3>1, <3>3, <3>4 DEF VerdictHolds
    <3> QED
      BY <3>5, <3>6
  <2> QED
    BY <2>1, <2>2 DEF OperatorNext, WorkersStep, allVars
<1> QED
  BY <1>2, <1>3, VerdictsTyped DEF EndInv, Args

LEMMA EndInvInitial == OperatorInit => EndInv
<1> SUFFICES ASSUME OperatorInit PROVE EndInv
  OBVIOUS
<1>1. ActiveTasks = {}
  BY DEF OperatorInit, Init, ActiveTasks
<1>2. ActiveBound
  BY <1>1, FS_EmptySet, ConcurrentAssumption DEF ActiveBound
<1> QED
  BY <1>2 DEF OperatorInit, Init, EndInv, CancelledTogether, VerdictHolds, CompletedDone

-----------------------------------------------------------------------------
(***************************************************************************)
(* The theorems.                                                           *)
(***************************************************************************)
\* What is known of the run while people approve, reject, resume and dispatch: SteeredInv
\* is an invariant with one server, unless it may crash and approvals be rejected afterwards.
THEOREM SteeredInvariance ==
    ASSUME SingleInstance, NoLateRejection PROVE OperatorSpec => []SteeredInv
<1>1. SteeredInv /\ [OperatorNext]_allVars => SteeredInv'
  BY OperatorInvStep, EndInvStep DEF SteeredInv
<1>2. OperatorInit => SteeredInv
  BY OperatorInvInitial, EndInvInitial DEF SteeredInv
<1> QED
  BY <1>1, <1>2, PTL DEF OperatorSpec

\* A task is dispatched or running only when everything it depends on is done, although
\* resume queues tasks whatever they depend on and approvals move tasks under the ticks.
THEOREM DependenciesWhileSteered ==
    ASSUME SingleInstance, NoLateRejection PROVE OperatorSpec => []DepsSafe
<1>1. SteeredInv => DepsSafe
  BY DEF SteeredInv, OperatorInv
<1> QED
  BY <1>1, SteeredInvariance, PTL

\* No step undoes the result of a task: resume, approvals, retries and the ticks that
\* re-queue what they hold only move tasks that have not succeeded.
THEOREM ResultsAreFinal ==
    ASSUME SingleInstance, NoLateRejection PROVE OperatorSpec => SucceededIsFinal
<1> DEFINE Final == \A t \in Task : taskState[t] = "SUCCEEDED" => taskState'[t] = "SUCCEEDED"
<1>1. SteeredInv /\ [OperatorNext]_allVars => [Final]_allVars
  BY StepRespects DEF SteeredInv, Respectful
<1> QED
  BY <1>1, SteeredInvariance, PTL DEF OperatorSpec, SucceededIsFinal

\* Workers and operators together implement the abstract scheduler.
THEOREM SteeredRefinement ==
    ASSUME SingleInstance, NoLateRejection PROVE OperatorSpec => DagExecutionImplemented
<1>1. OperatorInit => Dag!Init
  BY DEF OperatorInit, Init, Dag!Init, ActiveTasks, DoneTasks
<1>2. SteeredInv /\ [OperatorNext]_allVars
        => [Dag!Next]_<<ActiveTasks, DoneTasks, runState = "COMPLETED">>
  BY StepSchedules DEF SteeredInv, DagMoves, Over
<1> QED
  BY <1>1, <1>2, SteeredInvariance, PTL DEF OperatorSpec, DagExecutionImplemented, Dag!Spec

=============================================================================
