--------------------------- MODULE WorkersProofs ---------------------------
(***************************************************************************)
(* Proofs that SafetyInv is an invariant of Workers with one instance, for *)
(* every plan, every number of ticks and every combination of events, and  *)
(* that the workers implement DagExecution.                                *)
(***************************************************************************)
EXTENDS WorkersInvariant, FiniteSetTheorems, SequenceTheorems, TLAPS

\* What the lemmas about a tick's step say of the tasks it is not working on.
OthersKept(w) ==
    \A v \in Tick : \A t \in batch[v] \ {cur[w]} :
        taskState'[t] = taskState[t] /\ retryCount'[t] = retryCount[t]

\* A tick that is done with its task leaves the ownership of the rest intact.
LEMMA FinishKeeps ==
    ASSUME SingleInstance, TypeOK, Ownership, NEW w \in Tick,
           pc[w] \in TaskSteps, Finish(w), OthersKept(w)
    PROVE  Ownership'
<1>0. cur[w] \in batch[w] /\ cur[w] \in Task
  BY DEF Ownership, Owned, TypeOK
<1>1. \A v \in Tick : Home[v] = Home[w] /\ Home[v] \in Instance
  BY HomeAssumption DEF SingleInstance
<1>2. \A v \in Tick : v # w => /\ cur[w] \notin batch[v]
                               /\ batch'[v] = batch[v] /\ pc'[v] = pc[v]
                               /\ cur'[v] = cur[v]
  BY <1>0 DEF Ownership, Exclusive, Finish, TypeOK
<1>3. batch'[w] = batch[w] \ {cur[w]} /\ pc'[w] \in {"idle", "next"}
  BY DEF Finish, TypeOK
<1>3a. pc'[w] = "idle" => batch'[w] = {}
  BY <1>0, <1>3 DEF Finish, TypeOK
<1>4. processing'[Home[w]] = processing[Home[w]] \ {cur[w]}
  BY <1>1 DEF Finish, TypeOK
<1>5. Exclusive'
  BY <1>2, <1>3 DEF Ownership, Exclusive
<1>6. Owned'
  BY <1>1, <1>2, <1>3, <1>3a, <1>4 DEF Ownership, Owned, TaskSteps
<1>7. Held'
  BY <1>2, <1>3 DEF Ownership, Held, HeldStates, StatesAt, OthersKept
<1>8. CoolingDown'
  <2> SUFFICES ASSUME NEW v \in Tick, pc'[v] = "cooldown"
               PROVE  retryCount'[cur'[v]] < MaxRetries
    BY DEF CoolingDown
  <2>1. v # w
    BY <1>3
  <2>2. cur[v] \in batch[v] /\ cur[v] # cur[w]
    BY <2>1, <1>2 DEF Ownership, Owned, TaskSteps
  <2> QED
    BY <2>1, <2>2, <1>2 DEF OthersKept, Ownership, CoolingDown
<1> QED
  BY <1>5, <1>6, <1>7, <1>8 DEF Ownership

\* A tick that goes on with its task, in the state its next step expects.
LEMMA GoToKeeps ==
    ASSUME TypeOK, Ownership, NEW w \in Tick, NEW step \in TaskSteps, NEW a,
           pc[w] \in TaskSteps, GoTo(w, step, a), OthersKept(w),
           taskState'[cur[w]] \in StatesAt(step),
           step = "cooldown" => retryCount'[cur[w]] < MaxRetries
    PROVE  Ownership'
<1>0. cur[w] \in batch[w] /\ cur[w] \in Task
  BY DEF Ownership, Owned, TypeOK
<1>1. /\ pc'[w] = step
      /\ \A v \in Tick : v # w => pc'[v] = pc[v]
      /\ batch' = batch /\ cur' = cur /\ processing' = processing
  BY DEF GoTo, TypeOK
<1>2. \A v \in Tick : v # w => cur[w] \notin batch[v]
  BY <1>0 DEF Ownership, Exclusive
<1>3. Exclusive'
  BY <1>1 DEF Ownership, Exclusive
<1>4. Owned'
  BY <1>0, <1>1 DEF Ownership, Owned, TaskSteps
<1>5. Held'
  <2> SUFFICES ASSUME NEW v \in Tick, NEW t \in batch[v]
               PROVE  taskState'[t] \in HeldStates(v, t)'
    BY <1>1 DEF Held
  <2>1. CASE v = w /\ t = cur[w]
    BY <2>1, <1>1 DEF HeldStates
  <2>2. CASE v = w /\ t # cur[w]
    BY <2>2, <1>1 DEF HeldStates, Ownership, Held, OthersKept
  <2>3. CASE v # w
    BY <2>3, <1>1, <1>2 DEF HeldStates, Ownership, Held, OthersKept
  <2> QED
    BY <2>1, <2>2, <2>3
<1>6. CoolingDown'
  <2> SUFFICES ASSUME NEW v \in Tick, pc'[v] = "cooldown"
               PROVE  retryCount'[cur[v]] < MaxRetries
    BY <1>1 DEF CoolingDown
  <2>1. CASE v = w
    BY <2>1, <1>1
  <2>2. CASE v # w
    <3>1. cur[v] \in batch[v] /\ cur[v] # cur[w]
      BY <2>2, <1>1, <1>2 DEF Ownership, Owned, TaskSteps
    <3> QED
      BY <2>2, <3>1, <1>1 DEF OthersKept, Ownership, CoolingDown
  <2> QED
    BY <2>1, <2>2
<1> QED
  BY <1>3, <1>4, <1>5, <1>6 DEF Ownership

\* An error that escapes the loop releases only the task in hand.
LEMMA AbortKeeps ==
    ASSUME SingleInstance, TypeOK, Ownership, NEW w \in Tick,
           pc[w] \in TaskSteps, Abort(w), UNCHANGED <<taskState, retryCount>>
    PROVE  Ownership'
<1>0. cur[w] \in batch[w] /\ cur[w] \in Task
  BY DEF Ownership, Owned, TypeOK
<1>1. \A v \in Tick : Home[v] = Home[w] /\ Home[v] \in Instance
  BY HomeAssumption DEF SingleInstance
<1>2. \A v \in Tick : v # w => /\ cur[w] \notin batch[v]
                               /\ batch'[v] = batch[v] /\ pc'[v] = pc[v]
                               /\ cur'[v] = cur[v]
  BY <1>0 DEF Ownership, Exclusive, Abort, TypeOK
<1>3. batch'[w] = {} /\ pc'[w] = "idle"
  BY DEF Abort, TypeOK
<1>4. processing'[Home[w]] = processing[Home[w]] \ {cur[w]}
  BY <1>1 DEF Abort, TypeOK
<1>5. Exclusive'
  BY <1>2, <1>3 DEF Ownership, Exclusive
<1>6. Owned'
  BY <1>1, <1>2, <1>3, <1>4 DEF Ownership, Owned, TaskSteps
<1>7. Held'
  BY <1>2, <1>3 DEF Ownership, Held, HeldStates, StatesAt
<1>8. CoolingDown'
  BY <1>2, <1>3 DEF Ownership, CoolingDown
<1> QED
  BY <1>5, <1>6, <1>7, <1>8 DEF Ownership

\* A step that no tick of the execution worker takes disturbs no claimed task.
LEMMA UntouchedKeeps ==
    ASSUME TypeOK, Ownership, UNCHANGED tickVars,
           \A v \in Tick : \A t \in batch[v] :
               taskState'[t] = taskState[t] /\ retryCount'[t] = retryCount[t]
    PROVE  Ownership'
<1>1. Exclusive' /\ Owned' /\ Held'
  BY DEF tickVars, Ownership, Exclusive, Owned, Held, HeldStates, StatesAt
<1>2. CoolingDown'
  BY DEF tickVars, Ownership, CoolingDown, Owned, TaskSteps
<1> QED
  BY <1>1, <1>2 DEF Ownership

-----------------------------------------------------------------------------
(***************************************************************************)
(* Type correctness.  The bound on retryCount needs Ownership: the row     *)
(* that Retry increments is the one whose count failTask tested.           *)
(***************************************************************************)
Args == FailureArgs \cup {"none", "COMPLETED", "FAILED"}

TickTypeOK ==
    /\ processing \in [Instance -> SUBSET Task]
    /\ pc \in [Tick -> TickSteps]
    /\ batch \in [Tick -> SUBSET Task]
    /\ cur \in [Tick -> Task \cup {NoTask}]
    /\ arg \in [Tick -> Args]

LEMMA TickTypes ==
    ASSUME TypeOK, NEW w \in Tick, NEW step \in TickSteps, NEW a \in Args,
           Finish(w) \/ Abort(w) \/ GoTo(w, step, a)
    PROVE  TickTypeOK'
<1>1. Home[w] \in Instance
  BY HomeAssumption
<1>2. CASE Finish(w)
  BY <1>1, <1>2 DEF Finish, TypeOK, TickTypeOK, Args, TickSteps
<1>3. CASE Abort(w)
  BY <1>1, <1>3 DEF Abort, TypeOK, TickTypeOK, Args, TickSteps
<1>4. CASE GoTo(w, step, a)
  BY <1>4 DEF GoTo, TypeOK, TickTypeOK, Args
<1> QED
  BY <1>2, <1>3, <1>4

\* The rows of the database after a change of one task's state.
RowsTypeOK ==
    /\ runState \in RunStates
    /\ taskState \in [Task -> TaskStates]
    /\ retryCount \in [Task -> 0..MaxRetries]

LEMMA MoveTypes ==
    ASSUME TypeOK, NEW target, MoveOrConflict(target)
    PROVE  runState' \in RunStates
BY DEF TypeOK, MoveOrConflict, TryRunMove, CanRunMove, LegalRunTransitions, RunStates

LEMMA QueueingTypes == TypeOK => AfterQueueing \in [Task -> TaskStates]
BY DEF TypeOK, AfterQueueing, TaskStates

LEMMA DispatchTypes ==
    ASSUME TypeOK, NEW chosen, DispatchOrConflict(chosen)
    PROVE  RowsTypeOK'
BY DEF TypeOK, DispatchOrConflict, DispatchTasks, RowsTypeOK, TaskStates, dbVars

LEMMA TransitionTypes ==
    ASSUME TypeOK, NEW t \in Task, NEW target \in TaskStates,
           TransitionTask(t, target),
           target = "QUEUED" => retryCount[t] < MaxRetries
    PROVE  /\ taskState' \in [Task -> TaskStates]
           /\ retryCount' \in [Task -> 0..MaxRetries]
BY RetriesAssumption DEF TypeOK, TransitionTask

LEMMA RouteStepTypes ==
    ASSUME TypeOK, NEW r \in RTick, RouteStep(r)
    PROVE  TypeOK'
<1>1. CASE RouteFire(r)
  BY <1>1 DEF RouteFire, TypeOK, dbVars, tickVars
<1>2. CASE RouteQueue(r)
  BY <1>2, QueueingTypes DEF RouteQueue, TypeOK, tickVars
<1>3. CASE RouteDispatch(r)
  BY <1>3, DispatchTypes DEF RouteDispatch, RowsTypeOK, TypeOK, tickVars
<1>4. CASE RouteExecute(r)
  BY <1>4, MoveTypes DEF RouteExecute, TypeOK, tickVars
<1>5. CASE RouteTimeOut(r)
  BY <1>5, MoveTypes DEF RouteTimeOut, TypeOK, tickVars
<1> QED
  BY <1>1, <1>2, <1>3, <1>4, <1>5 DEF RouteStep

LEMMA TickStepTypes ==
    ASSUME TypeOK, Ownership, NEW w \in Tick, TickStep(w)
    PROVE  TypeOK'
<1> USE DEF dbVars, routeVars
<1>a. Home[w] \in Instance
  BY HomeAssumption
<1>b. pc[w] \in TaskSteps => cur[w] \in Task
  BY DEF Ownership, Owned, TypeOK
<1>1. CASE Fire(w)
  BY <1>1 DEF Fire, TypeOK, TickSteps
<1>2. CASE Dispatch(w)
  BY <1>2, DispatchTypes DEF Dispatch, RowsTypeOK, TypeOK, TickSteps
<1>3. CASE Claim(w)
  <2>1. PICK rows \in ClaimRows : LET mine == Unprocessed(w, rows) IN
          /\ taskState' = [t \in Task |-> IF t \in mine THEN "RUNNING" ELSE taskState[t]]
          /\ processing' = [processing EXCEPT ![Home[w]] = @ \cup mine]
          /\ batch' = [batch EXCEPT ![w] = mine]
          /\ pc' = [pc EXCEPT ![w] = IF mine = {} THEN "idle" ELSE "next"]
    BY <1>3 DEF Claim
  <2>2. Unprocessed(w, rows) \in SUBSET Task
    BY DEF ClaimRows, Claimable, Unprocessed
  <2> QED
    BY <1>3, <1>a, <2>1, <2>2 DEF Claim, TypeOK, TickSteps, TaskStates
<1>4. CASE ClaimCommitFails(w)
  <2>1. PICK rows \in ClaimRows :
          processing' = [processing EXCEPT ![Home[w]] = @ \cup Unprocessed(w, rows)]
    BY <1>4 DEF ClaimCommitFails
  <2>2. Unprocessed(w, rows) \in SUBSET Task
    BY DEF ClaimRows, Claimable, Unprocessed
  <2> QED
    BY <1>4, <1>a, <2>1, <2>2 DEF ClaimCommitFails, TypeOK, TickSteps
<1>5. CASE Begin(w)
  BY <1>5 DEF Begin, TypeOK, TickSteps, TaskSteps
<1>6. CASE Requeue(w)
  <2>1. taskState' \in [Task -> TaskStates]
    BY <1>6 DEF Requeue, Requeued, TypeOK, TaskStates
  <2> QED
    BY <1>6, <2>1, TickTypes DEF Requeue, TypeOK, TickTypeOK, Args, TickSteps
<1>7. CASE CallSucceeds(w)
  BY <1>7, TickTypes
  DEF CallSucceeds, TypeOK, TickTypeOK, Args, TickSteps, TaskSteps
<1>8. CASE CallFails(w)
  BY <1>8, TickTypes
  DEF CallFails, TypeOK, TickTypeOK, Args, TickSteps, TaskSteps, FailureArgs
<1>9. CASE NoProvider(w)
  BY <1>9, TickTypes
  DEF NoProvider, TypeOK, TickTypeOK, Args, TickSteps, TaskSteps, FailureArgs
<1>10. CASE CallNeedsApproval(w)
  <2>1. [task |-> cur[w], state |-> "PENDING"] \in [task : Task, state : ApprovalStates]
    BY <1>10, <1>b DEF CallNeedsApproval, ApprovalStates, TaskSteps
  <2>2. approvals' \in Seq([task : Task, state : ApprovalStates])
    BY <1>10, <2>1 DEF CallNeedsApproval, TypeOK
  <2> QED
    BY <1>10, <2>2, TickTypes
    DEF CallNeedsApproval, TypeOK, TickTypeOK, Args, TickSteps, TaskSteps
<1>11. CASE AwaitApproval(w)
  BY <1>11, TickTypes, MoveTypes DEF AwaitApproval, TypeOK, TickTypeOK, Args, TickSteps
<1>12. CASE Complete(w)
  <2>1. taskState' \in [Task -> TaskStates] /\ retryCount' \in [Task -> 0..MaxRetries]
    BY <1>12, <1>b, TransitionTypes DEF Complete, TaskStates, TaskSteps
  <2> QED
    BY <1>12, <2>1, TickTypes
    DEF Complete, TypeOK, TickTypeOK, Args, TickSteps, TaskSteps
<1>13. CASE CompleteRejected(w)
  BY <1>13, TickTypes
  DEF CompleteRejected, TypeOK, TickTypeOK, Args, TickSteps, TaskSteps, FailureArgs
<1>14. CASE Check(w)
  <2>1. Verdict(AfterQueueing) \in {"none", "FAILED", "COMPLETED"}
    BY DEF Verdict
  <2>2. "declare" \in TickSteps /\ Verdict(AfterQueueing) \in Args
    BY <2>1 DEF TickSteps, TaskSteps, Args
  <2> QED
    BY <1>14, <2>2, TickTypes, QueueingTypes DEF Check, TypeOK, TickTypeOK, Args
<1>15. CASE Declare(w)
  BY <1>15, TickTypes, MoveTypes DEF Declare, TypeOK, TickTypeOK, Args, TickSteps
<1>16. CASE Fail(w)
  <2>1. taskState' \in [Task -> TaskStates] /\ retryCount' \in [Task -> 0..MaxRetries]
    BY <1>16, <1>b, TransitionTypes DEF Fail, TaskStates, TaskSteps
  <2> QED
    BY <1>16, <2>1, TickTypes
    DEF Fail, TypeOK, TickTypeOK, Args, TickSteps, TaskSteps
<1>17. CASE Retry(w)
  <2>1. taskState' \in [Task -> TaskStates] /\ retryCount' \in [Task -> 0..MaxRetries]
    BY <1>17, <1>b, TransitionTypes DEF Retry, TaskStates, TaskSteps, Ownership, CoolingDown
  <2> QED
    BY <1>17, <2>1, TickTypes DEF Retry, TypeOK, TickTypeOK, Args, TickSteps
<1>18. CASE FailRejected(w)
  BY <1>18, TickTypes
  DEF FailRejected, TypeOK, TickTypeOK, Args, TickSteps, TaskSteps, FailureArgs
<1> QED
  BY <1>1, <1>2, <1>3, <1>4, <1>5, <1>6, <1>7, <1>8, <1>9, <1>10, <1>11, <1>12,
     <1>13, <1>14, <1>15, <1>16, <1>17, <1>18 DEF TickStep

LEMMA CancelTypes == ASSUME TypeOK, Cancel PROVE TypeOK'
BY DEF Cancel, TypeOK, RunStates, TaskStates, tickVars, routeVars

LEMMA RestartTypes ==
    ASSUME TypeOK, NEW i \in Instance, Restart(i)
    PROVE  TypeOK'
<1> DEFINE Row == [task : Task, state : ApprovalStates]
<1>1. taskState' \in [Task -> TaskStates] /\ UNCHANGED <<runState, retryCount>>
  BY DEF Restart, RecoverOrphans, TypeOK, TaskStates
<1>2. approvals' \in Seq(Row)
  <2>1. PICK overdue \in SUBSET DOMAIN approvals :
          approvals' = [a \in DOMAIN approvals |->
                           IF a \in overdue /\ approvals[a].state = "PENDING"
                           THEN [task |-> approvals[a].task, state |-> "EXPIRED"]
                           ELSE approvals[a]]
    BY DEF Restart, ExpireOverdue
  <2>2. approvals \in Seq(Row)
    BY DEF TypeOK
  <2>3. Len(approvals) \in Nat /\ DOMAIN approvals = 1..Len(approvals)
    BY <2>2
  <2>4. \A a \in DOMAIN approvals :
          /\ approvals[a] \in Row
          /\ [task |-> approvals[a].task, state |-> "EXPIRED"] \in Row
    <3> SUFFICES ASSUME NEW a \in DOMAIN approvals
                 PROVE  /\ approvals[a] \in Row
                        /\ [task |-> approvals[a].task, state |-> "EXPIRED"] \in Row
      OBVIOUS
    <3>1. approvals[a] \in Row
      BY <2>2, <2>3, ElementOfSeq
    <3> QED
      BY <3>1 DEF ApprovalStates
  <2>5. approvals' \in [1..Len(approvals) -> Row]
    <3> HIDE DEF Row
    <3> QED
      BY <2>1, <2>3, <2>4
  <2>6. Seq(Row) = UNION {[1..n -> Row] : n \in Nat}
    BY SeqDef, Zenon
  <2> HIDE DEF Row
  <2> QED
    BY <2>3, <2>5, <2>6
<1>3. /\ processing' \in [Instance -> SUBSET Task]
      /\ pc' \in [Tick -> TickSteps]
      /\ batch' \in [Tick -> SUBSET Task]
      /\ cur' \in [Tick -> Task \cup {NoTask}]
      /\ arg' \in [Tick -> Args]
      /\ routePc' \in [RTick -> {"idle", "queue", "dispatch", "execute", "timeout"}]
      /\ found' \in [RTick -> BOOLEAN]
  BY DEF Restart, TypeOK, TickSteps, Args
<1> QED
  BY <1>1, <1>2, <1>3 DEF TypeOK, Args

LEMMA TypeStep == TypeOK /\ Ownership /\ [Next]_vars => TypeOK'
<1> SUFFICES ASSUME TypeOK, Ownership, [Next]_vars PROVE TypeOK'
  OBVIOUS
<1>1. CASE UNCHANGED vars
  BY <1>1 DEF vars, dbVars, tickVars, routeVars, TypeOK
<1> QED
  BY <1>1, RouteStepTypes, TickStepTypes, CancelTypes, RestartTypes DEF Next

-----------------------------------------------------------------------------
(***************************************************************************)
(* Ownership: the steps of one tick leave the tasks of the others alone.   *)
(***************************************************************************)

\* Queueing and dispatching move no task that a tick has claimed.
LEMMA ClaimedKept ==
    ASSUME TypeOK, Ownership, NEW v \in Tick, NEW t \in batch[v]
    PROVE  /\ t \in Task
           /\ taskState[t] \in {"RUNNING", "CANCELLED", "SUCCEEDED", "FAILED"}
           /\ AfterQueueing[t] = taskState[t]
           /\ \A chosen : DispatchOrConflict(chosen) =>
                 taskState'[t] = taskState[t] /\ retryCount'[t] = retryCount[t]
<1>1. t \in Task
  BY DEF TypeOK
<1>2. taskState[t] \in {"RUNNING", "CANCELLED", "SUCCEEDED", "FAILED"}
  BY DEF Ownership, Held, HeldStates, StatesAt
<1> QED
  BY <1>1, <1>2
  DEF AfterQueueing, QueueableTasks, DispatchOrConflict, DispatchTasks, ReadyTasks, dbVars

LEMMA RouteStepOwnership ==
    ASSUME TypeOK, Ownership, NEW r \in RTick, RouteStep(r)
    PROVE  Ownership'
<1>1. UNCHANGED tickVars
  BY DEF RouteStep, RouteFire, RouteQueue, RouteDispatch, RouteExecute, RouteTimeOut
<1>2. \A v \in Tick : \A t \in batch[v] :
          taskState'[t] = taskState[t] /\ retryCount'[t] = retryCount[t]
  BY ClaimedKept
  DEF RouteStep, RouteFire, RouteQueue, RouteDispatch, RouteExecute, RouteTimeOut, dbVars
<1> QED
  BY <1>1, <1>2, UntouchedKeeps

LEMMA CancelOwnership == ASSUME TypeOK, Ownership, Cancel PROVE Ownership'
<1>1. UNCHANGED tickVars /\ UNCHANGED retryCount
  BY DEF Cancel
<1>2. Held'
  <2> SUFFICES ASSUME NEW v \in Tick, NEW t \in batch[v]
               PROVE  taskState'[t] \in HeldStates(v, t)
    BY <1>1 DEF Held, HeldStates, StatesAt, tickVars
  <2>1. t \in Task /\ taskState[t] \in HeldStates(v, t)
    BY DEF Ownership, Held, TypeOK
  <2>2. \/ taskState'[t] = taskState[t]
        \/ taskState[t] = "RUNNING" /\ taskState'[t] = "CANCELLED"
    BY <2>1, ClaimedKept DEF Cancel, InProgress
  <2> QED
    BY <2>1, <2>2 DEF HeldStates, StatesAt
<1> QED
  BY <1>1, <1>2 DEF Ownership, Exclusive, Owned, CoolingDown, tickVars

\* The instance that dies holds every tick: none has a task afterwards.
LEMMA RestartOwnership ==
    ASSUME SingleInstance, NEW i \in Instance, Restart(i)
    PROVE  Ownership'
<1>1. \A v \in Tick : Home[v] = i
  BY HomeAssumption DEF SingleInstance
<1>2. \A v \in Tick : pc'[v] = "idle" /\ batch'[v] = {}
  BY <1>1 DEF Restart
<1> QED
  BY <1>2 DEF Ownership, Exclusive, Owned, Held, CoolingDown, TaskSteps

\* A row updated by id, in or out of transitionTaskState, is one row.
LEMMA TransitionKeeps ==
    ASSUME TypeOK, NEW w \in Tick, NEW target, TransitionTask(cur[w], target)
    PROVE  OthersKept(w)
BY DEF TypeOK, TransitionTask, OthersKept

LEMMA ClaimOwnership ==
    ASSUME SingleInstance, TypeOK, Ownership, NEW w \in Tick, Claim(w)
    PROVE  Ownership'
<1>1. PICK rows \in ClaimRows : LET mine == Unprocessed(w, rows) IN
        /\ taskState' = [t \in Task |-> IF t \in mine THEN "RUNNING" ELSE taskState[t]]
        /\ processing' = [processing EXCEPT ![Home[w]] = @ \cup mine]
        /\ batch' = [batch EXCEPT ![w] = mine]
        /\ pc' = [pc EXCEPT ![w] = IF mine = {} THEN "idle" ELSE "next"]
  BY DEF Claim
<1> DEFINE mine == Unprocessed(w, rows)
<1>2. /\ mine \subseteq Task
      /\ mine \cap processing[Home[w]] = {}
  BY DEF ClaimRows, Claimable, Unprocessed
<1>3. /\ \A v \in Tick : Home[v] = Home[w] /\ Home[v] \in Instance
      /\ pc[w] = "claim" /\ UNCHANGED <<cur, retryCount>>
  BY HomeAssumption DEF SingleInstance, Claim
<1>4. \A v \in Tick : v # w => /\ batch'[v] = batch[v] /\ pc'[v] = pc[v]
                               /\ batch[v] \cap mine = {}
  BY <1>1, <1>2, <1>3 DEF TypeOK, Ownership, Owned
<1>5. batch'[w] = mine /\ pc'[w] \in {"idle", "next"}
      /\ (pc'[w] = "idle" => mine = {})
  BY <1>1 DEF TypeOK
<1>6. processing'[Home[w]] = processing[Home[w]] \cup mine
  BY <1>1, <1>3 DEF TypeOK
<1> HIDE DEF mine
<1>7. Exclusive'
  BY <1>4, <1>5 DEF Ownership, Exclusive
<1>8. Owned'
  BY <1>3, <1>4, <1>5, <1>6 DEF Ownership, Owned, TaskSteps
<1>9. Held'
  <2> SUFFICES ASSUME NEW v \in Tick, NEW t \in batch'[v]
               PROVE  taskState'[t] \in HeldStates(v, t)'
    BY DEF Held
  <2>1. CASE v = w
    <3>1. taskState'[t] = "RUNNING"
      BY <2>1, <1>1, <1>2, <1>5 DEF mine
    <3> QED
      BY <2>1, <3>1, <1>5 DEF HeldStates, StatesAt
  <2>2. CASE v # w
    <3>1. t \in batch[v] /\ t \in Task /\ taskState'[t] = taskState[t]
      BY <2>2, <1>1, <1>4 DEF TypeOK, mine
    <3> QED
      BY <2>2, <3>1, <1>3, <1>4 DEF Ownership, Held, HeldStates, StatesAt
  <2> QED
    BY <2>1, <2>2
<1>10. CoolingDown'
  BY <1>3, <1>4, <1>5 DEF Ownership, CoolingDown
<1> QED
  BY <1>7, <1>8, <1>9, <1>10 DEF Ownership

LEMMA TickStepOwnership ==
    ASSUME SingleInstance, TypeOK, Ownership, NEW w \in Tick, TickStep(w)
    PROVE  Ownership'
<1>a. pc[w] \in TaskSteps => /\ cur[w] \in batch[w]
                             /\ cur[w] \in Task
                             /\ taskState[cur[w]] \in StatesAt(pc[w])
  BY DEF Ownership, Owned, Held, HeldStates, TypeOK
<1>b. UNCHANGED dbVars => OthersKept(w)
  BY DEF OthersKept, dbVars
<1>1. CASE Fire(w) \/ Dispatch(w)
  <2>1. /\ pc[w] \in {"idle", "dispatch"}
        /\ \E s \in {"dispatch", "claim"} : pc' = [pc EXCEPT ![w] = s]
        /\ UNCHANGED <<processing, batch, cur>>
    BY <1>1 DEF Fire, Dispatch
  <2>2. \A v \in Tick : \A t \in batch[v] :
            taskState'[t] = taskState[t] /\ retryCount'[t] = retryCount[t]
    BY <1>1, ClaimedKept DEF Fire, Dispatch, dbVars
  <2>3. /\ pc'[w] \in {"dispatch", "claim"} /\ batch[w] = {}
        /\ \A v \in Tick : v # w => pc'[v] = pc[v]
    BY <2>1 DEF TypeOK, Ownership, Owned
  <2>4. Exclusive' /\ Owned'
    BY <2>1, <2>3 DEF Ownership, Exclusive, Owned, TaskSteps
  <2>5. Held'
    BY <2>1, <2>2, <2>3 DEF Ownership, Held, HeldStates
  <2>6. CoolingDown'
    BY <2>1, <2>2, <2>3 DEF Ownership, CoolingDown, Owned, TaskSteps
  <2> QED
    BY <2>4, <2>5, <2>6 DEF Ownership
<1>2. CASE Claim(w)
  BY <1>2, ClaimOwnership
<1>3. CASE ClaimCommitFails(w)
  <2>1. /\ pc[w] = "claim" /\ UNCHANGED <<taskState, retryCount, batch, cur>>
        /\ \A j \in Instance : processing[j] \subseteq processing'[j]
        /\ pc' = [pc EXCEPT ![w] = "idle"]
    BY <1>3 DEF ClaimCommitFails, TypeOK, dbVars
  <2>2. pc'[w] = "idle" /\ batch[w] = {} /\ \A v \in Tick : v # w => pc'[v] = pc[v]
    BY <2>1 DEF TypeOK, Ownership, Owned
  <2>3. Exclusive' /\ Owned'
    BY <2>1, <2>2, HomeAssumption DEF Ownership, Exclusive, Owned, TaskSteps
  <2>4. Held' /\ CoolingDown'
    BY <2>1, <2>2 DEF Ownership, Held, HeldStates, CoolingDown
  <2> QED
    BY <2>3, <2>4 DEF Ownership
<1>4. CASE Begin(w)
  <2>1. /\ pc[w] = "next" /\ UNCHANGED <<taskState, retryCount, batch, processing>>
        /\ cur'[w] \in batch[w] /\ pc'[w] \in {"call", "requeue"}
        /\ \A v \in Tick : v # w => pc'[v] = pc[v] /\ cur'[v] = cur[v]
    BY <1>4 DEF Begin, TypeOK, dbVars
  <2>2. Exclusive' /\ Owned'
    BY <2>1 DEF Ownership, Exclusive, Owned, TaskSteps
  <2>3. Held'
    <3> SUFFICES ASSUME NEW v \in Tick, NEW t \in batch[v]
                 PROVE  taskState[t] \in HeldStates(v, t)'
      BY <2>1 DEF Held
    <3> QED
      BY <2>1 DEF Ownership, Held, HeldStates, StatesAt
  <2>4. CoolingDown'
    BY <2>1 DEF Ownership, CoolingDown
  <2> QED
    BY <2>2, <2>3, <2>4 DEF Ownership
<1>5. CASE Requeue(w)
  <2>1. OthersKept(w)
    BY <1>5 DEF Requeue, Requeued, OthersKept, TypeOK
  <2> QED
    BY <1>5, <2>1, FinishKeeps DEF Requeue, TaskSteps
<1>6. CASE CallSucceeds(w) \/ CallFails(w) \/ NoProvider(w) \/ CallNeedsApproval(w)
  <2>1. PICK step \in {"complete", "fail", "await_approval"}, a \in FailureArgs \cup {"none"} :
          GoTo(w, step, a)
    BY <1>6 DEF CallSucceeds, CallFails, NoProvider, CallNeedsApproval, FailureArgs
  <2>2. pc[w] = "call" /\ UNCHANGED dbVars
    BY <1>6 DEF CallSucceeds, CallFails, NoProvider, CallNeedsApproval
  <2>3. step \in TaskSteps /\ pc[w] \in TaskSteps /\ step # "cooldown"
    BY <2>2 DEF TaskSteps
  <2>4. taskState'[cur[w]] \in StatesAt(step)
    BY <1>a, <2>2, <2>3 DEF StatesAt, dbVars
  <2> QED
    BY <1>b, <2>1, <2>2, <2>3, <2>4, GoToKeeps
<1>7. CASE AwaitApproval(w)
  BY <1>7, FinishKeeps DEF AwaitApproval, TaskSteps, OthersKept
<1>8. CASE Complete(w)
  <2>1. GoTo(w, "check", "none") /\ pc[w] = "complete"
    BY <1>8 DEF Complete
  <2>2. taskState'[cur[w]] \in StatesAt("check")
    BY <1>8, <1>a, <2>1 DEF Complete, TransitionTask, StatesAt, TypeOK, TaskSteps
  <2>3. OthersKept(w)
    BY <1>8, TransitionKeeps DEF Complete
  <2> QED
    BY <2>1, <2>2, <2>3, GoToKeeps DEF TaskSteps
<1>9. CASE CompleteRejected(w)
  <2>1. GoTo(w, "fail", "INTERNAL_ERROR") /\ pc[w] = "complete" /\ UNCHANGED dbVars
    BY <1>9 DEF CompleteRejected
  <2>2. taskState'[cur[w]] \in StatesAt("fail")
    BY <2>1, <1>a DEF StatesAt, TaskSteps, dbVars
  <2> QED
    BY <1>b, <2>1, <2>2, GoToKeeps DEF TaskSteps
<1>10. CASE Check(w)
  <2>1. pc[w] = "check" /\ taskState' = AfterQueueing /\ UNCHANGED retryCount
    BY <1>10 DEF Check
  <2>2. OthersKept(w)
    BY <2>1, ClaimedKept DEF OthersKept
  <2>3. taskState'[cur[w]] \in StatesAt("declare")
    BY <2>1, <1>a, ClaimedKept DEF StatesAt, TaskSteps
  <2>4. CASE Finish(w)
    BY <2>1, <2>2, <2>4, FinishKeeps DEF TaskSteps
  <2>5. CASE GoTo(w, "declare", Verdict(AfterQueueing))
    BY <2>1, <2>2, <2>3, <2>5, GoToKeeps DEF TaskSteps
  <2> QED
    BY <1>10, <2>4, <2>5 DEF Check
<1>11. CASE Declare(w)
  BY <1>11, FinishKeeps DEF Declare, TaskSteps, OthersKept
<1>12. CASE Fail(w)
  <2>1. pc[w] = "fail" /\ TransitionTask(cur[w], "FAILED")
    BY <1>12 DEF Fail
  <2>2. OthersKept(w)
    BY <2>1, TransitionKeeps
  <2>3. taskState'[cur[w]] = "FAILED" /\ UNCHANGED retryCount
    BY <2>1, <1>a DEF TransitionTask, TypeOK, TaskSteps
  <2>4. CASE Finish(w)
    BY <2>1, <2>2, <2>4, FinishKeeps DEF TaskSteps
  <2>5. CASE /\ WillRetry(cur[w], FailureType(arg[w]))
             /\ GoTo(w, "cooldown", arg[w])
    <3>1. taskState'[cur[w]] \in StatesAt("cooldown")
      BY <2>3 DEF StatesAt
    <3>2. retryCount'[cur[w]] < MaxRetries
      BY <2>3, <2>5 DEF WillRetry
    <3> QED
      BY <2>1, <2>2, <2>5, <3>1, <3>2, GoToKeeps DEF TaskSteps
  <2> QED
    BY <1>12, <2>4, <2>5 DEF Fail
<1>13. CASE Retry(w)
  BY <1>13, TransitionKeeps, FinishKeeps DEF Retry, TaskSteps
<1>14. CASE FailRejected(w)
  <2>1. pc[w] \in {"fail", "cooldown"} /\ UNCHANGED dbVars
    BY <1>14 DEF FailRejected
  <2>2. taskState'[cur[w]] \in StatesAt("fail")
    BY <2>1, <1>a DEF StatesAt, TaskSteps, dbVars
  <2>3. CASE GoTo(w, "fail", "INTERNAL_ERROR")
    BY <1>b, <2>1, <2>2, <2>3, GoToKeeps DEF TaskSteps
  <2>4. CASE Abort(w)
    BY <2>1, <2>4, AbortKeeps DEF TaskSteps, dbVars
  <2> QED
    BY <1>14, <2>3, <2>4 DEF FailRejected
<1> QED
  BY <1>1, <1>2, <1>3, <1>4, <1>5, <1>6, <1>7, <1>8, <1>9, <1>10, <1>11, <1>12,
     <1>13, <1>14 DEF TickStep

LEMMA OwnershipStep ==
    SingleInstance /\ TypeOK /\ Ownership /\ [Next]_vars => Ownership'
<1> SUFFICES ASSUME SingleInstance, TypeOK, Ownership, [Next]_vars PROVE Ownership'
  OBVIOUS
<1>1. CASE UNCHANGED vars
  BY <1>1, UntouchedKeeps DEF vars, dbVars
<1> QED
  BY <1>1, RouteStepOwnership, TickStepOwnership, CancelOwnership, RestartOwnership
  DEF Next

-----------------------------------------------------------------------------
(***************************************************************************)
(* Who holds which task.  Only the ticks write processingTasks, so the     *)
(* claims of a single server exclude each other whatever becomes of the    *)
(* tasks meanwhile, and whatever the server forgets in a crash.            *)
(***************************************************************************)
LEMMA OneHome ==
    ASSUME SingleInstance, NEW w \in Tick
    PROVE  Home[w] \in Instance /\ \A v \in Tick : Home[v] = Home[w]
BY HomeAssumption DEF SingleInstance

LEMMA InHand ==
    ASSUME ClaimsInv, NEW w \in Tick, pc[w] \in TaskSteps
    PROVE  cur[w] \in batch[w] /\ cur[w] \in Task
BY DEF ClaimsInv, Owned, ClaimsTypeOK

\* What a tick does with the claims of the others, and with its own.
OthersAlone(w) ==
    \A v \in Tick : v # w => batch'[v] = batch[v] /\ pc'[v] = pc[v] /\ cur'[v] = cur[v]

LEMMA LetGo ==
    ASSUME SingleInstance, ClaimsInv, NEW w \in Tick, pc[w] \in TaskSteps,
           Finish(w) \/ Abort(w)
    PROVE  /\ ClaimsInv'
           /\ OthersAlone(w)
           /\ batch'[w] \subseteq batch[w] \ {cur[w]}
           /\ pc'[w] \in {"idle", "next"}
           /\ cur'[w] = NoTask
<1>1. Home[w] \in Instance /\ \A v \in Tick : Home[v] = Home[w]
  BY OneHome
<1>2. cur[w] \in batch[w] /\ cur[w] \in Task
  BY InHand
<1>3. OthersAlone(w) /\ cur'[w] = NoTask
  BY DEF OthersAlone, Finish, Abort, ClaimsInv, ClaimsTypeOK
<1>4. /\ batch'[w] \subseteq batch[w] \ {cur[w]}
      /\ pc'[w] \in {"idle", "next"}
      /\ pc'[w] = "idle" => batch'[w] = {}
  BY <1>2 DEF Finish, Abort, ClaimsInv, ClaimsTypeOK
<1>5. processing'[Home[w]] = processing[Home[w]] \ {cur[w]}
  BY <1>1 DEF Finish, Abort, ClaimsInv, ClaimsTypeOK
<1>6. ClaimsTypeOK'
  BY <1>1 DEF ClaimsInv, ClaimsTypeOK, Finish, Abort, TickSteps
<1>7. \A v \in Tick : v # w => cur[w] \notin batch[v]
  BY <1>2 DEF ClaimsInv, Exclusive
<1>8. Exclusive'
  BY <1>3, <1>4 DEF ClaimsInv, Exclusive, OthersAlone
<1>9. Owned'
  <2> SUFFICES ASSUME NEW v \in Tick
               PROVE  /\ batch'[v] \subseteq processing'[Home[v]]
                      /\ pc'[v] \in {"idle", "dispatch", "claim"} => batch'[v] = {}
                      /\ pc'[v] \in TaskSteps => cur'[v] \in batch'[v]
    BY DEF Owned
  <2>1. CASE v = w
    BY <2>1, <1>1, <1>4, <1>5 DEF ClaimsInv, Owned, TaskSteps
  <2>2. CASE v # w
    BY <2>2, <1>1, <1>3, <1>5, <1>7 DEF ClaimsInv, Owned, OthersAlone
  <2> QED
    BY <2>1, <2>2
<1> QED
  BY <1>3, <1>4, <1>6, <1>8, <1>9 DEF ClaimsInv

LEMMA GoOn ==
    ASSUME ClaimsInv, NEW w \in Tick, pc[w] \in TaskSteps,
           NEW step \in TaskSteps, NEW a, GoTo(w, step, a)
    PROVE  /\ ClaimsInv'
           /\ OthersAlone(w)
           /\ batch'[w] = batch[w] /\ cur'[w] = cur[w] /\ pc'[w] = step
<1>1. /\ OthersAlone(w)
      /\ pc'[w] = step
      /\ UNCHANGED <<processing, batch, cur>>
  BY DEF GoTo, OthersAlone, ClaimsInv, ClaimsTypeOK
<1>2. ClaimsTypeOK'
  BY DEF GoTo, ClaimsInv, ClaimsTypeOK, TickSteps
<1>3. cur[w] \in batch[w]
  BY InHand
<1>4. Owned' /\ Exclusive'
  BY <1>1, <1>3 DEF ClaimsInv, Owned, Exclusive, OthersAlone, TaskSteps
<1> QED
  BY <1>1, <1>2, <1>4 DEF ClaimsInv

\* A tick claims tasks that no tick of its process holds.
LEMMA ClaimTakes ==
    ASSUME SingleInstance, ClaimsInv, NEW w \in Tick, Claim(w)
    PROVE  /\ ClaimsInv'
           /\ OthersAlone(w)
           /\ pc'[w] \in {"idle", "next"} /\ cur'[w] = cur[w]
           /\ \A t \in batch'[w] : taskState[t] = "DISPATCHED" /\ taskState'[t] = "RUNNING"
           /\ \A t \in Task \ batch'[w] : taskState'[t] = taskState[t]
           /\ \A v \in Tick : v # w => batch'[v] \cap batch'[w] = {}
<1>1. PICK rows \in ClaimRows : LET mine == Unprocessed(w, rows) IN
        /\ taskState' = [t \in Task |-> IF t \in mine THEN "RUNNING" ELSE taskState[t]]
        /\ processing' = [processing EXCEPT ![Home[w]] = @ \cup mine]
        /\ batch' = [batch EXCEPT ![w] = mine]
        /\ pc' = [pc EXCEPT ![w] = IF mine = {} THEN "idle" ELSE "next"]
  BY DEF Claim
<1> DEFINE mine == Unprocessed(w, rows)
<1>2. /\ mine \subseteq Task
      /\ mine \cap processing[Home[w]] = {}
      /\ \A t \in mine : taskState[t] = "DISPATCHED"
  BY DEF ClaimRows, Claimable, Unprocessed
<1>3. /\ Home[w] \in Instance /\ \A v \in Tick : Home[v] = Home[w]
      /\ UNCHANGED cur
  BY OneHome DEF Claim
<1>4. /\ batch' = [batch EXCEPT ![w] = mine]
      /\ pc' = [pc EXCEPT ![w] = IF mine = {} THEN "idle" ELSE "next"]
      /\ processing' = [processing EXCEPT ![Home[w]] = @ \cup mine]
      /\ taskState' = [t \in Task |-> IF t \in mine THEN "RUNNING" ELSE taskState[t]]
  BY <1>1
<1> HIDE DEF mine
<1>5. /\ OthersAlone(w) /\ batch'[w] = mine
      /\ pc'[w] = IF mine = {} THEN "idle" ELSE "next"
      /\ processing'[Home[w]] = processing[Home[w]] \cup mine
  BY <1>3, <1>4 DEF OthersAlone, ClaimsInv, ClaimsTypeOK
<1>6. \A v \in Tick : batch[v] \cap mine = {}
  BY <1>2, <1>3 DEF ClaimsInv, Owned
<1>7. ClaimsTypeOK'
  BY <1>2, <1>3, <1>4 DEF ClaimsInv, ClaimsTypeOK, TickSteps
<1>8. Exclusive'
  BY <1>5, <1>6 DEF ClaimsInv, Exclusive, OthersAlone
<1>9. Owned'
  BY <1>3, <1>5 DEF ClaimsInv, Owned, OthersAlone, TaskSteps
<1> QED
  BY <1>2, <1>3, <1>4, <1>5, <1>6, <1>7, <1>8, <1>9 DEF ClaimsInv, OthersAlone

\* The steps of a tick between its pass over the batch and its next claim.
LEMMA PassKeeps ==
    ASSUME SingleInstance, ClaimsInv, NEW w \in Tick,
           Fire(w) \/ Dispatch(w) \/ ClaimCommitFails(w) \/ Begin(w)
    PROVE  ClaimsInv' /\ OthersAlone(w) /\ UNCHANGED batch
<1>1. Home[w] \in Instance /\ \A v \in Tick : Home[v] = Home[w]
  BY OneHome
<1>2. CASE Fire(w)
  BY <1>2
  DEF Fire, ClaimsInv, ClaimsTypeOK, Owned, Exclusive, OthersAlone, TickSteps, TaskSteps
<1>3. CASE Dispatch(w)
  BY <1>3
  DEF Dispatch, ClaimsInv, ClaimsTypeOK, Owned, Exclusive, OthersAlone, TickSteps, TaskSteps
<1>4. CASE ClaimCommitFails(w)
  <2>1. PICK rows \in ClaimRows :
          processing' = [processing EXCEPT ![Home[w]] = @ \cup Unprocessed(w, rows)]
    BY <1>4 DEF ClaimCommitFails
  <2>2. Unprocessed(w, rows) \in SUBSET Task
    BY DEF ClaimRows, Claimable, Unprocessed
  <2>3. ClaimsTypeOK'
    BY <1>1, <1>4, <2>1, <2>2 DEF ClaimCommitFails, ClaimsInv, ClaimsTypeOK, TickSteps
  <2>4. Owned' /\ Exclusive' /\ OthersAlone(w)
    BY <1>1, <1>4, <2>1
    DEF ClaimCommitFails, ClaimsInv, ClaimsTypeOK, Owned, Exclusive, OthersAlone, TaskSteps
  <2> QED
    BY <1>4, <2>3, <2>4 DEF ClaimCommitFails, ClaimsInv
<1>5. CASE Begin(w)
  <2>1. PICK t \in batch[w] : cur' = [cur EXCEPT ![w] = t]
    BY <1>5 DEF Begin
  <2>2. ClaimsTypeOK'
    BY <1>5, <2>1 DEF Begin, ClaimsInv, ClaimsTypeOK, TickSteps, TaskSteps
  <2>3. Owned' /\ Exclusive' /\ OthersAlone(w)
    BY <1>5, <2>1
    DEF Begin, ClaimsInv, ClaimsTypeOK, Owned, Exclusive, OthersAlone, TaskSteps
  <2> QED
    BY <1>5, <2>2, <2>3 DEF Begin, ClaimsInv
<1> QED
  BY <1>2, <1>3, <1>4, <1>5

LEMMA TickKeepsClaims ==
    ASSUME SingleInstance, ClaimsInv, NEW w \in Tick, TickStep(w)
    PROVE  ClaimsInv'
<1>1. CASE Fire(w) \/ Dispatch(w) \/ ClaimCommitFails(w) \/ Begin(w)
  BY <1>1, PassKeeps
<1>2. CASE Claim(w)
  BY <1>2, ClaimTakes
<1>3. CASE \/ CallSucceeds(w) \/ CallFails(w) \/ NoProvider(w) \/ CallNeedsApproval(w)
           \/ Complete(w) \/ CompleteRejected(w)
  BY <1>3, GoOn
  DEF CallSucceeds, CallFails, NoProvider, CallNeedsApproval, Complete, CompleteRejected,
      TaskSteps
<1>4. CASE \/ Requeue(w) \/ AwaitApproval(w) \/ Check(w) \/ Declare(w)
           \/ Fail(w) \/ Retry(w) \/ FailRejected(w)
  <2>1. pc[w] \in TaskSteps
    BY <1>4
    DEF Requeue, AwaitApproval, Check, Declare, Fail, Retry, FailRejected, TaskSteps
  <2>2. Finish(w) \/ Abort(w) \/ \E step \in TaskSteps : \E a : GoTo(w, step, a)
    BY <1>4
    DEF Requeue, AwaitApproval, Check, Declare, Fail, Retry, FailRejected, TaskSteps
  <2> QED
    BY <2>1, <2>2, LetGo, GoOn
<1> QED
  BY <1>1, <1>2, <1>3, <1>4 DEF TickStep

LEMMA RestartKeepsClaims ==
    ASSUME SingleInstance, ClaimsInv, NEW i \in Instance, Restart(i)
    PROVE  ClaimsInv'
<1>1. \A w \in Tick : Home[w] = i
  BY HomeAssumption DEF SingleInstance
<1>2. \A w \in Tick : pc'[w] = "idle" /\ batch'[w] = {}
  BY <1>1 DEF Restart
<1>3. ClaimsTypeOK'
  BY DEF Restart, ClaimsInv, ClaimsTypeOK, TickSteps
<1> QED
  BY <1>2, <1>3 DEF ClaimsInv, Owned, Exclusive, TaskSteps

LEMMA ClaimsStay == ClaimsInv /\ UNCHANGED tickVars => ClaimsInv'
BY DEF ClaimsInv, ClaimsTypeOK, Owned, Exclusive, tickVars

LEMMA WorkersKeepClaims ==
    ASSUME SingleInstance, ClaimsInv, [Next]_vars
    PROVE  ClaimsInv'
<1>1. ASSUME NEW r \in RTick, RouteStep(r) PROVE UNCHANGED tickVars
  BY <1>1
  DEF RouteStep, RouteFire, RouteQueue, RouteDispatch, RouteExecute, RouteTimeOut
<1>2. ASSUME Cancel PROVE UNCHANGED tickVars
  BY <1>2 DEF Cancel
<1>3. ASSUME UNCHANGED vars PROVE UNCHANGED tickVars
  BY <1>3 DEF vars
<1> QED
  BY <1>1, <1>2, <1>3, ClaimsStay, TickKeepsClaims, RestartKeepsClaims DEF Next

LEMMA ClaimsInitial == Init => ClaimsInv
BY DEF Init, ClaimsInv, ClaimsTypeOK, Owned, Exclusive, TickSteps, TaskSteps

-----------------------------------------------------------------------------
(***************************************************************************)
(* The limit of dispatchTasks.  Nothing else makes a task active, so the   *)
(* limit needs neither ownership nor a single server.                      *)
(***************************************************************************)
TasksTyped == taskState \in [Task -> TaskStates]

LEMMA ActiveFinite ==
    /\ IsFiniteSet(ActiveTasks) /\ Cardinality(ActiveTasks) \in Nat
    /\ IsFiniteSet(ReadyTasks) /\ Cardinality(ReadyTasks) \in Nat
<1>1. ActiveTasks \subseteq Task /\ ReadyTasks \subseteq Task
  BY DEF ActiveTasks, ReadyTasks
<1> QED
  BY <1>1, TaskAssumption, FS_Subset, FS_CardinalityType

\* What a dispatch hands out fits next to what is active.
LEMMA ChosenFit ==
    ASSUME NEW chosen, chosen # {}, DispatchTasks(chosen)
    PROVE  Cardinality(ActiveTasks \cup chosen) <= MaxConcurrent
<1>1. IsFiniteSet(chosen) /\ ActiveTasks \cap chosen = {}
  BY ActiveFinite, FS_Subset DEF DispatchTasks, ActiveTasks, ReadyTasks
<1>2. Cardinality(chosen) \in Nat
  BY <1>1, FS_CardinalityType
<1>3. Cardinality(chosen) <= MaxConcurrent - Cardinality(ActiveTasks)
  BY <1>2, ActiveFinite, ConcurrentAssumption DEF DispatchTasks, FreeSlots
<1>4. Cardinality(ActiveTasks \cup chosen)
        = Cardinality(ActiveTasks) + Cardinality(chosen)
          - Cardinality(ActiveTasks \cap chosen)
  BY <1>1, ActiveFinite, FS_Union
<1> QED
  BY <1>1, <1>2, <1>3, <1>4, ActiveFinite, FS_EmptySet, ConcurrentAssumption

LEMMA FewerBounded ==
    ASSUME ActiveBound, ActiveTasks' \subseteq ActiveTasks
    PROVE  ActiveBound'
<1>1. Cardinality(ActiveTasks') <= Cardinality(ActiveTasks) /\ IsFiniteSet(ActiveTasks')
  BY ActiveFinite, FS_Subset
<1>2. Cardinality(ActiveTasks') \in Nat
  BY <1>1, FS_CardinalityType
<1> QED
  BY <1>1, <1>2, ActiveFinite, ConcurrentAssumption DEF ActiveBound

LEMMA DispatchBounded ==
    ASSUME TasksTyped, ActiveBound, NEW chosen, DispatchOrConflict(chosen)
    PROVE  TasksTyped' /\ ActiveBound'
<1>1. TasksTyped'
  BY DEF DispatchOrConflict, DispatchTasks, dbVars, TasksTyped, TaskStates
<1>2. ActiveTasks' = ActiveTasks \/ (DispatchTasks(chosen) /\ chosen # {})
  BY DEF DispatchOrConflict, DispatchTasks, dbVars, ActiveTasks, TasksTyped
<1>3. DispatchTasks(chosen) => ActiveTasks' = ActiveTasks \cup chosen
  BY DEF DispatchTasks, ActiveTasks, ReadyTasks
<1>4. CASE ActiveTasks' = ActiveTasks
  BY <1>1, <1>4, FewerBounded
<1>5. CASE DispatchTasks(chosen) /\ chosen # {}
  BY <1>1, <1>3, <1>5, ChosenFit DEF ActiveBound
<1> QED
  BY <1>2, <1>4, <1>5

\* Queueing, and moving a task to a state in which it is not active.
LEMMA QueueingBounded ==
    ASSUME TasksTyped, ActiveBound, taskState' = AfterQueueing
    PROVE  TasksTyped' /\ ActiveBound'
<1>1. TasksTyped' /\ ActiveTasks' \subseteq ActiveTasks
  BY DEF AfterQueueing, QueueableTasks, ActiveTasks, TasksTyped, TaskStates
<1> QED
  BY <1>1, FewerBounded

LEMMA MoveBounded ==
    ASSUME TasksTyped, ActiveBound, NEW t, NEW state \in TaskStates \ {"DISPATCHED", "RUNNING"},
           taskState' = [taskState EXCEPT ![t] = state]
    PROVE  TasksTyped' /\ ActiveBound'
<1>1. TasksTyped' /\ ActiveTasks' \subseteq ActiveTasks
  BY DEF ActiveTasks, TasksTyped
<1> QED
  BY <1>1, FewerBounded

LEMMA StillBounded ==
    ASSUME TasksTyped, ActiveBound, taskState' = taskState
    PROVE  TasksTyped' /\ ActiveBound'
<1>1. TasksTyped' /\ ActiveTasks' \subseteq ActiveTasks
  BY DEF ActiveTasks, TasksTyped
<1> QED
  BY <1>1, FewerBounded

LEMMA WorkersBounded ==
    ASSUME TasksTyped, ActiveBound, [Next]_vars
    PROVE  TasksTyped' /\ ActiveBound'
<1>1. ASSUME NEW r \in RTick, RouteStep(r) PROVE TasksTyped' /\ ActiveBound'
  <2>1. CASE RouteFire(r) \/ RouteExecute(r) \/ RouteTimeOut(r)
    BY <2>1, StillBounded DEF RouteFire, RouteExecute, RouteTimeOut, dbVars
  <2>2. CASE RouteQueue(r)
    BY <2>2, QueueingBounded DEF RouteQueue
  <2>3. CASE RouteDispatch(r)
    BY <2>3, DispatchBounded DEF RouteDispatch
  <2> QED
    BY <1>1, <2>1, <2>2, <2>3 DEF RouteStep
<1>2. ASSUME NEW w \in Tick, TickStep(w) PROVE TasksTyped' /\ ActiveBound'
  <2>1. CASE \/ Fire(w) \/ ClaimCommitFails(w) \/ Begin(w) \/ CallSucceeds(w) \/ CallFails(w)
             \/ NoProvider(w) \/ CallNeedsApproval(w) \/ AwaitApproval(w)
             \/ CompleteRejected(w) \/ Declare(w) \/ FailRejected(w)
    BY <2>1, StillBounded
    DEF Fire, ClaimCommitFails, Begin, CallSucceeds, CallFails, NoProvider,
        CallNeedsApproval, AwaitApproval, CompleteRejected, Declare, FailRejected, dbVars
  <2>2. CASE Dispatch(w)
    BY <2>2, DispatchBounded DEF Dispatch
  <2>3. CASE Claim(w)
    <3>1. TasksTyped' /\ ActiveTasks' \subseteq ActiveTasks
      BY <2>3
      DEF Claim, ClaimRows, Claimable, Unprocessed, ActiveTasks, TasksTyped, TaskStates
    <3> QED
      BY <3>1, FewerBounded
  <2>4. CASE Check(w)
    BY <2>4, QueueingBounded DEF Check
  <2>5. CASE Requeue(w) \/ Complete(w) \/ Fail(w) \/ Retry(w)
    <3>1. \E state \in {"QUEUED", "SUCCEEDED", "FAILED"} :
             taskState' = [taskState EXCEPT ![cur[w]] = state]
      BY <2>5 DEF Requeue, Requeued, Complete, Fail, Retry, TransitionTask
    <3> QED
      BY <3>1, MoveBounded DEF TaskStates
  <2> QED
    BY <1>2, <2>1, <2>2, <2>3, <2>4, <2>5 DEF TickStep
<1>3. ASSUME Cancel \/ \E i \in Instance : Restart(i) PROVE TasksTyped' /\ ActiveBound'
  <2>1. TasksTyped' /\ ActiveTasks' \subseteq ActiveTasks
    BY <1>3 DEF Cancel, Restart, RecoverOrphans, ActiveTasks, TasksTyped, TaskStates
  <2> QED
    BY <2>1, FewerBounded
<1>4. CASE UNCHANGED vars
  BY <1>4, StillBounded DEF vars, dbVars
<1> QED
  BY <1>1, <1>2, <1>3, <1>4 DEF Next

LEMMA BoundedInitially == Init => TasksTyped /\ ActiveBound
<1> SUFFICES ASSUME Init PROVE TasksTyped /\ ActiveBound
  OBVIOUS
<1>1. TasksTyped /\ ActiveTasks = {}
  BY DEF Init, TasksTyped, ActiveTasks, TaskStates
<1> QED
  BY <1>1, FS_EmptySet, ConcurrentAssumption DEF ActiveBound

-----------------------------------------------------------------------------
(***************************************************************************)
(* Refinement: what each step is for the abstract scheduler.               *)
(***************************************************************************)
Over == runState = "COMPLETED"

DagMoves == Dag!Next \/ UNCHANGED <<ActiveTasks, DoneTasks, Over>>

\* Steps that only take tasks out of the hands of the workers.
LEMMA QuietMoves ==
    ASSUME ActiveTasks' \subseteq ActiveTasks, DoneTasks' = DoneTasks,
           runState' = "COMPLETED" <=> runState = "COMPLETED"
    PROVE  DagMoves
<1> DEFINE S == ActiveTasks \ ActiveTasks'
<1>1. S \in SUBSET Task /\ S \subseteq ActiveTasks /\ ActiveTasks' = ActiveTasks \ S
  BY DEF ActiveTasks
<1>2. Over' = Over
  BY DEF Over
<1>3. Dag!Abandon(S)
  BY <1>1, <1>2 DEF Dag!Abandon, Over
<1> QED
  BY <1>1, <1>3 DEF Dag!Next, DagMoves

\* A run leaves COMPLETED for no state, and enters it only by a move to it.
LEMMA RunMoves ==
    ASSUME NEW target, target # "COMPLETED",
           MoveOrConflict(target) \/ UNCHANGED runState
    PROVE  runState' = "COMPLETED" <=> runState = "COMPLETED"
BY DEF MoveOrConflict, TryRunMove, CanRunMove, LegalRunTransitions

LEMMA QueueingMoves ==
    ASSUME taskState' = AfterQueueing, UNCHANGED runState
    PROVE  DagMoves
<1>1. ActiveTasks' = ActiveTasks /\ DoneTasks' = DoneTasks
  BY DEF AfterQueueing, QueueableTasks, ActiveTasks, DoneTasks
<1> QED
  BY <1>1, QuietMoves

LEMMA DispatchMoves ==
    ASSUME CompletedDone, NEW chosen, DispatchOrConflict(chosen)
    PROVE  DagMoves
<1>1. CASE UNCHANGED dbVars
  <2>1. ActiveTasks' = ActiveTasks /\ DoneTasks' = DoneTasks /\ UNCHANGED runState
    BY <1>1 DEF dbVars, ActiveTasks, DoneTasks
  <2> QED
    BY <2>1, QuietMoves
<1>2. CASE DispatchTasks(chosen)
  <2>1. /\ chosen \in SUBSET ReadyTasks
        /\ taskState' = [t \in Task |-> IF t \in chosen THEN "DISPATCHED"
                                                         ELSE taskState[t]]
        /\ UNCHANGED runState
    BY <1>2 DEF DispatchTasks
  <2>2. \A t \in chosen : /\ t \in Task /\ taskState[t] = "QUEUED"
                          /\ Deps[t] \subseteq DoneTasks
    BY <2>1, DepsAssumption DEF ReadyTasks, DepsMet, DoneTasks
  <2>3. ActiveTasks' = ActiveTasks \cup chosen /\ DoneTasks' = DoneTasks
    BY <2>1, <2>2 DEF ActiveTasks, DoneTasks
  <2>4. CASE chosen = {}
    BY <2>1, <2>3, <2>4, QuietMoves
  <2>5. CASE chosen # {}
    <3>1. runState # "COMPLETED"
      BY <2>2, <2>5 DEF CompletedDone, DoneTasks
    <3>2. chosen \cap (ActiveTasks \cup DoneTasks) = {}
      BY <2>2 DEF ActiveTasks, DoneTasks
    <3>3. Cardinality(ActiveTasks \cup chosen) <= MaxConcurrent
      BY <1>2, <2>5, ChosenFit
    <3>4. Dag!Start(chosen)
      <4>1. \A t \in chosen : Deps[t] \subseteq DoneTasks
        BY <2>2
      <4>2. UNCHANGED <<DoneTasks, runState = "COMPLETED">>
        BY <2>1, <2>3
      <4>3. \A S : Dag!Cardinality(S) = Cardinality(S)
        BY DEF Dag!Cardinality, Cardinality
      <4> QED
        BY <2>3, <3>1, <3>2, <3>3, <4>1, <4>2, <4>3 DEF Dag!Start
    <3> QED
      BY <2>2, <3>4 DEF Dag!Next, DagMoves
  <2> QED
    BY <2>4, <2>5
<1> QED
  BY <1>1, <1>2 DEF DispatchOrConflict

LEMMA RouteStepMoves ==
    ASSUME CompletedDone, NEW r \in RTick, RouteStep(r)
    PROVE  DagMoves
<1>1. CASE RouteQueue(r)
  BY <1>1, QueueingMoves DEF RouteQueue
<1>2. CASE RouteDispatch(r)
  BY <1>2, DispatchMoves DEF RouteDispatch
<1>3. CASE RouteFire(r) \/ RouteExecute(r) \/ RouteTimeOut(r)
  <2>1. ActiveTasks' = ActiveTasks /\ DoneTasks' = DoneTasks
    BY <1>3 DEF RouteFire, RouteExecute, RouteTimeOut, dbVars, ActiveTasks, DoneTasks
  <2>2. runState' = "COMPLETED" <=> runState = "COMPLETED"
    BY <1>3, RunMoves DEF RouteFire, RouteExecute, RouteTimeOut, dbVars
  <2> QED
    BY <2>1, <2>2, QuietMoves
<1> QED
  BY <1>1, <1>2, <1>3 DEF RouteStep

LEMMA TickStepMoves ==
    ASSUME TypeOK, Ownership, VerdictHolds, CompletedDone,
           NEW w \in Tick, TickStep(w)
    PROVE  DagMoves
<1>a. pc[w] \in TaskSteps => /\ cur[w] \in Task
                             /\ taskState[cur[w]] \in StatesAt(pc[w])
  BY DEF Ownership, Owned, Held, HeldStates, TypeOK
<1>1. CASE Dispatch(w)
  BY <1>1, DispatchMoves DEF Dispatch
<1>2. CASE \/ Fire(w) \/ ClaimCommitFails(w) \/ Begin(w) \/ CallSucceeds(w)
           \/ CallFails(w) \/ NoProvider(w) \/ CallNeedsApproval(w)
           \/ CompleteRejected(w) \/ FailRejected(w)
  <2>1. UNCHANGED dbVars
    BY <1>2 DEF Fire, ClaimCommitFails, Begin, CallSucceeds, CallFails, NoProvider,
                CallNeedsApproval, CompleteRejected, FailRejected
  <2>2. ActiveTasks' = ActiveTasks /\ DoneTasks' = DoneTasks /\ UNCHANGED runState
    BY <2>1 DEF dbVars, ActiveTasks, DoneTasks
  <2> QED
    BY <2>2, QuietMoves
<1>3. CASE Claim(w)
  <2>1. PICK rows \in ClaimRows :
          taskState' = [t \in Task |-> IF t \in Unprocessed(w, rows) THEN "RUNNING"
                                                                     ELSE taskState[t]]
    BY <1>3 DEF Claim
  <2>2. \A t \in Unprocessed(w, rows) : t \in Task /\ taskState[t] = "DISPATCHED"
    BY DEF ClaimRows, Claimable, Unprocessed
  <2>3. ActiveTasks' = ActiveTasks /\ DoneTasks' = DoneTasks /\ UNCHANGED runState
    BY <1>3, <2>1, <2>2 DEF Claim, ActiveTasks, DoneTasks
  <2> QED
    BY <2>3, QuietMoves
<1>4. CASE Requeue(w) \/ Fail(w) \/ Retry(w)
  <2>1. PICK target \in {"QUEUED", "FAILED"} :
          taskState' = [taskState EXCEPT ![cur[w]] = target]
    BY <1>4 DEF Requeue, Requeued, Fail, Retry, TransitionTask
  <2>2. cur[w] \in Task /\ cur[w] \notin DoneTasks /\ UNCHANGED runState
    BY <1>4, <1>a DEF Requeue, Fail, Retry, TaskSteps, StatesAt, DoneTasks
  <2>3. ActiveTasks' \subseteq ActiveTasks /\ DoneTasks' = DoneTasks
    BY <2>1, <2>2 DEF ActiveTasks, DoneTasks, TypeOK
  <2> QED
    BY <2>2, <2>3, QuietMoves
<1>5. CASE AwaitApproval(w)
  <2>1. ActiveTasks' = ActiveTasks /\ DoneTasks' = DoneTasks
    BY <1>5 DEF AwaitApproval, ActiveTasks, DoneTasks
  <2>2. runState' = "COMPLETED" <=> runState = "COMPLETED"
    BY <1>5, RunMoves DEF AwaitApproval
  <2> QED
    BY <2>1, <2>2, QuietMoves
<1>6. CASE Complete(w)
  <2>1. /\ cur[w] \in Task /\ taskState[cur[w]] = "RUNNING"
        /\ taskState' = [taskState EXCEPT ![cur[w]] = "SUCCEEDED"]
        /\ UNCHANGED runState
    BY <1>6, <1>a
    DEF Complete, TransitionTask, CanTaskMove, LegalTaskTransitions, TaskSteps, StatesAt
  <2>2. /\ cur[w] \in ActiveTasks
        /\ ActiveTasks' = ActiveTasks \ {cur[w]}
        /\ DoneTasks' = DoneTasks \cup {cur[w]}
    BY <2>1 DEF ActiveTasks, DoneTasks, TypeOK
  <2>3. Dag!Accomplish(cur[w])
    BY <2>1, <2>2 DEF Dag!Accomplish
  <2> QED
    BY <2>1, <2>3 DEF Dag!Next, DagMoves
<1>7. CASE Check(w)
  BY <1>7, QueueingMoves DEF Check
<1>8. CASE Declare(w)
  <2>1. ActiveTasks' = ActiveTasks /\ DoneTasks' = DoneTasks
    BY <1>8 DEF Declare, ActiveTasks, DoneTasks
  <2>2. CASE runState' = "COMPLETED" <=> runState = "COMPLETED"
    BY <2>1, <2>2, QuietMoves
  <2>3. CASE runState' = "COMPLETED" /\ runState # "COMPLETED"
    <3>1. arg[w] = "COMPLETED" /\ runState = "EXECUTING"
      BY <1>8, <2>3 DEF Declare, MoveOrConflict, TryRunMove, CanRunMove, LegalRunTransitions
    <3>2. DoneTasks = Task
      BY <1>8, <3>1 DEF Declare, VerdictHolds
    <3>3. Dag!Close
      BY <2>1, <2>3, <3>2 DEF Dag!Close
    <3> QED
      BY <3>3 DEF Dag!Next, DagMoves
  <2>4. CASE runState' # "COMPLETED" /\ runState = "COMPLETED"
    BY <1>8, <2>4 DEF Declare, MoveOrConflict, TryRunMove, CanRunMove, LegalRunTransitions
  <2> QED
    BY <2>2, <2>3, <2>4
<1> QED
  BY <1>1, <1>2, <1>3, <1>4, <1>5, <1>6, <1>7, <1>8 DEF TickStep

LEMMA DagStep ==
    TypeOK /\ Ownership /\ VerdictHolds /\ CompletedDone /\ [Next]_vars => DagMoves
<1> SUFFICES ASSUME TypeOK, Ownership, VerdictHolds, CompletedDone, [Next]_vars
             PROVE  DagMoves
  OBVIOUS
<1>1. CASE UNCHANGED vars
  <2>1. ActiveTasks' = ActiveTasks /\ DoneTasks' = DoneTasks /\ UNCHANGED runState
    BY <1>1 DEF vars, dbVars, ActiveTasks, DoneTasks
  <2> QED
    BY <2>1, QuietMoves
<1>2. CASE Cancel
  <2>1. ActiveTasks' \subseteq ActiveTasks /\ DoneTasks' = DoneTasks
    BY <1>2 DEF Cancel, ActiveTasks, DoneTasks, InProgress
  <2> QED
    BY <1>2, <2>1, QuietMoves DEF Cancel
<1>3. ASSUME NEW i \in Instance, Restart(i) PROVE DagMoves
  <2>1. ActiveTasks' \subseteq ActiveTasks /\ DoneTasks' = DoneTasks /\ UNCHANGED runState
    BY <1>3 DEF Restart, RecoverOrphans, ActiveTasks, DoneTasks
  <2> QED
    BY <2>1, QuietMoves
<1> QED
  BY <1>1, <1>2, <1>3, RouteStepMoves, TickStepMoves DEF Next

-----------------------------------------------------------------------------
(***************************************************************************)
(* What a step of the abstract scheduler preserves.                        *)
(***************************************************************************)
LEMMA DoneGrows == DagMoves => DoneTasks \subseteq DoneTasks'
BY DEF DagMoves, Dag!Next, Dag!Start, Dag!Accomplish, Dag!Abandon, Dag!Close

LEMMA DagKeeps ==
    ASSUME ActiveBound, DepsSafe, CompletedDone, DagMoves
    PROVE  ActiveBound' /\ DepsSafe' /\ CompletedDone'
<1>a. DoneTasks' \subseteq Task /\ ActiveTasks \subseteq Task
  BY DEF DoneTasks, ActiveTasks
<1>b. IsFiniteSet(ActiveTasks)
  BY <1>a, TaskAssumption, FS_Subset
<1>c. DoneTasks \subseteq DoneTasks'
  BY DoneGrows
<1>1. CASE UNCHANGED <<ActiveTasks, DoneTasks, Over>>
  BY <1>1 DEF ActiveBound, DepsSafe, CompletedDone, Over
<1>2. ASSUME NEW S, Dag!Start(S)
      PROVE  ActiveBound' /\ DepsSafe' /\ CompletedDone'
  <2>1. \A T : Dag!Cardinality(T) = Cardinality(T)
    BY DEF Dag!Cardinality, Cardinality
  <2>2. ActiveBound'
    BY <1>2, <2>1 DEF Dag!Start, ActiveBound
  <2>3. DepsSafe'
    BY <1>2 DEF Dag!Start, DepsSafe
  <2>4. CompletedDone'
    BY <1>2 DEF Dag!Start, CompletedDone
  <2> QED
    BY <2>2, <2>3, <2>4
<1>3. ASSUME NEW S, Dag!Abandon(S)
      PROVE  ActiveBound' /\ DepsSafe' /\ CompletedDone'
  <2>1. ActiveTasks' \subseteq ActiveTasks
    BY <1>3 DEF Dag!Abandon
  <2>2. ActiveBound'
    BY <2>1, FewerBounded
  <2>3. DepsSafe' /\ CompletedDone'
    BY <1>3, <2>1 DEF Dag!Abandon, DepsSafe, CompletedDone
  <2> QED
    BY <2>2, <2>3
<1>4. ASSUME NEW t, Dag!Accomplish(t)
      PROVE  ActiveBound' /\ DepsSafe' /\ CompletedDone'
  <2>1. ActiveTasks' \subseteq ActiveTasks
    BY <1>4 DEF Dag!Accomplish
  <2>2. ActiveBound'
    <3>1. /\ Cardinality(ActiveTasks') <= Cardinality(ActiveTasks)
          /\ IsFiniteSet(ActiveTasks')
      BY <2>1, <1>b, FS_Subset
    <3>2. Cardinality(ActiveTasks) \in Nat /\ Cardinality(ActiveTasks') \in Nat
      BY <3>1, <1>b, FS_CardinalityType
    <3> QED
      BY <3>1, <3>2, ConcurrentAssumption DEF ActiveBound
  <2>3. DepsSafe' /\ CompletedDone'
    BY <1>4, <1>a, <1>c, <2>1 DEF Dag!Accomplish, DepsSafe, CompletedDone
  <2> QED
    BY <2>2, <2>3
<1>5. CASE Dag!Close
  BY <1>5 DEF Dag!Close, ActiveBound, DepsSafe, CompletedDone
<1> QED
  BY <1>1, <1>2, <1>3, <1>4, <1>5 DEF DagMoves, Dag!Next

-----------------------------------------------------------------------------
(***************************************************************************)
(* Cancelled tasks and runs, and the verdicts that ticks carry.            *)
(***************************************************************************)
\* The part of the type invariant on which these proofs rest.
StatesTypeOK ==
    /\ taskState \in [Task -> TaskStates]
    /\ pc \in [Tick -> TickSteps]
    /\ arg \in [Tick -> Args]

LEMMA StatesTyped == TypeOK => StatesTypeOK
BY DEF TypeOK, StatesTypeOK, Args

\* Only Cancel creates cancelled tasks.
LEMMA CancelledTasks ==
    ASSUME StatesTypeOK, [Next]_vars, ~ Cancel, NEW t \in Task, taskState'[t] = "CANCELLED"
    PROVE  taskState[t] = "CANCELLED"
<1> USE DEF dbVars
<1>1. ASSUME NEW target, target # "CANCELLED", NEW u, TransitionTask(u, target)
      PROVE  taskState[t] = "CANCELLED"
  BY <1>1 DEF TransitionTask, StatesTypeOK
<1>2. ASSUME NEW chosen, DispatchOrConflict(chosen)
      PROVE  taskState[t] = "CANCELLED"
  BY <1>2 DEF DispatchOrConflict, DispatchTasks
<1>3. CASE taskState' = AfterQueueing
  BY <1>3 DEF AfterQueueing
<1>4. ASSUME NEW r \in RTick, RouteStep(r) PROVE taskState[t] = "CANCELLED"
  BY <1>2, <1>3, <1>4
  DEF RouteStep, RouteFire, RouteQueue, RouteDispatch, RouteExecute, RouteTimeOut
<1>5. ASSUME NEW w \in Tick, TickStep(w) PROVE taskState[t] = "CANCELLED"
  <2>1. CASE Dispatch(w)
    BY <2>1, <1>2 DEF Dispatch
  <2>2. CASE Claim(w)
    BY <2>2 DEF Claim
  <2>3. CASE Requeue(w)
    BY <2>3 DEF Requeue, Requeued, StatesTypeOK
  <2>4. CASE Complete(w) \/ Fail(w) \/ Retry(w)
    BY <2>4, <1>1 DEF Complete, Fail, Retry
  <2>5. CASE Check(w)
    BY <2>5, <1>3 DEF Check
  <2>6. CASE UNCHANGED taskState
    BY <2>6
  <2> QED
    BY <1>5, <2>1, <2>2, <2>3, <2>4, <2>5, <2>6
    DEF TickStep, Fire, ClaimCommitFails, Begin, CallSucceeds, CallFails, NoProvider,
        CallNeedsApproval, AwaitApproval, CompleteRejected, Declare, FailRejected
<1>6. ASSUME NEW i \in Instance, Restart(i) PROVE taskState[t] = "CANCELLED"
  BY <1>6 DEF Restart, RecoverOrphans
<1>7. CASE UNCHANGED vars
  BY <1>7 DEF vars
<1> QED
  BY <1>4, <1>5, <1>6, <1>7 DEF Next

\* CANCELLED has no way out.
LEMMA RunStaysCancelled ==
    ASSUME [Next]_vars, runState = "CANCELLED"
    PROVE  runState' = "CANCELLED"
<1>1. ASSUME NEW target, MoveOrConflict(target) PROVE runState' = "CANCELLED"
  BY <1>1 DEF MoveOrConflict, TryRunMove, CanRunMove, LegalRunTransitions
<1>2. ASSUME NEW chosen, DispatchOrConflict(chosen) PROVE runState' = "CANCELLED"
  BY <1>2 DEF DispatchOrConflict, DispatchTasks, dbVars
<1>3. ASSUME NEW r \in RTick, RouteStep(r) PROVE runState' = "CANCELLED"
  BY <1>1, <1>2, <1>3
  DEF RouteStep, RouteFire, RouteQueue, RouteDispatch, RouteExecute, RouteTimeOut, dbVars
<1>4. ASSUME NEW w \in Tick, TickStep(w) PROVE runState' = "CANCELLED"
  <2>1. CASE Dispatch(w)
    BY <2>1, <1>2 DEF Dispatch
  <2>2. CASE AwaitApproval(w) \/ Declare(w)
    BY <2>2, <1>1 DEF AwaitApproval, Declare
  <2>3. CASE UNCHANGED runState
    BY <2>3
  <2> QED
    BY <1>4, <2>1, <2>2, <2>3
    DEF TickStep, Fire, Claim, ClaimCommitFails, Begin, Requeue, CallSucceeds, CallFails,
        NoProvider, CallNeedsApproval, Complete, CompleteRejected, Check, Fail, Retry,
        FailRejected, dbVars
<1> QED
  BY <1>3, <1>4 DEF Next, Cancel, Restart, RecoverOrphans, vars, dbVars

LEMMA CancelledStep ==
    StatesTypeOK /\ CancelledTogether /\ [Next]_vars => CancelledTogether'
<1>1. CASE Cancel
  BY <1>1 DEF Cancel, CancelledTogether
<1>2. CASE ~ Cancel
  BY <1>2, CancelledTasks, RunStaysCancelled DEF CancelledTogether
<1> QED
  BY <1>1, <1>2

\* A tick that is to declare a verdict has just reached it, or had it before.
LEMMA VerdictSource ==
    ASSUME StatesTypeOK, [Next]_vars, NEW w \in Tick, pc'[w] = "declare"
    PROVE  \/ pc[w] = "declare" /\ arg'[w] = arg[w]
           \/ Check(w) /\ arg'[w] = Verdict(AfterQueueing)
<1>1. CASE UNCHANGED <<pc, arg>>
  BY <1>1
<1>2. ASSUME NEW v \in Tick, TickStep(v)
      PROVE  \/ pc[w] = "declare" /\ arg'[w] = arg[w]
             \/ Check(w) /\ arg'[w] = Verdict(AfterQueueing)
  <2>1. CASE v # w
    <3>1. \/ UNCHANGED arg /\ \E s : pc' = [pc EXCEPT ![v] = s]
          \/ Finish(v) \/ Abort(v) \/ \E s, a : GoTo(v, s, a)
      BY <1>2
      DEF TickStep, Fire, Dispatch, Claim, ClaimCommitFails, Begin, Requeue,
          CallSucceeds, CallFails, NoProvider, CallNeedsApproval, AwaitApproval,
          Complete, CompleteRejected, Check, Declare, Fail, Retry, FailRejected
    <3>2. pc'[w] = pc[w] /\ arg'[w] = arg[w]
      BY <2>1, <3>1 DEF StatesTypeOK, Finish, Abort, GoTo
    <3> QED
      BY <3>2
  <2>2. CASE v = w
    <3>1. CASE Check(w)
      BY <3>1 DEF Check, Finish, GoTo, StatesTypeOK
    <3>2. ASSUME NEW s, s # "declare",
                 \/ pc' = [pc EXCEPT ![w] = s]
                 \/ Finish(w) \/ Abort(w) \/ \E a : GoTo(w, s, a)
          PROVE  FALSE
      BY <3>2 DEF Finish, Abort, GoTo, StatesTypeOK
    <3> QED
      BY <1>2, <2>2, <3>1, <3>2
      DEF TickStep, Fire, Dispatch, Claim, ClaimCommitFails, Begin, Requeue,
          CallSucceeds, CallFails, NoProvider, CallNeedsApproval, AwaitApproval,
          Complete, CompleteRejected, Declare, Fail, Retry, FailRejected
  <2> QED
    BY <2>1, <2>2
<1>3. ASSUME NEW i \in Instance, Restart(i)
      PROVE  pc[w] = "declare" /\ arg'[w] = arg[w]
  BY <1>3 DEF Restart
<1> QED
  BY <1>1, <1>2, <1>3
  DEF Next, RouteStep, RouteFire, RouteQueue, RouteDispatch, RouteExecute, RouteTimeOut,
      Cancel, vars, tickVars

LEMMA VerdictStep ==
    /\ StatesTypeOK /\ CancelledTogether /\ VerdictHolds
    /\ DagMoves /\ [Next]_vars
    => VerdictHolds'
<1> SUFFICES ASSUME StatesTypeOK, CancelledTogether, VerdictHolds, DagMoves, [Next]_vars,
                    NEW w \in Tick, pc'[w] = "declare"
             PROVE  /\ arg'[w] \in {"COMPLETED", "FAILED"}
                    /\ arg'[w] = "COMPLETED" =>
                          runState' = "CANCELLED" \/ DoneTasks' = Task
  BY DEF VerdictHolds
<1>1. CASE pc[w] = "declare" /\ arg'[w] = arg[w]
  <2>1. DoneTasks = Task => DoneTasks' = Task
    BY DoneGrows DEF DoneTasks
  <2> QED
    BY <1>1, <2>1, RunStaysCancelled DEF VerdictHolds
<1>2. CASE Check(w) /\ arg'[w] = Verdict(AfterQueueing)
  <2>1. Verdict(AfterQueueing) # "none"
    BY <1>2 DEF Check, Finish, StatesTypeOK
  <2>2. Verdict(AfterQueueing) \in {"none", "FAILED", "COMPLETED"}
    BY DEF Verdict
  <2>3. taskState' = AfterQueueing /\ UNCHANGED runState
    BY <1>2 DEF Check
  <2>4. ASSUME Verdict(AfterQueueing) = "COMPLETED", runState # "CANCELLED"
        PROVE  DoneTasks' = Task
    <3>1. \A t \in Task : AfterQueueing[t] \notin InProgress \cup {"FAILED"}
      BY <2>4 DEF Verdict
    <3>2. \A t \in Task : AfterQueueing[t] # "CANCELLED"
      BY <2>4 DEF CancelledTogether, AfterQueueing
    <3>3. \A t \in Task : AfterQueueing[t] \in {"SUCCEEDED", "SKIPPED"}
      BY <3>1, <3>2 DEF InProgress, TaskStates, StatesTypeOK, AfterQueueing
    <3> QED
      BY <2>3, <3>3 DEF DoneTasks
  <2> QED
    BY <1>2, <2>1, <2>2, <2>3, <2>4
<1> QED
  BY <1>1, <1>2, VerdictSource

-----------------------------------------------------------------------------
(***************************************************************************)
(* The theorems.                                                           *)
(***************************************************************************)
LEMMA SafetyInit == Init => SafetyInv
<1> SUFFICES ASSUME Init PROVE SafetyInv
  OBVIOUS
<1>1. TypeOK
  <2>1. 0 \in 0..MaxRetries
    BY RetriesAssumption
  <2> QED
    BY <2>1 DEF Init, TypeOK, RunStates, TaskStates, TickSteps
<1>2. Ownership
  BY DEF Init, Ownership, Exclusive, Owned, Held, CoolingDown, TaskSteps
<1>3. ActiveTasks = {}
  BY DEF Init, ActiveTasks
<1>4. ActiveBound /\ DepsSafe
  BY <1>3, FS_EmptySet, ConcurrentAssumption DEF ActiveBound, DepsSafe
<1>5. CancelledTogether /\ VerdictHolds /\ CompletedDone
  BY DEF Init, CancelledTogether, VerdictHolds, CompletedDone
<1> QED
  BY <1>1, <1>2, <1>4, <1>5 DEF SafetyInv

LEMMA SafetyStep == SingleInstance /\ SafetyInv /\ [Next]_vars => SafetyInv'
<1> SUFFICES ASSUME SingleInstance, SafetyInv, [Next]_vars PROVE SafetyInv'
  OBVIOUS
<1>1. TypeOK' /\ Ownership'
  BY TypeStep, OwnershipStep DEF SafetyInv
<1>2. DagMoves
  BY DagStep DEF SafetyInv
<1>3. ActiveBound' /\ DepsSafe' /\ CompletedDone'
  BY <1>2, DagKeeps DEF SafetyInv
<1>4. CancelledTogether' /\ VerdictHolds'
  BY <1>2, StatesTyped, CancelledStep, VerdictStep DEF SafetyInv
<1> QED
  BY <1>1, <1>3, <1>4 DEF SafetyInv

\* With one server instance, SafetyInv holds whatever the plan, the number of
\* overlapping ticks, the failures of providers, crashes and cancellations.
THEOREM Safety == ASSUME SingleInstance PROVE Spec => []SafetyInv
<1>1. Init => SafetyInv
  BY SafetyInit
<1>2. SafetyInv /\ [Next]_vars => SafetyInv'
  BY SafetyStep
<1> QED
  BY <1>1, <1>2, PTL DEF Spec

\* Every row the workers write is well formed, and no task is retried more often
\* than max_retries allows, however many ticks may be failing it.
THEOREM TypeCorrect == ASSUME SingleInstance PROVE Spec => []TypeOK
<1>1. SafetyInv => TypeOK
  BY DEF SafetyInv
<1> QED
  BY <1>1, Safety, PTL

\* No task is ever in the hands of two overlapping ticks of the worker.
THEOREM ExclusiveClaims == ASSUME SingleInstance PROVE Spec => []Exclusive
<1>1. SafetyInv => Exclusive
  BY DEF SafetyInv, Ownership
<1> QED
  BY <1>1, Safety, PTL

\* The concurrency limit of dispatchTasks holds at every moment, not only in the
\* transaction that counts, also with several servers on one database.
THEOREM ConcurrencyBounded == Spec => []ActiveBound
<1>1. (TasksTyped /\ ActiveBound) /\ [Next]_vars => (TasksTyped /\ ActiveBound)'
  BY WorkersBounded
<1> QED
  BY <1>1, BoundedInitially, PTL DEF Spec

\* No task runs before the tasks it depends on are done.
THEOREM DependenciesRespected == ASSUME SingleInstance PROVE Spec => []DepsSafe
<1>1. SafetyInv => DepsSafe
  BY DEF SafetyInv
<1> QED
  BY <1>1, Safety, PTL

\* A verdict computed in one transaction and written in a later one never
\* completes a run with a task left.
THEOREM CompletionSound == ASSUME SingleInstance PROVE Spec => []CompletedDone
<1>1. SafetyInv => CompletedDone
  BY DEF SafetyInv
<1> QED
  BY <1>1, Safety, PTL

\* The workers implement the abstract scheduler of DagExecution.
THEOREM Refinement == ASSUME SingleInstance PROVE Spec => DagExecutionImplemented
<1>1. Init => Dag!Init
  BY DEF Init, Dag!Init, ActiveTasks, DoneTasks
<1>2. SafetyInv /\ [Next]_vars
        => [Dag!Next]_<<ActiveTasks, DoneTasks, runState = "COMPLETED">>
  BY DagStep DEF SafetyInv, DagMoves, Over
<1> QED
  BY <1>1, <1>2, Safety, PTL DEF Spec, DagExecutionImplemented, Dag!Spec

-----------------------------------------------------------------------------
(***************************************************************************)
(* No RUNNING task is abandoned, if no server dies and no transaction is   *)
(* refused.                                                                *)
(***************************************************************************)
NoneStarted == \A t \in Task : taskState'[t] = "RUNNING" => taskState[t] = "RUNNING"

\* Rows of approvals are added and not deleted.
StillAsked == \A t \in Task : Asked(t) => Asked(t)'

\* A tick that is done with its task has not left it RUNNING, or an approval was asked.
LEMMA FinishLosesNone ==
    ASSUME TypeOK, Ownership, RunningInv, NEW w \in Tick, pc[w] \in TaskSteps, Finish(w),
           OthersKept(w), NoneStarted, StillAsked,
           taskState'[cur[w]] # "RUNNING" \/ Asked(cur[w])
    PROVE  NoLostRunning' /\ AskedFirst' /\ FailsOnce'
<1>1. cur[w] \in batch[w] /\ cur[w] \in Task
  BY DEF Ownership, Owned, TypeOK
<1>2. \A v \in Tick : v # w => batch'[v] = batch[v] /\ pc'[v] = pc[v] /\ cur'[v] = cur[v]
  BY DEF Finish, TypeOK
<1>3. batch'[w] = batch[w] \ {cur[w]} /\ pc'[w] \in {"idle", "next"}
  BY DEF Finish, TypeOK
<1>4. NoLostRunning'
  <2> SUFFICES ASSUME NEW t \in Task, taskState'[t] = "RUNNING",
                      \A v \in Tick : t \notin batch'[v]
               PROVE  Asked(t)'
    BY DEF NoLostRunning, Asked
  <2>1. taskState[t] = "RUNNING"
    BY DEF NoneStarted
  <2>2. (\E v \in Tick : t \in batch[v]) \/ Asked(t)
    BY <2>1 DEF RunningInv, NoLostRunning, Asked
  <2>3. t = cur[w] \/ Asked(t)
    BY <1>2, <1>3, <2>2
  <2> QED
    BY <2>3 DEF StillAsked
<1>5. AskedFirst'
  <2> SUFFICES ASSUME NEW v \in Tick, pc'[v] = "await_approval" PROVE Asked(cur[v])'
    BY <1>2, <1>3 DEF AskedFirst
  <2>1. v # w /\ pc[v] = "await_approval" /\ cur'[v] = cur[v]
    BY <1>2, <1>3
  <2>2. cur[v] \in Task /\ Asked(cur[v])
    BY <2>1 DEF RunningInv, AskedFirst, Ownership, Owned, TaskSteps, TypeOK
  <2> QED
    BY <2>1, <2>2 DEF StillAsked
<1>6. FailsOnce'
  <2> SUFFICES ASSUME NEW v \in Tick, pc'[v] = "fail" PROVE taskState'[cur'[v]] # "FAILED"
    BY DEF FailsOnce
  <2>1. v # w /\ pc[v] = "fail" /\ cur'[v] = cur[v]
    BY <1>2, <1>3
  <2>2. cur[v] \in batch[v] /\ cur[v] # cur[w]
    BY <1>1, <2>1 DEF Ownership, Owned, Exclusive, TaskSteps
  <2> QED
    BY <2>1, <2>2 DEF OthersKept, RunningInv, FailsOnce
<1> QED
  BY <1>4, <1>5, <1>6

\* A tick that goes on with its task still holds it.
LEMMA GoToLosesNone ==
    ASSUME TypeOK, Ownership, RunningInv, NEW w \in Tick, NEW step, NEW a,
           pc[w] \in TaskSteps, GoTo(w, step, a), OthersKept(w), NoneStarted, StillAsked,
           step = "await_approval" => Asked(cur[w])',
           step = "fail" => taskState'[cur[w]] # "FAILED"
    PROVE  NoLostRunning' /\ AskedFirst' /\ FailsOnce'
<1>1. cur[w] \in batch[w] /\ cur[w] \in Task
  BY DEF Ownership, Owned, TypeOK
<1>2. batch' = batch /\ cur' = cur /\ pc'[w] = step /\ \A v \in Tick : v # w => pc'[v] = pc[v]
  BY DEF GoTo, TypeOK
<1>3. NoLostRunning'
  <2> SUFFICES ASSUME NEW t \in Task, taskState'[t] = "RUNNING",
                      \A v \in Tick : t \notin batch[v]
               PROVE  Asked(t)'
    BY <1>2 DEF NoLostRunning, Asked
  <2>1. Asked(t)
    BY DEF NoneStarted, RunningInv, NoLostRunning, Asked
  <2> QED
    BY <2>1 DEF StillAsked
<1>4. AskedFirst'
  <2> SUFFICES ASSUME NEW v \in Tick, pc'[v] = "await_approval" PROVE Asked(cur[v])'
    BY <1>2 DEF AskedFirst, Asked
  <2>1. CASE v = w
    BY <1>2, <2>1
  <2>2. CASE v # w
    <3>1. cur[v] \in Task /\ Asked(cur[v])
      BY <1>2, <2>2 DEF RunningInv, AskedFirst, Ownership, Owned, TaskSteps, TypeOK
    <3> QED
      BY <1>2, <3>1 DEF StillAsked
  <2> QED
    BY <2>1, <2>2
<1>5. FailsOnce'
  <2> SUFFICES ASSUME NEW v \in Tick, pc'[v] = "fail" PROVE taskState'[cur[v]] # "FAILED"
    BY <1>2 DEF FailsOnce
  <2>1. CASE v = w
    BY <1>2, <2>1
  <2>2. CASE v # w
    <3>1. cur[v] \in batch[v] /\ cur[v] # cur[w] /\ pc[v] = "fail"
      BY <1>1, <1>2, <2>2 DEF Ownership, Owned, Exclusive, TaskSteps
    <3> QED
      BY <3>1 DEF OthersKept, RunningInv, FailsOnce
  <2> QED
    BY <2>1, <2>2
<1> QED
  BY <1>3, <1>4, <1>5

\* A tick that gives up its batch had a cancelled task in hand: nothing is RUNNING.
LEMMA AbortLosesNone ==
    ASSUME TypeOK, Ownership, RunningInv, NEW w \in Tick, pc[w] \in TaskSteps, Abort(w),
           taskState' = taskState, \A t \in Task : taskState[t] # "RUNNING", StillAsked
    PROVE  NoLostRunning' /\ AskedFirst' /\ FailsOnce'
<1>1. \A v \in Tick : v # w => pc'[v] = pc[v] /\ cur'[v] = cur[v]
  BY DEF Abort, TypeOK
<1>2. pc'[w] = "idle"
  BY DEF Abort, TypeOK
<1>3. AskedFirst'
  <2> SUFFICES ASSUME NEW v \in Tick, pc'[v] = "await_approval" PROVE Asked(cur[v])'
    BY <1>1, <1>2 DEF AskedFirst
  <2>1. cur[v] \in Task /\ Asked(cur[v]) /\ cur'[v] = cur[v]
    BY <1>1, <1>2 DEF RunningInv, AskedFirst, Ownership, Owned, TaskSteps, TypeOK
  <2> QED
    BY <2>1 DEF StillAsked, Asked
<1>4. NoLostRunning'
  BY DEF NoLostRunning
<1>5. FailsOnce'
  BY <1>1, <1>2 DEF RunningInv, FailsOnce
<1> QED
  BY <1>3, <1>4, <1>5

\* A step of a tick that has no task in hand, and that neither drops nor starts a task.
LEMMA QuietLosesNone ==
    ASSUME RunningInv, TypeOK, Ownership, NoneStarted, approvals' = approvals,
           \A v \in Tick : \A t \in batch[v] : taskState'[t] = taskState[t],
           \A v \in Tick : batch[v] \subseteq batch'[v],
           \A v \in Tick : pc'[v] \in {"fail", "await_approval"} =>
               pc'[v] = pc[v] /\ cur'[v] = cur[v]
    PROVE  NoLostRunning' /\ AskedFirst' /\ FailsOnce'
<1>1. NoLostRunning'
  BY DEF NoneStarted, RunningInv, NoLostRunning
<1>2. AskedFirst'
  BY DEF RunningInv, AskedFirst, Asked
<1>3. FailsOnce'
  BY DEF RunningInv, FailsOnce, Ownership, Owned, TaskSteps
<1> QED
  BY <1>1, <1>2, <1>3

LEMMA TransitionStartsNone ==
    ASSUME TypeOK, NEW w \in Tick, NEW target, target # "RUNNING",
           TransitionTask(cur[w], target)
    PROVE  NoneStarted
BY DEF TypeOK, TransitionTask, NoneStarted

\* One case for each step of a tick.
LEMMA TickLosesNone ==
    ASSUME Uninterrupted, SafetyInv, RunningInv, NEW w \in Tick, TickStep(w)
    PROVE  NoLostRunning' /\ AskedFirst' /\ FailsOnce'
<1>0. TypeOK /\ Ownership /\ CancelledTogether
  BY DEF SafetyInv
<1>a. pc[w] \in TaskSteps => /\ cur[w] \in batch[w] /\ cur[w] \in Task
                             /\ taskState[cur[w]] \in StatesAt(pc[w])
  BY <1>0 DEF Ownership, Owned, Held, HeldStates, TypeOK
<1>b. UNCHANGED dbVars => OthersKept(w) /\ NoneStarted
  BY DEF OthersKept, NoneStarted, dbVars
<1>c. approvals' = approvals => StillAsked
  BY DEF StillAsked, Asked
<1>d. taskState' = AfterQueueing => NoneStarted
  BY DEF AfterQueueing, NoneStarted
<1>1. CASE Fire(w) \/ Dispatch(w)
  <2>1. /\ \E s \in {"dispatch", "claim"} : pc' = [pc EXCEPT ![w] = s]
        /\ UNCHANGED <<batch, cur, approvals>>
    BY <1>1 DEF Fire, Dispatch
  <2>2. \A v \in Tick : \A t \in batch[v] : taskState'[t] = taskState[t]
    BY <1>0, <1>1, ClaimedKept DEF Fire, Dispatch, dbVars
  <2>3. NoneStarted
    BY <1>1 DEF Fire, Dispatch, DispatchOrConflict, DispatchTasks, dbVars, NoneStarted
  <2> QED
    BY <1>0, <2>1, <2>2, <2>3, QuietLosesNone DEF TypeOK
<1>2. CASE Claim(w)
  <2>1. PICK rows \in ClaimRows :
            /\ taskState' = [t \in Task |-> IF t \in Unprocessed(w, rows) THEN "RUNNING"
                                                                         ELSE taskState[t]]
            /\ batch' = [batch EXCEPT ![w] = Unprocessed(w, rows)]
            /\ pc' = [pc EXCEPT ![w] = IF Unprocessed(w, rows) = {} THEN "idle" ELSE "next"]
            /\ pc[w] = "claim" /\ UNCHANGED <<cur, approvals>>
    BY <1>2 DEF Claim
  <2>2. batch[w] = {} /\ batch'[w] = Unprocessed(w, rows)
        /\ \A v \in Tick : v # w => batch'[v] = batch[v]
    BY <1>0, <2>1 DEF Ownership, Owned, TypeOK
  <2>3. \A v \in Tick : v # w => pc'[v] = pc[v]
    BY <1>0, <2>1 DEF TypeOK
  <2>4. pc'[w] \in {"idle", "next"}
    BY <1>0, <2>1 DEF TypeOK
  <2>5. NoLostRunning'
    BY <2>1, <2>2 DEF RunningInv, NoLostRunning
  <2>6. AskedFirst'
    BY <2>1, <2>3, <2>4 DEF RunningInv, AskedFirst, Asked
  <2>7. FailsOnce'
    <3> SUFFICES ASSUME NEW v \in Tick, pc'[v] = "fail" PROVE taskState'[cur[v]] # "FAILED"
      BY <2>1 DEF FailsOnce
    <3>1. pc[v] = "fail" /\ cur[v] \in Task
      BY <1>0, <2>3, <2>4 DEF Ownership, Owned, TaskSteps, TypeOK
    <3> QED
      BY <2>1, <3>1 DEF RunningInv, FailsOnce
  <2> QED
    BY <2>5, <2>6, <2>7
<1>3. CASE ClaimCommitFails(w) \/ Begin(w)
  <2>1. /\ UNCHANGED <<taskState, batch, approvals>>
        /\ \E s \in {"idle", "call", "requeue"} : pc' = [pc EXCEPT ![w] = s]
        /\ \A v \in Tick : v # w => cur'[v] = cur[v]
    BY <1>0, <1>3 DEF ClaimCommitFails, Begin, dbVars, TypeOK
  <2>2. \A v \in Tick : pc'[v] \in {"fail", "await_approval"} => v # w /\ pc'[v] = pc[v]
    BY <1>0, <2>1 DEF TypeOK
  <2> QED
    BY <1>0, <2>1, <2>2, QuietLosesNone DEF NoneStarted
<1>4. CASE Requeue(w)
  <2>1. pc[w] \in TaskSteps /\ Finish(w) /\ approvals' = approvals
        /\ taskState' = [taskState EXCEPT ![cur[w]] = "QUEUED"] /\ retryCount' = retryCount
    BY <1>4 DEF Requeue, Requeued, TaskSteps
  <2>2. OthersKept(w) /\ NoneStarted /\ taskState'[cur[w]] # "RUNNING"
    BY <1>0, <1>a, <2>1 DEF OthersKept, NoneStarted, TypeOK
  <2> QED
    BY <1>0, <1>c, <2>1, <2>2, FinishLosesNone
<1>5. CASE CallSucceeds(w) \/ CallFails(w) \/ NoProvider(w)
  <2>1. /\ pc[w] = "call" /\ pc[w] \in TaskSteps /\ UNCHANGED dbVars /\ approvals' = approvals
        /\ \E step \in {"complete", "fail"} : \E a : GoTo(w, step, a)
    BY <1>5 DEF CallSucceeds, CallFails, NoProvider, TaskSteps
  <2>2. taskState'[cur[w]] # "FAILED"
    BY <1>a, <2>1 DEF StatesAt, dbVars
  <2> QED
    BY <1>0, <1>b, <1>c, <2>1, <2>2, GoToLosesNone
<1>6. CASE CallNeedsApproval(w)
  <2>1. /\ pc[w] \in TaskSteps /\ UNCHANGED dbVars /\ GoTo(w, "await_approval", "none")
        /\ approvals' = Append(approvals, [task |-> cur[w], state |-> "PENDING"])
    BY <1>6 DEF CallNeedsApproval, TaskSteps
  <2>2. approvals \in Seq([task : Task, state : ApprovalStates])
    BY <1>0 DEF TypeOK
  <2>3. [task |-> cur[w], state |-> "PENDING"] \in [task : Task, state : ApprovalStates]
    BY <1>a, <2>1 DEF ApprovalStates
  <2> DEFINE row == [task |-> cur[w], state |-> "PENDING"]
             Rows == [task : Task, state : ApprovalStates]
  <2>4. row \in Rows /\ approvals \in Seq(Rows) /\ approvals' = Append(approvals, row)
    BY <2>1, <2>2, <2>3
  <2>5. row.task = cur[w]
    OBVIOUS
  <2> HIDE DEF row, Rows
  <2>6. /\ DOMAIN approvals' = DOMAIN approvals \cup {Len(approvals) + 1}
        /\ \A n \in DOMAIN approvals : approvals'[n] = approvals[n]
        /\ approvals'[Len(approvals) + 1] = row
    BY <2>4
  <2>7. StillAsked /\ Asked(cur[w])'
    <3>1. StillAsked
      BY <2>6 DEF StillAsked, Asked
    <3>2. Asked(cur[w])'
      <4>1. cur' = cur
        BY <2>1 DEF GoTo
      <4> QED
        BY <2>5, <2>6, <4>1 DEF Asked
    <3> QED
      BY <3>1, <3>2
  <2> QED
    BY <1>0, <1>b, <2>1, <2>7, GoToLosesNone
<1>7. CASE AwaitApproval(w)
  <2>1. pc[w] \in TaskSteps /\ Finish(w) /\ approvals' = approvals
        /\ taskState' = taskState /\ retryCount' = retryCount /\ pc[w] = "await_approval"
    BY <1>7 DEF AwaitApproval, TaskSteps
  <2>2. OthersKept(w) /\ NoneStarted /\ Asked(cur[w])
    BY <2>1 DEF OthersKept, NoneStarted, RunningInv, AskedFirst
  <2> QED
    BY <1>0, <1>c, <2>1, <2>2, FinishLosesNone
<1>8. CASE Complete(w)
  <2>1. pc[w] \in TaskSteps /\ TransitionTask(cur[w], "SUCCEEDED") /\ approvals' = approvals
        /\ GoTo(w, "check", "none")
    BY <1>8 DEF Complete, TaskSteps
  <2>2. OthersKept(w) /\ NoneStarted
    BY <1>0, <2>1, TransitionKeeps, TransitionStartsNone
  <2> QED
    BY <1>0, <1>c, <2>1, <2>2, GoToLosesNone
<1>9. CASE CompleteRejected(w)
  <2>1. pc[w] = "complete" /\ pc[w] \in TaskSteps /\ UNCHANGED dbVars /\ approvals' = approvals
        /\ GoTo(w, "fail", "INTERNAL_ERROR")
    BY <1>9 DEF CompleteRejected, TaskSteps
  <2>2. taskState'[cur[w]] # "FAILED"
    BY <1>a, <2>1 DEF StatesAt, dbVars
  <2> QED
    BY <1>0, <1>b, <1>c, <2>1, <2>2, GoToLosesNone
<1>10. CASE Check(w)
  <2>1. pc[w] = "check" /\ pc[w] \in TaskSteps /\ taskState' = AfterQueueing
        /\ retryCount' = retryCount /\ approvals' = approvals
        /\ (Finish(w) \/ GoTo(w, "declare", Verdict(AfterQueueing)))
    BY <1>10 DEF Check, TaskSteps
  <2>2. OthersKept(w)
    BY <1>0, <2>1, ClaimedKept DEF OthersKept
  <2>3. taskState'[cur[w]] # "RUNNING"
    BY <1>a, <1>0, <2>1, ClaimedKept DEF StatesAt
  <2>4. CASE Finish(w)
    BY <1>0, <1>c, <1>d, <2>1, <2>2, <2>3, <2>4, FinishLosesNone
  <2>5. CASE GoTo(w, "declare", Verdict(AfterQueueing))
    BY <1>0, <1>c, <1>d, <2>1, <2>2, <2>5, GoToLosesNone
  <2> QED
    BY <2>1, <2>4, <2>5
<1>11. CASE Declare(w)
  <2>1. pc[w] = "declare" /\ pc[w] \in TaskSteps /\ Finish(w) /\ approvals' = approvals
        /\ taskState' = taskState /\ retryCount' = retryCount
    BY <1>11 DEF Declare, TaskSteps
  <2>2. OthersKept(w) /\ NoneStarted /\ taskState'[cur[w]] # "RUNNING"
    BY <1>a, <2>1 DEF OthersKept, NoneStarted, StatesAt
  <2> QED
    BY <1>0, <1>c, <2>1, <2>2, FinishLosesNone
<1>12. CASE Fail(w)
  <2>1. pc[w] \in TaskSteps /\ TransitionTask(cur[w], "FAILED") /\ approvals' = approvals
        /\ (Finish(w) \/ GoTo(w, "cooldown", arg[w]))
    BY <1>12 DEF Fail, TaskSteps
  <2>2. OthersKept(w) /\ NoneStarted
    BY <1>0, <2>1, TransitionKeeps, TransitionStartsNone
  <2>3. taskState'[cur[w]] # "RUNNING"
    BY <1>0, <1>a, <2>1 DEF TransitionTask, TypeOK
  <2>4. CASE Finish(w)
    BY <1>0, <1>c, <2>1, <2>2, <2>3, <2>4, FinishLosesNone
  <2>5. CASE GoTo(w, "cooldown", arg[w])
    BY <1>0, <1>c, <2>1, <2>2, <2>5, GoToLosesNone
  <2> QED
    BY <2>1, <2>4, <2>5
<1>13. CASE Retry(w)
  <2>1. pc[w] \in TaskSteps /\ TransitionTask(cur[w], "QUEUED") /\ approvals' = approvals
        /\ Finish(w)
    BY <1>13 DEF Retry, TaskSteps
  <2>2. OthersKept(w) /\ NoneStarted
    BY <1>0, <2>1, TransitionKeeps, TransitionStartsNone
  <2>3. taskState'[cur[w]] # "RUNNING"
    BY <1>0, <1>a, <2>1 DEF TransitionTask, TypeOK
  <2> QED
    BY <1>0, <1>c, <2>1, <2>2, <2>3, FinishLosesNone
<1>14. CASE FailRejected(w)
  <2>1. /\ pc[w] \in {"fail", "cooldown"} /\ pc[w] \in TaskSteps /\ UNCHANGED dbVars
        /\ approvals' = approvals
        /\ \/ pc[w] = "fail" /\ ~ CanTaskMove(cur[w], "FAILED")
           \/ pc[w] = "cooldown" /\ ~ CanTaskMove(cur[w], "QUEUED")
        /\ (GoTo(w, "fail", "INTERNAL_ERROR") \/ Abort(w))
    BY <1>14 DEF FailRejected, Uninterrupted, TaskSteps
  <2>2. pc[w] = "fail" /\ taskState[cur[w]] = "CANCELLED"
    BY <1>a, <2>1
    DEF StatesAt, CanTaskMove, LegalTaskTransitions, RunningInv, FailsOnce
  <2>3. \A t \in Task : taskState[t] # "RUNNING"
    BY <1>0, <1>a, <2>1, <2>2 DEF CancelledTogether, RunningInv, CancelledStops
  <2>4. CASE GoTo(w, "fail", "INTERNAL_ERROR")
    BY <1>0, <1>b, <1>c, <2>1, <2>2, <2>4, GoToLosesNone DEF dbVars
  <2>5. CASE Abort(w)
    BY <1>0, <1>c, <2>1, <2>3, <2>5, AbortLosesNone DEF dbVars
  <2> QED
    BY <2>1, <2>4, <2>5
<1> QED
  BY <1>1, <1>2, <1>3, <1>4, <1>5, <1>6, <1>7, <1>8, <1>9, <1>10, <1>11, <1>12,
     <1>13, <1>14 DEF TickStep

\* Only a run that is EXECUTING has tasks that start.
LEMMA StartsInExecution ==
    ASSUME Uninterrupted, TypeOK, [Next]_vars
    PROVE  NoneStarted \/ (runState = "EXECUTING" /\ runState' = runState)
<1>1. ASSUME NEW chosen, DispatchOrConflict(chosen) PROVE NoneStarted
  BY <1>1 DEF DispatchOrConflict, DispatchTasks, dbVars, NoneStarted
<1>2. ASSUME taskState' = AfterQueueing \/ taskState' = taskState PROVE NoneStarted
  BY <1>2 DEF AfterQueueing, NoneStarted
<1>3. ASSUME NEW r \in RTick, RouteStep(r) PROVE NoneStarted
  <2>1. CASE RouteDispatch(r)
    BY <1>1, <2>1 DEF RouteDispatch
  <2>2. CASE RouteFire(r) \/ RouteQueue(r) \/ RouteExecute(r) \/ RouteTimeOut(r)
    BY <1>2, <2>2 DEF RouteFire, RouteQueue, RouteExecute, RouteTimeOut, dbVars
  <2> QED
    BY <1>3, <2>1, <2>2 DEF RouteStep
<1>4. ASSUME NEW w \in Tick, TickStep(w)
      PROVE  NoneStarted \/ (runState = "EXECUTING" /\ runState' = runState)
  <2>1. CASE Dispatch(w)
    BY <2>1, <1>1 DEF Dispatch
  <2>2. CASE Claim(w)
    BY <2>2 DEF Claim, Unprocessed, ClaimRows, Claimable, NoneStarted
  <2>3. CASE Requeue(w)
    BY <2>3 DEF Requeue, Requeued, NoneStarted, TypeOK
  <2>4. CASE Complete(w) \/ Fail(w) \/ Retry(w)
    BY <2>4, TransitionStartsNone DEF Complete, Fail, Retry
  <2>5. CASE taskState' = AfterQueueing \/ taskState' = taskState
    BY <2>5, <1>2
  <2> QED
    BY <1>4, <2>1, <2>2, <2>3, <2>4, <2>5
    DEF TickStep, Fire, ClaimCommitFails, Begin, CallSucceeds, CallFails, NoProvider,
        CallNeedsApproval, AwaitApproval, CompleteRejected, Check, Declare, FailRejected,
        dbVars
<1>5. CASE Cancel
  BY <1>5 DEF Cancel, NoneStarted
<1>6. ~ \E i \in Instance : Restart(i)
  BY DEF Restart, Uninterrupted
<1>7. CASE UNCHANGED vars
  BY <1>2, <1>7 DEF vars, dbVars
<1> QED
  BY <1>3, <1>4, <1>5, <1>6, <1>7 DEF Next

\* Only Cancel cancels the run.
LEMMA OnlyCancelCancels ==
    ASSUME VerdictHolds, [Next]_vars, ~ Cancel, runState' = "CANCELLED"
    PROVE  runState = "CANCELLED"
<1>1. ASSUME NEW target, target # "CANCELLED", MoveOrConflict(target)
      PROVE  runState = "CANCELLED"
  BY <1>1 DEF MoveOrConflict, TryRunMove
<1>2. ASSUME NEW chosen, DispatchOrConflict(chosen) PROVE runState = "CANCELLED"
  BY <1>2 DEF DispatchOrConflict, DispatchTasks, dbVars
<1>3. ASSUME NEW r \in RTick, RouteStep(r) PROVE runState = "CANCELLED"
  BY <1>1, <1>2, <1>3
  DEF RouteStep, RouteFire, RouteQueue, RouteDispatch, RouteExecute, RouteTimeOut, dbVars
<1>4. ASSUME NEW w \in Tick, TickStep(w) PROVE runState = "CANCELLED"
  <2>1. CASE Dispatch(w)
    BY <2>1, <1>2 DEF Dispatch
  <2>2. CASE AwaitApproval(w)
    BY <2>2, <1>1 DEF AwaitApproval
  <2>3. CASE Declare(w)
    BY <2>3, <1>1 DEF Declare, VerdictHolds
  <2>4. CASE UNCHANGED runState
    BY <2>4
  <2> QED
    BY <1>4, <2>1, <2>2, <2>3, <2>4
    DEF TickStep, Fire, Claim, ClaimCommitFails, Begin, Requeue, CallSucceeds, CallFails,
        NoProvider, CallNeedsApproval, Complete, CompleteRejected, Check, Fail, Retry,
        FailRejected, dbVars
<1> QED
  BY <1>3, <1>4 DEF Next, Restart, RecoverOrphans, vars, dbVars

LEMMA RunningStep ==
    Uninterrupted /\ SafetyInv /\ RunningInv /\ [Next]_vars => RunningInv'
<1> SUFFICES ASSUME Uninterrupted, SafetyInv, RunningInv, [Next]_vars PROVE RunningInv'
  OBVIOUS
<1>0. TypeOK /\ Ownership /\ VerdictHolds
  BY DEF SafetyInv
<1>1. CancelledStops'
  <2>1. CASE Cancel
    BY <2>1 DEF Cancel, CancelledStops, InProgress
  <2>2. CASE ~ Cancel
    <3> SUFFICES ASSUME runState' = "CANCELLED"
                 PROVE  \A t \in Task : taskState'[t] # "RUNNING"
      BY DEF CancelledStops
    <3>1. runState = "CANCELLED"
      BY <1>0, <2>2, OnlyCancelCancels
    <3>2. NoneStarted
      BY <1>0, <3>1, StartsInExecution
    <3> QED
      BY <3>1, <3>2 DEF NoneStarted, RunningInv, CancelledStops
  <2> QED
    BY <2>1, <2>2
<1>2. ASSUME NEW r \in RTick, RouteStep(r) PROVE NoLostRunning' /\ AskedFirst' /\ FailsOnce'
  <2>1. UNCHANGED tickVars /\ approvals' = approvals
    BY <1>2 DEF RouteStep, RouteFire, RouteQueue, RouteDispatch, RouteExecute, RouteTimeOut
  <2>2. \A v \in Tick : \A t \in batch[v] : taskState'[t] = taskState[t]
    BY <1>0, <1>2, ClaimedKept
    DEF RouteStep, RouteFire, RouteQueue, RouteDispatch, RouteExecute, RouteTimeOut, dbVars
  <2>3. NoneStarted
    BY <1>2
    DEF RouteStep, RouteFire, RouteQueue, RouteDispatch, RouteExecute, RouteTimeOut,
        DispatchOrConflict, DispatchTasks, AfterQueueing, dbVars, NoneStarted
  <2> QED
    BY <1>0, <2>1, <2>2, <2>3, QuietLosesNone DEF tickVars
<1>3. CASE Cancel
  <2>1. UNCHANGED tickVars /\ approvals' = approvals
        /\ taskState' = [t \in Task |-> IF taskState[t] \in InProgress
                                        THEN "CANCELLED" ELSE taskState[t]]
    BY <1>3 DEF Cancel
  <2>2. NoLostRunning'
    BY <2>1 DEF NoLostRunning, InProgress
  <2>3. AskedFirst'
    BY <2>1 DEF tickVars, RunningInv, AskedFirst, Asked
  <2>4. FailsOnce'
    BY <1>0, <2>1 DEF tickVars, RunningInv, FailsOnce, Ownership, Owned, TypeOK, TaskSteps
  <2> QED
    BY <1>1, <2>2, <2>3, <2>4 DEF RunningInv
<1>4. CASE UNCHANGED vars
  <2>1. NoLostRunning'
    BY <1>4 DEF vars, dbVars, tickVars, RunningInv, NoLostRunning
  <2>2. AskedFirst' /\ FailsOnce'
    BY <1>4 DEF vars, dbVars, tickVars, RunningInv, AskedFirst, Asked, FailsOnce
  <2> QED
    BY <1>1, <2>1, <2>2 DEF RunningInv
<1>5. ~ \E i \in Instance : Restart(i)
  BY DEF Restart, Uninterrupted
<1> QED
  BY <1>1, <1>2, <1>3, <1>4, <1>5, TickLosesNone DEF Next, RunningInv

\* If no server dies and no transaction is refused, a RUNNING task has a tick that will
\* finish with it or an approval that was asked for it, also when the run is cancelled
\* under a tick that gives up the rest of its batch.
THEOREM NoneAbandoned ==
    ASSUME SingleInstance, Uninterrupted PROVE Spec => []NoLostRunning
<1>1. Init => RunningInv
  BY DEF Init, RunningInv, NoLostRunning, AskedFirst, FailsOnce, CancelledStops
<1>2. SafetyInv /\ RunningInv /\ [Next]_vars => RunningInv'
  BY RunningStep
<1>3. RunningInv => NoLostRunning
  BY DEF RunningInv
<1> QED
  BY <1>1, <1>2, <1>3, Safety, PTL DEF Spec

=============================================================================
