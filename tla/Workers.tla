------------------------------ MODULE Workers ------------------------------
(***************************************************************************)
(* The routing worker and the execution worker of apps/api/src/services.ts *)
(* on one planned run.  setInterval does not await its callback, so ticks  *)
(* of one worker overlap: each is a process, and its steps are the         *)
(* database transactions (or provider calls) between two awaits.           *)
(* processingTasks is a Set in the memory of a server instance; the rest   *)
(* of the shared state is in the database.                                 *)
(*                                                                         *)
(* A definition placed before the one it varies, and used by nothing, is a *)
(* plausible fault that a property must notice (README, "Faults").         *)
(***************************************************************************)
EXTENDS TaskBroker, Sequences

CONSTANTS
    Instance,      \* server processes that share the database
    Tick,          \* overlapping ticks of the execution worker
    RTick,         \* overlapping ticks of the routing worker
    Home,          \* the instance a tick runs in
    NoTask,        \* cur[w] when tick w has no task in hand
    ClaimLimit,    \* LIMIT of the claiming query (10 in services.ts)
    MaxApprovals,  \* bound on the approvals a behaviour creates
    Events         \* what providers, operators and machines may do

PossibleEvents ==
    {"cancel", "crash", "approval", "no_provider", "PROVIDER_ERROR", "TIMEOUT",
     "INTERNAL_ERROR", "serialization", "commit", "routing_timeout"}

ASSUME InstanceAssumption == IsFiniteSet(Instance)
ASSUME TickAssumption == IsFiniteSet(Tick) /\ IsFiniteSet(RTick)
ASSUME HomeAssumption == Home \in [Tick \cup RTick -> Instance]
ASSUME NoTaskAssumption == NoTask \notin Task
ASSUME BoundsAssumption == ClaimLimit \in Nat \ {0} /\ MaxApprovals \in Nat
ASSUME EventsAssumption == Events \subseteq PossibleEvents

VARIABLES
    processing,   \* processing[i]: processingTasks of instance i
    approvals,    \* the rows of approvals, in the order of their creation
    pc,           \* pc[w]: the next step of execution tick w
    batch,        \* batch[w]: claimedTasks that w has not finished with
    cur,          \* cur[w]: the task of the loop's current iteration
    arg,          \* arg[w]: failure type, or verdict on the run, of that step
    routePc,      \* routePc[r]: the next step of routing tick r
    found         \* found[r]: r has queued or dispatched a task

dbVars == <<runState, taskState, retryCount>>
routeVars == <<routePc, found>>
tickVars == <<processing, pc, batch, cur, arg>>
vars == <<dbVars, tickVars, routeVars, approvals>>

ApprovalStates == {"PENDING", "APPROVED", "REJECTED", "EXPIRED"}

\* The steps at which an execution tick has a task in hand.
TaskSteps ==
    {"requeue", "call", "await_approval", "complete", "check", "declare",
     "fail", "cooldown"}
TickSteps == {"idle", "dispatch", "claim", "next"} \cup TaskSteps

\* A failure that services.ts reports from inside its try block, and not from
\* the catch: no provider was found.  failTask sees a PROVIDER_ERROR.
FailureArgs == {"NO_PROVIDER", "PROVIDER_ERROR", "TIMEOUT", "INTERNAL_ERROR"}
FailureType(a) == IF a = "NO_PROVIDER" THEN "PROVIDER_ERROR" ELSE a

TypeOK ==
    /\ runState \in RunStates
    /\ taskState \in [Task -> TaskStates]
    /\ retryCount \in [Task -> 0..MaxRetries]
    /\ processing \in [Instance -> SUBSET Task]
    /\ approvals \in Seq([task : Task, state : ApprovalStates])
    /\ pc \in [Tick -> TickSteps]
    /\ batch \in [Tick -> SUBSET Task]
    /\ cur \in [Tick -> Task \cup {NoTask}]
    /\ arg \in [Tick -> FailureArgs \cup {"none", "COMPLETED", "FAILED"}]
    /\ routePc \in [RTick -> {"idle", "queue", "dispatch", "execute", "timeout"}]
    /\ found \in [RTick -> BOOLEAN]

Init ==
    /\ runState = "ROUTING"
    /\ taskState = [t \in Task |-> "PENDING"]
    /\ retryCount = [t \in Task |-> 0]
    /\ processing = [i \in Instance |-> {}]
    /\ approvals = << >>
    /\ pc = [w \in Tick |-> "idle"]
    /\ batch = [w \in Tick |-> {}]
    /\ cur = [w \in Tick |-> NoTask]
    /\ arg = [w \in Tick |-> "none"]
    /\ routePc = [r \in RTick |-> "idle"]
    /\ found = [r \in RTick |-> FALSE]

-----------------------------------------------------------------------------
(***************************************************************************)
(* The routing worker: startRoutingWorker.  A tick reads the runs in       *)
(* ROUTING, queues and dispatches, and moves the run to EXECUTING if it    *)
(* found work.  Each call re-reads the database but not the run's state.   *)
(***************************************************************************)
RouteFire(r) ==
    /\ routePc[r] = "idle"
    /\ runState = "ROUTING"
    /\ \/ routePc' = [routePc EXCEPT ![r] = "queue"]
       \/ /\ "routing_timeout" \in Events
          /\ routePc' = [routePc EXCEPT ![r] = "timeout"]
    /\ UNCHANGED <<dbVars, tickVars, found, approvals>>

RouteQueue(r) ==
    /\ routePc[r] = "queue"
    /\ taskState' = AfterQueueing
    /\ found' = [found EXCEPT ![r] = QueueableTasks # {}]
    /\ routePc' = [routePc EXCEPT ![r] = "dispatch"]
    /\ UNCHANGED <<runState, retryCount, tickVars, approvals>>

\* dispatchTasks as its callers see it: it hands out tasks, or loses against a
\* concurrent transaction (40001) and returns [].
DispatchOrConflict(chosen) ==
    \/ DispatchTasks(chosen)
    \/ "serialization" \in Events /\ chosen = {} /\ UNCHANGED dbVars

RouteDispatch(r) ==
    /\ routePc[r] = "dispatch"
    /\ \E chosen \in SUBSET Task :
          /\ DispatchOrConflict(chosen)
          /\ routePc' = [routePc EXCEPT ![r] =
                            IF found[r] \/ chosen # {} THEN "execute" ELSE "idle"]
    /\ found' = [found EXCEPT ![r] = FALSE]
    /\ UNCHANGED <<tickVars, approvals>>

\* A transition as a worker sees it: refused by the table or lost in the same way,
\* it throws, and the worker swallows the error.
MoveOrConflict(target) ==
    TryRunMove(target) \/ ("serialization" \in Events /\ UNCHANGED runState)

RouteExecute(r) ==
    /\ routePc[r] = "execute"
    /\ MoveOrConflict("EXECUTING")
    /\ routePc' = [routePc EXCEPT ![r] = "idle"]
    /\ UNCHANGED <<taskState, retryCount, tickVars, found, approvals>>

RouteTimeOut(r) ==
    /\ routePc[r] = "timeout"
    /\ MoveOrConflict("FAILED")
    /\ routePc' = [routePc EXCEPT ![r] = "idle"]
    /\ UNCHANGED <<taskState, retryCount, tickVars, found, approvals>>

RouteStep(r) ==
    \/ RouteFire(r) \/ RouteQueue(r) \/ RouteDispatch(r)
    \/ RouteExecute(r) \/ RouteTimeOut(r)

-----------------------------------------------------------------------------
(***************************************************************************)
(* The execution worker: startExecutionWorker, before its task loop.       *)
(***************************************************************************)
Fire(w) ==
    /\ pc[w] = "idle"
    /\ pc' = [pc EXCEPT ![w] =
                 IF runState = "EXECUTING" /\ \E t \in Task : taskState[t] = "QUEUED"
                 THEN "dispatch" ELSE "claim"]
    /\ UNCHANGED <<dbVars, processing, batch, cur, arg, routeVars, approvals>>

Dispatch(w) ==
    /\ pc[w] = "dispatch"
    /\ \E chosen \in SUBSET Task : DispatchOrConflict(chosen)
    /\ pc' = [pc EXCEPT ![w] = "claim"]
    /\ UNCHANGED <<processing, batch, cur, arg, routeVars, approvals>>

Claimable ==
    {t \in Task : /\ runState = "EXECUTING"
                  /\ taskState[t] = "DISPATCHED"
                  /\ DepsMet(t)}

\* What the claiming query may return: LIMIT of them, in no particular order.
ClaimRows ==
    {rows \in SUBSET Claimable :
        \/ rows = Claimable /\ Cardinality(rows) <= ClaimLimit
        \/ Cardinality(rows) = ClaimLimit}

\* The rows the loop over them keeps: not already in processingTasks.
UnprocessedOrNot(w, rows) == rows
Unprocessed(w, rows) == rows \ processing[Home[w]]

Claim(w) ==
    /\ pc[w] = "claim"
    /\ \E rows \in ClaimRows :
          LET mine == Unprocessed(w, rows) IN
          /\ taskState' = [t \in Task |-> IF t \in mine THEN "RUNNING" ELSE taskState[t]]
          /\ processing' = [processing EXCEPT ![Home[w]] = @ \cup mine]
          /\ batch' = [batch EXCEPT ![w] = mine]
          /\ pc' = [pc EXCEPT ![w] = IF mine = {} THEN "idle" ELSE "next"]
    /\ UNCHANGED <<runState, retryCount, cur, arg, routeVars, approvals>>

\* The transaction rolls back after processingTasks.add.
ClaimCommitFails(w) ==
    /\ "commit" \in Events
    /\ pc[w] = "claim"
    /\ \E rows \in ClaimRows :
          processing' = [processing EXCEPT ![Home[w]] = @ \cup Unprocessed(w, rows)]
    /\ pc' = [pc EXCEPT ![w] = "idle"]
    /\ UNCHANGED <<dbVars, batch, cur, arg, routeVars, approvals>>

-----------------------------------------------------------------------------
(***************************************************************************)
(* The task loop.  Finish is the way every iteration ends that does not    *)
(* let an error escape: the task leaves processingTasks and the loop goes  *)
(* on.  Abort is an error thrown by failTask inside the catch block: the   *)
(* finally block releases the task in hand and the loop is over.           *)
(***************************************************************************)
Finish(w) ==
    /\ processing' = [processing EXCEPT ![Home[w]] = @ \ {cur[w]}]
    /\ batch' = [batch EXCEPT ![w] = @ \ {cur[w]}]
    /\ cur' = [cur EXCEPT ![w] = NoTask]
    /\ arg' = [arg EXCEPT ![w] = "none"]
    /\ pc' = [pc EXCEPT ![w] = IF batch[w] = {cur[w]} THEN "idle" ELSE "next"]

Abort(w) ==
    /\ processing' = [processing EXCEPT ![Home[w]] = @ \ {cur[w]}]
    /\ batch' = [batch EXCEPT ![w] = {}]
    /\ cur' = [cur EXCEPT ![w] = NoTask]
    /\ arg' = [arg EXCEPT ![w] = "none"]
    /\ pc' = [pc EXCEPT ![w] = "idle"]

GoTo(w, step, a) ==
    /\ pc' = [pc EXCEPT ![w] = step]
    /\ arg' = [arg EXCEPT ![w] = a]
    /\ UNCHANGED <<processing, batch, cur>>

\* The loop takes its next task and re-reads the state of the run.
Begin(w) ==
    /\ pc[w] = "next"
    /\ \E t \in batch[w] : cur' = [cur EXCEPT ![w] = t]
    /\ pc' = [pc EXCEPT ![w] = IF runState = "EXECUTING" THEN "call" ELSE "requeue"]
    /\ UNCHANGED <<dbVars, processing, batch, arg, routeVars, approvals>>

\* An UPDATE by id, whatever the task's state is by then.
RequeueForgotten(w) == taskState' = taskState
Requeued(w) == taskState' = [taskState EXCEPT ![cur[w]] = "QUEUED"]

RequeueWithoutContinue(w) ==
    /\ pc[w] = "requeue"
    /\ Requeued(w)
    /\ GoTo(w, "call", "none")
    /\ UNCHANGED <<runState, retryCount, routeVars, approvals>>
Requeue(w) ==
    /\ pc[w] = "requeue"
    /\ Requeued(w)
    /\ Finish(w)
    /\ UNCHANGED <<runState, retryCount, routeVars, approvals>>

\* The provider answered, and no tool call was refused for want of an approval.
CallSucceeds(w) ==
    /\ pc[w] = "call"
    /\ GoTo(w, "complete", "none")
    /\ UNCHANGED <<dbVars, routeVars, approvals>>

CallFails(w) ==
    /\ pc[w] = "call"
    /\ \E failureType \in Events \cap {"PROVIDER_ERROR", "TIMEOUT", "INTERNAL_ERROR"} :
          GoTo(w, "fail", failureType)
    /\ UNCHANGED <<dbVars, routeVars, approvals>>

NoProvider(w) ==
    /\ pc[w] = "call"
    /\ "no_provider" \in Events
    /\ GoTo(w, "fail", "NO_PROVIDER")
    /\ UNCHANGED <<dbVars, routeVars, approvals>>

\* evaluateAction says REQUIRE_APPROVAL for a tool call: createApproval ...
CallNeedsApproval(w) ==
    /\ pc[w] = "call"
    /\ "approval" \in Events /\ Len(approvals) < MaxApprovals
    /\ approvals' = Append(approvals, [task |-> cur[w], state |-> "PENDING"])
    /\ GoTo(w, "await_approval", "none")
    /\ UNCHANGED <<dbVars, routeVars>>

\* ... and then the run waits, the task stays RUNNING and the tick leaves it.
AwaitApproval(w) ==
    /\ pc[w] = "await_approval"
    /\ MoveOrConflict("WAITING_APPROVAL")
    /\ Finish(w)
    /\ UNCHANGED <<taskState, retryCount, routeVars, approvals>>

Complete(w) ==
    /\ pc[w] = "complete"
    /\ TransitionTask(cur[w], "SUCCEEDED")
    /\ GoTo(w, "check", "none")
    /\ UNCHANGED <<runState, routeVars, approvals>>

CompleteRejected(w) ==
    /\ pc[w] = "complete"
    /\ ~ CanTaskMove(cur[w], "SUCCEEDED") \/ "serialization" \in Events
    /\ GoTo(w, "fail", "INTERNAL_ERROR")
    /\ UNCHANGED <<dbVars, routeVars, approvals>>

(***************************************************************************)
(* After a success, one transaction queues the dependents and counts the   *)
(* tasks; its numbers decide, outside of it, what the run becomes.         *)
(***************************************************************************)
InProgress == {"PENDING", "QUEUED", "DISPATCHED", "RUNNING"}

Verdict(states) ==
    LET some(S) == \E t \in Task : states[t] \in S IN
    IF some(InProgress) \/ ~ some({"FAILED", "SUCCEEDED", "SKIPPED"}) THEN "none"
    ELSE IF some({"FAILED"}) THEN "FAILED"
    ELSE "COMPLETED"

Check(w) ==
    /\ pc[w] = "check"
    /\ taskState' = AfterQueueing
    /\ LET verdict == Verdict(AfterQueueing) IN
       IF verdict = "none" THEN Finish(w) ELSE GoTo(w, "declare", verdict)
    /\ UNCHANGED <<runState, retryCount, routeVars, approvals>>

Declare(w) ==
    /\ pc[w] = "declare"
    /\ MoveOrConflict(arg[w])
    /\ Finish(w)
    /\ UNCHANGED <<taskState, retryCount, routeVars, approvals>>

(***************************************************************************)
(* failTask: mark the task FAILED, and if it has retries left sleep before *)
(* queueing it again.  Either transition may be refused.  (The retry count *)
(* is read in a query of its own, before; nobody but POST /tasks/:id/retry *)
(* could change it in between, and that route wants the task FAILED.)      *)
(***************************************************************************)
Fail(w) ==
    /\ pc[w] = "fail"
    /\ TransitionTask(cur[w], "FAILED")
    /\ IF WillRetry(cur[w], FailureType(arg[w]))
       THEN GoTo(w, "cooldown", arg[w])
       ELSE Finish(w)
    /\ UNCHANGED <<runState, routeVars, approvals>>

Retry(w) ==
    /\ pc[w] = "cooldown"
    /\ TransitionTask(cur[w], "QUEUED")
    /\ Finish(w)
    /\ UNCHANGED <<runState, routeVars, approvals>>

\* failTask throws: from the try block into the catch, from the catch out.
FailRejected(w) ==
    /\ \/ pc[w] = "fail" /\ ~ CanTaskMove(cur[w], "FAILED")
       \/ pc[w] = "cooldown" /\ ~ CanTaskMove(cur[w], "QUEUED")
       \/ pc[w] \in {"fail", "cooldown"} /\ "serialization" \in Events
    /\ IF arg[w] = "NO_PROVIDER"
       THEN GoTo(w, "fail", "INTERNAL_ERROR")
       ELSE Abort(w)
    /\ UNCHANGED <<dbVars, routeVars, approvals>>

TickStep(w) ==
    \/ Fire(w) \/ Dispatch(w) \/ Claim(w) \/ ClaimCommitFails(w)
    \/ Begin(w) \/ Requeue(w)
    \/ CallSucceeds(w) \/ CallFails(w) \/ NoProvider(w)
    \/ CallNeedsApproval(w) \/ AwaitApproval(w)
    \/ Complete(w) \/ CompleteRejected(w) \/ Check(w) \/ Declare(w)
    \/ Fail(w) \/ Retry(w) \/ FailRejected(w)

-----------------------------------------------------------------------------
(***************************************************************************)
(* The operator cancels the run: the transaction of POST /runs/:id/cancel. *)
(***************************************************************************)
Cancel ==
    /\ "cancel" \in Events
    /\ runState \notin {"COMPLETED", "CANCELLED"}
    /\ runState' = "CANCELLED"
    /\ taskState' = [t \in Task |-> IF taskState[t] \in InProgress
                                    THEN "CANCELLED" ELSE taskState[t]]
    /\ UNCHANGED <<retryCount, tickVars, routeVars, approvals>>

\* expireOverdueApprovals: only what is still pending, and nothing but the approval.
ExpireOverdue(overdue) ==
    [a \in DOMAIN approvals |->
        IF a \in overdue /\ approvals[a].state = "PENDING"
        THEN [task |-> approvals[a].task, state |-> "EXPIRED"]
        ELSE approvals[a]]

(***************************************************************************)
(* An instance dies at any step and starts again: its memory is gone, and  *)
(* initializeServices recovers stalled tasks and expires overdue           *)
(* approvals before the workers start.                                     *)
(***************************************************************************)
Restart(i) ==
    /\ "crash" \in Events
    /\ \E stalled \in SUBSET Task : RecoverOrphans(stalled)
    /\ \E overdue \in SUBSET DOMAIN approvals : approvals' = ExpireOverdue(overdue)
    /\ processing' = [processing EXCEPT ![i] = {}]
    /\ pc' = [w \in Tick |-> IF Home[w] = i THEN "idle" ELSE pc[w]]
    /\ batch' = [w \in Tick |-> IF Home[w] = i THEN {} ELSE batch[w]]
    /\ cur' = [w \in Tick |-> IF Home[w] = i THEN NoTask ELSE cur[w]]
    /\ arg' = [w \in Tick |-> IF Home[w] = i THEN "none" ELSE arg[w]]
    /\ routePc' = [r \in RTick |-> IF Home[r] = i THEN "idle" ELSE routePc[r]]
    /\ found' = [r \in RTick |-> IF Home[r] = i THEN FALSE ELSE found[r]]

Next ==
    \/ \E r \in RTick : RouteStep(r)
    \/ \E w \in Tick : TickStep(w)
    \/ Cancel
    \/ \E i \in Instance : Restart(i)

Spec == Init /\ [][Next]_vars

\* setInterval keeps firing, and every await returns: provider calls carry an
\* abort signal and the pool's queries are answered.
Fairness ==
    /\ \A r \in RTick : WF_vars(RouteStep(r))
    /\ \A w \in Tick : WF_vars(TickStep(w))

FairSpec == Spec /\ Fairness

-----------------------------------------------------------------------------
(***************************************************************************)
(* Safety.                                                                 *)
(***************************************************************************)

\* No more than maxConcurrent tasks of the run are dispatched or running,
\* whichever ticks dispatched them (dispatchTasks counts in its transaction).
ActiveBound == Cardinality(ActiveTasks) <= MaxConcurrent

\* While a task is dispatched or running, every task it depends on is done:
\* nothing undoes a dependency after the checks of queueing and dispatching.
DepsSafe == \A t \in ActiveTasks : Deps[t] \subseteq DoneTasks

\* Two ticks never work on the same task (the purpose of FOR UPDATE SKIP LOCKED
\* and of processingTasks).
Exclusive ==
    \A v, w \in Tick : v # w => batch[v] \cap batch[w] = {}

\* A run is COMPLETED only with every task done, although the tick that says so
\* counted the tasks in an earlier transaction.
CompletedDone == runState = "COMPLETED" => DoneTasks = Task

\* A RUNNING task has a tick that will finish with it or an approval that was
\* asked for it: nothing else would ever move it.
NoLostRunning ==
    \A t \in Task : taskState[t] = "RUNNING" =>
        \/ \E w \in Tick : t \in batch[w]
        \/ \E a \in DOMAIN approvals : approvals[a].task = t

\* A run fails only for want of a task that can still succeed: no failed task
\* has a retry pending when the run becomes FAILED ("no retries pending").
NoFailureWhileRetrying ==
    [][runState = "EXECUTING" /\ runState' = "FAILED" =>
          \A w \in Tick : pc[w] # "cooldown"]_vars

\* The workers implement the abstract scheduler: what they have dispatched is
\* running there, and a run they complete is over.
Dag == INSTANCE DagExecution WITH
    running <- ActiveTasks,
    done <- DoneTasks,
    over <- runState = "COMPLETED"

DagExecutionImplemented == Dag!Spec

(***************************************************************************)
(* Liveness.                                                               *)
(***************************************************************************)

\* A task that failed for good: no tick is waiting to queue it again.
GivenUp ==
    \E t \in Task : /\ taskState[t] = "FAILED"
                    /\ \A w \in Tick : t \notin batch[w]

\* Provider failures that are retried never stall a run: it ends, unless some
\* task has failed for good.
Settles == <>(runState \in {"COMPLETED", "FAILED"} \/ GivenUp)

\* A run some task of which failed for good ends as well.
FailureEndsRun ==
    GivenUp ~> runState \in {"COMPLETED", "FAILED", "CANCELLED"}

=============================================================================
