----------------------------- MODULE TaskRoutes -----------------------------
(***************************************************************************)
(* The workers, the operators and the routes of apps/api/src/routes/       *)
(* tasks.ts that change a task outside of the workers: POST /:id/execute,  *)
(* /:id/complete, /:id/fail and /:id/retry.  A request is a process; it    *)
(* ends a step at each await whose answer the others can change, and it    *)
(* never looks at processingTasks.                                         *)
(*                                                                         *)
(* A definition placed before the one it varies, and used by nothing, is a *)
(* plausible fault that a property must notice (README, "Faults").         *)
(***************************************************************************)
EXTENDS Operator

CONSTANTS
    TaskRequest,       \* concurrent requests to these four routes
    MaxManualRetries   \* bound: tasks are re-queued by request with a lower count only

ASSUME ManualRetriesAssumption ==
    MaxManualRetries \in Nat /\ MaxManualRetries >= MaxRetries

VARIABLES
    tqPc,      \* tqPc[x]: the next step of request x
    tqTask,    \* tqTask[x]: the task it names
    tqArg      \* tqArg[x]: failure type, decision to retry, or verdict on the run

tqVars == <<tqPc, tqTask, tqArg>>
routesVars == <<allVars, tqVars>>

TaskRequestSteps ==
    {"none", "start", "run", "await_approval", "complete", "check", "declare",
     "read", "fail_for_good", "fail_and_retry", "cooldown", "retry_task", "retry_run"}

TaskRoutesTypeOK ==
    /\ OperatorTypeOK
    /\ tqPc \in [TaskRequest -> TaskRequestSteps]
    /\ tqTask \in [TaskRequest -> Task \cup {NoTask}]
    /\ tqArg \in [TaskRequest ->
                     {"none", "execute", "complete", "COMPLETED", "FAILED",
                      "POLICY_DENIED", "TOOL_ERROR", "INTERNAL_ERROR", "TIMEOUT"}]
    /\ \A x \in TaskRequest : tqPc[x] = "none" <=> tqTask[x] = NoTask

TaskRoutesInit ==
    /\ OperatorInit
    /\ tqPc = [x \in TaskRequest |-> "none"]
    /\ tqTask = [x \in TaskRequest |-> NoTask]
    /\ tqArg = [x \in TaskRequest |-> "none"]

-----------------------------------------------------------------------------
Goes(x, step, a) ==
    /\ tqPc' = [tqPc EXCEPT ![x] = step]
    /\ tqArg' = [tqArg EXCEPT ![x] = a]
    /\ UNCHANGED tqTask
Answers(x) ==
    /\ tqPc' = [tqPc EXCEPT ![x] = "none"]
    /\ tqArg' = [tqArg EXCEPT ![x] = "none"]
    /\ tqTask' = [tqTask EXCEPT ![x] = NoTask]

\* The catch block of execute fails the task; the one of complete does not.
Throws(x) == IF tqArg[x] = "complete" THEN Answers(x) ELSE Goes(x, "read", "INTERNAL_ERROR")

(***************************************************************************)
(* The requests: execute wants a task it reads as DISPATCHED, retry one it *)
(* reads as FAILED, complete and fail take any, and fail any type of       *)
(* failure (TIMEOUT is retried, TOOL_ERROR is not).                        *)
(***************************************************************************)
Asks(x, operation, t, step, a) ==
    /\ operation \in Operations
    /\ tqPc[x] = "none"
    /\ tqTask' = [tqTask EXCEPT ![x] = t]
    /\ tqPc' = [tqPc EXCEPT ![x] = step]
    /\ tqArg' = [tqArg EXCEPT ![x] = a]
    /\ UNCHANGED allVars

AskExecute(x) ==
    \E t \in Task : taskState[t] = "DISPATCHED" /\ Asks(x, "execute", t, "start", "execute")
AskRetry(x) ==
    \E t \in Task : taskState[t] = "FAILED" /\ Asks(x, "retry", t, "retry_task", "none")
AskComplete(x) == \E t \in Task : Asks(x, "complete", t, "complete", "complete")
AskFail(x) == \E t \in Task, type \in {"TIMEOUT", "TOOL_ERROR"} : Asks(x, "fail", t, "read", type)

\* The transition to RUNNING, in a transaction that reads the row again.
StartTask(x) ==
    /\ tqPc[x] = "start"
    /\ IF CanTaskMove(tqTask[x], "RUNNING")
       THEN TransitionTask(tqTask[x], "RUNNING") /\ Goes(x, "run", tqArg[x])
       ELSE UNCHANGED <<taskState, retryCount>> /\ Throws(x)
    /\ UNCHANGED <<runState, tickVars, routeVars, approvals, reqPc>>

\* The policy, the provider and the tool: denied, done, failed, or an error.
RunTask(x) ==
    /\ tqPc[x] = "run"
    /\ \/ Goes(x, "complete", "execute")
       \/ \E failure \in {"POLICY_DENIED", "TOOL_ERROR"} : Goes(x, "read", failure)
       \/ "INTERNAL_ERROR" \in Events /\ Throws(x)
    /\ UNCHANGED allVars

\* The policy wants an approval: createApproval, then the run waits.
AskApproval(x) ==
    /\ tqPc[x] = "run"
    /\ "approval" \in Events /\ Len(approvals) < MaxApprovals
    /\ approvals' = Append(approvals, [task |-> tqTask[x], state |-> "PENDING"])
    /\ Goes(x, "await_approval", "none")
    /\ UNCHANGED <<dbVars, tickVars, routeVars, reqPc>>

LeaveWaiting(x) ==
    /\ tqPc[x] = "await_approval"
    /\ TryRunMove("WAITING_APPROVAL")
    /\ Answers(x)
    /\ UNCHANGED <<taskState, retryCount, tickVars, routeVars, approvals, reqPc>>

CompleteTask(x) ==
    /\ tqPc[x] = "complete"
    /\ IF CanTaskMove(tqTask[x], "SUCCEEDED")
       THEN TransitionTask(tqTask[x], "SUCCEEDED") /\ Goes(x, "check", tqArg[x])
       ELSE UNCHANGED <<taskState, retryCount>> /\ Throws(x)
    /\ UNCHANGED <<runState, tickVars, routeVars, approvals, reqPc>>

(***************************************************************************)
(* checkRunCompletion queues nothing and counts cancelled tasks; its       *)
(* numbers are used after another await, and complete ignores "failed".    *)
(***************************************************************************)
NothingActive ==
    \A t \in Task : taskState[t] \in {"SUCCEEDED", "SKIPPED", "FAILED", "CANCELLED"}

RunCompletion ==
    LET some(S) == \E t \in Task : taskState[t] \in S IN
    IF ~ NothingActive THEN "none"
    ELSE IF some({"FAILED"}) THEN "FAILED"
    ELSE IF some({"SUCCEEDED", "SKIPPED"}) \/ Task # {} THEN "COMPLETED"
    ELSE "none"

CheckRun(x) ==
    /\ tqPc[x] = "check"
    /\ LET verdicts == IF tqArg[x] = "complete" THEN {"COMPLETED"} ELSE {"COMPLETED", "FAILED"}
       IN  IF RunCompletion \in verdicts
           THEN Goes(x, "declare", RunCompletion)
           ELSE Answers(x)
    /\ UNCHANGED allVars

\* A refused transition throws; the failTask of the catch block is then refused too,
\* for the task has succeeded.
DeclareRun(x) ==
    /\ tqPc[x] = "declare"
    /\ TryRunMove(tqArg[x])
    /\ Answers(x)
    /\ UNCHANGED <<taskState, retryCount, tickVars, routeVars, approvals, reqPc>>

(***************************************************************************)
(* failTask: read the row, then fail the task, and if it had retries left  *)
(* by that reading sleep and queue it.  What it throws is swallowed or     *)
(* answered, and from inside the try block of execute caught once more.    *)
(***************************************************************************)
ReadToFail(x) ==
    /\ tqPc[x] = "read"
    /\ Goes(x, IF WillRetry(tqTask[x], tqArg[x]) THEN "fail_and_retry" ELSE "fail_for_good",
            tqArg[x])
    /\ UNCHANGED allVars

FailTask(x) ==
    /\ tqPc[x] \in {"fail_for_good", "fail_and_retry"}
    /\ IF CanTaskMove(tqTask[x], "FAILED")
       THEN /\ TransitionTask(tqTask[x], "FAILED")
            /\ IF tqPc[x] = "fail_and_retry"
               THEN Goes(x, "cooldown", "none")
               ELSE Answers(x)
       ELSE /\ UNCHANGED <<taskState, retryCount>>
            /\ Answers(x)
    /\ UNCHANGED <<runState, tickVars, routeVars, approvals, reqPc>>

RequeueTask(x) ==
    /\ tqPc[x] = "cooldown"
    /\ retryCount[tqTask[x]] < MaxManualRetries
    /\ IF CanTaskMove(tqTask[x], "QUEUED")
       THEN TransitionTask(tqTask[x], "QUEUED")
       ELSE UNCHANGED <<taskState, retryCount>>
    /\ Answers(x)
    /\ UNCHANGED <<runState, tickVars, routeVars, approvals, reqPc>>

(***************************************************************************)
(* retry: re-queue the task by id, and bring the run back to EXECUTING.    *)
(***************************************************************************)
RetryTask(x) ==
    /\ tqPc[x] = "retry_task"
    /\ retryCount[tqTask[x]] < MaxManualRetries
    /\ taskState' = [taskState EXCEPT ![tqTask[x]] = "QUEUED"]
    /\ retryCount' = [retryCount EXCEPT ![tqTask[x]] = @ + 1]
    /\ Goes(x, "retry_run", "none")
    /\ UNCHANGED <<runState, tickVars, routeVars, approvals, reqPc>>

RetryRun(x) ==
    /\ tqPc[x] = "retry_run"
    /\ runState' = IF runState \in {"FAILED", "PAUSED"} THEN "EXECUTING" ELSE runState
    /\ Answers(x)
    /\ UNCHANGED <<taskState, retryCount, tickVars, routeVars, approvals, reqPc>>

TaskRequestStep(x) ==
    \/ AskExecute(x) \/ AskComplete(x) \/ AskFail(x) \/ AskRetry(x)
    \/ StartTask(x) \/ RunTask(x) \/ AskApproval(x) \/ LeaveWaiting(x)
    \/ CompleteTask(x) \/ CheckRun(x) \/ DeclareRun(x)
    \/ ReadToFail(x) \/ FailTask(x) \/ RequeueTask(x)
    \/ RetryTask(x) \/ RetryRun(x)

OthersStep ==
    /\ OperatorNext
    /\ UNCHANGED tqVars

TaskRoutesNext == OthersStep \/ \E x \in TaskRequest : TaskRequestStep(x)

TaskRoutesSpec == TaskRoutesInit /\ [][TaskRoutesNext]_routesVars

=============================================================================
