------------------------------ MODULE Operator ------------------------------
(***************************************************************************)
(* The workers together with the people who steer a run through the API:   *)
(* routes/approvals.ts (approve, reject), POST /runs/:id/resume and        *)
(* POST /runs/:id/dispatch.  The first three are one transaction each; a   *)
(* dispatch is several, and a request for it is a process.                 *)
(*                                                                         *)
(* A definition placed before the one it varies, and used by nothing, is a *)
(* plausible fault that a property must notice (README, "Faults").         *)
(***************************************************************************)
EXTENDS Workers

CONSTANTS
    Request,       \* concurrent dispatch requests
    Operations     \* the routes an operator uses

ASSUME OperationsAssumption ==
    Operations \subseteq {"approve", "reject", "resume", "dispatch",
                           "execute", "complete", "fail", "retry"}   \* the last four: TaskRoutes

VARIABLE reqPc   \* reqPc[q]: the next query of request q

allVars == <<vars, reqPc>>

OperatorTypeOK ==
    /\ runState \in RunStates
    /\ taskState \in [Task -> TaskStates]
    /\ retryCount \in [Task -> Nat]
    /\ approvals \in Seq([task : Task, state : ApprovalStates])
    /\ pc \in [Tick -> TickSteps]
    /\ reqPc \in [Request -> {"none", "dispatch_run", "dispatch_queue", "dispatch_tasks"}]

OperatorInit ==
    /\ Init
    /\ reqPc = [q \in Request |-> "none"]

-----------------------------------------------------------------------------
(***************************************************************************)
(* approvals.ts: a pending approval is resolved once; the run is moved     *)
(* only if it waits, and the task according to the verdict.                *)
(***************************************************************************)
Resolve(a, verdict) ==
    /\ approvals[a].state = "PENDING"
    /\ approvals' = [approvals EXCEPT ![a].state = verdict]

RunResumedAnyway == runState' = "EXECUTING"
RunResumed ==
    runState' = IF runState = "WAITING_APPROVAL" THEN "EXECUTING" ELSE runState

Approve(a) ==
    /\ "approve" \in Operations
    /\ Resolve(a, "APPROVED")
    /\ RunResumed
    /\ LET t == approvals[a].task IN
       taskState' = [taskState EXCEPT ![t] = IF @ = "RUNNING" THEN "QUEUED" ELSE @]
    /\ UNCHANGED <<retryCount, tickVars, routeVars, reqPc>>

Reject(a) ==
    /\ "reject" \in Operations
    /\ Resolve(a, "REJECTED")
    /\ taskState' = [taskState EXCEPT ![approvals[a].task] = "FAILED"]
    /\ runState' = IF runState = "WAITING_APPROVAL" THEN "PAUSED" ELSE runState
    /\ UNCHANGED <<retryCount, tickVars, routeVars, reqPc>>

(***************************************************************************)
(* POST /runs/:id/resume.  Failed and pending tasks are queued whatever    *)
(* they depend on, so the queueReadyTasks that follows finds none pending. *)
(* A run resumed from FAILED goes to the planning worker.                  *)
(***************************************************************************)
ResumedEvenSucceeded == {"FAILED", "PENDING", "SUCCEEDED"}
ResumedTasks == {"FAILED", "PENDING"}

Resume ==
    /\ "resume" \in Operations
    /\ \/ runState = "PAUSED" /\ runState' = "EXECUTING"
       \/ runState = "FAILED" /\ runState' = "PLANNING"
    /\ taskState' = [t \in Task |-> IF taskState[t] \in ResumedTasks
                                    THEN "QUEUED" ELSE taskState[t]]
    /\ retryCount' = [t \in Task |-> IF taskState[t] \in ResumedTasks
                                     THEN 0 ELSE retryCount[t]]
    /\ UNCHANGED <<tickVars, routeVars, approvals, reqPc>>

(***************************************************************************)
(* POST /runs/:id/dispatch: read the state of the run, start it if it is   *)
(* in ROUTING, queue what is ready and dispatch, whatever the run has      *)
(* become by then.                                                         *)
(***************************************************************************)
Proceed(q, step) == reqPc' = [reqPc EXCEPT ![q] = step]

DispatchFound(q) ==
    /\ "dispatch" \in Operations
    /\ reqPc[q] = "none"
    /\ \/ runState = "ROUTING" /\ Proceed(q, "dispatch_run")
       \/ runState = "EXECUTING" /\ Proceed(q, "dispatch_queue")
    /\ UNCHANGED vars

\* A refused transition is the end of the request.
DispatchRun(q) ==
    /\ reqPc[q] = "dispatch_run"
    /\ TryRunMove("EXECUTING")
    /\ Proceed(q, IF CanRunMove("EXECUTING") THEN "dispatch_queue" ELSE "none")
    /\ UNCHANGED <<taskState, retryCount, tickVars, routeVars, approvals>>

DispatchQueue(q) ==
    /\ reqPc[q] = "dispatch_queue"
    /\ taskState' = AfterQueueing
    /\ Proceed(q, "dispatch_tasks")
    /\ UNCHANGED <<runState, retryCount, tickVars, routeVars, approvals>>

DispatchReady(q) ==
    /\ reqPc[q] = "dispatch_tasks"
    /\ \E chosen \in SUBSET Task : DispatchOrConflict(chosen)
    /\ Proceed(q, "none")
    /\ UNCHANGED <<tickVars, routeVars, approvals>>

OperatorStep ==
    \/ \E a \in DOMAIN approvals : Approve(a) \/ Reject(a)
    \/ Resume
    \/ \E q \in Request :
          DispatchFound(q) \/ DispatchRun(q) \/ DispatchQueue(q) \/ DispatchReady(q)

\* A request may be served by any instance; one that dies with its instance is one
\* that never takes its next step.
WorkersStep ==
    /\ Next
    /\ UNCHANGED reqPc

OperatorNext == WorkersStep \/ OperatorStep

OperatorSpec == OperatorInit /\ [][OperatorNext]_allVars

OperatorFairSpec ==
    /\ OperatorSpec
    /\ \A r \in RTick : WF_allVars(RouteStep(r) /\ UNCHANGED reqPc)
    /\ \A w \in Tick : WF_allVars(TickStep(w) /\ UNCHANGED reqPc)

-----------------------------------------------------------------------------
(***************************************************************************)
(* Properties.                                                             *)
(***************************************************************************)

\* A run that is COMPLETED or CANCELLED stays so, whatever approvals, retries
\* and worker ticks are still under way for it.
RunTerminal ==
    [][(runState \in {"COMPLETED", "CANCELLED"}) => runState' = runState]_allVars

\* The result of a task is never undone (SUCCEEDED: [] in the table).
SucceededIsFinal ==
    [][\A t \in Task : taskState[t] = "SUCCEEDED" => taskState'[t] = "SUCCEEDED"]_allVars

\* A run that waits has something to wait for: an approval somebody can grant.
WaitingHasApproval ==
    runState = "WAITING_APPROVAL" =>
        \E a \in DOMAIN approvals : approvals[a].state = "PENDING"

=============================================================================
