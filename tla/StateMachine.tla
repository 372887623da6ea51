---------------------------- MODULE StateMachine ----------------------------
(***************************************************************************)
(* The rows of the database that the scheduling of a planned run reads and *)
(* writes: the run and its tasks (tasks.state, tasks.retry_count), with    *)
(* the validated transitions of services/orchestrator/src/state-machine.ts.*)
(* A transaction of the code is one step here; everything between two      *)
(* awaits of a caller may interleave with the steps of the others.         *)
(***************************************************************************)
EXTENDS RunStateMachine, Integers, FiniteSets

CONSTANTS
    Task,        \* the tasks that the plan of the run created
    Deps,        \* Deps[t]: the tasks named in t.depends_on
    MaxRetries   \* tasks.max_retries

ASSUME TaskAssumption == IsFiniteSet(Task)
ASSUME DepsAssumption == Deps \in [Task -> SUBSET Task]
ASSUME RetriesAssumption == MaxRetries \in Nat

VARIABLES
    taskState,   \* tasks.state, by task
    retryCount   \* tasks.retry_count, by task

TaskStates ==
    {"PENDING", "QUEUED", "DISPATCHED", "RUNNING", "SUCCEEDED", "FAILED",
     "SKIPPED", "CANCELLED"}

(***************************************************************************)
(* The table, as a set of pairs <<from, to>>.                              *)
(***************************************************************************)
LegalTaskTransitions ==
    UNION {{"PENDING"} \X {"QUEUED", "SKIPPED", "CANCELLED"},
           {"QUEUED"} \X {"DISPATCHED", "CANCELLED"},
           {"DISPATCHED"} \X {"RUNNING", "FAILED", "CANCELLED"},
           {"RUNNING"} \X {"SUCCEEDED", "FAILED", "CANCELLED"},
           {"FAILED"} \X {"QUEUED", "SKIPPED"}}

CanTaskMove(t, target) == <<taskState[t], target>> \in LegalTaskTransitions

(***************************************************************************)
(* transitionTaskState when it does not throw.  A task re-queued after a   *)
(* failure has its retry count incremented in the same update.             *)
(***************************************************************************)
TransitionTask(t, target) ==
    /\ CanTaskMove(t, target)
    /\ taskState' = [taskState EXCEPT ![t] = target]
    /\ retryCount' = IF target = "QUEUED" /\ taskState[t] = "FAILED"
                     THEN [retryCount EXCEPT ![t] = @ + 1]
                     ELSE retryCount

=============================================================================
