----------------------------- MODULE TaskBroker -----------------------------
(***************************************************************************)
(* The transactions of services/orchestrator/src/task-broker.ts: which     *)
(* pending tasks are queued, which queued ones are dispatched, what        *)
(* failing a task does and what start-up recovery re-queues.               *)
(*                                                                         *)
(* A definition placed before the one it varies, and used by nothing, is a *)
(* plausible fault that a property must notice (README, "Faults").         *)
(***************************************************************************)
EXTENDS StateMachine

CONSTANT MaxConcurrent   \* TaskBroker.maxConcurrent (5 in services.ts)

ASSUME ConcurrentAssumption == MaxConcurrent \in Nat \ {0}

(***************************************************************************)
(* The NOT EXISTS (... dep.state NOT IN ('SUCCEEDED', 'SKIPPED')) that     *)
(* guards queueing, dispatching and claiming.                              *)
(***************************************************************************)
DoneTasks == {t \in Task : taskState[t] \in {"SUCCEEDED", "SKIPPED"}}

DepsMetUnlessFailed(t) ==
    \A d \in Deps[t] : taskState[d] \in {"SUCCEEDED", "SKIPPED", "FAILED"}
DepsMet(t) == \A d \in Deps[t] : taskState[d] \in {"SUCCEEDED", "SKIPPED"}

(***************************************************************************)
(* queueReadyTasks: the tasks its UPDATE moves and their next states.      *)
(***************************************************************************)
QueueableTasks == {t \in Task : taskState[t] = "PENDING" /\ DepsMet(t)}

NothingQueued == taskState
AfterQueueing ==
    [t \in Task |-> IF t \in QueueableTasks THEN "QUEUED" ELSE taskState[t]]

(***************************************************************************)
(* dispatchTasks: one SERIALIZABLE transaction that counts the active      *)
(* tasks and dispatches at most as many ready ones as slots are free.  The *)
(* rows of a plan share one created_at, so ORDER BY created_at LIMIT n     *)
(* may return any n of them.                                               *)
(***************************************************************************)
ActiveTasks == {t \in Task : taskState[t] \in {"DISPATCHED", "RUNNING"}}

ReadyTasks == {t \in Task : taskState[t] = "QUEUED" /\ DepsMet(t)}

FreeSlotsButDispatched ==
    MaxConcurrent - Cardinality({t \in Task : taskState[t] = "RUNNING"})
FreeSlots == MaxConcurrent - Cardinality(ActiveTasks)

DispatchTasks(chosen) ==
    /\ chosen \in SUBSET ReadyTasks
    /\ \/ /\ Cardinality(ReadyTasks) <= FreeSlots
          /\ chosen = ReadyTasks
       \/ /\ Cardinality(ReadyTasks) > FreeSlots
          /\ \/ FreeSlots <= 0 /\ chosen = {}
             \/ Cardinality(chosen) = FreeSlots
    /\ taskState' = [t \in Task |-> IF t \in chosen THEN "DISPATCHED"
                                                    ELSE taskState[t]]
    /\ UNCHANGED <<runState, retryCount>>

(***************************************************************************)
(* failTask retries a task when the type of the failure is retryable and   *)
(* the task has retries left.                                              *)
(***************************************************************************)
RetryableFailures == {"PROVIDER_ERROR", "TIMEOUT", "INVALID_OUTPUT"}

WillRetry(t, failureType) ==
    failureType \in RetryableFailures /\ retryCount[t] < MaxRetries

(***************************************************************************)
(* recoverOrphanedTasks: of the active tasks, those whose row has been     *)
(* still for two minutes go back to the queue.                             *)
(***************************************************************************)
RecoverOrphans(stalled) ==
    /\ stalled \in SUBSET ActiveTasks
    /\ taskState' = [t \in Task |-> IF t \in stalled THEN "QUEUED"
                                                     ELSE taskState[t]]
    /\ UNCHANGED <<runState, retryCount>>

=============================================================================
