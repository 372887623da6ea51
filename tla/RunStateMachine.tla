-------------------------- MODULE RunStateMachine --------------------------
(***************************************************************************)
(* runs.state and its table of legal transitions                           *)
(* (services/orchestrator/src/state-machine.ts), which every worker and    *)
(* route of AutoOrch shares.                                               *)
(***************************************************************************)

VARIABLE runState   \* runs.state

RunStates ==
    {"DRAFT", "PLANNING", "ROUTING", "EXECUTING", "WAITING_APPROVAL",
     "RETRYING", "PAUSED", "FAILED", "COMPLETED", "CANCELLED"}

(***************************************************************************)
(* The table, as a set of pairs <<from, to>>.                              *)
(***************************************************************************)
LegalRunTransitions ==
    UNION {{"DRAFT"} \X {"PLANNING", "CANCELLED"},
           {"PLANNING"} \X {"ROUTING", "FAILED", "CANCELLED"},
           {"ROUTING"} \X {"EXECUTING", "FAILED", "CANCELLED"},
           {"EXECUTING"} \X {"WAITING_APPROVAL", "RETRYING", "PAUSED",
                             "FAILED", "COMPLETED", "CANCELLED"},
           {"WAITING_APPROVAL"} \X {"EXECUTING", "PAUSED", "FAILED", "CANCELLED"},
           {"RETRYING"} \X {"EXECUTING", "FAILED", "CANCELLED"},
           {"PAUSED"} \X {"EXECUTING", "CANCELLED"},
           {"FAILED"} \X {"PLANNING"}}

CanRunMove(target) == <<runState, target>> \in LegalRunTransitions

(***************************************************************************)
(* transitionRunState as its callers in the workers use it: the run moves  *)
(* when the table allows the move, and otherwise the call throws and       *)
(* changes nothing (every such caller swallows the error).  The checkpoint *)
(* row it inserts belongs to the checkpoint manager.                       *)
(***************************************************************************)
TryRunMove(target) ==
    runState' = IF CanRunMove(target) THEN target ELSE runState

=============================================================================
