------------------------- MODULE OperatorInvariant -------------------------
(***************************************************************************)
(* The inductive invariants behind the safety of the workers when people   *)
(* steer the run.  Operators move a task that a tick holds, so less is     *)
(* known of its state than in WorkersInvariant.                            *)
(***************************************************************************)
EXTENDS Operator, WorkersInvariant

(***************************************************************************)
(* A server that starts again re-queues a RUNNING task and leaves the      *)
(* approval that was asked for it PENDING: a rejection that comes after    *)
(* the task has succeeded undoes the result.                               *)
(***************************************************************************)
NoCrash == "crash" \notin Events
NoLateRejection == NoCrash \/ "reject" \notin Operations

\* The step at which tick w is with the task t that it holds.
HeldAt(w, t) == IF t = cur[w] THEN pc[w] ELSE "next"

\* Only the tick that holds a task makes it succeed, and then it goes on to check the run.
HeldUndone ==
    \A w \in Tick : \A t \in batch[w] :
        IF HeldAt(w, t) \in {"check", "declare"}
        THEN taskState[t] = "SUCCEEDED"
        ELSE taskState[t] \notin {"SUCCEEDED", "SKIPPED"}

\* A failed task that cools down, or whose approval is resolved before the run waits for
\* it, may be queued and dispatched meanwhile; it is not claimed.
StatesMeanwhile(step) ==
    IF step \in {"check", "declare"} THEN {"SUCCEEDED"}
    ELSE IF step \in {"next", "requeue", "call", "complete"} THEN {"RUNNING", "CANCELLED"}
    ELSE {"RUNNING", "CANCELLED", "FAILED", "QUEUED", "DISPATCHED"}

HeldMeanwhile ==
    \A w \in Tick : \A t \in batch[w] : taskState[t] \in StatesMeanwhile(HeldAt(w, t))

\* While an approval is pending its task stays as it was, nobody works on it, and
\* nobody asks again.
Pending == {a \in DOMAIN approvals : approvals[a].state = "PENDING"}

PendingUntouched ==
    \A a \in Pending :
        /\ taskState[approvals[a].task] \in {"RUNNING", "CANCELLED"}
        /\ \A w \in Tick : approvals[a].task \in batch[w] =>
              cur[w] = approvals[a].task /\ pc[w] = "await_approval"
        /\ \A b \in Pending : approvals[b].task = approvals[a].task => b = a

OperatorInv ==
    /\ OperatorTypeOK
    /\ ClaimsInv
    /\ HeldUndone
    /\ NoCrash => HeldMeanwhile /\ PendingUntouched
    /\ DepsSafe

\* How a run may end: what a tick has found out about it is still true, or the run was
\* cancelled meanwhile.
EndInv ==
    /\ arg \in [Tick -> FailureArgs \cup {"none", "COMPLETED", "FAILED"}]
    /\ CancelledTogether
    /\ VerdictHolds
    /\ ActiveBound
    /\ CompletedDone

SteeredInv == OperatorInv /\ EndInv

=============================================================================
