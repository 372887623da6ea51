-------------------------- MODULE WorkersInvariant --------------------------
(***************************************************************************)
(* The inductive invariant behind the safety properties of Workers, when   *)
(* one server instance owns the database.  Each part is there because a    *)
(* step of the code relies on it without checking it.                      *)
(***************************************************************************)
EXTENDS Workers

SingleInstance == \A i, j \in Instance : i = j

\* What a tick has claimed and not finished with is in processingTasks; between
\* two passes of its loop it has nothing, and the task in hand is one of them.
Owned ==
    \A w \in Tick :
        /\ batch[w] \subseteq processing[Home[w]]
        /\ pc[w] \in {"idle", "dispatch", "claim"} => batch[w] = {}
        /\ pc[w] \in TaskSteps => cur[w] \in batch[w]

\* The states a claimed task can be in, by the step of the tick that holds it:
\* nobody but an operator who cancels moves it meanwhile.
StatesAt(step) ==
    IF step \in {"check", "declare"} THEN {"SUCCEEDED"}
    ELSE IF step = "cooldown" THEN {"FAILED"}
    ELSE IF step = "fail" THEN {"RUNNING", "CANCELLED", "FAILED"}
    ELSE {"RUNNING", "CANCELLED"}

HeldStates(w, t) == StatesAt(IF t = cur[w] THEN pc[w] ELSE "next")

Held == \A w \in Tick : \A t \in batch[w] : taskState[t] \in HeldStates(w, t)

\* A task that waits for its retry has one left.
CoolingDown ==
    \A w \in Tick : pc[w] = "cooldown" => retryCount[cur[w]] < MaxRetries

\* Only a cancelled run has cancelled tasks.
CancelledTogether ==
    (\E t \in Task : taskState[t] = "CANCELLED") => runState = "CANCELLED"

\* The verdict a tick carries to transitionRunState is still true, unless the
\* run was cancelled meanwhile.
VerdictHolds ==
    \A w \in Tick :
        /\ pc[w] = "declare" => arg[w] \in {"COMPLETED", "FAILED"}
        /\ pc[w] = "declare" /\ arg[w] = "COMPLETED" =>
              runState = "CANCELLED" \/ DoneTasks = Task

\* The ownership of tasks by ticks, together: what makes every other property
\* inductive.
Ownership ==
    /\ Exclusive
    /\ Owned
    /\ Held
    /\ CoolingDown

SafetyInv ==
    /\ TypeOK
    /\ Ownership
    /\ CancelledTogether
    /\ VerdictHolds
    /\ ActiveBound
    /\ DepsSafe
    /\ CompletedDone

-----------------------------------------------------------------------------
(***************************************************************************)
(* The part of it that says who holds which task.  It does not depend on   *)
(* the states of the tasks, so it also holds when requests move them.      *)
(***************************************************************************)
ClaimsTypeOK ==
    /\ processing \in [Instance -> SUBSET Task]
    /\ pc \in [Tick -> TickSteps]
    /\ batch \in [Tick -> SUBSET Task]
    /\ cur \in [Tick -> Task \cup {NoTask}]

ClaimsInv == ClaimsTypeOK /\ Owned /\ Exclusive

-----------------------------------------------------------------------------
(***************************************************************************)
(* What else keeps a RUNNING task from being abandoned when no server dies *)
(* and no transaction is refused.                                          *)
(***************************************************************************)
Uninterrupted == {"crash", "serialization"} \cap Events = {}

\* A tick that leaves its task to an operator has asked for the approval.
Asked(t) == \E a \in DOMAIN approvals : approvals[a].task = t
AskedFirst == \A w \in Tick : pc[w] = "await_approval" => Asked(cur[w])

\* A tick gives up its whole batch only when the task in hand was cancelled: a task
\* that it is about to fail has not failed before, ...
FailsOnce == \A w \in Tick : pc[w] = "fail" => taskState[cur[w]] # "FAILED"

\* ... and with one task of a run every other RUNNING one is cancelled.
CancelledStops == runState = "CANCELLED" => \A t \in Task : taskState[t] # "RUNNING"

RunningInv ==
    /\ NoLostRunning
    /\ AskedFirst
    /\ FailsOnce
    /\ CancelledStops

=============================================================================
