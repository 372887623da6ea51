---------------------------- MODULE Checkpoints ----------------------------
(***************************************************************************)
(* The checkpoints of one run: createCheckpoint and resumeFromCheckpoint   *)
(* (services/orchestrator/src/checkpoint-manager.ts) against the row that  *)
(* transitionRunState inserts (state-machine.ts).  A caller is a           *)
(* transaction and a step is one of its statements: the first reads at     *)
(* READ COMMITTED and locks the run last, the others lock the run first.   *)
(*                                                                         *)
(* A row is named by its sequence number, unique in a run                  *)
(* (UNIQUE (run_id, sequence_number)), and keeps the set of tasks that     *)
(* were PENDING or FAILED, all that a restoration reads of it.             *)
(*                                                                         *)
(* A definition placed before the one it varies, and used by nothing, is a *)
(* plausible fault that a property must notice (README, "Faults").         *)
(***************************************************************************)
EXTENDS RunStateMachine, Integers, Sequences, FiniteSets

CONSTANTS
    Task,
    Caller,           \* workers and requests, each with one transaction at a time
    NoCaller,
    MaxCheckpoints,   \* maxCheckpoints (10 in services.ts)
    MaxDelay,         \* rows committed between two successive statements of a create
    MaxSequence,      \* bound: nobody starts when this many rows have been inserted
    MaxRestores       \* bound on the restorations

ASSUME CallerAssumption == NoCaller \notin Caller
ASSUME LimitAssumption == MaxCheckpoints \in Nat \ {0}
\* A statement that follows another at once is not overtaken by more transactions than
\* there are rows to keep; without this the guarantees below fail (README).
ASSUME DelayAssumption == MaxDelay \in 1..MaxCheckpoints
ASSUME BoundsAssumption == MaxSequence \in Nat /\ MaxRestores \in Nat

VARIABLES
    unfinished,     \* the tasks that are PENDING or FAILED
    checkpoints,    \* the committed rows: sequence number -> tasks unfinished then
    checkpointId,   \* runs.checkpoint_id, 0 when NULL
    restored,       \* the checkpoints restored so far; the last is last_restored_checkpoint_id
    runLock,        \* the caller that holds the lock of the run's row
    pc,             \* pc[q]: the next statement of q
    seq,            \* seq[q]: the sequence number q has read, or restores
    snap,           \* snap[q]: the unfinished tasks q has read
    pruned,         \* pruned[q]: the rows q has deleted
    overtaken       \* overtaken[q]: rows committed since q read the largest number

callerVars == <<pc, seq, snap, pruned, overtaken>>
checkpointVars == <<runState, unfinished, checkpoints, checkpointId, restored, runLock,
                    callerVars>>

Steps == {"none", "max", "insert", "prune", "update", "move", "moved", "restore"}

CheckpointsTypeOK ==
    /\ runState \in RunStates
    /\ unfinished \in SUBSET Task
    /\ DOMAIN checkpoints \in SUBSET (Nat \ {0})
    /\ checkpoints \in [DOMAIN checkpoints -> SUBSET Task]
    /\ checkpointId \in Nat
    /\ restored \in Seq(Nat)
    /\ runLock \in Caller \cup {NoCaller}
    /\ pc \in [Caller -> Steps]
    /\ seq \in [Caller -> Nat]
    /\ snap \in [Caller -> SUBSET Task]
    /\ pruned \in [Caller -> SUBSET Nat]
    /\ overtaken \in [Caller -> 0..MaxDelay]

CheckpointsInit ==
    /\ runState = "DRAFT"
    /\ unfinished = Task
    /\ checkpoints = [n \in {} |-> {}]
    /\ checkpointId = 0
    /\ restored = << >>
    /\ runLock = NoCaller
    /\ pc = [q \in Caller |-> "none"]
    /\ seq = [q \in Caller |-> 0]
    /\ snap = [q \in Caller |-> {}]
    /\ pruned = [q \in Caller |-> {}]
    /\ overtaken = [q \in Caller |-> 0]

-----------------------------------------------------------------------------
Rows == DOMAIN checkpoints

\* COALESCE(MAX(sequence_number), 0) + 1
NextByCount == Cardinality(Rows) + 1
LargestSequence == CHOOSE n \in Rows \cup {0} : \A m \in Rows : m <= n
NextSequence == CHOOSE n \in {m + 1 : m \in Rows \cup {0}} : \A m \in Rows : m < n

\* The rows a DELETE leaves: those with fewer than MaxCheckpoints newer ones.
OldestOf(S) == {n \in S : Cardinality({m \in S : m < n}) < MaxCheckpoints}
NewestAndOneMore(S) == {n \in S : Cardinality({m \in S : m > n}) <= MaxCheckpoints}
NewestOf(S) == {n \in S : Cardinality({m \in S : m > n}) < MaxCheckpoints}

LastRestored == IF restored = << >> THEN 0 ELSE restored[Len(restored)]

\* The row that q has inserted is not committed yet.
Inserted(q) == pc[q] \in {"prune", "update", "moved"}

\* INSERT waits for a transaction that has inserted the same number.
Blocked(q) == \E p \in Caller \ {q} : Inserted(p) /\ seq[p] = seq[q]

\* Nobody else is overtaken more often than MaxDelay.
MayCommitRow(q) ==
    \A p \in Caller \ {q} : pc[p] = "insert" => overtaken[p] < MaxDelay

\* The transaction of q is over, and its locks are released.
EndKeepingLock(q) ==
    /\ pc' = [pc EXCEPT ![q] = "none"]
    /\ seq' = [seq EXCEPT ![q] = 0]
    /\ snap' = [snap EXCEPT ![q] = {}]
    /\ pruned' = [pruned EXCEPT ![q] = {}]
    /\ UNCHANGED <<overtaken, runLock>>
End(q) ==
    /\ pc' = [pc EXCEPT ![q] = "none"]
    /\ seq' = [seq EXCEPT ![q] = 0]
    /\ snap' = [snap EXCEPT ![q] = {}]
    /\ pruned' = [pruned EXCEPT ![q] = {}]
    /\ UNCHANGED overtaken
    /\ runLock' = IF runLock = q THEN NoCaller ELSE runLock

Rollback(q) ==
    End(q) /\ UNCHANGED <<runState, unfinished, checkpoints, checkpointId, restored>>

\* q commits its row, and those it has deleted disappear.
CommitRow(q) ==
    /\ MayCommitRow(q)
    /\ checkpoints' = [n \in (Rows \cup {seq[q]}) \ pruned[q] |->
                          IF n = seq[q] THEN snap[q] ELSE checkpoints[n]]
    /\ pc' = [pc EXCEPT ![q] = "none"]
    /\ seq' = [seq EXCEPT ![q] = 0]
    /\ snap' = [snap EXCEPT ![q] = {}]
    /\ pruned' = [pruned EXCEPT ![q] = {}]
    /\ overtaken' = [p \in Caller |->
                        IF p # q /\ pc[p] = "insert" THEN overtaken[p] + 1 ELSE overtaken[p]]
    /\ runLock' = NoCaller

(***************************************************************************)
(* createCheckpoint: read the tasks, read the largest number, insert,      *)
(* delete the old rows, point the run at the new one and commit.           *)
(***************************************************************************)
CreateRead(q) ==
    /\ pc[q] = "none"
    /\ NextSequence <= MaxSequence
    /\ pc' = [pc EXCEPT ![q] = "max"]
    /\ snap' = [snap EXCEPT ![q] = unfinished]
    /\ UNCHANGED <<runState, unfinished, checkpoints, checkpointId, restored, runLock,
                   seq, pruned, overtaken>>

CreateMax(q) ==
    /\ pc[q] = "max"
    /\ pc' = [pc EXCEPT ![q] = "insert"]
    /\ seq' = [seq EXCEPT ![q] = NextSequence]
    /\ overtaken' = [overtaken EXCEPT ![q] = 0]
    /\ UNCHANGED <<runState, unfinished, checkpoints, checkpointId, restored, runLock,
                   snap, pruned>>

CreateInsert(q) ==
    /\ pc[q] = "insert"
    /\ ~ Blocked(q)
    /\ IF seq[q] \in Rows
       THEN Rollback(q)
       ELSE /\ pc' = [pc EXCEPT ![q] = "prune"]
            /\ UNCHANGED <<runState, unfinished, checkpoints, checkpointId, restored,
                           runLock, seq, snap, pruned, overtaken>>

CreatePrune(q) ==
    /\ pc[q] = "prune"
    /\ pc' = [pc EXCEPT ![q] = "update"]
    /\ LET seen == Rows \cup {seq[q]} IN
       pruned' = [pruned EXCEPT ![q] = seen \ NewestOf(seen)]
    /\ UNCHANGED <<runState, unfinished, checkpoints, checkpointId, restored, runLock,
                   seq, snap, overtaken>>

CreateCommit(q) ==
    /\ pc[q] = "update"
    /\ runLock = NoCaller
    /\ checkpointId' = seq[q]
    /\ CommitRow(q)
    /\ UNCHANGED <<runState, unfinished, restored>>

(***************************************************************************)
(* transitionRunState: lock the run, which fixes the snapshot of all later *)
(* reads, insert the checkpoint, commit.  The run is not changed by others *)
(* while it is locked; the target is chosen at the end among those legal.  *)
(***************************************************************************)
TransitionLock(q) ==
    /\ pc[q] = "none"
    /\ NextSequence <= MaxSequence
    /\ runLock = NoCaller
    /\ \E target \in RunStates : CanRunMove(target)
    /\ runLock' = q
    /\ pc' = [pc EXCEPT ![q] = "move"]
    /\ seq' = [seq EXCEPT ![q] = NextSequence]
    /\ snap' = [snap EXCEPT ![q] = unfinished]
    /\ UNCHANGED <<runState, unfinished, checkpoints, checkpointId, restored, pruned,
                   overtaken>>

TransitionInsert(q) ==
    /\ pc[q] = "move"
    /\ ~ Blocked(q)
    /\ IF seq[q] \in Rows
       THEN Rollback(q)
       ELSE /\ pc' = [pc EXCEPT ![q] = "moved"]
            /\ UNCHANGED <<runState, unfinished, checkpoints, checkpointId, restored,
                           runLock, seq, snap, pruned, overtaken>>

TransitionCommit(q) ==
    /\ pc[q] = "moved"
    /\ \E target \in RunStates : CanRunMove(target) /\ runState' = target
    /\ CommitRow(q)
    /\ UNCHANGED <<unfinished, checkpointId, restored>>

(***************************************************************************)
(* resumeFromCheckpoint: under the lock of the run, refuse the checkpoint  *)
(* restored last, a run that is not stopped and an unknown checkpoint; set *)
(* the tasks the snapshot has as PENDING or FAILED to PENDING and the run  *)
(* to PLANNING, past the table.                                            *)
(***************************************************************************)
Restorable(s) ==
    /\ s \in Rows
    /\ s # LastRestored
    /\ runState \in {"FAILED", "CANCELLED", "PAUSED"}

RestoreUnlocked(q) ==
    /\ pc[q] = "none"
    /\ Len(restored) < MaxRestores
    /\ \E s \in Rows : Restorable(s)
          /\ seq' = [seq EXCEPT ![q] = s]
          /\ snap' = [snap EXCEPT ![q] = checkpoints[s]]
    /\ pc' = [pc EXCEPT ![q] = "restore"]
    /\ UNCHANGED <<runState, unfinished, checkpoints, checkpointId, restored, runLock,
                   pruned, overtaken>>
RestoreLock(q) ==
    /\ pc[q] = "none"
    /\ Len(restored) < MaxRestores
    /\ runLock = NoCaller
    /\ \E s \in Rows : Restorable(s)
          /\ seq' = [seq EXCEPT ![q] = s]
          /\ snap' = [snap EXCEPT ![q] = checkpoints[s]]
    /\ runLock' = q
    /\ pc' = [pc EXCEPT ![q] = "restore"]
    /\ UNCHANGED <<runState, unfinished, checkpoints, checkpointId, restored, pruned,
                   overtaken>>

RestoreCommit(q) ==
    /\ pc[q] = "restore"
    /\ runState' = "PLANNING"
    /\ unfinished' = unfinished \cup snap[q]
    /\ restored' = Append(restored, seq[q])
    /\ End(q)
    /\ UNCHANGED <<checkpoints, checkpointId>>

(***************************************************************************)
(* The database: a create that has inserted and wants the run, and a       *)
(* transition that has the run and wants to insert the same number, wait   *)
(* for each other; PostgreSQL fails one of them.  Any other statement may  *)
(* fail too.  In each case the code rolls back.                            *)
(***************************************************************************)
WaitsForRun(q) == pc[q] = "update" /\ runLock # NoCaller
WaitForEachOther(p, q) ==
    WaitsForRun(p) /\ runLock = q /\ pc[q] = "move" /\ Inserted(p) /\ seq[p] = seq[q]

DeadlockDetected(q) ==
    /\ \E p \in Caller : WaitForEachOther(p, q) \/ WaitForEachOther(q, p)
    /\ Rollback(q)

StatementFails(q) ==
    /\ pc[q] # "none"
    /\ Rollback(q)

(***************************************************************************)
(* The rest of the program: workers move tasks into and out of the states  *)
(* that matter, and the cancel route moves the run without a checkpoint.   *)
(***************************************************************************)
WorkerMoves ==
    /\ runState = "EXECUTING"
    /\ \E t \in Task :
          unfinished' = IF t \in unfinished THEN unfinished \ {t} ELSE unfinished \cup {t}
    /\ UNCHANGED <<runState, checkpoints, checkpointId, restored, runLock, callerVars>>

Cancel ==
    /\ runLock = NoCaller
    /\ runState \notin {"COMPLETED", "CANCELLED"}
    /\ runState' = "CANCELLED"
    /\ UNCHANGED <<unfinished, checkpoints, checkpointId, restored, runLock, callerVars>>

CallerStep(q) ==
    \/ CreateMax(q) \/ CreateInsert(q) \/ CreatePrune(q) \/ CreateCommit(q)
    \/ TransitionInsert(q) \/ TransitionCommit(q)
    \/ RestoreCommit(q)

Starts(q) == CreateRead(q) \/ TransitionLock(q) \/ RestoreLock(q)

CheckpointsNext ==
    \/ \E q \in Caller :
          Starts(q) \/ CallerStep(q) \/ DeadlockDetected(q) \/ StatementFails(q)
    \/ WorkerMoves
    \/ Cancel

CheckpointsSpec == CheckpointsInit /\ [][CheckpointsNext]_checkpointVars

\* The database serves those who wait for a lock in their order, answers every other
\* statement, and detects deadlocks.
CheckpointsFairSpec ==
    /\ CheckpointsSpec
    /\ \A q \in Caller :
          SF_checkpointVars(CallerStep(q)) /\ WF_checkpointVars(DeadlockDetected(q))

-----------------------------------------------------------------------------
(***************************************************************************)
(* Properties.                                                             *)
(***************************************************************************)

\* runs.checkpoint_id, once set, names a row that exists: neither the pruning of the
\* create that set it nor that of any other has deleted the row.
CheckpointExists == checkpointId # 0 => checkpointId \in Rows

\* A new row has a larger number than every row there is, so that the newest by number
\* (loadLatestCheckpoint, and the rows that pruning keeps) is the newest in time.
SequenceGrows ==
    [][\A new \in Rows' \ Rows : \A old \in Rows : old < new]_checkpointVars

\* createCheckpoint leaves at most maxCheckpoints rows, though rows of other
\* transactions might have been committed after its DELETE.
CreateKeepsLimit ==
    [][checkpointId' # checkpointId => Cardinality(Rows') <= MaxCheckpoints]_checkpointVars

\* No checkpoint is restored twice in a row, also by simultaneous requests ("guarded
\* against double-restore").
RestoredInTurn == \A i \in 1..(Len(restored) - 1) : restored[i] # restored[i + 1]

\* No lock is held for ever: every transaction ends, though creates and transitions
\* take the two locks they need in opposite orders.
TransactionsEnd == \A q \in Caller : pc[q] # "none" ~> pc[q] = "none"

\* "Once a checkpoint is restored, it cannot be restored again."
RestoredOnce == \A i, j \in 1..Len(restored) : restored[i] = restored[j] => i = j

=============================================================================
