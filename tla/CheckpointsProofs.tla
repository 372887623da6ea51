------------------------- MODULE CheckpointsProofs -------------------------
(***************************************************************************)
(* Proof that the checkpoints of a run keep their guarantees, for every    *)
(* number of callers and of rows to keep, as long as no create is          *)
(* overtaken by more rows than that (DelayAssumption).                     *)
(***************************************************************************)
EXTENDS Checkpoints, FiniteSetTheorems, TLAPS

\* The rows end at top and have no gap among the MaxCheckpoints newest.
Numbered(S, top) ==
    /\ top \in Nat
    /\ S \subseteq 1..top
    /\ \A n \in 1..top : n > top - MaxCheckpoints => n \in S

RowsNumbered == Numbered(Rows, NextSequence - 1)

\* A number that was read is still the next one, or so little behind that its row exists.
NumbersCurrent ==
    \A q \in Caller :
        /\ pc[q] = "insert" =>
              seq[q] \in 1..NextSequence /\ NextSequence <= seq[q] + overtaken[q]
        /\ pc[q] \in {"prune", "update", "move", "moved"} => seq[q] = NextSequence

\* At most one row is inserted and not committed.
OneInserted == \A p, q \in Caller : Inserted(p) /\ Inserted(q) => p = q

LockHeld ==
    \A q \in Caller : runLock = q <=> pc[q] \in {"move", "moved", "restore"}

\* The rows a create has deleted are all but the newest of those there are now.
PruningCurrent ==
    \A q \in Caller :
        pruned[q] = IF pc[q] = "update"
                    THEN (Rows \cup {seq[q]}) \ NewestOf(Rows \cup {seq[q]})
                    ELSE {}

OtherThanLast == \A q \in Caller : pc[q] = "restore" => seq[q] # LastRestored

CheckpointsInv ==
    /\ CheckpointsTypeOK
    /\ RowsNumbered
    /\ NumbersCurrent
    /\ OneInserted
    /\ LockHeld
    /\ PruningCurrent
    /\ OtherThanLast
    /\ CheckpointExists
    /\ RestoredInTurn

-----------------------------------------------------------------------------
(***************************************************************************)
(* Facts about numbering and pruning.                                      *)
(***************************************************************************)

\* The next number is one above the end of the rows.
LEMMA NextIsAboveTop ==
    ASSUME NEW top, Numbered(Rows, top)
    PROVE  NextSequence = top + 1
<1>1. top \in Nat /\ Rows \subseteq 1..top /\ (top = 0 \/ top \in Rows)
  BY LimitAssumption DEF Numbered
<1>2. top + 1 \in {m + 1 : m \in Rows \cup {0}} /\ \A m \in Rows : m < top + 1
  BY <1>1
<1>3. ASSUME NEW n \in {m + 1 : m \in Rows \cup {0}}, \A m \in Rows : m < n
      PROVE  n = top + 1
  BY <1>1, <1>3
<1> QED
  BY <1>2, <1>3 DEF NextSequence

\* Pruning keeps the newest row and as many as MaxCheckpoints, without a gap.
LEMMA NewestKept ==
    ASSUME NEW S, NEW top, Numbered(S, top), top \in S
    PROVE  /\ Numbered(NewestOf(S), top)
           /\ top \in NewestOf(S)
<1>1. top \in Nat /\ S \subseteq 1..top /\ MaxCheckpoints \in Nat \ {0}
  BY LimitAssumption DEF Numbered
<1>2. ASSUME NEW n \in 1..top, n > top - MaxCheckpoints
      PROVE  n \in NewestOf(S)
  <2>1. n \in S
    BY <1>2 DEF Numbered
  <2>2. {m \in S : m > n} \subseteq (n + 1)..top
    <3> SUFFICES ASSUME NEW m \in S, m > n PROVE m \in (n + 1)..top
      OBVIOUS
    <3>1. m \in 1..top /\ n \in 1..top
      BY <1>1
    <3> QED
      BY <1>1, <3>1
  <2>3. /\ IsFiniteSet((n + 1)..top)
        /\ Cardinality((n + 1)..top) = (IF n + 1 > top THEN 0 ELSE top - (n + 1) + 1)
    BY <1>1, FS_Interval
  <2>4. /\ IsFiniteSet({m \in S : m > n})
        /\ Cardinality({m \in S : m > n}) <= Cardinality((n + 1)..top)
    BY <2>2, <2>3, FS_Subset
  <2>5. Cardinality({m \in S : m > n}) \in Nat
    BY <2>4, FS_CardinalityType
  <2>6. Cardinality({m \in S : m > n}) < MaxCheckpoints
    <3> DEFINE c == Cardinality({m \in S : m > n})
    <3> DEFINE d == Cardinality((n + 1)..top)
    <3>1. c \in Nat /\ c <= d /\ d = (IF n + 1 > top THEN 0 ELSE top - (n + 1) + 1)
      BY <2>3, <2>4, <2>5
    <3> HIDE DEF c, d
    <3>2. c < MaxCheckpoints
      BY <1>1, <1>2, <3>1
    <3> QED
      BY <3>2 DEF c
  <2> QED
    BY <2>1, <2>6 DEF NewestOf
<1>3. NewestOf(S) \subseteq S
  BY DEF NewestOf
<1>4. Numbered(NewestOf(S), top)
  BY <1>1, <1>2, <1>3 DEF Numbered
<1>5. top \in 1..top /\ top > top - MaxCheckpoints
  BY <1>1
<1> QED
  BY <1>2, <1>4, <1>5

\* Pruning leaves at most MaxCheckpoints rows.
LEMMA NewestLimited ==
    ASSUME NEW S, NEW top, Numbered(S, top)
    PROVE  Cardinality(NewestOf(S)) <= MaxCheckpoints
<1>1. top \in Nat /\ S \subseteq 1..top /\ MaxCheckpoints \in Nat \ {0}
  BY LimitAssumption DEF Numbered
<1> DEFINE low == IF top > MaxCheckpoints THEN top - MaxCheckpoints + 1 ELSE 1
<1>2. NewestOf(S) \subseteq low..top
  <2>0. NewestOf(S) \subseteq 1..top
    BY <1>1 DEF NewestOf
  <2> SUFFICES ASSUME NEW n \in NewestOf(S), ~ (n >= low) PROVE FALSE
    BY <1>1, <2>0
  <2>1. n \in 1..top /\ top > MaxCheckpoints /\ n <= top - MaxCheckpoints
    BY <1>1, <2>0
  <2>2. low..top \subseteq {m \in S : m > n}
    BY <1>1, <2>1 DEF Numbered
  <2>3. IsFiniteSet(S)
    <3>1. IsFiniteSet(1..top)
      BY <1>1, FS_Interval
    <3> QED
      BY <1>1, <3>1, FS_Subset
  <2>4. IsFiniteSet({m \in S : m > n})
    BY <2>3, FS_Subset
  <2>5. Cardinality(low..top) <= Cardinality({m \in S : m > n})
    BY <2>2, <2>4, FS_Subset
  <2>6. Cardinality(low..top) = MaxCheckpoints
    <3>1. low \in Int /\ top \in Int /\ low <= top
      BY <1>1, <2>1
    <3>2. Cardinality(low..top) = top - low + 1
      BY <3>1, FS_Interval
    <3> QED
      BY <1>1, <2>1, <3>2
  <2>7. Cardinality({m \in S : m > n}) < MaxCheckpoints
    BY DEF NewestOf
  <2>8. Cardinality({m \in S : m > n}) \in Nat
    BY <2>4, FS_CardinalityType
  <2> QED
    BY <1>1, <2>5, <2>6, <2>7, <2>8
<1>3. low \in Int /\ top \in Int
  BY <1>1
<1>4. IsFiniteSet(low..top) /\ Cardinality(low..top) <= MaxCheckpoints
  <2>1. IsFiniteSet(low..top)
        /\ Cardinality(low..top) = (IF low > top THEN 0 ELSE top - low + 1)
    BY <1>3, FS_Interval
  <2> QED
    BY <1>1, <2>1
<1>5. Cardinality(NewestOf(S)) <= Cardinality(low..top)
      /\ Cardinality(NewestOf(S)) \in Nat /\ Cardinality(low..top) \in Nat
  BY <1>2, <1>4, FS_Subset, FS_CardinalityType
<1> QED
  BY <1>1, <1>4, <1>5

-----------------------------------------------------------------------------
(***************************************************************************)
(* The invariant.                                                          *)
(***************************************************************************)

LEMMA RowsFrame ==
    ASSUME checkpoints' = checkpoints
    PROVE  /\ Rows' = Rows
           /\ NextSequence' = NextSequence
           /\ RowsNumbered => RowsNumbered'
BY DEF Rows, NextSequence, RowsNumbered, Numbered

\* The number after the rows of the next state, as NextIsAboveTop.
LEMMA NextAfterCommit ==
    ASSUME NEW top, Numbered(Rows', top)
    PROVE  /\ NextSequence' = top + 1
           /\ RowsNumbered'
<1>1. top \in Nat /\ Rows' \subseteq 1..top /\ (top = 0 \/ top \in Rows')
  BY LimitAssumption DEF Numbered
<1>2. top + 1 \in {m + 1 : m \in Rows' \cup {0}} /\ \A m \in Rows' : m < top + 1
  BY <1>1
<1>3. ASSUME NEW n \in {m + 1 : m \in Rows' \cup {0}}, \A m \in Rows' : m < n
      PROVE  n = top + 1
  BY <1>1, <1>3
<1>4. NextSequence' = top + 1
  BY <1>2, <1>3 DEF NextSequence
<1>5. NextSequence' - 1 = top
  BY <1>1, <1>4
<1> QED
  BY <1>4, <1>5 DEF RowsNumbered, Numbered

LEMMA NextSequenceNat ==
    ASSUME RowsNumbered
    PROVE  /\ NextSequence \in Nat \ {0}
           /\ Rows \subseteq 1..(NextSequence - 1)
<1>1. NextSequence - 1 \in Nat /\ Rows \subseteq 1..(NextSequence - 1)
  BY DEF RowsNumbered, Numbered
<1>2. NextSequence = (NextSequence - 1) + 1
  BY NextIsAboveTop DEF RowsNumbered
<1> QED
  BY <1>1, <1>2

LEMMA CheckpointsInvInit == CheckpointsInit => CheckpointsInv
<1> SUFFICES ASSUME CheckpointsInit PROVE CheckpointsInv
  OBVIOUS
<1> USE DEF CheckpointsInit
<1>1. Rows = {}
  BY DEF Rows
<1>2. Numbered(Rows, 0)
  BY <1>1 DEF Numbered
<1>3. NextSequence = 1
  BY <1>2, NextIsAboveTop
<1>4. CheckpointsTypeOK
  <2>1. overtaken \in [Caller -> 0..MaxDelay]
    BY LimitAssumption, DelayAssumption
  <2>2. restored \in Seq(Nat)
    OBVIOUS
  <2>3. DOMAIN checkpoints = {} /\ checkpoints \in [DOMAIN checkpoints -> SUBSET Task]
    OBVIOUS
  <2> QED
    BY <2>1, <2>2, <2>3 DEF CheckpointsTypeOK, RunStates, Steps
<1>5. RowsNumbered
  BY <1>2, <1>3 DEF RowsNumbered
<1>6. NumbersCurrent /\ OneInserted /\ LockHeld /\ PruningCurrent /\ OtherThanLast
  BY CallerAssumption
  DEF NumbersCurrent, OneInserted, Inserted, LockHeld, PruningCurrent, OtherThanLast
<1>7. CheckpointExists /\ RestoredInTurn
  BY DEF CheckpointExists, RestoredInTurn
<1> QED
  BY <1>4, <1>5, <1>6, <1>7 DEF CheckpointsInv

\* A transaction that rolls back leaves no trace.
LEMMA RollbackKeeps ==
    ASSUME CheckpointsInv, NEW q \in Caller, Rollback(q)
    PROVE  CheckpointsInv'
<1> USE DEF CheckpointsInv, Rollback, End
<1>1. CheckpointsTypeOK'
  BY DEF CheckpointsTypeOK, Steps
<1>2. RowsNumbered' /\ Rows' = Rows /\ NextSequence' = NextSequence
  BY RowsFrame
<1>3. NumbersCurrent'
  BY <1>2 DEF NumbersCurrent, CheckpointsTypeOK
<1>4. OneInserted'
  BY DEF OneInserted, Inserted, CheckpointsTypeOK
<1>5. LockHeld'
  BY CallerAssumption DEF LockHeld, CheckpointsTypeOK
<1>6. PruningCurrent'
  BY <1>2 DEF PruningCurrent, CheckpointsTypeOK, NewestOf
<1>7. OtherThanLast'
  BY DEF OtherThanLast, LastRestored, CheckpointsTypeOK
<1>8. CheckpointExists' /\ RestoredInTurn'
  BY <1>2 DEF CheckpointExists, RestoredInTurn
<1> QED
  BY <1>1, <1>2, <1>3, <1>4, <1>5, <1>6, <1>7, <1>8

\* A statement that only reads, or that changes the tasks or the run.
LEMMA ReadKeeps ==
    ASSUME CheckpointsInv, NEW q \in Caller,
           CreateRead(q) \/ CreateMax(q) \/ TransitionLock(q) \/ RestoreLock(q)
    PROVE  CheckpointsInv'
<1> USE DEF CheckpointsInv, CreateRead, CreateMax, TransitionLock, RestoreLock
<1>1. RowsNumbered' /\ Rows' = Rows /\ NextSequence' = NextSequence
  BY RowsFrame
<1>2. NextSequence \in Nat \ {0}
  BY NextSequenceNat
<1>3. CheckpointsTypeOK'
  <2>1. ASSUME NEW s \in Rows PROVE s \in Nat /\ checkpoints[s] \in SUBSET Task
    BY DEF CheckpointsTypeOK, Rows
  <2>2. unfinished \in SUBSET Task
    BY DEF CheckpointsTypeOK
  <2>3. seq' \in [Caller -> Nat]
    BY <1>2, <2>1 DEF CheckpointsTypeOK
  <2>4. snap' \in [Caller -> SUBSET Task]
    BY <2>1, <2>2 DEF CheckpointsTypeOK
  <2>5. overtaken' \in [Caller -> 0..MaxDelay]
    <3>1. 0 \in 0..MaxDelay
      BY LimitAssumption, DelayAssumption
    <3>2. overtaken \in [Caller -> 0..MaxDelay]
      BY DEF CheckpointsTypeOK
    <3>3. overtaken' = overtaken \/ overtaken' = [overtaken EXCEPT ![q] = 0]
      OBVIOUS
    <3> QED
      BY <3>1, <3>2, <3>3
  <2> QED
    BY <2>3, <2>4, <2>5 DEF CheckpointsTypeOK, Steps
<1>4. NumbersCurrent'
  BY <1>1, <1>2 DEF NumbersCurrent, CheckpointsTypeOK
<1>5. OneInserted'
  BY DEF OneInserted, Inserted, CheckpointsTypeOK
<1>6. LockHeld'
  BY CallerAssumption DEF LockHeld, CheckpointsTypeOK
<1>7. PruningCurrent'
  BY <1>1 DEF PruningCurrent, CheckpointsTypeOK, NewestOf
<1>8. OtherThanLast'
  BY DEF OtherThanLast, LastRestored, CheckpointsTypeOK, Restorable
<1>9. CheckpointExists' /\ RestoredInTurn'
  BY <1>1 DEF CheckpointExists, RestoredInTurn
<1> QED
  BY <1>1, <1>3, <1>4, <1>5, <1>6, <1>7, <1>8, <1>9

\* An insert that succeeds inserts the next number, and only one does at a time.
LEMMA InsertIsNext ==
    ASSUME CheckpointsInv, NEW q \in Caller, pc[q] \in {"insert", "move"},
           ~ Blocked(q), seq[q] \notin Rows
    PROVE  /\ seq[q] = NextSequence
           /\ \A p \in Caller : ~ Inserted(p)
<1>1. NextSequence \in Nat \ {0} /\ Rows \subseteq 1..(NextSequence - 1)
  BY NextSequenceNat DEF CheckpointsInv
<1>2. seq[q] = NextSequence
  <2>1. CASE pc[q] = "move"
    BY <2>1 DEF CheckpointsInv, NumbersCurrent
  <2>2. CASE pc[q] = "insert"
    <3>1. /\ seq[q] \in Nat /\ overtaken[q] \in 0..MaxDelay
          /\ seq[q] \in 1..NextSequence /\ NextSequence <= seq[q] + overtaken[q]
      BY <2>2 DEF CheckpointsInv, NumbersCurrent, CheckpointsTypeOK
    <3>2. MaxDelay \in Nat /\ MaxCheckpoints \in Nat /\ MaxDelay <= MaxCheckpoints
      BY LimitAssumption, DelayAssumption
    <3> SUFFICES ASSUME seq[q] < NextSequence PROVE FALSE
      BY <1>1, <3>1
    <3>3. seq[q] \in 1..(NextSequence - 1)
          /\ seq[q] > NextSequence - 1 - MaxCheckpoints
      BY <1>1, <3>1, <3>2
    <3> QED
      BY <3>3 DEF CheckpointsInv, RowsNumbered, Numbered
  <2> QED
    BY <2>1, <2>2
<1>3. ASSUME NEW p \in Caller, Inserted(p) PROVE FALSE
  <2>1. seq[p] = NextSequence /\ p # q
    BY <1>3 DEF Inserted, CheckpointsInv, NumbersCurrent
  <2> QED
    BY <1>2, <1>3, <2>1 DEF Blocked
<1> QED
  BY <1>2, <1>3

\* The statements between the insert and the commit.
LEMMA InsertKeeps ==
    ASSUME CheckpointsInv, NEW q \in Caller, CreateInsert(q) \/ TransitionInsert(q)
    PROVE  CheckpointsInv'
<1>1. CASE seq[q] \in Rows
  BY <1>1, RollbackKeeps DEF CreateInsert, TransitionInsert
<1>2. CASE seq[q] \notin Rows
  <2> USE DEF CheckpointsInv
  <2>1. /\ pc[q] \in {"insert", "move"} /\ ~ Blocked(q)
        /\ pc' = [pc EXCEPT ![q] = IF pc[q] = "insert" THEN "prune" ELSE "moved"]
        /\ UNCHANGED <<runState, unfinished, checkpoints, checkpointId, restored,
                       runLock, seq, snap, pruned, overtaken>>
    BY <1>2 DEF CreateInsert, TransitionInsert
  <2>2. seq[q] = NextSequence /\ \A p \in Caller : ~ Inserted(p)
    BY <1>2, <2>1, InsertIsNext
  <2>3. RowsNumbered' /\ Rows' = Rows /\ NextSequence' = NextSequence
    BY <2>1, RowsFrame
  <2>4. CheckpointsTypeOK'
    BY <2>1 DEF CheckpointsTypeOK, Steps
  <2>5. NumbersCurrent'
    BY <2>1, <2>2, <2>3 DEF NumbersCurrent, CheckpointsTypeOK
  <2>6. OneInserted'
    BY <2>1, <2>2 DEF OneInserted, Inserted, CheckpointsTypeOK
  <2>7. LockHeld'
    BY <2>1 DEF LockHeld, CheckpointsTypeOK
  <2>8. PruningCurrent'
    BY <2>1, <2>3 DEF PruningCurrent, CheckpointsTypeOK, NewestOf
  <2>9. OtherThanLast'
    BY <2>1 DEF OtherThanLast, LastRestored, CheckpointsTypeOK
  <2>10. CheckpointExists' /\ RestoredInTurn'
    BY <2>1, <2>3 DEF CheckpointExists, RestoredInTurn
  <2> QED
    BY <2>3, <2>4, <2>5, <2>6, <2>7, <2>8, <2>9, <2>10
<1> QED
  BY <1>1, <1>2

LEMMA PruneKeeps ==
    ASSUME CheckpointsInv, NEW q \in Caller, CreatePrune(q)
    PROVE  CheckpointsInv'
<1> USE DEF CheckpointsInv, CreatePrune
<1>1. RowsNumbered' /\ Rows' = Rows /\ NextSequence' = NextSequence
  BY RowsFrame
<1>2. Rows \subseteq Nat
  BY DEF CheckpointsTypeOK, Rows
<1>3. CheckpointsTypeOK'
  <2>1. seq[q] \in Nat
    BY DEF CheckpointsTypeOK
  <2>2. (Rows \cup {seq[q]}) \ NewestOf(Rows \cup {seq[q]}) \in SUBSET Nat
    BY <1>2, <2>1
  <2>3. pruned' \in [Caller -> SUBSET Nat]
    BY <2>2 DEF CheckpointsTypeOK
  <2> QED
    BY <2>3 DEF CheckpointsTypeOK, Steps
<1>4. NumbersCurrent'
  BY <1>1 DEF NumbersCurrent, CheckpointsTypeOK
<1>5. OneInserted'
  BY DEF OneInserted, Inserted, CheckpointsTypeOK
<1>6. LockHeld'
  BY DEF LockHeld, CheckpointsTypeOK
<1>7. PruningCurrent'
  <2> SUFFICES ASSUME NEW p \in Caller
               PROVE  pruned'[p] = IF pc'[p] = "update"
                                   THEN (Rows' \cup {seq'[p]})
                                           \ NewestOf(Rows' \cup {seq'[p]})
                                   ELSE {}
    BY DEF PruningCurrent, NewestOf
  <2>1. CASE p = q
    BY <1>1, <2>1 DEF CheckpointsTypeOK
  <2>2. CASE p # q
    BY <1>1, <2>2 DEF CheckpointsTypeOK, PruningCurrent
  <2> QED
    BY <2>1, <2>2
<1>8. OtherThanLast'
  BY DEF OtherThanLast, LastRestored, CheckpointsTypeOK
<1>9. CheckpointExists' /\ RestoredInTurn'
  BY <1>1 DEF CheckpointExists, RestoredInTurn
<1> QED
  BY <1>1, <1>3, <1>4, <1>5, <1>6, <1>7, <1>8, <1>9

\* A commit adds exactly the next row, and the rows stay numbered.
LEMMA CommitAddsNext ==
    ASSUME CheckpointsInv, NEW q \in Caller, pc[q] \in {"update", "moved"}, CommitRow(q)
    PROVE  /\ RowsNumbered'
           /\ seq[q] = NextSequence
           /\ NextSequence' = NextSequence + 1
           /\ seq[q] \in Rows'
           /\ Rows' \subseteq Rows \cup {seq[q]}
           /\ pc[q] = "update" => Cardinality(Rows') <= MaxCheckpoints
           /\ pc[q] = "moved" => Rows' = Rows \cup {seq[q]}
<1>1. /\ seq[q] = NextSequence
      /\ RowsNumbered
      /\ NextSequence \in Nat \ {0} /\ Rows \subseteq 1..(NextSequence - 1)
  BY NextSequenceNat DEF CheckpointsInv, NumbersCurrent
<1>2. Rows' = (Rows \cup {seq[q]}) \ pruned[q]
  BY DEF CommitRow, Rows
<1> DEFINE seen == Rows \cup {seq[q]}
<1>3. Numbered(seen, NextSequence) /\ NextSequence \in seen
  <2>1. \A n \in 1..(NextSequence - 1) : n > (NextSequence - 1) - MaxCheckpoints => n \in Rows
    BY <1>1 DEF RowsNumbered, Numbered
  <2>2. ASSUME NEW n \in 1..NextSequence, n > NextSequence - MaxCheckpoints
        PROVE  n \in seen
    <3>1. CASE n = NextSequence
      BY <1>1, <3>1
    <3>2. CASE n # NextSequence
      BY <1>1, <2>1, <2>2, <3>2, LimitAssumption
    <3> QED
      BY <3>1, <3>2
  <2>3. seen \subseteq 1..NextSequence
    BY <1>1
  <2> QED
    BY <1>1, <2>2, <2>3 DEF Numbered
<1>4. CASE pc[q] = "update"
  <2>1. Rows' = NewestOf(seen)
    BY <1>2, <1>4 DEF CheckpointsInv, PruningCurrent, NewestOf
  <2> HIDE DEF seen
  <2>2. Numbered(NewestOf(seen), NextSequence) /\ NextSequence \in NewestOf(seen)
    BY <1>3, NewestKept
  <2>3. Cardinality(NewestOf(seen)) <= MaxCheckpoints
    BY <1>3, NewestLimited
  <2>4. NewestOf(seen) \subseteq seen
    BY DEF NewestOf
  <2>5. Numbered(Rows', NextSequence)
    BY <2>1, <2>2
  <2>6. Rows' \subseteq seen /\ NextSequence \in Rows' /\ Cardinality(Rows') <= MaxCheckpoints
    BY <2>1, <2>2, <2>3, <2>4
  <2> QED
    BY <1>1, <1>4, <2>5, <2>6, NextAfterCommit DEF seen
<1>5. CASE pc[q] = "moved"
  <2>1. Rows' = seen
    BY <1>2, <1>5 DEF CheckpointsInv, PruningCurrent
  <2> QED
    BY <1>1, <1>3, <1>5, <2>1, NextAfterCommit
<1> QED
  BY <1>4, <1>5

LEMMA CommitKeeps ==
    ASSUME CheckpointsInv, NEW q \in Caller, CreateCommit(q) \/ TransitionCommit(q)
    PROVE  CheckpointsInv'
<1> USE DEF CheckpointsInv
<1>1. /\ pc[q] \in {"update", "moved"} /\ CommitRow(q)
      /\ UNCHANGED <<unfinished, restored>>
      /\ runState' \in RunStates
      /\ pc[q] = "moved" => checkpointId' = checkpointId
      /\ pc[q] = "update" => checkpointId' = seq[q]
      /\ \A p \in Caller \ {q} : runLock # p
  <2>1. CASE CreateCommit(q)
    BY <2>1, CallerAssumption DEF CreateCommit, CheckpointsTypeOK
  <2>2. CASE TransitionCommit(q)
    BY <2>2 DEF TransitionCommit, LockHeld
  <2> QED
    BY <2>1, <2>2
<1>2. /\ RowsNumbered'
      /\ seq[q] = NextSequence /\ NextSequence' = NextSequence + 1
      /\ seq[q] \in Rows' /\ Rows' \subseteq Rows \cup {seq[q]}
      /\ pc[q] = "moved" => Rows' = Rows \cup {seq[q]}
  BY <1>1, CommitAddsNext
<1>3. NextSequence \in Nat \ {0} /\ Rows \subseteq 1..(NextSequence - 1)
  BY NextSequenceNat
<1>4. \A p \in Caller \ {q} : ~ Inserted(p) /\ pc[p] \notin {"move", "moved", "restore"}
  BY <1>1 DEF OneInserted, Inserted, LockHeld
<1>5. /\ pc' = [pc EXCEPT ![q] = "none"]
      /\ seq' = [seq EXCEPT ![q] = 0]
      /\ snap' = [snap EXCEPT ![q] = {}]
      /\ pruned' = [pruned EXCEPT ![q] = {}]
      /\ overtaken' = [p \in Caller |->
                         IF p # q /\ pc[p] = "insert" THEN overtaken[p] + 1 ELSE overtaken[p]]
      /\ runLock' = NoCaller
      /\ \A p \in Caller \ {q} : pc[p] = "insert" => overtaken[p] < MaxDelay
  BY <1>1 DEF CommitRow, MayCommitRow
<1>6. CheckpointsTypeOK'
  <2>1. overtaken' \in [Caller -> 0..MaxDelay]
    <3> SUFFICES ASSUME NEW p \in Caller PROVE overtaken'[p] \in 0..MaxDelay
      BY <1>5
    <3>1. overtaken[p] \in 0..MaxDelay /\ MaxDelay \in Nat
      BY LimitAssumption, DelayAssumption DEF CheckpointsTypeOK
    <3> QED
      BY <1>5, <3>1
  <2>2. DOMAIN checkpoints' = Rows' /\ Rows' \subseteq Nat \ {0}
    BY <1>2, <1>3 DEF Rows
  <2>3. checkpoints' \in [Rows' -> SUBSET Task]
    <3>1. \A n \in Rows : checkpoints[n] \in SUBSET Task
      BY DEF CheckpointsTypeOK, Rows
    <3>2. snap[q] \in SUBSET Task
      BY DEF CheckpointsTypeOK
    <3>3. checkpoints' = [n \in (Rows \cup {seq[q]}) \ pruned[q] |->
                            IF n = seq[q] THEN snap[q] ELSE checkpoints[n]]
      BY <1>1 DEF CommitRow
    <3>4. Rows' = (Rows \cup {seq[q]}) \ pruned[q]
      BY <3>3 DEF Rows
    <3> QED
      BY <3>1, <3>2, <3>3, <3>4
  <2>4. checkpointId' \in Nat
    BY <1>1, <1>2, <1>3 DEF CheckpointsTypeOK
  <2>5. /\ pc' \in [Caller -> Steps]
        /\ seq' \in [Caller -> Nat]
        /\ snap' \in [Caller -> SUBSET Task]
        /\ pruned' \in [Caller -> SUBSET Nat]
    BY <1>5 DEF CheckpointsTypeOK, Steps
  <2>6. /\ runState' \in RunStates
        /\ unfinished' \in SUBSET Task
        /\ restored' \in Seq(Nat)
        /\ runLock' \in Caller \cup {NoCaller}
    BY <1>1, <1>5 DEF CheckpointsTypeOK
  <2> QED
    BY <2>1, <2>2, <2>3, <2>4, <2>5, <2>6 DEF CheckpointsTypeOK
<1>7. NumbersCurrent'
  <2> SUFFICES ASSUME NEW p \in Caller
               PROVE  /\ pc'[p] = "insert" =>
                            seq'[p] \in 1..NextSequence'
                            /\ NextSequence' <= seq'[p] + overtaken'[p]
                      /\ pc'[p] \in {"prune", "update", "move", "moved"} =>
                            seq'[p] = NextSequence'
    BY DEF NumbersCurrent
  <2>1. CASE p = q
    BY <1>5, <2>1 DEF CheckpointsTypeOK
  <2>2. CASE p # q
    <3>1. pc'[p] = pc[p] /\ seq'[p] = seq[p]
          /\ pc[p] \notin {"prune", "update", "move", "moved"}
      BY <1>4, <1>5, <2>2 DEF Inserted, CheckpointsTypeOK
    <3>2. ASSUME pc[p] = "insert"
          PROVE  seq[p] \in 1..(NextSequence + 1)
                 /\ NextSequence + 1 <= seq[p] + (overtaken[p] + 1)
                 /\ overtaken'[p] = overtaken[p] + 1
      <4>1. seq[p] \in 1..NextSequence /\ NextSequence <= seq[p] + overtaken[p]
        BY <3>2 DEF NumbersCurrent
      <4>2. overtaken'[p] = overtaken[p] + 1
        BY <1>5, <2>2, <3>2
      <4>3. overtaken[p] \in Nat
        BY LimitAssumption, DelayAssumption DEF CheckpointsTypeOK
      <4> QED
        BY <1>3, <4>1, <4>2, <4>3
    <3> QED
      BY <1>2, <3>1, <3>2
  <2> QED
    BY <2>1, <2>2
<1>8. OneInserted'
  BY <1>4, <1>5 DEF OneInserted, Inserted, CheckpointsTypeOK
<1>9. LockHeld'
  BY <1>4, <1>5, CallerAssumption DEF LockHeld, CheckpointsTypeOK
<1>10. PruningCurrent'
  <2> SUFFICES ASSUME NEW p \in Caller
               PROVE  pc'[p] # "update" /\ pruned'[p] = {}
    BY DEF PruningCurrent
  <2>1. CASE p = q
    BY <1>5, <2>1 DEF CheckpointsTypeOK
  <2>2. CASE p # q
    BY <1>4, <1>5, <2>2 DEF CheckpointsTypeOK, PruningCurrent, Inserted
  <2> QED
    BY <2>1, <2>2
<1>11. OtherThanLast'
  BY <1>4, <1>5 DEF OtherThanLast, CheckpointsTypeOK
<1>12. CheckpointExists'
  <2>1. CASE pc[q] = "update"
    BY <1>1, <1>2, <2>1 DEF CheckpointExists
  <2>2. CASE pc[q] = "moved"
    BY <1>1, <1>2, <2>2 DEF CheckpointExists
  <2> QED
    BY <1>1, <2>1, <2>2
<1>13. RestoredInTurn'
  BY <1>1 DEF RestoredInTurn
<1> QED
  BY <1>2, <1>6, <1>7, <1>8, <1>9, <1>10, <1>11, <1>12, <1>13

\* A restoration appends a checkpoint that is not the one restored last, because the run
\* was locked since it read which one that is.
LEMMA RestoreKeeps ==
    ASSUME CheckpointsInv, NEW q \in Caller, RestoreCommit(q)
    PROVE  CheckpointsInv'
<1> USE DEF CheckpointsInv, RestoreCommit, End
<1>1. RowsNumbered' /\ Rows' = Rows /\ NextSequence' = NextSequence
  BY RowsFrame
<1>2. runLock = q /\ runLock' = NoCaller
      /\ \A p \in Caller \ {q} : pc[p] \notin {"move", "moved", "restore"}
  BY DEF LockHeld
<1>3. CheckpointsTypeOK'
  <2>1. restored' \in Seq(Nat)
    BY DEF CheckpointsTypeOK
  <2>2. unfinished' \in SUBSET Task
    BY DEF CheckpointsTypeOK
  <2>3. runState' \in RunStates
    BY DEF RunStates
  <2> QED
    BY <1>2, <2>1, <2>2, <2>3 DEF CheckpointsTypeOK, Steps
<1>4. NumbersCurrent'
  BY <1>1 DEF NumbersCurrent, CheckpointsTypeOK
<1>5. OneInserted'
  BY DEF OneInserted, Inserted, CheckpointsTypeOK
<1>6. LockHeld'
  BY <1>2, CallerAssumption DEF LockHeld, CheckpointsTypeOK
<1>7. PruningCurrent'
  BY <1>1 DEF PruningCurrent, CheckpointsTypeOK, NewestOf
<1>8. OtherThanLast'
  BY <1>2 DEF OtherThanLast, CheckpointsTypeOK
<1>9. CheckpointExists'
  BY <1>1 DEF CheckpointExists
<1>10. RestoredInTurn'
  <2> SUFFICES ASSUME NEW i \in 1..(Len(restored') - 1)
               PROVE  restored'[i] # restored'[i + 1]
    BY DEF RestoredInTurn
  <2>1. restored \in Seq(Nat) /\ seq[q] \in Nat /\ restored' = Append(restored, seq[q])
    BY DEF CheckpointsTypeOK
  <2>2. Len(restored') = Len(restored) + 1 /\ Len(restored) \in Nat
    BY <2>1
  <2>3. CASE i = Len(restored)
    <3>1. seq[q] # LastRestored
      BY DEF OtherThanLast
    <3>2. restored # << >> /\ LastRestored = restored[i]
      BY <2>1, <2>2, <2>3 DEF LastRestored
    <3> QED
      BY <2>1, <2>2, <2>3, <3>1, <3>2
  <2>4. CASE i # Len(restored)
    <3>1. i \in 1..(Len(restored) - 1)
      BY <2>2, <2>4
    <3> QED
      BY <2>1, <2>2, <3>1 DEF RestoredInTurn
  <2> QED
    BY <2>3, <2>4
<1> QED
  BY <1>1, <1>3, <1>4, <1>5, <1>6, <1>7, <1>8, <1>9, <1>10

\* Neither the workers nor the cancel route touch what the invariant is about.
LEMMA OthersKeep ==
    ASSUME CheckpointsInv, WorkerMoves \/ Cancel \/ UNCHANGED checkpointVars
    PROVE  CheckpointsInv'
<1> USE DEF CheckpointsInv, WorkerMoves, Cancel, checkpointVars, callerVars
<1>1. RowsNumbered' /\ Rows' = Rows /\ NextSequence' = NextSequence
  BY RowsFrame
<1>2. CheckpointsTypeOK'
  BY DEF CheckpointsTypeOK, RunStates
<1>3. NumbersCurrent' /\ OneInserted' /\ LockHeld' /\ OtherThanLast'
  BY <1>1 DEF NumbersCurrent, OneInserted, Inserted, LockHeld, OtherThanLast, LastRestored
<1>4. PruningCurrent'
  BY <1>1 DEF PruningCurrent, NewestOf
<1>5. CheckpointExists' /\ RestoredInTurn'
  BY <1>1 DEF CheckpointExists, RestoredInTurn
<1> QED
  BY <1>1, <1>2, <1>3, <1>4, <1>5

LEMMA CheckpointsInvStep == CheckpointsInv /\ [CheckpointsNext]_checkpointVars => CheckpointsInv'
<1> SUFFICES ASSUME CheckpointsInv, [CheckpointsNext]_checkpointVars PROVE CheckpointsInv'
  OBVIOUS
<1>1. ASSUME NEW q \in Caller, Starts(q) PROVE CheckpointsInv'
  BY <1>1, ReadKeeps DEF Starts
<1>2. ASSUME NEW q \in Caller, CallerStep(q) PROVE CheckpointsInv'
  BY <1>2, ReadKeeps, InsertKeeps, PruneKeeps, CommitKeeps, RestoreKeeps DEF CallerStep
<1>3. ASSUME NEW q \in Caller, DeadlockDetected(q) \/ StatementFails(q) PROVE CheckpointsInv'
  BY <1>3, RollbackKeeps DEF DeadlockDetected, StatementFails
<1>4. ASSUME WorkerMoves \/ Cancel \/ UNCHANGED checkpointVars PROVE CheckpointsInv'
  BY <1>4, OthersKeep
<1> QED
  BY <1>1, <1>2, <1>3, <1>4 DEF CheckpointsNext

-----------------------------------------------------------------------------
(***************************************************************************)
(* Theorems.                                                               *)
(***************************************************************************)

\* The inductive invariant: numbers without a gap among the newest, one insert at a time.
THEOREM CheckpointsSafety == CheckpointsSpec => []CheckpointsInv
BY CheckpointsInvInit, CheckpointsInvStep, PTL DEF CheckpointsSpec

\* Every state of the checkpoints is well formed.
THEOREM CheckpointsTypeCorrect == CheckpointsSpec => []CheckpointsTypeOK
<1>1. CheckpointsInv => CheckpointsTypeOK
  BY DEF CheckpointsInv
<1> QED
  BY <1>1, CheckpointsSafety, PTL

\* The checkpoint that a run names is never pruned away.
THEOREM NamedCheckpointKept == CheckpointsSpec => []CheckpointExists
<1>1. CheckpointsInv => CheckpointExists
  BY DEF CheckpointsInv
<1> QED
  BY <1>1, CheckpointsSafety, PTL

\* Simultaneous requests never restore the same checkpoint twice in a row.
THEOREM NoDoubleRestore == CheckpointsSpec => []RestoredInTurn
<1>1. CheckpointsInv => RestoredInTurn
  BY DEF CheckpointsInv
<1> QED
  BY <1>1, CheckpointsSafety, PTL

\* A step that is not a commit of a row leaves the rows as they are.
LEMMA RowsChangeAtCommit ==
    ASSUME CheckpointsNext
    PROVE  \/ \E q \in Caller : CreateCommit(q) \/ TransitionCommit(q)
           \/ checkpoints' = checkpoints /\ checkpointId' = checkpointId
BY DEF CheckpointsNext, Starts, CallerStep, CreateRead, CreateMax, CreateInsert, CreatePrune,
       TransitionLock, TransitionInsert, RestoreLock, RestoreCommit, DeadlockDetected,
       StatementFails, Rollback, WorkerMoves, Cancel

\* Numbers grow in the order of the commits, whatever is pruned and rolled back.
THEOREM NumbersGrow == CheckpointsSpec => SequenceGrows
<1>1. CheckpointsInv /\ [CheckpointsNext]_checkpointVars
        => [\A new \in Rows' \ Rows : \A old \in Rows : old < new]_checkpointVars
  <2> SUFFICES ASSUME CheckpointsInv, CheckpointsNext, NEW new \in Rows' \ Rows,
                      NEW old \in Rows
               PROVE  old < new
    OBVIOUS
  <2>1. PICK q \in Caller : CreateCommit(q) \/ TransitionCommit(q)
    BY RowsChangeAtCommit DEF Rows
  <2>2. pc[q] \in {"update", "moved"} /\ CommitRow(q)
    BY <2>1 DEF CreateCommit, TransitionCommit
  <2>3. new = NextSequence
    BY <2>2, CommitAddsNext
  <2> QED
    BY <2>3, NextSequenceNat DEF CheckpointsInv
<1> QED
  BY <1>1, CheckpointsSafety, PTL DEF CheckpointsSpec, SequenceGrows

\* A create leaves no more rows than it is to keep.
THEOREM LimitKept == CheckpointsSpec => CreateKeepsLimit
<1>1. CheckpointsInv /\ [CheckpointsNext]_checkpointVars
        => [checkpointId' # checkpointId
              => Cardinality(Rows') <= MaxCheckpoints]_checkpointVars
  <2> SUFFICES ASSUME CheckpointsInv, CheckpointsNext, checkpointId' # checkpointId
               PROVE  Cardinality(Rows') <= MaxCheckpoints
    OBVIOUS
  <2>1. PICK q \in Caller : CreateCommit(q)
    BY RowsChangeAtCommit DEF TransitionCommit
  <2> QED
    BY <2>1, CommitAddsNext DEF CreateCommit
<1> QED
  BY <1>1, CheckpointsSafety, PTL DEF CheckpointsSpec, CreateKeepsLimit

=============================================================================
