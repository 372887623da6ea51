----------------------------- MODULE DeadLetter -----------------------------
(***************************************************************************)
(* The dead-letter queue (services/orchestrator/src/dead-letter.ts and its *)
(* routes) on a run that the workers execute.  Nothing here is a           *)
(* transaction: a request to enqueue or to retry is a process whose steps  *)
(* are its queries, and the workers, the cancellation of the run and other *)
(* requests may come between any two.                                      *)
(*                                                                         *)
(* A definition placed before the one it varies, and used by nothing, is a *)
(* plausible fault that a property must notice (README, "Faults").         *)
(***************************************************************************)
EXTENDS Workers

CONSTANTS
    Request,         \* concurrent requests to enqueue or to retry
    MaxDlqRetries,   \* MAX_DLQ_RETRIES (3 in dead-letter.ts)
    MaxEntries,      \* bound on the rows that are inserted
    MaxLost,         \* bound on the requests that die uncounted, by row
    MaxOverlaps      \* bound on the retries of requests that came late, by row

ASSUME DlqAssumption ==
    MaxDlqRetries \in Nat /\ MaxEntries \in Nat /\ MaxLost \in Nat /\ MaxOverlaps \in Nat

VARIABLES
    entries,   \* the rows of dead_letter_queue, in the order of their creation
    step,      \* step[q]: the next query of request q
    target,    \* target[q]: the task that q found FAILED, to enqueue it
    entry,     \* entry[q]: the row that q read, to retry it
    count,     \* count[q]: dlqRetryCount, as q read it
    late       \* history: requests that read their row while another was retrying it

dlqVars == <<entries, step, target, entry, count, late>>
allVars == <<vars, dlqVars>>

\* retries is the column dlq_retry_count; gone rows have been deleted.  The last three
\* record history: how often the row re-queued its task, how many of these times the
\* request died before it could count them, and how many times it was late.
Rows == [task : Task, retries : 0..MaxDlqRetries, gone : BOOLEAN,
         requeued : Nat, lost : Nat, overlapped : Nat]

DeadLetterTypeOK ==
    /\ TypeOK
    /\ entries \in Seq(Rows)
    /\ step \in [Request -> {"none", "insert", "task", "requeue", "mark"}]
    /\ target \in [Request -> Task \cup {NoTask}]
    /\ entry \in [Request -> Nat]
    /\ count \in [Request -> 0..MaxDlqRetries]
    /\ late \subseteq Request

DeadLetterInit ==
    /\ Init
    /\ entries = << >>
    /\ step = [q \in Request |-> "none"]
    /\ target = [q \in Request |-> NoTask]
    /\ entry = [q \in Request |-> 0]
    /\ count = [q \in Request |-> 0]
    /\ late = {}

-----------------------------------------------------------------------------
\* The request answers, or dies with its connection.
Answer(q) ==
    /\ step' = [step EXCEPT ![q] = "none"]
    /\ target' = [target EXCEPT ![q] = NoTask]
    /\ entry' = [entry EXCEPT ![q] = 0]
    /\ count' = [count EXCEPT ![q] = 0]
    /\ late' = late \ {q}

Continue(q, next) ==
    /\ step' = [step EXCEPT ![q] = next]
    /\ UNCHANGED <<target, entry, count, late>>

(***************************************************************************)
(* enqueue: read the task if it is FAILED, then insert a row for it.       *)
(***************************************************************************)
EnqueueRead(q) ==
    /\ step[q] = "none"
    /\ \E t \in Task : taskState[t] = "FAILED" /\ target' = [target EXCEPT ![q] = t]
    /\ step' = [step EXCEPT ![q] = "insert"]
    /\ UNCHANGED <<vars, entries, entry, count, late>>

EnqueueInsert(q) ==
    /\ step[q] = "insert"
    /\ Len(entries) < MaxEntries
    /\ entries' = Append(entries, [task |-> target[q], retries |-> 0, gone |-> FALSE,
                                   requeued |-> 0, lost |-> 0, overlapped |-> 0])
    /\ Answer(q)
    /\ UNCHANGED vars

(***************************************************************************)
(* retry: read the row and test its count, test that the task is FAILED,   *)
(* re-queue the task by id with no retries used, and write the count that  *)
(* was read plus one.                                                      *)
(***************************************************************************)
BelowLimit(e) == entries[e].retries < MaxDlqRetries
Retrying(q, e) == step[q] \in {"task", "requeue", "mark"} /\ entry[q] = e

RetryRead(q) ==
    /\ step[q] = "none"
    /\ \E e \in DOMAIN entries :
          /\ ~ entries[e].gone /\ BelowLimit(e)
          /\ entry' = [entry EXCEPT ![q] = e]
          /\ count' = [count EXCEPT ![q] = entries[e].retries]
          /\ late' = IF \E p \in Request : Retrying(p, e) THEN late \cup {q} ELSE late
    /\ step' = [step EXCEPT ![q] = "task"]
    /\ UNCHANGED <<vars, entries, target>>

RetryTest(q) ==
    /\ step[q] = "task"
    /\ IF taskState[entries[entry[q]].task] = "FAILED"
       THEN Continue(q, "requeue")
       ELSE Answer(q)
    /\ UNCHANGED <<vars, entries>>

RetryTask(q) ==
    /\ step[q] = "requeue"
    /\ LET t == entries[entry[q]].task IN
       /\ taskState' = [taskState EXCEPT ![t] = "QUEUED"]
       /\ retryCount' = [retryCount EXCEPT ![t] = 0]
    /\ IF q \in late
       THEN /\ entries[entry[q]].overlapped < MaxOverlaps
            /\ entries' = [entries EXCEPT ![entry[q]].requeued = @ + 1,
                                          ![entry[q]].overlapped = @ + 1]
       ELSE entries' = [entries EXCEPT ![entry[q]].requeued = @ + 1]
    /\ Continue(q, "mark")
    /\ UNCHANGED <<runState, tickVars, routeVars, approvals>>

\* The UPDATE finds no row when the entry has been deleted in the meantime.
MarkNothing(q) == entries
Marked(q) ==
    IF entries[entry[q]].gone THEN entries
    ELSE [entries EXCEPT ![entry[q]].retries = count[q] + 1]

RetryMark(q) ==
    /\ step[q] = "mark"
    /\ entries' = Marked(q)
    /\ Answer(q)
    /\ UNCHANGED vars

(***************************************************************************)
(* discard deletes one row, purge those created before a date.             *)
(***************************************************************************)
Delete(old) ==
    /\ \E e \in old : ~ entries[e].gone
    /\ entries' = [e \in DOMAIN entries |->
                      IF e \in old THEN [entries[e] EXCEPT !.gone = TRUE] ELSE entries[e]]
    /\ UNCHANGED <<vars, step, target, entry, count, late>>

Discard == \E e \in DOMAIN entries : Delete({e})
Purge == \E e \in DOMAIN entries : Delete(1..e)

\* The server that handles a request dies; what the request has done so far stays.
Die(q) ==
    /\ "crash" \in Events
    /\ step[q] # "none"
    /\ IF step[q] = "mark"
       THEN /\ entries[entry[q]].lost < MaxLost
            /\ entries' = [entries EXCEPT ![entry[q]].lost = @ + 1]
       ELSE UNCHANGED entries
    /\ Answer(q)
    /\ UNCHANGED vars

RequestStep(q) ==
    \/ EnqueueRead(q) \/ EnqueueInsert(q)
    \/ RetryRead(q) \/ RetryTest(q) \/ RetryTask(q) \/ RetryMark(q)
    \/ Die(q)

WorkersStep ==
    /\ Next
    /\ UNCHANGED dlqVars

DeadLetterNext ==
    \/ WorkersStep
    \/ \E q \in Request : RequestStep(q)
    \/ Discard
    \/ Purge

DeadLetterSpec == DeadLetterInit /\ [][DeadLetterNext]_allVars

-----------------------------------------------------------------------------
(***************************************************************************)
(* Properties.                                                             *)
(***************************************************************************)

\* An entry re-queues its task at most MAX_DLQ_RETRIES times ("Number of times this entry
\* has been retried from DLQ, max 3"), and once more for each request that died before it
\* counted and for each that read the entry while another was retrying it: overlapping
\* requests may undo each other's counts, but none is worth more than its own retry,
\* whether or not the entry is deleted while they are under way.
EntryLimit ==
    \A e \in DOMAIN entries :
        entries[e].requeued <= MaxDlqRetries + entries[e].lost + entries[e].overlapped

=============================================================================
