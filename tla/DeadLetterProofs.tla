-------------------------- MODULE DeadLetterProofs --------------------------
(***************************************************************************)
(* Proofs about the dead-letter queue, for every plan, limit and number of *)
(* rows and of requests at a time: an entry exceeds its limit only by the  *)
(* retries that were lost or late, the workers keep to their claims and to *)
(* the limit of dispatchTasks.                                             *)
(*                                                                         *)
(* The retries of a row come in rounds: one that finds no other under way  *)
(* opens a round, the late ones follow, and the round ends when none is    *)
(* under way any more.  The last to count may write an old number, but     *)
(* never one below what the round began with plus one; that one and the    *)
(* late retries are all that the round has re-queued.                      *)
(***************************************************************************)
EXTENDS DeadLetter, WorkersProofs

QueueTypeOK ==
    /\ entries \in Seq(Rows)
    /\ step \in [Request -> {"none", "insert", "task", "requeue", "mark"}]
    /\ target \in [Request -> Task \cup {NoTask}]
    /\ entry \in [Request -> Nat]
    /\ count \in [Request -> 0..MaxDlqRetries]
    /\ late \subseteq Request

InRetry(q) == step[q] \in {"task", "requeue", "mark"}
Opens(q, e) == Retrying(q, e) /\ q \notin late

\* A request works on what it has found.
Found ==
    \A q \in Request :
        /\ step[q] = "insert" => target[q] \in Task
        /\ InRetry(q) => entry[q] \in DOMAIN entries

\* What row e may have re-queued its task when n of the retries are counted.
Covers(e, n) == entries[e].requeued <= n + entries[e].lost + entries[e].overlapped

\* Of the retries of one row under way at most one was not late.
OneOpens ==
    \A p, q \in Request : \A e \in DOMAIN entries : Opens(p, e) /\ Opens(q, e) => p = q

\* Whichever request counts next, what it writes covers what the row has done, and it
\* read a number below the limit.
CountCovers ==
    \A q \in Request : \A e \in DOMAIN entries : Retrying(q, e) =>
        count[q] < MaxDlqRetries /\ Covers(e, count[q] + 1)

\* Until the retry that opened the round re-queues its task, its number covers the row
\* without counting it; and nobody who came later has read a smaller number.
OpenerCovers ==
    \A q \in Request : \A e \in DOMAIN entries : Opens(q, e) =>
        /\ step[q] # "mark" => Covers(e, count[q])
        /\ \A p \in Request : Retrying(p, e) => count[q] <= count[p]
        /\ ~ entries[e].gone => count[q] <= entries[e].retries

\* The column covers the row unless the retry that opened the round is about to count.
ColumnCovers ==
    \A e \in DOMAIN entries :
        ~ entries[e].gone /\ (\A q \in Request : Opens(q, e) => step[q] # "mark") =>
            Covers(e, entries[e].retries)

DlqInv ==
    QueueTypeOK /\ Found /\ OneOpens /\ CountCovers /\ OpenerCovers /\ ColumnCovers /\ EntryLimit

-----------------------------------------------------------------------------
LEMMA DlqInit == DeadLetterInit => DlqInv
<1> SUFFICES ASSUME DeadLetterInit PROVE DlqInv
  OBVIOUS
<1>1. QueueTypeOK
  BY DlqAssumption DEF DeadLetterInit, QueueTypeOK
<1> QED
  BY <1>1 DEF DeadLetterInit, DlqInv, Found, OneOpens, CountCovers, OpenerCovers, ColumnCovers,
              Opens, Retrying, InRetry, EntryLimit

\* What leaves the rows and the requests alone keeps the invariant.
LEMMA DlqQuiet == DlqInv /\ UNCHANGED dlqVars => DlqInv'
BY DEF DlqInv, dlqVars, QueueTypeOK, Found, OneOpens, CountCovers, OpenerCovers, ColumnCovers,
       Covers, Opens, Retrying, InRetry, EntryLimit

\* The numbers of a row.
LEMMA RowNumbers ==
    ASSUME QueueTypeOK, NEW e \in DOMAIN entries
    PROVE  /\ entries[e] \in Rows
           /\ entries[e].retries \in Nat /\ entries[e].requeued \in Nat
           /\ entries[e].lost \in Nat /\ entries[e].overlapped \in Nat
           /\ entries[e].gone \in BOOLEAN
<1>1. entries[e] \in Rows
  BY DEF QueueTypeOK
<1> QED
  BY <1>1, DlqAssumption DEF Rows

\* What a request that answers or dies leaves behind.
LEMMA Leaves ==
    ASSUME QueueTypeOK, NEW q \in Request, Answer(q)
    PROVE  /\ step' \in [Request -> {"none", "insert", "task", "requeue", "mark"}]
           /\ target' \in [Request -> Task \cup {NoTask}]
           /\ entry' \in [Request -> Nat]
           /\ count' \in [Request -> 0..MaxDlqRetries]
           /\ late' \subseteq Request
           /\ step'[q] = "none"
           /\ \A p \in Request : p # q => /\ step'[p] = step[p] /\ target'[p] = target[p]
                                          /\ entry'[p] = entry[p] /\ count'[p] = count[p]
           /\ \A p \in Request : \A e : Retrying(p, e)' <=> p # q /\ Retrying(p, e)
           /\ \A p \in Request : \A e : Opens(p, e)' <=> p # q /\ Opens(p, e)
<1>1. /\ step' = [step EXCEPT ![q] = "none"] /\ target' = [target EXCEPT ![q] = NoTask]
      /\ entry' = [entry EXCEPT ![q] = 0] /\ count' = [count EXCEPT ![q] = 0]
      /\ late' = late \ {q}
  BY DEF Answer
<1>2. 0 \in 0..MaxDlqRetries
  BY DlqAssumption
<1>3. step'[q] = "none"
  BY <1>1 DEF QueueTypeOK
<1>4. \A p \in Request : p # q => /\ step'[p] = step[p] /\ target'[p] = target[p]
                                  /\ entry'[p] = entry[p] /\ count'[p] = count[p]
  BY <1>1 DEF QueueTypeOK
<1>5. \A p \in Request : \A e : Retrying(p, e)' <=> p # q /\ Retrying(p, e)
  BY <1>3, <1>4 DEF Retrying
<1>6. \A p \in Request : \A e : Opens(p, e)' <=> p # q /\ Opens(p, e)
  BY <1>1, <1>5 DEF Opens
<1> QED  BY <1>1, <1>2, <1>3, <1>4, <1>5, <1>6 DEF QueueTypeOK

\* A request that is not about to count may answer, fail or die.
LEMMA LeavingKeeps ==
    ASSUME DlqInv, NEW q \in Request, Answer(q), step[q] # "mark", entries' = entries
    PROVE  DlqInv'
<1> USE DEF DlqInv
<1>1. QueueTypeOK'
  BY Leaves DEF QueueTypeOK
<1>2. Found'
  BY Leaves DEF Found, InRetry
<1>3. OneOpens'
  BY Leaves DEF OneOpens
<1>4. CountCovers'
  BY Leaves DEF CountCovers, Covers
<1>5. OpenerCovers'
  BY Leaves DEF OpenerCovers, Covers
<1>6. ColumnCovers'
  BY Leaves DEF ColumnCovers, Covers
<1> QED  BY <1>1, <1>2, <1>3, <1>4, <1>5, <1>6 DEF EntryLimit

LEMMA EnqueueReadKeeps ==
    ASSUME DlqInv, NEW q \in Request, EnqueueRead(q) PROVE DlqInv'
<1> USE DEF DlqInv
<1>1. PICK t \in Task : target' = [target EXCEPT ![q] = t]
  BY DEF EnqueueRead
<1>2. /\ step[q] = "none" /\ step' = [step EXCEPT ![q] = "insert"]
      /\ UNCHANGED <<entries, entry, count, late>>
  BY DEF EnqueueRead
<1>3. \A p \in Request : \A e : Retrying(p, e)' <=> Retrying(p, e)
  BY <1>2 DEF Retrying, QueueTypeOK
<1>4. \A p \in Request : \A e : Opens(p, e)' <=> Opens(p, e)
  BY <1>2, <1>3 DEF Opens
<1>5. \A p \in Request : \A e : Retrying(p, e) => step'[p] = step[p]
  BY <1>2 DEF Retrying, QueueTypeOK
<1>6. QueueTypeOK'
  BY <1>1, <1>2 DEF QueueTypeOK
<1>7. Found'
  BY <1>1, <1>2 DEF Found, InRetry, QueueTypeOK
<1>8. OneOpens' /\ CountCovers'
  BY <1>2, <1>3, <1>4 DEF OneOpens, CountCovers, Covers
<1>9. OpenerCovers' /\ ColumnCovers'
  BY <1>2, <1>3, <1>4, <1>5 DEF OpenerCovers, ColumnCovers, Covers, Opens
<1> QED  BY <1>2, <1>6, <1>7, <1>8, <1>9 DEF EntryLimit

LEMMA EnqueueInsertKeeps ==
    ASSUME DlqInv, NEW q \in Request, EnqueueInsert(q) PROVE DlqInv'
<1> DEFINE row == [task |-> target[q], retries |-> 0, gone |-> FALSE,
                   requeued |-> 0, lost |-> 0, overlapped |-> 0]
           new == Len(entries) + 1
<1> USE DEF DlqInv
<1>1. row \in Rows
  BY DlqAssumption DEF EnqueueInsert, Found, Rows
<1>2. /\ entries' = Append(entries, row)
      /\ entries' \in Seq(Rows)
      /\ DOMAIN entries' = DOMAIN entries \cup {new} /\ new \notin DOMAIN entries
      /\ \A e \in DOMAIN entries : entries'[e] = entries[e]
      /\ entries'[new] = row
  BY <1>1 DEF EnqueueInsert, QueueTypeOK
<1>3. step[q] = "insert" /\ Answer(q)
  BY DEF EnqueueInsert
<1>4. \A p \in Request : \A e : Retrying(p, e)' => e \in DOMAIN entries /\ Retrying(p, e)
  BY <1>3, Leaves DEF Found, InRetry, Retrying
<1>5. \A e \in DOMAIN entries : entries'[e] = entries[e]
  BY <1>2
<1>6. /\ entries'[new].requeued = 0 /\ entries'[new].lost = 0
      /\ entries'[new].overlapped = 0 /\ entries'[new].retries = 0
  BY <1>2
<1>7. QueueTypeOK'
  BY <1>2, <1>3, Leaves DEF QueueTypeOK
<1>8. Found'
  BY <1>2, <1>3, Leaves DEF Found, InRetry
<1> HIDE DEF row, new
<1>9. OneOpens'
  BY <1>3, <1>4, Leaves DEF OneOpens, Opens
<1>10. CountCovers'
  <2>1. ASSUME NEW p \in Request, NEW e \in DOMAIN entries', Retrying(p, e)'
        PROVE  (count[p] < MaxDlqRetries /\ Covers(e, count[p] + 1))'
    <3>1. e \in DOMAIN entries /\ Retrying(p, e) /\ p # q /\ count'[p] = count[p]
      BY <1>3, <1>4, <2>1, Leaves
    <3> QED  BY <1>5, <3>1 DEF CountCovers, Covers
  <2> QED  BY <2>1 DEF CountCovers
<1>11. OpenerCovers'
  <2>1. ASSUME NEW p \in Request, NEW e \in DOMAIN entries', Opens(p, e)'
        PROVE  (/\ step[p] # "mark" => Covers(e, count[p])
                /\ \A o \in Request : Retrying(o, e) => count[p] <= count[o]
                /\ ~ entries[e].gone => count[p] <= entries[e].retries)'
    <3>1. /\ e \in DOMAIN entries /\ Opens(p, e)
          /\ p # q /\ step'[p] = step[p] /\ count'[p] = count[p]
      BY <1>3, <1>4, <2>1, Leaves DEF Opens
    <3>2. \A o \in Request : Retrying(o, e)' => Retrying(o, e) /\ count'[o] = count[o]
      BY <1>3, Leaves
    <3> QED  BY <1>5, <3>1, <3>2 DEF OpenerCovers, Covers
  <2> QED  BY <2>1 DEF OpenerCovers
<1>12. ColumnCovers'
  <2>1. ASSUME NEW e \in DOMAIN entries', ~ entries'[e].gone,
               \A p \in Request : Opens(p, e)' => step'[p] # "mark"
        PROVE  Covers(e, entries[e].retries)'
    <3>1. CASE e \in DOMAIN entries
      <4>1. \A p \in Request : Opens(p, e) => step[p] # "mark"
        BY <1>3, <2>1, Leaves DEF Opens
      <4> QED  BY <1>5, <2>1, <3>1, <4>1 DEF ColumnCovers, Covers
    <3>2. CASE e = new
      BY <1>6, <3>2 DEF Covers
    <3> QED  BY <1>2, <3>1, <3>2
  <2> QED  BY <2>1 DEF ColumnCovers
<1>13. EntryLimit'
  <2>1. row.requeued <= MaxDlqRetries + row.lost + row.overlapped
    BY DlqAssumption DEF row
  <2> QED  BY <1>2, <2>1 DEF EntryLimit
<1> QED  BY <1>7, <1>8, <1>9, <1>10, <1>11, <1>12, <1>13

-----------------------------------------------------------------------------
LEMMA RetryReadKeeps ==
    ASSUME DlqInv, NEW q \in Request, RetryRead(q) PROVE DlqInv'
<1> USE DEF DlqInv
<1>1. PICK k \in DOMAIN entries :
         /\ ~ entries[k].gone /\ entries[k].retries < MaxDlqRetries
         /\ entry' = [entry EXCEPT ![q] = k]
         /\ count' = [count EXCEPT ![q] = entries[k].retries]
         /\ late' = IF \E p \in Request : Retrying(p, k) THEN late \cup {q} ELSE late
  BY DEF RetryRead, BelowLimit
<1>2. /\ step[q] = "none" /\ step' = [step EXCEPT ![q] = "task"]
      /\ UNCHANGED <<entries, target>>
  BY DEF RetryRead
<1>3. \A p \in Request : p # q => /\ step'[p] = step[p] /\ entry'[p] = entry[p]
                                  /\ count'[p] = count[p]
  BY <1>1, <1>2 DEF QueueTypeOK
<1>4. step'[q] = "task" /\ entry'[q] = k /\ count'[q] = entries[k].retries
  BY <1>1, <1>2 DEF QueueTypeOK
<1>5. \A p \in Request : p # q => \A e : Retrying(p, e)' <=> Retrying(p, e)
  BY <1>3 DEF Retrying
<1>6. \A p \in Request : p # q => \A e : Opens(p, e)' <=> Opens(p, e)
  BY <1>1, <1>5 DEF Opens
<1>7. \A e : Retrying(q, e)' <=> e = k
  BY <1>4 DEF Retrying
<1>8. \A e : Opens(q, e)' => e = k /\ \A p \in Request : ~ Retrying(p, k)
  BY <1>1, <1>7 DEF Opens
<1>9. \A e : ~ Retrying(q, e)
  BY <1>2 DEF Retrying
<1>10. QueueTypeOK'
  <2>1. entries[k].retries \in 0..MaxDlqRetries
    BY RowNumbers DEF Rows
  <2>2. k \in Nat
    BY DEF QueueTypeOK
  <2> QED  BY <1>1, <1>2, <2>1, <2>2 DEF QueueTypeOK
<1>11. Found'
  BY <1>2, <1>3, <1>4 DEF Found, InRetry
<1>12. OneOpens'
  BY <1>2, <1>6, <1>8 DEF OneOpens, Opens
<1>13. CountCovers'
  <2>1. Covers(k, entries[k].retries + 1)
    <3>1. CASE \A p \in Request : Opens(p, k) => step[p] # "mark"
      BY <1>1, <3>1, RowNumbers DEF ColumnCovers, Covers
    <3>2. CASE \E p \in Request : Opens(p, k) /\ step[p] = "mark"
      <4>1. PICK p \in Request : Opens(p, k)
        BY <3>2
      <4>2. count[p] <= entries[k].retries /\ Covers(k, count[p] + 1)
        BY <1>1, <4>1 DEF OpenerCovers, CountCovers, Opens
      <4>3. count[p] \in Nat
        BY DlqAssumption DEF QueueTypeOK
      <4> QED  BY <4>2, <4>3, RowNumbers DEF Covers
    <3> QED  BY <3>1, <3>2
  <2>2. ASSUME NEW p \in Request, NEW e \in DOMAIN entries, Retrying(p, e)'
        PROVE  count'[p] < MaxDlqRetries /\ Covers(e, count'[p] + 1)
    <3>1. CASE p = q
      BY <1>1, <1>4, <1>7, <2>1, <2>2, <3>1
    <3>2. CASE p # q
      BY <1>3, <1>5, <2>2, <3>2 DEF CountCovers
    <3> QED  BY <3>1, <3>2
  <2> QED  BY <1>2, <2>2 DEF CountCovers, Covers
<1>14. OpenerCovers'
  <2>1. ASSUME NEW p \in Request, NEW e \in DOMAIN entries, Opens(p, e)'
        PROVE  /\ step'[p] # "mark" => Covers(e, count'[p])
               /\ \A o \in Request : Retrying(o, e)' => count'[p] <= count'[o]
               /\ ~ entries[e].gone => count'[p] <= entries[e].retries
    <3>1. CASE p = q
      <4>1. e = k /\ \A o \in Request : ~ Retrying(o, k)
        BY <1>8, <2>1, <3>1
      <4>2. Covers(k, entries[k].retries)
        BY <1>1, <4>1 DEF ColumnCovers, Opens
      <4>3. \A o \in Request : Retrying(o, k)' => o = q
        BY <1>5, <4>1
      <4> QED  BY <1>4, <3>1, <4>1, <4>2, <4>3, RowNumbers
    <3>2. CASE p # q
      <4>1. Opens(p, e) /\ step'[p] = step[p] /\ count'[p] = count[p]
        BY <1>3, <1>6, <2>1, <3>2
      <4>2. \A o \in Request : Retrying(o, e)' => count'[p] <= count'[o]
        <5>1. ASSUME NEW o \in Request, Retrying(o, e)', o # q PROVE count[p] <= count'[o]
          BY <1>3, <1>5, <4>1, <5>1 DEF OpenerCovers
        <5>2. ASSUME Retrying(q, e)' PROVE count[p] <= count'[q]
          BY <1>1, <1>4, <1>7, <4>1, <5>2 DEF OpenerCovers
        <5> QED  BY <4>1, <5>1, <5>2
      <4> QED  BY <4>1, <4>2 DEF OpenerCovers
    <3> QED  BY <3>1, <3>2
  <2> QED  BY <1>2, <2>1 DEF OpenerCovers, Covers
<1>15. ColumnCovers'
  <2>1. ASSUME NEW e \in DOMAIN entries, ~ entries[e].gone,
               \A p \in Request : Opens(p, e)' => step'[p] # "mark"
        PROVE  Covers(e, entries[e].retries)
    <3>1. \A p \in Request : Opens(p, e) => step[p] # "mark"
      BY <1>3, <1>6, <2>1, <1>9 DEF Opens
    <3> QED  BY <2>1, <3>1 DEF ColumnCovers
  <2> QED  BY <1>2, <2>1 DEF ColumnCovers, Covers
<1> QED  BY <1>2, <1>10, <1>11, <1>12, <1>13, <1>14, <1>15 DEF EntryLimit

LEMMA RetryTestKeeps ==
    ASSUME DlqInv, NEW q \in Request, RetryTest(q) PROVE DlqInv'
<1> USE DEF DlqInv
<1>1. step[q] = "task" /\ entries' = entries
  BY DEF RetryTest
<1>2. CASE Answer(q)
  BY <1>1, <1>2, LeavingKeeps
<1>3. CASE Continue(q, "requeue")
  <2>1. step' = [step EXCEPT ![q] = "requeue"] /\ UNCHANGED <<target, entry, count, late>>
    BY <1>3 DEF Continue
  <2>2. \A p \in Request : \A e : Retrying(p, e)' <=> Retrying(p, e)
    BY <1>1, <2>1 DEF Retrying, QueueTypeOK
  <2>3. \A p \in Request : \A e : Opens(p, e)' <=> Opens(p, e)
    BY <2>1, <2>2 DEF Opens
  <2>4. \A p \in Request : step'[p] = "mark" <=> step[p] = "mark"
    BY <1>1, <2>1 DEF QueueTypeOK
  <2>5. QueueTypeOK' /\ Found'
    BY <1>1, <2>1 DEF QueueTypeOK, Found, InRetry
  <2>6. OneOpens' /\ CountCovers'
    BY <1>1, <2>1, <2>2, <2>3 DEF OneOpens, CountCovers, Covers
  <2>7. OpenerCovers' /\ ColumnCovers'
    BY <1>1, <2>1, <2>2, <2>3, <2>4 DEF OpenerCovers, ColumnCovers, Covers
  <2> QED  BY <1>1, <2>5, <2>6, <2>7 DEF EntryLimit
<1> QED  BY <1>2, <1>3 DEF RetryTest

\* A row whose history is extended is still a row.
LEMMA RowUpdates ==
    ASSUME NEW row \in Rows
    PROVE  /\ [row EXCEPT !.requeued = row.requeued + 1] \in Rows
           /\ [row EXCEPT !.requeued = row.requeued + 1,
                          !.overlapped = row.overlapped + 1] \in Rows
           /\ [row EXCEPT !.lost = row.lost + 1] \in Rows
<1>1. [row EXCEPT !.requeued = row.requeued + 1] \in Rows
  BY DEF Rows
<1>2. [row EXCEPT !.requeued = row.requeued + 1, !.overlapped = row.overlapped + 1] \in Rows
  <2> DEFINE first == [row EXCEPT !.requeued = row.requeued + 1]
             both == [row EXCEPT !.requeued = row.requeued + 1,
                                 !.overlapped = row.overlapped + 1]
  <2>1. first \in Rows /\ both = [first EXCEPT !.overlapped = row.overlapped + 1]
    BY <1>1 DEF Rows
  <2>2. row.overlapped + 1 \in Nat
    BY DEF Rows
  <2> HIDE DEF first
  <2> QED  BY <2>1, <2>2 DEF Rows
<1>3. [row EXCEPT !.lost = row.lost + 1] \in Rows
  BY DEF Rows
<1> QED  BY <1>1, <1>2, <1>3

LEMMA RowRecounted ==
    ASSUME NEW row \in Rows, NEW n \in 0..MaxDlqRetries
    PROVE  [row EXCEPT !.retries = n] \in Rows
BY DEF Rows

\* One row is replaced by another.
LEMMA RowReplaced ==
    ASSUME QueueTypeOK, NEW k \in DOMAIN entries, NEW row \in Rows,
           entries' = [entries EXCEPT ![k] = row]
    PROVE  /\ entries' \in Seq(Rows) /\ DOMAIN entries' = DOMAIN entries
           /\ entries'[k] = row
           /\ \A e \in DOMAIN entries : e # k => entries'[e] = entries[e]
BY DEF QueueTypeOK

LEMMA RetryTaskKeeps ==
    ASSUME DlqInv, NEW q \in Request, RetryTask(q) PROVE DlqInv'
<1> DEFINE k == entry[q]
<1> USE DEF DlqInv
<1>1. /\ step[q] = "requeue" /\ step' = [step EXCEPT ![q] = "mark"]
      /\ UNCHANGED <<target, entry, count, late>>
  BY DEF RetryTask, Continue
<1>2. k \in DOMAIN entries /\ entries[k] \in Rows /\ Retrying(q, k)
  BY <1>1, RowNumbers DEF Found, InRetry, Retrying
<1>3. /\ entries[k].retries \in Nat /\ entries[k].requeued \in Nat /\ entries[k].lost \in Nat
      /\ entries[k].overlapped \in Nat /\ \A p \in Request : count[p] \in Nat
  BY <1>2, RowNumbers, DlqAssumption DEF QueueTypeOK
<1>4. PICK row \in Rows :
         /\ entries' = [entries EXCEPT ![k] = row]
         /\ row.requeued = entries[k].requeued + 1
         /\ row.overlapped = IF q \in late THEN entries[k].overlapped + 1
                                           ELSE entries[k].overlapped
         /\ row.lost = entries[k].lost
         /\ row.retries = entries[k].retries /\ row.gone = entries[k].gone
  <2>1. CASE q \in late
    <3> DEFINE row == [entries[k] EXCEPT !.requeued = entries[k].requeued + 1,
                                         !.overlapped = entries[k].overlapped + 1]
    <3>1. entries' = [entries EXCEPT ![k] = row]
      BY <1>2, <2>1 DEF RetryTask, QueueTypeOK
    <3>2. row \in Rows
      BY <1>2, RowUpdates
    <3>3. /\ row.requeued = entries[k].requeued + 1
          /\ row.overlapped = entries[k].overlapped + 1 /\ row.lost = entries[k].lost
          /\ row.retries = entries[k].retries /\ row.gone = entries[k].gone
      BY <1>2 DEF Rows
    <3> HIDE DEF row
    <3> QED  BY <2>1, <3>1, <3>2, <3>3
  <2>2. CASE q \notin late
    <3> DEFINE row == [entries[k] EXCEPT !.requeued = entries[k].requeued + 1]
    <3>1. entries' = [entries EXCEPT ![k] = row]
      BY <1>2, <2>2 DEF RetryTask, QueueTypeOK
    <3>2. row \in Rows
      BY <1>2, RowUpdates
    <3>3. /\ row.requeued = entries[k].requeued + 1
          /\ row.overlapped = entries[k].overlapped /\ row.lost = entries[k].lost
          /\ row.retries = entries[k].retries /\ row.gone = entries[k].gone
      BY <1>2 DEF Rows
    <3> HIDE DEF row
    <3> QED  BY <2>2, <3>1, <3>2, <3>3
  <2> QED  BY <2>1, <2>2
<1> HIDE DEF k
<1>5. /\ entries' \in Seq(Rows) /\ DOMAIN entries' = DOMAIN entries /\ entries'[k] = row
      /\ \A e \in DOMAIN entries : e # k => entries'[e] = entries[e]
  BY <1>2, <1>4, RowReplaced
<1>6. \A p \in Request : \A e : Retrying(p, e)' <=> Retrying(p, e)
  BY <1>1 DEF Retrying, QueueTypeOK
<1>7. \A p \in Request : \A e : Opens(p, e)' <=> Opens(p, e)
  BY <1>1, <1>6 DEF Opens
<1>8. \A p \in Request : p # q => step'[p] = step[p]
  BY <1>1 DEF QueueTypeOK
<1>9. step'[q] = "mark"
  BY <1>1 DEF QueueTypeOK
\* What the row has done more is late, or it is what the number plus one counts.
<1>10. ASSUME NEW n \in Nat, Covers(k, n), q \in late
       PROVE  row.requeued <= n + row.lost + row.overlapped
  BY <1>3, <1>4, <1>10 DEF Covers
<1>11. ASSUME NEW n \in Nat, Covers(k, n)
       PROVE  row.requeued <= (n + 1) + row.lost + row.overlapped
  BY <1>3, <1>4, <1>11 DEF Covers
<1>12. ASSUME NEW p \in Request, Retrying(p, k)
       PROVE  row.requeued <= (count[p] + 1) + row.lost + row.overlapped
  <2>1. CASE q \in late
    <3>1. Covers(k, count[p] + 1) /\ count[p] + 1 \in Nat
      BY <1>2, <1>3, <1>12 DEF CountCovers
    <3> QED  BY <2>1, <3>1, <1>10
  <2>2. CASE q \notin late
    <3>1. Opens(q, k)
      BY <1>2, <2>2 DEF Opens
    <3>2. Covers(k, count[q]) /\ count[q] <= count[p]
      BY <1>1, <1>2, <1>12, <3>1 DEF OpenerCovers
    <3>3. Covers(k, count[p])
      BY <1>3, <3>2 DEF Covers
    <3> QED  BY <1>3, <1>11, <3>3
  <2> QED  BY <2>1, <2>2
<1>13. QueueTypeOK' /\ Found'
  BY <1>1, <1>5 DEF QueueTypeOK, Found, InRetry
<1>14. OneOpens'
  BY <1>5, <1>7 DEF OneOpens
<1>15. CountCovers'
  <2>1. ASSUME NEW p \in Request, NEW e \in DOMAIN entries, Retrying(p, e)
        PROVE  /\ count[p] < MaxDlqRetries
               /\ entries'[e].requeued <= (count[p] + 1) + entries'[e].lost + entries'[e].overlapped
    <3>1. CASE e = k
      BY <1>5, <1>12, <2>1, <3>1 DEF CountCovers
    <3>2. CASE e # k
      BY <1>5, <2>1, <3>2 DEF CountCovers, Covers
    <3> QED  BY <3>1, <3>2
  <2> QED  BY <1>1, <1>5, <1>6, <2>1 DEF CountCovers, Covers
<1>16. OpenerCovers'
  <2>1. ASSUME NEW p \in Request, NEW e \in DOMAIN entries, Opens(p, e), step'[p] # "mark"
        PROVE  entries'[e].requeued <= count[p] + entries'[e].lost + entries'[e].overlapped
    <3>1. p # q /\ Covers(e, count[p])
      BY <1>8, <1>9, <2>1 DEF OpenerCovers
    <3>2. CASE e = k
      <4>1. q \in late
        BY <1>2, <2>1, <3>1, <3>2 DEF OneOpens, Opens
      <4> QED  BY <1>3, <1>5, <1>10, <3>1, <3>2, <4>1
    <3>3. CASE e # k
      BY <1>5, <3>1, <3>3 DEF Covers
    <3> QED  BY <3>2, <3>3
  <2>2. ASSUME NEW p \in Request, NEW e \in DOMAIN entries, Opens(p, e)
        PROVE  /\ \A o \in Request : Retrying(o, e) => count[p] <= count[o]
               /\ ~ entries'[e].gone => count[p] <= entries'[e].retries
    BY <1>4, <1>5, <2>2 DEF OpenerCovers
  <2> QED  BY <1>1, <1>5, <1>6, <1>7, <2>1, <2>2 DEF OpenerCovers, Covers
<1>17. ColumnCovers'
  <2>1. ASSUME NEW e \in DOMAIN entries, ~ entries'[e].gone,
               \A p \in Request : Opens(p, e) => step'[p] # "mark"
        PROVE  entries'[e].requeued <= entries'[e].retries + entries'[e].lost + entries'[e].overlapped
    <3>1. \A p \in Request : Opens(p, e) => step[p] # "mark"
      BY <1>1, <1>8, <2>1
    <3>2. ~ entries[e].gone
      BY <1>4, <1>5, <2>1
    <3>3. Covers(e, entries[e].retries)
      BY <3>1, <3>2 DEF ColumnCovers
    <3>4. CASE e = k
      <4>1. q \in late
        BY <1>2, <1>9, <2>1, <3>4 DEF Opens
      <4> QED  BY <1>3, <1>4, <1>5, <1>10, <3>3, <3>4, <4>1
    <3>5. CASE e # k
      BY <1>5, <3>3, <3>5 DEF Covers
    <3> QED  BY <3>4, <3>5
  <2> QED  BY <1>5, <1>7, <2>1 DEF ColumnCovers, Covers
<1>18. EntryLimit'
  <2>1. row.requeued <= MaxDlqRetries + row.lost + row.overlapped
    <3>1. /\ count[q] < MaxDlqRetries
          /\ row.requeued <= (count[q] + 1) + row.lost + row.overlapped
      BY <1>2, <1>12 DEF CountCovers
    <3>2. row.requeued \in Nat /\ row.lost \in Nat /\ row.overlapped \in Nat
      BY DEF Rows
    <3> QED  BY <1>3, <3>1, <3>2, DlqAssumption
  <2> QED  BY <1>5, <2>1 DEF EntryLimit
<1> QED  BY <1>13, <1>14, <1>15, <1>16, <1>17, <1>18

LEMMA RetryMarkKeeps ==
    ASSUME DlqInv, NEW q \in Request, RetryMark(q) PROVE DlqInv'
<1> DEFINE k == entry[q]
<1> USE DEF DlqInv
<1>1. step[q] = "mark" /\ Answer(q)
  BY DEF RetryMark
<1>2. k \in DOMAIN entries /\ entries[k] \in Rows /\ Retrying(q, k)
  BY <1>1, RowNumbers DEF Found, InRetry, Retrying
<1>3. /\ count[q] < MaxDlqRetries /\ Covers(k, count[q] + 1)
      /\ \A p \in Request : Opens(p, k) => count[p] <= count[q]
  BY <1>2 DEF CountCovers, OpenerCovers
<1>4. \A p \in Request : count[p] \in Nat
  BY DlqAssumption DEF QueueTypeOK
<1>5. PICK row \in Rows :
         /\ entries' = [entries EXCEPT ![k] = row]
         /\ row.requeued = entries[k].requeued /\ row.lost = entries[k].lost
         /\ row.overlapped = entries[k].overlapped /\ row.gone = entries[k].gone
         /\ ~ row.gone => row.retries = count[q] + 1
  <2>1. CASE entries[k].gone
    <3>1. entries' = [entries EXCEPT ![k] = entries[k]]
      BY <1>2, <2>1 DEF RetryMark, Marked, QueueTypeOK
    <3> QED  BY <1>2, <2>1, <3>1
  <2>2. CASE ~ entries[k].gone
    <3> DEFINE row == [entries[k] EXCEPT !.retries = count[q] + 1]
    <3>1. entries' = [entries EXCEPT ![k] = row]
      BY <1>2, <2>2 DEF RetryMark, Marked, QueueTypeOK
    <3>2. row \in Rows
      <4>1. count[q] + 1 \in 0..MaxDlqRetries
        BY <1>3, <1>4, DlqAssumption
      <4> HIDE DEF k
      <4> QED  BY <1>2, <4>1, RowRecounted
    <3>3. /\ row.requeued = entries[k].requeued /\ row.lost = entries[k].lost
          /\ row.overlapped = entries[k].overlapped /\ row.gone = entries[k].gone
          /\ row.retries = count[q] + 1
      BY <1>2 DEF Rows
    <3> HIDE DEF row
    <3> QED  BY <3>1, <3>2, <3>3
  <2> QED  BY <2>1, <2>2
<1> HIDE DEF k
<1>6. /\ entries' \in Seq(Rows) /\ DOMAIN entries' = DOMAIN entries /\ entries'[k] = row
      /\ \A e \in DOMAIN entries : e # k => entries'[e] = entries[e]
  BY <1>2, <1>5, RowReplaced
<1>7. \A e \in DOMAIN entries : /\ entries'[e].requeued = entries[e].requeued
                               /\ entries'[e].lost = entries[e].lost
                               /\ entries'[e].overlapped = entries[e].overlapped
                               /\ entries'[e].gone = entries[e].gone
  BY <1>5, <1>6
<1>8. QueueTypeOK' /\ Found'
  BY <1>1, <1>6, Leaves DEF QueueTypeOK, Found, InRetry
<1>9. OneOpens'
  BY <1>1, <1>6, Leaves DEF OneOpens
<1>10. CountCovers'
  <2>1. ASSUME NEW p \in Request, NEW e \in DOMAIN entries, Retrying(p, e)'
        PROVE  /\ count'[p] < MaxDlqRetries
               /\ entries[e].requeued <= (count'[p] + 1) + entries[e].lost + entries[e].overlapped
    BY <1>1, <2>1, Leaves DEF CountCovers, Covers
  <2> QED  BY <1>6, <1>7, <2>1 DEF CountCovers, Covers
<1>11. OpenerCovers'
  <2>1. ASSUME NEW p \in Request, NEW e \in DOMAIN entries, Opens(p, e)'
        PROVE  /\ step'[p] # "mark" =>
                    entries[e].requeued <= count'[p] + entries[e].lost + entries[e].overlapped
               /\ \A o \in Request : Retrying(o, e)' => count'[p] <= count'[o]
               /\ ~ entries'[e].gone => count'[p] <= entries'[e].retries
    <3>1. p # q /\ Opens(p, e) /\ step'[p] = step[p] /\ count'[p] = count[p]
      BY <1>1, <2>1, Leaves
    <3>2. \A o \in Request : Retrying(o, e)' => Retrying(o, e) /\ count'[o] = count[o]
      BY <1>1, Leaves
    <3>3. /\ step'[p] # "mark" =>
                entries[e].requeued <= count'[p] + entries[e].lost + entries[e].overlapped
          /\ \A o \in Request : Retrying(o, e)' => count'[p] <= count'[o]
          /\ ~ entries[e].gone => count'[p] <= entries[e].retries
      BY <3>1, <3>2 DEF OpenerCovers, Covers
    <3>4. ~ entries'[e].gone => count'[p] <= entries'[e].retries
      <4>1. CASE e = k
        BY <1>3, <1>4, <1>5, <1>6, <3>1, <4>1
      <4>2. CASE e # k
        BY <1>6, <3>3, <4>2
      <4> QED  BY <4>1, <4>2
    <3> QED  BY <3>3, <3>4
  <2> QED  BY <1>6, <1>7, <2>1 DEF OpenerCovers, Covers
<1>12. ColumnCovers'
  <2>1. ASSUME NEW e \in DOMAIN entries, ~ entries'[e].gone,
               \A p \in Request : Opens(p, e)' => step'[p] # "mark"
        PROVE  entries[e].requeued <= entries'[e].retries + entries[e].lost + entries[e].overlapped
    <3>1. CASE e = k
      BY <1>3, <1>5, <1>6, <2>1, <3>1 DEF Covers
    <3>2. CASE e # k
      <4>1. \A p \in Request : Opens(p, e) => p # q
        BY <3>2 DEF Opens, Retrying, k
      <4>2. \A p \in Request : Opens(p, e) => step[p] # "mark"
        BY <1>1, <2>1, <4>1, Leaves
      <4> QED  BY <1>6, <1>7, <2>1, <3>2, <4>2 DEF ColumnCovers, Covers
    <3> QED  BY <3>1, <3>2
  <2> QED  BY <1>6, <1>7, <2>1 DEF ColumnCovers, Covers
<1>13. EntryLimit'
  BY <1>6, <1>7 DEF EntryLimit
<1> QED  BY <1>8, <1>9, <1>10, <1>11, <1>12, <1>13

LEMMA DieKeeps ==
    ASSUME DlqInv, NEW q \in Request, Die(q) PROVE DlqInv'
<1> DEFINE k == entry[q]
<1> USE DEF DlqInv
<1>1. Answer(q)
  BY DEF Die
<1>2. CASE step[q] # "mark"
  BY <1>1, <1>2, LeavingKeeps DEF Die
<1>3. CASE step[q] = "mark"
  <2>1. k \in DOMAIN entries /\ entries[k] \in Rows /\ Retrying(q, k)
    BY <1>3, RowNumbers DEF Found, InRetry, Retrying
  <2>2. PICK row \in Rows :
           /\ entries' = [entries EXCEPT ![k] = row]
           /\ row.requeued = entries[k].requeued /\ row.lost = entries[k].lost + 1
           /\ row.overlapped = entries[k].overlapped
           /\ row.retries = entries[k].retries /\ row.gone = entries[k].gone
    <3> DEFINE row == [entries[k] EXCEPT !.lost = entries[k].lost + 1]
    <3>1. entries' = [entries EXCEPT ![k] = row]
      BY <1>3, <2>1 DEF Die, QueueTypeOK
    <3>2. row \in Rows
      BY <2>1, RowUpdates
    <3>3. /\ row.requeued = entries[k].requeued /\ row.lost = entries[k].lost + 1
          /\ row.overlapped = entries[k].overlapped
          /\ row.retries = entries[k].retries /\ row.gone = entries[k].gone
      BY <2>1 DEF Rows
    <3> HIDE DEF row
    <3> QED  BY <3>1, <3>2, <3>3
  <2> HIDE DEF k
  <2>3. /\ entries' \in Seq(Rows) /\ DOMAIN entries' = DOMAIN entries /\ entries'[k] = row
        /\ \A e \in DOMAIN entries : e # k => entries'[e] = entries[e]
    BY <2>1, <2>2, RowReplaced
  <2>4. \A e \in DOMAIN entries : /\ entries'[e].retries = entries[e].retries
                                  /\ entries'[e].gone = entries[e].gone
    BY <2>2, <2>3
  \* One retry more is lost, so that no less is covered.
  <2>5. \A e \in DOMAIN entries : \A n \in Nat :
           Covers(e, n) => entries'[e].requeued <= n + entries'[e].lost + entries'[e].overlapped
    <3>1. ASSUME NEW e \in DOMAIN entries, NEW n \in Nat, Covers(e, n)
          PROVE  entries'[e].requeued <= n + entries'[e].lost + entries'[e].overlapped
      <4>1. CASE e = k
        BY <2>2, <2>3, <3>1, <4>1, RowNumbers DEF Covers
      <4>2. CASE e # k
        BY <2>3, <3>1, <4>2 DEF Covers
      <4> QED  BY <4>1, <4>2
    <3> QED  BY <3>1
  <2>6. \A p \in Request : count[p] \in Nat
    BY DlqAssumption DEF QueueTypeOK
  <2>7. QueueTypeOK' /\ Found'
    BY <1>1, <2>3, Leaves DEF QueueTypeOK, Found, InRetry
  <2>8. OneOpens'
    BY <1>1, <2>3, Leaves DEF OneOpens
  <2>9. CountCovers'
    <3>1. ASSUME NEW p \in Request, NEW e \in DOMAIN entries, Retrying(p, e)'
          PROVE  /\ count'[p] < MaxDlqRetries
                 /\ entries'[e].requeued
                      <= (count'[p] + 1) + entries'[e].lost + entries'[e].overlapped
      <4>1. Retrying(p, e) /\ count'[p] = count[p] /\ count[p] + 1 \in Nat
        BY <1>1, <2>6, <3>1, Leaves
      <4> QED  BY <2>5, <4>1 DEF CountCovers
    <3> QED  BY <2>3, <3>1 DEF CountCovers, Covers
  <2>10. OpenerCovers'
    <3>1. ASSUME NEW p \in Request, NEW e \in DOMAIN entries, Opens(p, e)'
          PROVE  /\ step'[p] # "mark" =>
                      entries'[e].requeued
                        <= count'[p] + entries'[e].lost + entries'[e].overlapped
                 /\ \A o \in Request : Retrying(o, e)' => count'[p] <= count'[o]
                 /\ ~ entries'[e].gone => count'[p] <= entries'[e].retries
      <4>1. Opens(p, e) /\ step'[p] = step[p] /\ count'[p] = count[p]
        BY <1>1, <3>1, Leaves
      <4>2. \A o \in Request : Retrying(o, e)' => Retrying(o, e) /\ count'[o] = count[o]
        BY <1>1, Leaves
      <4>3. step'[p] # "mark" =>
                entries'[e].requeued <= count'[p] + entries'[e].lost + entries'[e].overlapped
        BY <2>5, <2>6, <4>1 DEF OpenerCovers
      <4> QED  BY <2>4, <4>1, <4>2, <4>3 DEF OpenerCovers
    <3> QED  BY <2>3, <3>1 DEF OpenerCovers, Covers
  <2>11. ColumnCovers'
    <3>1. ASSUME NEW e \in DOMAIN entries, ~ entries[e].gone,
                 \A p \in Request : Opens(p, e)' => step'[p] # "mark"
          PROVE  entries'[e].requeued
                   <= entries'[e].retries + entries'[e].lost + entries'[e].overlapped
      <4>1. CASE Opens(q, e)
        <5>1. e = k /\ count[q] <= entries[k].retries /\ Covers(k, count[q] + 1)
          BY <2>1, <3>1, <4>1 DEF Opens, Retrying, OpenerCovers, CountCovers, k
        <5> QED  BY <2>2, <2>3, <2>6, <5>1, RowNumbers DEF Covers
      <4>2. CASE ~ Opens(q, e)
        <5>1. \A p \in Request : Opens(p, e) => step[p] # "mark"
          BY <1>1, <3>1, <4>2, Leaves
        <5>2. Covers(e, entries[e].retries)
          BY <3>1, <5>1 DEF ColumnCovers
        <5> QED  BY <2>4, <2>5, <5>2, RowNumbers
      <4> QED  BY <4>1, <4>2
    <3> QED  BY <2>3, <2>4, <3>1 DEF ColumnCovers, Covers
  <2>12. EntryLimit'
    <3>1. \A e \in DOMAIN entries : Covers(e, MaxDlqRetries)
      BY DEF EntryLimit, Covers
    <3> QED  BY <2>3, <2>5, <3>1, DlqAssumption DEF EntryLimit
  <2> QED  BY <2>7, <2>8, <2>9, <2>10, <2>11, <2>12
<1> QED  BY <1>2, <1>3

LEMMA DeleteKeeps ==
    ASSUME DlqInv, NEW old, Delete(old) PROVE DlqInv'
<1> USE DEF DlqInv
<1>1. UNCHANGED <<step, target, entry, count, late>>
  BY DEF Delete
<1>2. /\ DOMAIN entries' = DOMAIN entries
      /\ \A e \in DOMAIN entries :
            \/ entries'[e] = entries[e]
            \/ entries'[e] = [entries[e] EXCEPT !.gone = TRUE]
  BY DEF Delete
<1>3. \A e \in DOMAIN entries :
         /\ entries'[e] \in Rows
         /\ entries'[e].requeued = entries[e].requeued
         /\ entries'[e].lost = entries[e].lost
         /\ entries'[e].overlapped = entries[e].overlapped
         /\ entries'[e].retries = entries[e].retries
         /\ entries[e].gone => entries'[e].gone
  BY <1>2, RowNumbers DEF Rows
<1>4. entries' \in Seq(Rows)
  <2>1. entries' \in [1..Len(entries) -> Rows]
    BY <1>3 DEF Delete, QueueTypeOK
  <2> QED  BY <2>1 DEF QueueTypeOK
<1>5. QueueTypeOK' /\ Found'
  BY <1>1, <1>2, <1>4 DEF QueueTypeOK, Found, InRetry
<1>6. OneOpens'
  BY <1>1, <1>2 DEF OneOpens, Opens, Retrying
<1>7. CountCovers'
  BY <1>1, <1>2, <1>3 DEF CountCovers, Covers, Retrying
<1>8. OpenerCovers'
  BY <1>1, <1>2, <1>3 DEF OpenerCovers, Covers, Opens, Retrying
<1>9. ColumnCovers'
  BY <1>1, <1>2, <1>3 DEF ColumnCovers, Covers, Opens, Retrying
<1>10. EntryLimit'
  BY <1>2, <1>3 DEF EntryLimit
<1> QED  BY <1>5, <1>6, <1>7, <1>8, <1>9, <1>10

LEMMA DlqStep == DlqInv /\ [DeadLetterNext]_allVars => DlqInv'
<1> SUFFICES ASSUME DlqInv, [DeadLetterNext]_allVars
             PROVE  DlqInv'
  OBVIOUS
<1>1. CASE WorkersStep
  BY <1>1, DlqQuiet DEF WorkersStep
<1>2. ASSUME NEW q \in Request, RequestStep(q)
      PROVE  DlqInv'
  BY <1>2, EnqueueReadKeeps, EnqueueInsertKeeps, RetryReadKeeps, RetryTestKeeps,
     RetryTaskKeeps, RetryMarkKeeps, DieKeeps DEF RequestStep
<1>3. CASE Discard \/ Purge
  BY <1>3, DeleteKeeps DEF Discard, Purge
<1>4. CASE UNCHANGED allVars
  BY <1>4, DlqQuiet DEF allVars
<1> QED
  BY <1>1, <1>2, <1>3, <1>4 DEF DeadLetterNext

\* However many requests overlap, an entry re-queues its task at most MAX_DLQ_RETRIES
\* times, and once for each retry that died before counting and each that began while
\* another was under way: workers, deletions and deaths at any point do not break it.
THEOREM RetriesLimited == DeadLetterSpec => []EntryLimit
<1>1. DlqInv => EntryLimit
  BY DEF DlqInv
<1> QED
  BY <1>1, DlqInit, DlqStep, PTL DEF DeadLetterSpec

-----------------------------------------------------------------------------
(***************************************************************************)
(* What requests to the queue do to the workers.  A retry queues a task by *)
(* its id, although it may have been dispatched or claimed since it was    *)
(* found FAILED.                                                           *)
(***************************************************************************)
LEMMA RequestsQueue ==
    ASSUME DeadLetterNext, ~ WorkersStep
    PROVE  /\ UNCHANGED tickVars
           /\ \/ taskState' = taskState
              \/ \E t : taskState' = [taskState EXCEPT ![t] = "QUEUED"]
<1>1. ASSUME NEW q \in Request, RequestStep(q), ~ RetryTask(q)
      PROVE  UNCHANGED vars
  BY <1>1
  DEF RequestStep, EnqueueRead, EnqueueInsert, RetryRead, RetryTest, RetryMark, Die
<1>2. ASSUME Discard \/ Purge PROVE UNCHANGED vars
  BY <1>2 DEF Discard, Purge, Delete
<1>3. UNCHANGED vars => UNCHANGED tickVars /\ taskState' = taskState
  BY DEF vars, dbVars
<1>4. ASSUME NEW q \in Request, RetryTask(q)
      PROVE  UNCHANGED tickVars /\ \E t : taskState' = [taskState EXCEPT ![t] = "QUEUED"]
  BY <1>4 DEF RetryTask
<1> QED
  BY <1>1, <1>2, <1>3, <1>4 DEF DeadLetterNext

\* Two ticks of a server never hold the same task, however often it is re-queued under the
\* tick that holds it.
THEOREM ExclusiveWithRetries == ASSUME SingleInstance PROVE DeadLetterSpec => []Exclusive
<1>1. ClaimsInv /\ [DeadLetterNext]_allVars => ClaimsInv'
  BY WorkersKeepClaims, RequestsQueue, ClaimsStay DEF WorkersStep, allVars, vars
<1>2. DeadLetterInit => ClaimsInv
  BY ClaimsInitial DEF DeadLetterInit
<1>3. ClaimsInv => Exclusive
  BY DEF ClaimsInv
<1> QED
  BY <1>1, <1>2, <1>3, PTL DEF DeadLetterSpec

\* Retries from the queue never make more than maxConcurrent tasks dispatched or running,
\* however many requests overlap, and with any number of servers.
THEOREM BoundedWithRetries == DeadLetterSpec => []ActiveBound
<1>1. (TasksTyped /\ ActiveBound) /\ [DeadLetterNext]_allVars => (TasksTyped /\ ActiveBound)'
  <2> SUFFICES ASSUME TasksTyped, ActiveBound, [DeadLetterNext]_allVars
               PROVE  TasksTyped' /\ ActiveBound'
    OBVIOUS
  <2>1. CASE WorkersStep \/ UNCHANGED allVars
    BY <2>1, WorkersBounded DEF WorkersStep, allVars
  <2>2. CASE DeadLetterNext /\ ~ WorkersStep
    BY <2>2, RequestsQueue, StillBounded, MoveBounded DEF TaskStates
  <2> QED
    BY <2>1, <2>2
<1>2. DeadLetterInit => TasksTyped /\ ActiveBound
  BY BoundedInitially DEF DeadLetterInit
<1> QED
  BY <1>1, <1>2, PTL DEF DeadLetterSpec

=============================================================================
