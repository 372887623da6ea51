------------------------- MODULE ToolRuntimeProofs -------------------------
(***************************************************************************)
(* Proofs about the search limiter and the tool runtime.  The runtime uses *)
(* the limiter only through its steps, so it implements LimiterSpec, and   *)
(* what is proved of the limiter alone holds of every mix of tool calls.   *)
(***************************************************************************)
EXTENDS ToolRuntimeInvariant, TLAPS

-----------------------------------------------------------------------------
(***************************************************************************)
(* The limiter alone.                                                      *)
(***************************************************************************)

LEMMA LimiterInitial == LimiterInit => LimiterInv
<1> SUFFICES ASSUME LimiterInit PROVE LimiterInv
  OBVIOUS
<1>1. queue \in Seq(Caller) /\ queue = << >>
  BY DEF LimiterInit
<1>2. isProcessing = FALSE /\ timer \in 0..RateLimit /\ sinceSearch \in 0..RateLimit
  BY RateLimitAssumption DEF LimiterInit
<1> QED  BY <1>1, <1>2 DEF LimiterInv, LimiterTypeOK

LEMMA AcquireNowKeeps ==
    ASSUME LimiterInv, NEW q \in Caller, AcquireNow(q) PROVE LimiterInv'
BY RateLimitAssumption DEF LimiterInv, LimiterTypeOK, AcquireNow, Passes

LEMMA AcquireLaterKeeps ==
    ASSUME LimiterInv, NEW q \in Caller, AcquireLater(q) PROVE LimiterInv'
<1>1. queue' \in Seq(Caller) /\ queue' # << >>
  BY DEF LimiterInv, LimiterTypeOK, AcquireLater
<1>2. isProcessing' = TRUE /\ sinceSearch' = sinceSearch
  BY DEF AcquireLater
<1>3. timer' \in 0..RateLimit /\ sinceSearch' + timer' >= RateLimit
  BY RateLimitAssumption DEF LimiterInv, LimiterTypeOK, AcquireLater
<1> QED  BY <1>1, <1>2, <1>3 DEF LimiterInv, LimiterTypeOK

LEMMA GrantKeeps == ASSUME LimiterInv, Grant PROVE LimiterInv'
<1>1. Tail(queue) \in Seq(Caller)
  BY DEF LimiterInv, LimiterTypeOK, Grant
<1>2. queue' = Tail(queue) /\ queue' \in Seq(Caller)
  BY <1>1 DEF Grant
<1>3. sinceSearch' = 0 /\ sinceSearch' \in 0..RateLimit
  BY RateLimitAssumption DEF Grant
<1>4. CASE Tail(queue) = << >>
  <2>1. isProcessing' = FALSE /\ timer' = 0
    BY <1>4 DEF Grant, GoOn
  <2> QED  BY <1>2, <1>3, <1>4, <2>1, RateLimitAssumption DEF LimiterInv, LimiterTypeOK
<1>5. CASE Tail(queue) # << >>
  <2>1. isProcessing' = TRUE /\ timer' = RateLimit
    BY <1>5 DEF Grant, GoOn
  <2> QED  BY <1>2, <1>3, <1>5, <2>1, RateLimitAssumption DEF LimiterInv, LimiterTypeOK
<1> QED  BY <1>4, <1>5

LEMMA TimePassesKeeps == ASSUME LimiterInv, TimePasses PROVE LimiterInv'
BY RateLimitAssumption DEF LimiterInv, LimiterTypeOK, TimePasses

LEMMA LimiterStep == LimiterInv /\ [LimiterNext]_limiterVars => LimiterInv'
<1> SUFFICES ASSUME LimiterInv, [LimiterNext]_limiterVars PROVE LimiterInv'
  OBVIOUS
<1>1. CASE UNCHANGED limiterVars
  BY <1>1 DEF limiterVars, LimiterInv, LimiterTypeOK
<1>2. CASE LimiterNext
  BY <1>2, AcquireNowKeeps, AcquireLaterKeeps, GrantKeeps, TimePassesKeeps DEF LimiterNext
<1> QED  BY <1>1, <1>2

\* Between two awaits the flag, the queue and the timer of the limiter always agree.
THEOREM LimiterSound == LimiterSpec => []LimiterInv
BY LimiterInitial, LimiterStep, PTL DEF LimiterSpec

LEMMA SpacedStep ==
    ASSUME LimiterInv, [LimiterNext]_limiterVars
    PROVE  [Len(queue') < Len(queue) \/ sinceSearch' < sinceSearch
               => sinceSearch = RateLimit]_limiterVars
<1>1. ASSUME NEW q \in Caller, AcquireNow(q) PROVE sinceSearch = RateLimit
  BY <1>1, RateLimitAssumption DEF LimiterInv, LimiterTypeOK, AcquireNow, Passes
<1>2. ASSUME NEW q \in Caller, AcquireLater(q)
      PROVE  ~ (Len(queue') < Len(queue) \/ sinceSearch' < sinceSearch)
  <2>1. Len(queue') = Len(queue) + 1 /\ sinceSearch' = sinceSearch
    BY <1>2 DEF LimiterInv, LimiterTypeOK, AcquireLater
  <2> QED  BY <2>1 DEF LimiterInv, LimiterTypeOK
<1>3. ASSUME Grant PROVE sinceSearch = RateLimit
  BY <1>3, RateLimitAssumption DEF LimiterInv, LimiterTypeOK, Grant
<1>4. ASSUME TimePasses PROVE ~ (Len(queue') < Len(queue) \/ sinceSearch' < sinceSearch)
  BY <1>4, RateLimitAssumption DEF LimiterInv, LimiterTypeOK, TimePasses
<1> QED  BY <1>1, <1>2, <1>3, <1>4 DEF LimiterNext

\* The limiter never lets two searches start within rateLimitMs of each other.
THEOREM LimiterSpaces == LimiterSpec => SearchesSpaced
<1>1. LimiterInv /\ [LimiterNext]_limiterVars
        => [Len(queue') < Len(queue) \/ sinceSearch' < sinceSearch
               => sinceSearch = RateLimit]_limiterVars
  BY SpacedStep
<1> QED  BY <1>1, LimiterSound, PTL DEF LimiterSpec, SearchesSpaced

-----------------------------------------------------------------------------
(***************************************************************************)
(* The runtime implements the limiter.                                     *)
(***************************************************************************)

LEMMA CallStepLimiter ==
    ASSUME NEW q \in Caller, Call(q) \/ CallStep(q) PROVE [LimiterNext]_limiterVars
<1>1. CASE AskToSearch(q)
  BY <1>1 DEF AskToSearch, LimiterNext
<1>2. CASE ~ AskToSearch(q)
  <2>1. CASE Call(q) \/ LogRequest(q) \/ LogResult(q) \/ ResultThrows(q) \/ LogFailure(q)
    BY <2>1 DEF Call, LogRequest, LogResult, ResultThrows, LogFailure
  <2>2. CASE WriteFile(q) \/ InsertArtifact(q) \/ InsertFails(q) \/ AuditArtifact(q)
             \/ Refused(q) \/ ReadFile(q)
    BY <2>2 DEF WriteFile, InsertArtifact, InsertFails, AuditArtifact, Refused, ReadFile
  <2>3. CASE BashStart(q) \/ DockerInfo(q) \/ EnsureImage(q)
             \/ BuildEnds(q) \/ RunInContainer(q) \/ RunLocally(q) \/ RunDirectly(q)
             \/ Search(q)
    BY <2>3 DEF BashStart, DockerInfo, EnsureImage, BuildEnds, RunInContainer,
                RunLocally, RunDirectly, Search
  <2> QED  BY <1>2, <2>1, <2>2, <2>3 DEF CallStep
<1> QED  BY <1>1, <1>2

LEMMA ToolStepLimiter == [ToolsNext]_toolVars => [LimiterNext]_limiterVars
<1> SUFFICES ASSUME [ToolsNext]_toolVars PROVE [LimiterNext]_limiterVars
  OBVIOUS
<1>1. CASE UNCHANGED toolVars
  BY <1>1 DEF toolVars
<1>2. CASE GrantSearch
  BY <1>2 DEF GrantSearch, LimiterNext
<1>3. CASE Tick
  BY <1>3 DEF Tick, LimiterNext
<1>4. CASE DeleteRead \/ DeleteFiles \/ DeleteRows
  BY <1>4 DEF DeleteRead, DeleteFiles, DeleteRows
<1>5. ASSUME NEW q \in Caller, CallUnknown(q) PROVE [LimiterNext]_limiterVars
  BY <1>5 DEF CallUnknown
<1> QED  BY <1>1, <1>2, <1>3, <1>4, <1>5, CallStepLimiter DEF ToolsNext

\* Tool calls use the limiter as its specification says: only through acquire.
THEOREM RuntimeImplementsLimiter == ToolsSpec => LimiterSpec
<1>1. ToolsInit => LimiterInit
  BY DEF ToolsInit
<1> QED  BY <1>1, ToolStepLimiter, PTL DEF ToolsSpec, LimiterSpec

\* However many tasks search at once and however late timers fire, two searches never
\* start within rateLimitMs of each other.
THEOREM SearchesAreSpaced == ToolsSpec => SearchesSpaced
BY RuntimeImplementsLimiter, LimiterSpaces, PTL

-----------------------------------------------------------------------------
(***************************************************************************)
(* The audit log.                                                          *)
(***************************************************************************)
\* A step of q that leaves it between its two events.
LEMMA StaysInside ==
    ASSUME LogInv, NEW q \in Caller, pc[q] \in Inside,
           NEW s \in Inside, pc' = [pc EXCEPT ![q] = s],
           result' = result \/ \E r \in Results : result' = [result EXCEPT ![q] = r],
           log' = log
    PROVE  LogInv'
<1>1. CallsTyped'
  BY DEF LogInv, CallsTyped, Inside
<1>2. ASSUME NEW p \in Caller PROVE CallLogged(p)'
  <2>1. CASE p = q
    <3>1. pc'[p] = s /\ log'[p] = <<"request">>
      BY <2>1 DEF LogInv, CallsTyped, CallLogged
    <3> QED  BY <3>1 DEF CallLogged, Inside
  <2>2. CASE p # q
    <3>1. pc'[p] = pc[p] /\ log'[p] = log[p] /\ result'[p] = result[p]
      BY <2>2 DEF LogInv, CallsTyped
    <3> QED  BY <3>1 DEF LogInv, CallLogged, Inside
  <2> QED  BY <2>1, <2>2
<1> QED  BY <1>1, <1>2 DEF LogInv

\* A step of q that logs an event, begins a call or ends one.
LEMMA OthersLogged ==
    ASSUME LogInv, NEW q \in Caller, CallsTyped', CallLogged(q)',
           \A p \in Caller : p # q =>
               pc'[p] = pc[p] /\ log'[p] = log[p] /\ result'[p] = result[p]
    PROVE  LogInv'
<1>1. ASSUME NEW p \in Caller, p # q PROVE CallLogged(p)'
  <2>1. pc'[p] = pc[p] /\ log'[p] = log[p] /\ result'[p] = result[p]
    BY <1>1
  <2> QED  BY <2>1, <1>1 DEF LogInv, CallLogged, Inside
<1> QED  BY <1>1 DEF LogInv

LEMMA CallKeepsLog == ASSUME LogInv, NEW q \in Caller, Call(q) PROVE LogInv'
<1>1. /\ pc' = [pc EXCEPT ![q] = "request"]
      /\ log' = [log EXCEPT ![q] = << >>]
      /\ result' = [result EXCEPT ![q] = "none"]
  BY DEF Call, Goto
<1>2. << >> \in Seq({"request", "ok", "failed"})
  OBVIOUS
<1>3. CallsTyped'
  BY <1>1, <1>2 DEF LogInv, CallsTyped, Steps, Results
<1>4. CallLogged(q)'
  BY <1>1 DEF LogInv, CallsTyped, CallLogged, Inside
<1>5. \A p \in Caller : p # q =>
          pc'[p] = pc[p] /\ log'[p] = log[p] /\ result'[p] = result[p]
  BY <1>1 DEF LogInv, CallsTyped
<1> QED  BY <1>3, <1>4, <1>5, OthersLogged

LEMMA UnknownKeepsLog == ASSUME LogInv, NEW q \in Caller, CallUnknown(q) PROVE LogInv'
<1>1. /\ pc[q] = "none" /\ pc' = pc
      /\ log' = [log EXCEPT ![q] = << >>]
      /\ result' = [result EXCEPT ![q] = "unknown"]
  BY DEF CallUnknown
<1>2. << >> \in Seq({"request", "ok", "failed"})
  OBVIOUS
<1>3. CallsTyped'
  BY <1>1, <1>2 DEF LogInv, CallsTyped, Results
<1>4. CallLogged(q)'
  BY <1>1 DEF LogInv, CallsTyped, CallLogged, Inside
<1>5. \A p \in Caller : p # q =>
          pc'[p] = pc[p] /\ log'[p] = log[p] /\ result'[p] = result[p]
  BY <1>1 DEF LogInv, CallsTyped
<1> QED  BY <1>3, <1>4, <1>5, OthersLogged

LEMMA AnswerKeepsLog ==
    ASSUME LogInv, NEW q \in Caller, NEW outcome \in Results, Answers(q, outcome),
           log' \in [Caller -> Seq({"request", "ok", "failed"})],
           \A p \in Caller : p # q => log'[p] = log[p],
           outcome \in {"ok", "failed", "refused"} =>
               log'[q] = <<"request", Told(outcome)>>
    PROVE  LogInv'
<1>1. pc' = [pc EXCEPT ![q] = "none"] /\ result' = [result EXCEPT ![q] = outcome]
  BY DEF Answers, Goto
<1>2. CallsTyped'
  BY <1>1 DEF LogInv, CallsTyped, Steps
<1>3. pc'[q] = "none" /\ result'[q] = outcome
  BY <1>1 DEF LogInv, CallsTyped
<1>4. CallLogged(q)'
  BY <1>3 DEF CallLogged, Inside
<1>5. \A p \in Caller : p # q =>
          pc'[p] = pc[p] /\ log'[p] = log[p] /\ result'[p] = result[p]
  BY <1>1 DEF LogInv, CallsTyped
<1> QED  BY <1>2, <1>4, <1>5, OthersLogged

\* What an event of q does to the log.
LEMMA Logged ==
    ASSUME CallsTyped, NEW q \in Caller, NEW event \in {"request", "ok", "failed"},
           Logs(q, event)
    PROVE  /\ log' \in [Caller -> Seq({"request", "ok", "failed"})]
           /\ log'[q] = Append(log[q], event)
           /\ \A p \in Caller : p # q => log'[p] = log[p]
<1>1. Append(log[q], event) \in Seq({"request", "ok", "failed"})
  BY DEF CallsTyped
<1> QED  BY <1>1 DEF Logs, CallsTyped

LEMMA LogRequestKeepsLog == ASSUME LogInv, NEW q \in Caller, LogRequest(q) PROVE LogInv'
<1>0. CallsTyped /\ pc[q] = "request" /\ log[q] = << >>
  BY DEF LogInv, LogRequest, CallLogged
<1>1. CASE Goto(q, "run") /\ Logs(q, "request") /\ result' = result
  <2>1. pc' = [pc EXCEPT ![q] = "run"]
    BY <1>1 DEF Goto
  <2>2. log'[q] = <<"request">>
    BY <1>0, <1>1, Logged
  <2>3. CallsTyped'
    BY <1>0, <1>1, <2>1, Logged DEF CallsTyped, Steps
  <2>4. CallLogged(q)'
    BY <1>0, <2>1, <2>2 DEF CallsTyped, CallLogged, Inside
  <2>5. \A p \in Caller : p # q =>
            pc'[p] = pc[p] /\ log'[p] = log[p] /\ result'[p] = result[p]
    BY <1>0, <1>1, <2>1, Logged DEF CallsTyped
  <2> QED  BY <2>3, <2>4, <2>5, OthersLogged
<1>2. CASE Answers(q, "thrown") /\ log' = log
  BY <1>0, <1>2, AnswerKeepsLog DEF CallsTyped, Results
<1> QED  BY <1>1, <1>2 DEF LogRequest

LEMMA LogResultKeepsLog == ASSUME LogInv, NEW q \in Caller, LogResult(q) PROVE LogInv'
<1>1. CallsTyped /\ log[q] = <<"request">> /\ result[q] \in {"ok", "refused"}
  BY DEF LogInv, LogResult, CallLogged, Inside, Steps
<1>2. Logs(q, Told(result[q])) /\ Answers(q, result[q])
  BY DEF LogResult, Told
<1>3. Told(result[q]) \in {"request", "ok", "failed"}
  BY DEF Told
<1>4. log'[q] = <<"request", Told(result[q])>>
  BY <1>1, <1>2, <1>3, Logged
<1> QED  BY <1>1, <1>2, <1>3, <1>4, Logged, AnswerKeepsLog DEF Results

LEMMA LogFailureKeepsLog == ASSUME LogInv, NEW q \in Caller, LogFailure(q) PROVE LogInv'
<1>1. CallsTyped /\ log[q] = <<"request">>
  BY DEF LogInv, LogFailure, CallLogged, Inside, Steps
<1>2. CASE Answers(q, "failed") /\ Logs(q, "failed")
  <2>1. Told("failed") \in {"request", "ok", "failed"} /\ Logs(q, Told("failed"))
    BY <1>2 DEF Told
  <2>2. log'[q] = <<"request", Told("failed")>>
    BY <1>1, <2>1, Logged
  <2> QED  BY <1>1, <1>2, <2>1, <2>2, Logged, AnswerKeepsLog DEF Results
<1>3. CASE Answers(q, "thrown") /\ log' = log
  BY <1>1, <1>3, AnswerKeepsLog DEF CallsTyped, Results
<1> QED  BY <1>2, <1>3 DEF LogFailure, AnswerOfCatch

\* The steps of the handlers, and the catch block up to its event.
LEMMA HandlerKeepsLog ==
    ASSUME LogInv, NEW q \in Caller,
           ResultThrows(q) \/ WriteFile(q) \/ InsertArtifact(q) \/ InsertFails(q)
           \/ AuditArtifact(q) \/ Refused(q) \/ ReadFile(q)
           \/ BashStart(q) \/ DockerInfo(q) \/ EnsureImage(q) \/ BuildEnds(q)
           \/ RunInContainer(q) \/ RunLocally(q) \/ RunDirectly(q) \/ AskToSearch(q)
           \/ Search(q)
    PROVE  LogInv'
<1>1. pc[q] \in Inside /\ log' = log
  BY DEF ResultThrows, WriteFile, InsertArtifact, InsertFails, AuditArtifact, Refused,
         ReadFile, BashStart, DockerInfo, EnsureImage, BuildEnds,
         RunInContainer, RunLocally, RunDirectly, AskToSearch, Search, Running, Inside,
         Steps, callVars
<1>2. CASE WriteFile(q) \/ InsertArtifact(q) \/ BashStart(q) \/ DockerInfo(q)
           \/ EnsureImage(q) \/ BuildEnds(q) \/ AskToSearch(q) \/ ResultThrows(q)
  <2>1. result' = result /\ \E s \in Inside : pc' = [pc EXCEPT ![q] = s]
    BY <1>2 DEF WriteFile, InsertArtifact, BashStart, DockerInfo, EnsureImage, BuildEnds,
                AskToSearch, ResultThrows, Goto, Inside, Steps, callVars
  <2>2. PICK s \in Inside : pc' = [pc EXCEPT ![q] = s]
    BY <2>1
  <2> QED  BY <1>1, <2>1, <2>2, StaysInside
<1>3. CASE InsertFails(q) \/ AuditArtifact(q) \/ Refused(q) \/ ReadFile(q)
           \/ RunInContainer(q) \/ RunLocally(q) \/ RunDirectly(q)
           \/ Search(q)
  <2>1. \E r \in Results : Returns(q, r)
    BY <1>3 DEF InsertFails, InsertThrows, AuditArtifact, Refused, ReadFile,
                RunInContainer, RunLocally, RunDirectly, Search, Executed, Results
  <2>2. "result" \in Inside
    BY DEF Inside, Steps
  <2> QED  BY <1>1, <2>1, <2>2, StaysInside DEF Returns, Goto
<1> QED  BY <1>2, <1>3

(***************************************************************************)
(* The calls in the limiter's queue.                                       *)
(***************************************************************************)

\* A step of a call that does not wait, which leaves the queue alone.
LEMMA QueueUntouched ==
    ASSUME LogInv, LimiterInv, QueueInv, NEW q \in Caller, pc[q] # "wait",
           NEW s \in Steps, pc' = [pc EXCEPT ![q] = s], queue' = queue
    PROVE  QueueInv'
<1>1. ASSUME NEW i \in 1..Len(queue) PROVE pc'[queue[i]] = "wait"
  <2>1. queue[i] \in Caller /\ pc[queue[i]] = "wait"
    BY DEF LimiterInv, LimiterTypeOK, QueueInv
  <2> QED  BY <2>1 DEF LogInv, CallsTyped
<1> QED  BY <1>1 DEF QueueInv

LEMMA QueueCallStep ==
    ASSUME LogInv, LimiterInv, QueueInv, NEW q \in Caller, Call(q) \/ CallStep(q)
    PROVE  QueueInv'
<1>1. CASE AskToSearch(q) /\ AcquireLater(q)
  <2>1. /\ pc[q] = "run" /\ pc' = [pc EXCEPT ![q] = "wait"]
        /\ queue' = Append(queue, q)
    BY <1>1 DEF AskToSearch, Running, Goto, AcquireLater, AcquireNow
  <2>2. queue \in Seq(Caller) /\ pc \in [Caller -> Steps]
    BY DEF LimiterInv, LimiterTypeOK, LogInv, CallsTyped
  <2>3. \A i \in 1..Len(queue) : queue[i] # q /\ pc'[queue[i]] = "wait"
    BY <2>1, <2>2 DEF QueueInv
  <2>4. Len(queue') = Len(queue) + 1 /\ queue'[Len(queue) + 1] = q
    BY <2>1, <2>2
  <2>5. \A i \in 1..Len(queue) : queue'[i] = queue[i]
    BY <2>1, <2>2
  <2>6. pc'[q] = "wait"
    BY <2>1, <2>2
  <2>7. \A i \in 1..Len(queue') : i \in 1..Len(queue) \/ i = Len(queue) + 1
    BY <2>2, <2>4
  <2> QED  BY <2>2, <2>3, <2>4, <2>5, <2>6, <2>7 DEF QueueInv
<1>2. CASE ~ (AskToSearch(q) /\ AcquireLater(q))
  <2>1. queue' = queue /\ pc[q] # "wait"
    BY <1>2 DEF Call, CallStep, LogRequest, LogResult, ResultThrows, LogFailure, WriteFile,
         InsertArtifact, InsertFails, AuditArtifact, Refused, ReadFile,
         BashStart, DockerInfo, EnsureImage, BuildEnds, RunInContainer, RunLocally,
         RunDirectly, AskToSearch, Search, Running, AcquireNow, limiterVars
  <2>2. \E s \in Steps : pc' = [pc EXCEPT ![q] = s]
    BY <1>2 DEF Call, CallStep, LogRequest, LogResult, ResultThrows, LogFailure, WriteFile,
         InsertArtifact, InsertFails, InsertThrows, AuditArtifact, Refused, ReadFile,
         BashStart, DockerInfo, EnsureImage, BuildEnds, RunInContainer,
         RunLocally, RunDirectly, Executed, AskToSearch, Search, Goto, Returns, Answers, Steps
  <2> QED  BY <2>1, <2>2, QueueUntouched
<1> QED  BY <1>1, <1>2

LEMMA QueueGrant ==
    ASSUME LogInv, LimiterInv, QueueInv, GrantSearch
    PROVE  /\ QueueInv'
           /\ Head(queue) \in Caller
           /\ pc[Head(queue)] = "wait"
<1>1. queue \in Seq(Caller) /\ queue # << >> /\ pc \in [Caller -> Steps]
  BY DEF GrantSearch, Grant, LimiterInv, LimiterTypeOK, LogInv, CallsTyped
<1>2. 1 \in 1..Len(queue) /\ Head(queue) = queue[1] /\ queue[1] \in Caller
  BY <1>1
<1>3. pc[Head(queue)] = "wait"
  BY <1>2 DEF QueueInv
<1>4. queue' = Tail(queue) /\ pc' = [pc EXCEPT ![queue[1]] = "search"]
  BY <1>2 DEF GrantSearch, Grant, Goto
<1>5. \A i \in 1..Len(queue') :
          i + 1 \in 1..Len(queue) /\ queue'[i] = queue[i + 1] /\ queue[i + 1] \in Caller
  BY <1>1, <1>4
<1>6. ASSUME NEW i \in 1..Len(queue') PROVE pc'[queue'[i]] = "wait"
  <2>1. queue[i + 1] # queue[1] /\ pc[queue[i + 1]] = "wait"
    BY <1>2, <1>5 DEF QueueInv
  <2> QED  BY <1>1, <1>4, <1>5, <2>1
<1>7. ASSUME NEW i \in 1..Len(queue'), NEW j \in 1..Len(queue'), j # i
      PROVE  queue'[j] # queue'[i]
  <2>1. j + 1 # i + 1
    BY <1>7
  <2> QED  BY <1>5, <2>1 DEF QueueInv
<1> QED  BY <1>2, <1>3, <1>6, <1>7 DEF QueueInv

-----------------------------------------------------------------------------
LEMMA RuntimeInitial == ToolsInit => RuntimeInv
<1> SUFFICES ASSUME ToolsInit PROVE RuntimeInv
  OBVIOUS
<1>1. LimiterInv
  BY LimiterInitial DEF ToolsInit
<1>2. QueueInv
  BY DEF ToolsInit, LimiterInit, QueueInv
<1>3. << >> \in Seq({"request", "ok", "failed"})
  OBVIOUS
<1>4. LogInv
  BY <1>3 DEF ToolsInit, LogInv, CallsTyped, CallLogged, Inside, Steps, Results
<1> QED  BY <1>1, <1>2, <1>4 DEF RuntimeInv

LEMMA RuntimeStep == RuntimeInv /\ [ToolsNext]_toolVars => RuntimeInv'
<1> SUFFICES ASSUME RuntimeInv, [ToolsNext]_toolVars PROVE RuntimeInv'
  OBVIOUS
<1>0. LimiterInv' /\ LogInv /\ LimiterInv /\ QueueInv
  BY ToolStepLimiter, LimiterStep DEF RuntimeInv
<1>1. CASE UNCHANGED <<pc, result, log, queue>>
  BY <1>0, <1>1 DEF RuntimeInv, LogInv, CallsTyped, CallLogged, QueueInv
<1>2. ASSUME NEW q \in Caller, Call(q) \/ CallStep(q) PROVE RuntimeInv'
  <2>1. LogInv'
    BY <1>0, <1>2, CallKeepsLog, LogRequestKeepsLog, LogResultKeepsLog,
       LogFailureKeepsLog, HandlerKeepsLog DEF CallStep
  <2> QED  BY <1>0, <1>2, <2>1, QueueCallStep DEF RuntimeInv
<1>3. CASE GrantSearch
  <2>1. pc' = [pc EXCEPT ![Head(queue)] = "search"] /\ result' = result /\ log' = log
    BY <1>3 DEF GrantSearch, Goto, callVars
  <2>2. "wait" \in Inside /\ "search" \in Inside
    BY DEF Inside, Steps
  <2>3. LogInv'
    BY <1>0, <1>3, <2>1, <2>2, QueueGrant, StaysInside
  <2> QED  BY <1>0, <1>3, <2>3, QueueGrant DEF RuntimeInv
<1>4. CASE Tick \/ DeleteRead \/ DeleteFiles \/ DeleteRows
  BY <1>1, <1>4 DEF Tick, TimePasses, DeleteRead, DeleteFiles, DeleteRows, callVars,
                    limiterVars
<1>5. ASSUME NEW q \in Caller, CallUnknown(q) PROVE RuntimeInv'
  <2>1. QueueInv'
    BY <1>0, <1>5 DEF CallUnknown, QueueInv, limiterVars
  <2> QED  BY <1>0, <1>5, <2>1, UnknownKeepsLog DEF RuntimeInv
<1> QED  BY <1>1, <1>2, <1>3, <1>4, <1>5 DEF ToolsNext, toolVars, callVars, limiterVars

\* Whatever fails, a call of a tool that exists, if it answers, has logged its request and
\* then a result that says what its caller was told, also with calls of unknown tools
\* beside it or before it.
THEOREM AnswersAreLogged == ToolsSpec => []AnswersLogged
<1>1. RuntimeInv => AnswersLogged
  BY DEF RuntimeInv, LogInv, CallLogged, AnswersLogged, Told
<1> QED  BY <1>1, RuntimeInitial, RuntimeStep, PTL DEF ToolsSpec

-----------------------------------------------------------------------------
(***************************************************************************)
(* The artifact store.                                                     *)
(***************************************************************************)

\* A step of a call under way that neither stores an artifact nor goes on storing one.
LEMMA StoreUntouched ==
    ASSUME StoreInv, CallsTyped, NEW q \in Caller, pc[q] # "none",
           NEW s \in Steps \ Storing, pc' = [pc EXCEPT ![q] = s],
           artifact' = artifact \/ artifact' = [artifact EXCEPT ![q] = NoArtifact],
           UNCHANGED storeVars
    PROVE  StoreInv'
<1>1. StoreTypeOK' /\ StoredArtifactsKept'
  BY DEF StoreInv, StoreTypeOK, StoredArtifactsKept, storeVars
<1>2. DeletionOverlaps'
  BY DEF StoreInv, DeletionOverlaps, CallsTyped, storeVars
<1>3. ASSUME NEW p \in Caller PROVE WrittenSoFar(p)'
  <2>1. CASE p = q
    BY <2>1 DEF WrittenSoFar, CallsTyped
  <2>2. CASE p # q
    <3>1. pc'[p] = pc[p] /\ artifact'[p] = artifact[p]
      BY <2>2 DEF CallsTyped, StoreInv, StoreTypeOK
    <3> QED  BY <3>1 DEF StoreInv, WrittenSoFar, storeVars
  <2> QED  BY <2>1, <2>2
<1> QED  BY <1>1, <1>2, <1>3 DEF StoreInv

\* Other calls have written what they had written if nothing is removed.
LEMMA OthersWritten ==
    ASSUME StoreInv, NEW q \in Caller, NEW p \in Caller, p # q,
           pc'[p] = pc[p], artifact'[p] = artifact[p],
           disk \subseteq disk', rows \subseteq rows', overlapped \ {q} \subseteq overlapped'
    PROVE  WrittenSoFar(p)'
BY DEF StoreInv, WrittenSoFar

LEMMA CallKeepsStore ==
    ASSUME StoreInv, CallsTyped, NEW q \in Caller, Call(q) PROVE StoreInv'
<1>1. /\ pc[q] = "none" /\ pc' = [pc EXCEPT ![q] = "request"]
      /\ overlapped' = IF deletePc = "none" THEN overlapped \ {q} ELSE overlapped \cup {q}
      /\ UNCHANGED <<disk, rows, deletePc, stored, artifact>>
  BY DEF Call, Goto
<1>2. StoreTypeOK' /\ StoredArtifactsKept'
  BY <1>1 DEF StoreInv, StoreTypeOK, StoredArtifactsKept
<1>3. DeletionOverlaps'
  BY <1>1 DEF StoreInv, DeletionOverlaps, CallsTyped
<1>4. ASSUME NEW p \in Caller PROVE WrittenSoFar(p)'
  <2>1. CASE p = q
    BY <1>1, <2>1 DEF WrittenSoFar, CallsTyped, Storing
  <2>2. CASE p # q
    BY <1>1, <2>2, OthersWritten DEF CallsTyped
  <2> QED  BY <2>1, <2>2
<1> QED  BY <1>2, <1>3, <1>4 DEF StoreInv

LEMMA WriteKeepsStore ==
    ASSUME StoreInv, CallsTyped, NEW q \in Caller, WriteFile(q) PROVE StoreInv'
<1>1. PICK a \in Artifact : /\ artifact' = [artifact EXCEPT ![q] = a]
                            /\ disk' = disk \cup {a}
  BY DEF WriteFile
<1>2. /\ pc[q] = "run" /\ pc' = [pc EXCEPT ![q] = "insert"]
      /\ UNCHANGED <<rows, deletePc, overlapped, stored>>
  BY DEF WriteFile, Running, Goto
<1>3. StoreTypeOK' /\ StoredArtifactsKept'
  BY <1>1, <1>2 DEF StoreInv, StoreTypeOK, StoredArtifactsKept
<1>4. DeletionOverlaps'
  BY <1>2 DEF StoreInv, DeletionOverlaps, CallsTyped
<1>5. ASSUME NEW p \in Caller PROVE WrittenSoFar(p)'
  <2>1. CASE p = q
    <3>1. artifact'[p] = a /\ pc'[p] = "insert"
      BY <1>1, <1>2, <2>1 DEF CallsTyped, StoreInv, StoreTypeOK
    <3> QED  BY <1>1, <3>1 DEF WrittenSoFar
  <2>2. CASE p # q
    <3>1. pc'[p] = pc[p] /\ artifact'[p] = artifact[p]
      BY <1>1, <1>2, <2>2 DEF CallsTyped, StoreInv, StoreTypeOK
    <3> QED  BY <1>1, <1>2, <2>2, <3>1, OthersWritten
  <2> QED  BY <2>1, <2>2
<1> QED  BY <1>3, <1>4, <1>5 DEF StoreInv

LEMMA InsertKeepsStore ==
    ASSUME StoreInv, CallsTyped, NEW q \in Caller, InsertArtifact(q) PROVE StoreInv'
<1>1. /\ pc[q] = "insert" /\ pc' = [pc EXCEPT ![q] = "artifact_audit"]
      /\ rows' = rows \cup {artifact[q]}
      /\ UNCHANGED <<disk, deletePc, overlapped, stored, artifact>>
  BY DEF InsertArtifact, Goto, callVars
<1>2. artifact[q] \in Artifact /\ (q \in overlapped \/ artifact[q] \in disk)
  BY <1>1 DEF StoreInv, WrittenSoFar, Storing
<1>3. StoreTypeOK' /\ StoredArtifactsKept'
  BY <1>1, <1>2 DEF StoreInv, StoreTypeOK, StoredArtifactsKept
<1>4. DeletionOverlaps'
  BY <1>1 DEF StoreInv, DeletionOverlaps, CallsTyped
<1>5. ASSUME NEW p \in Caller PROVE WrittenSoFar(p)'
  <2>1. CASE p = q
    BY <1>1, <1>2, <2>1 DEF WrittenSoFar
  <2>2. CASE p # q
    BY <1>1, <2>2, OthersWritten DEF CallsTyped
  <2> QED  BY <2>1, <2>2
<1> QED  BY <1>3, <1>4, <1>5 DEF StoreInv

LEMMA AuditKeepsStore ==
    ASSUME StoreInv, CallsTyped, NEW q \in Caller, AuditArtifact(q) PROVE StoreInv'
<1>1. /\ pc[q] = "artifact_audit" /\ pc' = [pc EXCEPT ![q] = "result"]
      /\ UNCHANGED <<disk, rows, deletePc, overlapped, artifact>>
  BY DEF AuditArtifact, Goto, Returns
<1>2. CASE q \in overlapped \/ stored' = stored
  <2>1. UNCHANGED storeVars
    BY <1>1, <1>2 DEF AuditArtifact, storeVars
  <2> QED  BY <1>1, <2>1, StoreUntouched DEF Steps, Storing
<1>3. CASE q \notin overlapped /\ stored' = stored \cup {artifact[q]}
  <2>1. artifact[q] \in Artifact /\ artifact[q] \in disk /\ artifact[q] \in rows
    BY <1>1, <1>3 DEF StoreInv, WrittenSoFar, Storing
  <2>2. StoreTypeOK' /\ StoredArtifactsKept'
    BY <1>1, <1>3, <2>1 DEF StoreInv, StoreTypeOK, StoredArtifactsKept
  <2>3. DeletionOverlaps'
    BY <1>1, <1>3 DEF StoreInv, DeletionOverlaps
  <2>4. ASSUME NEW p \in Caller PROVE WrittenSoFar(p)'
    BY <1>1, OthersWritten DEF CallsTyped, WrittenSoFar, Storing
  <2> QED  BY <2>2, <2>3, <2>4 DEF StoreInv
<1> QED  BY <1>2, <1>3 DEF AuditArtifact

LEMMA DeletionKeepsStore ==
    ASSUME StoreInv, DeleteRead \/ DeleteFiles \/ DeleteRows PROVE StoreInv'
<1>1. UNCHANGED <<pc, artifact>>
  BY DEF DeleteRead, DeleteFiles, DeleteRows, callVars
<1>2. CASE DeleteRead
  <2>1. /\ overlapped' = {q \in Caller : pc[q] # "none"} /\ stored' = {}
        /\ deletePc' = "files" /\ UNCHANGED <<disk, rows>>
    BY <1>2 DEF DeleteRead
  <2>2. StoreTypeOK' /\ StoredArtifactsKept' /\ DeletionOverlaps'
    BY <1>1, <2>1 DEF StoreInv, StoreTypeOK, StoredArtifactsKept, DeletionOverlaps
  <2>3. \A q \in Caller : WrittenSoFar(q)'
    BY <1>1, <2>1 DEF StoreInv, WrittenSoFar, Storing
  <2> QED  BY <2>2, <2>3 DEF StoreInv
<1>3. CASE DeleteFiles \/ DeleteRows
  <2>1. /\ deletePc # "none" /\ deletePc' \in {"none", "rows"}
        /\ disk' \subseteq disk /\ rows' \subseteq rows
        /\ UNCHANGED <<overlapped, stored>>
    BY <1>3 DEF DeleteFiles, DeleteRows
  <2>2. stored = {} /\ \A q \in Caller : pc[q] # "none" => q \in overlapped
    BY <2>1 DEF StoreInv, DeletionOverlaps
  <2>3. StoreTypeOK' /\ StoredArtifactsKept' /\ DeletionOverlaps'
    BY <1>1, <2>1, <2>2 DEF StoreInv, StoreTypeOK, StoredArtifactsKept, DeletionOverlaps
  <2>4. \A q \in Caller : WrittenSoFar(q)'
    BY <1>1, <2>1, <2>2 DEF StoreInv, WrittenSoFar, Storing
  <2> QED  BY <2>3, <2>4 DEF StoreInv
<1> QED  BY <1>2, <1>3

\* The steps of a call that touch neither disk, rows nor what it is storing.
LEMMA ElsewhereKeepsStore ==
    ASSUME StoreInv, CallsTyped, NEW q \in Caller,
           LogRequest(q) \/ LogResult(q) \/ ResultThrows(q) \/ LogFailure(q)
           \/ InsertFails(q) \/ Refused(q) \/ ReadFile(q)
           \/ BashStart(q) \/ DockerInfo(q) \/ EnsureImage(q) \/ BuildEnds(q)
           \/ RunInContainer(q) \/ RunLocally(q) \/ RunDirectly(q) \/ AskToSearch(q)
           \/ Search(q)
    PROVE  StoreInv'
<1>1. pc[q] # "none" /\ UNCHANGED storeVars
  BY DEF LogRequest, LogResult, ResultThrows, LogFailure, InsertFails, Refused, ReadFile,
         BashStart, DockerInfo, EnsureImage, BuildEnds, RunInContainer,
         RunLocally, RunDirectly, AskToSearch, Search, Running
<1>2. artifact' = artifact \/ artifact' = [artifact EXCEPT ![q] = NoArtifact]
  BY DEF LogRequest, LogResult, ResultThrows, LogFailure, InsertFails, Refused, ReadFile,
         BashStart, DockerInfo, EnsureImage, BuildEnds, RunInContainer,
         RunLocally, RunDirectly, AskToSearch, Search, Answers, callVars
<1>3. \E s \in Steps \ Storing : pc' = [pc EXCEPT ![q] = s]
  BY DEF LogRequest, LogResult, ResultThrows, LogFailure, InsertFails, InsertThrows,
         Refused, ReadFile, BashStart, DockerInfo, EnsureImage, BuildEnds,
         RunInContainer, RunLocally, RunDirectly, Executed, AskToSearch, Search, Goto,
         Returns, Answers, Steps, Storing
<1> QED  BY <1>1, <1>2, <1>3, StoreUntouched

LEMMA StoreStep == RuntimeInv /\ StoreInv /\ [ToolsNext]_toolVars => StoreInv'
<1> SUFFICES ASSUME RuntimeInv, StoreInv, [ToolsNext]_toolVars PROVE StoreInv'
  OBVIOUS
<1>0. LogInv /\ LimiterInv /\ QueueInv /\ CallsTyped
  BY DEF RuntimeInv, LogInv
<1>1. CASE UNCHANGED <<pc, artifact, storeVars>>
  BY <1>1 DEF StoreInv, StoreTypeOK, StoredArtifactsKept, DeletionOverlaps, WrittenSoFar,
              storeVars
<1>2. ASSUME NEW q \in Caller, Call(q) \/ CallStep(q) PROVE StoreInv'
  BY <1>0, <1>2, CallKeepsStore, WriteKeepsStore, InsertKeepsStore, AuditKeepsStore,
     ElsewhereKeepsStore DEF CallStep
<1>3. CASE GrantSearch
  <2>1. Head(queue) \in Caller /\ pc[Head(queue)] = "wait"
    BY <1>0, <1>3, QueueGrant
  <2>2. /\ pc' = [pc EXCEPT ![Head(queue)] = "search"]
        /\ artifact' = artifact /\ UNCHANGED storeVars
    BY <1>3 DEF GrantSearch, Goto, callVars
  <2>3. "search" \in Steps \ Storing
    BY DEF Steps, Storing
  <2> QED  BY <1>0, <2>1, <2>2, <2>3, StoreUntouched
<1>4. CASE Tick
  BY <1>1, <1>4 DEF Tick, callVars
<1>5. ASSUME NEW q \in Caller, CallUnknown(q) PROVE StoreInv'
  BY <1>1, <1>5 DEF CallUnknown
<1> QED  BY <1>1, <1>2, <1>3, <1>4, <1>5, DeletionKeepsStore DEF ToolsNext, toolVars, callVars

-----------------------------------------------------------------------------
(***************************************************************************)
(* The workspaces, the sandbox and the arguments of the calls.             *)
(***************************************************************************)

LEMMA EmptiedTyped ==
    ASSUME files \in [Task -> SUBSET File], NEW q \in Caller, files' = Emptied(q)
    PROVE  files' \in [Task -> SUBSET File]
BY DEF Emptied

LEMMA CallKeepsSandbox ==
    ASSUME SandboxInv, NEW q \in Caller, Call(q) \/ CallStep(q) PROVE SandboxInv'
<1>1. CASE Call(q) \/ InsertArtifact(q) \/ InsertFails(q) \/ AuditArtifact(q)
           \/ Refused(q) \/ ReadFile(q) \/ BashStart(q)
           \/ AskToSearch(q) \/ Search(q)
  BY <1>1 DEF Call, InsertArtifact, InsertFails, AuditArtifact, Refused, ReadFile,
              BashStart, AskToSearch, Search, SandboxInv, dockerVars, callVars
<1>2. CASE LogRequest(q) \/ LogResult(q) \/ LogFailure(q)
  <2>1. exit' = exit \/ exit' = [exit EXCEPT ![q] = FALSE]
    BY <1>2 DEF LogRequest, LogResult, LogFailure, Answers
  <2>2. UNCHANGED <<dockerVars, files>>
    BY <1>2 DEF LogRequest, LogResult, LogFailure
  <2> QED  BY <2>1, <2>2 DEF SandboxInv, dockerVars
<1>3. CASE ResultThrows(q)
  BY <1>3, EmptiedTyped DEF ResultThrows, SandboxInv, dockerVars, callVars
<1>4. CASE WriteFile(q)
  <2>1. PICK f \in File : files' = [files EXCEPT ![about[q]] = @ \cup {f}]
    BY <1>4 DEF WriteFile
  <2>2. files' \in [Task -> SUBSET File]
    BY <2>1 DEF SandboxInv
  <2> QED  BY <1>4, <2>2 DEF WriteFile, SandboxInv, dockerVars
<1>5. CASE DockerInfo(q) \/ EnsureImage(q) \/ BuildEnds(q)
  <2>1. UNCHANGED <<exit, files>>
    BY <1>5 DEF DockerInfo, EnsureImage, BuildEnds, callVars
  <2>2. CASE DockerInfo(q)
    BY <2>1, <2>2 DEF DockerInfo, SandboxInv
  <2>3. CASE EnsureImage(q) \/ BuildEnds(q)
    <3>1. docker' = docker
      BY <2>3 DEF EnsureImage, BuildEnds
    <3>2. \/ image' = image /\ (imageBuilt' = imageBuilt \/ (imageBuilt' = TRUE /\ image))
          \/ image' = TRUE /\ imageBuilt' = TRUE
      BY <2>3 DEF EnsureImage, ImageFound, BuildEnds
    <3>3. buildDir' = buildDir \/ buildDir' = TRUE \/ buildDir' = FALSE
      BY <2>3 DEF EnsureImage, BuildEnds
    <3>4. buildDir' \in BOOLEAN
      BY <3>3 DEF SandboxInv
    <3>5. imageBuilt' \in BOOLEAN /\ image' \in BOOLEAN /\ (imageBuilt' => image')
      <4>1. (imageBuilt \in BOOLEAN) /\ (image \in BOOLEAN) /\ (imageBuilt => image)
        BY DEF SandboxInv
      <4>2. CASE image' = TRUE /\ imageBuilt' = TRUE
        BY <4>2
      <4>3. CASE image' = image /\ imageBuilt' = imageBuilt
        BY <4>1, <4>3
      <4>4. CASE (image' = image) /\ (imageBuilt' = TRUE) /\ image
        BY <4>1, <4>4
      <4> QED  BY <3>2, <4>2, <4>3, <4>4
    <3> QED  BY <2>1, <3>1, <3>4, <3>5 DEF SandboxInv
  <2> QED  BY <1>5, <2>2, <2>3
<1>6. CASE RunInContainer(q) \/ RunLocally(q) \/ RunDirectly(q)
  <2>1. \/ UNCHANGED <<exit, files>>
        \/ /\ \E kept \in SUBSET File : files' = [files EXCEPT ![about[q]] = kept]
           /\ \E zero \in BOOLEAN : exit' = [exit EXCEPT ![q] = zero]
    BY <1>6 DEF RunInContainer, RunLocally, RunDirectly, Executed
  <2>2. UNCHANGED dockerVars
    BY <1>6 DEF RunInContainer, RunLocally, RunDirectly
  <2> QED  BY <2>1, <2>2 DEF SandboxInv, dockerVars
<1> QED  BY <1>1, <1>2, <1>3, <1>4, <1>5, <1>6 DEF CallStep

LEMMA SandboxStep == SandboxInv /\ [ToolsNext]_toolVars => SandboxInv'
<1> SUFFICES ASSUME SandboxInv, [ToolsNext]_toolVars PROVE SandboxInv'
  OBVIOUS
<1>1. CASE UNCHANGED <<dockerVars, exit, files>>
  BY <1>1 DEF SandboxInv, dockerVars
<1>2. CASE GrantSearch \/ Tick \/ DeleteRead \/ DeleteFiles \/ DeleteRows
  BY <1>1, <1>2 DEF GrantSearch, Tick, DeleteRead, DeleteFiles, DeleteRows, callVars
<1>3. ASSUME NEW q \in Caller, CallUnknown(q) PROVE SandboxInv'
  BY <1>1, <1>3 DEF CallUnknown
<1> QED  BY <1>1, <1>2, <1>3, CallKeepsSandbox DEF ToolsNext, toolVars, callVars

LEMMA CallStepKeepsCalls ==
    ASSUME CallsInv, CallsTyped, NEW q \in Caller, CallStep(q) PROVE CallsInv'
<1>1. pc[q] # "none"
  BY DEF CallStep, LogRequest, LogResult, ResultThrows, LogFailure, WriteFile, InsertArtifact,
         InsertFails, AuditArtifact, Refused, ReadFile, BashStart, DockerInfo,
         EnsureImage, BuildEnds, RunInContainer, RunLocally, RunDirectly, AskToSearch, Search,
         Running
<1>2. \/ UNCHANGED <<tool, about>>
      \/ \E outcome \in Results : Answers(q, outcome)
  BY DEF CallStep, LogRequest, LogResult, ResultThrows, LogFailure, WriteFile, InsertArtifact,
         InsertFails, AuditArtifact, Refused, ReadFile, BashStart, DockerInfo,
         EnsureImage, BuildEnds, RunInContainer, RunLocally, RunDirectly, AskToSearch, Search,
         AnswerOfCatch, Results, callVars
<1>3. \E s \in Steps : pc' = [pc EXCEPT ![q] = s]
  BY DEF CallStep, LogRequest, LogResult, ResultThrows, LogFailure, WriteFile, InsertArtifact,
         InsertFails, InsertThrows, AuditArtifact, Refused, ReadFile,
         BashStart, DockerInfo, EnsureImage, BuildEnds, RunInContainer, RunLocally,
         RunDirectly, Executed, AskToSearch, Search, Goto, Returns, Answers, Steps
<1>4. CASE UNCHANGED <<tool, about>>
  BY <1>1, <1>3, <1>4 DEF CallsInv, CallsTyped
<1>5. CASE \E outcome \in Results : Answers(q, outcome)
  BY <1>5 DEF Answers, Goto, CallsInv, CallsTyped
<1> QED  BY <1>2, <1>4, <1>5

LEMMA CallsStep == RuntimeInv /\ CallsInv /\ [ToolsNext]_toolVars => CallsInv'
<1> SUFFICES ASSUME RuntimeInv, CallsInv, [ToolsNext]_toolVars PROVE CallsInv'
  OBVIOUS
<1>0. LogInv /\ LimiterInv /\ QueueInv /\ CallsTyped
  BY DEF RuntimeInv, LogInv
<1>1. CASE UNCHANGED <<pc, tool, about>>
  BY <1>1 DEF CallsInv
<1>2. ASSUME NEW q \in Caller, Call(q) PROVE CallsInv'
  <2>1. PICK name \in Tools, t \in Task : /\ tool' = [tool EXCEPT ![q] = name]
                                          /\ about' = [about EXCEPT ![q] = t]
    BY <1>2 DEF Call
  <2>2. pc' = [pc EXCEPT ![q] = "request"]
    BY <1>2 DEF Call, Goto
  <2> QED  BY <1>0, <2>1, <2>2 DEF CallsInv, CallsTyped
<1>3. CASE GrantSearch
  BY <1>0, <1>3, QueueGrant DEF GrantSearch, Goto, CallsInv, CallsTyped, callVars
<1>4. CASE Tick \/ DeleteRead \/ DeleteFiles \/ DeleteRows
  BY <1>1, <1>4 DEF Tick, DeleteRead, DeleteFiles, DeleteRows, callVars
<1>5. ASSUME NEW q \in Caller, CallUnknown(q) PROVE CallsInv'
  BY <1>1, <1>5 DEF CallUnknown
<1> QED  BY <1>0, <1>1, <1>2, <1>3, <1>4, <1>5, CallStepKeepsCalls DEF ToolsNext, toolVars, callVars

-----------------------------------------------------------------------------
LEMMA ToolsInitial == ToolsInit => ToolsInv
<1> SUFFICES ASSUME ToolsInit PROVE ToolsInv
  OBVIOUS
<1>1. RuntimeInv
  BY RuntimeInitial
<1>2. StoreInv
  BY DEF ToolsInit, StoreInv, StoreTypeOK, StoredArtifactsKept, DeletionOverlaps,
         WrittenSoFar, Storing
<1>3. SandboxInv
  BY DEF ToolsInit, SandboxInv
<1>4. CallsInv
  BY DEF ToolsInit, CallsInv
<1> QED  BY <1>1, <1>2, <1>3, <1>4 DEF ToolsInv

LEMMA ToolsStep == ToolsInv /\ [ToolsNext]_toolVars => ToolsInv'
BY RuntimeStep, StoreStep, SandboxStep, CallsStep DEF ToolsInv

\* Whatever overlaps and fails, the audit log, the limiter's queue, the artifact store, the
\* sandbox and the calls under way agree between two awaits.
THEOREM ToolsInvariance == ToolsSpec => []ToolsInv
BY ToolsInitial, ToolsStep, PTL DEF ToolsSpec

\* What a call stored while no deletion of the run's artifacts overlapped it has its file
\* and its row until the next deletion begins.
THEOREM StoredStays == ToolsSpec => []StoredArtifactsKept
<1>1. ToolsInv => StoredArtifactsKept
  BY DEF ToolsInv, StoreInv
<1> QED  BY <1>1, ToolsInvariance, PTL

\* The variables have their types, and an image believed built is one the daemon has.
THEOREM ToolsTyped == ToolsSpec => []ToolsTypeOK
<1>1. ToolsInv => ToolsTypeOK
  BY DEF ToolsInv, RuntimeInv, LogInv, CallsTyped, LimiterInv, StoreInv, StoreTypeOK,
         SandboxInv, CallsInv, ToolsTypeOK
<1> QED  BY <1>1, ToolsInvariance, PTL

\* A step of a call changes the workspace of no task but the call's, and moves the call.
LEMMA WorkspaceStep ==
    ASSUME ToolsInv, NEW q \in Caller, Call(q) \/ CallStep(q),
           NEW t \in Task, files'[t] # files[t]
    PROVE  about[q] = t /\ pc'[q] # pc[q]
<1>1. pc \in [Caller -> Steps] /\ files \in [Task -> SUBSET File]
  BY DEF ToolsInv, RuntimeInv, LogInv, CallsTyped, SandboxInv
<1>2. ResultThrows(q) \/ WriteFile(q) \/ RunInContainer(q) \/ RunLocally(q) \/ RunDirectly(q)
  BY DEF Call, CallStep, LogRequest, LogResult, LogFailure, InsertArtifact, InsertFails,
         AuditArtifact, Refused, ReadFile, BashStart, DockerInfo,
         EnsureImage, BuildEnds, AskToSearch, Search
<1>3. \E kept : files' = [files EXCEPT ![about[q]] = kept]
  BY <1>2 DEF ResultThrows, Emptied, WriteFile, RunInContainer, RunLocally, RunDirectly,
              Executed
<1>4. about[q] = t
  BY <1>1, <1>3
<1>5. pc'[q] # pc[q]
  BY <1>1, <1>2 DEF ResultThrows, WriteFile, RunInContainer, RunLocally, RunDirectly, Executed,
                    Returns, Running, Goto
<1> QED  BY <1>4, <1>5

\* No call, however it fails, touches the workspace of a task it is not about.
THEOREM TasksAreIsolated == ToolsSpec => TasksIsolated
<1> DEFINE Isolated == \A t \in Task : files'[t] # files[t] =>
                           \E q \in Caller : about[q] = t /\ pc'[q] # pc[q]
<1>1. ASSUME ToolsInv, [ToolsNext]_toolVars PROVE [Isolated]_toolVars
  <2>1. ASSUME NEW q \in Caller, Call(q) \/ CallStep(q) PROVE Isolated
    BY <1>1, <2>1, WorkspaceStep
  <2>2. CASE GrantSearch \/ Tick \/ DeleteRead \/ DeleteFiles \/ DeleteRows
    BY <2>2 DEF GrantSearch, Tick, DeleteRead, DeleteFiles, DeleteRows
  <2>3. ASSUME NEW q \in Caller, CallUnknown(q) PROVE Isolated
    BY <2>3 DEF CallUnknown
  <2> QED  BY <1>1, <2>1, <2>2, <2>3 DEF ToolsNext
<1> HIDE DEF Isolated
<1>2. ToolsInv /\ [ToolsNext]_toolVars => [Isolated]_toolVars
  BY <1>1
<1>3. ToolsSpec => [][Isolated]_toolVars
  BY <1>2, ToolsInvariance, PTL DEF ToolsSpec
<1> QED  BY <1>3 DEF Isolated, TasksIsolated

=============================================================================
