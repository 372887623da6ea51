---------------------------- MODULE TaskExecution ----------------------------
(***************************************************************************)
(* What happens inside one execution of a task, which Workers has as its   *)
(* outcome: the call of the provider (apps/api/src/services.ts and the     *)
(* adapters of services/provider-registry), the tool calls it asks for,    *)
(* and the policy engine that decides on each of them                      *)
(* (services/policy-engine/src/index.ts).  Tasks of one run are executed   *)
(* at the same time and share the budget of the run; a step ends at an     *)
(* await.  The claiming of tasks, their dependencies and the end of the    *)
(* run are in Workers.                                                     *)
(*                                                                         *)
(* Tokens count in units of the 1000 that the budget check reserves for a  *)
(* running task, and stand for the cost as well, which is checked in the   *)
(* same way.  Of the messages sent to the provider only the outputs of     *)
(* earlier tasks are modelled.                                             *)
(*                                                                         *)
(* A definition placed before the one it varies, and used by nothing, is a *)
(* plausible fault that a property must notice (README, "Faults").         *)
(***************************************************************************)
EXTENDS ProviderStream, SequencesExt

CONSTANTS
    Task,
    Plans,         \* what the tasks may depend on: functions from tasks to sets of them
    Tool, HighRisk, BlockedActions,   \* actions, HIGH_RISK_ACTIONS, BLOCKED_ACTIONS
    SandboxMode,                      \* SANDBOX_MODE
    Whitelists,    \* Whitelists[t]: the whitelists that the role of t may be given
    Adapters,      \* the adapters that may be selected
    Bodies,        \* the bodies that a streamed reply may have
    Replies,       \* the replies that complete() may get
    BudgetLimit,   \* budget_limit.maxTokens
    DefaultLimit,  \* used when the limit is 0 or not a number
    MaxLoop,       \* budget_limit.maxLoopIterations, or 50 when that is 0 or not a number
    MaxRetries,    \* max_retries of a task
    Events         \* what operators and the database may do

NoRole == {"deleted"}

ASSUME TaskAssumption == IsFiniteSet(Task)
ASSUME PlansAssumption == Plans \subseteq [Task -> SUBSET Task]
ASSUME ActionsAssumption ==
    /\ HighRisk \subseteq Tool /\ BlockedActions \subseteq Tool
    /\ "deleted" \notin Tool /\ SandboxMode \in BOOLEAN
    /\ Whitelists \in [Task -> SUBSET SUBSET Tool]
ASSUME AdaptersAssumption == Adapters \subseteq AllAdapters
ASSUME BodiesAssumption == \A reply \in Bodies : IsBody(reply)
ASSUME RepliesAssumption == \A reply \in Replies : IsReply(reply, Tool)
ASSUME LimitsAssumption ==
    /\ BudgetLimit \in Nat /\ DefaultLimit \in Nat \ {0}
    /\ MaxLoop \in Nat \ {0} /\ MaxRetries \in Nat
ASSUME EventsAssumption ==
    Events \subseteq {"approve", "reject", "edit_role", "clear_role", "delete_role",
                      "serialization"}

VARIABLES
    dependsOn,
    runState, taskState, retryCount,
    usage,       \* usage[t]: token_usage
    output,      \* output[t]: output.response
    role,        \* role[t]: tool_whitelist of its role, or NoRole
    approval,    \* approval[t]: the state of its last approval
    pc,          \* pc[t]: the next step of its execution
    adapter,     \* adapter[t]: the adapter selected for it
    attempt,     \* attempt[t]: how often complete() has been refused
    body, pos,   \* the streamed reply, and how far it has been read
    told,        \* told[t]: the outputs it is told of, by their tasks
    content,     \* content[t]: what would be stored as its response
    tokens,      \* tokens[t]: tokenUsage
    calls,       \* calls[t]: the tool calls still to be made
    whitelist,   \* whitelist[t]: the tool_whitelist that its execution has read
    granted,     \* history: the tools its role has allowed since the execution began
    late         \* history: tools executed by it since the budget was used up

dbVars == <<dependsOn, runState, taskState, retryCount, usage, output, role, approval>>
replyVars == <<adapter, told, attempt, body, pos, content, tokens>>
toolVars == <<calls, whitelist, granted, late>>
executionVars == <<dbVars, pc, replyVars, toolVars>>

Steps == {"none", "role", "context", "stream", "read", "complete", "complete_tools", "tools",
          "budget", "loop", "whitelist", "run_tool", "approval", "waiting", "finish",
          "cooldown"}
NothingTold == << >>

NoBody == [lines |-> << >>, ended |-> TRUE]
NoAdapter == Adapter("none", "none", "none", "no_stream", 1)

ExecutionTypeOK ==
    /\ runState \in {"EXECUTING", "WAITING_APPROVAL", "PAUSED"}
    /\ taskState \in [Task -> {"QUEUED", "RUNNING", "SUCCEEDED", "FAILED"}]
    /\ retryCount \in [Task -> 0..MaxRetries]
    /\ usage \in [Task -> Nat] /\ tokens \in [Task -> Nat]
    /\ output \in [Task -> Texts] /\ content \in [Task -> Texts]
    /\ \A t \in Task : DOMAIN told[t] \subseteq dependsOn[t]
    /\ role \in [Task -> (SUBSET Tool) \cup {NoRole}]
    /\ approval \in [Task -> {"none", "PENDING", "APPROVED", "REJECTED"}]
    /\ pc \in [Task -> Steps]
    /\ adapter \in [Task -> Adapters \cup {NoAdapter}]
    /\ attempt \in [Task -> 0..1]
    /\ \A t \in Task : attempt[t] < adapter[t].attempts
    /\ body \in [Task -> Bodies \cup {NoBody}]
    /\ \A t \in Task : pos[t] \in 0..Size(body[t])
    /\ calls \in [Task -> Seq(Tool)]
    /\ whitelist \in [Task -> SUBSET Tool]
    /\ granted \in [Task -> SUBSET Tool]
    /\ late \in [Task -> Nat]

ExecutionInit ==
    /\ dependsOn \in Plans
    /\ runState = "EXECUTING"
    /\ taskState = [t \in Task |-> "QUEUED"]
    /\ retryCount = [t \in Task |-> 0]
    /\ usage = [t \in Task |-> 0]
    /\ output = [t \in Task |-> << >>]
    /\ role \in [Task -> SUBSET Tool] /\ \A t \in Task : role[t] \in Whitelists[t]
    /\ approval = [t \in Task |-> "none"]
    /\ pc = [t \in Task |-> "none"]
    /\ adapter = [t \in Task |-> NoAdapter]
    /\ attempt = [t \in Task |-> 0]
    /\ body = [t \in Task |-> NoBody]
    /\ pos = [t \in Task |-> 0]
    /\ told = [t \in Task |-> NothingTold]
    /\ content = [t \in Task |-> << >>]
    /\ tokens = [t \in Task |-> 0]
    /\ calls = [t \in Task |-> << >>]
    /\ whitelist = [t \in Task |-> {}]
    /\ granted = [t \in Task |-> {}]
    /\ late = [t \in Task |-> 0]

-----------------------------------------------------------------------------
Goto(t, step) == pc' = [pc EXCEPT ![t] = step]

\* The catch block: what a failed request or query throws, by the words of its message.
\* "refused" is the "fetch failed" of a connection; "other" also a query that fails.
Errors == {"refused", "timeout", "500", "503", "other"}
FailureType(error) ==
    IF error = "timeout" THEN "TIMEOUT"
    ELSE IF error \in {"refused", "500"} THEN "PROVIDER_ERROR" ELSE "INTERNAL_ERROR"

\* The local variables of an execution go out of scope; what the reply was is kept for
\* OutputWhole.
Return(t) ==
    /\ told' = [told EXCEPT ![t] = NothingTold]
    /\ attempt' = [attempt EXCEPT ![t] = 0]
    /\ pos' = [pos EXCEPT ![t] = 0]
    /\ content' = [content EXCEPT ![t] = << >>]
    /\ tokens' = [tokens EXCEPT ![t] = 0]
    /\ calls' = [calls EXCEPT ![t] = << >>]
    /\ whitelist' = [whitelist EXCEPT ![t] = {}]
    /\ granted' = [granted EXCEPT ![t] = {}]

\* failTask; INTERNAL_ERROR is not retried.
Throws(t, error) ==
    /\ taskState' = [taskState EXCEPT ![t] = "FAILED"]
    /\ Goto(t, IF FailureType(error) # "INTERNAL_ERROR" /\ retryCount[t] < MaxRetries
               THEN "cooldown" ELSE "none")
    /\ Return(t)
    /\ body' = [body EXCEPT ![t] = NoBody]
    /\ adapter' = [adapter EXCEPT ![t] = NoAdapter]
    /\ UNCHANGED <<dependsOn, runState, retryCount, usage, output, role, approval, late>>

Requeue(t) ==
    /\ pc[t] = "cooldown"
    /\ taskState' = [taskState EXCEPT ![t] = "QUEUED"]
    /\ retryCount' = [retryCount EXCEPT ![t] = @ + 1]
    /\ Goto(t, "none")
    /\ UNCHANGED <<dependsOn, runState, usage, output, role, approval, replyVars, toolVars>>

\* checkToolWhitelist: without a role, or with an empty whitelist, there is no restriction; a
\* whitelist with "*" is the set of all tools.
Allowed(tools) == IF tools \in {NoRole, {}} THEN Tool ELSE tools

(***************************************************************************)
(* An execution begins: the task is RUNNING, the router selects an adapter *)
(* and the role is read.  A role without tools has its reply streamed.     *)
(***************************************************************************)
Begin(t) ==
    /\ runState = "EXECUTING"
    /\ taskState[t] = "QUEUED" /\ pc[t] = "none"
    /\ \A d \in dependsOn[t] : taskState[d] = "SUCCEEDED"
    /\ taskState' = [taskState EXCEPT ![t] = "RUNNING"]
    /\ \E chosen \in Adapters : adapter' = [adapter EXCEPT ![t] = chosen]
    /\ body' = [body EXCEPT ![t] = NoBody]
    /\ granted' = [granted EXCEPT ![t] = Allowed(role[t])]
    /\ Goto(t, "role")
    /\ UNCHANGED <<dependsOn, runState, retryCount, usage, output, role, approval, told,
                   attempt, pos, content, tokens, calls, whitelist, late>>

FirstStep(t, tools) ==
    IF tools # {} THEN "complete_tools"
    ELSE IF adapter[t].streaming = "no_stream" THEN "complete" ELSE "stream"

ReadRole(t) ==
    /\ pc[t] = "role"
    /\ IF role[t] = NoRole THEN Throws(t, "other")
       ELSE /\ Goto(t, IF dependsOn[t] # {} THEN "context" ELSE FirstStep(t, role[t]))
            /\ whitelist' = [whitelist EXCEPT ![t] = role[t]]
            /\ UNCHANGED <<dbVars, replyVars, calls, granted, late>>

\* The outputs of the tasks it depends on that have succeeded, and still have.
ReadContext(t) ==
    /\ pc[t] = "context"
    /\ LET done == {d \in dependsOn[t] : taskState[d] = "SUCCEEDED"} IN
       told' = [told EXCEPT ![t] =
                   [d \in {e \in done : Usable(Handed(output[e]))} |-> Handed(output[d])]]
    /\ Goto(t, FirstStep(t, whitelist[t]))
    /\ UNCHANGED <<dbVars, adapter, attempt, body, pos, content, tokens, toolVars>>

(***************************************************************************)
(* stream(): the response begins, its body arrives in reads of any size,   *)
(* and it ends or breaks.  Whatever breaks it is followed by complete().   *)
(***************************************************************************)
StreamAnswers(t) ==
    /\ pc[t] = "stream"
    /\ IF adapter[t].streaming = "none"
       THEN /\ \E reply \in Replies :
                  content' = [content EXCEPT ![t] = ContentOf(adapter[t], reply)]
            /\ Goto(t, "finish")
            /\ UNCHANGED body
       ELSE /\ \E reply \in Bodies : body' = [body EXCEPT ![t] = reply]
            /\ Goto(t, "read")
            /\ UNCHANGED content
    /\ tokens' = [tokens EXCEPT ![t] = 1]
    /\ UNCHANGED <<dbVars, adapter, told, attempt, pos, toolVars>>

ReadStream(t) ==
    /\ pc[t] = "read"
    /\ \E end \in (pos[t] + 1)..Size(body[t]) :
          /\ pos' = [pos EXCEPT ![t] = end]
          /\ content' = [content EXCEPT ![t] =
                @ \o TextRead(body[t], adapter[t].streaming, Carried(pos[t]), end)]
    /\ UNCHANGED <<dbVars, pc, adapter, told, attempt, body, tokens, toolVars>>

StreamEnds(t) ==
    /\ pc[t] = "read"
    /\ pos[t] = Size(body[t])
    /\ Goto(t, "finish")
    /\ UNCHANGED <<dbVars, replyVars, toolVars>>

StreamBreaks(t) ==
    /\ pc[t] \in {"stream", "read"}
    /\ Goto(t, "complete")
    /\ UNCHANGED <<dbVars, replyVars, toolVars>>

(***************************************************************************)
(* complete(): one request, or with withRetry a second after a 503.  Its   *)
(* answer replaces what a stream may have left.  Thinking is taken out,    *)
(* but not after a stream.  With tools, the calls of the reply follow.     *)
(***************************************************************************)
Streamed(t) == pc[t] = "complete" /\ adapter[t].streaming # "no_stream"
Completed(t, reply) ==
    IF Streamed(t) THEN ContentOf(adapter[t], reply) ELSE OutputToStore(ContentOf(adapter[t], reply))

Complete(t) ==
    /\ pc[t] \in {"complete", "complete_tools"}
    /\ \E reply \in Replies :
          LET asked == IF pc[t] = "complete" THEN << >>
                       ELSE CallsOf(adapter[t], reply, whitelist[t])
          IN /\ content' = [content EXCEPT ![t] = Completed(t, reply)]
             /\ tokens' = [tokens EXCEPT ![t] = TokensOf(adapter[t], reply)]
             /\ calls' = [calls EXCEPT ![t] = asked]
             /\ Goto(t, IF asked = << >> THEN "finish" ELSE "tools")
    /\ UNCHANGED <<dbVars, adapter, told, attempt, body, pos, whitelist, granted, late>>

TriesOnceMore(t, error) == error = "503" /\ attempt[t] < adapter[t].attempts
TriesAgain(t, error) == error = "503" /\ attempt[t] + 1 < adapter[t].attempts

CompleteFails(t) ==
    /\ pc[t] \in {"complete", "complete_tools"}
    /\ \E error \in Errors :
          IF TriesAgain(t, error)
          THEN /\ attempt' = [attempt EXCEPT ![t] = @ + 1]
               /\ UNCHANGED <<dbVars, pc, adapter, told, body, pos, content, tokens, toolVars>>
          ELSE Throws(t, error)

(***************************************************************************)
(* The tool calls, one after another.  evaluateAction: a blocked action,   *)
(* the budget, the loop limit, the whitelist, and then SANDBOX_MODE or the *)
(* risk; each check has queries of its own.  A call that is denied is      *)
(* skipped; one that needs an approval ends the execution.                 *)
(***************************************************************************)
TokensUsed == UNION {{t} \X (1..usage[t]) : t \in {u \in Task : taskState[u] = "SUCCEEDED"}}
Spent == Cardinality(TokensUsed)
InProgress == {t \in Task : taskState[t] = "RUNNING"}
Limit == IF BudgetLimit = 0 THEN DefaultLimit ELSE BudgetLimit
WithinReservation == Cardinality(InProgress) < Limit
WithinBudget == Spent + Cardinality(InProgress) < Limit
Ended == {t \in Task : taskState[t] \in {"SUCCEEDED", "FAILED"}}

\* What became of a call is appended to fullContent, which is stored when the reply had
\* no text.
Noted(t) ==
    content' = [content EXCEPT ![t] =
                   IF \A n \in DOMAIN @ : Kind(@, n) = "result"
                   THEN Append(@, <<"result", Len(@) + 1>>) ELSE @]

DeniedAgain(t) == UNCHANGED <<calls, content>> /\ Goto(t, "tools")
Denied(t) == calls' = [calls EXCEPT ![t] = Tail(@)] /\ Noted(t) /\ Goto(t, "tools")

NextTool(t) ==
    /\ pc[t] = "tools"
    /\ IF calls[t] = << >> THEN Goto(t, "finish") /\ UNCHANGED <<calls, content>>
       ELSE IF Head(calls[t]) \in BlockedActions THEN Denied(t)
       ELSE Goto(t, "budget") /\ UNCHANGED <<calls, content>>
    /\ UNCHANGED <<dbVars, adapter, told, attempt, body, pos, tokens, whitelist, granted, late>>

CheckBudget(t) ==
    /\ pc[t] = "budget"
    /\ IF WithinBudget THEN Goto(t, "loop") /\ UNCHANGED <<calls, content>> ELSE Denied(t)
    /\ UNCHANGED <<dbVars, adapter, told, attempt, body, pos, tokens, whitelist, granted, late>>

\* The transaction is SERIALIZABLE, and nobody retries it.
CheckBudgetFails(t) ==
    /\ pc[t] = "budget"
    /\ "serialization" \in Events
    /\ Throws(t, "other")

CheckLoopLimit(t) ==
    /\ pc[t] = "loop"
    /\ IF Cardinality(Ended) < MaxLoop THEN Goto(t, "whitelist") /\ UNCHANGED <<calls, content>>
                                       ELSE Denied(t)
    /\ UNCHANGED <<dbVars, adapter, told, attempt, body, pos, tokens, whitelist, granted, late>>

InWhitelistAsked(t, tool) == tool \in Tool
InWhitelist(t, tool) == tool \in Allowed(role[t])

CheckWhitelist(t) ==
    /\ pc[t] = "whitelist"
    /\ LET tool == Head(calls[t]) IN
       IF ~ InWhitelist(t, tool) THEN Denied(t)
       ELSE /\ Goto(t, IF SandboxMode \/ tool \notin HighRisk THEN "run_tool" ELSE "approval")
            /\ UNCHANGED <<calls, content>>
    /\ UNCHANGED <<dbVars, adapter, told, attempt, body, pos, tokens, whitelist, granted, late>>

\* executeTool never throws but when the database does.
ExecuteTool(t) ==
    /\ pc[t] = "run_tool"
    /\ late' = [late EXCEPT ![t] = IF Spent >= Limit THEN @ + 1 ELSE @]
    /\ calls' = [calls EXCEPT ![t] = Tail(@)]
    /\ Noted(t)
    /\ Goto(t, "tools")
    /\ UNCHANGED <<dbVars, adapter, told, attempt, body, pos, tokens, whitelist, granted>>

\* createApproval, then the run waits and the execution is over.
CreateApproval(t) ==
    /\ pc[t] = "approval"
    /\ approval' = [approval EXCEPT ![t] = "PENDING"]
    /\ Goto(t, "waiting")
    /\ UNCHANGED <<dependsOn, runState, taskState, retryCount, usage, output, role, replyVars,
                   toolVars>>

WaitForApproval(t) ==
    /\ pc[t] = "waiting"
    /\ runState' = IF runState = "EXECUTING" THEN "WAITING_APPROVAL" ELSE runState
    /\ Goto(t, "none")
    /\ Return(t)
    /\ body' = [body EXCEPT ![t] = NoBody]
    /\ adapter' = [adapter EXCEPT ![t] = NoAdapter]
    /\ UNCHANGED <<dependsOn, taskState, retryCount, usage, output, role, approval, late>>

\* completeTask.  Nobody else moves a task whose execution does not wait.
Finish(t) ==
    /\ pc[t] = "finish"
    /\ taskState' = [taskState EXCEPT ![t] = "SUCCEEDED"]
    /\ output' = [output EXCEPT ![t] = content[t]]
    /\ usage' = [usage EXCEPT ![t] = tokens[t]]
    /\ Goto(t, "none")
    /\ Return(t)
    /\ UNCHANGED <<dependsOn, runState, retryCount, role, approval, adapter, body, late>>

(***************************************************************************)
(* Operators resolve approvals and edit or delete roles.                   *)
(***************************************************************************)
Approve(t) ==
    /\ "approve" \in Events
    /\ approval[t] = "PENDING"
    /\ approval' = [approval EXCEPT ![t] = "APPROVED"]
    /\ runState' = IF runState = "WAITING_APPROVAL" THEN "EXECUTING" ELSE runState
    /\ taskState' = [taskState EXCEPT ![t] = IF @ = "RUNNING" THEN "QUEUED" ELSE @]
    /\ UNCHANGED <<dependsOn, retryCount, usage, output, role, pc, replyVars, toolVars>>

Reject(t) ==
    /\ "reject" \in Events
    /\ approval[t] = "PENDING"
    /\ approval' = [approval EXCEPT ![t] = "REJECTED"]
    /\ runState' = IF runState = "WAITING_APPROVAL" THEN "PAUSED" ELSE runState
    /\ taskState' = [taskState EXCEPT ![t] = "FAILED"]
    /\ UNCHANGED <<dependsOn, retryCount, usage, output, role, pc, replyVars, toolVars>>

EditOf(new) ==
    IF new = NoRole THEN "delete_role"
    ELSE IF new = {} THEN "clear_role" ELSE "edit_role"

EditRole(t) ==
    /\ role[t] # NoRole
    /\ \E new \in (Whitelists[t] \cup {NoRole}) \ {role[t]} :
          /\ EditOf(new) \in Events
          /\ role' = [role EXCEPT ![t] = new]
          /\ granted' = [granted EXCEPT ![t] =
                IF pc[t] \in {"none", "cooldown"} THEN @ ELSE @ \cup Allowed(new)]
    /\ UNCHANGED <<dependsOn, runState, taskState, retryCount, usage, output, approval, pc, replyVars,
                   calls, whitelist, late>>

ExecutionStep(t) ==
    \/ ReadRole(t) \/ ReadContext(t)
    \/ StreamAnswers(t) \/ ReadStream(t) \/ StreamEnds(t) \/ StreamBreaks(t)
    \/ Complete(t) \/ CompleteFails(t)
    \/ NextTool(t) \/ CheckBudget(t) \/ CheckBudgetFails(t) \/ CheckLoopLimit(t)
    \/ CheckWhitelist(t) \/ ExecuteTool(t) \/ CreateApproval(t) \/ WaitForApproval(t)
    \/ Finish(t) \/ Requeue(t)

ExecutionNext ==
    \E t \in Task :
        Begin(t) \/ ExecutionStep(t) \/ Approve(t) \/ Reject(t) \/ EditRole(t)

ExecutionSpec == ExecutionInit /\ [][ExecutionNext]_executionVars

\* Requests and queries are answered or time out, and ticks keep firing.
ExecutionFairSpec ==
    /\ ExecutionSpec
    /\ \A t \in Task : WF_executionVars(ExecutionStep(t)) /\ WF_executionVars(Begin(t))

-----------------------------------------------------------------------------
(***************************************************************************)
(* Properties.                                                             *)
(***************************************************************************)

\* The response stored for a task is one reply as its provider wrote it, however the
\* network cut it up and whatever a broken stream had delivered before; without a stream,
\* the end of one, and for a reply without text what became of its tool calls.
EndOf(part, text) == IsSuffix(part, text) /\ (part = << >> => text = << >>)

OutputWhole ==
    \A t \in Task : taskState[t] = "SUCCEEDED" =>
        \/ output[t] = TextWritten(body[t], adapter[t].streaming)
        \/ \E reply \in Replies : EndOf(output[t], ContentOf(adapter[t], reply))
        \/ output[t] # << >> /\ \A n \in DOMAIN output[t] : Kind(output[t], n) = "result"

\* An agent is told of the end of what another has written, and not of its tagged
\* thinking.
HandedOn ==
    \A t \in Task : \A d \in DOMAIN told[t] :
        EndOf(told[t][d], Response(output[d])) /\ Kind(told[t][d], 1) # "think"

\* When the tokens used reach the limit, the evaluations that were under way may still
\* let their tool run, one in each task; after that nothing runs.
BudgetStopsTools == \A t \in Task : late[t] <= 1

\* No tool runs, and no operator is asked to approve one, that the task's role has not
\* allowed at any time since the execution began, though the provider may call any tool
\* and the role may be edited or deleted meanwhile.
ToolsGranted ==
    \A t \in Task : pc[t] \in {"run_tool", "approval"} => Head(calls[t]) \in granted[t]

\* Every execution comes to an end.
ExecutionsEnd == \A t \in Task : pc[t] # "none" ~> pc[t] = "none"

\* "Approve: ... The action proceeds.": a task whose only high-risk action has been
\* approved does not ask for its approval again.
ApprovedProceeds ==
    [][\A t \in Task : approval[t] = "APPROVED" => approval'[t] # "PENDING"]_executionVars

\* "Use actual output for downstream agents": what has been stored is what is handed on.
ToldTheOutput ==
    \A t \in Task : \A d \in DOMAIN told[t] : told[t][d] = Response(output[d])

=============================================================================
