----------------------- MODULE TaskExecutionInvariant -----------------------
(***************************************************************************)
(* What is true of the executions of tasks after every step, and preserved *)
(* by the next: the invariant behind the properties of TaskExecution,      *)
(* checked by TLC here and proved in TaskExecutionProofs.                  *)
(***************************************************************************)
EXTENDS TaskExecution

-----------------------------------------------------------------------------
(***************************************************************************)
(* The states of the tasks, their approvals and their tools.               *)
(***************************************************************************)
ControlTypeOK ==
    /\ taskState \in [Task -> {"QUEUED", "RUNNING", "SUCCEEDED", "FAILED"}]
    /\ usage \in [Task -> Nat] /\ tokens \in [Task -> Nat]
    /\ role \in [Task -> (SUBSET Tool) \cup {NoRole}]
    /\ approval \in [Task -> {"none", "PENDING", "APPROVED", "REJECTED"}]
    /\ pc \in [Task -> Steps]
    /\ whitelist \in [Task -> SUBSET Tool]
    /\ granted \in [Task -> SUBSET Tool]
    /\ late \in [Task -> Nat]

Idle == {"none", "cooldown"}
Judged == {"loop", "whitelist", "run_tool", "approval"}

\* A task is RUNNING for as long as its execution is under way and does not wait; when it
\* waits, or nobody executes it, operators may move it.
RunsItsTask(t) ==
    /\ pc[t] \notin Idle \cup {"waiting"} => taskState[t] = "RUNNING"
    /\ pc[t] = "waiting" => taskState[t] # "SUCCEEDED"
    /\ pc[t] = "cooldown" => taskState[t] = "FAILED"

\* A pending approval is that of a RUNNING task whose execution is over or about to be.
Asks(t) ==
    approval[t] = "PENDING" => taskState[t] = "RUNNING" /\ pc[t] \in {"none", "waiting"}

\* All that the role allows now has been granted to the execution under way.
RoleGranted(t) == pc[t] \notin Idle => Allowed(role[t]) \subseteq granted[t]

\* A call that is being evaluated is the first of those still to be made.
CallsLeft(t) == pc[t] \in Judged \cup {"budget"} => calls[t] # << >>

\* A tool has run late only when the budget was used up, and then no further call of that
\* task is past the check of the budget.
Stopped(t) == late[t] # 0 => Spent >= Limit /\ pc[t] \notin Judged

ControlInv ==
    /\ ControlTypeOK
    /\ \A t \in Task : RunsItsTask(t) /\ Asks(t)
    /\ calls \in [Task -> Seq(Tool)] /\ \A t \in Task : CallsLeft(t)
    /\ \A t \in Task : RoleGranted(t)
    /\ ToolsGranted
    /\ BudgetStopsTools
    /\ \A t \in Task : Stopped(t)

-----------------------------------------------------------------------------
(***************************************************************************)
(* The request: its retries, and how far a streamed reply has been read.   *)
(***************************************************************************)
RequestTypeOK ==
    /\ dependsOn \in [Task -> SUBSET Task]
    /\ runState \in {"EXECUTING", "WAITING_APPROVAL", "PAUSED"}
    /\ retryCount \in [Task -> 0..MaxRetries]
    /\ adapter \in [Task -> Adapters \cup {NoAdapter}]
    /\ attempt \in [Task -> Nat]
    /\ body \in [Task -> Bodies \cup {NoBody}]
    /\ pos \in [Task -> Nat]

\* No reply has been read yet.
Unread == Idle \cup {"role", "context", "stream"}

Requested(t) ==
    /\ pc[t] = "cooldown" => retryCount[t] < MaxRetries
    /\ attempt[t] < adapter[t].attempts
    /\ pc[t] \in Idle => attempt[t] = 0
    /\ pos[t] <= Size(body[t])
    /\ pc[t] \in Unread => pos[t] = 0

RequestInv == RequestTypeOK /\ \A t \in Task : Requested(t)

-----------------------------------------------------------------------------
(***************************************************************************)
(* The text: what has been read, what is stored and what is handed on.     *)
(***************************************************************************)
TextTypeOK ==
    /\ output \in [Task -> Texts] /\ content \in [Task -> Texts]
    /\ told = [t \in Task |-> told[t]]
    /\ \A t \in Task : DOMAIN told[t] \subseteq dependsOn[t]

\* One reply as it was written, the end of one, or what became of tool calls.
WholeText(t, text) ==
    \/ text = TextWritten(body[t], adapter[t].streaming)
    \/ \E reply \in Replies : EndOf(text, ContentOf(adapter[t], reply))
    \/ text # << >> /\ \A n \in DOMAIN text : Kind(text, n) = "result"

\* The reply has been received.
Received == {"finish", "tools", "budget"} \cup Judged

\* Of a stream has been passed on what has been read of it, and nothing twice.
ReadSoFar(t) ==
    /\ pc[t] \in Unread => content[t] = << >>
    /\ pc[t] = "read" => content[t] = TextRead(body[t], adapter[t].streaming, 0, pos[t])
    /\ pc[t] \in Received => WholeText(t, content[t])

TextInv == TextTypeOK /\ OutputWhole /\ \A t \in Task : ReadSoFar(t)

\* What a task is told of is the output of one that has succeeded, and so stays.
ToldOfOutputs == \A t \in Task : \A d \in DOMAIN told[t] : taskState[d] = "SUCCEEDED"

\* Tagged thinking comes at most once in a text, and then first.
ThinksOnce(text) == \A n \in 2..Len(text) : Kind(text, n) # "think"

\* What models do: they think before they answer.
ThinkingComesFirst ==
    /\ \A reply \in Replies : \A n \in 2..Len(reply.text) : reply.text[n] # "think"
    /\ \A reply \in Bodies : \A n \in DOMAIN reply.lines, m \in DOMAIN reply.lines :
          m < n /\ reply.lines[n] = "think" => reply.lines[m] \notin ParagraphKinds

ThinkingInv ==
    /\ \A t \in Task : ThinksOnce(content[t]) /\ ThinksOnce(output[t])
    /\ ToldOfOutputs
    /\ HandedOn

\* States, approvals, grants, retries, positions and texts agree at every await: an
\* execution runs a RUNNING task, a late tool is the last one of its task, and what has
\* been received of a reply is what has been read of it, once.
ExecutionInv == ExecutionTypeOK /\ ControlInv /\ RequestInv /\ TextInv

=============================================================================
