------------------------------ MODULE LiveView ------------------------------
(***************************************************************************)
(* The dashboard's view of the runs: the store (apps/web/src/stores/       *)
(* useAppStore.ts) and the runs page, fed by answers to requests that are  *)
(* shared and throttled, by events, and by guesses after commands.  The    *)
(* workers move runs and tasks and broadcast it; the routes move them and  *)
(* broadcast nothing.                                                      *)
(*                                                                         *)
(* A run has one task here.  Text, providers, roles and toasts are left    *)
(* out.                                                                    *)
(*                                                                         *)
(* A definition placed before the one it varies, and used by nothing, is a *)
(* plausible fault that a property must notice (README, "Faults").         *)
(***************************************************************************)
EXTENDS EventSocket

CONSTANTS
    Run,
    NoRun,
    Commands,        \* what the user does: create, cancel, resume
    MaxSelections,   \* bounds: selections of a run,
    MaxCommands,     \* commands,
    MaxMoves,        \* steps of the workers and of others,
    MaxFailures      \* and requests that fail

ASSUME ViewAssumption ==
    /\ NoRun \notin Run
    /\ Commands \subseteq {"create", "cancel", "resume"}
    /\ {MaxSelections, MaxCommands, MaxMoves, MaxFailures} \subseteq Nat

\* A request is shared by all that ask for the same: the list of the runs, one run, and
\* the tasks of one run.
ListKey == [kind |-> "runs", run |-> NoRun]
RunKey(r) == [kind |-> "run", run |-> r]
TasksKey(r) == [kind |-> "tasks", run |-> r]
Key == {ListKey} \cup {RunKey(r) : r \in Run} \cup {TasksKey(r) : r \in Run}

VARIABLES
    runState,      \* runState[r]: in the database; "none" before it is created
    taskState,     \* taskState[r]: of the task of r
    runs,          \* runs[r]: in the store, "none" for a run that is not listed
    selectedRunId,
    selectedRun,   \* the run that was fetched last, and its state
    tasks,         \* the run whose tasks were fetched last, and the state of its task
    request,       \* request[k]: whether k is pending, and what will be answered
    recent,        \* the keys that were fetched within MIN_FETCH_INTERVAL
    command,       \* the command under way
    spent          \* counters of what is bounded

dbVars == <<runState, taskState>>
storeVars == <<runs, selectedRunId, selectedRun, tasks, request, recent>>
viewVars == <<dbVars, storeVars, command, spent, socketVars>>

RunStates == {"none", "DRAFT", "PLANNING", "EXECUTING", "PAUSED", "COMPLETED", "FAILED",
              "CANCELLED"}
TaskStates == {"none", "QUEUED", "RUNNING", "SUCCEEDED", "FAILED"}
Nothing == [run |-> NoRun, state |-> "none"]
NoCommand == [step |-> "none", name |-> "none", run |-> NoRun]
Unread == [r \in Run |-> "none"]
NotPending == [pending |-> FALSE, seen |-> Unread]

LiveTypeOK ==
    /\ SocketTypeOK
    /\ runState \in [Run -> RunStates] /\ taskState \in [Run -> TaskStates]
    /\ runs \in [Run -> RunStates]
    /\ selectedRunId \in Run \cup {NoRun}
    /\ selectedRun \in [run : Run \cup {NoRun}, state : RunStates]
    /\ tasks \in [run : Run \cup {NoRun}, state : TaskStates]
    /\ request \in [Key -> [pending : BOOLEAN, seen : [Run -> RunStates \cup TaskStates]]]
    /\ recent \subseteq Key
    /\ command \in [step : {"none", "sent", "done", "refused"},
                    name : Commands \cup {"none", "start"}, run : Run \cup {NoRun}]
    /\ spent \in [selections : 0..MaxSelections, commands : 0..MaxCommands,
                  moves : 0..MaxMoves, failures : 0..MaxFailures]

\* What the server reads for a request.
Seen(k) ==
    [r \in Run |-> IF k.kind = "runs" THEN runState[r]
                   ELSE IF k.run # r THEN "none"
                   ELSE IF k.kind = "run" THEN runState[r] ELSE taskState[r]]

Sent(k) == [pending |-> TRUE, seen |-> Seen(k)]

\* The page has been opened, at any time, and has asked for the list of the runs.
LiveInit ==
    /\ SocketInit
    /\ runState \in [Run -> {"none", "PLANNING", "EXECUTING", "PAUSED"}]
    /\ taskState \in [Run -> {"none", "QUEUED", "RUNNING"}]
    /\ \A r \in Run : taskState[r] = "none" <=> runState[r] \in {"none", "PLANNING"}
    /\ runs = [r \in Run |-> "none"]
    /\ selectedRunId = NoRun /\ selectedRun = Nothing /\ tasks = Nothing
    /\ request = [k \in Key |-> IF k = ListKey THEN Sent(k) ELSE NotPending]
    /\ recent = {ListKey}
    /\ command = NoCommand
    /\ spent = [selections |-> 0, commands |-> 0, moves |-> 0, failures |-> 0]

-----------------------------------------------------------------------------
(***************************************************************************)
(* throttledFetch: a key that is pending is shared; one that was fetched   *)
(* less than MIN_FETCH_INTERVAL ago is not fetched, unless forced.         *)
(***************************************************************************)
Fetched(keys, forced) == {k \in keys : ~ request[k].pending /\ (k \in forced \/ k \notin recent)}

Fetch(keys, forced) ==
    /\ request' = [k \in Key |-> IF k \in Fetched(keys, forced) THEN Sent(k) ELSE request[k]]
    /\ recent' = recent \cup Fetched(keys, forced)

IntervalPasses(k) ==
    /\ k \in recent
    /\ recent' = recent \ {k}
    /\ UNCHANGED <<dbVars, runs, selectedRunId, selectedRun, tasks, request, command, spent,
                   socketVars>>

\* The server reads at some time between the request and the answer: at once, or later.
ServerReads(k) ==
    /\ request[k].pending
    /\ request[k].seen # Seen(k)
    /\ request' = [request EXCEPT ![k] = Sent(k)]
    /\ UNCHANGED <<dbVars, runs, selectedRunId, selectedRun, tasks, recent, command, spent,
                   socketVars>>

\* The list is replaced.
ListedIfNew(seen) == [r \in Run |-> IF runs[r] = "none" THEN seen[r] ELSE runs[r]]
Listed(seen) == seen

\* The answer goes into the store, whichever run is selected by then.
Answered(k) ==
    /\ request[k].pending
    /\ request' = [request EXCEPT ![k] = NotPending]
    /\ LET seen == request[k].seen IN
       /\ runs' = IF k.kind = "runs" THEN Listed(seen) ELSE runs
       /\ selectedRun' = IF k.kind = "run" THEN [run |-> k.run, state |-> seen[k.run]]
                         ELSE selectedRun
       /\ tasks' = IF k.kind = "tasks" THEN [run |-> k.run, state |-> seen[k.run]] ELSE tasks
    /\ UNCHANGED <<dbVars, selectedRunId, recent, command, spent, socketVars>>

\* The finally block takes the request out of pendingRequests, also when it fails.
RequestFails(k) ==
    /\ request[k].pending
    /\ spent.failures < MaxFailures
    /\ spent' = [spent EXCEPT !.failures = @ + 1]
    /\ request' = [request EXCEPT ![k] = NotPending]
    /\ UNCHANGED <<dbVars, runs, selectedRunId, selectedRun, tasks, recent, command,
                   socketVars>>

(***************************************************************************)
(* The runs page: select a run, and poll while the socket is not open:     *)
(* the list every 30 seconds, the tasks of an active run every 5.          *)
(***************************************************************************)
Select(r) ==
    /\ runs[r] # "none"
    /\ spent.selections < MaxSelections
    /\ spent' = [spent EXCEPT !.selections = @ + 1]
    /\ selectedRunId' = r /\ selectedRun' = Nothing /\ tasks' = Nothing
    /\ Fetch({RunKey(r), TasksKey(r)}, {TasksKey(r)})
    /\ UNCHANGED <<dbVars, runs, command, socketVars>>

PollRuns ==
    /\ ~ wsConnected
    /\ Fetch({ListKey}, {})
    /\ UNCHANGED <<dbVars, runs, selectedRunId, selectedRun, tasks, command, spent,
                   socketVars>>

Active == selectedRun.state \in {"PLANNING", "EXECUTING"}

PollTasks ==
    /\ ~ wsConnected
    /\ selectedRunId # NoRun /\ Active
    /\ Fetch({TasksKey(selectedRunId)}, {})
    /\ UNCHANGED <<dbVars, runs, selectedRunId, selectedRun, tasks, command, spent,
                   socketVars>>

(***************************************************************************)
(* addEvent: the states the event tells of go into the store; the list, or *)
(* the tasks of the selected run when the task is not known, are fetched.  *)
(* TASKS_QUEUED is broadcast when the success of a task has queued others, *)
(* which a run of one task never does; RUN_CREATED and RUN_STARTED have a  *)
(* handler, but nothing broadcasts them.                                   *)
(***************************************************************************)
Known(r) == tasks.run = r /\ tasks.state # "none"
RunUpdated(r, state) ==
    /\ runs' = [runs EXCEPT ![r] = IF @ = "none" THEN @ ELSE state]
    /\ selectedRun' = IF selectedRun.run = r THEN [selectedRun EXCEPT !.state = state]
                      ELSE selectedRun

RunChanged(event) ==
    /\ event.type = "RUN_STATE_CHANGED"
    /\ RunUpdated(event.run, event.state)
    /\ Fetch({ListKey}, {})
    /\ UNCHANGED tasks

TaskChanged(event) ==
    /\ event.type \in {"TASK_STATE_CHANGED", "PROVIDER_CALL_STARTED"}
    /\ IF Known(event.run)
       THEN tasks' = [tasks EXCEPT !.state = event.state] /\ UNCHANGED <<request, recent>>
       ELSE /\ LET missing == {TasksKey(r) : r \in {selectedRunId} \ {NoRun}}
               IN  Fetch(missing, missing)
            /\ UNCHANGED tasks
    /\ UNCHANGED <<runs, selectedRun>>

\* Whatever becomes of the task, its view has it as SUCCEEDED.
CallCompleted(event) ==
    /\ event.type = "PROVIDER_CALL_COMPLETED"
    /\ tasks' = IF Known(event.run) THEN [tasks EXCEPT !.state = event.state] ELSE tasks
    /\ UNCHANGED <<runs, selectedRun, request, recent>>

AddEvent(s) ==
    /\ socket[s] = "open" /\ channel[s] # << >>
    /\ LET event == Head(channel[s]) IN
       /\ Receives(s, event)
       /\ RunChanged(event) \/ TaskChanged(event) \/ CallCompleted(event)
    /\ UNCHANGED <<dbVars, selectedRunId, command, spent, socket, wsRef, timer, orphans,
                   wsConnected, mounts, reachable, outages>>

(***************************************************************************)
(* Commands.  A POST whose answer is lost is sent again; an answer is      *)
(* followed by a guess of the new state.  A run is created, started and    *)
(* then selected.                                                          *)
(***************************************************************************)
Send(name, r) == command' = [step |-> "sent", name |-> name, run |-> r]

Order ==
    /\ command = NoCommand
    /\ spent.commands < MaxCommands
    /\ \/ "create" \in Commands /\ Send("create", NoRun)
       \/ /\ "cancel" \in Commands /\ selectedRunId # NoRun
          /\ selectedRun.state \notin {"none", "COMPLETED", "CANCELLED", "FAILED"}
          /\ Send("cancel", selectedRunId)
       \/ /\ "resume" \in Commands /\ selectedRunId # NoRun
          /\ selectedRun.state = "PAUSED"
          /\ Send("resume", selectedRunId)
    /\ spent' = [spent EXCEPT !.commands = @ + 1]
    /\ UNCHANGED <<dbVars, storeVars, socketVars>>

Moves(r, from, to) == runState[r] \in from /\ runState' = [runState EXCEPT ![r] = to]

\* What the routes make of a run in which state.
Effects(name) ==
    CASE name = "create" -> {<<"none", "DRAFT">>}
      [] name = "start"  -> {<<"DRAFT", "PLANNING">>}
      [] name = "cancel" -> (RunStates \ {"none", "COMPLETED", "CANCELLED"}) \X {"CANCELLED"}
      [] name = "resume" -> {<<"PAUSED", "EXECUTING">>, <<"FAILED", "PLANNING">>}

Addressed == IF command.name = "create" THEN Run ELSE {command.run}

ServerObeys ==
    /\ command.step = "sent"
    /\ \E r \in Addressed, effect \in Effects(command.name) :
          /\ Moves(r, {effect[1]}, effect[2])
          /\ command' = [command EXCEPT !.step = "done", !.run = r]
    /\ UNCHANGED <<taskState, storeVars, spent, socketVars>>

ServerRefuses ==
    /\ command.step = "sent"
    /\ \A r \in Addressed, effect \in Effects(command.name) : runState[r] # effect[1]
    /\ command' = NoCommand
    /\ UNCHANGED <<dbVars, storeVars, spent, socketVars>>

\* A network error: the request is sent once more.
AnswerLost ==
    /\ command.step = "done"
    /\ spent.failures < MaxFailures
    /\ spent' = [spent EXCEPT !.failures = @ + 1]
    /\ command' = [command EXCEPT !.step = "sent"]
    /\ UNCHANGED <<dbVars, storeVars, socketVars>>

Guess(name) ==
    IF name = "start" THEN "PLANNING" ELSE IF name = "cancel" THEN "CANCELLED" ELSE "EXECUTING"

Obeyed ==
    /\ command.step = "done"
    /\ LET r == command.run IN
       IF command.name = "create"
       THEN /\ Fetch({ListKey}, {ListKey})
            /\ Send("start", r)
            /\ UNCHANGED <<runs, selectedRunId, selectedRun, tasks>>
       ELSE /\ command' = NoCommand
            /\ IF command.name = "start"
               THEN /\ runs' = [runs EXCEPT ![r] = IF @ = "none" THEN @ ELSE "PLANNING"]
                    /\ selectedRunId' = r /\ selectedRun' = Nothing /\ tasks' = Nothing
                    /\ Fetch({RunKey(r), TasksKey(r)}, {TasksKey(r)})
               ELSE /\ RunUpdated(r, Guess(command.name))
                    /\ UNCHANGED <<selectedRunId, tasks, request, recent>>
    /\ UNCHANGED <<dbVars, spent, socketVars>>

(***************************************************************************)
(* The workers, who broadcast what they do to runs and tasks they run but  *)
(* not that they create them, and everybody else, who broadcasts nothing.  *)
(* The code broadcasts right after the change; here the channel delays it. *)
(***************************************************************************)
Event(type, r, state) == [type |-> type, run |-> r, state |-> state]

WorkersMoveRun(r) ==
    /\ \E to \in RunStates :
          /\ \/ Moves(r, {"PLANNING"}, to) /\ to = "EXECUTING"
             \/ Moves(r, {"EXECUTING"}, to) /\ to = "COMPLETED" /\ taskState[r] = "SUCCEEDED"
             \/ Moves(r, {"EXECUTING"}, to) /\ to = "FAILED" /\ taskState[r] = "FAILED"
          /\ Broadcast(Event("RUN_STATE_CHANGED", r, to))
    /\ taskState' = [taskState EXCEPT ![r] = IF @ = "none" THEN "QUEUED" ELSE @]

WorkersMoveTask(r) ==
    /\ runState[r] = "EXECUTING"
    /\ \E to \in TaskStates :
          /\ \/ taskState[r] = "QUEUED" /\ to = "RUNNING"
             \/ taskState[r] = "RUNNING" /\ to \in {"SUCCEEDED", "FAILED"}
          /\ taskState' = [taskState EXCEPT ![r] = to]
          /\ Broadcast(Event("TASK_STATE_CHANGED", r, to))
    /\ UNCHANGED runState

WorkersCall(r) ==
    /\ taskState[r] = "RUNNING"
    /\ \/ Broadcast(Event("PROVIDER_CALL_STARTED", r, "RUNNING"))
       \/ Broadcast(Event("PROVIDER_CALL_COMPLETED", r, "SUCCEEDED"))
    /\ UNCHANGED dbVars

OthersMove(r) ==
    /\ \/ Moves(r, {"EXECUTING"}, "PAUSED")
       \/ Moves(r, {"PLANNING", "EXECUTING", "PAUSED"}, "CANCELLED")
    /\ UNCHANGED <<taskState, channel>>

ServerMoves ==
    /\ spent.moves < MaxMoves
    /\ spent' = [spent EXCEPT !.moves = @ + 1]
    /\ \E r \in Run : WorkersMoveRun(r) \/ WorkersMoveTask(r) \/ WorkersCall(r) \/ OthersMove(r)
    /\ UNCHANGED <<storeVars, command, socket, wsRef, timer, orphans, wsConnected, mounts,
                   reachable, outages>>

SocketMoves ==
    /\ SocketNext
    /\ UNCHANGED <<dbVars, storeVars, command, spent>>

LiveNext ==
    \/ PollRuns \/ PollTasks
    \/ \E k \in Key : IntervalPasses(k) \/ ServerReads(k) \/ Answered(k) \/ RequestFails(k)
    \/ \E r \in Run : Select(r)
    \/ \E s \in Socket : AddEvent(s)
    \/ Order \/ ServerObeys \/ ServerRefuses \/ AnswerLost \/ Obeyed
    \/ ServerMoves
    \/ SocketMoves

LiveSpec == LiveInit /\ [][LiveNext]_viewVars

\* Timers fire, requests are answered or fail, and sockets open, deliver or close.
LiveFairness ==
    /\ WF_viewVars(PollRuns) /\ WF_viewVars(PollTasks)
    /\ \A k \in Key : WF_viewVars(IntervalPasses(k)) /\ WF_viewVars(Answered(k))
    /\ \A s \in Socket : WF_viewVars(AddEvent(s))
    /\ WF_viewVars(SocketStep /\ UNCHANGED <<dbVars, storeVars, command, spent>>)

LiveFairSpec == LiveSpec /\ LiveFairness

-----------------------------------------------------------------------------
(***************************************************************************)
(* Properties.                                                             *)
(***************************************************************************)

\* An answer, and an event, has the states of runs or those of tasks.
RequestsTyped ==
    \A k \in Key : request[k].seen \in [Run -> IF k.kind = "tasks" THEN TaskStates ELSE RunStates]

EventRows ==
    [type : {"RUN_STATE_CHANGED"}, run : Run, state : RunStates] \cup
    [type : {"TASK_STATE_CHANGED", "PROVIDER_CALL_STARTED", "PROVIDER_CALL_COMPLETED"},
     run : Run, state : TaskStates]

EventsTyped == channel \in [Socket -> Seq(EventRows)]

\* A command under way is about a run, unless it is to create one.
CommandsAddressed ==
    command.step \in {"sent", "done"} =>
        /\ command.name # "none"
        /\ command.run \in Run \/ (command.name = "create" /\ command.step = "sent")

\* The variables have their types, and connections do not multiply: however often sockets
\* break, close late or overlap, each run of the effect accounts for one at most.
LiveInv ==
    /\ LiveTypeOK
    /\ RequestsTyped
    /\ EventsTyped
    /\ CommandsAddressed
    /\ ConnectionsBounded

\* While the socket stays closed, polling makes the list right, and the tasks of the
\* selected run for as long as it is shown as active.
PollingCatchesUp ==
    /\ <>[](~ wsConnected) => <>[](runs = runState)
    /\ <>[](~ wsConnected /\ selectedRunId # NoRun /\ Active) =>
           <>[](\E r \in {selectedRunId} \cap Run : tasks = [run |-> r, state |-> taskState[r]])

\* "The dashboard updates in real time to show the completed status": with a socket
\* that stays open, a run that is COMPLETED is shown as such.
CompletedShown ==
    \A r \in Run :
        <>[](wsConnected /\ runs[r] # "none" /\ runState[r] = "COMPLETED") =>
            <>[](runs[r] = "COMPLETED")

=============================================================================
