---------------------------- MODULE ToolRuntime ----------------------------
(***************************************************************************)
(* WorkerRuntime.executeTool (services/worker-runtime/src/index.ts) on the *)
(* tasks of one run, with its tools, the search limiter, the Docker        *)
(* sandbox (docker-sandbox.ts) and the artifact store                      *)
(* (services/artifact-store/src/index.ts).  Calls come from the execution  *)
(* worker, POST /tasks/:id/execute and the MCP server (mcp-server.ts), and *)
(* overlap; a step of one ends at an await, and file operations are        *)
(* synchronous.                                                            *)
(*                                                                         *)
(* A definition placed before the one it varies, and used by nothing, is a *)
(* plausible fault that a property must notice (README, "Faults").         *)
(***************************************************************************)
EXTENDS SearchRateLimiter, FiniteSets

CONSTANTS
    Task,
    NoTask,
    File,         \* the paths that calls write and read
    Artifact,     \* bound: the identifiers there are
    NoArtifact,
    Tools,        \* the tools that are called
    Faults        \* what databases, networks, Docker, operators and arguments may do

ASSUME ToolsAssumption ==
    Tools \subseteq {"file_write", "file_read", "bash_exec", "web_search"}
ASSUME NoneAssumption == NoTask \notin Task /\ NoArtifact \notin Artifact
ASSUME FaultsAssumption ==
    Faults \subseteq {"audit", "insert", "delete", "no_docker", "no_image", "direct",
                "unknown_tool"}

VARIABLES
    files,        \* files[t]: what is in the workspace of task t
    disk,         \* the artifacts in the storage directory of the run
    rows,         \* the rows of artifacts
    deletePc,     \* the next step of a DELETE /artifacts/run/:runId
    docker,       \* dockerAvailable: unknown, yes or no
    imageBuilt,
    image,        \* the daemon has the image
    buildDir,     \* the directory that holds the Dockerfile exists
    pc,           \* pc[q]: the next step of call q
    tool, about,  \* the tool and the task of call q
    artifact,     \* the artifact call q is storing
    result,       \* what the handler of call q has returned
    exit,         \* whether the command of call q has exited with code 0
    log,          \* the audit events of call q
    overlapped,   \* history: calls that a deletion of artifacts has overlapped
    stored        \* history: artifacts of calls not overlapped, since the last deletion

storeVars == <<disk, rows, deletePc, overlapped, stored>>
dockerVars == <<docker, imageBuilt, image, buildDir>>
callVars == <<tool, about, artifact, result, exit, log>>
toolVars == <<limiterVars, storeVars, dockerVars, callVars, files, pc>>

Steps == {"none", "request", "run", "insert", "artifact_audit", "info", "image",
          "build", "container", "local", "direct", "wait", "search", "result", "failure"}

\* "failed" has no result, only a message; "refused" has both; "unknown" is the answer to a
\* tool that does not exist.
Results == {"none", "ok", "failed", "refused", "thrown", "unknown"}

ToolsTypeOK ==
    /\ LimiterTypeOK
    /\ files \in [Task -> SUBSET File]
    /\ disk \subseteq Artifact /\ rows \subseteq Artifact
    /\ deletePc \in {"none", "files", "rows"}
    /\ docker \in {"unknown", "yes", "no"}
    /\ imageBuilt \in BOOLEAN /\ image \in BOOLEAN /\ buildDir \in BOOLEAN
    /\ imageBuilt => image
    /\ pc \in [Caller -> Steps]
    /\ tool \in [Caller -> Tools \cup {"none"}]
    /\ about \in [Caller -> Task \cup {NoTask}]
    /\ artifact \in [Caller -> Artifact \cup {NoArtifact}]
    /\ result \in [Caller -> Results]
    /\ exit \in [Caller -> BOOLEAN]
    /\ log \in [Caller -> Seq({"request", "ok", "failed"})]
    /\ overlapped \subseteq Caller /\ stored \subseteq Artifact

ToolsInit ==
    /\ LimiterInit
    /\ files = [t \in Task |-> {}]
    /\ disk = {} /\ rows = {} /\ deletePc = "none"
    /\ docker = "unknown" /\ imageBuilt = FALSE /\ image \in BOOLEAN /\ buildDir = FALSE
    /\ pc = [q \in Caller |-> "none"]
    /\ tool = [q \in Caller |-> "none"]
    /\ about = [q \in Caller |-> NoTask]
    /\ artifact = [q \in Caller |-> NoArtifact]
    /\ result = [q \in Caller |-> "none"]
    /\ exit = [q \in Caller |-> FALSE]
    /\ log = [q \in Caller |-> << >>]
    /\ overlapped = {} /\ stored = {}

-----------------------------------------------------------------------------
Goto(q, step) == pc' = [pc EXCEPT ![q] = step]
Returns(q, outcome) ==
    /\ Goto(q, "result")
    /\ result' = [result EXCEPT ![q] = outcome]
Logs(q, event) == log' = [log EXCEPT ![q] = Append(@, event)]
Answers(q, outcome) ==
    /\ Goto(q, "none")
    /\ result' = [result EXCEPT ![q] = outcome]
    /\ tool' = [tool EXCEPT ![q] = "none"]
    /\ about' = [about EXCEPT ![q] = NoTask]
    /\ artifact' = [artifact EXCEPT ![q] = NoArtifact]
    /\ exit' = [exit EXCEPT ![q] = FALSE]
Running(q, name) == pc[q] = "run" /\ tool[q] = name

(***************************************************************************)
(* executeTool: log the request (outside of the try block), run the        *)
(* handler, log the result.                                                *)
(***************************************************************************)
Call(q) ==
    /\ pc[q] = "none"
    /\ \E name \in Tools, t \in Task :
          /\ tool' = [tool EXCEPT ![q] = name]
          /\ about' = [about EXCEPT ![q] = t]
    /\ result' = [result EXCEPT ![q] = "none"]
    /\ log' = [log EXCEPT ![q] = << >>]
    /\ overlapped' = IF deletePc = "none" THEN overlapped \ {q} ELSE overlapped \cup {q}
    /\ Goto(q, "request")
    /\ UNCHANGED <<limiterVars, disk, rows, deletePc, stored, dockerVars, artifact, exit,
                   files>>

\* A tool that has no handler is answered before anything is logged.
CallUnknown(q) ==
    /\ "unknown_tool" \in Faults
    /\ pc[q] = "none"
    /\ result' = [result EXCEPT ![q] = "unknown"]
    /\ log' = [log EXCEPT ![q] = << >>]
    /\ UNCHANGED <<limiterVars, storeVars, dockerVars, tool, about, artifact, exit, files, pc>>

\* A handler returns before it begins: an argument is missing or refused.
Refused(q) ==
    /\ pc[q] = "run"
    /\ Returns(q, "failed")
    /\ UNCHANGED <<limiterVars, storeVars, dockerVars, tool, about, artifact, exit, log,
                   files>>

LogRequest(q) ==
    /\ pc[q] = "request"
    /\ \/ /\ Goto(q, "run")
          /\ Logs(q, "request")
          /\ UNCHANGED <<tool, about, artifact, result, exit>>
       \/ "audit" \in Faults /\ Answers(q, "thrown") /\ UNCHANGED log
    /\ UNCHANGED <<limiterVars, storeVars, dockerVars, files>>

\* JSON.stringify(undefined).slice throws, so a result without a "result" goes
\* the way of a failed insert.
LogResult(q) ==
    /\ pc[q] = "result"
    /\ result[q] \in {"ok", "refused"}
    /\ Answers(q, result[q])
    /\ Logs(q, IF result[q] = "ok" THEN "ok" ELSE "failed")
    /\ UNCHANGED <<limiterVars, storeVars, dockerVars, files>>

\* The catch block: cleanupTaskSandbox, then another event.
EmptiedRun(q) == [t \in Task |-> {}]
Emptied(q) == [files EXCEPT ![about[q]] = {}]

ResultThrows(q) ==
    /\ pc[q] = "result"
    /\ result[q] = "failed" \/ "audit" \in Faults
    /\ files' = Emptied(q)
    /\ Goto(q, "failure")
    /\ UNCHANGED <<limiterVars, storeVars, dockerVars, callVars>>

AnswerOfHandler(q) == result[q]
AnswerOfCatch(q) == "failed"

LogFailure(q) ==
    /\ pc[q] = "failure"
    /\ \/ Answers(q, AnswerOfCatch(q)) /\ Logs(q, "failed")
       \/ "audit" \in Faults /\ Answers(q, "thrown") /\ UNCHANGED log
    /\ UNCHANGED <<limiterVars, storeVars, dockerVars, files>>

-----------------------------------------------------------------------------
(***************************************************************************)
(* file_write and ArtifactStore.store: write the file and the artifact,    *)
(* insert the row, insert the event.  file_read looks into the workspace.  *)
(***************************************************************************)
WriteFile(q) ==
    /\ Running(q, "file_write")
    /\ \E f \in File : files' = [files EXCEPT ![about[q]] = @ \cup {f}]
    /\ \E a \in Artifact \ (disk \cup rows \cup {artifact[p] : p \in Caller}) :
          /\ artifact' = [artifact EXCEPT ![q] = a]
          /\ disk' = disk \cup {a}
    /\ Goto(q, "insert")
    /\ UNCHANGED <<limiterVars, rows, deletePc, overlapped, stored, dockerVars,
                   tool, about, result, exit, log>>

InsertArtifact(q) ==
    /\ pc[q] = "insert"
    /\ rows' = rows \cup {artifact[q]}
    /\ Goto(q, "artifact_audit")
    /\ UNCHANGED <<limiterVars, disk, deletePc, overlapped, stored, dockerVars, callVars,
                   files>>

\* A failed insert, of the row or of the event, is an error of file_write.
InsertIgnored(q) == Goto(q, "artifact_audit") /\ UNCHANGED result
InsertThrows(q) == Returns(q, "failed")

InsertFails(q) ==
    /\ pc[q] = "insert"
    /\ "insert" \in Faults
    /\ InsertThrows(q)
    /\ UNCHANGED <<limiterVars, storeVars, dockerVars, tool, about, artifact, exit, log,
                   files>>

AuditArtifact(q) ==
    /\ pc[q] = "artifact_audit"
    /\ \/ /\ Returns(q, "ok")
          /\ stored' = IF q \in overlapped THEN stored ELSE stored \cup {artifact[q]}
       \/ "audit" \in Faults /\ Returns(q, "failed") /\ UNCHANGED stored
    /\ UNCHANGED <<limiterVars, disk, rows, deletePc, overlapped, dockerVars,
                   tool, about, artifact, exit, log, files>>

ReadFile(q) ==
    /\ Running(q, "file_read")
    /\ \E f \in File : Returns(q, IF f \in files[about[q]] THEN "ok" ELSE "failed")
    /\ UNCHANGED <<limiterVars, storeVars, dockerVars, tool, about, artifact, exit, log,
                   files>>

(***************************************************************************)
(* deleteByRun: read the rows, remove files and directory, delete the rows.*)
(***************************************************************************)
DeleteRead ==
    /\ "delete" \in Faults
    /\ deletePc = "none"
    /\ deletePc' = "files"
    /\ overlapped' = {q \in Caller : pc[q] # "none"}
    /\ stored' = {}
    /\ UNCHANGED <<limiterVars, disk, rows, dockerVars, callVars, files, pc>>

DeleteFiles ==
    /\ deletePc = "files"
    /\ disk' = {}
    /\ deletePc' = "rows"
    /\ UNCHANGED <<limiterVars, rows, overlapped, stored, dockerVars, callVars, files, pc>>

DeleteRows ==
    /\ deletePc = "rows"
    /\ rows' = {}
    /\ deletePc' = "none"
    /\ UNCHANGED <<limiterVars, disk, overlapped, stored, dockerVars, callVars, files, pc>>

-----------------------------------------------------------------------------
(***************************************************************************)
(* bash_exec and DockerSandbox.execute: ask once whether Docker runs, find *)
(* or build the image, and run the command in a container, or else on the  *)
(* host.  Concurrent calls share what is known and the build directory.    *)
(***************************************************************************)
BashStart(q) ==
    /\ Running(q, "bash_exec")
    /\ \/ docker = "unknown" /\ Goto(q, "info")
       \/ docker = "yes" /\ Goto(q, "image")
       \/ docker = "no" /\ Goto(q, "local")
       \/ "direct" \in Faults /\ Goto(q, "direct")     \* useDocker: false
    /\ UNCHANGED <<limiterVars, storeVars, dockerVars, callVars, files>>

\* docker info, within five seconds.
DockerInfo(q) ==
    /\ pc[q] = "info"
    /\ \/ docker' = "yes" /\ Goto(q, "image")
       \/ "no_docker" \in Faults /\ docker' = "no" /\ Goto(q, "local")
    /\ UNCHANGED <<limiterVars, storeVars, imageBuilt, image, buildDir, callVars, files>>

ImageAssumed == TRUE
ImageFound == image

EnsureImage(q) ==
    /\ pc[q] = "image"
    /\ IF ImageFound
       THEN imageBuilt' = TRUE /\ Goto(q, "container") /\ UNCHANGED buildDir
       ELSE buildDir' = TRUE /\ Goto(q, "build") /\ UNCHANGED imageBuilt
    /\ UNCHANGED <<limiterVars, storeVars, docker, image, callVars, files>>

\* docker build ends; the finally block removes the directory, also when another
\* build still reads it.
BuildEnds(q) ==
    /\ pc[q] = "build"
    /\ \/ buildDir /\ image' = TRUE /\ imageBuilt' = TRUE /\ Goto(q, "container")
       \/ /\ ~ buildDir \/ "no_image" \in Faults
          /\ Goto(q, "local")
          /\ UNCHANGED <<image, imageBuilt>>
    /\ buildDir' = FALSE
    /\ UNCHANGED <<limiterVars, storeVars, docker, callVars, files>>

\* A command may add files to the workspace or remove some, whatever its exit code;
\* exitCode: code || (killed ? 137 : 1).
Executed(q, zero, outcome) ==
    /\ \E kept \in SUBSET File : files' = [files EXCEPT ![about[q]] = kept]
    /\ exit' = [exit EXCEPT ![q] = zero]
    /\ Returns(q, outcome)

RunInContainer(q) ==
    /\ pc[q] = "container"
    /\ \E zero \in BOOLEAN : Executed(q, zero, "refused")
    /\ UNCHANGED <<limiterVars, storeVars, dockerVars, tool, about, artifact, log>>

RunLocally(q) ==
    /\ pc[q] = "local"
    /\ \E zero \in BOOLEAN : Executed(q, zero, IF zero THEN "ok" ELSE "refused")
    /\ UNCHANGED <<limiterVars, storeVars, dockerVars, tool, about, artifact, log>>

\* Without the sandbox a command that exits with another code is a success as well, one
\* that times out is not, and one that cannot be started has no result.
RunDirectly(q) ==
    /\ pc[q] = "direct"
    /\ \/ \E zero \in BOOLEAN : Executed(q, zero, "ok")
       \/ Executed(q, FALSE, "refused")
       \/ Returns(q, "failed") /\ UNCHANGED <<exit, files>>
    /\ UNCHANGED <<limiterVars, storeVars, dockerVars, tool, about, artifact, log>>

-----------------------------------------------------------------------------
(***************************************************************************)
(* web_search: wait for permission, then ask the search engine.            *)
(***************************************************************************)
AskToSearch(q) ==
    /\ Running(q, "web_search")
    /\ \/ AcquireNow(q) /\ Goto(q, "search")
       \/ AcquireLater(q) /\ Goto(q, "wait")
    /\ UNCHANGED <<storeVars, dockerVars, callVars, files>>

GrantSearch ==
    /\ Grant
    /\ Goto(Head(queue), "search")
    /\ UNCHANGED <<storeVars, dockerVars, callVars, files>>

Search(q) ==
    /\ pc[q] = "search"
    /\ Returns(q, "ok") \/ Returns(q, "failed")
    /\ UNCHANGED <<limiterVars, storeVars, dockerVars, tool, about, artifact, exit, log,
                   files>>

Tick ==
    /\ TimePasses
    /\ UNCHANGED <<storeVars, dockerVars, callVars, files, pc>>

CallStep(q) ==
    \/ LogRequest(q) \/ Refused(q) \/ LogResult(q) \/ ResultThrows(q) \/ LogFailure(q)
    \/ WriteFile(q) \/ InsertArtifact(q) \/ InsertFails(q) \/ AuditArtifact(q)
    \/ ReadFile(q)
    \/ BashStart(q) \/ DockerInfo(q) \/ EnsureImage(q) \/ BuildEnds(q)
    \/ RunInContainer(q) \/ RunLocally(q) \/ RunDirectly(q)
    \/ AskToSearch(q) \/ Search(q)

ToolsNext ==
    \/ \E q \in Caller : Call(q) \/ CallUnknown(q) \/ CallStep(q)
    \/ GrantSearch
    \/ Tick
    \/ DeleteRead \/ DeleteFiles \/ DeleteRows

ToolsSpec == ToolsInit /\ [][ToolsNext]_toolVars

\* Queries and commands are answered or time out, timers fire, and time passes.
ToolsFairness ==
    /\ \A q \in Caller : WF_toolVars(CallStep(q))
    /\ WF_toolVars(GrantSearch)
    /\ WF_toolVars(Tick)

ToolsFairSpec == ToolsSpec /\ ToolsFairness

-----------------------------------------------------------------------------
(***************************************************************************)
(* Properties.                                                             *)
(***************************************************************************)

\* A call of a tool that exists, if it answers and does not throw, has left exactly two
\* audit events: its request, and a result that says what the caller was told ("Every tool
\* invocation is logged as an audit event with the tool name, arguments, and result";
\* the call of a tool that does not exist leaves none, whatever that sentence says).
AnswersLogged ==
    \A q \in Caller :
        pc[q] = "none" /\ result[q] \in {"ok", "failed", "refused"} =>
            log[q] = <<"request", IF result[q] = "ok" THEN "ok" ELSE "failed">>

\* An artifact that was stored while no deletion of the run's artifacts was under way
\* has its row and its file until the next one.
StoredArtifactsKept == stored \subseteq disk \cap rows

\* The workspace of a task changes only by a step of a call for that task: no failure
\* elsewhere in the run cleans it up.
TasksIsolated ==
    [][\A t \in Task : files'[t] # files[t] =>
          \E q \in Caller : about[q] = t /\ pc'[q] # pc[q]]_toolVars

\* Every call ends, whoever else searches, builds the image or fails.
CallsEnd == \A q \in Caller : pc[q] # "none" ~> pc[q] = "none"

\* bash_exec succeeds if the command exits with code 0 ("exitCode: 0" with success).
BashReportsExit ==
    \A q \in Caller : pc[q] = "result" /\ tool[q] = "bash_exec" /\ exit[q] => result[q] = "ok"

=============================================================================
