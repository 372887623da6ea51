------------------------ MODULE ToolRuntimeInvariant ------------------------
(***************************************************************************)
(* What is true of the tool runtime after every step, and preserved by the *)
(* next: the invariant behind the properties of ToolRuntime, checked by    *)
(* TLC here and proved in ToolRuntimeProofs.                               *)
(***************************************************************************)
EXTENDS ToolRuntime

-----------------------------------------------------------------------------
(***************************************************************************)
(* The audit log: what a call has logged follows from where it is.         *)
(***************************************************************************)
Inside == Steps \ {"none", "request"}
Told(outcome) == IF outcome = "ok" THEN "ok" ELSE "failed"

CallLogged(q) ==
    /\ pc[q] = "request" => log[q] = << >>
    /\ pc[q] \in Inside => log[q] = <<"request">>
    /\ pc[q] = "none" /\ result[q] \in {"ok", "failed", "refused"} =>
          log[q] = <<"request", Told(result[q])>>

CallsTyped ==
    /\ pc \in [Caller -> Steps]
    /\ result \in [Caller -> Results]
    /\ log \in [Caller -> Seq({"request", "ok", "failed"})]

LogInv == CallsTyped /\ \A q \in Caller : CallLogged(q)

\* The calls in the limiter's queue wait there, each once.
QueueInv ==
    \A i \in 1..Len(queue) :
        /\ pc[queue[i]] = "wait"
        /\ \A j \in 1..Len(queue) : j # i => queue[j] # queue[i]

RuntimeInv == LogInv /\ LimiterInv /\ QueueInv

-----------------------------------------------------------------------------
(***************************************************************************)
(* The artifact store: what a call that no deletion overlaps has written   *)
(* so far is there, and a deletion overlaps every call under way.          *)
(***************************************************************************)
Storing == {"insert", "artifact_audit"}

StoreTypeOK ==
    /\ disk \subseteq Artifact /\ rows \subseteq Artifact
    /\ deletePc \in {"none", "files", "rows"}
    /\ artifact \in [Caller -> Artifact \cup {NoArtifact}]
    /\ overlapped \subseteq Caller /\ stored \subseteq Artifact

WrittenSoFar(q) ==
    pc[q] \in Storing =>
        /\ artifact[q] \in Artifact
        /\ q \in overlapped \/ artifact[q] \in disk
        /\ pc[q] = "artifact_audit" => q \in overlapped \/ artifact[q] \in rows

DeletionOverlaps ==
    deletePc # "none" => stored = {} /\ \A q \in Caller : pc[q] # "none" => q \in overlapped

StoreInv ==
    /\ StoreTypeOK
    /\ StoredArtifactsKept
    /\ DeletionOverlaps
    /\ \A q \in Caller : WrittenSoFar(q)

-----------------------------------------------------------------------------
(***************************************************************************)
(* The workspaces, the sandbox and the arguments of the calls.             *)
(***************************************************************************)
SandboxInv ==
    /\ files \in [Task -> SUBSET File]
    /\ docker \in {"unknown", "yes", "no"}
    /\ imageBuilt \in BOOLEAN /\ image \in BOOLEAN /\ buildDir \in BOOLEAN
    /\ imageBuilt => image
    /\ exit \in [Caller -> BOOLEAN]

\* A call has its tool and its task from the first await to its answer.
CallsInv ==
    /\ tool \in [Caller -> Tools \cup {"none"}]
    /\ about \in [Caller -> Task \cup {NoTask}]
    /\ \A q \in Caller : pc[q] # "none" => tool[q] \in Tools /\ about[q] \in Task

\* Audit log, queue, artifact store, sandbox and calls agree between two awaits: every
\* call under way has a task and a tool, has logged what its step says, and waits in the
\* limiter's queue at most once; what it has stored is there unless a deletion overlaps
\* it; and an image that is taken to be built is built.
ToolsInv == RuntimeInv /\ StoreInv /\ SandboxInv /\ CallsInv

=============================================================================
