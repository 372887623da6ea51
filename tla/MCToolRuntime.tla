--------------------------- MODULE MCToolRuntime ---------------------------
(***************************************************************************)
(* Small instances of ToolRuntime for TLC.  The tools that touch files and *)
(* those that wait for others share little, so a behaviour has the calls   *)
(* of one of the sets in Mixes; deletions of artifacts come with the       *)
(* first, calls of unknown tools with searches.  Identifiers are random,   *)
(* so the second is taken only when the first is in use.                   *)
(***************************************************************************)
EXTENDS ToolRuntimeInvariant

CONSTANTS a, b, f, x, y, q1, q2, Mixes

VARIABLE mix

MixInit == ToolsInit /\ mix \in Mixes
MixNext ==
    /\ ToolsNext
    /\ \A q \in Caller : tool'[q] \in mix \cup {"none"}
    /\ deletePc' # deletePc => "file_write" \in mix
    /\ \A q \in Caller : result'[q] = "unknown" => "web_search" \in mix
    /\ y \in disk' \ disk => x \in disk \cup rows \cup {artifact[q] : q \in Caller}
    /\ UNCHANGED mix

mixVars == <<toolVars, mix>>

MixSpec == MixInit /\ [][MixNext]_mixVars /\ ToolsFairness

FilesBashAndSearch ==
    {{"file_write"}, {"file_read", "bash_exec"}, {"file_read", "web_search"}}

=============================================================================
