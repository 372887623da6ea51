--------------------------- MODULE ProviderStream ---------------------------
(***************************************************************************)
(* How the streaming adapters (provider-registry/src/universal-gateway.ts, *)
(* ollama-adapter.ts) read the body of a response: they append what the    *)
(* network delivers to a buffer, split it at newlines and keep what comes  *)
(* after the last one for the next read.                                   *)
(*                                                                         *)
(* A line is two pieces and a newline, so that a read can end anywhere     *)
(* that matters: line n takes the positions 3n - 2, 3n - 1 and 3n of the   *)
(* body.  The pieces that have arrived and not been split off yet are      *)
(* those after the position "from".                                        *)
(***************************************************************************)
EXTENDS ProviderReplies

\* A line says a paragraph, or has only the flag ("done"), or is no JSON, an SSE comment or
\* "[DONE]" ("junk").
\* The last newline of a body may be missing.
IsBody(body) ==
    /\ body.lines \in Seq(ParagraphKinds \cup {"done", "junk"})
    /\ body.ended \in BOOLEAN /\ (body.ended \/ body.lines # << >>)

Size(body) == 3 * Len(body.lines) - (IF body.ended THEN 0 ELSE 1)

\* The paragraph of a line is passed on by the adapters for this format.
Yields(format, kind) ==
    /\ kind \in ParagraphKinds
    /\ kind = "thinking" => format = "ndjson"

\* buffer = lines.pop(): the position after the last newline.
CarriedNothing(pos) == pos
Carried(pos) == 3 * (pos \div 3)

\* The texts passed on when the body has been read up to pos with a buffer that begins
\* after from: of every line that is complete, a fragment of one being no JSON.
TextRead(body, format, from, pos) ==
    Kept(Text(body.lines),
         {n \in DOMAIN body.lines :
             from <= 3 * (n - 1) /\ 3 * n <= pos /\ Yields(format, body.lines[n])})

\* What the provider wrote: the texts of all lines that it ended.
TextWritten(body, format) ==
    Kept(Text(body.lines),
         {n \in DOMAIN body.lines :
             Yields(format, body.lines[n]) /\ (body.ended \/ n < Len(body.lines))})

=============================================================================
