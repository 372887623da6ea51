------------------------------ MODULE AgentText ------------------------------
(***************************************************************************)
(* The text of a reply, as far as the execution worker looks into it       *)
(* (apps/api/src/services.ts): paragraphs with a blank line between them.  *)
(* extractActualOutput separates the thinking of a model from its output,  *)
(* once before the output is stored and again before it is handed on to    *)
(* the tasks that depend on it.                                            *)
(***************************************************************************)
EXTENDS Naturals, Sequences, FiniteSetsExt

\* think: <think>...</think>.  tags: the same with nothing in it.  header: begins with
\* "Thinking:".  thinking: what Ollama reports as such, in no special form.  call: as
\* file_write(...).  here: begins with "Here is the code" and the like.  short: less than
\* ten characters.  result: a line about a tool call.
ParagraphKinds == {"think", "tags", "header", "thinking", "prose", "code", "call", "json",
                   "here", "short", "result"}

\* A paragraph is its kind and a number that tells it from others.
Text(kinds) == [n \in DOMAIN kinds |-> <<kinds[n], n>>]
Kind(text, n) == text[n][1]
Texts == Seq(ParagraphKinds \X Nat)

\* The elements of a sequence that are at certain positions, in their order; a function
\* and not SelectSeq, of which the provers know nothing.
Kept(seq, positions) ==
    LET kept[n \in 0..Len(seq)] ==
            IF n = 0 THEN << >>
            ELSE IF n \in positions THEN Append(kept[n - 1], seq[n]) ELSE kept[n - 1]
    IN  kept[Len(seq)]

From(text, n) == SubSeq(text, n, Len(text))

\* More than 50 characters: a paragraph has them, but for a call, empty tags or a short one.
Substantial(text) == \E n \in DOMAIN text : Kind(text, n) \notin {"call", "tags", "short"}

\* Where a paragraph of one of these kinds begins after a blank line.
Cuts(text, kinds) == {n \in 2..Len(text) : Kind(text, n) \in kinds}

\* The markers in their order; a JSON object counts when the text ends with one.
Markers == << {"json"}, {"code"}, {"call"}, {"here"} >>
Marked(text, m) ==
    /\ Cuts(text, Markers[m]) # {}
    /\ m = 1 => Kind(text, Len(text)) = "json"
    /\ Substantial(From(text, Min(Cuts(text, Markers[m]))))

HasHeader(text) ==
    /\ \E n \in 1..(Len(text) - 1) : Kind(text, n) = "header"
    /\ Cuts(text, UNION {Markers[m] : m \in DOMAIN Markers}) # {}

\* extractActualOutput: the output is the end of the text, from one paragraph on.
ActualOutput(text) ==
    IF text # << >> /\ Kind(text, 1) \in {"think", "tags"} THEN Tail(text)
    ELSE IF HasHeader(text)
         THEN From(text, Min(Cuts(text, UNION {Markers[m] : m \in DOMAIN Markers})))
    ELSE LET marked == {m \in DOMAIN Markers : Marked(text, m)} IN
         IF marked = {} THEN text
         ELSE From(text, Min(Cuts(text, Markers[Min(marked)])))

\* What complete() is followed by: a text that is all thinking is kept.
OutputToStore(text) == IF ActualOutput(text) = << >> THEN text ELSE ActualOutput(text)

\* The context of a dependent task: for an empty response the record it is stored in,
\* otherwise the output in it, once more, and with the tags when there is nothing in them.
Response(text) == IF text = << >> THEN Text(<<"json">>) ELSE text
HandedAsStored(text) == Response(text)
Handed(text) ==
    IF Kind(Response(text), 1) = "tags" THEN Response(text) ELSE ActualOutput(Response(text))

\* Nothing, or less than ten characters, is left out of the context.
Usable(text) == \E n \in DOMAIN text : Kind(text, n) # "short" \/ Len(text) > 1

=============================================================================
