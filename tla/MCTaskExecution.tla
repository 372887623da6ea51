--------------------------- MODULE MCTaskExecution ---------------------------
(***************************************************************************)
(* Small instances of TaskExecution for TLC.                               *)
(***************************************************************************)
EXTENDS TaskExecutionInvariant, TLC

CONSTANTS a, b

\* With a stream, with one that calls complete(), and without.
ThreeAdapters == {OllamaAdapter, GatewayPresets["groq"], OpenAICompatibleAdapter}

\* Thinking, or the tags of a model that has been told not to think.
ThinkingBody ==
    {[lines |-> <<first, "prose", "prose">>, ended |-> FALSE] : first \in {"think", "tags"}}
Answer == [text |-> <<"think", "prose", "code">>, thinking |-> FALSE, calls |-> << >>,
           mentions |-> << >>, total |-> 3, parts |-> 2]
\* Calls of both kinds, and a blocked tool.
ManyReplies ==
    {Answer, [Answer EXCEPT !.mentions = <<"web_search", "web_search">>],
     [Answer EXCEPT !.text = << >>, !.thinking = TRUE, !.calls = <<"sudo", "file_write">>]}

\* Side by side, and one after the other.
TwoPlans == {(a :> {}) @@ (b :> {}), (a :> {}) @@ (b :> {a})}
OneTask == {a :> {}}

\* The role of a has no tools, so its replies are streamed; that of b is edited.
StreamAndTools ==
    (a :> {{}}) @@ (b :> {{"web_search"}, {"web_search", "file_write"}})

FileTools == a :> {{"file_write"}}

\* What the theorem about HandedOn takes for granted is so here.
ASSUME HypothesisHolds == ThinkingComesFirst

=============================================================================
