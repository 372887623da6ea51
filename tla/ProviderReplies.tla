-------------------------- MODULE ProviderReplies --------------------------
(***************************************************************************)
(* What the adapters (services/provider-registry/src) put into a request   *)
(* and take out of a reply to complete(): a table of formats, one for      *)
(* every preset of universal-gateway.ts and one for every adapter with     *)
(* code of its own.  What the formats tell apart is which tools are sent,  *)
(* which calls, text and token counts are found again, and how a stream is *)
(* cut into lines.                                                         *)
(***************************************************************************)
EXTENDS AgentText, Integers

\* streaming: "ndjson", "sse", "none" for a gateway provider without it, whose stream()
\* calls complete(), or "no_stream" for an adapter without stream().

Adapter(request, tools, response, streaming, attempts) ==
    [request |-> request, tools |-> tools, response |-> response,
     streaming |-> streaming, attempts |-> attempts]

GatewayPreset(request, tools, response, streaming) ==
    Adapter(request, tools, response, streaming, 1)

CompatibleWithOpenAI == {"groq", "mistral", "together", "deepseek", "openai-compatible", "lmstudio"}

GatewayPresets ==
    [name \in CompatibleWithOpenAI \cup {"openai", "anthropic", "ollama", "gemini"} |->
        CASE name \in CompatibleWithOpenAI ->
                 GatewayPreset("openai", "openai_functions", "openai", "none")
          [] name = "openai" -> GatewayPreset("openai", "openai_functions", "openai", "sse")
          [] name = "anthropic" -> GatewayPreset("raw", "anthropic_tools", "raw", "sse")
          [] name = "ollama" -> GatewayPreset("ollama", "none", "ollama", "ndjson")
          [] name = "gemini" -> GatewayPreset("gemini", "none", "gemini", "none")]

OllamaAdapter == Adapter("ollama", "none", "ollama", "ndjson", 2)
GeminiAdapter == Adapter("gemini", "none", "gemini", "no_stream", 1)
OpenAICompatibleAdapter == Adapter("openai", "openai_functions", "openai", "no_stream", 1)

AllAdapters ==
    {GatewayPresets[name] : name \in DOMAIN GatewayPresets}
        \cup {OllamaAdapter, GeminiAdapter, OpenAICompatibleAdapter}

\* buildRequestBody: whether the tools of the role are sent along.
SendsTools(adapter) ==
    \/ adapter.request = "openai" /\ adapter.tools = "openai_functions"
    \/ adapter.request = "raw" /\ adapter.tools = "anthropic_tools"

(***************************************************************************)
(* A reply: the paragraphs of its text, whether it has thinking besides,   *)
(* the tools it calls natively and in its text, and its token counts, 0    *)
(* when it does not say.                                                   *)
(***************************************************************************)
IsReply(reply, Tool) ==
    /\ reply.text \in Seq(ParagraphKinds) /\ reply.thinking \in BOOLEAN
    /\ reply.calls \in Seq(Tool) /\ reply.mentions \in Seq(Tool)
    /\ reply.total \in Nat /\ reply.parts \in Nat

\* The text of an answer to complete().  Only the Ollama format looks at the thinking.
ContentOf(adapter, reply) ==
    IF reply.text # << >> THEN Text(reply.text)
    ELSE IF reply.thinking /\ adapter.response = "ollama" THEN Text(<<"thinking">>)
    ELSE << >>

\* No preset has a toolCallsPath, so "raw" finds no calls.
NativeCalls(adapter, reply) ==
    IF SendsTools(adapter) /\ adapter.response = "openai" THEN reply.calls ELSE << >>

\* parseTextBasedToolCalls, when there is no native call; filtered by the whitelist that
\* was read.
CallsOf(adapter, reply, whitelist) ==
    IF NativeCalls(adapter, reply) # << >> THEN NativeCalls(adapter, reply)
    ELSE IF ContentOf(adapter, reply) = << >> THEN << >>
    ELSE Kept(reply.mentions, {n \in DOMAIN reply.mentions : reply.mentions[n] \in whitelist})

\* totalTokens: the count of the reply, or else prompt and completion added up.
TokensOf(adapter, reply) ==
    IF adapter.response \in {"openai", "gemini"} /\ reply.total # 0 THEN reply.total
    ELSE reply.parts

=============================================================================
