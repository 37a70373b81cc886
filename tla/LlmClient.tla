----------------------------- MODULE LlmClient -----------------------------
(***************************************************************************)
(* The LLM client (crates/attractor-llm): the unified request and response *)
(* and what each of the three adapters makes of them.  Texts are model     *)
(* values, a joined text the sequence of its pieces.                       *)
(***************************************************************************)
EXTENDS Integers, Sequences, FiniteSets, SequencesExt

CONSTANT None

Adapters == {"anthropic", "openai", "google"}

----------------------------------------------------------------------------
(* The items of a type, in their order.                                    *)
OfType(items, type) ==
    FlattenSeq([i \in DOMAIN items |-> IF items[i].type = type THEN <<items[i]>> ELSE <<>>])

(* Messages and their parts.                                               *)
Text(t) == [type |-> "text", text |-> t]
CallPart(c) == [type |-> "call", id |-> c.id, name |-> c.name]
ResultPart(r) == [type |-> "result", id |-> r.id, name |-> r.name, error |-> r.error]

SystemMessage(t) == [role |-> "system", parts |-> <<Text(t)>>]
UserMessage(t)   == [role |-> "user", parts |-> <<Text(t)>>]
AssistantMessage(text, calls) ==
    [role |-> "assistant",
     parts |-> (IF text = <<>> THEN <<>> ELSE <<Text(text)>>) \o [i \in DOMAIN calls |-> CallPart(calls[i])]]
ToolMessage(r)   == [role |-> "tool", parts |-> <<ResultPart(r)>>]

Request(model, messages, tools) ==
    [model |-> model, messages |-> messages, tools |-> tools, provider |-> None]

(* ModelCatalog: who serves a model; None for one it does not list.        *)
ProviderForModel(model) ==
    CASE model \in {"claude-opus-4-6", "claude-sonnet-4-5-20250929", "claude-haiku-4-5-20251001"} -> "anthropic"
      [] model \in {"gpt-4o", "gpt-4o-mini", "o1", "o3-mini"} -> "openai"
      [] model \in {"gemini-2.5-pro", "gemini-2.5-flash"} -> "google"
      [] OTHER -> None

(* LlmClient::resolve_provider: the providers it may take.  The last rule  *)
(* takes the first of a HashMap, which may be any.  {} is an error.        *)
ResolveProvider(request, registered) ==
    IF request.provider # None THEN {request.provider} \cap registered
    ELSE IF ProviderForModel(request.model) \in registered THEN {ProviderForModel(request.model)}
    ELSE registered

(* LlmClient::from_env.                                                    *)
FromEnv(keys) ==
    {a \in Adapters : CASE a = "anthropic" -> "ANTHROPIC_API_KEY" \in keys
                        [] a = "openai" -> "OPENAI_API_KEY" \in keys
                        [] a = "google" -> keys \cap {"GOOGLE_API_KEY", "GEMINI_API_KEY"} # {}}

----------------------------------------------------------------------------
(* What goes over the wire: [system, messages, tools], a message is        *)
(* [role, parts], a result part carries what identifies its call.          *)
IsSystem(m) == m.role = "system"
SystemParts(request) == FlattenSeq([i \in DOMAIN request.messages |->
    IF IsSystem(request.messages[i]) THEN request.messages[i].parts ELSE <<>>])

WirePart(p) ==
    CASE p.type = "result" -> [type |-> "result", ref |-> <<"id", p.id>>, error |-> p.error]
      [] p.type = "call" -> [type |-> "call", ref |-> <<"id", p.id>>]
      [] OTHER -> p
WireParts(m) == [i \in DOMAIN m.parts |-> WirePart(m.parts[i])]

(* anthropic.rs convert_messages: results of one round share the user      *)
(* message that follows the assistant's.                                   *)
AnthropicStep(messages, m) ==
    IF IsSystem(m) THEN messages
    ELSE IF m.role = "tool" /\ messages # <<>> /\ messages[Len(messages)].role = "user"
    THEN [messages EXCEPT ![Len(messages)].parts = @ \o WireParts(m)]
    ELSE Append(messages, [role |-> IF m.role = "assistant" THEN "assistant" ELSE "user",
                           parts |-> WireParts(m)])

Anthropic(request) ==
    LET converted[i \in 0 .. Len(request.messages)] ==
            IF i = 0 THEN <<>> ELSE AnthropicStep(converted[i - 1], request.messages[i])
    IN  [system |-> SystemParts(request), messages |-> converted[Len(request.messages)], tools |-> request.tools]

(* openai.rs convert_message: of a tool message the first result, of the   *)
(* others the joined text, with the calls of an assistant.                 *)
PartsOf(m, type) == OfType(m.parts, type)
JoinedText(m) == LET texts == PartsOf(m, "text") IN Text([i \in DOMAIN texts |-> texts[i].text])

OpenAiMessage(m) ==
    [role  |-> m.role,
     parts |-> IF m.role = "tool" /\ PartsOf(m, "result") # <<>> THEN <<WirePart(PartsOf(m, "result")[1])>>
               ELSE IF m.role = "assistant"
               THEN <<JoinedText(m)>> \o WireParts([parts |-> PartsOf(m, "call")])
               ELSE <<JoinedText(m)>>]

OpenAi(request) ==
    [system |-> <<>>, tools |-> request.tools,
     messages |-> [i \in DOMAIN request.messages |-> OpenAiMessage(request.messages[i])]]

(* gemini.rs convert_message: functionCall carries a name and no id, and   *)
(* functionResponse.name is the id of the call.                            *)
GeminiPart(p) ==
    CASE p.type = "result" -> [type |-> "result", ref |-> <<"id", p.id>>, error |-> FALSE]
      [] p.type = "call" -> [type |-> "call", ref |-> <<"name", p.name>>]
      [] OTHER -> p
NotSystem(request) == FlattenSeq([i \in DOMAIN request.messages |->
    IF IsSystem(request.messages[i]) THEN <<>> ELSE <<request.messages[i]>>])
Gemini(request) ==
    LET kept == NotSystem(request)
    IN  [system |-> SystemParts(request), tools |-> request.tools,
         messages |-> [i \in DOMAIN kept |->
             [role |-> IF kept[i].role = "assistant" THEN "model" ELSE "user",
              parts |-> [j \in DOMAIN kept[i].parts |-> GeminiPart(kept[i].parts[j])]]]]

Wire(adapter, request) ==
    CASE adapter = "anthropic" -> Anthropic(request)
      [] adapter = "openai" -> OpenAi(request)
      [] adapter = "google" -> Gemini(request)

----------------------------------------------------------------------------
(* The answers: [status, body], with status 0 when none came.  A body is   *)
(* [stop, blocks, usage], None when it is not JSON; a block is a text, a   *)
(* call or something else.                                                 *)
BlocksOf(body, type) == OfType(body.blocks, type)
Texts(body) == LET texts == BlocksOf(body, "text") IN [i \in DOMAIN texts |-> texts[i].text]
Calls(body, Id(_)) ==
    LET calls == BlocksOf(body, "call")
    IN  [i \in DOMAIN calls |-> [id |-> Id(i), name |-> calls[i].name, args |-> calls[i].args]]
Tokens(usage) == IF usage = None THEN [input |-> 0, output |-> 0] ELSE usage

Response(body, calls, finish) ==
    [error |-> None, text |-> Texts(body), calls |-> calls, tokens |-> Tokens(body.usage), finish |-> finish]
Error(kind, status, retryable) == [error |-> kind, status |-> status, retryable |-> retryable]

(* parse_response.  Anthropic and OpenAI number their calls, here on from  *)
(* fresh; the ids of Gemini's calls are fresh UUIDs.                       *)
AnthropicResponse(body, fresh) ==
    Response(body, Calls(body, LAMBDA i : fresh + i),
             IF body.stop \in {"max_tokens", "stop_sequence", "tool_use"} THEN body.stop ELSE "end_turn")

OpenAiResponse(body, fresh) ==
    Response(body, Calls(body, LAMBDA i : fresh + i),
             CASE body.stop = "incomplete" -> "max_tokens"
               [] body.stop = "completed" /\ BlocksOf(body, "call") # <<>> -> "tool_use"
               [] OTHER -> "end_turn")

NoCandidates == [stop |-> None, blocks |-> <<>>, usage |-> None]
GeminiResponse(body, fresh) ==
    IF body = NoCandidates THEN Error("provider", 0, FALSE)
    ELSE Response(body, Calls(body, LAMBDA i : fresh + i),
                  CASE BlocksOf(body, "call") # <<>> -> "tool_use"
                    [] body.stop = "MAX_TOKENS" -> "max_tokens"
                    [] body.stop = "STOP_SEQUENCE" -> "stop_sequence"
                    [] OTHER -> "end_turn")

(* map_error, of an answer that is no success.                             *)
ProviderError(status, transient) == Error("provider", status, status \in transient)

AnthropicError(status) ==
    CASE status = 429 -> Error("rate_limited", status, TRUE)
      [] status = 401 -> Error("auth", status, FALSE)
      [] OTHER -> ProviderError(status, {500, 529})
OpenAiError(status) ==
    CASE status = 429 -> Error("rate_limited", status, TRUE)
      [] status = 401 -> Error("auth", status, FALSE)
      [] OTHER -> ProviderError(status, {500, 502, 503})
GeminiError(status) ==
    CASE status = 429 -> Error("rate_limited", status, TRUE)
      [] status \in {401, 403} -> Error("auth", status, FALSE)
      [] OTHER -> ProviderError(status, {500, 503})

(* ProviderAdapter::complete, from what came back.                         *)
Completed(answer, MapError(_), Parse(_)) ==
    IF answer.status = 0 THEN Error("provider", 0, TRUE)
    ELSE IF answer.status \notin 200 .. 299 THEN MapError(answer.status)
    ELSE IF answer.body = None THEN Error("provider", answer.status, FALSE)
    ELSE Parse(answer.body)

AnthropicComplete(answer, fresh) ==
    Completed(answer, AnthropicError, LAMBDA body : AnthropicResponse(body, fresh))
OpenAiComplete(answer, fresh) == Completed(answer, OpenAiError, LAMBDA body : OpenAiResponse(body, fresh))
GeminiComplete(answer, fresh) == Completed(answer, GeminiError, LAMBDA body : GeminiResponse(body, fresh))

Complete(adapter, answer, fresh) ==
    CASE adapter = "anthropic" -> AnthropicComplete(answer, fresh)
      [] adapter = "openai" -> OpenAiComplete(answer, fresh)
      [] adapter = "google" -> GeminiComplete(answer, fresh)

(* CostTrackingMiddleware::after: it sees answers only.                    *)
Tracked(total, response) ==
    [input |-> total.input + response.tokens.input, output |-> total.output + response.tokens.output]
=============================================================================
