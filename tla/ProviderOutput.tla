--------------------------- MODULE ProviderOutput ---------------------------
(***************************************************************************)
(* What codergen_provider.rs makes of a provider: the command line it      *)
(* starts and what it reads from the lines the process printed.            *)
(*                                                                         *)
(* A line is a record with its type t and the fields its type needs.  The  *)
(* type "text" stands for every line that is not a JSON object of the      *)
(* expected shape (a log line, a torn line, a field of the wrong type).    *)
(* A text is the sequence of its pieces.                                   *)
(***************************************************************************)
EXTENDS Integers, Sequences, FiniteSets, SequencesExt

CONSTANT None       \* an absent Option

Providers == {"claude", "codex", "gemini", "pi"}

Field(line, name, default) == IF name \in DOMAIN line THEN line[name] ELSE default

Either(a, b) == IF a # None THEN a ELSE b

(* sum_present: None when there is nothing to add.                         *)
Plus(a, b) == IF a = None THEN b ELSE IF b = None THEN a ELSE a + b
SumPresent(values) == FoldLeft(Plus, None, values)

(* json_lines, and those of one type.                                      *)
JsonLines(lines) == SelectSeq(lines, LAMBDA l : l.t # "text")
OfType(lines, type) == SelectSeq(lines, LAMBDA l : l.t = type)
LastOf(s, default) == IF s = <<>> THEN default ELSE s[Len(s)]

NoUsage == [model |-> None, tokens |-> None, cost |-> None]
Failed(why) == [kind |-> "err", error |-> TRUE, text |-> <<why>>, cost |-> None]
Parsed(error, text, cost) == [kind |-> "ok", error |-> error, text |-> text, cost |-> cost]

----------------------------------------------------------------------------
(* Claude.  The answer is the last result line, or the whole output when it*)
(* is one object; every field of it has a default.                         *)
ClaudeResult(lines) == LastOf(OfType(lines, "result"), None)

ParseClaude(lines) ==
    LET whole  == IF Len(lines) = 1 /\ lines[1].t # "text" THEN lines[1] ELSE None
        answer == Either(ClaudeResult(lines), whole)
    IN  IF answer = None THEN Failed("unparsable")
        ELSE Parsed(Field(answer, "error", FALSE), Field(answer, "text", <<>>), Field(answer, "cost", 0))

(* Tokens and cost are those of the result; modelUsage, a function from    *)
(* model to tokens, counts subagents too.                                  *)
SummarizeClaude(lines) ==
    LET init    == LET s == OfType(lines, "init") IN IF s = <<>> THEN None ELSE s[1].model
        message == LastOf(SelectSeq(lines, LAMBDA l : l.t = "assistant" /\ l.model # None), [model |-> None]).model
        result  == Either(ClaudeResult(lines), IF Len(lines) = 1 /\ lines[1].t # "text" THEN lines[1] ELSE None)
        models  == IF result = None THEN <<>> ELSE Field(result, "models", <<>>)
        only    == IF Cardinality(DOMAIN models) = 1 THEN CHOOSE m \in DOMAIN models : TRUE ELSE None
        perModel == LET order == SetToSeq(DOMAIN models) IN [i \in DOMAIN order |-> models[order[i]]]
    IN  IF result = None THEN [NoUsage EXCEPT !.model = Either(init, message)]
        ELSE [model |-> Either(Either(init, message), only),
              tokens |-> IF DOMAIN models # {} THEN SumPresent(perModel) ELSE Field(result, "tokens", None),
              cost |-> Field(result, "cost", None)]

----------------------------------------------------------------------------
(* Codex.  serde_json's StreamDeserializer yields nothing after an error,  *)
(* so the events end at the first line that is not one.                    *)
CodexEvents(lines) ==
    LET bad == {i \in DOMAIN lines : lines[i].t = "text"}
    IN  IF bad = {} THEN lines
        ELSE SubSeq(lines, 1, (CHOOSE i \in bad : \A j \in bad : i <= j) - 1)

ParseCodex(lines) ==
    LET events  == CodexEvents(lines)
        message == LastOf(OfType(events, "agent_message"), None)
        failure == LastOf(SelectSeq(events, LAMBDA l : l.t \in {"turn.failed", "error"}), None)
    IN  Parsed(failure # None,
               IF message # None THEN message.text
               ELSE IF failure # None /\ failure.text # <<>> THEN failure.text ELSE <<"no agent message">>,
               None)

SummarizeCodex(lines) ==
    LET turns == OfType(lines, "turn.completed")
    IN  [NoUsage EXCEPT !.tokens = SumPresent([i \in DOMAIN turns |-> turns[i].tokens])]

----------------------------------------------------------------------------
(* Gemini, which prints one "object" or, in a newer version, a stream of   *)
(* typed lines.                                                            *)
IsGeminiStream(lines) == \E i \in DOMAIN lines : lines[i].t \notin {"text", "object"}

ParseGeminiStream(lines) ==
    LET result == LastOf(OfType(lines, "result"), None)
        Join(text, l) == text \o l.text
    IN  IF result = None THEN Failed("no result event")
        ELSE IF result.error THEN Parsed(TRUE, result.text, None)
        ELSE Parsed(FALSE, FoldLeft(Join, <<>>, OfType(lines, "assistant")), None)

ParseGeminiObject(lines) ==
    IF Len(lines) = 1 /\ lines[1].t = "object" THEN Parsed(lines[1].error, lines[1].text, None)
    ELSE Failed("unparsable")

(* busiest_model: the first of those with the most tokens; it names one    *)
(* even when none wrote any.                                               *)
Busiest(models) ==
    IF DOMAIN models = {} THEN None
    ELSE CHOOSE m \in DOMAIN models : \A n \in DOMAIN models : models[n] <= models[m]

SummarizeGemini(lines) ==
    IF IsGeminiStream(lines)
    THEN LET result == LastOf(OfType(lines, "result"), [models |-> <<>>, tokens |-> None])
             init   == LET s == OfType(lines, "init") IN IF s = <<>> THEN None ELSE s[1].model
         IN  [NoUsage EXCEPT !.model = Either(Busiest(result.models), init), !.tokens = result.tokens]
    ELSE IF Len(lines) = 1 /\ lines[1].t = "object"
         THEN [NoUsage EXCEPT !.model = Busiest(lines[1].models), !.tokens = lines[1].tokens]
         ELSE NoUsage

----------------------------------------------------------------------------
(* pi.  Only the ends of assistant messages count; the last one decides.   *)
PiEnds(lines) == OfType(lines, "message_end")

PiCost(line) == IF line.t = "message_end" THEN line.cost ELSE None

PiTotal(lines) == SumPresent([i \in DOMAIN lines |-> PiCost(lines[i])])

PiSpent(lines) == IF PiTotal(lines) = None THEN 0 ELSE PiTotal(lines)

ParsePi(lines) ==
    LET last == LastOf(PiEnds(lines), None)
        fine == OfType(lines, "agent_end") # <<>> /\ last # None /\ last.stop = "stop"
    IN  IF fine THEN Parsed(FALSE, last.text, PiTotal(lines)) ELSE Parsed(TRUE, <<"pi failed">>, PiTotal(lines))

SummarizePi(lines) ==
    LET ends == PiEnds(lines)
    IN  [model |-> LastOf(ends, [model |-> None]).model,
         tokens |-> SumPresent([i \in DOMAIN ends |-> ends[i].tokens]),
         cost |-> PiTotal(lines)]

----------------------------------------------------------------------------
(* parse_cli_output, summarize_stream, has_final_result.                   *)
Parse(provider, lines) ==
    IF lines = <<>> THEN Failed("no output")
    ELSE CASE provider = "claude" -> ParseClaude(lines)
           [] provider = "codex" -> ParseCodex(lines)
           [] provider = "gemini" -> IF IsGeminiStream(lines) THEN ParseGeminiStream(lines)
                                     ELSE ParseGeminiObject(lines)
           [] provider = "pi" -> ParsePi(lines)

Summarize(provider, lines) ==
    CASE provider = "claude" -> SummarizeClaude(lines)
      [] provider = "codex" -> SummarizeCodex(lines)
      [] provider = "gemini" -> SummarizeGemini(lines)
      [] provider = "pi" -> SummarizePi(lines)

HasFinalResult(provider, lines) ==
    CASE provider = "claude" -> ClaudeResult(lines) # None
      [] provider = "gemini" /\ IsGeminiStream(lines) -> OfType(lines, "result") # <<>>
      [] provider = "codex" \/ (provider = "gemini" /\ ~IsGeminiStream(lines)) -> lines # <<>>
      [] provider = "pi" -> OfType(lines, "agent_end") # <<>>

----------------------------------------------------------------------------
(* extract_label.  A line of an answer is the label it is, or None, and the*)
(* labels it contains; the labels are in the order of the edges.  The last *)
(* five lines are looked at first, from the end.                           *)

ExtractLabel(answer, labels) ==
    LET recent == {i \in DOMAIN answer : i > Len(answer) - 5 /\ answer[i].is \in ToSet(labels)}
        held   == {i \in DOMAIN labels : \E j \in DOMAIN answer : labels[i] \in answer[j].has}
    IN  IF recent # {} THEN answer[CHOOSE i \in recent : \A j \in recent : j <= i].is
        ELSE IF held # {} THEN labels[CHOOSE i \in held : \A j \in held : i <= j]
        ELSE None
=============================================================================
