-------------------------------- MODULE Reissue --------------------------------
(***************************************************************************)
(* How the Monitor repeats a Run's command: reissue_args (controls.rs) on  *)
(* the argv that run.json keeps, next to the options of `pas run` as the   *)
(* command line declares them (attractor-cli main.rs).  A token is a word, *)
(* or an option with what is glued to it: nothing, "=" and a value, or, of *)
(* a short option, the value itself.                                       *)
(***************************************************************************)
EXTENDS Integers, Sequences, SequencesExt

Word(v)       == [kind |-> "word", is |-> v, glue |-> "", value |-> ""]
Option(n)     == [kind |-> "option", is |-> n, glue |-> "", value |-> ""]
With(n, v)    == [kind |-> "option", is |-> n, glue |-> "=", value |-> v]
Glued(n, v)   == [kind |-> "option", is |-> n, glue |-> "short", value |-> v]

----------------------------------------------------------------------------
(* The command line (main.rs) *)

Switches == {"--dry-run", "--fresh", "--json", "--allow-shared-workdir", "--verbose"}
Single   == {"--workdir", "--logs", "--max-steps", "--run-id"}
Repeated == {"--codergen-skill"}

Long(n) == CASE n = "-w" -> "--workdir" [] n = "-l" -> "--logs" [] n = "-v" -> "--verbose" [] OTHER -> n

Nothing == [ok |-> TRUE, waiting |-> "", words |-> <<>>, switches |-> {},
            values |-> [n \in Single |-> <<>>], lists |-> [n \in Repeated |-> <<>>]]

Refused == [Nothing EXCEPT !.ok = FALSE]

Valued(s, n, v) ==
    IF n \in Repeated THEN [s EXCEPT !.lists[n] = Append(@, v), !.waiting = ""]
    ELSE IF s.values[n] # <<>> THEN Refused
    ELSE [s EXCEPT !.values[n] = <<v>>, !.waiting = ""]

\* One token: an option is given once, a switch has no value, the value of an
\* option does not begin with a dash, and there is one positional argument.
Read(s, tok) ==
    LET n == Long(tok.is) IN
    IF ~s.ok THEN s
    ELSE IF s.waiting # "" THEN IF tok.kind = "word" THEN Valued(s, s.waiting, tok.is) ELSE Refused
    ELSE IF tok.kind = "word" THEN [s EXCEPT !.words = Append(@, tok.is)]
    ELSE IF n \in Switches
         THEN IF tok.glue # "" \/ n \in s.switches THEN Refused ELSE [s EXCEPT !.switches = @ \cup {n}]
    ELSE IF tok.glue # "" THEN Valued(s, n, tok.value)
    ELSE [s EXCEPT !.waiting = n]

\* The options of `pas run`, or Refused.
RunOptions(tokens) ==
    LET s == FoldLeft(Read, Nothing, tokens)
    IN  IF s.ok /\ s.waiting = "" /\ Len(s.words) = 1 THEN s ELSE Refused

----------------------------------------------------------------------------
(* The Monitor (controls.rs) *)

BoolFlags  == {"--dry-run", "--fresh", "--json", "--allow-shared-workdir"}
OwnedFlags == {"--fresh", "--run-id", "--logs", "-l", "--json"}

IsGluedLogs(tok) == tok.is = "-l" /\ tok.glue = "short"

Owned(tok) == tok.is \in OwnedFlags /\ (tok.glue = "short" => tok.is = "-l")

\* Does the next token belong to this one?  A short option with its value
\* glued to it is known as such for -l alone.
TakesValue(tok) == tok.glue # "=" /\ tok.is \notin BoolFlags /\ ~IsGluedLogs(tok)

\* One token: the first word is replaced by the path, owned options go.
Reissued(s, tok) ==
    IF s.value # "" THEN [s EXCEPT !.out = IF s.value = "keep" THEN Append(@, tok) ELSE @, !.value = ""]
    ELSE IF tok.kind = "word"
         THEN [s EXCEPT !.out = IF s.positional THEN Append(@, tok) ELSE @, !.positional = TRUE]
    ELSE [s EXCEPT !.out = IF Owned(tok) THEN @ ELSE Append(@, tok),
                   !.value = IF ~TakesValue(tok) THEN "" ELSE IF Owned(tok) THEN "drop" ELSE "keep"]

\* The arguments after `run`: meta has the path, the Run's id and the logs
\* folder; newId is <<>> for Resume and the new Run's id for Run again.
ReissueArgs(tokens, meta, newId) ==
    LET s == FoldLeft(Reissued, [out |-> <<Word(meta.path)>>, positional |-> FALSE, value |-> ""], tokens)
    IN  s.out \o (IF newId = <<>> THEN <<>> ELSE <<Option("--fresh")>>)
              \o <<Option("--run-id"), Word(IF newId = <<>> THEN meta.run ELSE newId[1]),
                   Option("--logs"), Word(meta.logs)>>
=============================================================================
