----------------------------- MODULE AgentTools -----------------------------
(***************************************************************************)
(* The agent's built-in tools (crates/attractor-tools).  A file is the     *)
(* sequence of its lines, an edit replaces a run of lines; a tool's output *)
(* is the sequence of the byte widths of its characters, since the limits  *)
(* on outputs count one or the other.                                      *)
(***************************************************************************)
EXTENDS LlmClient

CONSTANTS
    ToolMax,    \* MAX_OUTPUT_CHARS of a tool, in characters
    AgentMax,   \* MAX_TOOL_OUTPUT_LEN of the agent, in bytes
    Marker      \* characters of the warning that replaces what is cut

Ok(output, file)  == [kind |-> "ok", output |-> output, file |-> file]
Failed(file)      == [kind |-> "error", output |-> <<>>, file |-> file]
Panics(file)      == [kind |-> "panic", output |-> <<>>, file |-> file]

Ones(n) == [i \in 1 .. n |-> 1]
Bytes(chars) == FoldLeft(LAMBDA n, w : n + w, 0, chars)

(* truncate_output, by characters.                                         *)
Truncate(chars, max, mode) ==
    LET n == Len(chars)
        head == (max * 40) \div 100
    IN  IF n <= max THEN chars
        ELSE IF mode = "head_tail"
             THEN SubSeq(chars, 1, head) \o Ones(Marker) \o SubSeq(chars, n - (max - head) + 1, n)
             ELSE Ones(Marker) \o SubSeq(chars, n - max + 1, n)

(* execute_tool_calls: the agent's own limit slices the String at a byte,  *)
(* which panics inside a character.                                        *)
Cap(chars) ==
    IF Bytes(chars) <= AgentMax THEN [kind |-> "ok", output |-> chars]
    ELSE LET cuts == {k \in 0 .. Len(chars) : Bytes(SubSeq(chars, 1, k)) = AgentMax}
         IN  IF cuts = {} THEN [kind |-> "panic", output |-> <<>>]
             ELSE [kind |-> "ok", output |-> SubSeq(chars, 1, CHOOSE k \in cuts : TRUE) \o Ones(Marker)]

----------------------------------------------------------------------------
Lower(a, b) == IF a <= b THEN a ELSE b

(* ReadFileTool: lines offset .. offset + limit - 1, numbered.             *)
ReadFile(file, offset, limit) ==
    LET start == IF offset = None \/ offset = 0 THEN 0 ELSE offset - 1
        end   == Lower(start + limit, Len(file))
    IN  IF file = None THEN Failed(file)
        ELSE IF start > end THEN Panics(file)
        ELSE Ok(Truncate(Ones(end - start), ToolMax, "head_tail"), file)

(* WriteFileTool: parents are created, an old content is replaced.         *)
WriteFile(file, content) == Ok(Ones(1), content)

(* str::matches: where old occurs, from the left and without overlap.      *)
(* starts[i] is the last such place up to i, 0 before the first.           *)
Matches(file, old) ==
    LET at(i) == SubSeq(file, i, Lower(i + Len(old) - 1, Len(file))) = old
        starts[i \in 0 .. Len(file)] ==
            IF i = 0 THEN 0
            ELSE IF at(i) /\ (starts[i - 1] = 0 \/ i >= starts[i - 1] + Len(old)) THEN i
            ELSE starts[i - 1]
    IN  {starts[i] : i \in DOMAIN file} \ {0}

(* str::replace, str::replacen.                                            *)
ReplaceRuns(file, old, new, starts) ==
    LET covered(i) == \E s \in starts : i \in s .. s + Len(old) - 1
    IN  FlattenSeq([i \in DOMAIN file |->
            IF i \in starts THEN new ELSE IF covered(i) THEN <<>> ELSE <<file[i]>>])

EditFile(file, old, new, all) ==
    LET found == Matches(file, old)
    IN  IF file = None \/ old = <<>> THEN Failed(file)
        ELSE IF found = {} \/ (Cardinality(found) > 1 /\ ~all) THEN Failed(file)
        ELSE Ok(Ones(1), ReplaceRuns(file, old, new, found))

(* exec_command: exit status, a timeout, or no process.  A timeout is a    *)
(* result, not an error, and drops what was printed.                       *)
ExecCommand(run) ==
    [started |-> run.outcome # "not_started",
     printed |-> IF run.outcome = "timeout" THEN Ones(1) ELSE run.printed]

Shell(file, run) ==
    LET result == ExecCommand(run)
    IN  IF result.started THEN Ok(Truncate(result.printed, ToolMax, "head_tail"), file)
        ELSE Failed(file)

(* What ToolRegistry::get answers; the profiles of the three providers     *)
(* build the same six tools.                                               *)
Profile(provider) == {"read_file", "write_file", "edit_file", "shell", "grep", "glob"}

----------------------------------------------------------------------------
(* Paths are sequences of names; fs maps each that exists to its entry: a  *)
(* file with its lines, a directory, or a symbolic link to a path.         *)
StartsWith(p, root) == Len(p) >= Len(root) /\ SubSeq(p, 1, Len(root)) = root
IsLink(fs, p) == p \in DOMAIN fs /\ fs[p].kind = "link"

(* std::fs::canonicalize, for links that do not chain through links: the   *)
(* longest linked ancestor is replaced.  None where nothing exists.        *)
Canonical(fs, p) ==
    LET links == {k \in 1 .. Len(p) : IsLink(fs, SubSeq(p, 1, k))}
        real  == IF links = {} THEN p
                 ELSE LET k == CHOOSE k \in links : \A j \in links : j <= k
                      IN  fs[SubSeq(p, 1, k)].to \o SubSeq(p, k + 1, Len(p))
    IN  IF real \in DOMAIN fs \cup {<<>>} THEN real ELSE None

(* canonicalize_allow_missing: the longest ancestor that exists, even as a *)
(* dangling link, is resolved and the rest appended.                       *)
CanonicalOrMissing(fs, p) ==
    LET there == {k \in 0 .. Len(p) : k = 0 \/ SubSeq(p, 1, k) \in DOMAIN fs \/ Canonical(fs, SubSeq(p, 1, k)) # None}
        k == CHOOSE k \in there : \A j \in there : j <= k
        base == Canonical(fs, SubSeq(p, 1, k))
    IN  IF base = None THEN None ELSE base \o SubSeq(p, k + 1, Len(p))

(* A version: only the candidate is compared with the root. *)
ResolveConfinedEarly(fs, root, path, intent) ==
    LET candidate == IF path.absolute THEN path.names ELSE root \o path.names
        resolved == IF intent = "existing" THEN Canonical(fs, candidate) ELSE CanonicalOrMissing(fs, candidate)
    IN  IF ".." \in ToSet(path.names) \/ ~StartsWith(candidate, root) THEN None ELSE resolved

(* resolve_confined: None is an error.                                     *)
ResolveConfined(fs, root, path, intent) ==
    LET candidate == IF path.absolute THEN path.names ELSE root \o path.names
        resolved == IF intent = "existing" THEN Canonical(fs, candidate) ELSE CanonicalOrMissing(fs, candidate)
    IN  IF ".." \in ToSet(path.names) \/ ~StartsWith(candidate, root) THEN None
        ELSE IF resolved = None \/ ~StartsWith(resolved, root) THEN None
        ELSE resolved

(* EnvironmentCore::resolve: a Host environment takes any path as it is;   *)
(* the operating system then follows what links there are.                 *)
Resolve(fs, root, confined, path, intent) ==
    IF confined THEN ResolveConfined(fs, root, path, intent)
    ELSE CanonicalOrMissing(fs, IF path.absolute THEN path.names ELSE root \o path.names)

=============================================================================
