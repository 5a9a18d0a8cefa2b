----------------------------- MODULE Signatures -----------------------------
(***************************************************************************)
(* How one process is told to be an agent: signatures of weighted rules    *)
(* over what is known of it, the points that match, and the confidence     *)
(* they give.  A pattern stands for the texts it matches, so a text is the *)
(* set of the patterns that it contains.                                   *)
(***************************************************************************)
EXTENDS Integers, Sequences, FiniteSetsExt

CONSTANTS
    UserSignatures, \* agents.user_signatures, as validation leaves them
    BadPatterns,    \* the patterns that do not compile
    IdOrder         \* the ids of all signatures, sorted

Unknown == 0  Possible == 1  High == 2  Confirmed == 3

Rule(field, pattern, weight) == [field |-> field, pattern |-> pattern, weight |-> weight]

Signature(id, cap, any_of, all_of, none_of, adapter) ==
    [id |-> id, cap |-> cap, any_of |-> any_of, all_of |-> all_of, none_of |-> none_of,
     adapter |-> adapter]

Simple(id, cap, any_of, adapter) == Signature(id, cap, any_of, {}, {}, adapter)

-----------------------------------------------------------------------------
(* The built-in signatures.                                                  *)

claude_code ==
    Signature("claude_code", Confirmed,
        {Rule("process_name", "claude", 100), Rule("image_path", "/.local/bin/claude", 100),
         Rule("package_path", "@anthropic-ai/claude-code", 90),
         Rule("image_path", "/claude/versions/", 85)},
        {}, {Rule("process_name", "claude-helper", 0 - 1)}, "claude_code")

codex_native ==
    Simple("codex_native", Confirmed,
        {Rule("process_name", "codex", 100), Rule("image_path", "/OpenAI/Codex/", 95)}, "codex")

codex_node ==
    Signature("codex_node", Confirmed, {},
        {Rule("process_name", "node", 60), Rule("package_path", "@openai/codex", 60)}, {}, "codex")

grok ==
    Simple("grok", Confirmed,
        {Rule("process_name", "grok", 100), Rule("image_path", "/.grok/bin/", 100),
         Rule("image_path", "/.grok/bin/agent", 95)}, "grok")

gemini ==
    Simple("gemini_cli", Confirmed,
        {Rule("process_name", "gemini", 95), Rule("package_path", "@google/gemini-cli", 100)}, "none")

copilot_cli ==
    Simple("copilot_cli", Confirmed,
        {Rule("process_name", "copilot", 85), Rule("package_path", "@github/copilot", 100),
         Rule("command_line", "gh copilot", 80)}, "none")

aider ==
    Signature("aider", Confirmed,
        {Rule("image_path", "/Scripts/aider", 95), Rule("image_path", "/pipx/venvs/aider/", 95)},
        {Rule("process_name", "python", 60), Rule("command_line", "-m aider", 70)}, {}, "none")

opencode ==
    Simple("opencode", Confirmed,
        {Rule("process_name", "opencode", 100), Rule("package_path", "opencode-ai/", 95)}, "none")

goose ==
    Simple("goose", Confirmed,
        {Rule("process_name", "goose", 100), Rule("image_path", "/.local/bin/goose", 95)}, "none")

amp ==
    Simple("amp", Confirmed,
        {Rule("process_name", "amp", 95), Rule("package_path", "@sourcegraph/amp", 100)}, "none")

qwen_code ==
    Simple("qwen_code", Confirmed,
        {Rule("process_name", "qwen", 95), Rule("package_path", "@qwen-code/qwen-code", 100)}, "none")

cline ==
    Simple("cline_cli", Possible,
        {Rule("process_name", "cline", 60), Rule("package_path", "@cline/", 60)}, "none")

cursor_agent ==
    Signature("cursor_agent", Possible,
        {Rule("process_name", "cursor-agent", 80), Rule("package_path", "cursor-agent/", 70)},
        {}, {Rule("process_name", "cursor", 0 - 1)}, "none")

helper_vetoes ==
    {Rule("command_line", "/server.py", 0 - 1), Rule("command_line", "/mcp/", 0 - 1),
     Rule("command_line", "-m mcp_server", 0 - 1), Rule("process_name", "language server", 0 - 1),
     Rule("process_name", "guardian", 0 - 1)}

Interpreters == {"python", "python3", "node", "bun", "deno", "pwsh"}

\* signature_needs_helper_vetoes: its name is that of an interpreter.
NeedsHelperVetoes(s) ==
    \E r \in s.any_of \cup s.all_of : r.field = "process_name" /\ r.pattern \in Interpreters

all_signatures ==
    {claude_code, codex_native, codex_node, grok, gemini, copilot_cli, aider, opencode, goose,
     amp, qwen_code, cline, cursor_agent}

signatures ==
    {IF NeedsHelperVetoes(s) THEN [s EXCEPT !.none_of = @ \cup helper_vetoes] ELSE s : s \in all_signatures}

\* from_agent_config: a signature of the user replaces the one with its id.
Configured ==
    UserSignatures \cup {s \in signatures : \A u \in UserSignatures : u.id # s.id}

\* The patterns of the helpers' rules are constants of the program and compile.
ASSUME SignaturesAssumption ==
    /\ \A r \in helper_vetoes : r.pattern \notin BadPatterns
    /\ \A u \in UserSignatures :
         u = Signature(u.id, u.cap, u.any_of, u.all_of, u.none_of, u.adapter)

\* The rules that compile.
Compilable(rules) == {r \in rules : r.pattern \notin BadPatterns}

\* DetectionEngine::new: a bad rule is left out, and a signature that has no
\* positive rule then.
Compiled ==
    {s \in {[c EXCEPT !.any_of = Compilable(@), !.all_of = Compilable(@),
                      !.none_of = Compilable(@)] : c \in Configured} :
        s.any_of # {} \/ s.all_of # {}}

\* build_inventory asks the built-in signatures for the adapter of an agent, also
\* when the user's have replaced one.
AdapterOf(id) ==
    IF \E s \in signatures : s.id = id
      THEN (CHOOSE s \in signatures : s.id = id).adapter ELSE "none"

-----------------------------------------------------------------------------
(* One process: its own texts, those of its parent, its children's names.    *)

\* The texts of a process that does not exist, or may not be opened.
NoTexts == [name |-> {}, path |-> {}, command |-> {}]

\* Where a rule looks for its pattern.
Text(field, at) ==
    CASE field = "process_name" -> at.self.name
      [] field = "image_path"   -> at.self.path
      [] field = "command_line" -> at.self.command
      [] field = "package_path" -> at.self.path \cup at.self.command
      [] field = "parent_name"  -> at.parent.name
      [] field = "parent_path"  -> at.parent.path \cup at.parent.command
      [] field = "child_name"   -> at.children

\* rule_matches
Matches(rule, at) == rule.pattern \in Text(rule.field, at)

\* Mutant of Vetoed: it takes all the reasons against it.
VetoedByAll(s, at) == s.none_of # {} /\ \A r \in s.none_of : Matches(r, at)

Vetoed(s, at) == \E r \in s.none_of : Matches(r, at)

SomeMatch(s, at) == {r \in s.any_of : Matches(r, at)}
AllMatch(s, at) == s.all_of # {} /\ \A r \in s.all_of : Matches(r, at)

\* Something speaks for it.
Positive(s, at) == SomeMatch(s, at) # {} \/ AllMatch(s, at)

Points(rules) == MapThenSumSet(LAMBDA r : r.weight, rules)

\* score
ScoreOf(s, at) == Points(SomeMatch(s, at)) + IF AllMatch(s, at) THEN Points(s.all_of) ELSE 0

\* confidence_for: what the signature declares is the most it gives.
Confidence(s, score) ==
    Min({s.cap, IF score >= 120 THEN Confirmed ELSE IF score >= 80 THEN High
                ELSE IF score >= 40 THEN Possible ELSE Unknown})

\* never_agent_names
NeverAgent(at) == "system" \in at.self.name

Position(id) == CHOOSE i \in DOMAIN IdOrder : IdOrder[i] = id

NoVerdict == [id |-> "none", conf |-> Unknown, score |-> 0]

\* The signatures that something speaks for and nothing against.
Hits(at) == {s \in Compiled : Positive(s, at) /\ ~Vetoed(s, at)}

\* The highest score wins, and the first id among equals.
Best(hits, at) ==
    CHOOSE s \in hits : \A t \in hits \ {s} :
        \/ ScoreOf(s, at) > ScoreOf(t, at)
        \/ ScoreOf(s, at) = ScoreOf(t, at) /\ Position(s.id) < Position(t.id)

\* inspect
Inspect(at) ==
    LET hits == Hits(at)
        best == Best(hits, at)
    IN  IF NeverAgent(at) \/ hits = {} THEN NoVerdict
        ELSE [id |-> best.id, conf |-> Confidence(best, ScoreOf(best, at)), score |-> ScoreOf(best, at)]

\* explain: each signature that has something to say, with its reason.
Explain(at) ==
    IF NeverAgent(at) THEN {[id |-> "none", score |-> 0, why |-> "excluded"]}
    ELSE {[id |-> s.id, score |-> ScoreOf(s, at),
           why |-> IF Vetoed(s, at) THEN "vetoed" ELSE IF ScoreOf(s, at) < 40 THEN "below" ELSE "matched"] :
             s \in {c \in Compiled : Positive(c, at) \/ Vetoed(c, at)}}

\* workload_rules, with the word that the command line has to have, if any.
workload_rules ==
    {[name |-> n, command |-> "any"] : n \in {"cargo", "rustc", "cmake", "ninja", "msbuild", "make", "gradle"}}
    \cup {[name |-> "dotnet", command |-> "build"], [name |-> "node", command |-> "webpack"]}

\* detect_workloads, its first condition.
IsWorkload(at) ==
    \E r \in workload_rules :
        r.name \in at.self.name /\ (r.command = "any" \/ r.command \in at.self.command)
=============================================================================
