------------------------------ MODULE MCAgents ------------------------------
(* An agent, a server that serves one and carries another, and a build, which *)
(* the user takes for an agent, the more so when it starts one.              *)
EXTENDS Agents, TLC

CONSTANTS p1, p2, p3, nobody

SomePids == {p1, p2, p3}
AnyNumber == Permutations(SomePids)

SomeKinds == {"claude", "server", "build"}
SomeTexts ==
    [k \in SomeKinds |->
        CASE k = "claude" -> [name |-> {"claude"}, path |-> {"/.local/bin/claude"}, command |-> {}]
          [] k = "server" -> [name |-> {"node"}, path |-> {},
                              command |-> {"@openai/codex", "/mcp/", "@google/gemini-cli"}]
          [] k = "build"  -> [name |-> {"cargo"}, path |-> {}, command |-> {}]]

SomeRecorder == [k \in SomeKinds |-> CASE k = "claude" -> "claude_code" [] k = "server" -> "none" [] k = "build" -> "grok"]

\* The user replaces a built-in signature with one that has a bad rule, and adds
\* one that has no other.
SomeSignatures ==
    {Signature("grok", Possible, {Rule("process_name", "cargo", 50), Rule("parent_name", "(", 50)},
         {Rule("process_name", "cargo", 40), Rule("child_name", "claude", 50)}, {}, "none"),
     Simple("house_agent", Confirmed, {Rule("process_name", "(", 200)}, "none")}
Broken == {"("}

Alphabet ==
    <<"aider", "amp", "claude_code", "cline_cli", "codex_native", "codex_node", "copilot_cli",
      "cursor_agent", "gemini_cli", "goose", "grok", "house_agent", "opencode", "qwen_code">>

ASSUME LooksOnlyAdd
=============================================================================
