----------------------------- MODULE MCHostFiles -----------------------------
(***************************************************************************)
(* Two runs of Claude Code whose Agents have the same id and a skill of the *)
(* same name, and a run of Codex.                                           *)
(***************************************************************************)
EXTENDS HostFiles, Sequences, TLC

CONSTANTS c1, c2, x

MCHostOf == [r \in Run |-> IF r = x THEN "codex" ELSE "claude-code"]

Card == "agents/a.md"
Skill(id) == "skills/" \o id \o "/SKILL.md"

MCPath == {Card, Skill("s"), Skill("t")}
MCWords == {"a", "b", "s"}

\* The skills s are alike; the card of c2 is another, and only c2 has t.
MCInstructions ==
    (c1 :> ((Card :> "a") @@ (Skill("s") :> "s")))
    @@ (c2 :> ((Card :> "b") @@ (Skill("s") :> "s") @@ (Skill("t") :> "b")))
    @@ (x :> [p \in {} |-> "a"])

MCName == {"T", "T_B", "U", "U_B"}

MCStartsWith ==
    ("T" :> {}) @@ ("T_B" :> {"T"}) @@ ("U" :> {}) @@ ("U_B" :> {"U"})

Ref(name, consumer, required) ==
    [name |-> name, consumer |-> consumer, required |-> required, exported |-> FALSE]
Slot(file, consumer, name) == [file |-> file, consumer |-> consumer, name |-> name]

\* Claude has a hook and a server, which shares a name with the environment.
\* On Codex T has a slot beside T_B, and U has none beside U_B.
MCRefs ==
    (c1 :> {Ref("T", "/environment", TRUE), Ref("T", "/mcp_servers/srv", TRUE),
            Ref("T_B", "/hooks/agent_stop/0", FALSE)})
    @@ (c2 :> {})
    @@ (x :> {Ref("T", "/mcp_servers/srv", TRUE), Ref("T_B", "/mcp_servers/srv", FALSE),
              Ref("U", "/environment", FALSE), Ref("U_B", "/mcp_servers/srv", TRUE)})

MCSlots ==
    (c1 :> {Slot("mcp", "/mcp_servers/srv", "T"), Slot("settings", "/hooks/agent_stop/0", "T_B")})
    @@ (c2 :> {})
    @@ (x :> {Slot("config", "/mcp_servers/srv", n) : n \in {"T", "T_B", "U_B"}})
=============================================================================
