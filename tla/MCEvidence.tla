----------------------------- MODULE MCEvidence -----------------------------
(***************************************************************************)
(* The compatibility algebra on a small Agent: one skill, a context kept   *)
(* to the Agent, a tool of one MCP server, a hook, a sandbox, an output    *)
(* schema and a secret, on a host that starts from full evidence.          *)
(***************************************************************************)
EXTENDS Evidence

CONSTANTS skill, context, server, hook, secret

MCId == {"", skill, context, server, hook, secret}

MCWord == {"primary_native", "primary_mapped", "subagent_only", "mapped",
           "approximate", "unsupported", "documented", "inferred", "agent", "host",
           "host_enforced", "prompt_only", "none", "true", "false", "within",
           "overgrant", "unverified", "equal", "stricter", "weaker", "looser",
           "disconnected", "not_invocable", "unknown", ""}

Items == {<<"skill", skill>>, <<"context", context>>, <<"mcp", server>>,
          <<"hook", hook>>, <<"secret", secret>>,
          Only("output_schema"), Only("sandbox"), Only("output_validation")}

\* Everything required, or everything the Agent may declare optional.
MCDeclared == {[k \in Items |-> need] : need \in Needs}

Spoken == Items \union {Only(s) : s \in Singletons} \union
          {<<"context_isolation", context>>, <<"mcp_isolation", server>>}

MCAsserted ==
    [k \in Spoken |->
       CASE k[1] = "activation"  -> Fact("primary_native")
         [] k[1] = "sop"         -> [Fact("mapped") EXCEPT !.judged = "true"]
         [] k[1] = "permissions" -> [Fact("mapped") EXCEPT !.judged = "within"]
         [] k[1] = "approvals"   -> [Fact("mapped") EXCEPT !.judged = "equal"]
         [] OTHER                -> Fact("mapped")]

Judgements(section) ==
    CASE section = "sop"         -> {"true", "false", "unknown", ""}
      [] section = "permissions" -> {"within", "overgrant", "unverified", ""}
      [] section = "approvals"   -> {"equal", "stricter", "weaker", ""}
      [] section = "sandbox"     -> {"looser", "stricter", ""}
      [] section = "mcp"         -> {"disconnected", "not_invocable", ""}
      [] OTHER                   -> {""}

MCValue ==
    [s \in Sections |-> [field \in EvidenceFields \union {"judged"} |->
       CASE field = "support" ->
              IF s = "activation"
              THEN {"primary_native", "primary_mapped", "subagent_only", "unsupported", ""}
              ELSE {"mapped", "approximate", "unsupported", ""}
         [] field = "confidence"  -> {"documented", "inferred", ""}
         [] field = "scope"       -> {"agent", "host", ""}
         [] field = "enforcement" -> {"host_enforced", "prompt_only", "none", ""}
         [] field = "judged"      -> Judgements(s)]]
=============================================================================
