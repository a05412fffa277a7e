------------------------------ MODULE Adapters ------------------------------
(***************************************************************************)
(* internal/adapter and its three hosts: what an adapter asserts about a    *)
(* host for one Agent, the controls it promises there, the native plan it   *)
(* projects once the report allows it, and the check of the one against     *)
(* the other.                                                               *)
(*                                                                         *)
(* A declaration d is what the adapters read of a resolved, normalised      *)
(* Agent: skills, contexts, servers and hooks by name, each with a need,    *)
(* the secrets bound to the Agent, a server or a hook, an output schema,    *)
(* and the security baseline.  read and write say whether that filesystem   *)
(* scope holds working_directory, the only scope the format knows.          *)
(*                                                                         *)
(* A file is <<kind, name>>, a tool <<server, name>> with server "" for one *)
(* the host has built in, a secret <<consumer, target>>.                    *)
(***************************************************************************)
EXTENDS Evaluate

Hosts == {"claude-code", "kiro", "codex"}

Under(section, ids) == {section} \X ids
When(condition, set) == IF condition THEN set ELSE {}

-----------------------------------------------------------------------------
(* The declaration *)

Tools(d) == UNION {{s} \X DOMAIN d.servers[s].tools : s \in DOMAIN d.servers}

Secrets(d) ==
    ({<<"environment", "">>} \X DOMAIN d.environment) \union
    (UNION {{<<"server", s>>} \X DOMAIN d.servers[s].secrets : s \in DOMAIN d.servers}) \union
    (UNION {{<<"hook", h>>} \X DOMAIN d.hooks[h].secrets : h \in DOMAIN d.hooks})

SecretNeed(d, id) ==
    CASE id[1][1] = "environment" -> d.environment[id[2]]
      [] id[1][1] = "server"      -> d.servers[id[1][2]].secrets[id[2]]
      [] id[1][1] = "hook"        -> d.hooks[id[1][2]].secrets[id[2]]

\* A tool is required by the allow list or by a required skill that uses it.
ToolNeed(d, id) ==
    IF \/ d.servers[id[1]].tools[id[2]] = "required"
       \/ \E s \in DOMAIN d.skills :
             d.skills[s].need = "required" /\ id \in d.skills[s].tools
    THEN "required" ELSE "optional"

RequirementKeys(d) ==
    Under("skill", DOMAIN d.skills) \union Under("context", DOMAIN d.contexts) \union
    Under("mcp", Tools(d)) \union Under("hook", DOMAIN d.hooks) \union
    Under("secret", Secrets(d)) \union {Only("sandbox")} \union
    When(d.output # "none", {Only("output_schema"), Only("output_validation")})

NeedOf(d, k) ==
    CASE k[1] = "skill"   -> d.skills[k[2]].need
      [] k[1] = "context" -> d.contexts[k[2]].need
      [] k[1] = "mcp"     -> ToolNeed(d, k[2])
      [] k[1] = "hook"    -> d.hooks[k[2]].need
      [] k[1] = "secret"  -> SecretNeed(d, k[2])
      [] k[1] = "sandbox" -> d.sandbox.need
      [] k[1] = "output_schema"     -> "required"
      [] k[1] = "output_validation" -> IF d.output = "required" THEN "required" ELSE "optional"

\* BuildRequirement
Requirement(d) == [k \in RequirementKeys(d) |-> NeedOf(d, k)]

-----------------------------------------------------------------------------
(* The facts *)

\* The entries of the three profiles that differ.
Profile(host) ==
    CASE host = "claude-code" -> [activation |-> "primary_native", hooks |-> "mapped",
                                  sandbox |-> "mapped", sandboxed |-> "host_enforced"]
      [] host = "kiro"        -> [activation |-> "primary_native", hooks |-> "mapped",
                                  sandbox |-> "unsupported", sandboxed |-> "none"]
      [] host = "codex"       -> [activation |-> "primary_mapped", hooks |-> "approximate",
                                  sandbox |-> "mapped", sandboxed |-> "host_enforced"]

\* Claude plans a hook control only for a list that has an entry.
HooksPlanned(host, d) ==
    IF host = "claude-code" THEN DOMAIN d.hooks # {} ELSE d.hooksDeclared

\* The intent: the controls promised for this Agent on this host.
Intent(host, d, found) ==
    When(found, {"permissions", "approvals", "isolation"} \union
                When(host # "kiro", {"sandbox"}) \union
                When(DOMAIN d.servers # {}, {"mcp"}) \union
                When(HooksPlanned(host, d), {"hook"}))

Planned(intent, kind) == IF kind \in intent THEN "host_enforced" ELSE "unknown"

\* What a session does with the network: only Codex can prove a denial.
SessionNetwork(host, d) ==
    IF d.network = "allow" THEN "silent" ELSE IF host = "codex" THEN "deny" ELSE "unknown"

\* Mutant: an effect nobody can prove passes for within the declaration.
CeilingTrusts(declared, effect) ==
    IF declared THEN IF effect \in {"silent", "ask"} THEN "within" ELSE "overgrant"
    ELSE IF effect = "silent" THEN "overgrant" ELSE "within"

Ceiling(declared, effect) ==
    IF declared THEN IF effect \in {"silent", "ask"} THEN "within" ELSE "overgrant"
    ELSE CASE effect = "silent"          -> "overgrant"
           [] effect \in {"deny", "ask"} -> "within"
           [] OTHER                      -> "unverified"

PermissionsFact(host, d, found) ==
    LET ceiling == Ceiling(d.network = "allow", SessionNetwork(host, d))
        exact   == host = "claude-code" /\ ceiling = "within" /\ d.network = "allow"
    IN  [Fact(IF ~found THEN "unsupported" ELSE IF exact THEN "mapped" ELSE "approximate")
           EXCEPT !.enforcement = IF ~found THEN "unknown"
                                  ELSE IF ceiling = "overgrant" THEN "none"
                                  ELSE "host_enforced",
                  !.judged = IF found THEN ceiling ELSE "overgrant"]

\* Every host's gate counts as equal to the declared one.
ApprovalsFact(host, d, found) ==
    [Fact(IF found THEN "mapped" ELSE "unsupported")
       EXCEPT !.enforcement = Planned(Intent(host, d, found), "approvals"),
              !.judged = IF found THEN "equal" ELSE ""]

SandboxFact(host, d, found) ==
    LET intent   == Intent(host, d, found)
        enforced == IF "sandbox" \notin intent /\ Profile(host).sandboxed = "none"
                    THEN "none" ELSE Planned(intent, "sandbox")
    IN  [Fact(Profile(host).sandbox)
           EXCEPT !.enforcement = enforced,
                  !.judged = IF enforced = "none" THEN "looser" ELSE ""]

\* On Kiro the secrets of servers and hooks travel in the process environment.
SecretFact(host, d, found, id) ==
    [Fact("mapped")
       EXCEPT !.scope = IF found THEN "agent" ELSE "unknown",
              !.enforcement = IF ~found \/ (host = "kiro" /\ id[1][1] # "environment")
                              THEN "unknown" ELSE "host_enforced",
              !.need = SecretNeed(d, id)]

FactOf(host, d, found, k) ==
    LET sup(s) == IF found THEN s ELSE "unsupported"
        intent == Intent(host, d, found)
    IN  CASE k[1] = "activation"  -> Fact(sup(Profile(host).activation))
          [] k[1] = "sop"         -> [Fact(sup("mapped")) EXCEPT !.judged =
                                        IF found /\ host # "kiro" THEN "true" ELSE ""]
          [] k[1] \in {"skill", "context", "output_schema"} -> Fact(sup("mapped"))
          [] k[1] = "mcp"         -> [Fact(sup("mapped")) EXCEPT !.judged =
                                        IF found THEN "" ELSE "disconnected"]
          [] k[1] = "hook"        -> Fact(sup(Profile(host).hooks))
          [] k[1] = "context_isolation" ->
               [Fact("mapped") EXCEPT !.enforcement = Planned(intent, "isolation"),
                                      !.need = d.contexts[k[2]].need]
          [] k[1] = "mcp_isolation" ->
               [Fact("approximate") EXCEPT !.enforcement = Planned(intent, "mcp")]
          [] k[1] = "secret"      -> SecretFact(host, d, found, k[2])
          [] k[1] = "permissions" -> PermissionsFact(host, d, found)
          [] k[1] = "approvals"   -> ApprovalsFact(host, d, found)
          [] k[1] = "sandbox"     -> SandboxFact(host, d, found)
          [] k[1] = "output_validation" -> [Fact("mapped") EXCEPT !.enforcement = "none"]

FactKeys(d) ==
    RequirementKeys(d) \union
    {Only("activation"), Only("sop"), Only("permissions"), Only("approvals")} \union
    Under("context_isolation",
          {c \in DOMAIN d.contexts : d.contexts[c].isolation = "required"}) \union
    Under("mcp_isolation", DOMAIN d.servers)

Assess(host, d, found) == [k \in FactKeys(d) |-> FactOf(host, d, found, k)]

-----------------------------------------------------------------------------
(* The plan *)

Builtin(name) == <<"", name>>

\* A section no row speaks of leaves everything in.
Kept(report, section, all) ==
    {i \in all : (\E k \in DOMAIN report.rows : k[1] = section) =>
                    i \in Included(report, section)}

\* A server is kept with all its tools for one that is included.
KeptServers(d, report) ==
    {s \in DOMAIN d.servers :
        (\E k \in DOMAIN report.rows : k[1] = "mcp") =>
            \E id \in Included(report, "mcp") : id[1] = s}

\* Mutant: only the tools the allow list itself requires are offered.
ServerToolsListed(d, report) ==
    {id \in Tools(d) : /\ id[1] \in KeptServers(d, report)
                       /\ d.servers[id[1]].tools[id[2]] = "required"}

ServerTools(d, report) == {id \in Tools(d) : id[1] \in KeptServers(d, report)}

\* Mutant: an empty scope passes for the whole work root.
FileToolsAlways(d) == {Builtin("read"), Builtin("write")}

FileTools(d) == When(d.read, {Builtin("read")}) \union When(d.write, {Builtin("write")})
WebTools(d)  == When(d.network = "allow", {Builtin("web")})

\* settings.json, the agent card and the tool flags
ClaudeConfig(d, report) ==
    [tools |-> {Builtin("shell")} \union FileTools(d) \union WebTools(d)
                  \union ServerTools(d, report),
     deny  |-> ({Builtin("web")} \ WebTools(d)) \union
               ({Builtin("read"), Builtin("write")} \ FileTools(d)),
     ask   |-> When(d.shell # "never", {Builtin("shell")}),
     allow |-> When(d.shell = "never", {Builtin("shell")}) \union FileTools(d)
                  \union ServerTools(d, report),
     sandboxed |-> TRUE, autoAllow |-> d.shell = "never",
     hooks |-> Kept(report, "hook", DOMAIN d.hooks)]

\* The agent document of the CLI
KiroConfig(d, report) ==
    [tools   |-> FileTools(d) \union {Builtin("shell")} \union WebTools(d)
                    \union ServerTools(d, report),
     allowed |-> {Builtin("read")} \union ServerTools(d, report) \union
                    When(d.shell = "never", {Builtin("shell"), Builtin("write")}),
     denyByDefault |-> d.shell = "always",
     hooks   |-> Kept(report, "hook", DOMAIN d.hooks)]

ApprovalFlag(d) == IF d.shell = "never" THEN "never" ELSE "on-request"

WorkspaceAccess(d) ==
    IF ~d.read THEN "deny"
    ELSE IF ~d.write \/ d.sandbox.mode = "read_only" THEN "read" ELSE "write"

\* config.toml: hooks are not projected.
CodexConfig(d, report) ==
    [approval |-> ApprovalFlag(d), workspace |-> WorkspaceAccess(d),
     network |-> d.network = "allow", tools |-> ServerTools(d, report), hooks |-> {}]

Config(host, d, report) ==
    CASE host = "claude-code" -> ClaudeConfig(d, report)
      [] host = "kiro"        -> KiroConfig(d, report)
      [] host = "codex"       -> CodexConfig(d, report)

\* The file that carries a host's controls, and the one that carries servers.
ControlFile(host) ==
    CASE host = "claude-code" -> <<"settings", "">>
      [] host = "kiro"        -> <<"agent", "">>
      [] host = "codex"       -> <<"config", "">>
ServerFile(host) == IF host = "claude-code" THEN <<"mcp", "">> ELSE ControlFile(host)

HostFiles(host, d) ==
    {ControlFile(host)} \union
    CASE host = "claude-code" -> {<<"agent", "">>} \union
                                 When(DOMAIN d.servers # {}, {ServerFile(host)})
      [] host = "kiro"        -> {<<"cli", "">>}
      [] host = "codex"       -> {<<"instructions", "">>}

\* The SOP, the skills and the contexts the report includes, the programs of
\* servers and of projected hooks, and the host's own files.
Files(host, d, report) ==
    When(report.rows[Only("sop")].disposition = "include", {<<"sop", "">>}) \union
    Under("skill", DOMAIN d.skills \intersect Included(report, "skill")) \union
    Under("context", Included(report, "context")) \union
    Under("server", KeptServers(d, report)) \union
    Under("hook", Config(host, d, report).hooks) \union
    HostFiles(host, d)

\* Which files the model may read: the others are private to the host.
ModelReadable(host, file) ==
    \/ file[1] \in {"sop", "context", "server", "hook"}
    \/ host = "kiro"

\* Secrets of servers and of projected hooks appear in the file that configures
\* them: as a slot Execute fills, or on Kiro as the ${NAME} the host expands.
Configured(host, d, report) ==
    {id \in Secrets(d) :
        \/ id[1][1] = "server" /\ id[1][2] \in KeptServers(d, report)
        \/ id[1][1] = "hook" /\ id[1][2] \in Config(host, d, report).hooks}

SlotFile(host, id) == IF id[1][1] = "server" THEN ServerFile(host) ELSE ControlFile(host)

\* Mutant: placeholders are written on every host.
SlotsEverywhere(host, d, report) ==
    {<<SlotFile(host, id), id>> : id \in Configured(host, d, report)}

Slots(host, d, report) ==
    When(host # "kiro", {<<SlotFile(host, id), id>> : id \in Configured(host, d, report)})

Exported(host, d) == {id \in Secrets(d) : id[1][1] = "environment" \/ host = "kiro"}

\* Mutant: the server configuration is left to the host's own settings.
ArgsWithoutServers(host, d) ==
    CASE host = "claude-code" -> {"--agent", "--settings", "--add-dir"}
      [] host = "kiro"        -> {"--agent"}
      [] host = "codex"       -> {"--disable", "--ask-for-approval", "--add-dir"}

Args(host, d) ==
    CASE host = "claude-code" -> {"--agent", "--settings", "--add-dir"} \union
                                 When(DOMAIN d.servers # {}, {"--strict-mcp-config"})
      [] host = "kiro"        -> {"--agent"}
      [] host = "codex"       -> {"--disable", "--ask-for-approval", "--add-dir"}

\* Where the host's home of this session is.
Home(host) ==
    CASE host = "claude-code" -> "auth_profile"
      [] host = "kiro"        -> "workspace"
      [] host = "codex"       -> "private"

Plan(host, d, report) ==
    [host |-> host, files |-> Files(host, d, report), config |-> Config(host, d, report),
     args |-> Args(host, d), home |-> Home(host),
     slots |-> Slots(host, d, report), expands |-> When(host = "kiro", Configured(host, d, report)),
     exports |-> Exported(host, d), secrets |-> Secrets(d)]

-----------------------------------------------------------------------------
(* The plan against the promise *)

Realised(plan, control) ==
    CASE control = "isolation" -> plan.home = Home(plan.host)
      [] control = "approvals" /\ plan.host = "codex" -> "--ask-for-approval" \in plan.args
      [] control = "mcp"       -> ServerFile(plan.host) \in plan.files
      [] OTHER                 -> ControlFile(plan.host) \in plan.files

\* reconcileIntent: the controls, and what the report includes.
IntentRealised(intent, report, plan) ==
    /\ \A c \in intent : Realised(plan, c)
    /\ report.rows[Only("sop")].disposition = "include" => plan.files # {}
    /\ \A s \in Included(report, "skill") : <<"skill", s>> \in plan.files
    /\ \A c \in Included(report, "context") : <<"context", c>> \in plan.files
    /\ Included(report, "mcp") # {}  => "mcp" \in intent /\ Realised(plan, "mcp")
    /\ Included(report, "hook") # {} => "hook" \in intent /\ Realised(plan, "hook")

Bypasses == {"--dangerously-skip-permissions", "--dangerously-bypass-hook-trust",
             "--dangerously-bypass-approvals-and-sandbox"}

LaunchSafe(plan) == plan.args \intersect Bypasses = {}

ClaudeMatches(d, intent, report, plan) ==
    /\ "--settings" \in plan.args /\ "--agent" \in plan.args
    /\ plan.home = "auth_profile"
    /\ "mcp" \in intent => "--strict-mcp-config" \in plan.args
    /\ <<"settings", "">> \in plan.files
    /\ plan.config.sandboxed
    /\ d.shell # "never" => ~plan.config.autoAllow
    /\ plan.config.deny = ClaudeConfig(d, report).deny
    /\ plan.config.ask = ClaudeConfig(d, report).ask
    /\ plan.config.allow = ClaudeConfig(d, report).allow

KiroMatches(d, intent, report, plan) ==
    /\ plan.home = "workspace"
    /\ <<"agent", "">> \in plan.files
    /\ plan.config.tools = KiroConfig(d, report).tools
    /\ plan.config.denyByDefault = (d.shell = "always")

CodexMatches(d, plan) ==
    /\ plan.home = "private"
    /\ "--sandbox" \notin plan.args
    /\ "--ask-for-approval" \in plan.args
    /\ <<"config", "">> \in plan.files
    /\ plan.config.approval = ApprovalFlag(d)
    /\ plan.config.workspace = WorkspaceAccess(d)
    /\ d.network = "deny" => ~plan.config.network

Matches(d, intent, report, plan) ==
    CASE plan.host = "claude-code" -> ClaudeMatches(d, intent, report, plan)
      [] plan.host = "kiro"        -> KiroMatches(d, intent, report, plan)
      [] plan.host = "codex"       -> CodexMatches(d, plan)

\* Evaluation.Project succeeds with this plan.
Reconciled(d, intent, report, plan) ==
    /\ Matches(d, intent, report, plan)
    /\ IntentRealised(intent, report, plan)
    /\ LaunchSafe(plan)

-----------------------------------------------------------------------------
(* The session a host makes of a plan, by the rules the adapters rely on:  *)
(* what it does with a tool is deny, ask, ask when the model thinks it      *)
(* should (on_request), or go ahead (silent).                               *)

ClaudeEffect(config, tool) ==
    IF tool \notin config.tools \/ tool \in config.deny THEN "deny"
    ELSE IF tool \in config.ask /\ ~(config.sandboxed /\ config.autoAllow) THEN "ask"
    ELSE "silent"

KiroEffect(config, tool) ==
    IF tool \notin config.tools THEN "deny"
    ELSE IF tool \in config.allowed THEN "silent" ELSE "ask"

CodexEffect(config, tool) ==
    CASE tool = Builtin("read")  -> IF config.workspace = "deny" THEN "deny" ELSE "silent"
      [] tool = Builtin("write") -> IF config.workspace = "write" THEN "silent" ELSE "deny"
      [] tool = Builtin("web")   -> IF config.network THEN "silent" ELSE "deny"
      [] tool = Builtin("shell") -> IF config.approval = "never" THEN "silent" ELSE "on_request"
      [] OTHER                   -> IF tool \in config.tools THEN "silent" ELSE "deny"

Effect(plan, tool) ==
    CASE plan.host = "claude-code" -> ClaudeEffect(plan.config, tool)
      [] plan.host = "kiro"        -> KiroEffect(plan.config, tool)
      [] plan.host = "codex"       -> CodexEffect(plan.config, tool)
=============================================================================
