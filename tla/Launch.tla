------------------------------- MODULE Launch -------------------------------
(***************************************************************************)
(* `a2h check` and `a2h run`, from the command line to the exit code: the   *)
(* target is resolved, the host probed and judged, the user asked, the plan *)
(* projected and authorised, the work root made, the host started.          *)
(*                                                                         *)
(* One command runs at a time.  Around it, at every step, the world moves:  *)
(* the System is registered again or removed, hosts are installed, upgraded *)
(* and removed, the work root comes and goes.  The run directory itself,    *)
(* and what other commands do to it, is the subject of RunLifecycle.        *)
(***************************************************************************)
EXTENDS Adapters

CONSTANTS
    Declaration,  \* what the target can be registered as
    CommandLine,  \* the command lines tried (a bound of the model)
    MaxCommands,  \* how many commands a behaviour runs (a bound of the model)
    MaxChanges    \* how often the world moves (a bound of the model)

ASSUME BoundAssumption == MaxCommands \in Nat /\ MaxChanges \in Nat

\* The schemas let no id be empty, and a hook is an entry of a declared list.
ASSUME DeclarationAssumption ==
    \A d \in Declaration :
        "" \notin DOMAIN d.servers /\ (DOMAIN d.hooks # {} => d.hooksDeclared)

VARIABLES
    agent,       \* the declaration the target is registered with
    registered,  \* it is registered at all
    installed,   \* host -> what probing it would find
    root,        \* the directory the work root names is there
    pc, cmd,     \* the next step and the command line
    run,         \* the ResolvedAgentRun: the declaration of this command
    probe,       \* what the probe of this command found
    report,      \* the compatibility report of this command
    acceptance,  \* WarningAcceptance
    auth,        \* Authorization: minted for a report and its plans
    begun,       \* the run directory was created by this command
    made,        \* history: the work root was created by this command
    agreed,      \* history: what the user of this command was told and took
    forecast,    \* history: the last check that came to a decision
    exit, commands, changes

world == <<agent, registered, installed, root, changes>>
local == <<run, probe, report, acceptance, auth, begun, made, agreed, forecast>>
vars  == <<world, pc, cmd, local, exit, commands>>

\* A host is absent, or its version verified, not verified, or not to be had.
Standings == {"absent", "verified", "unverified", "unknown"}
Found(standing) == standing # "absent"

\* check has no warnings to accept and nobody to ask.
Command == {c \in [kind : {"check", "run"}, host : Hosts, strict : BOOLEAN,
                   accept : BOOLEAN, tty : BOOLEAN, project : BOOLEAN] :
              c.kind = "check" => ~c.accept /\ ~c.tty}

ASSUME CommandAssumption == CommandLine \subseteq Command

CheckSteps == {"idle", "resolve", "root", "evaluate", "project"}
RunSteps   == CheckSteps \union {"recover", "confirm", "prompt", "ensure", "begin", "execute", "host"}
Exits      == {"none", "ok", "refused", "usage", "precondition", "host_process", "internal"}

NoReport     == [decision |-> "none"]
NoAcceptance == [decision |-> "none"]
NoAuth       == [decision |-> "none"]
NoForecast   == [decision |-> "none"]

Init ==
    /\ agent \in Declaration
    /\ registered = TRUE
    /\ installed = [h \in Hosts |-> "verified"]
    /\ root \in BOOLEAN
    /\ pc = "idle"
    /\ cmd = [kind |-> "check", host |-> "codex", strict |-> FALSE,
              accept |-> FALSE, tty |-> FALSE, project |-> FALSE]
    /\ run = agent
    /\ probe = "absent"
    /\ report = NoReport
    /\ acceptance = NoAcceptance
    /\ auth = NoAuth
    /\ begun = FALSE
    /\ made = FALSE
    /\ agreed = {}
    /\ forecast = NoForecast
    /\ exit = "none"
    /\ commands = 0
    /\ changes = 0

Goto(from, to) ==
    /\ pc = from
    /\ pc' = to
    /\ UNCHANGED <<cmd, exit, commands>>

Exit(code) ==
    /\ pc' = "idle"
    /\ exit' = code
    /\ UNCHANGED <<cmd, commands>>

-----------------------------------------------------------------------------
(* Up to the evaluation *)

Start ==
    /\ pc = "idle" /\ commands < MaxCommands
    /\ cmd' \in CommandLine
    /\ pc' = "resolve"
    /\ exit' = "none"
    /\ commands' = commands + 1
    /\ probe' = "absent"
    /\ report' = NoReport
    /\ acceptance' = NoAcceptance
    /\ auth' = NoAuth
    /\ begun' = FALSE
    /\ made' = FALSE
    /\ agreed' = {}
    /\ UNCHANGED <<world, run, forecast>>

\* A native argument after the target ends `run` before anything is read.
RejectNativeArgs ==
    /\ pc = "resolve" /\ cmd.kind = "run"
    /\ Exit("usage")
    /\ UNCHANGED <<world, local>>

Resolve ==
    /\ pc = "resolve"
    /\ \/ ~registered /\ Exit("precondition") /\ UNCHANGED run
       \/ /\ registered
          /\ run' = agent
          /\ Goto("resolve", IF cmd.kind = "run" THEN "recover" ELSE "root")
    /\ UNCHANGED <<world, probe, report, acceptance, auth, begun, made, agreed, forecast>>

Recover ==
    /\ pc = "recover"
    /\ Goto("recover", "root") \/ Exit("precondition")
    /\ UNCHANGED <<world, local>>

\* Mutant: the work root is made when it is resolved.
RootMadeEarly ==
    /\ pc = "root"
    /\ Goto("root", "evaluate")
    /\ root' = TRUE
    /\ made' = (run.workroot = "fixed" /\ ~root)
    /\ UNCHANGED <<agent, registered, installed, changes, run, probe, report,
                   acceptance, auth, begun, agreed, forecast>>

\* resolveAndPrintWorkRoot: a fixed root may be missing, and takes no --project.
ResolveRoot ==
    /\ pc = "root"
    /\ \/ run.workroot = "fixed" /\ cmd.project /\ Exit("usage")
       \/ run.workroot = "invocation" /\ ~root /\ Exit("precondition")
       \/ /\ IF run.workroot = "fixed" THEN ~cmd.project ELSE root
          /\ Goto("root", "evaluate")
    /\ UNCHANGED <<world, local>>

-----------------------------------------------------------------------------
(* The decision *)

\* Mutant: the version is looked at by check alone.
GateOfCheck(judged, standing, strict, execute) ==
    [judged EXCEPT !.decision =
       IF strict THEN "refused"
       ELSE IF standing = "unverified" /\ ~execute /\ @ = "allowed"
            THEN "allowed_with_warnings" ELSE @]

\* ApplyRunPolicy.  No host enforces strict reads.  A version outside the
\* verified set refuses a run and makes a check warn; one that could not be
\* read does neither.
Gate(judged, standing, strict, execute) ==
    [judged EXCEPT !.decision =
       IF strict \/ (standing = "unverified" /\ execute) THEN "refused"
       ELSE IF standing = "unverified" /\ @ = "allowed" THEN "allowed_with_warnings"
       ELSE @]

\* EvaluatePipeline
Judge(d, host, standing, strict, execute) ==
    Gate(Report(Requirement(d), Assess(host, d, Found(standing))), standing, strict, execute)

\* Mutant: check goes on to ask for confirmation.
EvaluateThenConfirm ==
    /\ pc = "evaluate"
    /\ probe' = installed[cmd.host]
    /\ report' = Judge(run, cmd.host, probe', cmd.strict, cmd.kind = "run")
    /\ Goto("evaluate", "confirm")
    /\ UNCHANGED <<world, run, acceptance, auth, begun, made, agreed, forecast>>

EvaluatePipeline ==
    /\ pc = "evaluate"
    /\ probe' = installed[cmd.host]
    /\ report' = Judge(run, cmd.host, probe', cmd.strict, cmd.kind = "run")
    /\ IF cmd.kind = "run" THEN Goto("evaluate", "confirm") /\ UNCHANGED forecast
       ELSE /\ IF report'.decision = "refused" THEN Exit("refused")
                                               ELSE Goto("evaluate", "project")
            /\ forecast' = [decl |-> run, host |-> cmd.host, standing |-> probe',
                            strict |-> cmd.strict, decision |-> report'.decision]
    /\ UNCHANGED <<world, run, acceptance, auth, begun, made, agreed>>

\* BindingOf: what was judged and where.
BindingOf == <<run, cmd.host, probe>>

Accept ==
    /\ acceptance' = [decision |-> report.decision, warnings |-> WarningSet(report),
                      binding |-> BindingOf]
    /\ agreed' = {WarningSet(report)}
    /\ UNCHANGED <<run, probe, report, auth, begun, made, forecast>>

\* ConfirmWarnings
ConfirmWarnings ==
    /\ pc = "confirm"
    /\ LET asks == report.decision = "allowed_with_warnings" /\ ~cmd.accept IN
       \/ report.decision = "refused" /\ Exit("refused") /\ UNCHANGED local
       \/ report.decision # "refused" /\ ~asks /\ Goto("confirm", "project") /\ Accept
       \/ asks /\ cmd.tty /\ Goto("confirm", "prompt") /\ UNCHANGED local
       \/ asks /\ ~cmd.tty /\ Exit("refused") /\ UNCHANGED local
    /\ UNCHANGED world

AnswerPrompt ==
    /\ pc = "prompt"
    /\ \/ Goto("prompt", "project") /\ Accept
       \/ Exit("refused") /\ UNCHANGED local
    /\ UNCHANGED world

-----------------------------------------------------------------------------
(* The authorisation *)

Projected == Plan(cmd.host, run, report)

ProjectSucceeds ==
    Reconciled(run, Intent(cmd.host, run, Found(probe)), report, Projected)

\* WarningAcceptance.Matches; only a host that was probed has a fingerprint.
AcceptanceMatches ==
    /\ acceptance.decision = report.decision
    /\ acceptance.warnings = WarningSet(report)
    /\ acceptance.binding = BindingOf

MintedFor(r) ==
    [decision |-> r.decision, warnings |-> WarningSet(r), binding |-> BindingOf,
     plan |-> Plan(cmd.host, run, r), accepted |-> r.decision = "allowed_with_warnings",
     executable |-> Found(probe)]

\* Mutant: the target is resolved again for the projection.
ProjectLatest ==
    /\ pc = "project"
    /\ IF cmd.kind = "check" THEN Exit("ok") /\ UNCHANGED auth
       ELSE LET judged == Judge(agent, cmd.host, probe, cmd.strict, TRUE)
            IN  /\ Goto("project", "ensure")
                /\ auth' = [MintedFor(report) EXCEPT !.plan = Plan(cmd.host, agent, judged)]
    /\ UNCHANGED <<world, run, probe, report, acceptance, begun, made, agreed, forecast>>

\* Evaluation.Project, and for `run` MintAuthorization.
Project ==
    /\ pc = "project"
    /\ IF ~ProjectSucceeds THEN Exit("internal") /\ UNCHANGED auth
       ELSE IF cmd.kind = "check" THEN Exit("ok") /\ UNCHANGED auth
       ELSE IF ~AcceptanceMatches THEN Exit("refused") /\ UNCHANGED auth
       ELSE auth' = MintedFor(report) /\ Goto("project", "ensure")
    /\ UNCHANGED <<world, run, probe, report, acceptance, begun, made, agreed, forecast>>

-----------------------------------------------------------------------------
(* The start *)

\* EnsureWorkRoot: the directory may have come or gone since it was resolved.
EnsureWorkRoot ==
    /\ pc = "ensure"
    /\ \/ root /\ Goto("ensure", "begin") /\ UNCHANGED <<root, made>>
       \/ /\ ~root /\ run.workroot = "fixed"
          /\ root' = TRUE /\ made' = TRUE
          /\ Goto("ensure", "begin")
       \/ ~root /\ Exit("precondition") /\ UNCHANGED <<root, made>>
    /\ UNCHANGED <<agent, registered, installed, changes, run, probe, report,
                   acceptance, auth, begun, agreed, forecast>>

BeginRun ==
    /\ pc = "begin"
    /\ \/ Goto("begin", "execute") /\ begun' = TRUE
       \/ Exit("precondition") /\ UNCHANGED begun
    /\ UNCHANGED <<world, run, probe, report, acceptance, auth, made, agreed, forecast>>

\* ValidFor
AuthValid ==
    /\ report.decision # "refused" /\ auth.decision # "refused"
    /\ "allowed_with_warnings" \in {report.decision, auth.decision} => auth.accepted
    /\ auth.binding = BindingOf
    /\ auth.warnings = WarningSet(report)
    /\ auth.decision = report.decision
    /\ auth.executable

\* A required secret may be missing from the environment; materialising or
\* starting may fail, and does where the executable has gone.
Execute ==
    /\ pc = "execute"
    /\ IF ~AuthValid THEN Exit("precondition")
       ELSE \/ /\ \E id \in auth.plan.secrets : SecretNeed(run, id) = "required"
               /\ Exit("precondition")
            \/ Exit("internal")
            \/ Found(installed[cmd.host]) /\ Goto("execute", "host")
    /\ UNCHANGED <<world, local>>

HostExits ==
    /\ pc = "host"
    /\ Exit("ok") \/ Exit("host_process")
    /\ UNCHANGED <<world, local>>

-----------------------------------------------------------------------------
(* The world *)

Moves ==
    /\ changes < MaxChanges
    /\ changes' = changes + 1
    /\ UNCHANGED <<pc, cmd, local, exit, commands>>

RegisterAgain ==
    /\ \E d \in Declaration : agent' = d /\ (d # agent \/ ~registered)
    /\ registered' = TRUE
    /\ UNCHANGED <<installed, root>>
    /\ Moves

Unregister ==
    /\ registered
    /\ registered' = FALSE
    /\ UNCHANGED <<agent, installed, root>>
    /\ Moves

ChangeHost ==
    /\ \E h \in Hosts, s \in Standings :
          s # installed[h] /\ installed' = [installed EXCEPT ![h] = s]
    /\ UNCHANGED <<agent, registered, root>>
    /\ Moves

ChangeRoot ==
    /\ root' = ~root
    /\ UNCHANGED <<agent, registered, installed>>
    /\ Moves

Next ==
    \/ Start \/ RejectNativeArgs \/ Resolve \/ Recover \/ ResolveRoot
    \/ EvaluatePipeline \/ ConfirmWarnings \/ AnswerPrompt \/ Project
    \/ EnsureWorkRoot \/ BeginRun \/ Execute \/ HostExits
    \/ RegisterAgain \/ Unregister \/ ChangeHost \/ ChangeRoot

Spec == Init /\ [][Next]_vars
-----------------------------------------------------------------------------
(* Properties *)

\* Every variable is of its type, and a check never gets beyond the steps of a
\* check: it neither asks, nor authorises, nor starts anything.
TypeOK ==
    /\ agent \in Declaration /\ run \in Declaration
    /\ registered \in BOOLEAN /\ root \in BOOLEAN
    /\ installed \in [Hosts -> Standings]
    /\ cmd \in Command
    /\ pc \in IF cmd.kind = "check" THEN CheckSteps ELSE RunSteps
    /\ probe \in Standings
    /\ report.decision \in Decisions \union {"none"}
    /\ acceptance.decision \in Decisions \union {"none"}
    /\ auth.decision \in Decisions \union {"none"}
    /\ forecast.decision \in Decisions \union {"none"}
    /\ begun \in BOOLEAN /\ made \in BOOLEAN
    /\ exit \in Exits
    /\ commands \in 0 .. MaxCommands /\ changes \in 0 .. MaxChanges

\* A host runs only what was agreed to: the warnings the user took are those of
\* the report, nothing refused is started, and the files, arguments and secrets
\* handed to Execute are those this declaration and that report project to,
\* whatever became of the registration, the hosts and the root meanwhile.
StartsAsAgreed ==
    pc = "host" =>
        /\ report.decision # "refused"
        /\ agreed = {WarningSet(report)}
        /\ auth.warnings = WarningSet(report)
        /\ auth.plan = Plan(cmd.host, run, report)

\* Whatever evaluation admits can be projected: the plan built from a report
\* that does not refuse passes the reconciliation with the promised controls,
\* so that neither command ends in an internal error there.
AdmittedProjects == pc = "project" => ProjectSucceeds

\* A check, a refusal, and a run whose warnings were not taken leave no trace:
\* neither a work root nor a run directory is made.
NoTraceOfRefusal ==
    (cmd.kind = "check" \/ report.decision = "refused" \/ agreed = {}) => ~made /\ ~begun

Severity(decision) ==
    IF decision = "refused" THEN 2 ELSE IF decision = "allowed_with_warnings" THEN 1 ELSE 0

\* This command judges what the last check judged.
SameQuestion ==
    /\ forecast.decision # "none" /\ report.decision # "none"
    /\ cmd.kind = "run"
    /\ forecast.decl = run /\ forecast.host = cmd.host
    /\ forecast.standing = probe /\ forecast.strict = cmd.strict

\* A check tells what a run will do: the same declaration on the same host gets
\* the same decision from both, but for a version outside the verified set,
\* which a run refuses whatever the check said.
CheckPredictsRun ==
    SameQuestion =>
        report.decision = IF probe = "unverified" THEN "refused" ELSE forecast.decision

\* Above all, a run is never judged more kindly than the check before it.
RunNeverLaxer ==
    SameQuestion => Severity(report.decision) >= Severity(forecast.decision)

\* What the declaration lets a session do without asking.
Granted(d) ==
    When(d.read, {Builtin("read")}) \union When(d.write, {Builtin("write")}) \union
    When(d.network = "allow", {Builtin("web")}) \union
    When(d.shell = "never", {Builtin("shell")}) \union Tools(d)

\* A required read-only sandbox is kept or the host refused, "rather than fall
\* back to an unsandboxed or writable session" (permissions-and-safety.md).
ReadOnlyKept ==
    pc = "host" /\ run.sandbox = [need |-> "required", mode |-> "read_only"] =>
        Effect(auth.plan, Builtin("write")) # "silent"

\* Where every shell command must be confirmed a host that cannot guarantee it is
\* refused (permissions-and-safety.md): what is started asks each time, or never
\* lets the model use the shell.
ShellConfirmed ==
    pc = "host" /\ run.shell = "always" =>
        Effect(auth.plan, Builtin("shell")) \in {"ask", "deny"}

\* What the permissions guide promises of a started session beyond its permissions.
GuideKept == ReadOnlyKept /\ ShellConfirmed

\* What a started session does silently is within the declared permissions,
\* whichever files and flags the host takes them from; and Kiro and Codex keep a
\* required read-only sandbox. What the guide promises beyond that is GuideKept,
\* and is not kept: Claude Code has a writable session, Codex asks where it sees fit.
SessionWithinDeclaration ==
    pc = "host" =>
        /\ cmd.host \in {"kiro", "codex"} => ReadOnlyKept
        /\ \A tool \in {Builtin(b) : b \in {"read", "write", "web", "shell"}} \union Tools(run) :
              Effect(auth.plan, tool) = "silent" => tool \in Granted(run)

\* The secrets of a server or a hook of a started session reach the file that
\* configures it: the file is written and Execute resolves the secret, or the
\* host expands it from its environment.  None is written where the model reads.
SecretsConfined ==
    pc = "host" =>
        /\ \A slot \in auth.plan.slots :
              /\ slot[1] \in auth.plan.files /\ slot[2] \in auth.plan.secrets
              /\ ~ModelReadable(cmd.host, slot[1])
        /\ \A id \in Configured(cmd.host, run, report) :
              \/ \E slot \in auth.plan.slots : slot[2] = id
              \/ id \in auth.plan.expands /\ id \in auth.plan.exports

\* Everything the declaration requires is in a started session: the skills and
\* contexts are among its files, and the tools a required skill or the allow
\* list of a server requires can be called.
RequiredIsOffered ==
    pc = "host" =>
        /\ \A s \in DOMAIN run.skills :
              run.skills[s].need = "required" => <<"skill", s>> \in auth.plan.files
        /\ \A c \in DOMAIN run.contexts :
              run.contexts[c].need = "required" => <<"context", c>> \in auth.plan.files
        /\ \A id \in Tools(run) :
              ToolNeed(run, id) = "required" => Effect(auth.plan, id) # "deny"

\* The user of this command went ahead with that reason among the warnings.
Said(reason) ==
    /\ agreed # {}
    /\ \A warnings \in agreed :
          warnings[1] = "allowed_with_warnings" /\ reason \in DOMAIN warnings[2]

\* Where a session falls short of its declaration the user was told why and went
\* ahead: a network it cannot prove it denies, and hooks that are not projected.
ShortfallIsSaid ==
    pc = "host" =>
        /\ SessionNetwork(cmd.host, run) = "unknown" => Said("insufficient_evidence")
        /\ DOMAIN run.hooks \ auth.plan.config.hooks # {} => Said("visible_loss")

\* The stage of RunProtocol a command is at; a check stays out of it.
Stage ==
    IF cmd.kind = "check" THEN "out" ELSE
    CASE pc = "recover" -> "recovering"
      [] pc \in {"root", "evaluate", "confirm", "prompt", "project", "ensure"} -> "deciding"
      [] pc = "begin"   -> "reserving"
      [] pc = "execute" -> "holding"
      [] pc = "host"    -> "hosting"
      [] OTHER          -> "out"

\* Every command that is a run takes the stages of a run in their order.
Protocol == INSTANCE RunProtocol WITH stage <- Stage
ProtocolSpec == Protocol!Spec

-----------------------------------------------------------------------------
(* Why they hold: the invariant the proofs strengthen them to *)

BeforeReport == {"resolve", "recover", "root", "evaluate"}
Authorised   == {"ensure", "begin", "execute", "host"}

\* A report is the judgement of this command, a forecast that of its check.
Judged ==
    /\ pc \in BeforeReport => report = NoReport
    /\ pc \notin BeforeReport \union {"idle"} => report.decision # "none"
    /\ report.decision # "none" =>
          report = Judge(run, cmd.host, probe, cmd.strict, cmd.kind = "run")
    /\ forecast.decision # "none" =>
          /\ forecast.strict \in BOOLEAN
          /\ forecast.decision =
               Judge(forecast.decl, forecast.host, forecast.standing, forecast.strict,
                     FALSE).decision

\* What is projected is not refused and, in a run, agreed to; what is authorised
\* is what was projected; only then is anything made.
Consented ==
    /\ pc = "prompt" => report.decision = "allowed_with_warnings"
    /\ pc \in {"project"} \union Authorised => report.decision # "refused"
    /\ pc \in {"project"} \union Authorised /\ cmd.kind = "run" =>
          agreed = {WarningSet(report)}
    /\ pc \in Authorised => auth = MintedFor(report)
    /\ pc \in BeforeReport \union {"confirm", "prompt", "project"} => ~made /\ ~begun
    /\ made \/ begun =>
          cmd.kind = "run" /\ report.decision # "refused" /\ agreed # {}

LaunchInv == TypeOK /\ Judged /\ Consented

=============================================================================
