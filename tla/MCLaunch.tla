------------------------------ MODULE MCLaunch ------------------------------
(***************************************************************************)
(* Two commands on Agents that each stress one part of the adapters.        *)
(***************************************************************************)
EXTENDS Launch, TLC

CONSTANTS skill, context, server, hook, tool, other, token

Nothing == [x \in {} |-> "required"]

\* The security baseline of the format, and nothing to project but the SOP.
Baseline ==
    [skills |-> Nothing, contexts |-> Nothing, servers |-> Nothing, hooks |-> Nothing,
     hooksDeclared |-> FALSE, environment |-> Nothing, output |-> "none",
     sandbox |-> [need |-> "optional", mode |-> "workspace_write"],
     shell |-> "on_boundary", network |-> "deny", read |-> TRUE, write |-> TRUE,
     workroot |-> "fixed"]

\* A required skill uses a tool the allow list has as optional.
Equipped ==
    [Baseline EXCEPT
       !.skills   = [s \in {skill} |-> [need |-> "required", tools |-> {<<server, tool>>}]],
       !.contexts = [c \in {context} |-> [need |-> "required", isolation |-> "required"]],
       !.servers  = [s \in {server} |->
                       [tools   |-> (tool :> "optional") @@ (other :> "required"),
                        secrets |-> (token :> "optional")]],
       !.environment = (token :> "required"),
       !.network = "allow"]

\* Hooks with a secret, a confirmation before every shell command.
Hooked(need) ==
    [Baseline EXCEPT
       !.hooks = [h \in {hook} |-> [need |-> need, secrets |-> (token :> "required")]],
       !.hooksDeclared = TRUE,
       !.shell = "always"]

\* No file access, no confirmation, and a root of the caller's.
Closed ==
    [Baseline EXCEPT !.read = FALSE, !.write = FALSE, !.shell = "never",
                     !.workroot = "invocation"]

\* A required sandbox that asks for less than the permissions give.
ReadOnly ==
    [Baseline EXCEPT !.sandbox = [need |-> "required", mode |-> "read_only"],
                     !.network = "allow", !.output = "best_effort", !.hooksDeclared = TRUE]

\* What no host can do: validate the output.
Validated == [Baseline EXCEPT !.output = "required"]

MCDeclaration == {Baseline, Equipped, Hooked("required"), Closed, ReadOnly, Validated}

\* Every host, with and without --strict-read, --project, --accept-warnings and
\* a terminal; not every combination of them.
MCCommandLine ==
    {c \in Command :
        /\ c.strict  => c.kind = "check" \/ c.tty
        /\ c.project => ~c.strict /\ ~c.accept
        /\ c.accept  => ~c.tty}

=============================================================================
