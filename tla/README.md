# Agent2Host in TLA+

Agent2Host (`a2h`) installs declared agents ("Systems") from a source tree,
judges whether a host on this machine (Claude Code, Kiro, Codex) can run one of
their Agents as declared, and if so starts the host with a projected
configuration. It is a command-line program: there is no server, and all that
commands share is files under one home directory. What can go wrong is
therefore of two kinds:

- commands that overlap, die or fail half way, on shared files;
- decisions that must fail closed: from what an adapter can prove about a host
  to the question whether the host is started, and with what.

This directory specifies both. The reference is the Go code under
`src/internal`; paths below are relative to it. `PROJECT.json` maps every
definition to the lines it models.

## 1. Inventory

### Components, their state and operations

| Component (code) | State | Operations | Module |
| --- | --- | --- | --- |
| Agent Space (`space/`, `space/registry`, `space/store`) | `registry.json`, `artifacts/sha256-*`, one lock file per system, `registry.lock` | register, remove, inspect, list; WithWrite, Publish, Load, GCUnreferenced | `Catalog`, `AgentSpace` |
| Run lifecycle (`runtime/prepare.go`, `execute.go`, `lifecycle.go`, `runlock.go`) | `runs/<id>` with `live.lock`, `secret-baseline/` and the recovered mark; `quarantine/<id>`; `records/<id>.json` | BeginRun, Execute, RecoverLeftovers, Clean, InvalidateSystem | `RunLifecycle` |
| Host sign-in state (`runtime/hoststate.go`, `adapter/hoststate`) | `auth-profiles/<host>/…`: the sign-in, its lock file, temporary files; the private copy of each run | bind, watch, save, `clean --host-state` | `HostState` |
| Compatibility (`compatibility/`) | none: a function from requirement and facts to a report | Evaluate, WarningSet, BuildRequirement, Authorization's digests | `Evaluate`, `Evidence` |
| Host adapters (`adapter/` and `adapter/{claude,kiro,codex}`) | none: functions of the resolved Agent, the probe and the report | Probe, Assess, Intent, Project, ReconcilePlans | `Adapters` |
| The commands check and run (`cli/`, `adapter/pipeline.go`, `runtime/auth.go`) | one command's report, consent, authorisation; the work root | resolve, recover, evaluate, confirm, project, authorise, begin, execute | `Launch` |
| Files of a started host (`runtime/secrets.go`, `materialize.go`, the plans of the adapters) | the files of a run directory; `auth-profiles/claude-code/…/{agents,skills}`; the environment of the host process | materialize, resolveSecrets, overlaySecrets, wipe | `HostFiles` (what), `RunLifecycle` (when), `Adapters` (which) |
| Work root (`runtime/workroot.go`) | one directory | resolve, ensure | `Launch` (the outcome) |
| Host process (`runtime/process.go`) | the child process | start, forward signals, wait | `RunLifecycle`, `HostState` (start and exit) |
| Source validation (`source/graph`, `source/semantic`, `source/path`) | what one register has read (`Snapshot`) | LoadSystem, LoadAgent, Closure, declarations and role merge, CheckDeclared, Canonicalize, Collide, CheckProcess | `Source` |
| Artifact and closure (`artifact/`, `space/resolve.go`, `adapter/workspace_bind.go`) | the payload of an artifact | Inclusion, CheckManifest, Build, closure, BindWorkspaceLocal, SystemLocalCommands | `Source` |
| JSON reader, decoding, schemas (`source/jsonreader`, `decode`, `schema`) | none | ReadStrict, decode | not modelled |
| Output, encoders, durable writes, fixtures, docs, packaging | none | | not modelled |

### How they interact

`register` reads a tree file by file while its author may edit it, validates
what it read, publishes exactly that as an artifact and then writes its record; `remove` deletes the record, deletes the run leftovers of the system
(InvalidateSystem) and collects artifacts. `check` and `run` resolve a target
through the registry and the store, without a lock, and never look back: what
follows works on the resolved copy. `run` sweeps leftovers twice (before it
judges and after the user agreed), makes the work root, reserves a run
directory, writes the plan there (with Claude Code partly into the profile that
all its runs share), overlays secret values, binds the host's sign-in, starts the host, waits, saves the sign-in, wipes the values and
deletes the directory. Nothing but the files and the locks on them couples two
commands: a flock per system and one for the registry, one flock per profile,
and for run directories a pid in `live.lock` that others test for life.

### What is hard

- **Interleaving.** The collection of `remove` runs under its own system's lock
  only; recovery reads a lock file once and then acts on the directory for many
  steps; the watcher of one run writes a profile another run uses; `clean`
  deletes what it listed earlier.
- **Crashes and failures.** Any step may be the last; locks go with the process
  and files stay. Every file operation may fail, and the wipe of secret values
  and the removals that follow may fail after the outcome is decided.
- **Stale decisions.** A report is made once and used by the consent, the
  projection, the authorisation and Execute while the registration, the host
  and the work root may change.
- **Two computations of one set.** What a tree declares, what its artifact
  contains and what a run asks for are computed by three pieces of code; a name
  is canonicalised in some places and compared as written in others.
- **Failing closed.** A decision is computed from a dozen sections, each with
  its own reading of an absent field; the plan is computed by other code from
  the same rows, per host, and is checked by a third piece.

The hazards are listed one by one, with the line where each bites, in
`PROJECT.json`.

### What makes each part correct

- Agent Space: the registry behaves as an atomic map that never changes a
  provenance silently; a record names an artifact that is there; no command
  waits for ever.
- Source: what validation admits, building accepts; an artifact is valid by its
  own bytes although its files were read one by one; every Agent of it resolves
  from it alone, with the tools its skills need and the local files its commands
  name.
- Run lifecycle: a running host keeps its files; a value outlives a run only
  after a crash or a reported error, and the next recovery deals with it.
- Host state: a sign-in made in a host is in the profile afterwards, or the
  user was told; runs one after another never bring an older one back.
- Files of a host: each entry gets the value of its own variable, in whatever
  order the names are replaced; a host finds the instructions of its own Agent.
- Compatibility: what is required is never omitted; an omission is always said;
  unproven permissions refuse; less evidence never helps.
- Adapters and commands: a host starts with the plan the user agreed to and
  nothing is made before; the session does silently only what was declared and
  offers all that was required.

## 2. Modules

```
Source <-- MCSource, SourceProofs
Catalog <--refines-- AgentSpace <-- MCAgentSpace, AgentSpaceProofs
Custody <--refines-- RunLifecycle <-- MCRunLifecycle, RunLifecycleProofs
RunProtocol <--refines-- RunLifecycle, Launch
                     HostState <-- MCHostState, HostStateProofs
                     HostFiles <-- MCHostFiles, HostFilesProofs
Evaluate <-- Evidence <-- MCEvidence, EvidenceProofs
   ^  ^
   |  EvaluateProofs <-- EvidenceProofs, LaunchProofs
   |
Adapters <-- Launch <-- MCLaunch, LaunchProofs
```

**Catalog** is the promise of the registry: install, update, uninstall, each
one step. **AgentSpace** is the code: a process takes the steps of
`space.Register`, `Remove` and `Inspect` one at a time. `registry` is the
content of `registry.json`, replaced in one step because `WithWrite` renames a
complete file; `art` is `absent`, `partial` or `whole`, because publication is
a rename and `RemoveAll` is not; `doc` is the document a writer re-read under
`registry.lock`. `Fail` is the error return of the step a process is at,
`Crash` its death. `exposed` is history: the revisions published while a
collection that had already read its keep set was running.

**Source** is one `register` at a time, from the author's tree to the payload of
an artifact, and, as operators on a payload, what a run is given of it. A path
is the sequence of its segments, so that `./a`, `../a` and `/a` are told apart
as `Canonicalize` and `classifyCommand` do; a file is its kind (a document, a
text, a schema, a binary, a link, one the hard-deny rules refuse). `disk` is the
author's tree, which `Edit` changes between any two steps; `snap` is
`Snapshot.files`, in which a path is read once; `store` holds payloads, each its
own revision. `LoadSystem`, `LoadAgent`, `Declare` and `LoadDeclared` are
`semantic.tree` step by step; a file declared in several roles is checked under
the strictest only (`MergeRoles`), a document that is also declared as a file is
not checked again. `Publish` is Inclusion, CheckManifest and Build; `broken` is
the state in which they would refuse what was validated. `Closure`,
`BindWorkspaceLocal` and `SystemLocalCommands` are what a run makes of a payload.
Source ends where AgentSpace begins: a payload is one of its revisions.
Two details the model keeps: the files of a server that offers no tool are
checked but not packed (and nothing asks for them); and a PATH command or an
opaque argument that equals the canonical name of a packed file is bound to that
file, although `workspace_bind.go:10-12` says such tokens are left unchanged.

**RunLifecycle** has one process per run directory. `runs[r]` is what recovery
reads of a directory: exists, locked, baseline, recovered mark, and what its
secret-bearing files hold (`none`, `plan`, `values`). Each file-system operation
that another process can see is an action, each may fail, and the failing paths
(`Unwind`, `Abort`, `Discard`, `Isolate`) follow the deferred calls of Execute.
`writeLiveLock` truncates and then writes, and Execute calls it twice: the first
time nobody can tell the empty file from none (`LockRun`), the second time
(`Relock`, `RewriteLock`) the lock is there, is empty for a moment with secret
values already on disk, and stays empty if the write fails or the process dies.
A lock that is left empty counts as none (`EmptyLock`): `runIsLive` makes no
difference. `judged` and `cut` are history: found not live while its lock was
being written, the first or the second time (`Unwritten`), and touched by a
removal.

**Custody** is the promise about the secret values of one run: where there are
values (the run directory, quarantine) and how far the run has come. Values come
before the host starts, stay while it runs, leave in the end whoever takes them
away, and never come back; success means none are left. RunLifecycle implements
it for each of its runs: `Places` and `Course` read its state off directories and
program counters, and `disturbed` is `judged`. **RunProtocol** is the order of
what one `a2h run` does: recover, decide, reserve, hold, host, with a way out at
each stage. Launch implements it for one command from the command line to the
exit code (a check stays `out`), RunLifecycle for each of its processes, so that
the two models agree on the order in which they are to be read together.

**HostState** copies Codex's `auth.json`. Contents are version numbers; a lock
file is an inode, since a flock belongs to the inode and `clean` unlinks the
name. A copy is `open`, `lock`, `read`, `rename`: reading the source and
writing the temporary file are one action, because only the run itself changes
the private file in between and nobody reads a temporary file. The bind's
temporary file lies where no other process looks and is left out. What the host
itself writes to its sign-in file is there at once: how it saves is not in this
code, and a copy that reads half a file is left out. Claude Code
works in the profile itself and Kiro binds nothing: neither has a copy.

**HostFiles** is what Execute leaves for a host between `attachAuthProfile` and
the start of the process. `profile` is the part of Claude Code's profile that
plans write to, shared by all its runs and never cleared between them;
`unwritten` are the instructions `materialize` has still to open, in any order
(the code's order is one of them). `os.WriteFile` truncates the file
(`OpenInstruction`) and then writes it (`WriteInstruction`); in between, and for
good if the run fails or dies there, it is `Cut`. Another run may write its own
text into the same file meanwhile; if that is longer its tail may remain
(`Torn`). A clean unlinks the open file (`unlinked`): what is then written has no
name, and the `Chmod` after it fails unless somebody made the file again. `slot` is what each entry of an environment in
the run's files holds. `FillJSON` rewrites a JSON file entry by entry;
`FillTOML` replaces one name in `config.toml`, and takes the names in any order,
because the code walks a Go map. A name of which another begins
(`StartsWith`) is found inside the other's placeholder when it is no entry of
its own: the entry is then `Mixed`. `met` is history: who was at work on the
profile beside a run. `Finish` stands for exit, failure and kill alike, at any
step. The wipe of the files is in RunLifecycle; `clean` removes a profile at
once here and step by step in HostState.

**Evaluate** is the algebra of `compatibility.Evaluate` as operators on
functions from keys `<<section, id>>` to facts and rows. **Evidence** runs it
over time: every step changes one field of one fact, drops a fact, or makes an
item required or optional, and evaluates again.

**Adapters** has the requirement, the facts, the control intent, the native
plan and the reconciliation for each host, as functions of a declaration. A
file is `<<kind, name>>`, a plan is the files, the session configuration, the
secret slots and the flags; `Effect` reads a plan as the host would (an external
operator: it models the hosts' documented treatment of allow lists and flags).
**Launch** is one command after another, from the command line to the exit
code, in a world that changes at every step: `RegisterAgain`, `Unregister`,
`ChangeHost`, `ChangeRoot`.

`RunLifecycle` and `Launch` meet at BeginRun and Execute: Launch stops at the
existence of the run directory, RunLifecycle starts there with the sweeps that
precede it; what both must agree on is RunProtocol. `Adapters` says which slots a
plan has; `HostFiles` takes them as a constant and says what becomes of them. Its
`RefsAssumption` (every slot belongs to a reference of the launch plan) is what
`SecretsConfined` proves of every plan a host is started with.

## 3. Runs

| Run | Instance | Shows |
| --- | --- | --- |
| `space_two` | 2 processes, 2 systems, 2 sources, 3 revisions | TypeOK; AgentSpace implements Catalog; a dangling record needs a publish under a running collection; an inspect fails only when its system moved; commands do not wait in a circle or for one that has returned |
| `space_gc_race` | 2 processes, 2 systems, 1 source, 2 revisions | finding: a collection deletes a referenced artifact |
| `source` | 396 trees: each mistake of the documents with any state of the files they name; 1 register, 2 edits | what is validated is built, stored as checked, resolvable, offers its skills their tools and binds its local files |
| `run_two` | 2 processes, one with secrets | hosts keep their files, recovery settles crashed runs, live runs are left alone, and each run implements Custody: values never outlive a successful run and never come back |
| `run_begin_gap` | the same | finding: a starting or running run taken for a leftover while its lock is missing or empty |
| `run_invalidate` | the same | finding: `remove` misses crashed runs |
| `host_state` | 3 runs, 2 at a time, 2 sign-ins, 1 clean | a sign-in is saved or its loss is told; copies exclude each other until a clean; a stray copy needs a kill; older replaces newer only between overlapping runs |
| `host_state_live` | 2 runs, 2 sign-ins, fair | a sign-in reaches the profile while the host runs |
| `host_files` | 2 runs of Claude Code with one agent id, 1 of Codex, 4 names, 1 clean | a started host has its own Agent's card and skills in the shared profile, and each entry of its files the value of its own variable |
| `evidence` | one item in each section, every pair of changes | four properties of a report, and monotonicity of the decision |
| `launch` | 6 Agents, 3 hosts, 2 commands, 1 change of the world | nine properties from the consent to the session |
| `launch_guide` | the same | finding: a writable Claude Code session under a required read-only sandbox, and Codex started where every shell command must be confirmed |

The theorems of section 5 that no run lists as a property (`ProtocolSpec`,
`LeftoverOnlyFromGaps`, `LocksHeldInside`, `CommandsDescend`,
`SuccessLeavesNoValues`, which Custody implies, and those stated in the proof
modules) hold for all instances and need none.

### The bounds and why they are enough

- *Two processes, two systems.* The protocols are pairwise: a writer against a
  collection, a recovery against a run, a save against a save. Three revisions,
  two of one system, are the least with which a system can move, and both move
  and keep its provenance. `AgentSpaceProofs` and `RunLifecycleProofs` lift the
  bound for safety.
- *RunLifecycle.* A process makes at most one directory and any number of scans,
  cleans and removals, so that every pair of steps of a run and of another
  command meets. One of the two runs has secrets, the other has none.
- *Source.* Registers share nothing but the store, which only grows, so one is
  enough (`MaxRegisters = 1`); two edits let a file change and change back, or
  two files change, between two reads. `MCSource` lists the mistakes one at a
  time, with the rule each is there for; the states of the files they name (a
  tool that is a link, data that is text, a schema or binary) combine freely.
  Two agents share a skill, so that a check of one can be missed for the other.
- *HostFiles.* Overwriting is pairwise: two runs with a card of one name and
  different text, a skill they have alike, and one only one of them has. The
  entries of a run's files are its own, so the run of Codex has its names to
  itself. The four names give each position of `config.toml` a case: a beginning
  with an entry of its own, and one without. `MaxCleans = 1`. The proofs hold for
  any number of runs, names and texts.
- *HostState.* `MaxAlive = 2` runs at a time out of three, so that a run can
  start after one was killed and another has saved: the least with which a
  finished run could be brought back. `MaxLogins = 2` tells older from newer.
  `MaxCleans = 1` unlinks the lock file once. The liveness run leaves the clean
  out: a deleted profile is written again at the next tick and only adds states.
- *Evidence.* `MaxChanges = 2` from full evidence reaches every pair of lost
  fields; the sections interact pairwise at most (a context with its isolation,
  a server with its isolation). The proofs hold for any items and facts.
- *Launch.* `MaxCommands = 2` lets a run follow a check of the same Agent.
  `MaxChanges = 1` between any two steps is one stale read, the hazard. The six
  declarations each stress a part of the adapters (`MCDeclaration` says which);
  `MCCommandLine` leaves out the combinations of flags that no code reads
  together: `--strict-read` of a run without a terminal, `--project` with
  `--strict-read` or `--accept-warnings`, `--accept-warnings` on a terminal.

`CHECK_DEADLOCK FALSE` is set where the behaviour ends: a bounded number of
commands, runs or changes.

### Fairness

- `host_state_live`: weak fairness of the tick (a ticker in a goroutine of its
  own), strong fairness of each step of a copy: an error may occur any number of
  times, no step fails for ever. The property is excused when the host exits or
  the run is killed, and speaks of the version the host still has.

The other specifications state no fairness; what of a command's end can be said
without it is proved (`WaitingEnds` and `CommandsDescend` in section 5).

## 4. Findings

Each is one violated property in a run of its own, with the source line and the
text it contradicts in `PROJECT.json`.

1. `space_gc_race`: `remove` may delete an artifact that a system registered at
   the same time refers to, because the keep set is read before, and the store
   listed after, another system's publish.
2. `run_begin_gap`: BeginRun makes the directory before `live.lock`; a recovery
   that looks in between goes on to delete the directory of a run that starts.
   The same decision is reached when Execute writes the lock a second time
   (`execute.go:79`), by truncation and with secret values on disk: a recovery
   that reads it empty goes on to restore or remove the directory of a live run.
   TLC's trace is of the first kind, being shorter; that these are the only two
   is `LeftoverOnlyFromGaps` (section 5).
3. `run_invalidate`: `remove` finds runs through records, which crashed runs do
   not have.
4. `launch_guide`: two promises of `docs/guides/permissions-and-safety.md`, of
   which the trace shows one (each is violated by itself too). Claude Code's
   adapter never reads the sandbox mode (`claude.go:121`), so a required
   `read_only` sandbox leaves the write tools allowed, where line 134 says
   Agent2Host refuses "rather than fall back to an unsandboxed or writable
   session." And Codex is admitted with `shell_execute: always` and asks when it
   sees fit (`codex.go:122`), where line 108 says "If a host cannot guarantee a
   separate confirmation before every shell execution, `check` refuses that host".

What the passing properties say beside these findings excludes just them:
`HostRunsWithItsSecrets`, `LiveRunsSpared` and Custody the runs judged in 2, and
`SessionWithinDeclaration` speaks of the read-only sandbox for Kiro and Codex
only, and of a shell that is used without asking, not of one that asks too
rarely.

### Where the comment on overlaySecrets does not hold

The comment at `secrets.go:45-47` says two things of `config.toml` that the code
does not do and no property states. They are plain from the lines named, and
`FillTOML` behaves as they do:

- "Omitted optional names remove the env entry that still holds their
  placeholder": in TOML the entry stays with the empty string (`secrets.go:122`,
  `Empty`).
- "It does not whole-file string-replace": where a variable has no entry in
  `config.toml`, its placeholder is looked for in the whole text
  (`secrets.go:128-142`, `Mixed`). An entry whose name begins with the name of
  such a variable (say `TOKEN_B` beside an environment variable `TOKEN`) may get
  the value of the latter with `_B` after it.

`SlotsServed` leaves out both kinds of entries (those without a value, and the
`Exposed` ones) and speaks of the others; `RequiredGiven` leaves out the exposed
ones.

### Behaviours the properties confine

These also differ from what a reader of the documents may expect. They have no
run of their own: a property states how far each may go and no further.

- *Sign-ins* (`NeverGoesBackP`): of two overlapping runs of one profile, the one
  whose host did nothing writes the sign-in it bound back over the newer one of
  the other, at its next tick.
- *Instructions of other runs* (`OwnInstructions`): Claude Code's profile keeps
  the cards and skills of earlier runs, and overlapping runs of Agents with one
  id overwrite each other's; `docs/concepts/lifecycle.md:41` says "Only the
  selected Agent's reachable procedure, declared capabilities, and referenced
  files are prepared for that run." A host may see more than its own, and less
  only when another run overlapped.
- *Cut instructions* (`Truncating` in `OwnInstructions`): an overlapping run,
  even one with the same texts, empties a card for the moment in which it writes
  it, and for good if it fails or dies in that moment.

## 5. Proofs

Checked by TLAPS to the last leaf, for every value of the constants; the
theorems a reader should know are listed under `theorems` in `PROJECT.json`.
The assumptions are those named in the modules: `SpaceAssumption` (every
revision is of one system, `None` is no record), `RunAssumption` (every run is
of one system), `NameAssumption` of RunLifecycle (run names differ from the names
of the fixed files) and of Source (portable segments are not empty, `.` or `..`,
and each has a lower case), `VersionsAssumption` and `TreesAssumption` (a file
the author may have is of one of the kinds, a document has its fields, which the
schemas see to), `RunsAssumption`, `NamesAssumption` and `RefsAssumption` of
HostFiles (plans write within the profile; to begin with a name is a strict
order; every slot belongs to a secret reference), `DeclarationAssumption` of
Launch (no server has the empty id, which the schema's pattern for ids rules
out, and an Agent with a hook has a declared list of hooks), `CommandAssumption`
and the `BoundAssumption`s (bounds are naturals).

**AgentSpaceProofs.** `WriterInv` says that whoever is about to replace
`registry.json` holds `registry.lock` and has the current content: without it
the step that writes could lose another writer's record, so type correctness
alone does not give the refinement of `Catalog`. `StoreInv` says that a revision
a process or a record counts on is intact and condemned by nobody, unless
exposed; `DanglingOnlyIfExposed` and `InspectFailsOnlyIfMoved` follow.
That commands end is proved as far as safety goes, for any number of them: lock
files are held exactly between lock and unlock (`LocksHeldInside`), which bounds
every wait (`WaitingEnds`: at most a command waits for one that waits for a
writer, which waits for nobody), and each step of a command decreases a
well-founded measure that no other command raises (`CommandsDescend`). What is
left to assume is that a process is scheduled and that the kernel grants a flock
that keeps coming free. `ExclusionSuffices` assumes that
no publish overlaps a collection and concludes that no record ever dangles and
that a collection spares what a record names: the race of `space_gc_race` is the
only way to lose an artifact, and one lock would close it.

**RunLifecycleProofs.** `IInv` has four parts. *Custody*: between mkdir and the
end, a directory is there, locked and unmarked, unless judged in one of the gaps.
*Secrecy*: values are in files only at the owner's steps from overlay to wipe,
or after an error or a crash, and then their baseline is whole unless a removal
cut it. *Settled*: what a scan owes and has passed is dealt with. *TypeOK*. None
is inductive alone: Custody needs that a scan's decision about a locked
directory was `live`, Settled needs that a dead run stays dead, and the values
of a live one come back to a whole baseline because of Secrecy.
`LeftoverOnlyFromGaps` is what is left of the promise that `run_begin_gap`
refutes: from the lock on, only a process that read the directory
before the pid was in the lock, or while Execute rewrote it, treats it as a
leftover; or one that found the lock lost when rewriting it had failed. That each run implements Custody
(`ImplementsCustody`) needs `IInv` and what each action does to the places where
values are (`ValuesMove`: they appear in a directory at the overlay of its owner
only), to a run whose host is on (`NothingTakenFromHost`, unless it was judged) and
to the course of its own run (`RunMoves`). `CustodyMeans` reads the promise off
Custody alone: values are there while a host is on, success leaves none, and what
is gone stays gone. `ImplementsRunProtocol` is the table of
the steps of a process.

**EvaluateProofs** has what holds of one row and one report, whatever the
requirement and the facts: every row is well formed (`RowOfShape`: a disposition
where plans key on one, "omit" for exactly the failing results), what is left
out has a reason (`RowOfReason`), and a report refuses exactly when a required
item fails (`RefusedIff`). The two modules below rest on it.

**EvidenceProofs.** `Reported` says the report is the evaluation of the current
requirement and facts. `NothingHidden` and `RequiredNeverOmitted` follow from the
shape of the rows; for monotonicity the lemmas compare two rows of the same item
under less evidence (`RowNoBetter`) and lift it to the decision
(`DecisionNoBetter`), for any two inputs that `Weakens` relates, however far apart;
of every step of Evidence it follows.

**LaunchProofs.** `LaunchInv` is type correctness, `Judged` (a report is the
judgement of this command's declaration and probe, a forecast that of its check)
and `Consented` (what is projected was agreed to, what is authorised is what was
projected, only then is anything made). Judged is needed because the world may
have moved on: the claim is about what was resolved, not about what is there.
What follows of every declaration is in `Admitted`: from the projection on the
rows are those of the declaration and no required one fails. A host that is not
there fails the activation row, Kiro fails a required sandbox
(`KiroHasNoSandbox`), a denial that cannot be proved degrades the permissions
(`UnprovenFact`), and what is required is included (`RequiredIncluded`). A row
that is degraded gives its reason to the warnings (`DegradedIsSaid`), and whoever
reached the host agreed to them: hence `ShortfallIsSaid`. `CheckPredictsRun` is an
equation and not only an order: the two commands share the report and differ in
the gate (`SameDecision`). The rest
is one lemma per host: what its configuration lets a tool do (`ClaudeSession`,
`KiroSession`, `CodexSession`, `OfferedNotDenied`), that its plan keeps every
promise of its intent (`PromiseKept`) and passes its reconciliation
(`PlanMatches`). That a command implements RunProtocol (`ImplementsRunProtocol`)
rests on a table of the steps it can go from and to (`ProtocolMoves`).

**SourceProofs.** `SourceInv` carries the checks through the reads: the
documents read so far passed theirs, and each file read conforms to every role
under which the documents declare it. A file is checked under one role only, so
the step that loads it needs `MergeRoles` to return the strictest role and a
check under a stricter role to imply the laxer one. `MembersDeclared` (each
member Inclusion computes was declared, hence canonical, hence read) gives
BuildMeetsNoSurprise; `ReachedIncluded` (what a closure asks for is a member)
gives ResolveMeetsNoGap; that canonical names are fixed points of
`Canonicalize` gives LocalTokensBound.

**HostFilesProofs.** `FilesInv` says of an entry of `config.toml` that it waits
for its name under its own placeholder, or has been served, or is exposed
(`Served`). `ReplacedServes` is the step that is not obvious: if a name is found
inside an unexposed entry then it has an entry of its own, which is not exposed
either because beginnings are transitive, so the whole-entry match comes first.
For the profile, `Meeting` (active runs of one profile know of each other) makes
every overwrite by another text a disturbance; `Handles` (a file is open only in
materialize, and unlinked only by a clean) names who has cut a file, and
`WrittenForOthers` is the step that matters: where two runs have the same text,
whoever writes leaves the file with it. `Resolved` (from the overlay on, every name has a
value or is omitted; the environment is what Launch made it) with `SlotsServed`
gives `RequiredGiven`: a host is started only when every required variable has a
value, and then it has it wherever the plan asks for it, but for an exposed entry of
`config.toml`.

**HostStateProofs.** `HostInv` adds `Newest` (a run nobody has overtaken holds
the newest version there is, and its temporary file too) and `Locking` (the
inode a run has opened is the one it locks; without a clean there is one) to the
properties. `WaitsForWorker` says that the flock is never left behind.
`OneAfterAnotherKeeps` has two hypotheses on constants, `MaxAlive = 1` and
`MaxCleans = 0`: it says what users get who run one host at a time, that no sign-in
is lost silently and none goes back, and so that overlap and clean are the only
reasons for the exceptions in `LoginKept` and `NeverGoesBackP`.

### Only model-checked

- Liveness (`LoginReachesStore`): out of the prover's reach, like everything that
  needs ENABLED.
- The four findings: a trace is the proof.

Facts that need induction over data or RECURSIVE operators are out of reach
too; no module has one.

## 6. Not modelled, and why

- **Source, details**: Windows drive and UNC forms of a command, NUL bytes, the
  early look at the system's id, warnings of the secret scan, the defaults
  normalisation adds, the order of equal roles. The total size of an artifact is
  a choice (`TooLarge`); a digest is its payload.
- **JSON reader, decoding, schemas**: character handling and a schema library.
- **Scrubbing**: the search of planned files for values the host itself wrote.
  The expansion of `${...}` tokens in launch arguments and the allow list of
  variables inherited from the parent are lists without a rule between them.
- **Races left aside**: a pid given to another process after its run died
  (`runlock.go:43`), the lock cleared before the record and the removal
  (`execute.go:111`, a window after all values are wiped), a sign-out in the host
  (`hoststate.go:163`), a host version that cannot be read
  (`run_policy.go:22`, which Launch treats as one more standing).
- **Symbolic links and path walks** of work roots and profiles.
- **Error exits of a command** on which no property depends: a work root that is
  not a directory, an internal error of the evaluation.
- **`expandWorkspaceInFiles`** on a file of the profile: it rewrites one only if
  its text names one of four tokens, which no adapter puts there; an author whose
  own text names one has it truncated and written once more.
- **Signals**: a forwarded signal does not change a file; the return of
  `runHostProcess` on a failed forward while the host still runs is not
  modelled.
- **Durability**: processes crash in the models, the machine does not, so a
  rename that returned stays.
- **FinalizeAbandoned** (no command calls it), **ExclusiveOf** (BuildRequirement
  never sets it), **OfficialReuse**, the fixture driver.
- Output, wording, packaging.

## 7. Plan

Order of work: the shared files first (done), then the decisions (done), then
the path from a source tree to a resolved Agent (`Source`, done) and to the files
of a started host (`HostFiles`, done). Left:

1. `HostProcess`: the signal loop of `runtime/process.go`, composed with the exit
   of HostState.
2. Refinement: the revisions of AgentSpace by the payloads of Source.
3. Proofs: that refinement. Every invariant and action property the runs check
   has its proof.
