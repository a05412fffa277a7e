------------------------------- MODULE Source -------------------------------
(***************************************************************************)
(* From the tree an author keeps to the files a run is given: one register  *)
(* validates system.json, the Agent Specs it lists and every file they      *)
(* declare (semantic.tree), builds the artifact out of what it read, and a  *)
(* run takes the part of the artifact its Agent reaches (space.closure).    *)
(*                                                                         *)
(* A file is read once and kept (Snapshot); the author goes on editing.     *)
(* What reaches disk and registry afterwards is the subject of AgentSpace.  *)
(*                                                                         *)
(* A path is the sequence of its segments as strings.Split cuts it at "/":  *)
(* "./a" is <<".", "a">>, "/a" is <<"", "a">>.                              *)
(***************************************************************************)
EXTENDS Naturals, Sequences, FiniteSets, Functions

CONSTANTS
    Segment,       \* the segments authors write
    Portable,      \* those in portable ASCII that Windows does not reserve
    Lower,         \* a segment in lower case
    SopName,       \* those ending in ".sop.md"
    SkillName,     \* those ending in ".skill.md"
    Name,          \* ids of agents, skills, servers, tools, variables
    Versions,      \* path -> what the author may have there
    Trees,         \* the trees the author may start from
    MaxEdits,      \* how often the author edits (a bound of the model)
    MaxRegisters   \* how often the tree is registered (a bound of the model)

Path == Seq(Segment) \ {<<>>}

Process ==
    [command : Path, args : Seq(Path), files : Seq(Path), environment : Seq(Name)]

Server == [process : Process, tools : Seq(Name)]

Skill == [document : Path, scripts : Seq(Path), contexts : Seq(Path), assets : Seq(Path),
          tools : Seq(Name \X Name)]

IsSystemDoc(c) ==
    /\ DOMAIN c = {"kind", "agents", "skills"} /\ c.kind = "system"
    /\ c.agents \in Seq(Path)
    /\ \A k \in DOMAIN c.skills : k \in Name /\ c.skills[k] \in Skill

IsAgentDoc(c) ==
    /\ DOMAIN c = {"kind", "id", "sop", "contexts", "output", "hooks", "servers", "skills",
                   "environment"} /\ c.kind = "agent"
    /\ c.id \in Name /\ c.sop \in Path
    /\ c.contexts \in Seq(Path) /\ c.output \in Seq(Path)
    /\ c.hooks \in Seq(Process)
    /\ \A s \in DOMAIN c.servers : s \in Name /\ c.servers[s] \in Server
    /\ c.skills \in Seq(Name) /\ c.environment \in Seq(Name)

\* A file with a private key, above 16 MiB or inside the store is "denied"; what
\* is not a regular file, or lies behind a link, is a "link".
Other == [kind : {"text", "schema", "binary", "denied", "link", "missing"}]

ASSUME NameAssumption ==
    /\ Portable \subseteq Segment \ {"", ".", ".."}
    /\ DOMAIN Lower = Segment

ASSUME VersionsAssumption ==
    \A p \in DOMAIN Versions :
        /\ p \in Path
        /\ \A c \in Versions[p] : c \in Other \/ IsSystemDoc(c) \/ IsAgentDoc(c)

ASSUME TreesAssumption ==
    \A t \in Trees :
        DOMAIN t = DOMAIN Versions /\ \A p \in DOMAIN Versions : t[p] \in Versions[p]

ASSUME BoundAssumption == MaxEdits \in Nat /\ MaxRegisters \in Nat

VARIABLES
    disk,      \* the author's tree
    pc,        \* the next step of the register
    snap,      \* Snapshot.files: what this register has read
    agent,     \* the agent of system.json that is loaded next
    store,     \* the payloads of the artifacts built; a payload is its revision
    edits, registers

vars == <<disk, pc, snap, agent, store, edits, registers>>

-----------------------------------------------------------------------------
(* Paths *)

Invalid == <<>>
SystemJson == <<"system.json">>

Prefixed(p, seg) == Len(p) > 1 /\ p[1] = seg
Stripped(p) == IF Prefixed(p, ".") THEN Tail(p) ELSE p

\* Canonicalize: one leading "./" goes; no empty, "." or ".." segment is left,
\* and every segment is portable.
Canonicalize(p) ==
    IF Range(Stripped(p)) \subseteq Portable THEN Stripped(p) ELSE Invalid

CollisionKey(c) == [i \in DOMAIN c |-> Lower[c[i]]]

Collide(paths) ==
    \E a, b \in paths : a # b /\ CollisionKey(a) = CollisionKey(b)

SecretNames == {".env", ".env.local", ".env.production", ".env.development", ".env.test",
                "id_rsa", "id_ed25519"}

HardDeny(c) ==
    (\E i \in DOMAIN c : Lower[c[i]] = ".git") \/ Lower[c[Len(c)]] \in SecretNames

Decl(p, role) == [path |-> p, role |-> role]

Shape(d) ==
    LET c == Canonicalize(d.path)
        last == c[Len(c)]
    IN  IF /\ c # Invalid
           /\ ~HardDeny(c)
           /\ d.role = "sop" => last \in SopName
           /\ d.role = "skill" => last \in SkillName
        THEN c ELSE Invalid

\* A list of paths without repetition, by name or but for case.
Apart(list, role) ==
    LET canon == [i \in DOMAIN list |-> Shape(Decl(list[i], role))] IN
    /\ Invalid \notin Range(canon)
    /\ IsInjective(canon)
    /\ ~Collide(Range(canon))

-----------------------------------------------------------------------------
(* One process: a command, its arguments and the files they may name *)

Canonicals(list) == {Canonicalize(list[i]) : i \in DOMAIN list}

\* classifyCommand: absolute, "./" local, or one segment looked up in PATH.
CommandAllowed(p) ==
    \/ Prefixed(p.command, "") \/ Len(p.command) = 1
    \/ /\ Prefixed(p.command, ".")
       /\ Shape(Decl(p.command, "script")) # Invalid
       /\ Canonicalize(p.command) \in Canonicals(p.files)

\* classifyArg: "./" is a file of the process, "../" is refused, the rest opaque.
ArgAllowed(p, arg) ==
    /\ ~Prefixed(arg, "..")
    /\ Prefixed(arg, ".") =>
         /\ Shape(Decl(arg, "script")) # Invalid
         /\ Canonicalize(arg) \in Canonicals(p.files)

CheckProcess(p) ==
    /\ Apart(p.files, "script")
    /\ CommandAllowed(p)
    /\ \A arg \in Range(p.args) : ArgAllowed(p, arg)

-----------------------------------------------------------------------------
(* What the documents declare *)

HookFiles(a) == UNION {Range(h.files) : h \in Range(a.hooks)}

\* Servers of which a tool is on the allow list.
Offering(a) == {s \in DOMAIN a.servers : a.servers[s].tools # <<>>}

ServerFiles(a, ids) == UNION {Range(a.servers[s].process.files) : s \in ids}

\* Mutant: the files of the hooks are forgotten.
DeclsWithoutHooks(a) ==
    {Decl(a.sop, "sop")} \union {Decl(p, "context") : p \in Range(a.contexts)}
        \union {Decl(p, "output") : p \in Range(a.output)}
        \union {Decl(p, "script") : p \in ServerFiles(a, DOMAIN a.servers)}

AgentDecls(a) ==
    {Decl(a.sop, "sop")} \union {Decl(p, "context") : p \in Range(a.contexts)}
        \union {Decl(p, "output") : p \in Range(a.output)}
        \union {Decl(p, "script") : p \in HookFiles(a) \union ServerFiles(a, DOMAIN a.servers)}

SkillDecls(k) ==
    {Decl(k.document, "skill")} \union {Decl(p, "script") : p \in Range(k.scripts)}
        \union {Decl(p, "context") : p \in Range(k.contexts)}
        \union {Decl(p, "asset") : p \in Range(k.assets)}

SystemDecls(s) ==
    {Decl(p, "agent") : p \in Range(s.agents)}
        \union UNION {SkillDecls(s.skills[k]) : k \in DOMAIN s.skills}

-----------------------------------------------------------------------------
(* A tree, read so far (a snapshot) or as a whole (a payload): path -> content *)

SystemOf(t) == t[SystemJson]
AgentPath(s, i) == Shape(Decl(s.agents[i], "agent"))
AgentOf(t, i) == t[AgentPath(SystemOf(t), i)]
AgentIndex(t) == DOMAIN SystemOf(t).agents
Agents(t) == {AgentOf(t, i) : i \in AgentIndex(t)}

Decls(t) ==
    {Decl(SystemJson, "system")} \union SystemDecls(SystemOf(t))
        \union UNION {AgentDecls(a) : a \in Agents(t)}

Declared(t) == {Shape(d) : d \in Decls(t)}

Rank == [other |-> 0, agent |-> 1, system |-> 1, script |-> 2, asset |-> 3, context |-> 4,
         sop |-> 5, skill |-> 5, output |-> 6]

RolesOf(t, c) == {d.role : d \in {e \in Decls(t) : Shape(e) = c}}

\* MergeRoles, over all the declarations of one path.
MergeRoles(roles) == CHOOSE r \in roles : \A q \in roles : Rank[q] <= Rank[r]

\* Documents are UTF-8, and no key of theirs is a keyword of JSON Schema.
Utf8 == {"text", "schema", "agent", "system"}

\* checkEncoding
Encoded(content, role) ==
    /\ role \in {"sop", "skill", "context"} => content.kind \in Utf8
    /\ role = "output" => content.kind \in Utf8 \ {"text"}

\* Mutant: only the encoding is looked at.
EncodedOnly(content, role) == Encoded(content, role)

\* FS.CheckDeclared
CheckDeclared(content, role) ==
    content.kind \notin {"missing", "link", "denied"} /\ Encoded(content, role)

\* graph.System
CheckSystem(s) ==
    /\ Apart(s.agents, "agent")
    /\ \A k \in Range(s.skills) :
         /\ Shape(Decl(k.document, "skill")) # Invalid
         /\ Apart(k.scripts, "other") /\ Apart(k.contexts, "other") /\ Apart(k.assets, "other")
         /\ IsInjective(k.tools)

\* graph.Agent
CheckAgent(a) ==
    LET processes == Range(a.hooks) \union {a.servers[s].process : s \in DOMAIN a.servers} IN
    /\ IsInjective(a.skills)
    /\ Apart(a.contexts, "context")
    /\ IsInjective(a.environment)
    /\ \A p \in processes : IsInjective(p.environment) /\ CheckProcess(p)
    /\ \A s \in DOMAIN a.servers : IsInjective(a.servers[s].tools)
    /\ \A d \in AgentDecls(a) : Shape(d) # Invalid

\* Mutant: any tool of the server will do.
ServerKnown(a, k) == \A ref \in Range(k.tools) : ref[1] \in DOMAIN a.servers

\* phaseB: the tools a skill names are on the allow lists of the agent.
PhaseB(a, k) ==
    \A ref \in Range(k.tools) :
        ref[1] \in DOMAIN a.servers /\ ref[2] \in Range(a.servers[ref[1]].tools)

\* graph.Closure
CheckClosure(t) ==
    /\ \A i, j \in AgentIndex(t) : AgentOf(t, i).id = AgentOf(t, j).id => i = j
    /\ \A a \in Agents(t) : \A ref \in Range(a.skills) :
         ref \in DOMAIN SystemOf(t).skills /\ PhaseB(a, SystemOf(t).skills[ref])

-----------------------------------------------------------------------------
(* The artifact *)

SkillFiles(k) ==
    {k.document} \union Range(k.scripts) \union Range(k.contexts) \union Range(k.assets)

AgentFiles(a) ==
    {a.sop} \union Range(a.contexts) \union Range(a.output) \union HookFiles(a)
        \union ServerFiles(a, Offering(a))

\* Every agent, and every skill of the system whether an agent uses it or not.
Packed(t) ==
    (UNION {AgentFiles(a) : a \in Agents(t)})
        \union (UNION {SkillFiles(k) : k \in Range(SystemOf(t).skills)})

Inclusion(t) ==
    {SystemJson} \union {AgentPath(SystemOf(t), i) : i \in AgentIndex(t)}
        \union {Canonicalize(p) : p \in Packed(t)}

\* CheckManifest
CheckManifest(members) ==
    /\ \A c \in members : Canonicalize(c) = c
    /\ SystemJson \in members
    /\ ~Collide(members)

\* Build: every member was read, and their manifest is in order.
Builds(t) == Inclusion(t) \subseteq DOMAIN t /\ CheckManifest(Inclusion(t))

\* What Lstat and ReadFile find now.
OnDisk(c) == IF c \in DOMAIN disk THEN disk[c] ELSE [kind |-> "missing"]

\* Mutant: the members are read when the artifact is built.
BuildFromDisk(t) == [c \in Inclusion(t) |-> OnDisk(c)]

Build(t) == Restrict(t, Inclusion(t))

-----------------------------------------------------------------------------
(* What a run is given: ResolvedAgentRun and the tokens of its processes *)

CanonCommand(p) == IF Canonicalize(p) # Invalid THEN Canonicalize(p) ELSE p

CanonArg(p) ==
    IF Prefixed(p, ".") /\ Canonicalize(p) # Invalid THEN Canonicalize(p) ELSE p

ResolvedProcess(p) ==
    [command |-> CanonCommand(p.command),
     args    |-> [i \in DOMAIN p.args |-> CanonArg(p.args[i])],
     files   |-> [i \in DOMAIN p.files |-> Canonicalize(p.files[i])]]

\* findAgent: the first of system.json's agents with the id.
Finds(t, id, i) ==
    /\ i \in AgentIndex(t)
    /\ AgentOf(t, i).id = id
    /\ \A j \in AgentIndex(t) : j < i => AgentOf(t, j).id # id

\* Mutant: the files of every server are asked for, as they are by AgentDecls.
EveryFile(t, i) ==
    LET a == AgentOf(t, i) IN
    AgentFiles(a) \union ServerFiles(a, DOMAIN a.servers)
        \union UNION {SkillFiles(SystemOf(t).skills[k]) : k \in Range(a.skills)}

\* The files of one agent and of the skills it uses.
Asked(t, i) ==
    AgentFiles(AgentOf(t, i))
        \union UNION {SkillFiles(SystemOf(t).skills[k]) : k \in Range(AgentOf(t, i).skills)}

\* The members closure asks the payload for.
Reached(t, i) == {AgentPath(SystemOf(t), i)} \union {Canonicalize(p) : p \in Asked(t, i)}

\* closure ends with no error.
Resolves(t, id) ==
    /\ SystemJson \in DOMAIN t
    /\ \E i \in AgentIndex(t) :
         /\ \A j \in 1 .. i : AgentPath(SystemOf(t), j) \in DOMAIN t
         /\ Finds(t, id, i)
         /\ Range(AgentOf(t, i).skills) \subseteq DOMAIN SystemOf(t).skills
         /\ Reached(t, i) \subseteq DOMAIN t

Closure(t, i) ==
    LET a == AgentOf(t, i) IN
    [content |-> Reached(t, i),
     skills  |-> Range(a.skills),
     hooks   |-> {ResolvedProcess(h) : h \in Range(a.hooks)},
     servers |-> [s \in Offering(a) |-> ResolvedProcess(a.servers[s].process)],
     tools   |-> [s \in Offering(a) |-> Range(a.servers[s].tools)]]

Resolve(t, id) == Closure(t, CHOOSE i \in AgentIndex(t) : Finds(t, id, i))

Workspace == "${workspace}"

\* BindWorkspaceLocal: the token of a packed file becomes a path in the run.
BindWorkspaceLocal(token, packed) ==
    IF token \in packed THEN <<Workspace>> \o token
    ELSE IF Prefixed(token, ".") /\ Tail(token) \in packed THEN <<Workspace>> \o Tail(token)
    ELSE token

\* Mutant: only the file itself is an argument's, not "./" and the file.
BindCommandOnly(p) ==
    [command |-> BindWorkspaceLocal(p.command, Range(p.files)), args |-> p.args]

BindWorkspaceArgv(p) ==
    [command |-> BindWorkspaceLocal(p.command, Range(p.files)),
     args    |-> [i \in DOMAIN p.args |-> BindWorkspaceLocal(p.args[i], Range(p.files))]]

\* SystemLocalCommands: the packed files Runtime makes executable.
SystemLocalCommands(run) ==
    UNION {{f \in Range(p.files) : p.command \in {f, <<".">> \o f}} :
             p \in run.hooks \union Range(run.servers)}

-----------------------------------------------------------------------------
(* One register *)

NothingRead == [c \in {} |-> c]

Init ==
    /\ disk \in Trees
    /\ pc = "idle"
    /\ snap = NothingRead
    /\ agent = 1
    /\ store = {}
    /\ edits = 0 /\ registers = 0

\* Snapshot.Load: a path that was read is neither read nor checked again.
Load(c, content) ==
    snap' = [x \in DOMAIN snap \union {c} |-> IF x \in DOMAIN snap THEN snap[x] ELSE content]

Goto(from, to) == pc = from /\ pc' = to /\ UNCHANGED <<disk, edits, registers, store>>

\* Any error ends the register; what it read is forgotten.
Refuse ==
    /\ pc' = "idle"
    /\ snap' = NothingRead /\ agent' = 1
    /\ UNCHANGED <<disk, store, edits, registers>>

Start ==
    /\ registers < MaxRegisters
    /\ pc = "idle" /\ pc' = "system"
    /\ registers' = registers + 1
    /\ UNCHANGED <<disk, snap, agent, store, edits>>

LoadSystem ==
    /\ pc = "system"
    /\ LET read == OnDisk(SystemJson)
           fit  == read.kind = "system" /\ CheckSystem(read)
       IN  \/ fit /\ Load(SystemJson, read) /\ Goto("system", "agents") /\ UNCHANGED agent
           \/ ~fit /\ Refuse

\* The next Agent Spec: its path was checked with system.json.
LoadAgent ==
    /\ pc = "agents" /\ agent \in AgentIndex(snap)
    /\ LET c    == AgentPath(SystemOf(snap), agent)
           read == IF c \in DOMAIN snap THEN snap[c] ELSE OnDisk(c)
           fit  == read.kind = "agent" /\ CheckAgent(read)
       IN  \/ /\ fit /\ Load(c, read)
              /\ agent' = agent + 1
              /\ UNCHANGED <<disk, pc, store, edits, registers>>
           \/ ~fit /\ Refuse

\* Closure, then the declarations of all documents together.
Declare ==
    /\ pc = "agents" /\ agent \notin AgentIndex(snap)
    /\ \/ /\ CheckClosure(snap)
          /\ Invalid \notin Declared(snap) /\ ~Collide(Declared(snap))
          /\ Goto("agents", "load") /\ UNCHANGED <<snap, agent>>
       \/ /\ CheckClosure(snap) => Invalid \in Declared(snap) \/ Collide(Declared(snap))
          /\ Refuse

\* The declared files, in some order, each under its merged role.
LoadDeclared ==
    /\ pc = "load"
    /\ \E c \in Declared(snap) \ DOMAIN snap :
          LET fit == CheckDeclared(OnDisk(c), MergeRoles(RolesOf(snap, c))) IN
          \/ /\ fit /\ Load(c, OnDisk(c))
             /\ UNCHANGED <<disk, pc, agent, store, edits, registers>>
          \/ ~fit /\ Refuse

\* Inclusion and Build, after which nothing can be refused but the size.
Publish ==
    /\ pc = "load" /\ Declared(snap) \subseteq DOMAIN snap
    /\ pc' = IF Builds(snap) THEN "idle" ELSE "broken"
    /\ store' = IF Builds(snap) THEN store \union {Build(snap)} ELSE store
    /\ snap' = NothingRead /\ agent' = 1
    /\ UNCHANGED <<disk, edits, registers>>

\* checkInclusionSize: the members are more than 64 MiB together.
TooLarge == pc = "load" /\ Declared(snap) \subseteq DOMAIN snap /\ Builds(snap) /\ Refuse

\* The author changes a file, whatever the register is doing.
Edit ==
    /\ edits < MaxEdits
    /\ \E c \in DOMAIN disk : \E content \in Versions[c] \ {disk[c]} :
          disk' = [disk EXCEPT ![c] = content]
    /\ edits' = edits + 1
    /\ UNCHANGED <<pc, snap, agent, store, registers>>

Next == Start \/ LoadSystem \/ LoadAgent \/ Declare \/ LoadDeclared \/ Publish \/ TooLarge
        \/ Edit

Spec == Init /\ [][Next]_vars
-----------------------------------------------------------------------------
(* Properties *)

\* What a tree of files may hold: paths of the source with contents of theirs.
IsTree(t) == DOMAIN t \subseteq DOMAIN Versions /\ \A c \in DOMAIN t : t[c] \in Versions[c]

\* Every variable is of its type: what is read and stored are files the author
\* had, under their canonical paths.
TypeOK ==
    /\ DOMAIN disk = DOMAIN Versions /\ IsTree(disk)
    /\ pc \in {"idle", "system", "agents", "load", "broken"}
    /\ IsTree(snap) /\ \A t \in store : IsTree(t)
    /\ agent \in Nat
    /\ edits \in 0 .. MaxEdits /\ registers \in 0 .. MaxRegisters

\* What validation admits, building accepts: Inclusion computes the members by
\* rules of its own, yet each was declared and read, and the manifest's checks
\* on their names never fail.
BuildMeetsNoSurprise == pc # "broken"

\* An artifact is as if checked at once, and by its own bytes: its system.json,
\* its specs and their references are valid together, and every member passes
\* the checks of every role it is declared under, although a file is read once,
\* checked under one role, and edited between the reads.
StoredAsChecked ==
    \A t \in store :
        /\ SystemOf(t).kind = "system" /\ CheckSystem(SystemOf(t))
        /\ \A a \in Agents(t) : a.kind = "agent" /\ CheckAgent(a)
        /\ CheckClosure(t)
        /\ \A d \in Decls(t) : Shape(d) \in DOMAIN t => CheckDeclared(t[Shape(d)], d.role)

\* Every agent a register reported can be resolved from the artifact alone: the
\* closure of a run, computed long after by other code, misses no member.
ResolveMeetsNoGap ==
    \A t \in store : \A a \in Agents(t) : Resolves(t, a.id)

\* A tool the skill of a run names is on the allow list of a server of that run.
SkillToolsOffered ==
    \A t \in store : \A a \in Agents(t) : \A k \in Resolve(t, a.id).skills :
        \A ref \in Range(SystemOf(t).skills[k].tools) :
            /\ ref[1] \in DOMAIN Resolve(t, a.id).servers
            /\ ref[2] \in Resolve(t, a.id).tools[ref[1]]

\* The tokens of one process, as the author wrote it, in a run: each "./" token
\* names a file in the run directory, and a "./" command is executable there.
TokensBound(run, p) ==
    LET bound == BindWorkspaceArgv(ResolvedProcess(p))
        InRun(token, now) ==
            /\ now = <<Workspace>> \o Canonicalize(token)
            /\ Canonicalize(token) \in run.content
    IN  /\ Prefixed(p.command, ".") =>
             InRun(p.command, bound.command) /\ Canonicalize(p.command) \in SystemLocalCommands(run)
        /\ \A i \in DOMAIN p.args : Prefixed(p.args[i], ".") => InRun(p.args[i], bound.args[i])

\* No process of a run depends on the directory it is started in: whatever its
\* author wrote relative to the source is a file of the run.
LocalTokensBound ==
    \A t \in store : \A a \in Agents(t) :
        /\ \A h \in Range(a.hooks) : TokensBound(Resolve(t, a.id), h)
        /\ \A s \in Offering(a) : TokensBound(Resolve(t, a.id), a.servers[s].process)
=============================================================================
