---------------------------- MODULE SourceProofs ----------------------------
(***************************************************************************)
(* Whatever the author writes and whenever: an artifact is built without    *)
(* surprise, is valid by its own bytes, and every agent of it resolves.     *)
(*                                                                         *)
(* The invariant says how far the documents of the snapshot are checked at  *)
(* each step (Checked) and that a stored payload is Sound.  The rest is     *)
(* about one tree: building keeps it sound, and a sound tree has the three  *)
(* properties a run relies on.                                             *)
(***************************************************************************)
EXTENDS Source, TLAPS

-----------------------------------------------------------------------------
(* Paths *)

LEMMA StrippedIsSeq ==
    ASSUME NEW p \in Seq(Segment)
    PROVE  Stripped(p) \in Seq(Segment)
  BY DEF Stripped, Prefixed

LEMMA PrefixedIsLong ==
    ASSUME NEW p \in Seq(Segment), NEW seg, Prefixed(p, seg)
    PROVE  Len(p) # 1 /\ p[1] = seg
<1>1. Len(p) > 1  BY DEF Prefixed
<1>2. p[1] = seg  BY DEF Prefixed
<1>3. \A n \in Nat : n > 1 => n # 1  OBVIOUS
<1>4. Len(p) \in Nat  OBVIOUS
<1>5. Len(p) # 1  BY <1>1, <1>3, <1>4
<1> QED  BY <1>2, <1>5

\* A canonical path is one that Canonicalize leaves as it is.
LEMMA CanonicalizeIdempotent ==
    ASSUME NEW p \in Seq(Segment), Canonicalize(p) # Invalid
    PROVE  Canonicalize(Canonicalize(p)) = Canonicalize(p)
<1> DEFINE c == Stripped(p)
<1>1. c \in Seq(Segment)  BY StrippedIsSeq
<1>2. Canonicalize(p) = c /\ Range(c) \subseteq Portable  BY DEF Canonicalize
<1>3. ~Prefixed(c, ".")
  <2> SUFFICES ASSUME Prefixed(c, ".") PROVE FALSE  OBVIOUS
  <2> HIDE DEF c
  <2>1. 1 \in DOMAIN c /\ c[1] = "."  BY <1>1 DEF Prefixed
  <2>2. "." \in Portable  BY <2>1, <1>2 DEF Range
  <2> QED  BY <2>2, NameAssumption
<1>4. Stripped(c) = c  BY <1>3 DEF Stripped
<1> HIDE DEF c
<1> QED  BY <1>2, <1>4 DEF Canonicalize

LEMMA ShapeIsCanonical ==
    ASSUME NEW d, Shape(d) # Invalid
    PROVE  Shape(d) = Canonicalize(d.path)
  BY DEF Shape

LEMMA SystemJsonIsCanonical ==
    Canonicalize(SystemJson) # Invalid => Canonicalize(SystemJson) = SystemJson
  BY DEF Canonicalize, Stripped, Prefixed, SystemJson

\* Fewer paths collide less.
LEMMA CollideMonotone ==
    ASSUME NEW A, NEW B, A \subseteq B, ~Collide(B)
    PROVE  ~Collide(A)
  BY DEF Collide

-----------------------------------------------------------------------------
(* Trees *)

\* Two trees with the same documents.
Agree(t, u) ==
    /\ SystemOf(u) = SystemOf(t)
    /\ \A i \in AgentIndex(t) : AgentOf(u, i) = AgentOf(t, i)

\* What is declared and what belongs to the artifact is up to the documents.
LEMMA AgreeSame ==
    ASSUME NEW t, NEW u, Agree(t, u)
    PROVE  /\ AgentIndex(u) = AgentIndex(t)
           /\ Agents(u) = Agents(t)
           /\ Decls(u) = Decls(t)
           /\ Inclusion(u) = Inclusion(t)
           /\ CheckClosure(u) <=> CheckClosure(t)
<1>1. AgentIndex(u) = AgentIndex(t)  BY DEF Agree, AgentIndex
<1>2. Agents(u) = Agents(t)  BY <1>1 DEF Agree, Agents
<1>3. SystemOf(u) = SystemOf(t)  BY DEF Agree
<1>4. Decls(u) = Decls(t)  BY <1>2, <1>3 DEF Decls
<1>5. Inclusion(u) = Inclusion(t)  BY <1>1, <1>2, <1>3 DEF Inclusion, Packed
<1>6. CheckClosure(u) <=> CheckClosure(t)
  BY <1>1, <1>2, <1>3 DEF CheckClosure, Agree
<1> QED  BY <1>1, <1>2, <1>4, <1>5, <1>6

\* The documents of a tree are what the checks say they are.
Documents(t) ==
    /\ SystemJson \in DOMAIN t
    /\ SystemOf(t).kind = "system" /\ CheckSystem(SystemOf(t))
    /\ \A i \in AgentIndex(t) :
         /\ AgentPath(SystemOf(t), i) \in DOMAIN t
         /\ AgentOf(t, i).kind = "agent" /\ CheckAgent(AgentOf(t, i))

\* Every file the documents declare has its checks behind it.
Conforms(t) ==
    \A d \in Decls(t) : Shape(d) \in DOMAIN t => CheckDeclared(t[Shape(d)], d.role)

\* A valid tree that holds what belongs to its artifact.
Sound(t) ==
    /\ IsTree(t) /\ Documents(t) /\ CheckClosure(t) /\ Conforms(t)
    /\ Inclusion(t) \subseteq DOMAIN t

LEMMA KindTells ==
    ASSUME NEW t, IsTree(t), NEW c \in DOMAIN t
    PROVE  /\ t[c].kind = "system" => IsSystemDoc(t[c])
           /\ t[c].kind = "agent" => IsAgentDoc(t[c])
<1>1. t[c] \in Other \/ IsSystemDoc(t[c]) \/ IsAgentDoc(t[c])
  BY VersionsAssumption DEF IsTree
<1>2. t[c] \in Other => t[c].kind \notin {"system", "agent"}  BY DEF Other
<1> QED  BY <1>1, <1>2 DEF IsSystemDoc, IsAgentDoc

\* The paths in a document are paths.
LEMMA DocumentsTyped ==
    ASSUME NEW t, IsTree(t), Documents(t)
    PROVE  /\ IsSystemDoc(SystemOf(t))
           /\ \A a \in Agents(t) : IsAgentDoc(a)
<1>1. IsSystemDoc(SystemOf(t))  BY KindTells DEF Documents, SystemOf
<1>2. \A i \in AgentIndex(t) : IsAgentDoc(AgentOf(t, i))
  BY KindTells DEF Documents, AgentOf
<1> QED  BY <1>1, <1>2 DEF Agents

LEMMA DeclsTyped ==
    ASSUME NEW t, IsTree(t), Documents(t), NEW d \in Decls(t), d.path # SystemJson
    PROVE  d.path \in Seq(Segment)
<1>1. IsSystemDoc(SystemOf(t)) /\ \A a \in Agents(t) : IsAgentDoc(a)  BY DocumentsTyped
<1>2. ASSUME NEW a \in Agents(t), d \in AgentDecls(a) PROVE d.path \in Path
  <2>1. /\ a.sop \in Path /\ a.contexts \in Seq(Path) /\ a.output \in Seq(Path)
        /\ a.hooks \in Seq(Process)
        /\ \A s \in DOMAIN a.servers : a.servers[s] \in Server
    BY <1>1 DEF IsAgentDoc
  <2>2. HookFiles(a) \subseteq Path
    <3>1. \A h \in Range(a.hooks) : h \in Process  BY <2>1 DEF Range
    <3>2. \A h \in Process : Range(h.files) \subseteq Path  BY DEF Process, Range
    <3> QED  BY <3>1, <3>2 DEF HookFiles
  <2>3. ServerFiles(a, DOMAIN a.servers) \subseteq Path
    BY <2>1 DEF ServerFiles, Server, Process, Range
  <2>4. Range(a.contexts) \subseteq Path /\ Range(a.output) \subseteq Path
    BY <2>1 DEF Range
  <2> QED  BY <1>2, <2>1, <2>2, <2>3, <2>4 DEF AgentDecls, Decl
<1>3. ASSUME d \in SystemDecls(SystemOf(t)) PROVE d.path \in Path
  <2> DEFINE s == SystemOf(t)
  <2>1. s.agents \in Seq(Path) /\ \A k \in DOMAIN s.skills : s.skills[k] \in Skill
    BY <1>1 DEF IsSystemDoc
  <2>2. ASSUME NEW k \in Skill, d \in SkillDecls(k) PROVE d.path \in Path
    BY <2>2 DEF SkillDecls, Skill, Range, Decl
  <2>3. ASSUME d \in {Decl(p, "agent") : p \in Range(s.agents)} PROVE d.path \in Path
    BY <2>1, <2>3 DEF Decl, Range
  <2> QED  BY <1>3, <2>1, <2>2, <2>3 DEF SystemDecls
<1> QED  BY <1>2, <1>3 DEF Decls, Decl, Path

\* A path a document declares, unless its shape is refused, is a declared member.
LEMMA DeclaredPath ==
    ASSUME NEW t, IsTree(t), Documents(t), Invalid \notin Declared(t), NEW d \in Decls(t)
    PROVE  /\ Canonicalize(d.path) = Shape(d)
           /\ Canonicalize(d.path) \in Declared(t)
           /\ Canonicalize(d.path) # Invalid
           /\ Canonicalize(Canonicalize(d.path)) = Canonicalize(d.path)
<1>1. Shape(d) \in Declared(t) /\ Shape(d) # Invalid  BY DEF Declared
<1>2. Canonicalize(d.path) = Shape(d)  BY <1>1, ShapeIsCanonical
<1>3. CASE d.path = SystemJson
  <2>1. Canonicalize(SystemJson) = SystemJson  BY <1>1, <1>2, <1>3, SystemJsonIsCanonical
  <2> QED  BY <1>1, <1>2, <1>3, <2>1
<1>4. CASE d.path # SystemJson
  <2>1. d.path \in Seq(Segment)  BY <1>4, DeclsTyped
  <2> QED  BY <1>1, <1>2, <2>1, CanonicalizeIdempotent
<1> QED  BY <1>3, <1>4

\* Whatever Inclusion packs, AgentDecls and SystemDecls declare.
LEMMA FilesDeclared ==
    /\ \A a : \A p \in AgentFiles(a) : \E d \in AgentDecls(a) : d.path = p
    /\ \A k : \A p \in SkillFiles(k) : \E d \in SkillDecls(k) : d.path = p
<1>1. ASSUME NEW a, NEW p \in AgentFiles(a) PROVE \E d \in AgentDecls(a) : d.path = p
  <2>1. Offering(a) \subseteq DOMAIN a.servers  BY DEF Offering
  <2>2. ServerFiles(a, Offering(a)) \subseteq ServerFiles(a, DOMAIN a.servers)
    BY <2>1 DEF ServerFiles
  <2>3. \A r : Decl(p, r).path = p  BY DEF Decl
  <2>4. CASE p = a.sop  BY <2>3, <2>4 DEF AgentDecls
  <2>5. CASE p \in Range(a.contexts)  BY <2>3, <2>5 DEF AgentDecls
  <2>6. CASE p \in Range(a.output)  BY <2>3, <2>6 DEF AgentDecls
  <2>7. CASE p \in HookFiles(a) \union ServerFiles(a, DOMAIN a.servers)
    BY <2>3, <2>7 DEF AgentDecls
  <2> QED  BY <2>2, <2>4, <2>5, <2>6, <2>7 DEF AgentFiles
<1>2. ASSUME NEW k, NEW p \in SkillFiles(k) PROVE \E d \in SkillDecls(k) : d.path = p
  <2>1. \A r : Decl(p, r).path = p  BY DEF Decl
  <2>2. CASE p = k.document  BY <2>1, <2>2 DEF SkillDecls
  <2>3. CASE p \in Range(k.scripts)  BY <2>1, <2>3 DEF SkillDecls
  <2>4. CASE p \in Range(k.contexts)  BY <2>1, <2>4 DEF SkillDecls
  <2>5. CASE p \in Range(k.assets)  BY <2>1, <2>5 DEF SkillDecls
  <2> QED  BY <2>2, <2>3, <2>4, <2>5 DEF SkillFiles
<1> QED  BY <1>1, <1>2

LEMMA MembersDeclared ==
    ASSUME NEW t, IsTree(t), Documents(t), Invalid \notin Declared(t), NEW c \in Inclusion(t)
    PROVE  c \in Declared(t) /\ Canonicalize(c) = c
<1>1. \A a \in Agents(t) : AgentDecls(a) \subseteq Decls(t)  BY DEF Decls
<1>2. \A k \in DOMAIN SystemOf(t).skills : SkillDecls(SystemOf(t).skills[k]) \subseteq Decls(t)
  BY DEF Decls, SystemDecls
<1>3. \A i \in AgentIndex(t) : Decl(SystemOf(t).agents[i], "agent") \in Decls(t)
  BY DEF Decls, SystemDecls, AgentIndex, Range
<1>4. ASSUME NEW p, c = Canonicalize(p), NEW d \in Decls(t), d.path = p
      PROVE  c \in Declared(t) /\ Canonicalize(c) = c
  BY <1>4, DeclaredPath
<1>5. CASE c = SystemJson
  <2>1. Decl(SystemJson, "system") \in Decls(t) /\ Decl(SystemJson, "system").path = SystemJson
    BY DEF Decls, Decl
  <2>2. Canonicalize(SystemJson) # Invalid  BY <2>1, DeclaredPath
  <2>3. Canonicalize(SystemJson) = SystemJson  BY <2>2, SystemJsonIsCanonical
  <2> QED  BY <1>4, <1>5, <2>1, <2>3
<1>6. ASSUME NEW i \in AgentIndex(t), c = AgentPath(SystemOf(t), i)
      PROVE  c \in Declared(t) /\ Canonicalize(c) = c
  <2> DEFINE d == Decl(SystemOf(t).agents[i], "agent")
  <2>1. d \in Decls(t)  BY <1>3
  <2>2. c = Shape(d)  BY <1>6 DEF AgentPath
  <2> HIDE DEF d
  <2> QED  BY <2>1, <2>2, DeclaredPath
<1>7. ASSUME NEW a \in Agents(t), NEW p \in AgentFiles(a), c = Canonicalize(p)
      PROVE  c \in Declared(t) /\ Canonicalize(c) = c
  BY <1>1, <1>4, <1>7, FilesDeclared
<1>8. ASSUME NEW k \in Range(SystemOf(t).skills), NEW p \in SkillFiles(k), c = Canonicalize(p)
      PROVE  c \in Declared(t) /\ Canonicalize(c) = c
  <2>1. SkillDecls(k) \subseteq Decls(t)  BY <1>2 DEF Range
  <2> QED  BY <1>4, <1>8, <2>1, FilesDeclared
<1>9. ASSUME NEW p \in Packed(t), c = Canonicalize(p)
      PROVE  c \in Declared(t) /\ Canonicalize(c) = c
  <2>1. \/ \E a \in Agents(t) : p \in AgentFiles(a)
        \/ \E k \in Range(SystemOf(t).skills) : p \in SkillFiles(k)
    BY <1>9 DEF Packed
  <2> QED  BY <1>7, <1>8, <1>9, <2>1
<1> QED  BY <1>5, <1>6, <1>9 DEF Inclusion

-----------------------------------------------------------------------------
(* Building *)

LEMMA BuildIsSound ==
    ASSUME NEW t, IsTree(t), Documents(t), CheckClosure(t), Conforms(t),
           Invalid \notin Declared(t), ~Collide(Declared(t)), Declared(t) \subseteq DOMAIN t
    PROVE  Builds(t) /\ Sound(Build(t))
<1> DEFINE u == Build(t)
<1>1. Inclusion(t) \subseteq Declared(t) /\ \A c \in Inclusion(t) : Canonicalize(c) = c
  BY MembersDeclared
<1>2. SystemJson \in Inclusion(t) /\ \A i \in AgentIndex(t) : AgentPath(SystemOf(t), i) \in Inclusion(t)
  BY DEF Inclusion
<1>3. Builds(t)
  <2>1. ~Collide(Inclusion(t))  BY <1>1, CollideMonotone
  <2> QED  BY <1>1, <1>2, <2>1 DEF Builds, CheckManifest
<1>4. DOMAIN u = Inclusion(t) /\ \A c \in Inclusion(t) : u[c] = t[c]
  BY DEF Build, Restrict
<1> HIDE DEF u
<1>5. Agree(t, u)
  <2>1. SystemOf(u) = SystemOf(t)  BY <1>2, <1>4 DEF SystemOf
  <2> QED  BY <1>2, <1>4, <2>1 DEF Agree, AgentOf
<1>6. /\ AgentIndex(u) = AgentIndex(t) /\ Decls(u) = Decls(t)
      /\ Inclusion(u) = Inclusion(t) /\ CheckClosure(u)
  BY <1>5, AgreeSame
<1>7. IsTree(u)  BY <1>1, <1>4 DEF IsTree
<1>8. Documents(u)
  BY <1>2, <1>4, <1>5, <1>6 DEF Documents, Agree
<1>9. Conforms(u)
  <2> SUFFICES ASSUME NEW d \in Decls(t), Shape(d) \in DOMAIN u
               PROVE  CheckDeclared(u[Shape(d)], d.role)
    BY <1>6 DEF Conforms
  <2>1. Shape(d) \in DOMAIN t /\ u[Shape(d)] = t[Shape(d)]  BY <1>1, <1>4
  <2> QED  BY <2>1 DEF Conforms
<1> QED  BY <1>3, <1>4, <1>6, <1>7, <1>8, <1>9 DEF Sound, u

-----------------------------------------------------------------------------
(* What a sound tree is good for *)

\* The agents of a sound tree are found by their ids.
LEMMA FoundById ==
    ASSUME NEW t, CheckClosure(t), NEW i \in AgentIndex(t), SystemOf(t).agents \in Seq(Path)
    PROVE  /\ Finds(t, AgentOf(t, i).id, i)
           /\ \A j \in AgentIndex(t) : Finds(t, AgentOf(t, i).id, j) => j = i
           /\ (CHOOSE j \in AgentIndex(t) : Finds(t, AgentOf(t, i).id, j)) = i
<1>1. \A j \in AgentIndex(t) : AgentOf(t, j).id = AgentOf(t, i).id => j = i
  BY DEF CheckClosure
<1>2. AgentIndex(t) \subseteq Nat  BY DEF AgentIndex
<1>3. Finds(t, AgentOf(t, i).id, i)  BY <1>1, <1>2 DEF Finds
<1>4. \A j \in AgentIndex(t) : Finds(t, AgentOf(t, i).id, j) => j = i  BY <1>1 DEF Finds
<1> QED  BY <1>3, <1>4

\* A run asks for members only.
LEMMA ReachedIncluded ==
    ASSUME NEW t, CheckClosure(t), NEW i \in AgentIndex(t)
    PROVE  Reached(t, i) \subseteq Inclusion(t)
<1> DEFINE a == AgentOf(t, i)
           s == SystemOf(t)
<1>1. a \in Agents(t)  BY DEF Agents
<1>2. ASSUME NEW k \in Range(a.skills) PROVE s.skills[k] \in Range(s.skills)
  <2>1. k \in DOMAIN s.skills  BY <1>1 DEF CheckClosure
  <2> QED  BY <2>1 DEF Range
<1>3. Asked(t, i) \subseteq Packed(t)
  <2>1. AgentFiles(a) \subseteq Packed(t)  BY <1>1 DEF Packed
  <2>2. \A k \in Range(s.skills) : SkillFiles(k) \subseteq Packed(t)  BY DEF Packed
  <2> QED  BY <1>2, <2>1, <2>2 DEF Asked
<1> QED  BY <1>3 DEF Reached, Inclusion

LEMMA SoundResolves ==
    ASSUME NEW t, Sound(t), NEW a \in Agents(t)
    PROVE  Resolves(t, a.id)
<1>1. PICK i \in AgentIndex(t) : a = AgentOf(t, i)  BY DEF Agents
<1>2. SystemOf(t).agents \in Seq(Path)  BY DocumentsTyped DEF Sound, IsSystemDoc
<1>3. Finds(t, a.id, i)  BY <1>1, <1>2, FoundById DEF Sound
<1>4. \A j \in 1 .. i : AgentPath(SystemOf(t), j) \in DOMAIN t
  <2>1. 1 .. i \subseteq AgentIndex(t)  BY <1>2 DEF AgentIndex
  <2> QED  BY <2>1 DEF Sound, Documents
<1>5. Range(a.skills) \subseteq DOMAIN SystemOf(t).skills  BY DEF Sound, CheckClosure
<1>6. Reached(t, i) \subseteq DOMAIN t  BY ReachedIncluded DEF Sound
<1> QED  BY <1>1, <1>3, <1>4, <1>5, <1>6 DEF Resolves, Sound, Documents

\* The run of an agent is taken from its own spec.
LEMMA ResolveOf ==
    ASSUME NEW t, Sound(t), NEW i \in AgentIndex(t)
    PROVE  Resolve(t, AgentOf(t, i).id) = Closure(t, i)
<1>1. SystemOf(t).agents \in Seq(Path)  BY DocumentsTyped DEF Sound, IsSystemDoc
<1>2. (CHOOSE j \in AgentIndex(t) : Finds(t, AgentOf(t, i).id, j)) = i
  BY <1>1, FoundById DEF Sound
<1> QED  BY <1>2 DEF Resolve

LEMMA SoundOffersTools ==
    ASSUME NEW t, Sound(t), NEW a \in Agents(t), NEW k \in Resolve(t, a.id).skills,
           NEW ref \in Range(SystemOf(t).skills[k].tools)
    PROVE  /\ ref[1] \in DOMAIN Resolve(t, a.id).servers
           /\ ref[2] \in Resolve(t, a.id).tools[ref[1]]
<1>1. PICK i \in AgentIndex(t) : a = AgentOf(t, i)  BY DEF Agents
<1>2. /\ Resolve(t, a.id).skills = Range(a.skills)
      /\ DOMAIN Resolve(t, a.id).servers = Offering(a)
      /\ \A s \in Offering(a) : Resolve(t, a.id).tools[s] = Range(a.servers[s].tools)
  <2>1. Resolve(t, a.id) = Closure(t, i)  BY <1>1, ResolveOf
  <2>2. /\ Closure(t, i).skills = Range(AgentOf(t, i).skills)
        /\ Closure(t, i).servers = [s \in Offering(AgentOf(t, i)) |->
                                      ResolvedProcess(AgentOf(t, i).servers[s].process)]
        /\ Closure(t, i).tools = [s \in Offering(AgentOf(t, i)) |->
                                    Range(AgentOf(t, i).servers[s].tools)]
    BY DEF Closure
  <2> QED  BY <1>1, <2>1, <2>2
<1>3. PhaseB(a, SystemOf(t).skills[k])  BY <1>2 DEF Sound, CheckClosure
<1>4. ref[1] \in DOMAIN a.servers /\ ref[2] \in Range(a.servers[ref[1]].tools)
  BY <1>3 DEF PhaseB
<1>5. a.servers[ref[1]].tools # <<>>  BY <1>4 DEF Range
<1> QED  BY <1>2, <1>4, <1>5 DEF Offering

-----------------------------------------------------------------------------
(* The tokens of a process *)

LEMMA ProcessBound ==
    ASSUME NEW run, NEW p, CheckProcess(p), p.command \in Seq(Segment),
           Canonicals(p.files) \subseteq run.content,
           ResolvedProcess(p) \in run.hooks \union Range(run.servers)
    PROVE  TokensBound(run, p)
<1> DEFINE r == ResolvedProcess(p)
<1>1. /\ r.command = CanonCommand(p.command)
      /\ DOMAIN r.args = DOMAIN p.args /\ \A i \in DOMAIN p.args : r.args[i] = CanonArg(p.args[i])
      /\ Range(r.files) = Canonicals(p.files)
  <2>1. /\ r.command = CanonCommand(p.command)
        /\ r.args = [i \in DOMAIN p.args |-> CanonArg(p.args[i])]
        /\ r.files = [i \in DOMAIN p.files |-> Canonicalize(p.files[i])]
    BY DEF ResolvedProcess
  <2> HIDE DEF r
  <2>2. DOMAIN r.files = DOMAIN p.files /\ \A i \in DOMAIN p.files : r.files[i] = Canonicalize(p.files[i])
    BY <2>1
  <2>3. Range(r.files) = Canonicals(p.files)  BY <2>2 DEF Range, Canonicals
  <2> QED  BY <2>1, <2>3
<1>2. \A c : c \in Canonicals(p.files) =>
        BindWorkspaceLocal(c, Range(r.files)) = <<Workspace>> \o c
  BY <1>1 DEF BindWorkspaceLocal
<1>3. ASSUME Prefixed(p.command, ".")
      PROVE  /\ BindWorkspaceLocal(r.command, Range(r.files)) = <<Workspace>> \o Canonicalize(p.command)
             /\ Canonicalize(p.command) \in Canonicals(p.files)
             /\ Canonicalize(p.command) \in SystemLocalCommands(run)
  <2> DEFINE c == Canonicalize(p.command)
  <2>1. Shape(Decl(p.command, "script")) # Invalid /\ c \in Canonicals(p.files)
    <3>1. CommandAllowed(p)  BY DEF CheckProcess
    <3>2. Len(p.command) # 1 /\ p.command[1] = "."  BY <1>3, PrefixedIsLong
    <3>3. ~Prefixed(p.command, "")
      <4>1. "." # ""  OBVIOUS
      <4> QED  BY <3>2, <4>1 DEF Prefixed
    <3> QED  BY <3>1, <3>2, <3>3 DEF CommandAllowed
  <2>2. c # Invalid
    <3>1. Decl(p.command, "script").path = p.command  BY DEF Decl
    <3> QED  BY <2>1, <3>1, ShapeIsCanonical
  <2>3. r.command = c  BY <1>1, <2>2 DEF CanonCommand
  <2> HIDE DEF c, r
  <2>4. c \in {f \in Range(r.files) : r.command \in {f, <<".">> \o f}}  BY <1>1, <2>1, <2>3
  <2>5. r \in run.hooks \union Range(run.servers)  BY DEF r
  <2>6. c \in SystemLocalCommands(run)  BY <2>4, <2>5 DEF SystemLocalCommands
  <2> QED  BY <1>2, <2>1, <2>3, <2>6 DEF c
<1>4. ASSUME NEW i \in DOMAIN p.args, Prefixed(p.args[i], ".")
      PROVE  /\ BindWorkspaceLocal(r.args[i], Range(r.files)) = <<Workspace>> \o Canonicalize(p.args[i])
             /\ Canonicalize(p.args[i]) \in Canonicals(p.files)
  <2> DEFINE arg == p.args[i]
  <2>1. ArgAllowed(p, arg)  BY DEF CheckProcess, Range
  <2>2. Shape(Decl(arg, "script")) # Invalid /\ Canonicalize(arg) \in Canonicals(p.files)
    BY <1>4, <2>1 DEF ArgAllowed
  <2>3. Canonicalize(arg) # Invalid
    <3>1. Decl(arg, "script").path = arg  BY DEF Decl
    <3> QED  BY <2>2, <3>1, ShapeIsCanonical
  <2>4. r.args[i] = Canonicalize(arg)  BY <1>1, <1>4, <2>3 DEF CanonArg
  <2> HIDE DEF arg, r
  <2>5. BindWorkspaceLocal(r.args[i], Range(r.files)) = <<Workspace>> \o Canonicalize(arg)
    BY <1>2, <2>2, <2>4
  <2> QED  BY <2>2, <2>5 DEF arg
<1>5. /\ BindWorkspaceArgv(r).command = BindWorkspaceLocal(r.command, Range(r.files))
      /\ \A i \in DOMAIN p.args : BindWorkspaceArgv(r).args[i] = BindWorkspaceLocal(r.args[i], Range(r.files))
  <2> HIDE DEF r
  <2> QED  BY <1>1 DEF BindWorkspaceArgv
<1> HIDE DEF r
<1>6. Prefixed(p.command, ".") =>
        /\ BindWorkspaceArgv(r).command = <<Workspace>> \o Canonicalize(p.command)
        /\ Canonicalize(p.command) \in run.content
        /\ Canonicalize(p.command) \in SystemLocalCommands(run)
  BY <1>3, <1>5
<1>7. \A i \in DOMAIN p.args : Prefixed(p.args[i], ".") =>
        /\ BindWorkspaceArgv(r).args[i] = <<Workspace>> \o Canonicalize(p.args[i])
        /\ Canonicalize(p.args[i]) \in run.content
  BY <1>4, <1>5
<1> QED  BY <1>6, <1>7 DEF TokensBound, r

LEMMA SoundBinds ==
    ASSUME NEW t, Sound(t), NEW a \in Agents(t)
    PROVE  /\ \A h \in Range(a.hooks) : TokensBound(Resolve(t, a.id), h)
           /\ \A s \in Offering(a) : TokensBound(Resolve(t, a.id), a.servers[s].process)
<1>1. PICK i \in AgentIndex(t) : a = AgentOf(t, i)  BY DEF Agents
<1> DEFINE run == Resolve(t, a.id)
<1>2. /\ run.content = Reached(t, i)
      /\ run.hooks = {ResolvedProcess(h) : h \in Range(a.hooks)}
      /\ run.servers = [s \in Offering(a) |-> ResolvedProcess(a.servers[s].process)]
  <2>1. Resolve(t, a.id) = Closure(t, i)  BY <1>1, ResolveOf
  <2>2. /\ Closure(t, i).content = Reached(t, i)
        /\ Closure(t, i).hooks = {ResolvedProcess(h) : h \in Range(AgentOf(t, i).hooks)}
        /\ Closure(t, i).servers = [s \in Offering(AgentOf(t, i)) |->
                                      ResolvedProcess(AgentOf(t, i).servers[s].process)]
    BY DEF Closure
  <2> QED  BY <1>1, <2>1, <2>2
<1> HIDE DEF run
<1>3. IsAgentDoc(a) /\ CheckAgent(a)  BY <1>1, DocumentsTyped DEF Sound, Documents
<1>4. \A p \in AgentFiles(a) : Canonicalize(p) \in run.content
  BY <1>1, <1>2 DEF Reached, Asked
<1>5. ASSUME NEW h \in Range(a.hooks) PROVE TokensBound(run, h)
  <2>1. CheckProcess(h)  BY <1>3 DEF CheckAgent
  <2>2. h.command \in Seq(Segment)
    <3>1. h \in Process  BY <1>3 DEF IsAgentDoc, Range
    <3> QED  BY <3>1 DEF Process, Path
  <2>3. Range(h.files) \subseteq AgentFiles(a)  BY DEF AgentFiles, HookFiles
  <2>4. Canonicals(h.files) \subseteq run.content
    BY <1>4, <2>3 DEF Canonicals, Range
  <2>5. ResolvedProcess(h) \in run.hooks  BY <1>2
  <2> QED  BY <2>1, <2>2, <2>4, <2>5, ProcessBound
<1>6. ASSUME NEW s \in Offering(a) PROVE TokensBound(run, a.servers[s].process)
  <2> DEFINE p == a.servers[s].process
  <2>0. s \in DOMAIN a.servers  BY DEF Offering
  <2>1. CheckProcess(p)  BY <1>3, <2>0 DEF CheckAgent
  <2>2. p.command \in Seq(Segment)
    <3>1. a.servers[s] \in Server  BY <1>3, <2>0 DEF IsAgentDoc
    <3> QED  BY <3>1 DEF Server, Process, Path
  <2>3. Range(p.files) \subseteq AgentFiles(a)  BY DEF AgentFiles, ServerFiles
  <2>4. Canonicals(p.files) \subseteq run.content
    BY <1>4, <2>3 DEF Canonicals, Range
  <2>5. ResolvedProcess(p) \in Range(run.servers)  BY <1>2 DEF Range
  <2> HIDE DEF p
  <2>6. TokensBound(run, p)  BY <2>1, <2>2, <2>4, <2>5, ProcessBound
  <2> QED  BY <2>6 DEF p
<1> QED  BY <1>5, <1>6 DEF run

-----------------------------------------------------------------------------
(* Roles *)

Roles == {"other", "agent", "system", "script", "asset", "context", "sop", "skill", "output"}

LEMMA RolesTyped ==
    ASSUME NEW t, NEW d \in Decls(t)
    PROVE  d.role \in Roles
<1>1. CASE d = Decl(SystemJson, "system")  BY <1>1 DEF Decl, Roles
<1>2. ASSUME NEW a, d \in AgentDecls(a) PROVE d.role \in Roles
  BY <1>2 DEF AgentDecls, Decl, Roles
<1>3. ASSUME NEW k, d \in SkillDecls(k) PROVE d.role \in Roles
  BY <1>3 DEF SkillDecls, Decl, Roles
<1>4. ASSUME d \in SystemDecls(SystemOf(t)) PROVE d.role \in Roles
  BY <1>3, <1>4 DEF SystemDecls, Decl, Roles
<1> QED  BY <1>1, <1>2, <1>4 DEF Decls

LEMMA RankTyped ==
    \A r \in Roles : Rank[r] \in 0 .. 6
  BY DEF Roles, Rank

\* The merged role is one of the roles, and none of them ranks higher.
LEMMA MergedIsStrongest ==
    ASSUME NEW R \in SUBSET Roles, R # {}
    PROVE  MergeRoles(R) \in R /\ \A q \in R : Rank[q] <= Rank[MergeRoles(R)]
<1> DEFINE Top(n) == \E r \in R : Rank[r] = n /\ \A q \in R : Rank[q] <= n
<1>1. Top(0) \/ Top(1) \/ Top(2) \/ Top(3) \/ Top(4) \/ Top(5) \/ Top(6)
  <2> DEFINE Has(n) == \E r \in R : Rank[r] = n
             Upto(n) == \A q \in R : Rank[q] <= n
  <2>1. \A q \in R : Rank[q] \in 0 .. 6  BY RankTyped
  <2>2. Upto(6)  BY <2>1
  <2>3. /\ ~Has(6) => Upto(5)
        /\ ~Has(5) /\ Upto(5) => Upto(4)
        /\ ~Has(4) /\ Upto(4) => Upto(3)
        /\ ~Has(3) /\ Upto(3) => Upto(2)
        /\ ~Has(2) /\ Upto(2) => Upto(1)
        /\ ~Has(1) /\ Upto(1) => Upto(0)
        /\ Upto(0) => Has(0)
    BY <2>1
  <2>4. \A n : Has(n) /\ Upto(n) => Top(n)  OBVIOUS
  <2> HIDE DEF Has, Upto, Top
  <2> QED  BY <2>2, <2>3, <2>4
<1>2. \E r \in R : \A q \in R : Rank[q] <= Rank[r]  BY <1>1
<1> QED  BY <1>2 DEF MergeRoles

\* What passes the check of a role passes that of every role below it.
LEMMA StricterSuffices ==
    ASSUME NEW q \in Roles, NEW r \in Roles, Rank[q] <= Rank[r],
           NEW content, CheckDeclared(content, r)
    PROVE  CheckDeclared(content, q)
<1>1. q = "output" => r = "output"  BY DEF Roles, Rank
<1>2. q \in {"sop", "skill", "context"} => r \in {"sop", "skill", "context", "output"}
  BY DEF Roles, Rank
<1> QED  BY <1>1, <1>2 DEF CheckDeclared, Encoded, Utf8

\* A document passes the check of every role.
LEMMA DocumentsPass ==
    ASSUME NEW content, content.kind \in {"system", "agent"}, NEW r
    PROVE  CheckDeclared(content, r)
  BY DEF CheckDeclared, Encoded, Utf8

-----------------------------------------------------------------------------
(* The invariant *)

\* How far the documents are checked at each step.
Checked ==
    /\ agent \in Nat \ {0}
    /\ pc \in {"idle", "system"} => DOMAIN snap = {} /\ agent = 1
    /\ pc = "agents" =>
         /\ SystemJson \in DOMAIN snap
         /\ SystemOf(snap).kind = "system" /\ CheckSystem(SystemOf(snap))
         /\ \A i \in AgentIndex(snap) : i < agent =>
              /\ AgentPath(SystemOf(snap), i) \in DOMAIN snap
              /\ AgentOf(snap, i).kind = "agent" /\ CheckAgent(AgentOf(snap, i))
         /\ \A c \in DOMAIN snap : snap[c].kind \in {"system", "agent"}
    /\ pc = "load" =>
         /\ Documents(snap) /\ CheckClosure(snap) /\ Conforms(snap)
         /\ Invalid \notin Declared(snap) /\ ~Collide(Declared(snap))

SourceInv == TypeOK /\ Checked /\ BuildMeetsNoSurprise /\ \A t \in store : Sound(t)

LEMMA OnDiskTyped ==
    ASSUME TypeOK, NEW c, OnDisk(c).kind # "missing"
    PROVE  c \in DOMAIN Versions /\ OnDisk(c) \in Versions[c]
  BY DEF TypeOK, OnDisk, IsTree

\* A load adds one file and keeps the others.
LEMMA LoadAdds ==
    ASSUME NEW c, NEW content, Load(c, content)
    PROVE  /\ DOMAIN snap' = DOMAIN snap \union {c}
           /\ \A x \in DOMAIN snap : snap'[x] = snap[x]
           /\ c \notin DOMAIN snap => snap'[c] = content
  BY DEF Load

LEMMA LoadTyped ==
    ASSUME TypeOK, NEW c, NEW content, Load(c, content),
           c \in DOMAIN Versions, content \in Versions[c]
    PROVE  IsTree(snap')
<1>1. /\ DOMAIN snap' = DOMAIN snap \union {c}
      /\ \A x \in DOMAIN snap : snap'[x] = snap[x]
      /\ c \notin DOMAIN snap => snap'[c] = content
  BY LoadAdds
<1> QED  BY <1>1 DEF TypeOK, IsTree

LEMMA InitInv == Init => SourceInv
<1> SUFFICES ASSUME Init PROVE SourceInv  OBVIOUS
<1>1. DOMAIN snap = {}  BY DEF Init, NothingRead
<1>2. DOMAIN disk = DOMAIN Versions /\ IsTree(disk)
  BY TreesAssumption DEF Init, IsTree
<1> QED
  BY <1>1, <1>2, BoundAssumption DEF Init, SourceInv, TypeOK, IsTree, Checked, BuildMeetsNoSurprise

\* An error forgets what the register read and nothing else.
LEMMA RefuseStep ==
    ASSUME SourceInv, Refuse
    PROVE  SourceInv'
<1>1. DOMAIN snap' = {}  BY DEF Refuse, NothingRead
<1>2. UNCHANGED <<disk, store, edits, registers>> /\ pc' = "idle" /\ agent' = 1
  BY DEF Refuse
<1>3. TypeOK'  BY <1>1, <1>2 DEF SourceInv, TypeOK, IsTree
<1>4. Checked'  BY <1>1, <1>2 DEF Checked
<1> QED  BY <1>2, <1>3, <1>4 DEF SourceInv, BuildMeetsNoSurprise

LEMMA StartStep ==
    ASSUME SourceInv, Start
    PROVE  SourceInv'
<1>1. TypeOK'  BY BoundAssumption DEF Start, SourceInv, TypeOK, IsTree
<1>2. Checked'  BY DEF Start, SourceInv, Checked
<1> QED  BY <1>1, <1>2 DEF Start, SourceInv, BuildMeetsNoSurprise

LEMMA EditStep ==
    ASSUME SourceInv, Edit
    PROVE  SourceInv'
<1>1. UNCHANGED <<pc, snap, agent, store, registers>>  BY DEF Edit
<1>2. DOMAIN disk' = DOMAIN Versions /\ IsTree(disk)'
  BY DEF Edit, SourceInv, TypeOK, IsTree
<1>3. edits' \in 0 .. MaxEdits  BY BoundAssumption DEF Edit, SourceInv, TypeOK
<1>4. TypeOK'  BY <1>1, <1>2, <1>3 DEF SourceInv, TypeOK, IsTree
<1>5. Checked'  BY <1>1 DEF SourceInv, Checked
<1> QED  BY <1>1, <1>4, <1>5 DEF SourceInv, BuildMeetsNoSurprise

LEMMA LoadSystemStep ==
    ASSUME SourceInv, LoadSystem
    PROVE  SourceInv'
<1> DEFINE read == OnDisk(SystemJson)
<1>1. pc = "system" /\ TypeOK /\ DOMAIN snap = {} /\ agent = 1
  BY DEF LoadSystem, SourceInv, Checked
<1>2. CASE Refuse  BY <1>2, RefuseStep
<1>3. CASE /\ read.kind = "system" /\ CheckSystem(read)
           /\ Load(SystemJson, read) /\ Goto("system", "agents") /\ UNCHANGED agent
  <2> HIDE DEF read
  <2>1. UNCHANGED <<disk, agent, store, edits, registers>> /\ pc' = "agents"
    BY <1>3 DEF Goto
  <2>2. DOMAIN snap' = {SystemJson} /\ snap'[SystemJson] = read
    BY <1>1, <1>3, LoadAdds
  <2>3. IsTree(snap')
    <3>1. SystemJson \in DOMAIN Versions /\ read \in Versions[SystemJson]
      BY <1>1, <1>3, OnDiskTyped DEF read
    <3> QED  BY <1>1, <1>3, <3>1, LoadTyped
  <2>4. TypeOK'  BY <1>1, <2>1, <2>3 DEF TypeOK, IsTree
  <2>5. SystemOf(snap') = read  BY <2>2 DEF SystemOf
  <2>6. AgentIndex(snap') \subseteq Nat \ {0}
    <3>1. IsSystemDoc(read)  BY <1>3, <2>2, <2>3, KindTells
    <3>2. read.agents \in Seq(Path)  BY <3>1 DEF IsSystemDoc
    <3> QED  BY <2>5, <3>2 DEF AgentIndex
  <2>7. Checked'
    <3>1. \A i \in AgentIndex(snap') : ~(i < 1)  BY <2>6
    <3>2. SystemJson \in DOMAIN snap' /\ \A c \in DOMAIN snap' : snap'[c].kind \in {"system", "agent"}
      BY <1>3, <2>2
    <3> QED  BY <1>1, <1>3, <2>1, <2>5, <3>1, <3>2 DEF Checked
  <2> QED  BY <2>1, <2>4, <2>7 DEF SourceInv, BuildMeetsNoSurprise
<1> QED  BY <1>2, <1>3 DEF LoadSystem

LEMMA LoadAgentStep ==
    ASSUME SourceInv, LoadAgent
    PROVE  SourceInv'
<1> DEFINE c    == AgentPath(SystemOf(snap), agent)
           read == IF c \in DOMAIN snap THEN snap[c] ELSE OnDisk(c)
<1>1. pc = "agents" /\ agent \in AgentIndex(snap) /\ TypeOK /\ Checked
  BY DEF LoadAgent, SourceInv
<1>2. CASE Refuse  BY <1>2, RefuseStep
<1>3. CASE /\ read.kind = "agent" /\ CheckAgent(read) /\ Load(c, read)
           /\ agent' = agent + 1 /\ UNCHANGED <<disk, pc, store, edits, registers>>
  <2>1. /\ DOMAIN snap' = DOMAIN snap \union {c}
        /\ \A x \in DOMAIN snap : snap'[x] = snap[x]
        /\ snap'[c] = read
    <3>1. Load(c, read)  BY <1>3
    <3>2. c \in DOMAIN snap => read = snap[c]  OBVIOUS
    <3> HIDE DEF c, read
    <3>3. /\ DOMAIN snap' = DOMAIN snap \union {c}
          /\ \A x \in DOMAIN snap : snap'[x] = snap[x]
          /\ c \notin DOMAIN snap => snap'[c] = read
      BY <3>1, LoadAdds
    <3> QED  BY <3>2, <3>3
  <2>2. IsTree(snap')
    <3>1. CASE c \in DOMAIN snap
      <4> HIDE DEF c, read
      <4> QED  BY <1>1, <2>1, <3>1 DEF TypeOK, IsTree
    <3>2. CASE c \notin DOMAIN snap
      <4>1. read = OnDisk(c)  BY <3>2
      <4>2. Load(c, read) /\ read.kind = "agent"  BY <1>3
      <4> HIDE DEF c, read
      <4>3. c \in DOMAIN Versions /\ read \in Versions[c]
        BY <1>1, <4>1, <4>2, OnDiskTyped
      <4> QED  BY <1>1, <4>2, <4>3, LoadTyped
    <3> QED  BY <3>1, <3>2
  <2>3. /\ SystemOf(snap') = SystemOf(snap) /\ AgentIndex(snap') = AgentIndex(snap)
        /\ SystemJson \in DOMAIN snap' /\ AgentIndex(snap) \subseteq Nat
    <3> HIDE DEF c, read
    <3>1. SystemJson \in DOMAIN snap /\ SystemOf(snap).kind = "system"  BY <1>1 DEF Checked
    <3>2. SystemOf(snap') = SystemOf(snap)  BY <2>1, <3>1 DEF SystemOf
    <3>3. IsSystemDoc(SystemOf(snap))  BY <1>1, <3>1, KindTells DEF TypeOK, SystemOf
    <3>4. AgentIndex(snap) \subseteq Nat  BY <3>3 DEF AgentIndex, IsSystemDoc
    <3> QED  BY <2>1, <3>1, <3>2, <3>4 DEF AgentIndex
  <2>4. ASSUME NEW i \in AgentIndex(snap), i < agent'
        PROVE  /\ AgentPath(SystemOf(snap'), i) \in DOMAIN snap'
               /\ AgentOf(snap', i).kind = "agent" /\ CheckAgent(AgentOf(snap', i))
    <3>1. i < agent \/ i = agent
      <4> HIDE DEF c, read
      <4> QED  BY <1>1, <1>3, <2>3, <2>4 DEF Checked
    <3>2. CASE i < agent
      <4> HIDE DEF c, read
      <4>1. /\ AgentPath(SystemOf(snap), i) \in DOMAIN snap
            /\ AgentOf(snap, i).kind = "agent" /\ CheckAgent(AgentOf(snap, i))
        BY <1>1, <3>2 DEF Checked
      <4>2. AgentOf(snap', i) = AgentOf(snap, i)  BY <2>1, <2>3, <4>1 DEF AgentOf
      <4> QED  BY <2>1, <2>3, <4>1, <4>2
    <3>3. CASE i = agent
      <4>1. AgentPath(SystemOf(snap'), i) = c  BY <2>3, <3>3
      <4>2. read.kind = "agent" /\ CheckAgent(read)  BY <1>3
      <4> HIDE DEF c, read
      <4>3. AgentOf(snap', i) = read  BY <2>1, <4>1 DEF AgentOf
      <4> QED  BY <2>1, <4>1, <4>2, <4>3
    <3> QED  BY <3>1, <3>2, <3>3
  <2>5. UNCHANGED <<disk, pc, store, edits, registers>> /\ agent' = agent + 1
        /\ read.kind = "agent"
    BY <1>3
  <2> HIDE DEF c, read
  <2>6. TypeOK'  BY <1>1, <2>2, <2>5 DEF TypeOK, IsTree
  <2>7. \A x \in DOMAIN snap' : snap'[x].kind \in {"system", "agent"}
    BY <1>1, <2>1, <2>5 DEF Checked
  <2>8. Checked'
    <3>1. agent' \in Nat \ {0} /\ pc' = "agents"  BY <1>1, <2>5 DEF Checked
    <3>2. SystemOf(snap').kind = "system" /\ CheckSystem(SystemOf(snap'))
      BY <1>1, <2>3 DEF Checked
    <3> QED  BY <2>3, <2>4, <2>7, <3>1, <3>2 DEF Checked
  <2> QED  BY <2>5, <2>6, <2>8 DEF SourceInv, BuildMeetsNoSurprise
<1> QED  BY <1>2, <1>3 DEF LoadAgent

LEMMA DeclareStep ==
    ASSUME SourceInv, Declare
    PROVE  SourceInv'
<1>1. pc = "agents" /\ agent \notin AgentIndex(snap) /\ TypeOK /\ Checked
  BY DEF Declare, SourceInv
<1>2. CASE Refuse  BY <1>2, RefuseStep
<1>3. CASE /\ CheckClosure(snap)
           /\ Invalid \notin Declared(snap) /\ ~Collide(Declared(snap))
           /\ Goto("agents", "load") /\ UNCHANGED <<snap, agent>>
  <2>1. /\ SystemJson \in DOMAIN snap
        /\ SystemOf(snap).kind = "system" /\ CheckSystem(SystemOf(snap))
        /\ \A i \in AgentIndex(snap) : i < agent =>
             /\ AgentPath(SystemOf(snap), i) \in DOMAIN snap
             /\ AgentOf(snap, i).kind = "agent" /\ CheckAgent(AgentOf(snap, i))
        /\ \A c \in DOMAIN snap : snap[c].kind \in {"system", "agent"}
        /\ agent \in Nat \ {0}
    BY <1>1 DEF Checked
  <2>2. \A i \in AgentIndex(snap) : i < agent
    <3>1. IsSystemDoc(SystemOf(snap))  BY <1>1, <2>1, KindTells DEF TypeOK, SystemOf
    <3>2. AgentIndex(snap) = 1 .. Len(SystemOf(snap).agents) /\ Len(SystemOf(snap).agents) \in Nat
      BY <3>1 DEF AgentIndex, IsSystemDoc
    <3> QED  BY <1>1, <2>1, <3>2
  <2>3. Documents(snap)  BY <2>1, <2>2 DEF Documents
  <2>4. Conforms(snap)  BY <2>1, DocumentsPass DEF Conforms
  <2>5. UNCHANGED <<disk, snap, agent, store, edits, registers>> /\ pc' = "load"
    BY <1>3 DEF Goto
  <2>6. TypeOK'  BY <1>1, <2>5 DEF TypeOK, IsTree
  <2>7. Checked'  BY <1>3, <2>1, <2>3, <2>4, <2>5 DEF Checked
  <2> QED  BY <2>5, <2>6, <2>7 DEF SourceInv, BuildMeetsNoSurprise
<1> QED  BY <1>2, <1>3 DEF Declare

LEMMA LoadDeclaredStep ==
    ASSUME SourceInv, LoadDeclared
    PROVE  SourceInv'
<1>1. /\ pc = "load" /\ TypeOK /\ Checked
      /\ Documents(snap) /\ CheckClosure(snap) /\ Conforms(snap)
      /\ Invalid \notin Declared(snap) /\ ~Collide(Declared(snap))
  BY DEF LoadDeclared, SourceInv, Checked
<1>2. CASE Refuse  BY <1>2, RefuseStep
<1>3. ASSUME NEW c \in Declared(snap) \ DOMAIN snap,
             CheckDeclared(OnDisk(c), MergeRoles(RolesOf(snap, c))), Load(c, OnDisk(c)),
             UNCHANGED <<disk, pc, agent, store, edits, registers>>
      PROVE  SourceInv'
  <2>1. /\ DOMAIN snap' = DOMAIN snap \union {c}
        /\ \A x \in DOMAIN snap : snap'[x] = snap[x]
        /\ snap'[c] = OnDisk(c)
    BY <1>3, LoadAdds
  <2>2. IsTree(snap')
    <3>1. OnDisk(c).kind # "missing"  BY <1>3 DEF CheckDeclared
    <3> QED  BY <1>1, <1>3, <3>1, OnDiskTyped, LoadTyped
  <2>3. Agree(snap, snap')
    <3>1. SystemOf(snap') = SystemOf(snap)  BY <1>1, <2>1 DEF Documents, SystemOf
    <3> QED  BY <1>1, <2>1, <3>1 DEF Agree, AgentOf, Documents
  <2>4. /\ AgentIndex(snap') = AgentIndex(snap) /\ Decls(snap') = Decls(snap)
        /\ CheckClosure(snap')
    BY <1>1, <2>3, AgreeSame
  <2>5. Documents(snap')  BY <1>1, <2>1, <2>3, <2>4 DEF Documents, Agree
  <2>6. Conforms(snap')
    <3> SUFFICES ASSUME NEW d \in Decls(snap), Shape(d) \in DOMAIN snap'
                 PROVE  CheckDeclared(snap'[Shape(d)], d.role)
      BY <2>4 DEF Conforms
    <3>1. CASE Shape(d) \in DOMAIN snap  BY <1>1, <2>1, <3>1 DEF Conforms
    <3>2. CASE Shape(d) = c
      <4>1. RolesOf(snap, c) \in SUBSET Roles /\ d.role \in RolesOf(snap, c)
        BY <3>2, RolesTyped DEF RolesOf
      <4>2. /\ MergeRoles(RolesOf(snap, c)) \in Roles
            /\ Rank[d.role] <= Rank[MergeRoles(RolesOf(snap, c))]
        BY <4>1, MergedIsStrongest
      <4>3. d.role \in Roles  BY <4>1
      <4>4. CheckDeclared(OnDisk(c), d.role)  BY <1>3, <4>2, <4>3, StricterSuffices
      <4> QED  BY <2>1, <3>2, <4>4
    <3> QED  BY <2>1, <3>1, <3>2
  <2>7. Declared(snap') = Declared(snap)  BY <2>4 DEF Declared
  <2>8. TypeOK'  BY <1>1, <1>3, <2>2 DEF TypeOK, IsTree
  <2>9. Checked'  BY <1>1, <1>3, <2>4, <2>5, <2>6, <2>7 DEF Checked
  <2> QED  BY <1>3, <2>8, <2>9 DEF SourceInv, BuildMeetsNoSurprise
<1> QED  BY <1>2, <1>3 DEF LoadDeclared

LEMMA PublishStep ==
    ASSUME SourceInv, Publish
    PROVE  SourceInv'
<1>1. /\ pc = "load" /\ Declared(snap) \subseteq DOMAIN snap /\ TypeOK
      /\ Documents(snap) /\ CheckClosure(snap) /\ Conforms(snap)
      /\ Invalid \notin Declared(snap) /\ ~Collide(Declared(snap))
  BY DEF Publish, SourceInv, Checked
<1>2. Builds(snap) /\ Sound(Build(snap))  BY <1>1, BuildIsSound DEF TypeOK
<1>3. /\ pc' = "idle" /\ store' = store \union {Build(snap)}
      /\ snap' = NothingRead /\ agent' = 1 /\ UNCHANGED <<disk, edits, registers>>
  BY <1>2 DEF Publish
<1>4. \A t \in store' : Sound(t)  BY <1>2, <1>3 DEF SourceInv
<1>5. DOMAIN snap' = {}  BY <1>3 DEF NothingRead
<1>6. TypeOK'
  <2>1. \A t \in store' : IsTree(t)  BY <1>4 DEF Sound
  <2>2. IsTree(snap')  BY <1>5 DEF IsTree
  <2> QED  BY <1>1, <1>3, <2>1, <2>2 DEF TypeOK
<1>7. Checked'  BY <1>3, <1>5 DEF Checked
<1> QED  BY <1>3, <1>4, <1>6, <1>7 DEF SourceInv, BuildMeetsNoSurprise

LEMMA NextInv == SourceInv /\ [Next]_vars => SourceInv'
<1> SUFFICES ASSUME SourceInv, [Next]_vars PROVE SourceInv'  OBVIOUS
<1>1. CASE Start  BY <1>1, StartStep
<1>2. CASE LoadSystem  BY <1>2, LoadSystemStep
<1>3. CASE LoadAgent  BY <1>3, LoadAgentStep
<1>4. CASE Declare  BY <1>4, DeclareStep
<1>5. CASE LoadDeclared  BY <1>5, LoadDeclaredStep
<1>6. CASE Publish  BY <1>6, PublishStep
<1>7. CASE TooLarge  BY <1>7, RefuseStep DEF TooLarge
<1>8. CASE Edit  BY <1>8, EditStep
<1>9. CASE UNCHANGED vars
  BY <1>9 DEF vars, SourceInv, TypeOK, IsTree, Checked, BuildMeetsNoSurprise
<1> QED  BY <1>1, <1>2, <1>3, <1>4, <1>5, <1>6, <1>7, <1>8, <1>9 DEF Next

THEOREM SourceInvariant == Spec => []SourceInv
  BY InitInv, NextInv, PTL DEF Spec

-----------------------------------------------------------------------------
(* The properties of the run *)

\* What a register reads and what it stores are files the author had.
THEOREM SourceTypeCorrect == Spec => []TypeOK
<1>1. SourceInv => TypeOK  BY DEF SourceInv
<1> QED  BY <1>1, SourceInvariant, PTL

\* Building never refuses what validation admitted: each member Inclusion
\* computes was declared, and so has a canonical name of its own and was read.
THEOREM BuildMeetsNoSurpriseAlways == Spec => []BuildMeetsNoSurprise
<1>1. SourceInv => BuildMeetsNoSurprise  BY DEF SourceInv
<1> QED  BY <1>1, SourceInvariant, PTL

\* An artifact is valid by its own bytes, whatever the author edited meanwhile.
THEOREM StoredAsCheckedAlways == Spec => []StoredAsChecked
<1>1. SourceInv => StoredAsChecked
  BY DEF SourceInv, StoredAsChecked, Sound, Documents, Conforms, Agents
<1> QED  BY <1>1, SourceInvariant, PTL

\* The closure of a run finds all its files in the artifact.
THEOREM ResolveMeetsNoGapAlways == Spec => []ResolveMeetsNoGap
<1>1. SourceInv => ResolveMeetsNoGap  BY SoundResolves DEF SourceInv, ResolveMeetsNoGap
<1> QED  BY <1>1, SourceInvariant, PTL

\* The tools a skill of a run names are on the allow lists of its servers.
THEOREM SkillToolsOfferedAlways == Spec => []SkillToolsOffered
<1>1. SourceInv => SkillToolsOffered
  BY SoundOffersTools DEF SourceInv, SkillToolsOffered
<1> QED  BY <1>1, SourceInvariant, PTL

\* What an author wrote relative to the source is a file of the run, and a
\* command among them is made executable.
THEOREM LocalTokensBoundAlways == Spec => []LocalTokensBound
<1>1. SourceInv => LocalTokensBound  BY SoundBinds DEF SourceInv, LocalTokensBound
<1> QED  BY <1>1, SourceInvariant, PTL
=============================================================================
