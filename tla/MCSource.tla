------------------------------ MODULE MCSource ------------------------------
(***************************************************************************)
(* A system of two agents that share a skill.  The versions of its files    *)
(* are the mistakes the rules are there for, one at a time: the author has  *)
(* any combination of them and edits while the tree is registered.          *)
(***************************************************************************)
EXTENDS Source, TLC

Local(p) == <<".">> \o p

AJson == <<"a.agent.json">>
BJson == <<"b.agent.json">>
Sop   == <<"a.sop.md">>
Doc   == <<"k.skill.md">>
Tool  == <<"bin", "tool">>
Data  == <<"data">>
Upper == <<"DATA">>
Extra == <<"extra">>
Gone  == <<"gone">>

MCPortable == {"system.json", "a.agent.json", "b.agent.json", "a.sop.md", "k.skill.md",
               "bin", "tool", "data", "DATA", "extra", "gone", "etc", ".env"}
MCSegment == MCPortable \union {"", ".", ".."}
MCLower   == [s \in MCSegment |-> IF s = "DATA" THEN "data" ELSE s]

NoServers == [s \in {} |-> s]

Text(kind) == [kind |-> kind]

\* The skill: its script is the tool the agents run, its asset the data.
TheSkill(tools) ==
    [document |-> Doc, scripts |-> <<Tool>>, contexts |-> <<>>, assets |-> <<Local(Data)>>,
     tools |-> tools]

System(agents, tools) ==
    [kind |-> "system", agents |-> agents, skills |-> ("k" :> TheSkill(tools))]

Systems ==
    {System(<<AJson, Local(BJson)>>, <<<<"srv", "t">>>>),
     System(<<AJson, Local(AJson)>>, <<>>),
     System(<<AJson, SystemJson>>, <<>>)}

Runs(command, args, files) ==
    [command |-> command, args |-> args, files |-> files, environment |-> <<"v">>]

Agent(id) ==
    [kind |-> "agent", id |-> id, sop |-> Local(Sop), contexts |-> <<>>, output |-> <<>>,
     hooks |-> <<>>, servers |-> NoServers, skills |-> <<>>, environment |-> <<"v">>]

\* A server with a local command and arguments of all kinds.
Equipped ==
    [Agent("a") EXCEPT
       !.skills  = <<"k">>,
       !.servers = ("srv" :> [tools |-> <<"t">>,
                              process |-> Runs(Local(Tool),
                                               <<Local(Data), Data, <<"", "etc">>, <<"..">>>>,
                                               <<Tool, Local(Data)>>)])]

AVersions ==
    {Equipped,
     \* a file among two lists, checked under the stricter role
     [Equipped EXCEPT !.contexts = <<Data>>, !.output = <<Local(Data)>>],
     \* a tool the skill needs is not on the list
     [Equipped EXCEPT !.servers["srv"].tools = <<"u">>],
     \* an argument is not among the files of its process
     [Equipped EXCEPT !.servers["srv"].process.files = <<Tool>>],
     \* a server without tools, whose file nobody else has
     [Agent("a") EXCEPT !.servers = ("srv" :> [tools |-> <<>>,
                                               process |-> Runs(<<"", "bin">>, <<>>, <<Extra>>)])],
     \* a hook with a file of its own
     [Agent("a") EXCEPT !.hooks = <<Runs(<<"data">>, <<Local(Extra)>>, <<Extra>>)>>],
     \* the same but for the case
     [Agent("a") EXCEPT !.contexts = <<Upper, Data>>],
     \* a path that leaves the tree, a secret and a file that is not there
     [Agent("a") EXCEPT !.contexts = <<<<"..", "data">>>>],
     [Agent("a") EXCEPT !.contexts = <<<<".env">>>>],
     [Agent("a") EXCEPT !.hooks = <<Runs(Local(Gone), <<>>, <<Gone>>)>>],
     \* the id of the other agent
     Agent("b")}

\* The other agent asks for nothing, or for the documents as its schema and context.
BVersions ==
    {Agent("b"),
     [Agent("b") EXCEPT !.contexts = <<SystemJson>>, !.output = <<AJson>>]}

MCVersions ==
    (SystemJson :> Systems) @@ (AJson :> AVersions) @@ (BJson :> BVersions)
      @@ (Sop :> {Text("text")}) @@ (Doc :> {Text("text")})
      @@ (Tool :> {Text("binary"), Text("link")})
      @@ (Data :> {Text("text"), Text("schema"), Text("binary")})
      @@ (Upper :> {Text("text")}) @@ (Extra :> {Text("text"), Text("denied")})

\* One mistake of the documents and any state of the files they name.
MCTrees ==
    {(SystemJson :> s) @@ (AJson :> a) @@ (BJson :> b) @@ (Sop :> Text("text"))
       @@ (Doc :> Text("text")) @@ (Tool :> t) @@ (Data :> d) @@ (Upper :> Text("text"))
       @@ (Extra :> Text("text")) :
       s \in Systems, a \in AVersions, b \in BVersions,
       t \in MCVersions[Tool], d \in MCVersions[Data]}
=============================================================================
