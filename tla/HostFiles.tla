------------------------------ MODULE HostFiles ------------------------------
(***************************************************************************)
(* What a host finds when Execute starts it: the instructions of its Agent  *)
(* (materialize) and the values of its variables (resolveSecrets, overlay). *)
(*                                                                         *)
(* Claude Code reads its agent card and its skills in the profile, which    *)
(* all its runs share and which outlives them. There a file is truncated    *)
(* and then written, with other runs, a clean or the death of the process   *)
(* in between. Every other file of a plan is in the run's own directory. Of *)
(* those only the ones with slots matter here: an entry of an environment   *)
(* that stands for a value. Recovery and removal of run directories are the *)
(* subject of RunLifecycle.                                                 *)
(***************************************************************************)
EXTENDS Naturals, FiniteSets

CONSTANTS
    Run,           \* runs of hosts, each with a run directory of its own
    Host,
    HostOf,        \* run -> host
    Instructions,  \* run -> path in the profile -> text the plan has for it
    Path, Words,   \* those paths and texts
    Name,          \* names of environment variables
    StartsWith,    \* name -> the other names it begins with
    Slots,         \* run -> the slots of its files
    Refs,          \* run -> the secret references of its launch plan
    MaxCleans      \* how often host state is cleaned (a bound of the model)

File == {"settings", "mcp", "config"}

\* config.toml is rewritten as text, the others as JSON.
Format == [f \in File |-> IF f = "config" THEN "toml" ELSE "json"]

ASSUME RunsAssumption ==
    /\ HostOf \in [Run -> Host]
    /\ \A r \in Run : DOMAIN Instructions[r] \subseteq Path
    /\ \A r \in Run : \A p \in DOMAIN Instructions[r] : Instructions[r][p] \in Words
    /\ "closed" \notin Path /\ {"absent", "cut", "torn"} \intersect Words = {}

ASSUME NamesAssumption ==
    /\ StartsWith \in [Name -> SUBSET Name]
    /\ \A n \in Name : n \notin StartsWith[n]
    /\ \A n \in Name : \A m \in StartsWith[n] : StartsWith[m] \subseteq StartsWith[n]

ASSUME RefsAssumption ==
    /\ \A r \in Run : \A ref \in Refs[r] :
         /\ DOMAIN ref = {"name", "consumer", "required", "exported"}
         /\ ref.name \in Name /\ ref.required \in BOOLEAN /\ ref.exported \in BOOLEAN
    /\ \A r \in Run : \A s \in Slots[r] :
         s.file \in File /\ \E ref \in Refs[r] : ref.name = s.name /\ ref.consumer = s.consumer

ASSUME BoundAssumption == MaxCleans \in Nat

VARIABLES
    pc,         \* where Execute of a run is
    profile,    \* host -> path -> what the file holds, or Absent
    kept,       \* the hosts whose profile directory is there
    unwritten,  \* the instructions materialize has still to open
    handle,     \* the one it has truncated and is about to write, or Closed
    unlinked,   \* the runs whose open file has been removed meanwhile
    values,     \* resolvedSecrets.values: the names that have a value
    omitted,    \* resolvedSecrets.omitted
    unfilled,   \* the files overlay has still to rewrite
    left,       \* the names it has still to replace in config.toml
    slot,       \* what the entries of the run's files hold
    env,        \* the variables of the Agent the host process is started with
    met,        \* history: who was at work on the profile of a run beside it
    cleans

overlay == <<values, omitted, unfilled, left, slot, env>>
vars == <<pc, profile, kept, unwritten, handle, unlinked, overlay, met, cleans>>

\* What a file of the profile holds besides a text: there is no file, it is
\* empty or stops short, or the tail of another text follows.
Absent == "absent"
Cut == "cut"
Torn == "torn"

Closed == "closed"
Cleaner == "clean"

\* What an entry holds: the placeholder of a name, its value, the empty string,
\* no entry at all, or part of a placeholder around the value of another name.
Placeholder(n) == <<"placeholder", n>>
Value(n)       == <<"value", n>>
Empty(n)       == <<"empty", n>>
Dropped(n)     == <<"dropped", n>>
Mixed(n)       == <<"mixed", n>>
Text == {"placeholder", "value", "empty", "dropped", "mixed"} \X Name

Names(r) == {ref.name : ref \in Refs[r]}
Optional(r) == {n \in Names(r) : \A ref \in Refs[r] : ref.name = n => ~ref.required}
Files(r) == {s.file : s \in Slots[r]}
Placeholders(r) == [s \in Slots[r] |-> Placeholder(s.name)]

\* The references whose value is put into the environment of the host process.
Delivered(ref) == ref.consumer = "/environment" \/ ref.exported

Active(r) == pc[r] \in {"materialize", "overlay", "host"}

\* The runs that share the profile of r.
Beside(r) == {q \in Run : q # r /\ HostOf[q] = HostOf[r]}

-----------------------------------------------------------------------------
Init ==
    /\ pc = [r \in Run |-> "ready"]
    /\ profile = [h \in Host |-> [p \in Path |-> Absent]] /\ kept = {}
    /\ unwritten = [r \in Run |-> {}]
    /\ handle = [r \in Run |-> Closed] /\ unlinked = {}
    /\ values = [r \in Run |-> {}] /\ omitted = [r \in Run |-> {}]
    /\ unfilled = [r \in Run |-> {}] /\ left = [r \in Run |-> {}]
    /\ slot = [r \in Run |-> Placeholders(r)]
    /\ env = [r \in Run |-> {}]
    /\ met = [r \in Run |-> {}]
    /\ cleans = 0

Goto(r, from, to) == pc[r] = from /\ pc' = [pc EXCEPT ![r] = to]

\* attachAuthProfile makes the profile directory; placeholders are written.
Start(r) ==
    /\ Goto(r, "ready", "materialize")
    /\ kept' = kept \union {HostOf[r]}
    /\ unwritten' = [unwritten EXCEPT ![r] = DOMAIN Instructions[r]]
    /\ met' = [q \in Run |->
                 IF q = r THEN {o \in Beside(r) : Active(o)}
                 ELSE IF Active(q) /\ q \in Beside(r) THEN met[q] \union {r} ELSE met[q]]
    /\ UNCHANGED <<profile, handle, unlinked, overlay, cleans>>

\* Mutant: the file is opened without O_TRUNC.
NotTruncated(old) == IF old = Absent THEN Cut ELSE old

\* Whatever an earlier run left is gone when the file has been opened.
Truncated(old) == Cut

\* mkdirAllNoFollow needs the profile directory; then os.WriteFile opens.
OpenInstruction(r) ==
    /\ pc[r] = "materialize" /\ handle[r] = Closed /\ HostOf[r] \in kept
    /\ \E p \in unwritten[r] :
         /\ profile' = [profile EXCEPT ![HostOf[r]][p] = Truncated(@)]
         /\ unwritten' = [unwritten EXCEPT ![r] = @ \ {p}]
         /\ handle' = [handle EXCEPT ![r] = p]
    /\ UNCHANGED <<pc, kept, unlinked, overlay, met, cleans>>

\* What is in a file that held old when new is written from its start: a longer
\* old keeps its tail.
Over(old, new) == IF old \in {Cut, new} THEN {new} ELSE {new, Torn}

\* os.WriteFile writes the file it opened, if it still has a name or not; then
\* Chmod needs a file of that name, its own or another run's.
WriteInstruction(r) ==
    LET h == HostOf[r]
        p == handle[r]
    IN /\ p # Closed /\ profile[h][p] # Absent
       /\ IF r \in unlinked THEN UNCHANGED profile
          ELSE \E text \in Over(profile[h][p], Instructions[r][p]) :
                   profile' = [profile EXCEPT ![h][p] = text]
       /\ handle' = [handle EXCEPT ![r] = Closed]
       /\ unlinked' = unlinked \ {r}
       /\ UNCHANGED <<pc, kept, unwritten, overlay, met, cleans>>

\* Mutant: a required name without a value is left out like an optional one.
NothingMissing(r, held) == {}

\* The required names that have no value: ErrMissingSecret.
Missing(r, held) == Names(r) \ (held \union Optional(r))

\* resolveSecrets: held are the names the environment has a value for.
ResolveSecrets(r) ==
    /\ pc[r] = "materialize" /\ unwritten[r] = {} /\ handle[r] = Closed
    /\ \E held \in SUBSET Names(r) :
         \/ /\ Missing(r, held) = {}
            /\ Goto(r, "materialize", "overlay")
            /\ values' = [values EXCEPT ![r] = held]
            /\ omitted' = [omitted EXCEPT ![r] = Names(r) \ held]
            /\ left' = [left EXCEPT ![r] = Names(r)]
            /\ unfilled' = [unfilled EXCEPT ![r] = Files(r)]
         \/ /\ Missing(r, held) # {}
            /\ Goto(r, "materialize", "over")
            /\ UNCHANGED <<values, omitted, left, unfilled>>
    /\ UNCHANGED <<profile, kept, unwritten, handle, unlinked, slot, env, met, cleans>>

\* overlayJSONSecretSlots: an entry without a value is deleted.
FillJSON(r) ==
    /\ pc[r] = "overlay"
    /\ \E f \in unfilled[r] :
         /\ Format[f] = "json"
         /\ slot' = [slot EXCEPT ![r] = [s \in Slots[r] |->
                IF s.file # f THEN slot[r][s]
                ELSE IF s.name \in values[r] THEN Value(s.name) ELSE Dropped(s.name)]]
         /\ unfilled' = [unfilled EXCEPT ![r] = @ \ {f}]
    /\ UNCHANGED <<pc, profile, kept, unwritten, handle, unlinked, values, omitted, left,
                   env, met, cleans>>

\* The entries that are the placeholder of n, and those that only begin with it.
Exact(r, f, n) == {s \in Slots[r] : s.file = f /\ slot[r][s] = Placeholder(n)}
Within(r, f, n) ==
    {s \in Slots[r] :
        s.file = f /\ \E m \in Name : n \in StartsWith[m] /\ slot[r][s] = Placeholder(m)}

\* Mutant: the placeholder is looked for as text, never as a whole entry.
ReplacedAnywhere(r, f, n, text) ==
    [s \in Slots[r] |-> IF s \in Exact(r, f, n) THEN text
                        ELSE IF s \in Within(r, f, n) THEN Mixed(n) ELSE slot[r][s]]

\* Whole entries, or when there is none, wherever the placeholder occurs.
Replaced(r, f, n, text) ==
    [s \in Slots[r] |->
        IF s \in Exact(r, f, n) THEN text
        ELSE IF Exact(r, f, n) = {} /\ s \in Within(r, f, n) THEN Mixed(n) ELSE slot[r][s]]

\* overlayTOMLSecretSlots: the names with a value first, then the omitted ones,
\* each in the order a Go map is walked in.
FillTOML(r) ==
    /\ pc[r] = "overlay"
    /\ \E f \in unfilled[r] :
         /\ Format[f] = "toml"
         /\ \/ \E n \in left[r] :
                 /\ \/ n \in values[r]  /\ slot' = [slot EXCEPT ![r] = Replaced(r, f, n, Value(n))]
                    \/ /\ n \in omitted[r] /\ left[r] \intersect values[r] = {}
                       /\ slot' = [slot EXCEPT ![r] = Replaced(r, f, n, Empty(n))]
                 /\ left' = [left EXCEPT ![r] = @ \ {n}]
                 /\ UNCHANGED unfilled
            \/ /\ left[r] = {}
               /\ unfilled' = [unfilled EXCEPT ![r] = @ \ {f}]
               /\ UNCHANGED <<slot, left>>
    /\ UNCHANGED <<pc, profile, kept, unwritten, handle, unlinked, values, omitted, env,
                   met, cleans>>

\* The variables of the Agent that cmd.Env has besides the base environment.
Launch(r) ==
    /\ unfilled[r] = {} /\ Goto(r, "overlay", "host")
    /\ env' = [env EXCEPT ![r] = {ref.name : ref \in {o \in Refs[r] : Delivered(o) /\ o.name \in values[r]}}]
    /\ UNCHANGED <<profile, kept, unwritten, handle, unlinked, values, omitted, unfilled,
                   left, slot, met, cleans>>

\* What is in it when the write has stopped half way.
Half(old, new) == IF old \in {Cut, new} THEN old ELSE Torn

\* The host exits, a step before it fails, or Agent2Host is killed; what becomes
\* of the run's directory is in RunLifecycle. What is in the profile stays there,
\* a file cut short included.
Finish(r) ==
    /\ Active(r) /\ pc' = [pc EXCEPT ![r] = "over"]
    /\ \/ UNCHANGED profile
       \/ /\ handle[r] # Closed /\ r \notin unlinked
          /\ profile' = [profile EXCEPT ![HostOf[r]][handle[r]] =
                            Half(@, Instructions[r][handle[r]])]
    /\ slot' = [slot EXCEPT ![r] = Placeholders(r)]
    /\ unwritten' = [unwritten EXCEPT ![r] = {}]
    /\ handle' = [handle EXCEPT ![r] = Closed] /\ unlinked' = unlinked \ {r}
    /\ values' = [values EXCEPT ![r] = {}] /\ omitted' = [omitted EXCEPT ![r] = {}]
    /\ unfilled' = [unfilled EXCEPT ![r] = {}] /\ left' = [left EXCEPT ![r] = {}]
    /\ env' = [env EXCEPT ![r] = {}] /\ met' = [met EXCEPT ![r] = {}]
    /\ UNCHANGED <<kept, cleans>>

\* clean --host-state of one host, whether it has a run or not.
Clean(h) ==
    /\ cleans < MaxCleans /\ h \in kept
    /\ kept' = kept \ {h}
    /\ profile' = [profile EXCEPT ![h] = [p \in Path |-> Absent]]
    /\ met' = [q \in Run |->
                 IF Active(q) /\ HostOf[q] = h THEN met[q] \union {Cleaner} ELSE met[q]]
    /\ unlinked' = unlinked \union {q \in Run : HostOf[q] = h /\ handle[q] # Closed}
    /\ cleans' = cleans + 1
    /\ UNCHANGED <<pc, unwritten, handle, overlay>>

Next ==
    \/ \E r \in Run : \/ Start(r) \/ OpenInstruction(r) \/ WriteInstruction(r)
                      \/ ResolveSecrets(r) \/ FillJSON(r) \/ FillTOML(r) \/ Launch(r) \/ Finish(r)
    \/ \E h \in Host : Clean(h)

Spec == Init /\ [][Next]_vars

-----------------------------------------------------------------------------
(* Properties *)

\* Every variable is of its type; only optional names are ever omitted, and a
\* name has a value or is omitted, never both.
TypeOK ==
    /\ pc \in [Run -> {"ready", "materialize", "overlay", "host", "over"}]
    /\ profile \in [Host -> [Path -> Words \union {Absent, Cut, Torn}]] /\ kept \subseteq Host
    /\ handle \in [Run -> Path \union {Closed}] /\ unlinked \subseteq Run
    /\ \A r \in Run :
         /\ unwritten[r] \subseteq DOMAIN Instructions[r]
         /\ values[r] \subseteq Names(r) /\ omitted[r] \subseteq Optional(r)
         /\ values[r] \intersect omitted[r] = {}
         /\ unfilled[r] \subseteq Files(r) /\ left[r] \subseteq Names(r)
         /\ slot[r] \in [Slots[r] -> Text]
         /\ env[r] \subseteq Names(r)
         /\ met[r] \subseteq Run \union {Cleaner}
    /\ cleans \in 0 .. MaxCleans

\* A name that has no entry in config.toml, and that the name of the entry
\* begins with: its placeholder is found in that of the entry.
Exposed(r, s) ==
    /\ Format[s.file] = "toml"
    /\ \E m \in StartsWith[s.name] \intersect Names(r) :
         \A t \in Slots[r] : t.file = s.file => t.name # m

\* A server or a hook of a started host is given the value of the variable it
\* named and of no other, whatever the order the names are replaced in, and no
\* entry of a JSON file is left for a variable without a value. Two kinds of
\* entries of config.toml are not in it, because overlaySecrets does not do with
\* them what it says of itself: exposed ones, which another value may spoil, and
\* those without a value, which are emptied and not removed.
SlotsServed ==
    \A r \in Run : pc[r] = "host" =>
        \A s \in Slots[r] :
            /\ s.name \in values[r] /\ ~Exposed(r, s) => slot[r][s] = Value(s.name)
            /\ s.name \in omitted[r] /\ Format[s.file] = "json" => slot[r][s] = Dropped(s.name)

\* Somebody who worked at the same time removed the file or had another text
\* for it.
Disturbed(r, p) ==
    \/ Cleaner \in met[r]
    \/ \E q \in met[r] \ {Cleaner} :
         p \in DOMAIN Instructions[q] /\ Instructions[q][p] # Instructions[r][p]

\* Somebody who worked at the same time has truncated the file: he is about to
\* write it, or has ended, perhaps before he did.
Truncating(r, p) ==
    /\ profile[HostOf[r]][p] = Cut
    /\ \E q \in met[r] \ {Cleaner} :
         /\ p \in DOMAIN Instructions[q]
         /\ (handle[q] = p /\ q \notin unlinked) \/ pc[q] = "over"

\* A started host has the card and the skills of its own Agent in the profile:
\* no rest of an earlier run's, and none at all of an overlapping run's that
\* has no text or the same text for the file, but the moment in which that run
\* rewrites it, or the empty file if it ended there.
OwnInstructions ==
    \A r \in Run : pc[r] = "host" =>
        \A p \in DOMAIN Instructions[r] :
            \/ profile[HostOf[r]][p] = Instructions[r][p]
            \/ Disturbed(r, p) \/ Truncating(r, p)
=============================================================================
