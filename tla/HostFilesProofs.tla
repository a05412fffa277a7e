--------------------------- MODULE HostFilesProofs ---------------------------
(***************************************************************************)
(* What host_files shows on three runs, for every number of runs, profiles, *)
(* names, slots and instructions.                                           *)
(***************************************************************************)
EXTENDS HostFiles, TLAPS

\* Every variable of a run is kept for all runs.
Domains ==
    /\ DOMAIN unwritten = Run /\ DOMAIN values = Run /\ DOMAIN omitted = Run
    /\ DOMAIN unfilled = Run /\ DOMAIN left = Run /\ DOMAIN slot = Run
    /\ DOMAIN env = Run /\ DOMAIN met = Run

Overlaying(r) == pc[r] \in {"overlay", "host"}

\* What an entry holds when its name has had its turn.
Final(r, s) ==
    IF s.name \in values[r] THEN Value(s.name)
    ELSE IF Format[s.file] = "toml" THEN Empty(s.name) ELSE Dropped(s.name)

\* An entry of config.toml waits for its name or has been served.
Served(r, s) ==
    \/ Exposed(r, s)
    \/ s.name \in left[r] /\ slot[r][s] = Placeholder(s.name)
    \/ s.name \notin left[r] /\ slot[r][s] = Final(r, s)

\* An entry of a JSON file is served with its file.
Filled(r, s) ==
    IF s.file \in unfilled[r] THEN slot[r][s] = Placeholder(s.name)
                              ELSE slot[r][s] = Final(r, s)

\* Before the overlay the files are as planned; in it the files already done
\* are served, and config.toml is done when no name is left.
OverlayOf(r) ==
    /\ ~Overlaying(r) => slot[r] = Placeholders(r)
    /\ Overlaying(r) =>
         \A s \in Slots[r] :
             IF Format[s.file] = "toml"
             THEN Served(r, s) /\ (s.file \notin unfilled[r] => left[r] = {})
             ELSE Filled(r, s)
    /\ pc[r] = "host" => unfilled[r] = {}

Overlay == \A r \in Run : OverlayOf(r)

\* Runs at work on one profile know of each other, and of no run elsewhere.
Meeting ==
    \A r \in Run :
        /\ met[r] \subseteq Beside(r) \union {Cleaner}
        /\ \A q \in Beside(r) : Active(r) /\ Active(q) => q \in met[r]

\* A run has a file open only while it materializes, one of its own that it will
\* not open again; only a clean unlinks an open file.
Handles ==
    \A r \in Run :
        /\ handle[r] # Closed =>
             /\ pc[r] = "materialize"
             /\ handle[r] \in DOMAIN Instructions[r] \ unwritten[r]
        /\ r \in unlinked => handle[r] # Closed /\ Cleaner \in met[r]

\* What an active run has opened has its text, or is cut by the run itself or by
\* another, or it was disturbed.
Instructs(r, p) ==
    \/ profile[HostOf[r]][p] = Instructions[r][p]
    \/ profile[HostOf[r]][p] = Cut /\ handle[r] = p
    \/ Disturbed(r, p) \/ Truncating(r, p)

InstructedOf(r) ==
    Active(r) =>
        /\ \A p \in DOMAIN Instructions[r] \ unwritten[r] : Instructs(r, p)
        /\ Overlaying(r) => unwritten[r] = {}

Instructed == \A r \in Run : InstructedOf(r)

FilesInv == TypeOK /\ Domains /\ Overlay /\ Meeting /\ Handles /\ Instructed

-----------------------------------------------------------------------------
(* What an entry may hold *)

\* A placeholder, a value, an empty string and a dropped entry are texts, and
\* the placeholder of a name is none of the others and no other placeholder.
LEMMA Texts ==
    ASSUME NEW n \in Name
    PROVE  /\ Placeholder(n) \in Text /\ Value(n) \in Text /\ Empty(n) \in Text
           /\ Dropped(n) \in Text /\ Mixed(n) \in Text
           /\ \A m \in Name : /\ Placeholder(n) = Placeholder(m) => n = m
                              /\ Placeholder(n) # Value(m) /\ Placeholder(n) # Empty(m)
                              /\ Placeholder(n) # Dropped(m)
BY DEF Text, Placeholder, Value, Empty, Dropped, Mixed

\* Every slot is of a file and of a name the launch plan refers to.
LEMMA SlotsNamed ==
    ASSUME NEW r \in Run, NEW s \in Slots[r]
    PROVE  s.name \in Names(r) /\ s.name \in Name /\ s.file \in Files(r)
BY RefsAssumption DEF Names, Files

\* config.toml is the one file that is rewritten as text.
LEMMA OneToml == \A f \in File : Format[f] = "toml" => f = "config"
BY DEF File, Format

\* Replacing a name in config.toml leaves entries of known form.
LEMMA ReplacedType ==
    ASSUME TypeOK, NEW r \in Run, NEW f, NEW n \in Name, NEW text \in Text
    PROVE  Replaced(r, f, n, text) \in [Slots[r] -> Text]
BY Texts DEF TypeOK, Replaced

-----------------------------------------------------------------------------
(* Types *)

\* A path is never the mark of a closed handle.
LEMMA Paths ==
    /\ Closed \notin Path
    /\ \A r \in Run : DOMAIN Instructions[r] \subseteq Path /\ HostOf[r] \in Host
BY RunsAssumption DEF Closed

LEMMA InitFilesInv == Init => FilesInv
<1> SUFFICES ASSUME Init PROVE FilesInv
  OBVIOUS
<1>1. \A r \in Run : Placeholders(r) \in [Slots[r] -> Text]
  BY SlotsNamed, Texts DEF Placeholders
<1>2. TypeOK
  BY <1>1, BoundAssumption DEF Init, TypeOK
<1>3. Domains
  BY DEF Init, Domains
<1>4. Overlay
  BY DEF Init, Overlay, OverlayOf, Overlaying
<1>5. Meeting /\ Handles /\ Instructed
  BY DEF Init, Meeting, Handles, Instructed, InstructedOf, Active
<1> QED BY <1>2, <1>3, <1>4, <1>5 DEF FilesInv

\* No step gives up a variable of a run.
LEMMA NextDomains == Domains /\ [Next]_vars => Domains'
<1> SUFFICES ASSUME Domains, [Next]_vars PROVE Domains'
  OBVIOUS
<1> USE DEF Domains
<1>1. ASSUME NEW r \in Run, Start(r) PROVE Domains'
  BY <1>1 DEF Start, overlay
<1>2. ASSUME NEW r \in Run, OpenInstruction(r) \/ WriteInstruction(r) PROVE Domains'
  BY <1>2 DEF OpenInstruction, WriteInstruction, overlay
<1>3. ASSUME NEW r \in Run, ResolveSecrets(r) PROVE Domains'
  BY <1>3 DEF ResolveSecrets
<1>4. ASSUME NEW r \in Run, FillJSON(r) PROVE Domains'
  BY <1>4 DEF FillJSON
<1>5. ASSUME NEW r \in Run, FillTOML(r) PROVE Domains'
  BY <1>5 DEF FillTOML
<1>6. ASSUME NEW r \in Run, Launch(r) PROVE Domains'
  BY <1>6 DEF Launch
<1>7. ASSUME NEW r \in Run, Finish(r) PROVE Domains'
  BY <1>7 DEF Finish
<1>8. ASSUME NEW h \in Host, Clean(h) PROVE Domains'
  BY <1>8 DEF Clean, overlay
<1>9. CASE UNCHANGED vars
  BY <1>9 DEF vars, overlay
<1> QED BY <1>1, <1>2, <1>3, <1>4, <1>5, <1>6, <1>7, <1>8, <1>9 DEF Next

\* The places a run passes.
LEMMA PlacesKept ==
    ASSUME TypeOK, NEW r \in Run, NEW from,
           NEW to \in {"ready", "materialize", "overlay", "host", "over"}, Goto(r, from, to)
    PROVE  /\ pc' \in [Run -> {"ready", "materialize", "overlay", "host", "over"}]
           /\ pc[r] = from /\ pc'[r] = to /\ \A q \in Run \ {r} : pc'[q] = pc[q]
BY DEF TypeOK, Goto

LEMMA NextTypeOK == TypeOK /\ Domains /\ Handles /\ [Next]_vars => TypeOK'
<1> SUFFICES ASSUME TypeOK, Domains, Handles, [Next]_vars PROVE TypeOK'
  OBVIOUS
<1> USE DEF Domains
<1>1. ASSUME NEW r \in Run, Start(r) PROVE TypeOK'
  <2>1. pc' \in [Run -> {"ready", "materialize", "overlay", "host", "over"}]
    BY <1>1, PlacesKept DEF Start
  <2>2. kept' \subseteq Host
    BY <1>1, Paths DEF Start, TypeOK
  <2>3. \A q \in Run : met'[q] \subseteq Run \union {Cleaner}
    BY <1>1 DEF Start, TypeOK, Beside
  <2>4. \A q \in Run : unwritten'[q] \subseteq DOMAIN Instructions[q]
    BY <1>1 DEF Start, TypeOK
  <2> QED BY <1>1, <2>1, <2>2, <2>3, <2>4 DEF Start, TypeOK, overlay
<1>a. ASSUME NEW r \in Run, OpenInstruction(r) PROVE TypeOK'
  <2> PICK p \in unwritten[r] :
        /\ profile' = [profile EXCEPT ![HostOf[r]][p] = Cut]
        /\ unwritten' = [unwritten EXCEPT ![r] = @ \ {p}]
        /\ handle' = [handle EXCEPT ![r] = p]
    BY <1>a DEF OpenInstruction, Truncated
  <2>1. p \in Path /\ HostOf[r] \in Host
    BY RunsAssumption DEF TypeOK
  <2>2. /\ profile' \in [Host -> [Path -> Words \union {Absent, Cut, Torn}]]
        /\ handle' \in [Run -> Path \union {Closed}]
    BY <2>1 DEF TypeOK
  <2>3. \A q \in Run : unwritten'[q] \subseteq DOMAIN Instructions[q]
    BY DEF TypeOK
  <2> QED BY <1>a, <2>2, <2>3 DEF OpenInstruction, TypeOK, overlay
<1>2. ASSUME NEW r \in Run, WriteInstruction(r) PROVE TypeOK'
  <2>1. handle[r] \in DOMAIN Instructions[r]
    BY <1>2 DEF WriteInstruction, Handles
  <2>a. handle[r] \in Path /\ HostOf[r] \in Host /\ Instructions[r][handle[r]] \in Words
    BY <2>1, RunsAssumption
  <2>2. profile' \in [Host -> [Path -> Words \union {Absent, Cut, Torn}]]
    <3>1. CASE profile' = profile
      BY <3>1 DEF TypeOK
    <3>2. ASSUME NEW text \in Words \union {Torn},
                 profile' = [profile EXCEPT ![HostOf[r]][handle[r]] = text]
          PROVE  profile' \in [Host -> [Path -> Words \union {Absent, Cut, Torn}]]
      BY <2>a, <3>2 DEF TypeOK
    <3>3. Over(profile[HostOf[r]][handle[r]], Instructions[r][handle[r]]) \subseteq Words \union {Torn}
      BY <2>a DEF Over
    <3> QED BY <1>2, <3>1, <3>2, <3>3 DEF WriteInstruction
  <2>3. handle' \in [Run -> Path \union {Closed}] /\ unlinked' \subseteq Run
    BY <1>2 DEF WriteInstruction, TypeOK
  <2> QED BY <1>2, <2>2, <2>3 DEF WriteInstruction, TypeOK, overlay
<1>3. ASSUME NEW r \in Run, ResolveSecrets(r) PROVE TypeOK'
  <2> PICK held \in SUBSET Names(r) :
         \/ /\ Missing(r, held) = {}
            /\ Goto(r, "materialize", "overlay")
            /\ values' = [values EXCEPT ![r] = held]
            /\ omitted' = [omitted EXCEPT ![r] = Names(r) \ held]
            /\ left' = [left EXCEPT ![r] = Names(r)]
            /\ unfilled' = [unfilled EXCEPT ![r] = Files(r)]
         \/ /\ Goto(r, "materialize", "over")
            /\ UNCHANGED <<values, omitted, left, unfilled>>
    BY <1>3 DEF ResolveSecrets
  <2>1. pc' \in [Run -> {"ready", "materialize", "overlay", "host", "over"}]
    BY PlacesKept
  <2>2. UNCHANGED <<profile, kept, unwritten, handle, unlinked, slot, env, met, cleans>>
    BY <1>3 DEF ResolveSecrets
  <2>3. CASE Missing(r, held) = {} /\ values' = [values EXCEPT ![r] = held]
             /\ omitted' = [omitted EXCEPT ![r] = Names(r) \ held]
             /\ left' = [left EXCEPT ![r] = Names(r)]
             /\ unfilled' = [unfilled EXCEPT ![r] = Files(r)]
    <3>1. Names(r) \ held \subseteq Optional(r)
      BY <2>3 DEF Missing
    <3> QED BY <2>1, <2>2, <2>3, <3>1 DEF TypeOK
  <2>4. CASE UNCHANGED <<values, omitted, left, unfilled>>
    BY <2>1, <2>2, <2>4 DEF TypeOK
  <2> QED BY <2>3, <2>4
<1>4. ASSUME NEW r \in Run, FillJSON(r) PROVE TypeOK'
  <2> PICK f \in unfilled[r] :
         /\ slot' = [slot EXCEPT ![r] = [s \in Slots[r] |->
                IF s.file # f THEN slot[r][s]
                ELSE IF s.name \in values[r] THEN Value(s.name) ELSE Dropped(s.name)]]
         /\ unfilled' = [unfilled EXCEPT ![r] = @ \ {f}]
    BY <1>4 DEF FillJSON
  <2>1. slot'[r] \in [Slots[r] -> Text]
    BY SlotsNamed, Texts DEF TypeOK
  <2>2. \A q \in Run : slot'[q] \in [Slots[q] -> Text]
    BY <2>1 DEF TypeOK
  <2> QED BY <1>4, <2>2 DEF FillJSON, TypeOK
<1>5. ASSUME NEW r \in Run, FillTOML(r) PROVE TypeOK'
  <2>1. \A q \in Run : slot'[q] \in [Slots[q] -> Text]
    <3>1. CASE slot' = slot
      BY <3>1 DEF TypeOK
    <3>2. ASSUME NEW f, NEW n \in left[r], NEW text \in {Value(n), Empty(n)},
                 slot' = [slot EXCEPT ![r] = Replaced(r, f, n, text)]
          PROVE  \A q \in Run : slot'[q] \in [Slots[q] -> Text]
      <4>1. n \in Name
        BY RefsAssumption DEF TypeOK, Names
      <4>2. Replaced(r, f, n, text) \in [Slots[r] -> Text]
        BY <4>1, Texts, ReplacedType
      <4> QED BY <3>2, <4>2 DEF TypeOK
    <3> QED BY <1>5, <3>1, <3>2 DEF FillTOML
  <2>2. \A q \in Run : left'[q] \subseteq left[q] /\ unfilled'[q] \subseteq unfilled[q]
    BY <1>5 DEF FillTOML
  <2> QED BY <1>5, <2>1, <2>2 DEF FillTOML, TypeOK
<1>6. ASSUME NEW r \in Run, Launch(r) PROVE TypeOK'
  <2>1. pc' \in [Run -> {"ready", "materialize", "overlay", "host", "over"}]
    BY <1>6, PlacesKept DEF Launch
  <2>2. \A q \in Run : env'[q] \subseteq Names(q)
    BY <1>6 DEF Launch, TypeOK, Names
  <2> QED BY <1>6, <2>1, <2>2 DEF Launch, TypeOK
<1>7. ASSUME NEW r \in Run, Finish(r) PROVE TypeOK'
  <2>1. Placeholders(r) \in [Slots[r] -> Text]
    BY SlotsNamed, Texts DEF Placeholders
  <2>2. profile' \in [Host -> [Path -> Words \union {Absent, Cut, Torn}]]
    <3>1. CASE profile' = profile
      BY <3>1 DEF TypeOK
    <3>2. CASE handle[r] # Closed /\ profile' = [profile EXCEPT ![HostOf[r]][handle[r]] =
                            Half(@, Instructions[r][handle[r]])]
      BY <3>2, RunsAssumption DEF TypeOK, Handles, Half
    <3> QED BY <1>7, <3>1, <3>2 DEF Finish
  <2>3. handle' \in [Run -> Path \union {Closed}] /\ unlinked' \subseteq Run
    BY <1>7 DEF Finish, TypeOK
  <2> QED BY <1>7, <2>1, <2>2, <2>3 DEF Finish, TypeOK
<1>8. ASSUME NEW h \in Host, Clean(h) PROVE TypeOK'
  <2>1. cleans' \in 0 .. MaxCleans
    BY <1>8, BoundAssumption DEF Clean, TypeOK
  <2>2. \A q \in Run : met'[q] \subseteq Run \union {Cleaner}
    BY <1>8 DEF Clean, TypeOK
  <2>3. profile' \in [Host -> [Path -> Words \union {Absent, Cut, Torn}]]
    BY <1>8 DEF Clean, TypeOK
  <2>4. unlinked' \subseteq Run /\ kept' \subseteq Host
    BY <1>8 DEF Clean, TypeOK
  <2> QED BY <1>8, <2>1, <2>2, <2>3, <2>4 DEF Clean, TypeOK, overlay
<1>9. CASE UNCHANGED vars
  BY <1>9 DEF vars, TypeOK, overlay
<1> QED BY <1>1, <1>a, <1>2, <1>3, <1>4, <1>5, <1>6, <1>7, <1>8, <1>9 DEF Next

-----------------------------------------------------------------------------
(* The entries of the files, one action at a time *)

\* A run whose overlay is not touched keeps it.
LEMMA OverlayUntouched ==
    ASSUME NEW q \in Run, OverlayOf(q),
           pc'[q] = pc[q] \/ (~Overlaying(q) /\ ~Overlaying(q)'),
           slot'[q] = slot[q], values'[q] = values[q],
           unfilled'[q] = unfilled[q], left'[q] = left[q]
    PROVE  OverlayOf(q)'
BY DEF OverlayOf, Overlaying, Served, Filled, Final, Exposed, Placeholders

LEMMA StartOverlay == ASSUME TypeOK, Domains, Overlay, NEW r \in Run, Start(r) PROVE Overlay'
<1> SUFFICES ASSUME NEW q \in Run PROVE OverlayOf(q)'
  BY DEF Overlay
<1>1. pc'[q] = pc[q] \/ (~Overlaying(q) /\ ~Overlaying(q)')
  BY PlacesKept DEF Start, Overlaying
<1>2. UNCHANGED <<slot, values, unfilled, left>>
  BY DEF Start, overlay
<1> QED BY <1>1, <1>2, OverlayUntouched DEF Overlay

LEMMA WriteOverlay ==
    ASSUME TypeOK, Domains, Overlay, NEW r \in Run, OpenInstruction(r) \/ WriteInstruction(r)
    PROVE  Overlay'
BY OverlayUntouched DEF Overlay, OpenInstruction, WriteInstruction, overlay

\* The first look at the secrets: every file is still as planned.
LEMMA ResolveOverlay ==
    ASSUME TypeOK, Domains, Overlay, NEW r \in Run, ResolveSecrets(r) PROVE Overlay'
<1> SUFFICES ASSUME NEW q \in Run PROVE OverlayOf(q)'
  BY DEF Overlay
<1> PICK held \in SUBSET Names(r) :
       \/ /\ Goto(r, "materialize", "overlay")
          /\ values' = [values EXCEPT ![r] = held]
          /\ left' = [left EXCEPT ![r] = Names(r)]
          /\ unfilled' = [unfilled EXCEPT ![r] = Files(r)]
       \/ /\ Goto(r, "materialize", "over")
          /\ UNCHANGED <<values, left, unfilled>>
  BY DEF ResolveSecrets
<1>0. slot' = slot /\ pc[r] = "materialize"
  BY DEF ResolveSecrets
<1>1. CASE q # r
  <2>1. pc'[q] = pc[q]
    BY <1>1, PlacesKept
  <2>2. values'[q] = values[q] /\ left'[q] = left[q] /\ unfilled'[q] = unfilled[q]
    BY <1>1 DEF Domains
  <2> QED BY <1>0, <2>1, <2>2, OverlayUntouched DEF Overlay
<1>2. CASE q = r /\ pc'[r] = "over"
  <2>1. slot'[r] = Placeholders(r)
    BY <1>0 DEF Overlay, OverlayOf, Overlaying
  <2> QED BY <1>2, <2>1 DEF OverlayOf, Overlaying, Placeholders
<1>3. CASE q = r /\ Goto(r, "materialize", "overlay")
           /\ left' = [left EXCEPT ![r] = Names(r)]
           /\ unfilled' = [unfilled EXCEPT ![r] = Files(r)]
  <2>1. pc'[r] = "overlay" /\ left'[r] = Names(r) /\ unfilled'[r] = Files(r)
    BY <1>3, PlacesKept DEF Domains
  <2>2. slot'[r] = Placeholders(r)
    BY <1>0 DEF Overlay, OverlayOf, Overlaying
  <2>3. ASSUME NEW s \in Slots[r]
        PROVE  /\ s.name \in left'[r] /\ s.file \in unfilled'[r]
               /\ slot'[r][s] = Placeholder(s.name)
    BY <2>1, <2>2, SlotsNamed DEF Placeholders
  <2> QED BY <1>3, <2>1, <2>3 DEF OverlayOf, Overlaying, Served, Filled
<1> QED BY <1>1, <1>2, <1>3, PlacesKept

LEMMA JSONOverlay ==
    ASSUME TypeOK, Domains, Overlay, NEW r \in Run, FillJSON(r) PROVE Overlay'
<1> SUFFICES ASSUME NEW q \in Run PROVE OverlayOf(q)'
  BY DEF Overlay
<1>0. UNCHANGED <<pc, values, left>> /\ pc[r] = "overlay"
  BY DEF FillJSON
<1> PICK f \in unfilled[r] :
       /\ Format[f] = "json"
       /\ slot' = [slot EXCEPT ![r] = [s \in Slots[r] |->
              IF s.file # f THEN slot[r][s]
              ELSE IF s.name \in values[r] THEN Value(s.name) ELSE Dropped(s.name)]]
       /\ unfilled' = [unfilled EXCEPT ![r] = @ \ {f}]
  BY DEF FillJSON
<1>1. CASE q # r
  <2>1. slot'[q] = slot[q] /\ unfilled'[q] = unfilled[q]
    BY <1>1 DEF Domains
  <2> QED BY <1>0, <2>1, OverlayUntouched DEF Overlay
<1>2. CASE q = r
  <2>1. /\ unfilled'[r] = unfilled[r] \ {f}
        /\ \A s \in Slots[r] : slot'[r][s] =
              IF s.file # f THEN slot[r][s]
              ELSE IF s.name \in values[r] THEN Value(s.name) ELSE Dropped(s.name)
    BY DEF Domains
  <2>2. ASSUME NEW s \in Slots[r], Format[s.file] = "toml"
        PROVE  Served(r, s)' /\ (s.file \notin unfilled'[r] => left'[r] = {})
    <3>1. s.file # f
      BY <2>2
    <3>2. Served(r, s) /\ (s.file \notin unfilled[r] => left[r] = {})
      BY <1>0, <2>2 DEF Overlay, OverlayOf, Overlaying
    <3> QED BY <1>0, <2>1, <3>1, <3>2 DEF Served, Final, Exposed
  <2>3. ASSUME NEW s \in Slots[r], Format[s.file] # "toml"
        PROVE  Filled(r, s)'
    <3>1. Filled(r, s)
      BY <1>0, <2>3 DEF Overlay, OverlayOf, Overlaying
    <3>2. CASE s.file # f
      BY <1>0, <2>1, <3>1, <3>2 DEF Filled, Final
    <3>3. CASE s.file = f
      BY <1>0, <2>1, <2>3, <3>3 DEF Filled, Final
    <3> QED BY <3>2, <3>3
  <2> QED BY <1>0, <1>2, <2>2, <2>3 DEF OverlayOf, Overlaying
<1> QED BY <1>1, <1>2

\* The heart of it: an entry that is not exposed is never replaced in part,
\* for the names its own name begins with have entries, which are found first.
LEMMA ReplacedServes ==
    ASSUME TypeOK, Domains, NEW r \in Run, NEW f \in File, Format[f] = "toml",
           NEW n \in left[r], NEW text,
           \A t \in Slots[r] : t.name = n /\ Format[t.file] = "toml" => text = Final(r, t),
           \A t \in Slots[r] : Format[t.file] = "toml" => Served(r, t),
           NEW s \in Slots[r], Format[s.file] = "toml", ~Exposed(r, s)
    PROVE  IF s.name = n THEN Replaced(r, f, n, text)[s] = text
                         ELSE Replaced(r, f, n, text)[s] = slot[r][s]
<1>0. n \in Names(r) /\ n \in Name /\ s.name \in Name /\ s.file = f
  BY SlotsNamed, OneToml, RefsAssumption DEF TypeOK, Names
<1>1. CASE s.name = n
  <2>1. slot[r][s] = Placeholder(n)
    BY <1>1 DEF Served
  <2>2. s \in Exact(r, f, n)
    BY <1>0, <2>1 DEF Exact
  <2> QED BY <1>1, <2>2 DEF Replaced
<1>2. CASE s.name # n
  <2>1. s \notin Exact(r, f, n)
    BY <1>0, <1>2, Texts DEF Exact, Served, Final
  <2>2. ASSUME s \in Within(r, f, n) PROVE Exact(r, f, n) # {}
    <3>1. PICK m \in Name : n \in StartsWith[m] /\ slot[r][s] = Placeholder(m)
      BY <2>2 DEF Within
    <3>2. m = s.name
      BY <1>0, <3>1, Texts DEF Served, Final
    <3>3. PICK t \in Slots[r] : t.file = s.file /\ t.name = n
      BY <1>0, <3>1, <3>2 DEF Exposed
    <3>4. ~Exposed(r, t)
      <4>1. StartsWith[n] \subseteq StartsWith[s.name]
        BY <1>0, <3>1, <3>2, NamesAssumption
      <4> QED BY <3>3, <4>1 DEF Exposed
    <3>5. slot[r][t] = Placeholder(n)
      BY <3>3, <3>4 DEF Served
    <3> QED BY <1>0, <3>3, <3>5 DEF Exact
  <2> QED BY <1>2, <2>1, <2>2 DEF Replaced
<1> QED BY <1>1, <1>2

LEMMA TOMLOverlay ==
    ASSUME TypeOK, Domains, Overlay, NEW r \in Run, FillTOML(r) PROVE Overlay'
<1> SUFFICES ASSUME NEW q \in Run PROVE OverlayOf(q)'
  BY DEF Overlay
<1>0. UNCHANGED <<pc, values>> /\ pc[r] = "overlay"
  BY DEF FillTOML
<1>1. CASE q # r
  <2>1. slot'[q] = slot[q] /\ unfilled'[q] = unfilled[q] /\ left'[q] = left[q]
    BY <1>1 DEF FillTOML, Domains
  <2> QED BY <1>0, <2>1, OverlayUntouched DEF Overlay
<1>2. PICK f \in unfilled[r] :
         /\ Format[f] = "toml"
         /\ \/ \E n \in left[r] :
                 /\ \/ n \in values[r]  /\ slot' = [slot EXCEPT ![r] = Replaced(r, f, n, Value(n))]
                    \/ n \in omitted[r] /\ slot' = [slot EXCEPT ![r] = Replaced(r, f, n, Empty(n))]
                 /\ left' = [left EXCEPT ![r] = @ \ {n}]
                 /\ UNCHANGED unfilled
            \/ /\ left[r] = {}
               /\ unfilled' = [unfilled EXCEPT ![r] = @ \ {f}]
               /\ UNCHANGED <<slot, left>>
  BY DEF FillTOML
<1>f. f \in File
  BY RefsAssumption DEF TypeOK, Files
<1>3. /\ \A s \in Slots[r] :
            IF Format[s.file] = "toml"
            THEN Served(r, s) /\ (s.file \notin unfilled[r] => left[r] = {})
            ELSE Filled(r, s)
      /\ pc'[r] = "overlay"
  BY <1>0 DEF Overlay, OverlayOf, Overlaying
<1>4. ASSUME q = r, left[r] = {}, unfilled' = [unfilled EXCEPT ![r] = @ \ {f}],
             UNCHANGED <<slot, left>>
      PROVE  OverlayOf(q)'
  <2>1. unfilled'[r] = unfilled[r] \ {f}
    BY <1>4 DEF Domains
  <2>2. ASSUME NEW s \in Slots[r]
        PROVE  IF Format[s.file] = "toml"
               THEN Served(r, s)' /\ (s.file \notin unfilled'[r] => left'[r] = {})
               ELSE Filled(r, s)'
    <3>1. CASE Format[s.file] = "toml"
      BY <1>0, <1>3, <1>4, <3>1 DEF Served, Final, Exposed
    <3>2. CASE Format[s.file] # "toml"
      <4>1. s.file # f
        BY <1>2, <3>2
      <4> QED BY <1>0, <1>3, <1>4, <2>1, <3>2, <4>1 DEF Filled, Final
    <3> QED BY <3>1, <3>2
  <2> QED BY <1>3, <1>4, <2>2 DEF OverlayOf, Overlaying
<1>5. ASSUME q = r, NEW n \in left[r], NEW text,
             \/ n \in values[r] /\ text = Value(n)
             \/ n \in omitted[r] /\ text = Empty(n),
             slot' = [slot EXCEPT ![r] = Replaced(r, f, n, text)],
             left' = [left EXCEPT ![r] = @ \ {n}], UNCHANGED unfilled
      PROVE  OverlayOf(q)'
  <2>1. slot'[r] = Replaced(r, f, n, text) /\ left'[r] = left[r] \ {n}
    BY <1>5 DEF Domains
  <2>2. \A t \in Slots[r] : t.name = n /\ Format[t.file] = "toml" => text = Final(r, t)
    BY <1>5 DEF Final, TypeOK
  <2>3. ASSUME NEW s \in Slots[r], Format[s.file] = "toml"
        PROVE  Served(r, s)' /\ (s.file \notin unfilled'[r] => left'[r] = {})
    <3>1. CASE Exposed(r, s)
      BY <1>3, <1>5, <2>1, <2>3, <3>1 DEF Served, Exposed
    <3>2. CASE ~Exposed(r, s)
      <4>1. IF s.name = n THEN slot'[r][s] = text ELSE slot'[r][s] = slot[r][s]
        BY <1>2, <1>3, <1>f, <2>1, <2>2, <2>3, <3>2, ReplacedServes
      <4>3. Served(r, s)
        BY <1>3, <2>3
      <4>4. ASSUME s.name = n PROVE Served(r, s)'
        BY <1>0, <2>1, <2>2, <2>3, <4>1, <4>4 DEF Served, Final
      <4>5. ASSUME s.name # n PROVE Served(r, s)'
        BY <1>0, <2>1, <3>2, <4>1, <4>3, <4>5 DEF Served, Final
      <4>6. s.file \notin unfilled'[r] => left'[r] = {}
        BY <1>3, <1>5, <2>3
      <4> QED BY <4>4, <4>5, <4>6
    <3> QED BY <3>1, <3>2
  <2>4. ASSUME NEW s \in Slots[r], Format[s.file] # "toml"
        PROVE  Filled(r, s)'
    <3>1. s.file # f
      BY <1>2, <2>4
    <3>2. slot'[r][s] = slot[r][s]
      BY <2>1, <3>1 DEF Replaced, Exact, Within
    <3> QED BY <1>0, <1>3, <1>5, <2>4, <3>2 DEF Filled, Final
  <2> QED BY <1>3, <1>5, <2>3, <2>4 DEF OverlayOf, Overlaying
<1>6. CASE q = r
  BY <1>2, <1>4, <1>5, <1>6
<1> QED BY <1>1, <1>6

LEMMA LaunchOverlay ==
    ASSUME TypeOK, Domains, Overlay, NEW r \in Run, Launch(r) PROVE Overlay'
<1> SUFFICES ASSUME NEW q \in Run PROVE OverlayOf(q)'
  BY DEF Overlay
<1>1. UNCHANGED <<slot, values, unfilled, left>> /\ unfilled[r] = {}
  BY DEF Launch
<1>2. pc[r] = "overlay" /\ pc'[r] = "host" /\ \A o \in Run \ {r} : pc'[o] = pc[o]
  BY PlacesKept DEF Launch
<1>3. CASE q # r
  BY <1>1, <1>2, <1>3, OverlayUntouched DEF Overlay
<1>4. CASE q = r
  BY <1>1, <1>2, <1>4 DEF Overlay, OverlayOf, Overlaying, Served, Filled, Final, Exposed
<1> QED BY <1>3, <1>4

LEMMA FinishOverlay ==
    ASSUME TypeOK, Domains, Overlay, NEW r \in Run, Finish(r) PROVE Overlay'
<1> SUFFICES ASSUME NEW q \in Run PROVE OverlayOf(q)'
  BY DEF Overlay
<1>1. CASE q # r
  BY <1>1, OverlayUntouched DEF Finish, Overlay, Domains
<1>2. CASE q = r
  BY <1>2 DEF Finish, OverlayOf, Overlaying, Domains, TypeOK, Placeholders
<1> QED BY <1>1, <1>2

LEMMA CleanOverlay ==
    ASSUME TypeOK, Domains, Overlay, NEW h \in Host, Clean(h) PROVE Overlay'
BY OverlayUntouched DEF Overlay, Clean, overlay

LEMMA NextOverlay == TypeOK /\ Domains /\ Overlay /\ [Next]_vars => Overlay'
<1>1. ASSUME Overlay, UNCHANGED vars PROVE Overlay'
  BY <1>1, OverlayUntouched DEF vars, overlay, Overlay
<1> QED BY <1>1, StartOverlay, WriteOverlay, ResolveOverlay, JSONOverlay, TOMLOverlay,
           LaunchOverlay, FinishOverlay, CleanOverlay DEF Next

-----------------------------------------------------------------------------
(* The instructions in the shared profile *)

\* Runs that overlap stay each other's witnesses.
LEMMA NextMeeting == TypeOK /\ Domains /\ Meeting /\ [Next]_vars => Meeting'
<1> SUFFICES ASSUME TypeOK, Domains, Meeting, [Next]_vars PROVE Meeting'
  OBVIOUS
<1> USE DEF Meeting, Beside, Active
<1>1. ASSUME NEW r \in Run, Start(r) PROVE Meeting'
  <2>1. pc[r] = "ready" /\ \A q \in Run \ {r} : pc'[q] = pc[q]
    BY <1>1, PlacesKept DEF Start
  <2>2. \A q \in Run :
          met'[q] = IF q = r THEN {o \in Beside(r) : Active(o)}
                    ELSE IF Active(q) /\ q \in Beside(r) THEN met[q] \union {r} ELSE met[q]
    BY <1>1 DEF Start
  <2>3. ASSUME NEW q \in Run PROVE met'[q] \subseteq Beside(q) \union {Cleaner}
    <3>1. q \in Beside(r) => r \in Beside(q)
      OBVIOUS
    <3> HIDE DEF Beside, Active
    <3> QED BY <2>2, <3>1
  <2>4. ASSUME NEW q \in Run, NEW o \in Beside(q), Active(q)', Active(o)'
        PROVE  o \in met'[q]
    BY <2>1, <2>2, <2>4
  <2> QED BY <2>3, <2>4
<1>2. ASSUME NEW r \in Run,
             OpenInstruction(r) \/ WriteInstruction(r) \/ FillJSON(r) \/ FillTOML(r)
      PROVE  Meeting'
  BY <1>2 DEF OpenInstruction, WriteInstruction, FillJSON, FillTOML
<1>3. ASSUME NEW r \in Run, ResolveSecrets(r) PROVE Meeting'
  <2>1. met' = met /\ \A q \in Run : Active(q)' => Active(q)
    BY <1>3 DEF ResolveSecrets, Goto, TypeOK
  <2> QED BY <2>1
<1>4. ASSUME NEW r \in Run, Launch(r) PROVE Meeting'
  <2>1. met' = met /\ \A q \in Run : Active(q)' => Active(q)
    BY <1>4 DEF Launch, Goto, TypeOK
  <2> QED BY <2>1
<1>5. ASSUME NEW r \in Run, Finish(r) PROVE Meeting'
  BY <1>5 DEF Finish, TypeOK, Domains
<1>6. ASSUME NEW h \in Host, Clean(h) PROVE Meeting'
  BY <1>6 DEF Clean
<1>7. CASE UNCHANGED vars
  BY <1>7 DEF vars
<1> QED BY <1>1, <1>2, <1>3, <1>4, <1>5, <1>6, <1>7 DEF Next

\* A file is open only in materialize.
LEMMA NextHandles == TypeOK /\ Domains /\ Handles /\ [Next]_vars => Handles'
<1> SUFFICES ASSUME TypeOK, Domains, Handles, [Next]_vars PROVE Handles'
  OBVIOUS
<1> USE DEF Handles
<1>1. ASSUME NEW r \in Run, Start(r) PROVE Handles'
  <2>1. /\ pc[r] = "ready" /\ \A q \in Run \ {r} : pc'[q] = pc[q]
        /\ UNCHANGED <<handle, unlinked>>
        /\ \A q \in Run \ {r} : unwritten'[q] = unwritten[q] /\ met[q] \subseteq met'[q]
    BY <1>1, PlacesKept DEF Start
  <2> QED BY <2>1
<1>2. ASSUME NEW r \in Run, OpenInstruction(r) PROVE Handles'
  <2>1. /\ pc' = pc /\ pc[r] = "materialize" /\ handle[r] = Closed
        /\ UNCHANGED <<unlinked, met>>
    BY <1>2 DEF OpenInstruction
  <2>2. PICK p \in unwritten[r] : unwritten' = [unwritten EXCEPT ![r] = @ \ {p}]
                               /\ handle' = [handle EXCEPT ![r] = p]
    BY <1>2 DEF OpenInstruction
  <2>3. p \in DOMAIN Instructions[r] /\ p # Closed
    BY Paths DEF TypeOK
  <2>4. /\ unwritten'[r] = unwritten[r] \ {p} /\ handle'[r] = p
        /\ \A q \in Run \ {r} : unwritten'[q] = unwritten[q] /\ handle'[q] = handle[q]
    BY <2>2 DEF TypeOK, Domains
  <2> QED BY <2>1, <2>3, <2>4
<1>3. ASSUME NEW r \in Run, WriteInstruction(r) PROVE Handles'
  BY <1>3 DEF WriteInstruction, TypeOK
<1>4. ASSUME NEW r \in Run, ResolveSecrets(r) \/ Launch(r) PROVE Handles'
  <2>1. /\ UNCHANGED <<handle, unlinked, unwritten, met>>
        /\ handle[r] = Closed
        /\ \A q \in Run \ {r} : pc'[q] = pc[q]
    BY <1>4 DEF ResolveSecrets, Launch, Goto, TypeOK
  <2> QED BY <2>1
<1>5. ASSUME NEW r \in Run, FillJSON(r) \/ FillTOML(r) PROVE Handles'
  BY <1>5 DEF FillJSON, FillTOML
<1>6. ASSUME NEW r \in Run, Finish(r) PROVE Handles'
  <2>1. /\ handle'[r] = Closed /\ r \notin unlinked' /\ unlinked' \subseteq unlinked
        /\ \A q \in Run \ {r} : /\ handle'[q] = handle[q] /\ pc'[q] = pc[q]
                               /\ unwritten'[q] = unwritten[q] /\ met'[q] = met[q]
    BY <1>6 DEF Finish, TypeOK, Domains
  <2> QED BY <2>1
<1>7. ASSUME NEW h \in Host, Clean(h) PROVE Handles'
  <2>1. /\ UNCHANGED <<pc, unwritten, handle>>
        /\ unlinked' = unlinked \union {q \in Run : HostOf[q] = h /\ handle[q] # Closed}
        /\ \A q \in Run : met'[q] = IF Active(q) /\ HostOf[q] = h
                                    THEN met[q] \union {Cleaner} ELSE met[q]
    BY <1>7 DEF Clean
  <2> QED BY <2>1 DEF Active
<1>8. CASE UNCHANGED vars
  BY <1>8 DEF vars
<1> QED BY <1>1, <1>2, <1>3, <1>4, <1>5, <1>6, <1>7, <1>8 DEF Next

\* The file is as it was, and who has it open still has it open or has ended.
Stays(q, p) ==
    /\ profile'[HostOf[q]][p] = profile[HostOf[q]][p]
    /\ handle[q] = p => handle'[q] = p
    /\ met[q] \subseteq met'[q]
    /\ \A o \in met[q] \ {Cleaner} :
          /\ pc[o] = "over" => pc'[o] = "over"
          /\ handle[o] = p /\ o \notin unlinked =>
                (handle'[o] = p /\ o \notin unlinked') \/ pc'[o] = "over"

\* What is said of a file that stays remains true.
LEMMA StaysInstructed ==
    ASSUME NEW q \in Run, NEW p \in DOMAIN Instructions[q], Stays(q, p), Instructs(q, p)
    PROVE  Instructs(q, p)'
<1>1. Truncating(q, p) => Truncating(q, p)'
  BY DEF Stays, Truncating
<1>2. Disturbed(q, p) => Disturbed(q, p)'
  BY DEF Stays, Disturbed
<1> QED BY <1>1, <1>2 DEF Instructs, Stays

\* A run that goes on with the same files keeps its claim on them.
LEMMA InstructedUntouched ==
    ASSUME NEW q \in Run, InstructedOf(q), \A p \in DOMAIN Instructions[q] : Stays(q, p),
           unwritten'[q] = unwritten[q],
           Active(q)' => Active(q), Overlaying(q)' => Overlaying(q) \/ unwritten[q] = {}
    PROVE  InstructedOf(q)'
BY StaysInstructed DEF InstructedOf

\* Who opens a file cuts it for the others.
LEMMA OpenInstructed ==
    ASSUME TypeOK, Domains, Meeting, Handles, NEW r \in Run, OpenInstruction(r),
           NEW q \in Run, InstructedOf(q)
    PROVE  InstructedOf(q)'
<1> PICK p \in unwritten[r] :
      /\ profile' = [profile EXCEPT ![HostOf[r]][p] = Cut]
      /\ unwritten' = [unwritten EXCEPT ![r] = @ \ {p}]
      /\ handle' = [handle EXCEPT ![r] = p]
  BY DEF OpenInstruction, Truncated
<1>1. UNCHANGED <<pc, met, unlinked>> /\ pc[r] = "materialize" /\ handle[r] = Closed
  BY DEF OpenInstruction
<1>2. p \in DOMAIN Instructions[r] /\ p \in Path /\ r \notin unlinked
  BY <1>1, Paths DEF TypeOK, Handles
<1>3. /\ profile'[HostOf[r]][p] = Cut /\ handle'[r] = p
      /\ \A o \in Run \ {r} : handle'[o] = handle[o] /\ unwritten'[o] = unwritten[o]
      /\ unwritten'[r] = unwritten[r] \ {p}
  BY <1>2, Paths DEF TypeOK, Domains
<1>4. \A o \in Path : HostOf[q] # HostOf[r] \/ o # p
        => profile'[HostOf[q]][o] = profile[HostOf[q]][o]
  BY <1>2, Paths DEF TypeOK
<1>5. ASSUME Active(q)', NEW o \in DOMAIN Instructions[q] \ unwritten'[q]
      PROVE  Instructs(q, o)'
  <2>1. Active(q) /\ o \in Path /\ o # Closed
    BY <1>1, <1>5, Paths DEF Active
  <2>2. CASE HostOf[q] = HostOf[r] /\ o = p /\ q = r
    BY <1>3, <2>2 DEF Instructs
  <2>3. CASE HostOf[q] = HostOf[r] /\ o = p /\ q # r
    <3>1. r \in met'[q]
      BY <1>1, <2>1, <2>3 DEF Meeting, Beside, Active
    <3>2. r = Cleaner => Disturbed(q, o)'
      BY <3>1 DEF Disturbed
    <3>3. r # Cleaner => Truncating(q, o)'
      BY <1>1, <1>2, <1>3, <2>3, <3>1 DEF Truncating
    <3> QED BY <3>2, <3>3 DEF Instructs
  <2>4. CASE HostOf[q] # HostOf[r] \/ o # p
    <3>1. o \notin unwritten[q]
      BY <1>3, <1>5, <2>4
    <3>2. Stays(q, o)
      BY <1>1, <1>3, <1>4, <2>1, <2>4 DEF Stays, TypeOK
    <3> QED BY <1>5, <2>1, <3>1, <3>2, StaysInstructed DEF InstructedOf
  <2> QED BY <2>2, <2>3, <2>4
<1>6. Overlaying(q)' => unwritten'[q] = {}
  BY <1>1, <1>3 DEF InstructedOf, Overlaying, Active
<1> QED BY <1>5, <1>6 DEF InstructedOf

\* What a write changes for another run of the profile disturbs that run: where
\* both have the same text the file has it after the write.
LEMMA WrittenForOthers ==
    ASSUME Meeting, NEW r \in Run, NEW q \in Run, q # r, HostOf[q] = HostOf[r],
           Active(r), Active(q), met'[q] = met[q],
           NEW p \in DOMAIN Instructions[q], p \in DOMAIN Instructions[r], Instructs(q, p),
           NEW old, old = profile[HostOf[r]][p],
           \/ profile'[HostOf[r]][p] \in Over(old, Instructions[r][p])
           \/ profile'[HostOf[r]][p] = Half(old, Instructions[r][p]) /\ old # Cut
    PROVE  Instructs(q, p)'
<1>1. r \in met[q]
  BY DEF Meeting, Beside
<1>2. Disturbed(q, p) => Disturbed(q, p)'
  BY DEF Disturbed
<1>3. CASE Instructions[q][p] # Instructions[r][p]
  BY <1>1, <1>3 DEF Instructs, Disturbed
<1>4. CASE Instructions[q][p] = Instructions[r][p] /\ ~Disturbed(q, p)
  <2>1. old \in {Cut, Instructions[r][p]}
    BY <1>4 DEF Instructs, Truncating
  <2> QED BY <1>4, <2>1 DEF Over, Half, Instructs
<1> QED BY <1>2, <1>3, <1>4 DEF Instructs

LEMMA WriteInstructed ==
    ASSUME TypeOK, Domains, Meeting, Handles, NEW r \in Run, WriteInstruction(r),
           NEW q \in Run, InstructedOf(q)
    PROVE  InstructedOf(q)'
<1> DEFINE p == handle[r]
<1>1. /\ UNCHANGED <<pc, met, unwritten>> /\ unlinked' = unlinked \ {r}
      /\ \A o \in Run \ {r} : handle'[o] = handle[o]
  BY DEF WriteInstruction
<1>2. /\ pc[r] = "materialize" /\ p \in DOMAIN Instructions[r] /\ p \in Path
      /\ r \in unlinked => Cleaner \in met[r]
  BY Paths DEF WriteInstruction, Handles
<1>3. /\ r \in unlinked => profile' = profile
      /\ r \notin unlinked => profile'[HostOf[r]][p] \in Over(profile[HostOf[r]][p], Instructions[r][p])
      /\ \A o \in Path : HostOf[q] # HostOf[r] \/ o # p
            => profile'[HostOf[q]][o] = profile[HostOf[q]][o]
  <2>1. CASE r \in unlinked
    BY <2>1 DEF WriteInstruction
  <2>2. CASE r \notin unlinked
    <3>1. PICK text \in Over(profile[HostOf[r]][p], Instructions[r][p]) :
             profile' = [profile EXCEPT ![HostOf[r]][p] = text]
      BY <2>2 DEF WriteInstruction
    <3> HIDE DEF p
    <3> QED BY <1>2, <2>2, <3>1, Paths DEF TypeOK
  <2> QED BY <2>1, <2>2
<1> HIDE DEF p
<1>4. ASSUME Active(q), NEW o \in DOMAIN Instructions[q] \ unwritten[q]
      PROVE  Instructs(q, o)'
  <2>1. Instructs(q, o) /\ o \in Path
    BY <1>4, Paths DEF InstructedOf
  <2>2. CASE q = r /\ r \in unlinked
    BY <1>1, <1>2, <2>2 DEF Instructs, Disturbed
  <2>3. CASE q = r /\ r \notin unlinked /\ o = p
    <3>1. Disturbed(q, o) => Disturbed(q, o)'
      BY <1>1 DEF Disturbed
    <3>2. CASE ~Disturbed(q, o)
      <4>1. profile[HostOf[r]][p] \in {Cut, Instructions[r][p]}
        BY <2>1, <2>3, <3>2 DEF Instructs, Truncating
      <4> QED BY <1>3, <2>3, <4>1 DEF Over, Instructs
    <3> QED BY <3>1, <3>2 DEF Instructs
  <2>4. CASE q # r /\ r \notin unlinked /\ HostOf[q] = HostOf[r] /\ o = p
    <3>1. Active(r)
      BY <1>2 DEF Active
    <3> QED BY <1>1, <1>2, <1>3, <1>4, <2>1, <2>4, <3>1, WrittenForOthers
  <2>5. CASE /\ r \in unlinked => q # r
             /\ r \in unlinked \/ HostOf[q] # HostOf[r] \/ o # p
    <3>1. r \in met[q] \ {Cleaner} => HostOf[q] = HostOf[r]
      BY DEF Meeting, Beside
    <3>2. profile'[HostOf[q]][o] = profile[HostOf[q]][o] /\ (handle[q] = o => handle'[q] = o)
      BY <1>1, <1>3, <2>1, <2>5 DEF p
    <3>3. ASSUME NEW w \in met[q] \ {Cleaner}, handle[w] = o, w \notin unlinked
          PROVE  handle'[w] = o /\ w \notin unlinked'
      <4>1. w # r /\ w \in Run
        BY <2>5, <3>1, <3>3 DEF p, TypeOK
      <4> QED BY <1>1, <3>3, <4>1
    <3>4. Stays(q, o)
      BY <1>1, <3>2, <3>3 DEF Stays
    <3> QED BY <2>1, <3>4, StaysInstructed
  <2> QED BY <2>2, <2>3, <2>4, <2>5
<1> QED BY <1>1, <1>4 DEF InstructedOf, Active, Overlaying

\* A run that ends with a file open may leave it cut, or half a text in it.
LEMMA FinishInstructed ==
    ASSUME TypeOK, Domains, Meeting, Handles, NEW r \in Run, Finish(r),
           NEW q \in Run, InstructedOf(q)
    PROVE  InstructedOf(q)'
<1> DEFINE p == handle[r]
<1>1. /\ pc'[r] = "over" /\ Active(r)
      /\ \A o \in Run \ {r} : /\ handle'[o] = handle[o] /\ pc'[o] = pc[o]
                             /\ unwritten'[o] = unwritten[o] /\ met'[o] = met[o]
      /\ unlinked' \subseteq unlinked
  BY DEF Finish, TypeOK, Domains
<1>2. \/ profile' = profile
      \/ /\ p \in DOMAIN Instructions[r]
         /\ profile'[HostOf[r]][p] = Half(profile[HostOf[r]][p], Instructions[r][p])
         /\ \A o \in Path : HostOf[q] # HostOf[r] \/ o # p
               => profile'[HostOf[q]][o] = profile[HostOf[q]][o]
  BY Paths DEF Finish, Handles, TypeOK
<1> HIDE DEF p
<1>3. CASE q = r
  BY <1>1, <1>3 DEF InstructedOf, Active
<1>4. CASE q # r
  <2>1. ASSUME Active(q), NEW o \in DOMAIN Instructions[q] \ unwritten[q]
        PROVE  Instructs(q, o)'
    <3>1. Instructs(q, o) /\ o \in Path
      BY <2>1, Paths DEF InstructedOf
    <3>2. ASSUME profile'[HostOf[q]][o] = profile[HostOf[q]][o] PROVE Instructs(q, o)'
      <4>1. Stays(q, o)
        BY <1>1, <1>4, <3>2 DEF Stays, TypeOK
      <4> QED BY <3>1, <4>1, StaysInstructed
    <3>3. CASE profile'[HostOf[q]][o] # profile[HostOf[q]][o]
      <4>1. /\ o = p /\ HostOf[q] = HostOf[r] /\ p \in DOMAIN Instructions[r]
            /\ profile'[HostOf[r]][p] = Half(profile[HostOf[r]][p], Instructions[r][p])
        BY <1>2, <3>1, <3>3
      <4>2. profile[HostOf[r]][p] # Cut
        BY <3>3, <4>1 DEF Half
      <4> QED BY <1>1, <1>4, <2>1, <3>1, <4>1, <4>2, WrittenForOthers
    <3> QED BY <3>2, <3>3
  <2> QED BY <1>1, <1>4, <2>1 DEF InstructedOf, Active, Overlaying
<1> QED BY <1>3, <1>4

LEMMA NextInstructed ==
    TypeOK /\ Domains /\ Meeting /\ Handles /\ Instructed /\ [Next]_vars => Instructed'
<1> SUFFICES ASSUME TypeOK, Domains, Meeting, Handles, Instructed, [Next]_vars,
                    NEW q \in Run, InstructedOf(q)
             PROVE  InstructedOf(q)'
  BY DEF Instructed
<1>1. ASSUME NEW r \in Run, Start(r) PROVE InstructedOf(q)'
  <2>1. /\ pc[r] = "ready" /\ pc'[r] = "materialize" /\ \A o \in Run \ {r} : pc'[o] = pc[o]
        /\ UNCHANGED <<profile, handle, unlinked>>
    BY <1>1, PlacesKept DEF Start
  <2>2. CASE q = r
    BY <1>1, <2>1, <2>2 DEF Start, Domains, InstructedOf, Overlaying
  <2>3. CASE q # r
    <3>1. met[q] \subseteq met'[q] /\ unwritten'[q] = unwritten[q]
      BY <1>1, <2>3 DEF Start
    <3>2. \A p \in DOMAIN Instructions[q] : Stays(q, p)
      BY <2>1, <3>1 DEF Stays, TypeOK
    <3> QED BY <2>1, <2>3, <3>1, <3>2, InstructedUntouched DEF Active, Overlaying
  <2> QED BY <2>2, <2>3
<1>2. ASSUME NEW r \in Run, ResolveSecrets(r) \/ Launch(r) PROVE InstructedOf(q)'
  <2>1. /\ UNCHANGED <<profile, handle, unlinked, unwritten, met>>
        /\ pc[r] \in {"materialize", "overlay"}
        /\ pc[r] = "materialize" => unwritten[r] = {}
        /\ \A o \in Run \ {r} : pc'[o] = pc[o]
    BY <1>2 DEF ResolveSecrets, Launch, Goto, TypeOK
  <2>2. \A p \in DOMAIN Instructions[q] : Stays(q, p)
    BY <2>1 DEF Stays, TypeOK
  <2> QED BY <2>1, <2>2, InstructedUntouched DEF Active, Overlaying
<1>3. ASSUME NEW r \in Run, FillJSON(r) \/ FillTOML(r) PROVE InstructedOf(q)'
  <2>1. UNCHANGED <<pc, profile, handle, unlinked, unwritten, met>>
    BY <1>3 DEF FillJSON, FillTOML
  <2>2. \A p \in DOMAIN Instructions[q] : Stays(q, p)
    BY <2>1 DEF Stays
  <2> QED BY <2>1, <2>2, InstructedUntouched DEF Active, Overlaying
<1>4. ASSUME NEW h \in Host, Clean(h) PROVE InstructedOf(q)'
  <2>1. /\ UNCHANGED <<pc, unwritten, handle>>
        /\ unlinked' = unlinked \union {o \in Run : HostOf[o] = h /\ handle[o] # Closed}
    BY <1>4 DEF Clean
  <2>2. CASE HostOf[q] = h
    <3>1. Active(q) => Cleaner \in met'[q]
      BY <1>4, <2>2 DEF Clean
    <3> QED BY <2>1, <3>1 DEF InstructedOf, Instructs, Disturbed, Active, Overlaying
  <2>3. CASE HostOf[q] # h
    <3>1. profile'[HostOf[q]] = profile[HostOf[q]] /\ met'[q] = met[q]
      BY <1>4, <2>3, Paths DEF Clean, TypeOK
    <3>2. \A o \in met[q] \ {Cleaner} : HostOf[o] = HostOf[q]
      BY DEF Meeting, Beside
    <3>3. \A p \in DOMAIN Instructions[q] : Stays(q, p)
      BY <2>1, <2>3, <3>1, <3>2 DEF Stays
    <3> QED BY <2>1, <3>3, InstructedUntouched DEF Active, Overlaying
  <2> QED BY <2>2, <2>3
<1>5. CASE UNCHANGED vars
  <2>1. UNCHANGED <<pc, profile, handle, unlinked, unwritten, met>>
    BY <1>5 DEF vars
  <2>2. \A p \in DOMAIN Instructions[q] : Stays(q, p)
    BY <2>1 DEF Stays
  <2> QED BY <2>1, <2>2, InstructedUntouched DEF Active, Overlaying
<1> QED BY <1>1, <1>2, <1>3, <1>4, <1>5, OpenInstructed, WriteInstructed, FinishInstructed
        DEF Next

-----------------------------------------------------------------------------
(* The theorems *)

\* The invariant holds throughout.
THEOREM FilesInvAlways == Spec => []FilesInv
<1>1. FilesInv /\ [Next]_vars => FilesInv'
  BY NextTypeOK, NextDomains, NextOverlay, NextMeeting, NextHandles, NextInstructed
     DEF FilesInv
<1> QED BY <1>1, InitFilesInv, PTL DEF Spec

\* Every variable keeps its type; only optional names are omitted, and none
\* that has a value.
THEOREM TypeCorrect == Spec => []TypeOK
<1>1. FilesInv => TypeOK
  BY DEF FilesInv
<1> QED BY <1>1, FilesInvAlways, PTL

\* An entry of a started host's files holds the value of its own variable, unless
\* it is exposed, and no JSON entry is left for a variable without a value.
THEOREM SlotsServedAlways == Spec => []SlotsServed
<1>1. FilesInv => SlotsServed
  <2> SUFFICES ASSUME FilesInv, NEW r \in Run, pc[r] = "host", NEW s \in Slots[r]
               PROVE  /\ s.name \in values[r] /\ ~Exposed(r, s) => slot[r][s] = Value(s.name)
                      /\ s.name \in omitted[r] /\ Format[s.file] = "json" =>
                            slot[r][s] = Dropped(s.name)
    BY DEF SlotsServed
  <2>1. /\ unfilled[r] = {}
        /\ IF Format[s.file] = "toml" THEN Served(r, s) /\ left[r] = {} ELSE Filled(r, s)
    BY DEF FilesInv, Overlay, OverlayOf, Overlaying
  <2>2. slot[r][s] = Final(r, s) \/ (Exposed(r, s) /\ Format[s.file] = "toml")
    BY <2>1 DEF Served, Filled, Exposed
  <2>3. values[r] \intersect omitted[r] = {}
    BY DEF FilesInv, TypeOK
  <2> QED BY <2>2, <2>3 DEF Final
<1> QED BY <1>1, FilesInvAlways, PTL

\* A started host has the instructions of its own Agent in the profile, unless
\* an overlapping clean, an overlapping run with another text, or one that has
\* just truncated the file or ended after it did, changed them.
THEOREM OwnInstructionsAlways == Spec => []OwnInstructions
<1>1. FilesInv => OwnInstructions
  <2> SUFFICES ASSUME FilesInv, NEW r \in Run, pc[r] = "host",
                      NEW p \in DOMAIN Instructions[r]
               PROVE  \/ profile[HostOf[r]][p] = Instructions[r][p]
                      \/ Disturbed(r, p) \/ Truncating(r, p)
    BY DEF OwnInstructions
  <2>1. Instructs(r, p)
    BY DEF FilesInv, Instructed, InstructedOf, Active, Overlaying
  <2>2. handle[r] = Closed /\ p # Closed
    BY Paths DEF FilesInv, Handles
  <2> QED BY <2>1, <2>2 DEF Instructs
<1> QED BY <1>1, FilesInvAlways, PTL

-----------------------------------------------------------------------------
(* What a required reference gets *)

\* The names the host process gets in its environment.
Given(r) == {ref.name : ref \in {o \in Refs[r] : Delivered(o) /\ o.name \in values[r]}}

\* From the overlay on every name has a value or is omitted; the environment is
\* made of the values when the process is started, and of nothing else.
Resolved ==
    \A r \in Run :
        /\ Overlaying(r) => omitted[r] = Names(r) \ values[r]
        /\ env[r] = IF pc[r] = "host" THEN Given(r) ELSE {}

\* The environment of a started host and the entries of its files have the value
\* of every required reference, but an exposed entry of config.toml, in
\* which another value may stand; the environment has no name but a delivered one.
RequiredGiven ==
    \A r \in Run : pc[r] = "host" =>
        /\ \A ref \in Refs[r] : ref.required =>
              /\ Delivered(ref) => ref.name \in env[r]
              /\ \A s \in Slots[r] : s.name = ref.name =>
                    slot[r][s] = Value(ref.name) \/ Exposed(r, s)
        /\ \A n \in env[r] : \E ref \in Refs[r] : Delivered(ref) /\ ref.name = n

LEMMA NextResolved == TypeOK /\ Domains /\ Resolved /\ [Next]_vars => Resolved'
<1> SUFFICES ASSUME TypeOK, Domains, Resolved, [Next]_vars PROVE Resolved'
  OBVIOUS
<1> USE DEF Resolved, Overlaying, Given, Domains, Goto
<1>t. pc \in [Run -> {"ready", "materialize", "overlay", "host", "over"}]
  BY DEF TypeOK
<1>1. ASSUME NEW r \in Run, Start(r) PROVE Resolved'
  <2>1. /\ pc[r] = "ready" /\ pc'[r] = "materialize" /\ \A q \in Run \ {r} : pc'[q] = pc[q]
        /\ UNCHANGED <<values, omitted, env>>
    BY <1>t, <1>1 DEF Start, overlay
  <2> QED BY <2>1
<1>2. ASSUME NEW r \in Run,
             OpenInstruction(r) \/ WriteInstruction(r) \/ FillJSON(r) \/ FillTOML(r)
      PROVE  Resolved'
  <2>1. UNCHANGED <<pc, values, omitted, env>>
    BY <1>2 DEF OpenInstruction, WriteInstruction, FillJSON, FillTOML, overlay
  <2> QED BY <2>1
<1>3. ASSUME NEW r \in Run, ResolveSecrets(r) PROVE Resolved'
  <2>1. PICK held \in SUBSET Names(r) :
          \/ /\ Goto(r, "materialize", "overlay")
             /\ values' = [values EXCEPT ![r] = held]
             /\ omitted' = [omitted EXCEPT ![r] = Names(r) \ held]
          \/ Goto(r, "materialize", "over") /\ UNCHANGED <<values, omitted>>
    BY <1>3 DEF ResolveSecrets
  <2>2. pc[r] = "materialize" /\ env' = env
    BY <1>3 DEF ResolveSecrets
  <2>3. \A q \in Run \ {r} : pc'[q] = pc[q] /\ values'[q] = values[q] /\ omitted'[q] = omitted[q]
    BY <1>t, <2>1
  <2>4. \/ pc'[r] = "over"
        \/ pc'[r] = "overlay" /\ omitted'[r] = Names(r) \ values'[r]
    BY <1>t, <2>1
  <2> QED BY <2>2, <2>3, <2>4
<1>4. ASSUME NEW r \in Run, Launch(r) PROVE Resolved'
  <2>1. /\ pc[r] = "overlay" /\ pc'[r] = "host" /\ values' = values /\ omitted' = omitted
        /\ \A q \in Run \ {r} : pc'[q] = pc[q]
    BY <1>t, <1>4 DEF Launch
  <2>2. env' = [env EXCEPT ![r] = Given(r)]
    BY <1>4 DEF Launch
  <2>3. env'[r] = Given(r) /\ \A q \in Run \ {r} : env'[q] = env[q]
    BY <2>2
  <2>4. \A q \in Run : Given(q)' = Given(q)
    BY <2>1
  <2> HIDE DEF Given
  <2> QED BY <2>1, <2>3, <2>4
<1>5. ASSUME NEW r \in Run, Finish(r) PROVE Resolved'
  <2>1. /\ pc'[r] = "over" /\ env'[r] = {}
        /\ \A q \in Run \ {r} :
              pc'[q] = pc[q] /\ env'[q] = env[q] /\ values'[q] = values[q] /\ omitted'[q] = omitted[q]
    BY <1>t, <1>5 DEF Finish
  <2> QED BY <2>1
<1>6. ASSUME NEW h \in Host, Clean(h) PROVE Resolved'
  BY <1>6 DEF Clean, overlay
<1>7. CASE UNCHANGED vars
  BY <1>7 DEF vars, overlay
<1> QED BY <1>1, <1>2, <1>3, <1>4, <1>5, <1>6, <1>7 DEF Next

\* A host is started only when every required variable has a value, and then it
\* has that value wherever the plan asks for it (resolveSecrets, applySecretEnv,
\* overlaySecrets); of the entries of config.toml, the exposed ones are left out.
THEOREM RequiredGivenAlways == Spec => []RequiredGiven
<1>1. Init => Resolved
  BY DEF Init, Resolved, Overlaying
<1>2. FilesInv /\ Resolved /\ [Next]_vars => Resolved'
  BY NextResolved DEF FilesInv
<1>3. FilesInv /\ Resolved /\ SlotsServed => RequiredGiven
  <2> SUFFICES ASSUME FilesInv, Resolved, SlotsServed, NEW r \in Run, pc[r] = "host"
               PROVE  /\ \A ref \in Refs[r] : ref.required =>
                            /\ Delivered(ref) => ref.name \in env[r]
                            /\ \A s \in Slots[r] : s.name = ref.name =>
                                  slot[r][s] = Value(ref.name) \/ Exposed(r, s)
                      /\ \A n \in env[r] : \E ref \in Refs[r] : Delivered(ref) /\ ref.name = n
    BY DEF RequiredGiven
  <2>1. env[r] = Given(r) /\ omitted[r] = Names(r) \ values[r]
    BY DEF Resolved, Overlaying
  <2>2. ASSUME NEW ref \in Refs[r], ref.required PROVE ref.name \in values[r]
    <3>1. ref.name \in Names(r) /\ ref.name \notin Optional(r)
      BY <2>2 DEF Names, Optional
    <3> QED BY <2>1, <3>1 DEF FilesInv, TypeOK
  <2>3. ASSUME NEW ref \in Refs[r], ref.required, NEW s \in Slots[r], s.name = ref.name
        PROVE  slot[r][s] = Value(ref.name) \/ Exposed(r, s)
    BY <2>2, <2>3 DEF SlotsServed
  <2> QED BY <2>1, <2>2, <2>3 DEF Given
<1> QED BY <1>1, <1>2, <1>3, FilesInvAlways, SlotsServedAlways, PTL DEF Spec
=============================================================================
