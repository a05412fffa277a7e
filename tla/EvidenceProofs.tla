--------------------------- MODULE EvidenceProofs ---------------------------
(***************************************************************************)
(* What the compatibility algebra guarantees for every Agent and every set *)
(* of facts.  The state is a function of its two inputs, so the invariant  *)
(* that carries the theorems says just that (Reported); the work is in the *)
(* lemmas of EvaluateProofs and in the comparison of two reports.          *)
(***************************************************************************)
EXTENDS Evidence, EvaluateProofs

-----------------------------------------------------------------------------
(* The invariant: a report is the algebra's value on the current inputs *)

Reported ==
    /\ IsRequirement(req)
    /\ IsAssessment(facts)
    /\ report = Report(req, facts)

\* The rows of a report are the rows of its keys, all of them of the model.
LEMMA ReportRows ==
    ASSUME NEW r, NEW f, IsRequirement(r), IsAssessment(f)
    PROVE  /\ Keys(r, f) \subseteq Key
           /\ DOMAIN Report(r, f).rows = Keys(r, f)
           /\ \A k \in Keys(r, f) : Report(r, f).rows[k] = RowOf(r, f, k)
           /\ Report(r, f).decision = Aggregate(r, f, Rows(r, f))
<1>1. Keys(r, f) \subseteq Key
  <2>1. ASSUME NEW s \in Singletons PROVE Only(s) \in Key
    BY IdAssumption DEF Only, Key, Sections
  <2> QED  BY <2>1 DEF Keys, IsRequirement, IsAssessment
<1> QED  BY <1>1 DEF Report, Rows

\* A changed assessment still is one.
LEMMA ChangedAssessment ==
    ASSUME NEW f, IsAssessment(f), NEW k \in DOMAIN f,
           NEW field \in EvidenceFields \union {"judged"}, NEW v \in Word
    PROVE  IsAssessment([f EXCEPT ![k] = [@ EXCEPT ![field] = v]])
<1> DEFINE g == [f[k] EXCEPT ![field] = v]
<1>1. f[k] \in FactType  BY DEF IsAssessment
<1>2. g \in FactType
  <2>1. CASE field = "support"      BY <1>1, <2>1 DEF FactType
  <2>2. CASE field = "confidence"   BY <1>1, <2>2 DEF FactType
  <2>3. CASE field = "scope"        BY <1>1, <2>3 DEF FactType
  <2>4. CASE field = "enforcement"  BY <1>1, <2>4 DEF FactType
  <2>5. CASE field = "judged"       BY <1>1, <2>5 DEF FactType
  <2> QED  BY <2>1, <2>2, <2>3, <2>4, <2>5 DEF EvidenceFields
<1> HIDE DEF g
<1>3. IsAssessment([f EXCEPT ![k] = g])  BY <1>2 DEF IsAssessment
<1> QED  BY <1>3 DEF g

\* The invariant holds at the start and every change keeps it.
THEOREM ReportedInvariant == Spec => []Reported
<1>1. Init => Reported
  BY DeclaredAssumption, AssertedAssumption DEF Init, Reported
<1>2. Reported /\ [Next]_vars => Reported'
  <2> SUFFICES ASSUME Reported, [Next]_vars PROVE Reported'
    OBVIOUS
  <2> USE DEF Reported
  <2>1. ASSUME NEW k \in DOMAIN facts, NEW field \in EvidenceFields, Lose(k, field)
        PROVE  Reported'
    <3>1. field \in EvidenceFields \union {"judged"}  OBVIOUS
    <3>2. IsAssessment([facts EXCEPT ![k] = [@ EXCEPT ![field] = "unknown"]])
      BY <3>1, WordAssumption, ChangedAssessment
    <3> QED  BY <2>1, <3>2 DEF Lose, Evaluated
  <2>2. ASSUME NEW k \in DOMAIN facts, NEW field \in EvidenceFields \union {"judged"},
               Assert(k, field)
        PROVE  Reported'
    <3>1. k[1] \in Sections  BY DEF IsAssessment, Key
    <3>2. PICK v \in Value[k[1]][field] :
            facts' = [facts EXCEPT ![k] = [@ EXCEPT ![field] = v]]
      BY <2>2 DEF Assert
    <3>3. v \in Word  BY <3>1, <3>2, ValueAssumption
    <3>4. IsAssessment(facts')  BY <3>2, <3>3, ChangedAssessment
    <3> QED  BY <2>2, <3>4 DEF Assert, Evaluated
  <2>3. ASSUME NEW k \in DOMAIN facts, Unsay(k) PROVE Reported'
    <3>1. IsAssessment(facts')  BY <2>3 DEF Unsay, IsAssessment
    <3> QED  BY <2>3, <3>1 DEF Unsay, Evaluated
  <2>4. ASSUME NEW k \in DOMAIN req, Demand(k) PROVE Reported'
    <3>1. IsRequirement(req')  BY <2>4 DEF Demand, IsRequirement, Needs
    <3> QED  BY <2>4, <3>1 DEF Demand, Evaluated
  <2>5. ASSUME NEW k \in DOMAIN req, Release(k) PROVE Reported'
    <3>1. IsRequirement(req')  BY <2>5 DEF Release, IsRequirement, Needs
    <3> QED  BY <2>5, <3>1 DEF Release, Evaluated
  <2>6. CASE UNCHANGED vars  BY <2>6 DEF vars
  <2> QED  BY <2>1, <2>2, <2>3, <2>4, <2>5, <2>6 DEF Next
<1> QED  BY <1>1, <1>2, PTL DEF Spec

-----------------------------------------------------------------------------
(* The decision *)

\* In every report that is not refused, every required item Project keys on is
\* included.
THEOREM RequiredNeverOmittedAlways == Spec => []RequiredNeverOmitted
<1>1. Reported => RequiredNeverOmitted
  <2> SUFFICES ASSUME Reported, report.decision # "refused",
                      NEW k \in DOMAIN report.rows,
                      k[1] \in Projectables, Required(req, facts, k)
               PROVE  /\ report.rows[k].disposition = "include"
                      /\ report.rows[k].result \in {"satisfied", "degraded"}
    BY DEF RequiredNeverOmitted
  <2>1. /\ k \in Keys(req, facts) /\ k \in Key
        /\ report.rows[k] = RowOf(req, facts, k)
        /\ report.decision = Aggregate(req, facts, Rows(req, facts))
    BY ReportRows DEF Reported
  <2>2. ~Failing(RowOf(req, facts, k))
    BY <2>1, RefusedIff DEF Refuses
  <2>s. k[1] \in Sections  BY <2>1 DEF Key
  <2>3. RowShape(k[1], RowOf(req, facts, k))  BY <2>s, RowOfShape
  <2> QED  BY <2>1, <2>2, <2>3 DEF RowShape, Failing, Results
<1> QED  BY <1>1, ReportedInvariant, PTL

\* In every report, unproven permissions or approvals refuse.
THEOREM HardGatesFailClosedAlways == Spec => []HardGatesFailClosed
<1>1. Reported => HardGatesFailClosed
  <2> SUFFICES ASSUME Reported, NEW s \in {"permissions", "approvals"},
                      Only(s) \notin DOMAIN facts \/ Unproven(s, TRUE, facts[Only(s)])
               PROVE  report.decision = "refused"
    BY DEF HardGatesFailClosed
  <2> DEFINE k == Only(s)
  <2>1. k[1] = s /\ k \in Keys(req, facts)  BY DEF Only, Keys, Singletons
  <2>2. Required(req, facts, k)  BY <2>1 DEF Required
  <2>3. RowOf(req, facts, k).result = "unknown"
    <3>1. RowOf(req, facts, k) = RawRow(req, facts, k)
      BY <2>1 DEF RowOf, IsolationFails
    <3>2. CASE k \notin DOMAIN facts
      <4>1. RawRow(req, facts, k) = DefaultRow(s)  BY <2>1, <3>2 DEF RawRow
      <4>2. DefaultRow(s).result = "unknown"  BY DEF DefaultRow, ItemSections, Verdict
      <4> QED  BY <3>1, <4>1, <4>2
    <3>3. CASE k \in DOMAIN facts
      <4>1. Unproven(s, TRUE, facts[k])  BY <3>3
      <4>2. Unproven(s, Required(req, facts, k), facts[k])  BY <4>1 DEF Unproven
      <4>3. RawRow(req, facts, k) = PolicyRow(s, Required(req, facts, k), facts[k])
        BY <2>1, <3>3 DEF RawRow, JudgedRow
      <4>4. PolicyRow(s, Required(req, facts, k), facts[k]).result = "unknown"
        BY <4>2 DEF PolicyRow, Verdict
      <4> QED  BY <3>1, <4>3, <4>4
    <3> QED  BY <3>2, <3>3
  <2>4. Refuses(Required(req, facts, k), RowOf(req, facts, k))
    <3>1. Failing(RowOf(req, facts, k))  BY <2>3 DEF Failing
    <3> QED  BY <2>2, <3>1 DEF Refuses
  <2>5. Aggregate(req, facts, Rows(req, facts)) = "refused"
    BY <2>1, <2>4, RefusedIff
  <2> QED  BY <2>5, ReportRows DEF Reported
<1> QED  BY <1>1, ReportedInvariant, PTL

-----------------------------------------------------------------------------
(* What a report leaves out *)

\* The rows of a report, its decision and its summaries, in the words of the rules.
LEMMA ReportParts ==
    ASSUME Reported
    PROVE  /\ DOMAIN report.rows = Keys(req, facts)
           /\ report.decision = Aggregate(req, facts, Rows(req, facts))
           /\ \A k \in Keys(req, facts) :
                /\ k \in Key
                /\ report.rows[k] = RowOf(req, facts, k)
                /\ RowShape(k[1], report.rows[k]) /\ HasReason(k[1], report.rows[k])
           /\ report.summaries \in [ItemSections -> {"pass", "warning", "refuse"}]
           /\ \A s \in ItemSections :
                report.summaries[s] = Impact(req, facts, Rows(req, facts), s)
<1>1. /\ DOMAIN report.rows = Keys(req, facts)
      /\ report.decision = Aggregate(req, facts, Rows(req, facts))
      /\ \A k \in Keys(req, facts) : k \in Key /\ report.rows[k] = RowOf(req, facts, k)
  BY ReportRows DEF Reported
<1>2. report.summaries = Summaries(req, facts, Rows(req, facts))
  BY DEF Reported, Report
<1>3. \A s : Impact(req, facts, Rows(req, facts), s) \in {"pass", "warning", "refuse"}
  BY DEF Impact
<1>4. /\ report.summaries \in [ItemSections -> {"pass", "warning", "refuse"}]
      /\ \A s \in ItemSections :
           report.summaries[s] = Impact(req, facts, Rows(req, facts), s)
  BY <1>2, <1>3 DEF Summaries
<1>5. \A k \in Key : k[1] \in Sections  BY DEF Key
<1> QED  BY <1>1, <1>4, <1>5, RowOfShape, RowOfReason

\* Every row has a result, and a disposition where plans key on one.
THEOREM EvidenceTypeCorrect == Spec => []TypeOK
<1>1. ASSUME Reported PROVE TypeOK
  <2>1. report.decision \in Decisions
    BY <1>1, ReportParts, ThreeDecisions
  <2>2. ASSUME NEW k \in DOMAIN report.rows
        PROVE  /\ report.rows[k].result \in Results
               /\ report.rows[k].disposition \in
                    IF k[1] \in Projectables THEN {"include", "omit"} ELSE {""}
    <3>1. RowShape(k[1], report.rows[k])
      BY <1>1, ReportParts
    <3> QED  BY <3>1 DEF RowShape
  <2>3. /\ DOMAIN report.rows = Keys(req, facts)
        /\ report.summaries \in [ItemSections -> {"pass", "warning", "refuse"}]
    BY <1>1, ReportParts
  <2> QED  BY <2>1, <2>2, <2>3 DEF TypeOK
<1> QED  BY <1>1, ReportedInvariant, PTL

\* Whatever a report leaves out shows in its reasons, summaries and decision.
THEOREM NothingHiddenAlways == Spec => []NothingHidden
<1>1. ASSUME Reported, NEW k \in DOMAIN report.rows, k[1] \in Projectables,
             Failing(report.rows[k])
      PROVE  report.decision # "allowed"
  BY <1>1, ReportParts, AllowedIff, FailureIsSeen
<1>2. ASSUME Reported PROVE OmissionIsVisible
  <2> SUFFICES ASSUME NEW k \in DOMAIN report.rows, report.rows[k].disposition = "omit"
               PROVE  /\ report.decision # "allowed"
                      /\ report.rows[k].reason \in DOMAIN WarningSet(report)[2]
    BY DEF OmissionIsVisible
  <2>1. RowShape(k[1], report.rows[k]) /\ HasReason(k[1], report.rows[k])
    BY <1>2, ReportParts
  <2>2. k[1] \in Projectables /\ Failing(report.rows[k]) /\ report.rows[k].reason # ""
    BY <2>1 DEF RowShape, HasReason, Failing
  <2>3. report.rows[k].reason \in DOMAIN WarningSet(report)[2]
    BY <2>2 DEF WarningSet
  <2> QED  BY <1>1, <1>2, <2>2, <2>3
<1>3. ASSUME Reported PROVE SummariesAgree
  <2> SUFFICES ASSUME NEW s \in ItemSections
               PROVE  /\ report.summaries[s] = "refuse"  => report.decision = "refused"
                      /\ report.summaries[s] = "warning" => report.decision # "allowed"
                      /\ report.summaries[s] = "pass"    =>
                           \A k \in DOMAIN report.rows :
                               k[1] = s => report.rows[k].disposition = "include"
    BY DEF SummariesAgree
  <2> DEFINE rows == Rows(req, facts)
             of   == {k \in DOMAIN rows : k[1] = s}
             fail == {k \in of : Failing(rows[k])}
  <2>1. /\ s \in Projectables /\ DOMAIN rows = DOMAIN report.rows
        /\ DOMAIN rows = Keys(req, facts)
        /\ \A k \in DOMAIN rows : rows[k] = report.rows[k] /\ rows[k] = RowOf(req, facts, k)
    BY <1>3, ReportParts DEF Rows, Projectables
  <2>2. report.summaries[s] =
           IF \E k \in fail : Required(req, facts, k) THEN "refuse"
           ELSE IF fail # {} \/ \E k \in of : rows[k].result = "degraded" THEN "warning"
           ELSE "pass"
    BY <1>3, ReportParts DEF Impact
  <2>3. ASSUME report.summaries[s] = "refuse" PROVE report.decision = "refused"
    <3>1. PICK k \in fail : Required(req, facts, k)
      BY <2>2, <2>3
    <3> QED  BY <1>3, <2>1, <3>1, ReportParts, RefusedIff DEF Refuses
  <2>4. ASSUME report.summaries[s] = "warning" PROVE report.decision # "allowed"
    <3>1. PICK k \in of : Failing(rows[k]) \/ rows[k].result = "degraded"
      BY <2>2, <2>4
    <3>2. CASE Failing(rows[k])
      BY <1>1, <1>3, <2>1, <3>2
    <3>3. CASE rows[k].result = "degraded"
      <4>1. Warns(k[1], Required(req, facts, k), RowOf(req, facts, k))
        BY <2>1, <3>3 DEF Warns
      <4> QED  BY <1>3, <2>1, <4>1, ReportParts, AllowedIff
    <3> QED  BY <3>1, <3>2, <3>3
  <2>5. ASSUME report.summaries[s] = "pass", NEW k \in DOMAIN report.rows, k[1] = s
        PROVE  report.rows[k].disposition = "include"
    <3>1. ~Failing(report.rows[k])
      BY <2>1, <2>2, <2>5
    <3>2. RowShape(s, report.rows[k])
      BY <1>3, <2>5, ReportParts
    <3> QED  BY <2>1, <3>1, <3>2 DEF RowShape, Failing
  <2> QED  BY <2>3, <2>4, <2>5
<1>4. Reported => NothingHidden
  BY <1>2, <1>3 DEF NothingHidden
<1> QED  BY <1>4, ReportedInvariant, PTL

-----------------------------------------------------------------------------
(* Less never helps *)

\* g says what f says, or that there is no evidence for it.
Weaker(f, g) ==
    /\ g.support     \in {f.support, "unknown"}
    /\ g.confidence  \in {f.confidence, "unknown"}
    /\ g.scope       \in {f.scope, "unknown"}
    /\ g.enforcement \in {f.enforcement, "unknown"}
    /\ g.judged = f.judged
    /\ g.need = f.need

\* The second row, of an item needed as q2, is at least as bad for the decision
\* as the first one, of the same item needed as q.
NoBetter(section, q, row, q2, row2) ==
    /\ Refuses(q, row) => Refuses(q2, row2)
    /\ Warns(section, q, row) => Refuses(q2, row2) \/ Warns(section, q2, row2)

\* A verdict's result is the one it was given.
LEMMA VerdictResult ==
    ASSUME NEW result, NEW reason
    PROVE  Verdict(result, reason).result = result
  BY DEF Verdict

\* An item that fails, or has not changed, looks no better.
LEMMA FailingIsNoBetter ==
    ASSUME NEW s \in Projectables, NEW q \in BOOLEAN, NEW q2 \in BOOLEAN, q => q2,
           NEW row, NEW row2, RowShape(s, row2),
           row2 = row \/ Failing(row2)
    PROVE  NoBetter(s, q, row, q2, row2)
  BY DEF NoBetter, Refuses, Warns, Failing, RowShape

\* A required verdict that fails, or has not changed, looks no better.
LEMMA VerdictNoBetter ==
    ASSUME NEW s, s \notin Projectables, NEW q \in BOOLEAN, NEW q2 \in BOOLEAN, q2,
           NEW row, NEW row2, row2 = row \/ row2.result \in {"unsatisfied", "unknown"}
    PROVE  NoBetter(s, q, row, q2, row2)
  BY DEF NoBetter, Refuses, Warns, Failing

\* An unsatisfied row is as bad as a row can be.
LEMMA UnsatisfiedNoBetter ==
    ASSUME NEW s, NEW q \in BOOLEAN, NEW q2 \in BOOLEAN, q => q2,
           NEW row, NEW row2, row2.result = "unsatisfied"
    PROVE  NoBetter(s, q, row, q2, row2)
  BY DEF NoBetter, Refuses, Warns, Failing

\* Nothing looks better than a satisfied row.
LEMMA SatisfiedNoBetter ==
    ASSUME NEW s, NEW q \in BOOLEAN, NEW q2 \in BOOLEAN,
           NEW row, row.result = "satisfied", RowShape(s, row), NEW row2
    PROVE  NoBetter(s, q, row, q2, row2)
  BY DEF NoBetter, Refuses, Warns, Failing, RowShape

\* projectable, on weaker evidence, answers the same or that there is none.
LEMMA ProjectableWeaker ==
    ASSUME NEW support, NEW support2 \in {support, "unknown"},
           NEW confidence, NEW confidence2 \in {confidence, "unknown"}, NEW blocked
    PROVE  \/ Projectable(support2, confidence2, blocked) = Projectable(support, confidence, blocked)
           \/ Failing(Projectable(support2, confidence2, blocked))
  BY DEF Projectable, NoEvidence, Omit, Failing

\* So do the rules that rest on it.
LEMMA OrdinaryWeaker ==
    ASSUME NEW f, NEW g, Weaker(f, g)
    PROVE  OrdinaryRow(g) = OrdinaryRow(f) \/ Failing(OrdinaryRow(g))
  BY DEF Weaker, OrdinaryRow, DefaultConfidence, Projectable, NoEvidence, Omit, Failing

\* The rule of each section, on weaker evidence and with a need at least as
\* strong, looks no better.
LEMMA JudgedNoBetter ==
    ASSUME NEW s \in Sections, NEW q \in BOOLEAN, NEW q2 \in BOOLEAN, q => q2,
           s \in {"activation", "permissions", "approvals", "mcp_isolation"} => q,
           NEW f, NEW g, Weaker(f, g)
    PROVE  NoBetter(s, q, JudgedRow(s, q, f), q2, JudgedRow(s, q2, g))
<1>1. CASE s = "activation"
  <2>1. ActivationRow(g) = ActivationRow(f) \/ ActivationRow(g).result = "unknown"
    BY DEF Weaker, ActivationRow, Verdict
  <2>2. JudgedRow(s, q, f) = ActivationRow(f) /\ JudgedRow(s, q2, g) = ActivationRow(g)
    BY <1>1 DEF JudgedRow
  <2>3. q2 /\ s \notin Projectables  BY <1>1 DEF Projectables, ItemSections
  <2> QED  BY <2>1, <2>2, <2>3, VerdictNoBetter
<1>2. CASE s = "sop"
  <2>1. JudgedRow(s, q, f) = SOPRow(f) /\ JudgedRow(s, q2, g) = SOPRow(g)
    BY <1>2 DEF JudgedRow
  <2>2. s \in Projectables  BY <1>2 DEF Projectables
  <2>3. SOPRow(g) = SOPRow(f) \/ Failing(SOPRow(g))
    <3>1. CASE f.judged = "unknown"  BY <3>1 DEF SOPRow, Weaker
    <3>2. CASE f.judged # "unknown" /\ SOPRow(g) = Omit("unsatisfied", "sop_not_primary")
      BY <3>2 DEF Omit, Failing
    <3>3. CASE f.judged # "unknown" /\ SOPRow(g) # Omit("unsatisfied", "sop_not_primary")
      <4>1. SOPRow(g) = OrdinaryRow(g)  BY <3>3 DEF SOPRow, Weaker
      <4>2. SOPRow(f) = OrdinaryRow(f) \/ g.support = "unknown"
        BY <3>3 DEF SOPRow, Weaker
      <4>3. g.support = "unknown" => Failing(OrdinaryRow(g))
        BY DEF OrdinaryRow, Projectable, NoEvidence, Omit, Failing
      <4> QED  BY <4>1, <4>2, <4>3, OrdinaryWeaker
    <3> QED  BY <3>1, <3>2, <3>3
  <2> QED  BY <2>1, <2>2, <2>3, JudgedShape, FailingIsNoBetter
<1>3. CASE s \in {"output_schema", "skill", "context", "hook"}
  <2>1. JudgedRow(s, q, f) = OrdinaryRow(f) /\ JudgedRow(s, q2, g) = OrdinaryRow(g)
    BY <1>3 DEF JudgedRow
  <2>2. s \in Projectables  BY <1>3 DEF Projectables, ItemSections
  <2> QED  BY <2>1, <2>2, OrdinaryWeaker, JudgedShape, FailingIsNoBetter
<1>4. CASE s = "mcp"
  <2>1. JudgedRow(s, q, f) = MCPRow(f) /\ JudgedRow(s, q2, g) = MCPRow(g)
    BY <1>4 DEF JudgedRow
  <2>2. s \in Projectables  BY <1>4 DEF Projectables, ItemSections
  <2>3. MCPRow(g) = MCPRow(f) \/ Failing(MCPRow(g))
    <3> DEFINE blocked == CASE f.judged = "disconnected"  -> "server_not_connected"
                            [] f.judged = "not_invocable" -> "acceptance_failed"
                            [] OTHER                      -> ""
    <3>1. MCPRow(f) = Projectable(f.support, f.confidence, blocked)
      BY DEF MCPRow
    <3>2. MCPRow(g) = Projectable(g.support, g.confidence, blocked)
      BY DEF MCPRow, Weaker
    <3> HIDE DEF blocked
    <3>3. g.support \in {f.support, "unknown"} /\ g.confidence \in {f.confidence, "unknown"}
      BY DEF Weaker
    <3> QED  BY <3>1, <3>2, <3>3, ProjectableWeaker
  <2> QED  BY <2>1, <2>2, <2>3, JudgedShape, FailingIsNoBetter
<1>5. CASE s \in {"context_isolation", "secret"}
  <2>1. CASE TooBroad(g.scope)
    <3>1. JudgedRow(s, q2, g).result = "unsatisfied"
      BY <1>5, <2>1 DEF JudgedRow, ContextIsolationRow, SecretRow, Verdict
    <3> QED  BY <3>1, UnsatisfiedNoBetter, JudgedShape
  <2>2. CASE ~TooBroad(g.scope)
    <3>1. ~TooBroad(f.scope)  BY <2>2 DEF Weaker, TooBroad
    <3>2. JudgedRow(s, q, f).result = "satisfied"
      BY <1>5, <3>1 DEF JudgedRow, ContextIsolationRow, SecretRow, Verdict
    <3> QED  BY <3>2, SatisfiedNoBetter, JudgedShape
  <2> QED  BY <2>1, <2>2
<1>6. CASE s = "mcp_isolation"
  <2>1. JudgedRow(s, q, f) = MCPIsolationRow(f) /\ JudgedRow(s, q2, g) = MCPIsolationRow(g)
    BY <1>6 DEF JudgedRow
  <2>2. q2 /\ s \notin Projectables  BY <1>6 DEF Projectables, ItemSections
  <2>3. \/ MCPIsolationRow(g) = MCPIsolationRow(f)
        \/ MCPIsolationRow(g).result \in {"unsatisfied", "unknown"}
    BY DEF MCPIsolationRow, Weaker, TooBroad, Verdict
  <2> QED  BY <2>1, <2>2, <2>3, VerdictNoBetter
<1>7. CASE s \in {"permissions", "approvals"}
  <2>1. JudgedRow(s, q, f) = PolicyRow(s, q, f) /\ JudgedRow(s, q2, g) = PolicyRow(s, q2, g)
    BY <1>7 DEF JudgedRow
  <2>2. q /\ q2 /\ s \notin Projectables  BY <1>7 DEF Projectables, ItemSections
  <2>3. CASE Unproven(s, q2, g)
    <3>1. PolicyRow(s, q2, g).result = "unknown"  BY <2>3 DEF PolicyRow, Verdict
    <3> QED  BY <2>1, <2>2, <3>1, VerdictNoBetter
  <2>4. CASE ~Unproven(s, q2, g)
    <3>1. ~PolicyFactMissing(g) /\ g.enforcement # "unknown"
      BY <1>7, <2>4 DEF Unproven
    <3>2. g.support = f.support /\ g.confidence = f.confidence /\ g.enforcement = f.enforcement
      BY <3>1 DEF Weaker, PolicyFactMissing
    <3>3. PolicyRow(s, q2, g) = PolicyRow(s, q, f)
      <4>1. Unproven(s, q2, g) <=> Unproven(s, q, f)
        BY <2>2, <3>2 DEF Unproven, PolicyFactMissing
      <4>2. Compared(s, q2, g) = Compared(s, q, f)
        BY <1>7, <3>2 DEF Compared, Weaker, Unenforced
      <4> QED  BY <2>2, <3>2, <4>1, <4>2 DEF PolicyRow
    <3> QED  BY <2>1, <2>2, <3>3, VerdictNoBetter
  <2> QED  BY <2>3, <2>4
<1>8. CASE s \in {"sandbox", "output_validation"}
  <2>1. JudgedRow(s, q, f) = PolicyRow(s, q, f) /\ JudgedRow(s, q2, g) = PolicyRow(s, q2, g)
    BY <1>8 DEF JudgedRow
  <2>2. s \notin Projectables  BY <1>8 DEF Projectables, ItemSections
  <2>3. CASE ~q
    <3>1. PolicyRow(s, q, f).result \in {"satisfied", "unknown"}
      BY <1>8, <2>3 DEF PolicyRow, Compared, Verdict
    <3> QED  BY <2>1, <2>2, <2>3, <3>1 DEF NoBetter, Refuses, Warns, Failing
  <2>4. CASE q /\ Unproven(s, q2, g)
    <3>1. PolicyRow(s, q2, g).result = "unknown"  BY <2>4 DEF PolicyRow, Verdict
    <3> QED  BY <2>1, <2>2, <2>4, <3>1, VerdictNoBetter
  <2>5. CASE q /\ ~Unproven(s, q2, g) /\ g.enforcement = f.enforcement
    <3>1. ~PolicyFactMissing(g)  BY <2>5 DEF Unproven
    <3>2. g.support = f.support /\ g.confidence = f.confidence
      BY <3>1 DEF Weaker, PolicyFactMissing
    <3>3. Unproven(s, q2, g) <=> Unproven(s, q, f)
      BY <2>5, <3>2 DEF Unproven, PolicyFactMissing
    <3>4. Compared(s, q2, g) = Compared(s, q, f)
      BY <1>8, <2>5 DEF Compared, Weaker, Unenforced
    <3>5. PolicyRow(s, q2, g) = PolicyRow(s, q, f)
      BY <2>5, <3>2, <3>3, <3>4 DEF PolicyRow
    <3> QED  BY <2>1, <2>2, <2>5, <3>5, VerdictNoBetter
  <2>6. CASE q /\ ~Unproven(s, q2, g) /\ g.enforcement # f.enforcement
    <3>1. g.enforcement = "unknown" /\ s = "output_validation"
      BY <1>8, <2>6 DEF Weaker, Unproven
    <3>2. s = "output_validation" =>
            Compared(s, q2, g) = IF ~q2 THEN Verdict("satisfied", "")
                                 ELSE IF g.enforcement \notin {"host_enforced", "agent2host_enforced"}
                                      THEN Verdict("unsatisfied", "acceptance_failed")
                                 ELSE Verdict("none", "")
      BY DEF Compared
    <3>3. Compared(s, q2, g).result = "unsatisfied"
      BY <2>6, <3>1, <3>2, VerdictResult
    <3>4. PolicyRow(s, q2, g) = Compared(s, q2, g)  BY <2>6, <3>3 DEF PolicyRow
    <3> QED  BY <2>1, <2>2, <2>6, <3>3, <3>4, VerdictNoBetter
  <2> QED  BY <2>3, <2>4, <2>5, <2>6
<1> QED
  BY <1>1, <1>2, <1>3, <1>4, <1>5, <1>6, <1>7, <1>8 DEF Sections, Singletons, ItemSections

\* An item whose row stays the same looks no better for being needed more.
LEMMA SameNoBetter ==
    ASSUME NEW s, NEW q \in BOOLEAN, NEW q2 \in BOOLEAN, q => q2,
           NEW row, RowShape(s, row)
    PROVE  NoBetter(s, q, row, q2, row)
  BY DEF NoBetter, Refuses, Warns, Failing, RowShape

\* The second pair of inputs asks at least as much, on evidence that says at
\* most as much.
Weakens(r, f, r2, f2) ==
    /\ DOMAIN r2 = DOMAIN r
    /\ DOMAIN f2 = DOMAIN f
    /\ \A k \in DOMAIN r : r[k] = "required" => r2[k] = "required"
    /\ \A k \in DOMAIN f : Weaker(f[k], f2[k])

\* Whether an item is needed is a yes or a no.
LEMMA RequiredIsBoolean ==
    ASSUME NEW r, NEW f, NEW k
    PROVE  Required(r, f, k) \in BOOLEAN
  BY DEF Required

\* What was needed still is.
LEMMA RequiredKept ==
    ASSUME NEW r, NEW f, NEW r2, NEW f2, Weakens(r, f, r2, f2),
           NEW k \in Keys(r, f), Required(r, f, k)
    PROVE  Required(r2, f2, k)
<1>1. CASE k \in DOMAIN r  BY <1>1 DEF Weakens, Required
<1>2. CASE k \notin DOMAIN r /\ k \in DOMAIN f
  BY <1>2 DEF Weakens, Weaker, Required
<1>3. CASE k \notin DOMAIN r /\ k \notin DOMAIN f
  <2>1. PICK s \in Singletons : k = Only(s)  BY <1>3 DEF Keys
  <2>2. k[1] \in Singletons  BY <2>1 DEF Only
  <2>3. k \notin DOMAIN r2  BY <1>3 DEF Weakens
  <2> QED  BY <1>3, <2>2, <2>3 DEF Required, Singletons
<1> QED  BY <1>1, <1>2, <1>3

\* No row looks better before contexts are left out for their isolation.
LEMMA RawNoBetter ==
    ASSUME NEW r, NEW f, NEW r2, NEW f2, Weakens(r, f, r2, f2),
           NEW k \in Keys(r, f), k \in Key
    PROVE  NoBetter(k[1], Required(r, f, k), RawRow(r, f, k),
                    Required(r2, f2, k), RawRow(r2, f2, k))
<1> DEFINE q == Required(r, f, k)
           q2 == Required(r2, f2, k)
<1>1. q \in BOOLEAN /\ q2 \in BOOLEAN  BY RequiredIsBoolean
<1>2. q => q2  BY RequiredKept
<1>3. k[1] \in Sections  BY DEF Key
<1>4. k[1] \in {"activation", "permissions", "approvals", "mcp_isolation"} => q
  BY DEF Required
<1>5. CASE k \notin DOMAIN f
  <2>1. /\ RawRow(r, f, k) = DefaultRow(k[1])
        /\ RawRow(r2, f2, k) = DefaultRow(k[1])
    BY <1>5 DEF RawRow, Weakens
  <2>2. RowShape(k[1], DefaultRow(k[1]))
    BY <1>3 DEF DefaultRow, RowShape, Verdict, Include, NoEvidence, Omit, Results,
                Projectables, ItemSections, Sections, Singletons
  <2> HIDE DEF q, q2
  <2>3. NoBetter(k[1], q, DefaultRow(k[1]), q2, DefaultRow(k[1]))
    BY <1>1, <1>2, <2>2, SameNoBetter
  <2> QED  BY <2>1, <2>3 DEF q, q2
<1>6. CASE k \in DOMAIN f
  <2>1. /\ RawRow(r, f, k) = JudgedRow(k[1], q, f[k])
        /\ RawRow(r2, f2, k) = JudgedRow(k[1], q2, f2[k])
    BY <1>6 DEF RawRow, Weakens
  <2>2. Weaker(f[k], f2[k])  BY <1>6 DEF Weakens
  <2> HIDE DEF q, q2
  <2>3. NoBetter(k[1], q, JudgedRow(k[1], q, f[k]), q2, JudgedRow(k[1], q2, f2[k]))
    BY <1>1, <1>2, <1>3, <1>4, <2>2, JudgedNoBetter
  <2> QED  BY <2>1, <2>3 DEF q, q2
<1> QED  BY <1>5, <1>6

\* A context left out for its isolation is left out on weaker evidence too.
LEMMA IsolationStillFails ==
    ASSUME NEW r, NEW f, NEW r2, NEW f2, Weakens(r, f, r2, f2),
           NEW k, IsolationFails(r, f, k)
    PROVE  IsolationFails(r2, f2, k)
<1> DEFINE iso == <<"context_isolation", k[2]>>
<1>1. k[1] = "context" /\ iso \in DOMAIN f /\ iso \in DOMAIN f2
  BY DEF IsolationFails, Weakens
<1>2. iso[1] = "context_isolation"  OBVIOUS
<1> HIDE DEF iso
<1>3. /\ RawRow(r, f, iso).result # "satisfied" => TooBroad(f[iso].scope)
      /\ TooBroad(f2[iso].scope) => RawRow(r2, f2, iso).result = "unsatisfied"
  <2>1. /\ RawRow(r, f, iso) = ContextIsolationRow(f[iso])
        /\ RawRow(r2, f2, iso) = ContextIsolationRow(f2[iso])
    BY <1>1, <1>2 DEF RawRow, JudgedRow
  <2> QED  BY <2>1, VerdictResult DEF ContextIsolationRow
<1>4. RawRow(r, f, iso).result # "satisfied"  BY DEF IsolationFails, iso
<1>5. TooBroad(f[iso].scope)  BY <1>3, <1>4
<1>6. TooBroad(f2[iso].scope)  BY <1>1, <1>5 DEF Weakens, Weaker, TooBroad
<1>7. RawRow(r2, f2, iso).result = "unsatisfied"  BY <1>3, <1>6
<1> QED  BY <1>1, <1>7 DEF IsolationFails, iso

\* No row of a report looks better.
LEMMA RowNoBetter ==
    ASSUME NEW r, NEW f, NEW r2, NEW f2, Weakens(r, f, r2, f2),
           NEW k \in Keys(r, f), k \in Key
    PROVE  NoBetter(k[1], Required(r, f, k), RowOf(r, f, k),
                    Required(r2, f2, k), RowOf(r2, f2, k))
<1>1. CASE IsolationFails(r2, f2, k)
  <2>1. RowOf(r2, f2, k).result = "unsatisfied"  BY <1>1 DEF RowOf, Omit
  <2>2. Required(r, f, k) => Required(r2, f2, k)  BY RequiredKept
  <2> QED  BY <2>1, <2>2, RequiredIsBoolean, UnsatisfiedNoBetter
<1>2. CASE ~IsolationFails(r2, f2, k)
  <2>1. ~IsolationFails(r, f, k)  BY <1>2, IsolationStillFails
  <2>2. RowOf(r, f, k) = RawRow(r, f, k) /\ RowOf(r2, f2, k) = RawRow(r2, f2, k)
    BY <1>2, <2>1 DEF RowOf
  <2> QED  BY <2>2, RawNoBetter
<1> QED  BY <1>1, <1>2

\* So the decision is at least as severe, whichever facts lost whatever evidence
\* and however many items became required (Evaluate).
THEOREM DecisionNoBetter ==
    ASSUME NEW r, NEW f, NEW r2, NEW f2, Weakens(r, f, r2, f2), Keys(r, f) \subseteq Key
    PROVE  Severity(Aggregate(r2, f2, Rows(r2, f2))) >= Severity(Aggregate(r, f, Rows(r, f)))
<1> DEFINE before == Aggregate(r, f, Rows(r, f))
           after  == Aggregate(r2, f2, Rows(r2, f2))
<1>1. Keys(r2, f2) = Keys(r, f)  BY DEF Keys, Weakens
<1>2. before \in Decisions /\ after \in Decisions  BY ThreeDecisions
<1>3. before = "refused" => after = "refused"
  <2> SUFFICES ASSUME before = "refused" PROVE after = "refused"
    OBVIOUS
  <2>1. PICK k \in Keys(r, f) : Refuses(Required(r, f, k), RowOf(r, f, k))
    BY RefusedIff
  <2>2. Refuses(Required(r2, f2, k), RowOf(r2, f2, k))
    BY <2>1, RowNoBetter DEF NoBetter
  <2> QED  BY <1>1, <2>2, RefusedIff
<1>4. after = "allowed" => before = "allowed"
  <2> SUFFICES ASSUME after = "allowed" PROVE before = "allowed"
    OBVIOUS
  <2>1. \A k \in Keys(r, f) : /\ ~Refuses(Required(r2, f2, k), RowOf(r2, f2, k))
                              /\ ~Warns(k[1], Required(r2, f2, k), RowOf(r2, f2, k))
    BY <1>1, AllowedIff
  <2>2. \A k \in Keys(r, f) : /\ ~Refuses(Required(r, f, k), RowOf(r, f, k))
                              /\ ~Warns(k[1], Required(r, f, k), RowOf(r, f, k))
    BY <2>1, RowNoBetter DEF NoBetter
  <2> QED  BY <2>2, AllowedIff
<1> HIDE DEF before, after
<1>5. Severity(after) >= Severity(before)
  BY <1>2, <1>3, <1>4 DEF Severity, Decisions
<1> QED  BY <1>5 DEF before, after

\* At every step that loses evidence, or demands more, the decision stays as
\* severe as it was.
THEOREM LessNeverHelpsAlways == Spec => LessNeverHelpsP
<1>1. Reported /\ Reported' => [LessNeverHelps]_vars
  <2> SUFFICES ASSUME Reported, Reported', LosesEvidence \/ DemandsMore
               PROVE  Severity(report'.decision) >= Severity(report.decision)
    BY DEF LessNeverHelps
  <2>1. Weakens(req, facts, req', facts')
    <3>1. CASE LosesEvidence
      <4>1. PICK k \in DOMAIN facts, field \in EvidenceFields :
              facts' = [facts EXCEPT ![k] = [@ EXCEPT ![field] = "unknown"]]
        BY <3>1 DEF LosesEvidence
      <4>2. facts[k] \in FactType  BY DEF Reported, IsAssessment
      <4> DEFINE g == [facts[k] EXCEPT ![field] = "unknown"]
      <4>3. Weaker(facts[k], g)  BY <4>2 DEF Weaker, FactType, EvidenceFields
      <4>4. facts' = [facts EXCEPT ![k] = g]  BY <4>1
      <4> HIDE DEF g
      <4>5. \A j \in DOMAIN facts : Weaker(facts[j], facts'[j])
        BY <4>3, <4>4 DEF Weaker, Reported, IsAssessment
      <4>6. DOMAIN facts' = DOMAIN facts  BY <4>4
      <4> QED  BY <3>1, <4>5, <4>6 DEF Weakens, LosesEvidence
    <3>2. CASE DemandsMore
      <4>1. PICK k \in DOMAIN req : req' = [req EXCEPT ![k] = "required"]
        BY <3>2 DEF DemandsMore
      <4>2. facts' = facts  BY <3>2 DEF DemandsMore
      <4>3. \A j \in DOMAIN facts : Weaker(facts[j], facts[j])  BY DEF Weaker
      <4>4. \A j \in DOMAIN req : req[j] = "required" => req'[j] = "required"
        BY <4>1 DEF Reported, IsRequirement
      <4> QED  BY <4>1, <4>2, <4>3, <4>4 DEF Weakens
    <3> QED  BY <3>1, <3>2
  <2>2. /\ Keys(req, facts) \subseteq Key
        /\ report.decision = Aggregate(req, facts, Rows(req, facts))
    BY ReportRows DEF Reported
  <2>3. report'.decision = Aggregate(req', facts', Rows(req', facts'))
    BY ReportRows DEF Reported
  <2> QED  BY <2>1, <2>2, <2>3, DecisionNoBetter
<1> QED  BY <1>1, ReportedInvariant, PTL DEF LessNeverHelpsP
=============================================================================
