--------------------------- MODULE EvaluateProofs ---------------------------
(***************************************************************************)
(* What holds of one row and of one report of the compatibility algebra,    *)
(* whatever the requirement and the facts are.                              *)
(***************************************************************************)
EXTENDS Evaluate, TLAPS

-----------------------------------------------------------------------------
(* One row *)

\* A well formed row: a disposition where plans key on one, "omit" for exactly
\* the failing results, and a reason wherever something fails.
RowShape(section, row) ==
    /\ row.result \in Results
    /\ section \in Projectables =>
         /\ row.disposition \in {"include", "omit"}
         /\ row.disposition = "omit" <=> row.result \in {"unsatisfied", "unknown"}
    /\ section \notin Projectables => row.disposition = ""

\* projectable always answers with a well formed row.
LEMMA ProjectableShape ==
    ASSUME NEW support, NEW confidence, NEW blocked, NEW s \in Projectables
    PROVE  RowShape(s, Projectable(support, confidence, blocked))
  BY DEF RowShape, Projectable, NoEvidence, Include, Omit, Results

\* evalPolicy always answers with a verdict.
LEMMA PolicyShape ==
    ASSUME NEW s \in {"permissions", "approvals", "sandbox", "output_validation"},
           NEW required, NEW f
    PROVE  RowShape(s, PolicyRow(s, required, f))
<1>1. s \notin Projectables  BY DEF Projectables, ItemSections
<1>2. /\ Compared(s, required, f).disposition = ""
      /\ Compared(s, required, f).result \in Results \union {"none"}
  <2>1. CASE s = "permissions"  BY <2>1 DEF Compared, Verdict, Results
  <2>2. CASE s = "approvals"    BY <2>2 DEF Compared, Verdict, Results
  <2>3. CASE s = "sandbox"      BY <2>3 DEF Compared, Verdict, Results
  <2>4. CASE s = "output_validation"  BY <2>4 DEF Compared, Verdict, Results
  <2> QED  BY <2>1, <2>2, <2>3, <2>4
<1> QED  BY <1>1, <1>2 DEF RowShape, PolicyRow, Verdict, Results

\* The rules of every section answer with a well formed row.
LEMMA JudgedShape ==
    ASSUME NEW s \in Sections, NEW required, NEW f
    PROVE  RowShape(s, JudgedRow(s, required, f))
<1>1. CASE s = "activation"
  BY <1>1 DEF JudgedRow, ActivationRow, Verdict, RowShape, Results, Projectables, ItemSections
<1>2. CASE s = "sop"
  <2>1. RowShape(s, NoEvidence) /\ RowShape(s, Omit("unsatisfied", "sop_not_primary"))
    BY <1>2 DEF RowShape, NoEvidence, Omit, Results, Projectables
  <2>2. RowShape(s, OrdinaryRow(f))
    BY <1>2, ProjectableShape DEF OrdinaryRow, Projectables
  <2> QED  BY <1>2, <2>1, <2>2 DEF JudgedRow, SOPRow
<1>3. CASE s \in {"output_schema", "skill", "context", "hook"}
  <2>1. JudgedRow(s, required, f) = OrdinaryRow(f)  BY <1>3 DEF JudgedRow
  <2> QED  BY <1>3, <2>1, ProjectableShape DEF OrdinaryRow, Projectables, ItemSections
<1>4. CASE s = "mcp"
  <2>1. JudgedRow(s, required, f) = MCPRow(f)  BY <1>4 DEF JudgedRow
  <2> QED  BY <1>4, <2>1, ProjectableShape DEF MCPRow, Projectables, ItemSections
<1>5. CASE s = "context_isolation"
  BY <1>5 DEF JudgedRow, ContextIsolationRow, Verdict, RowShape, Results, Projectables, ItemSections
<1>6. CASE s = "mcp_isolation"
  BY <1>6 DEF JudgedRow, MCPIsolationRow, Verdict, RowShape, Results, Projectables, ItemSections
<1>7. CASE s = "secret"
  BY <1>7 DEF JudgedRow, SecretRow, Verdict, RowShape, Results, Projectables, ItemSections
<1>8. CASE s \in {"permissions", "approvals", "sandbox", "output_validation"}
  <2>1. JudgedRow(s, required, f) = PolicyRow(s, required, f)  BY <1>8 DEF JudgedRow
  <2> QED  BY <1>8, <2>1, PolicyShape
<1> QED
  BY <1>1, <1>2, <1>3, <1>4, <1>5, <1>6, <1>7, <1>8 DEF Sections, Singletons, ItemSections

\* Every row of a report is well formed.
LEMMA RowOfShape ==
    ASSUME NEW r, NEW f, NEW k, k[1] \in Sections
    PROVE  RowShape(k[1], RowOf(r, f, k))
<1>1. k[1] \in Sections  OBVIOUS
<1>2. RowShape(k[1], RawRow(r, f, k))
  <2>1. RowShape(k[1], DefaultRow(k[1]))
    BY <1>1 DEF DefaultRow, RowShape, Verdict, Include, NoEvidence, Omit, Results,
                Projectables, ItemSections, Sections, Singletons
  <2> QED  BY <1>1, <2>1, JudgedShape DEF RawRow
<1>3. IsolationFails(r, f, k) => RowShape(k[1], RowOf(r, f, k))
  BY DEF IsolationFails, RowOf, RowShape, Omit, Results, Projectables, ItemSections
<1> QED  BY <1>2, <1>3 DEF RowOf

-----------------------------------------------------------------------------
(* The decision *)

\* A report is refused exactly when some required item fails.
LEMMA RefusedIff ==
    ASSUME NEW r, NEW f
    PROVE  Aggregate(r, f, Rows(r, f)) = "refused" <=>
             \E k \in Keys(r, f) : Refuses(Required(r, f, k), RowOf(r, f, k))
  BY DEF Aggregate, Rows

\* A report is plainly allowed exactly when nothing refuses and nothing warns.
LEMMA AllowedIff ==
    ASSUME NEW r, NEW f
    PROVE  Aggregate(r, f, Rows(r, f)) = "allowed" <=>
             \A k \in Keys(r, f) :
               /\ ~Refuses(Required(r, f, k), RowOf(r, f, k))
               /\ ~Warns(k[1], Required(r, f, k), RowOf(r, f, k))
  BY DEF Aggregate, Rows

\* There are three decisions.
LEMMA ThreeDecisions ==
    ASSUME NEW r, NEW f
    PROVE  Aggregate(r, f, Rows(r, f)) \in Decisions
  BY DEF Aggregate, Decisions

-----------------------------------------------------------------------------
(* What a report leaves out *)

\* Whatever plans leave out has a reason.
HasReason(section, row) ==
    section \in Projectables /\ row.disposition = "omit" => row.reason # ""

LEMMA ProjectableReason ==
    ASSUME NEW s, NEW support, NEW confidence, NEW blocked
    PROVE  HasReason(s, Projectable(support, confidence, blocked))
  BY DEF HasReason, Projectable, NoEvidence, Include, Omit

LEMMA RowOfReason ==
    ASSUME NEW r, NEW f, NEW k, k[1] \in Sections
    PROVE  HasReason(k[1], RowOf(r, f, k))
<1> DEFINE s == k[1]
<1>1. s \in Sections  OBVIOUS
<1> HIDE DEF s
<1>2. HasReason(s, DefaultRow(s))
  BY <1>1 DEF DefaultRow, HasReason, Verdict, Include, NoEvidence, Omit,
              Projectables, ItemSections, Sections, Singletons
<1>3. ASSUME NEW required, NEW fact PROVE HasReason(s, JudgedRow(s, required, fact))
  <2>1. CASE s = "sop"
    <3>1. HasReason(s, OrdinaryRow(fact))  BY ProjectableReason DEF OrdinaryRow
    <3>2. HasReason(s, NoEvidence) /\ HasReason(s, Omit("unsatisfied", "sop_not_primary"))
      BY DEF HasReason, NoEvidence, Omit
    <3> QED  BY <2>1, <3>1, <3>2 DEF JudgedRow, SOPRow
  <2>2. CASE s \in {"output_schema", "skill", "context", "hook"}
    <3>1. JudgedRow(s, required, fact) = OrdinaryRow(fact)  BY <2>2 DEF JudgedRow
    <3> QED  BY <3>1, ProjectableReason DEF OrdinaryRow
  <2>3. CASE s = "mcp"
    <3>1. JudgedRow(s, required, fact) = MCPRow(fact)  BY <2>3 DEF JudgedRow
    <3> QED  BY <3>1, ProjectableReason DEF MCPRow
  <2>4. s \notin Projectables => HasReason(s, JudgedRow(s, required, fact))
    BY DEF HasReason
  <2> QED  BY <2>1, <2>2, <2>3, <2>4 DEF Projectables, ItemSections
<1>4. HasReason(s, RawRow(r, f, k))  BY <1>2, <1>3 DEF RawRow, s
<1>5. HasReason(s, Omit("unsatisfied", "isolation_too_broad"))  BY DEF HasReason, Omit
<1> QED  BY <1>4, <1>5 DEF RowOf, s

\* A failing row of a projectable section is seen by the decision.
LEMMA FailureIsSeen ==
    ASSUME NEW s \in Projectables, NEW required, NEW row, RowShape(s, row), Failing(row)
    PROVE  Refuses(required, row) \/ Warns(s, required, row)
  BY DEF Refuses, Warns, Failing
=============================================================================
