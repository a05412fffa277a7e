------------------------------ MODULE Evaluate ------------------------------
(***************************************************************************)
(* internal/compatibility: the algebra that turns what a host adapter      *)
(* asserts about a host (the facts) and what the Agent declares (the       *)
(* requirement) into a compatibility report and its decision.              *)
(*                                                                         *)
(* A judged item has a key <<section, id>>; id is "" in a section that has *)
(* exactly one item.  A requirement maps keys to a need, an assessment     *)
(* maps keys to facts, a report maps keys to rows.                         *)
(*                                                                         *)
(* A fact carries the fields the algebra reads.  "judged" is the one       *)
(* comparison particular to its section: the SOP's binding from turn one,  *)
(* the permission ceiling, the approval gate, the sandbox mode against the *)
(* declared one, or what keeps an MCP tool from being called.  The         *)
(* activation mode is the "support" of the activation fact.                *)
(***************************************************************************)
EXTENDS Integers, FiniteSets

Singletons == {"activation", "sop", "output_schema",
               "permissions", "approvals", "sandbox", "output_validation"}

\* The sections whose rows carry a disposition: what Project keys on.
ItemSections == {"skill", "context", "mcp", "hook"}
Projectables == {"sop", "output_schema"} \union ItemSections

Results   == {"satisfied", "degraded", "unsatisfied", "unknown"}
Decisions == {"allowed", "allowed_with_warnings", "refused"}

Sections == Singletons \union ItemSections \union
            {"secret", "context_isolation", "mcp_isolation"}

Needs == {"required", "optional"}

Only(section) == <<section, "">>

Fact(support) ==
    [support |-> support, confidence |-> "documented", scope |-> "agent",
     enforcement |-> "host_enforced", judged |-> "", need |-> "required"]

Include(result, reason) ==
    [result |-> result, disposition |-> "include", reason |-> reason]
Omit(result, reason) ==
    [result |-> result, disposition |-> "omit", reason |-> reason]
Verdict(result, reason) ==
    [result |-> result, disposition |-> "", reason |-> reason]

NoEvidence == Omit("unknown", "insufficient_evidence")

-----------------------------------------------------------------------------
(* Rows *)

\* projectable: blocked is the specific failure's code, "" when there is none.
Projectable(support, confidence, blocked) ==
    IF confidence = "unknown" \/ support \in {"unknown", ""} THEN NoEvidence
    ELSE IF blocked # ""             THEN Omit("unsatisfied", blocked)
    ELSE IF support = "unsupported"  THEN Omit("unsatisfied", "acceptance_failed")
    ELSE IF confidence = "inferred"  THEN Include("degraded", "confidence_inferred")
    ELSE IF support = "approximate"  THEN Include("degraded", "visible_loss")
    ELSE Include("satisfied", "")

DefaultConfidence(f) ==
    IF f.confidence # "" THEN f.confidence
    ELSE IF f.support \in {"unknown", ""} THEN "unknown" ELSE "documented"

OrdinaryRow(f) == Projectable(f.support, DefaultConfidence(f), "")

ActivationRow(f) ==
    CASE f.support = "primary_native" -> Verdict("satisfied", "")
      [] f.support = "primary_mapped" -> Verdict("degraded", "mapped_activation")
      [] f.support \in {"subagent_only", "unsupported"}
                 -> Verdict("unsatisfied", "activation_not_primary")
      [] OTHER   -> Verdict("unknown", "activation_not_primary")

\* An SOP that does not apply from the first turn is not the primary Agent's.
SOPRow(f) ==
    CASE f.judged = "unknown" -> NoEvidence
      [] f.judged = "false" /\ f.support # "unknown"
                 -> Omit("unsatisfied", "sop_not_primary")
      [] OTHER   -> OrdinaryRow(f)

MCPRow(f) ==
    Projectable(f.support, f.confidence,
                CASE f.judged = "disconnected"  -> "server_not_connected"
                  [] f.judged = "not_invocable" -> "acceptance_failed"
                  [] OTHER                      -> "")

\* Mutant: a scope nobody could establish passes for the Agent's.
UnknownPasses(scope) == scope \notin {"", "agent", "unknown"}

TooBroad(scope) == scope \notin {"", "agent"}

ContextIsolationRow(f) ==
    IF TooBroad(f.scope) THEN Verdict("unsatisfied", "isolation_too_broad")
                         ELSE Verdict("satisfied", "")

MCPIsolationRow(f) ==
    IF TooBroad(f.scope) THEN Verdict("unsatisfied", "isolation_too_broad")
    ELSE IF f.enforcement \in {"unknown", ""}
         THEN Verdict("unknown", "insufficient_evidence")
    ELSE IF f.enforcement \in {"none", "prompt_only"}
         THEN Verdict("unsatisfied", "acceptance_failed")
    ELSE Verdict("satisfied", "")

SecretRow(f) ==
    IF TooBroad(f.scope) THEN Verdict("unsatisfied", "secret_scope_too_broad")
                         ELSE Verdict("satisfied", "")

PolicyFactMissing(f) ==
    f.support \in {"unknown", ""} \/ f.confidence \in {"unknown", ""}

\* evalPolicy: the checks in the order the code makes them.  Nothing the fact
\* says counts while the evidence for it is missing.
Unproven(kind, required, f) ==
    \/ PolicyFactMissing(f)
    \/ /\ f.enforcement \in {"unknown", ""}
       /\ kind \in {"permissions", "approvals"} \/ (kind = "sandbox" /\ required)

Unenforced(f) == f.enforcement \in {"prompt_only", "none"}

\* The comparison with the declaration: what it alone settles, or "none".
Compared(kind, required, f) ==
    CASE kind = "permissions" ->
           IF f.judged = "overgrant" THEN Verdict("unsatisfied", "permission_overgrant")
           ELSE IF f.judged = "unverified" THEN Verdict("degraded", "insufficient_evidence")
           ELSE Verdict("none", "")
      [] kind = "approvals" ->
           IF f.judged = "stricter" THEN Verdict("degraded", "approval_stricter")
           ELSE IF f.judged = "weaker" \/ Unenforced(f)
                THEN Verdict("unsatisfied", "approval_weaker")
           ELSE Verdict("none", "")
      [] kind = "sandbox" ->
           IF ~required THEN Verdict("satisfied", "")
           ELSE IF f.judged = "looser" \/ Unenforced(f)
                THEN Verdict("unsatisfied", "acceptance_failed")
           ELSE IF f.judged = "stricter" THEN Verdict("degraded", "sandbox_stricter")
           ELSE Verdict("none", "")
      [] kind = "output_validation" ->
           IF ~required THEN Verdict("satisfied", "")
           ELSE IF f.enforcement \notin {"host_enforced", "agent2host_enforced"}
                THEN Verdict("unsatisfied", "acceptance_failed")
           ELSE Verdict("none", "")

\* Mutant: the comparison is made before the evidence is looked at.
ComparedFirst(kind, required, f) ==
    IF Compared(kind, required, f).result # "none" THEN Compared(kind, required, f)
    ELSE IF Unproven(kind, required, f) THEN Verdict("unknown", "insufficient_evidence")
    ELSE Verdict("satisfied", "")

PolicyRow(kind, required, f) ==
    IF Unproven(kind, required, f) THEN Verdict("unknown", "insufficient_evidence")
    ELSE IF Compared(kind, required, f).result # "none" THEN Compared(kind, required, f)
    ELSE IF required /\ f.confidence = "inferred"
         THEN Verdict("unsatisfied", "insufficient_evidence")
    ELSE Verdict("satisfied", "")

\* Mutant: the output schema starts without a disposition.
DefaultUndisposed(section) ==
    CASE section = "sop" -> Include("satisfied", "")
      [] section \in ItemSections -> NoEvidence
      [] section \in {"activation", "output_schema"} -> Verdict("satisfied", "")
      [] OTHER -> Verdict("unknown", "insufficient_evidence")

\* What a report says of an item no fact speaks of.
DefaultRow(section) ==
    CASE section = "activation" -> Verdict("satisfied", "")
      [] section \in {"sop", "output_schema"} -> Include("satisfied", "")
      [] section \in ItemSections -> NoEvidence
      [] OTHER -> Verdict("unknown", "insufficient_evidence")

\* Whether a failing row refuses.  What the Agent does not list takes the
\* fact's own flag; the primary activation, the SOP, the two hard gates and the
\* visibility of MCP tools are never optional.
Required(req, facts, k) ==
    IF k[1] \in {"activation", "sop", "permissions", "approvals", "mcp_isolation"} THEN TRUE
    ELSE IF k \in DOMAIN req THEN req[k] = "required"
    ELSE IF k[1] \in {"output_schema", "sandbox", "output_validation"} THEN FALSE
    ELSE k[1] = "skill" \/ facts[k].need = "required"

JudgedRow(section, required, f) ==
    CASE section = "activation"        -> ActivationRow(f)
      [] section = "sop"               -> SOPRow(f)
      [] section \in {"output_schema", "skill", "context", "hook"} -> OrdinaryRow(f)
      [] section = "mcp"               -> MCPRow(f)
      [] section = "context_isolation" -> ContextIsolationRow(f)
      [] section = "mcp_isolation"     -> MCPIsolationRow(f)
      [] section = "secret"            -> SecretRow(f)
      [] section \in {"permissions", "approvals", "sandbox", "output_validation"}
                                       -> PolicyRow(section, required, f)

\* The row of k before contexts are omitted for their isolation.
RawRow(req, facts, k) ==
    IF k \notin DOMAIN facts THEN DefaultRow(k[1])
    ELSE JudgedRow(k[1], Required(req, facts, k), facts[k])

\* omitIsolatedContexts: a context that cannot be kept to this Agent is left out.
IsolationFails(req, facts, k) ==
    LET iso == <<"context_isolation", k[2]>>
    IN  /\ k[1] = "context"
        /\ iso \in DOMAIN facts
        /\ RawRow(req, facts, iso).result # "satisfied"

RowOf(req, facts, k) ==
    IF IsolationFails(req, facts, k)
    THEN Omit("unsatisfied", "isolation_too_broad")
    ELSE RawRow(req, facts, k)

Keys(req, facts) == {Only(s) : s \in Singletons} \union DOMAIN req \union DOMAIN facts

Rows(req, facts) == [k \in Keys(req, facts) |-> RowOf(req, facts, k)]

-----------------------------------------------------------------------------
(* The decision *)

Failing(row) == row.result \in {"unsatisfied", "unknown"}

\* Mutant: what is merely unknown does not refuse.
RefusesUnsatisfied(required, row) == required /\ row.result = "unsatisfied"

Refuses(required, row) == required /\ Failing(row)

\* An optional security row that is merely unknown does not even warn.
Warns(section, required, row) ==
    \/ row.result = "degraded"
    \/ /\ ~required
       /\ \/ row.result = "unsatisfied"
          \/ section \in Projectables /\ row.result = "unknown"
          \/ section \in Projectables /\ row.disposition = "omit" /\ row.result # "satisfied"

Aggregate(req, facts, rows) ==
    IF \E k \in DOMAIN rows : Refuses(Required(req, facts, k), rows[k])
    THEN "refused"
    ELSE IF \E k \in DOMAIN rows : Warns(k[1], Required(req, facts, k), rows[k])
         THEN "allowed_with_warnings"
         ELSE "allowed"

\* The summary a collection carries beside its items.
Impact(req, facts, rows, section) ==
    LET of   == {k \in DOMAIN rows : k[1] = section}
        fail == {k \in of : Failing(rows[k])}
    IN  IF \E k \in fail : Required(req, facts, k) THEN "refuse"
        ELSE IF fail # {} \/ \E k \in of : rows[k].result = "degraded" THEN "warning"
        ELSE "pass"

Summaries(req, facts, rows) ==
    [section \in ItemSections |-> Impact(req, facts, rows, section)]

\* Mutant: the collections are summed up before contexts are omitted.
SummarisedEarly(req, facts) ==
    LET rows == Rows(req, facts)
    IN  [rows      |-> rows,
         summaries |-> Summaries(req, facts,
                                 [k \in Keys(req, facts) |-> RawRow(req, facts, k)]),
         decision  |-> Aggregate(req, facts, rows)]

Report(req, facts) ==
    LET rows == Rows(req, facts)
    IN  [rows      |-> rows,
         summaries |-> Summaries(req, facts, rows),
         decision  |-> Aggregate(req, facts, rows)]

\* What a confirmation of warnings is tied to: the decision and how often each
\* reason is given, not which item gave it.
WarningSet(report) ==
    LET reasons == {report.rows[k].reason : k \in DOMAIN report.rows} \ {""}
    IN  <<report.decision,
          [r \in reasons |->
             Cardinality({k \in DOMAIN report.rows : report.rows[k].reason = r})]>>

\* The items of a section the plans are built from.
Included(report, section) ==
    {k[2] : k \in {k \in DOMAIN report.rows :
                     k[1] = section /\ report.rows[k].disposition = "include"}}
=============================================================================
