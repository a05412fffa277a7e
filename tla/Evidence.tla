------------------------------ MODULE Evidence ------------------------------
(***************************************************************************)
(* The compatibility algebra as it is used over time: every `check` and    *)
(* every `run` builds a new report from the facts a host adapter asserts   *)
(* then.  Between two reports a host loses or gains evidence, an adapter   *)
(* stops speaking of an item, and the author of the Agent makes an item    *)
(* required or optional.  Each step is one such change.                    *)
(***************************************************************************)
EXTENDS Evaluate

CONSTANTS
    Id,          \* the names items go by within a section, "" among them
    Word,        \* the words facts are stated in
    Declared,    \* the requirements an Agent can come with: key -> need
    Asserted,    \* the facts the adapter starts from: key -> fact
    Value,       \* section -> field -> what an adapter can assert for it
    MaxChanges   \* how many changes a behaviour makes (a bound of the model)

Key == Sections \X Id

\* The fields of a fact that state evidence: "unknown" is the absence of it.
EvidenceFields == {"support", "confidence", "scope", "enforcement"}

IsRequirement(r) ==
    /\ DOMAIN r \subseteq Key
    /\ r = [k \in DOMAIN r |-> r[k]]
    /\ \A k \in DOMAIN r : r[k] \in Needs

FactType == [support : Word, confidence : Word, scope : Word,
             enforcement : Word, judged : Word, need : Needs]

IsAssessment(f) ==
    /\ DOMAIN f \subseteq Key
    /\ f = [k \in DOMAIN f |-> f[k]]
    /\ \A k \in DOMAIN f : f[k] \in FactType

ASSUME WordAssumption == "unknown" \in Word
ASSUME IdAssumption == "" \in Id
ASSUME DeclaredAssumption == \A r \in Declared : IsRequirement(r)
ASSUME AssertedAssumption == IsAssessment(Asserted)
ASSUME ValueAssumption ==
    \A s \in Sections, field \in EvidenceFields \union {"judged"} :
        Value[s][field] \subseteq Word
ASSUME MaxChangesAssumption == MaxChanges \in Nat

VARIABLES req, facts, report, changes

vars == <<req, facts, report, changes>>

Init ==
    /\ req \in Declared
    /\ facts = Asserted
    /\ report = Report(req, facts)
    /\ changes = 0

\* EvaluatePipeline: the report is built anew, and only from its two inputs.
Evaluated ==
    /\ changes < MaxChanges
    /\ changes' = changes + 1
    /\ report' = Report(req', facts')

Lose(k, field) ==
    /\ facts' = [facts EXCEPT ![k] = [@ EXCEPT ![field] = "unknown"]]
    /\ UNCHANGED req
    /\ Evaluated

Assert(k, field) ==
    /\ \E v \in Value[k[1]][field] : facts' = [facts EXCEPT ![k] = [@ EXCEPT ![field] = v]]
    /\ UNCHANGED req
    /\ Evaluated

Unsay(k) ==
    /\ facts' = [j \in DOMAIN facts \ {k} |-> facts[j]]
    /\ UNCHANGED req
    /\ Evaluated

Demand(k) ==
    /\ req[k] = "optional"
    /\ req' = [req EXCEPT ![k] = "required"]
    /\ UNCHANGED facts
    /\ Evaluated

Release(k) ==
    /\ req[k] = "required"
    /\ req' = [req EXCEPT ![k] = "optional"]
    /\ UNCHANGED facts
    /\ Evaluated

Next ==
    \/ \E k \in DOMAIN facts, field \in EvidenceFields : Lose(k, field)
    \/ \E k \in DOMAIN facts, field \in EvidenceFields \union {"judged"} : Assert(k, field)
    \/ \E k \in DOMAIN facts : Unsay(k)
    \/ \E k \in DOMAIN req : Demand(k)
    \/ \E k \in DOMAIN req : Release(k)

Spec == Init /\ [][Next]_vars
-----------------------------------------------------------------------------
\* Every row has a result, and a disposition exactly where plans key on one;
\* the decision is one of the three the report format knows.
TypeOK ==
    /\ report.decision \in Decisions
    /\ DOMAIN report.rows = Keys(req, facts)
    /\ \A k \in DOMAIN report.rows :
         /\ report.rows[k].result \in Results
         /\ report.rows[k].disposition \in
              IF k[1] \in Projectables THEN {"include", "omit"} ELSE {""}
    /\ report.summaries \in [ItemSections -> {"pass", "warning", "refuse"}]

\* What the Agent cannot do without is in the plans of every report that is not
\* refused: no required skill, context, tool, hook or output schema, and never
\* the SOP, is silently left out.
RequiredNeverOmitted ==
    report.decision # "refused" =>
        \A k \in DOMAIN report.rows :
            k[1] \in Projectables /\ Required(req, facts, k) =>
                /\ report.rows[k].disposition = "include"
                /\ report.rows[k].result \in {"satisfied", "degraded"}

\* An item is left out of the plans only with a trace: a reason in the warning
\* set, and a decision that is not a plain "allowed".
OmissionIsVisible ==
    \A k \in DOMAIN report.rows :
        report.rows[k].disposition = "omit" =>
            /\ report.decision # "allowed"
            /\ report.rows[k].reason \in DOMAIN WarningSet(report)[2]

\* The summary shown beside a collection never contradicts the decision, and is
\* computed after contexts were omitted for their isolation, not before.
SummariesAgree ==
    \A s \in ItemSections :
        /\ report.summaries[s] = "refuse"  => report.decision = "refused"
        /\ report.summaries[s] = "warning" => report.decision # "allowed"
        /\ report.summaries[s] = "pass"    =>
             \A k \in DOMAIN report.rows :
                 k[1] = s => report.rows[k].disposition = "include"

\* Whatever a report leaves out shows in each of its parts: in the row, in the
\* summary of its collection, in the warnings and in the decision, which are
\* computed one after another and by different code.
NothingHidden == OmissionIsVisible /\ SummariesAgree

\* A host whose permissions or approvals are not proven never starts an Agent:
\* with the evidence for either missing, or not spoken of, the decision refuses.
HardGatesFailClosed ==
    \A s \in {"permissions", "approvals"} :
        (Only(s) \notin DOMAIN facts \/ Unproven(s, TRUE, facts[Only(s)]))
            => report.decision = "refused"

Severity(decision) ==
    CASE decision = "allowed" -> 0
      [] decision = "allowed_with_warnings" -> 1
      [] decision = "refused" -> 2

LosesEvidence ==
    /\ req' = req
    /\ \E k \in DOMAIN facts, field \in EvidenceFields :
          facts' = [facts EXCEPT ![k] = [@ EXCEPT ![field] = "unknown"]]

DemandsMore ==
    /\ facts' = facts
    /\ \E k \in DOMAIN req : req' = [req EXCEPT ![k] = "required"]

\* Losing evidence, or demanding more, never makes a host look better: such a
\* step cannot turn a refusal into a start or a warning into silence.
LessNeverHelps ==
    LosesEvidence \/ DemandsMore =>
        Severity(report'.decision) >= Severity(report.decision)

\* As a property of every step of a behaviour.
LessNeverHelpsP == [][LessNeverHelps]_vars
=============================================================================
