---------------------------- MODULE LaunchProofs ----------------------------
(***************************************************************************)
(* What `a2h check` and `a2h run` guarantee of any declaration, any command *)
(* line and any movement of the world around them.                          *)
(***************************************************************************)
EXTENDS Launch, EvaluateProofs, TLAPS

-----------------------------------------------------------------------------
(* The decision *)

\* What the algebra alone decides.
Ungated(d, host, standing) ==
    Report(Requirement(d), Assess(host, d, Found(standing))).decision

\* The gate replaces the decision and nothing else of a report.
LEMMA GateDecision ==
    ASSUME NEW d, NEW host, NEW standing, NEW strict \in BOOLEAN, NEW execute \in BOOLEAN
    PROVE  Judge(d, host, standing, strict, execute).decision =
             IF strict \/ (standing = "unverified" /\ execute) THEN "refused"
             ELSE IF standing = "unverified" /\ Ungated(d, host, standing) = "allowed"
                  THEN "allowed_with_warnings" ELSE Ungated(d, host, standing)
<1> DEFINE req == Requirement(d)
           facts == Assess(host, d, Found(standing))
<1>1. Judge(d, host, standing, strict, execute) =
        Gate(Report(req, facts), standing, strict, execute)
  BY DEF Judge
<1>2. Ungated(d, host, standing) = Report(req, facts).decision
  BY DEF Ungated
<1> HIDE DEF req, facts
<1>3. Report(req, facts) = [rows |-> Rows(req, facts),
                            summaries |-> Summaries(req, facts, Rows(req, facts)),
                            decision |-> Aggregate(req, facts, Rows(req, facts))]
  BY DEF Report
<1>4. Gate(Report(req, facts), standing, strict, execute).decision =
         IF strict \/ (standing = "unverified" /\ execute) THEN "refused"
         ELSE IF standing = "unverified" /\ Report(req, facts).decision = "allowed"
              THEN "allowed_with_warnings" ELSE Report(req, facts).decision
  BY <1>3 DEF Gate
<1> QED BY <1>1, <1>2, <1>4

\* A judgement is one of the three decisions.
LEMMA JudgeDecides ==
    ASSUME NEW d, NEW host, NEW standing, NEW strict \in BOOLEAN, NEW execute \in BOOLEAN
    PROVE  Judge(d, host, standing, strict, execute).decision \in Decisions
<1>1. Ungated(d, host, standing) \in Decisions
  BY ThreeDecisions DEF Ungated, Report
<1> QED BY <1>1, GateDecision DEF Decisions

\* Judged for execution and for a check, the decision is the same but for a
\* version outside the verified set.
LEMMA SameDecision ==
    ASSUME NEW d, NEW host, NEW standing, NEW strict \in BOOLEAN
    PROVE  Judge(d, host, standing, strict, TRUE).decision =
             IF standing = "unverified" THEN "refused"
             ELSE Judge(d, host, standing, strict, FALSE).decision
<1>1. Judge(d, host, standing, strict, TRUE).decision =
        IF strict \/ standing = "unverified" THEN "refused" ELSE Ungated(d, host, standing)
  BY GateDecision
<1>2. standing # "unverified" =>
        Judge(d, host, standing, strict, FALSE).decision =
          IF strict THEN "refused" ELSE Ungated(d, host, standing)
  BY GateDecision
<1> QED BY <1>1, <1>2

\* Judged for execution, nothing gets a kinder decision than judged for a check.
LEMMA ExecuteNeverLaxer ==
    ASSUME NEW d, NEW host, NEW standing, NEW strict \in BOOLEAN
    PROVE  Severity(Judge(d, host, standing, strict, TRUE).decision) >=
           Severity(Judge(d, host, standing, strict, FALSE).decision)
<1> DEFINE run_   == Judge(d, host, standing, strict, TRUE).decision
           check_ == Judge(d, host, standing, strict, FALSE).decision
<1>1. run_ = IF strict \/ standing = "unverified" THEN "refused"
             ELSE Ungated(d, host, standing)
  BY GateDecision
<1>2. check_ = IF strict THEN "refused"
               ELSE IF standing = "unverified" /\ Ungated(d, host, standing) = "allowed"
                    THEN "allowed_with_warnings" ELSE Ungated(d, host, standing)
  BY GateDecision
<1>3. check_ \in Decisions
  BY JudgeDecides
<1>4. /\ Severity("allowed") = 0 /\ Severity("allowed_with_warnings") = 1
      /\ Severity("refused") = 2
  BY DEF Severity
<1> HIDE DEF run_, check_
<1>5. run_ = "refused" \/ run_ = check_
  BY <1>1, <1>2
<1>6. Severity(run_) >= Severity(check_)
  BY <1>3, <1>4, <1>5 DEF Decisions
<1> QED BY <1>6 DEF run_, check_

-----------------------------------------------------------------------------
(* Types *)

LEMMA InitTypeOK == Init => TypeOK
<1> SUFFICES ASSUME Init PROVE TypeOK
  OBVIOUS
<1>1. installed \in [Hosts -> Standings]
  BY DEF Init, Standings
<1>2. cmd \in Command
  BY DEF Init, Command, Hosts
<1>3. pc \in IF cmd.kind = "check" THEN CheckSteps ELSE RunSteps
  BY DEF Init, CheckSteps, RunSteps
<1>4. commands \in 0 .. MaxCommands /\ changes \in 0 .. MaxChanges
  BY BoundAssumption DEF Init
<1>5. probe \in Standings /\ exit \in Exits
  BY DEF Init, Standings, Exits
<1> QED
  BY <1>1, <1>2, <1>3, <1>4, <1>5
  DEF Init, TypeOK, NoReport, NoAcceptance, NoAuth, NoForecast

LEMMA NextTypeOK == TypeOK /\ [Next]_vars => TypeOK'
<1> SUFFICES ASSUME TypeOK, [Next]_vars PROVE TypeOK'
  OBVIOUS
<1> USE DEF TypeOK, CheckSteps, RunSteps, Exits, world, local, Goto, Exit
<1>k. cmd.kind \in {"check", "run"}
  BY DEF Command
<1>1. CASE Start
  <2>1. cmd' \in Command
    BY <1>1, CommandAssumption DEF Start
  <2>2. commands' \in 0 .. MaxCommands
    BY <1>1, BoundAssumption DEF Start
  <2>3. probe' \in Standings
    BY <1>1 DEF Start, Standings
  <2> QED BY <1>1, <2>1, <2>2, <2>3 DEF Start, NoReport, NoAcceptance, NoAuth
<1>2. CASE RejectNativeArgs
  BY <1>2 DEF RejectNativeArgs
<1>3. CASE Resolve
  BY <1>3, <1>k DEF Resolve
<1>4. CASE Recover
  BY <1>4 DEF Recover
<1>5. CASE ResolveRoot
  BY <1>5 DEF ResolveRoot
<1>6. CASE EvaluatePipeline
  <2>0. cmd.strict \in BOOLEAN /\ (cmd.kind = "run") \in BOOLEAN
    BY DEF Command
  <2>1. report'.decision \in Decisions
    BY <1>6, <2>0, JudgeDecides DEF EvaluatePipeline
  <2>2. probe' \in Standings
    BY <1>6 DEF EvaluatePipeline, Command
  <2>3. forecast'.decision \in Decisions \union {"none"}
    BY <1>6, <2>1 DEF EvaluatePipeline
  <2>4. pc' \in IF cmd.kind = "check" THEN CheckSteps ELSE RunSteps
    BY <1>6, <1>k DEF EvaluatePipeline
  <2> QED BY <1>6, <2>1, <2>2, <2>3, <2>4 DEF EvaluatePipeline
<1>7. CASE ConfirmWarnings
  BY <1>7 DEF ConfirmWarnings, Accept
<1>8. CASE AnswerPrompt
  BY <1>8 DEF AnswerPrompt, Accept
<1>9. CASE Project
  BY <1>9, <1>k DEF Project, MintedFor
<1>10. CASE EnsureWorkRoot
  BY <1>10 DEF EnsureWorkRoot
<1>11. CASE BeginRun
  BY <1>11 DEF BeginRun
<1>12. CASE Execute
  BY <1>12 DEF Execute
<1>13. CASE HostExits
  BY <1>13 DEF HostExits
<1>14. CASE RegisterAgain
  BY <1>14, BoundAssumption DEF RegisterAgain, Moves
<1>15. CASE Unregister
  <2>1. registered' \in BOOLEAN
    BY <1>15 DEF Unregister
  <2>2. changes' \in 0 .. MaxChanges
    BY <1>15, BoundAssumption DEF Unregister, Moves
  <2>3. UNCHANGED <<agent, installed, root, pc, cmd, local, exit, commands>>
    BY <1>15 DEF Unregister, Moves
  <2> QED BY <2>1, <2>2, <2>3
<1>16. CASE ChangeHost
  <2>1. installed' \in [Hosts -> Standings]
    BY <1>16 DEF ChangeHost
  <2> QED BY <1>16, <2>1, BoundAssumption DEF ChangeHost, Moves
<1>17. CASE ChangeRoot
  BY <1>17, BoundAssumption DEF ChangeRoot, Moves
<1>18. CASE UNCHANGED vars
  BY <1>18 DEF vars
<1> QED
  BY <1>1, <1>2, <1>3, <1>4, <1>5, <1>6, <1>7, <1>8, <1>9, <1>10, <1>11, <1>12,
     <1>13, <1>14, <1>15, <1>16, <1>17, <1>18 DEF Next

\* Type correctness; with it, a check never leaves the steps of a check.
THEOREM TypeCorrect == Spec => []TypeOK
  BY InitTypeOK, NextTypeOK, PTL DEF Spec

-----------------------------------------------------------------------------
(* The inductive invariant *)

LEMMA InitLaunchInv == Init => LaunchInv
<1> SUFFICES ASSUME Init PROVE LaunchInv
  OBVIOUS
<1>1. Judged
  BY DEF Init, Judged, BeforeReport, NoReport, NoForecast
<1>2. Consented
  BY DEF Init, Consented, BeforeReport, Authorised
<1> QED BY <1>1, <1>2, InitTypeOK DEF LaunchInv

LEMMA NextJudged == TypeOK /\ Judged /\ [Next]_vars => Judged'
<1> SUFFICES ASSUME TypeOK, Judged, [Next]_vars PROVE Judged'
  OBVIOUS
<1> USE DEF Judged, BeforeReport, world, local, Goto, Exit
<1>1. CASE Start
  BY <1>1 DEF Start, NoReport
<1>2. CASE RejectNativeArgs
  BY <1>2 DEF RejectNativeArgs
<1>3. CASE Resolve
  <2>1. report.decision = "none"
    BY <1>3 DEF Resolve, NoReport
  <2>2. pc' \in {"idle", "recover", "root"} /\ UNCHANGED <<cmd, report, forecast>>
    BY <1>3 DEF Resolve
  <2>3. report = NoReport
    BY <1>3 DEF Resolve
  <2> QED BY <2>1, <2>2, <2>3
<1>4. CASE Recover
  BY <1>4 DEF Recover
<1>5. CASE ResolveRoot
  BY <1>5 DEF ResolveRoot
<1>6. CASE EvaluatePipeline
  <2>0. cmd.strict \in BOOLEAN /\ cmd.kind \in {"check", "run"}
    BY DEF TypeOK, Command
  <2>1. report' = Judge(run, cmd.host, probe', cmd.strict, cmd.kind = "run")
    BY <1>6 DEF EvaluatePipeline
  <2>3. ASSUME cmd.kind # "run"
        PROVE  report'.decision = Judge(run, cmd.host, probe', cmd.strict, FALSE).decision
    <3>1. (cmd.kind = "run") = FALSE
      BY <2>3
    <3> QED BY <2>1, <3>1
  <2>4. ASSUME cmd.kind # "run"
        PROVE  /\ forecast'.strict = cmd.strict
               /\ forecast'.decision =
                    Judge(forecast'.decl, forecast'.host, forecast'.standing,
                          forecast'.strict, FALSE).decision
    <3>1. forecast' = [decl |-> run, host |-> cmd.host, standing |-> probe',
                       strict |-> cmd.strict, decision |-> report'.decision]
      BY <1>6, <2>4 DEF EvaluatePipeline
    <3> QED BY <2>3, <2>4, <3>1
  <2>5. UNCHANGED <<cmd, run>> /\ pc' \notin BeforeReport
    BY <1>6 DEF EvaluatePipeline
  <2>7. report'.decision # "none"
    <3>1. (cmd.kind = "run") \in BOOLEAN
      OBVIOUS
    <3> QED BY <2>0, <2>1, <3>1, JudgeDecides DEF Decisions
  <2>6. cmd.kind = "run" => UNCHANGED forecast
    BY <1>6 DEF EvaluatePipeline
  <2> QED BY <2>0, <2>1, <2>4, <2>5, <2>6, <2>7
<1>7. CASE ConfirmWarnings
  BY <1>7 DEF ConfirmWarnings, Accept
<1>8. CASE AnswerPrompt
  BY <1>8 DEF AnswerPrompt, Accept
<1>9. CASE Project
  BY <1>9 DEF Project
<1>10. CASE EnsureWorkRoot
  BY <1>10 DEF EnsureWorkRoot
<1>11. CASE BeginRun
  BY <1>11 DEF BeginRun
<1>12. CASE Execute
  BY <1>12 DEF Execute
<1>13. CASE HostExits
  BY <1>13 DEF HostExits
<1>14. CASE RegisterAgain
  BY <1>14 DEF RegisterAgain, Moves
<1>15. CASE Unregister
  BY <1>15 DEF Unregister, Moves
<1>16. CASE ChangeHost
  BY <1>16 DEF ChangeHost, Moves
<1>17. CASE ChangeRoot
  BY <1>17 DEF ChangeRoot, Moves
<1>18. CASE UNCHANGED vars
  BY <1>18 DEF vars
<1> QED
  BY <1>1, <1>2, <1>3, <1>4, <1>5, <1>6, <1>7, <1>8, <1>9, <1>10, <1>11, <1>12,
     <1>13, <1>14, <1>15, <1>16, <1>17, <1>18 DEF Next

LEMMA NextConsented == TypeOK /\ Consented /\ [Next]_vars => Consented'
<1> SUFFICES ASSUME TypeOK, Consented, [Next]_vars PROVE Consented'
  OBVIOUS
<1> USE DEF Consented, BeforeReport, Authorised, world, local, Goto, Exit
<1>k. cmd.kind = "run" \/ cmd.kind = "check"
  BY DEF TypeOK, Command
<1>r. pc \in Authorised => cmd.kind = "run"
  BY <1>k DEF TypeOK, CheckSteps
<1>m. ASSUME UNCHANGED <<run, cmd, probe, report>> PROVE MintedFor(report)' = MintedFor(report)
  BY <1>m DEF MintedFor, BindingOf
<1>1. CASE Start
  BY <1>1 DEF Start
<1>2. CASE RejectNativeArgs
  BY <1>2, <1>m DEF RejectNativeArgs
<1>3. CASE Resolve
  BY <1>3, <1>m DEF Resolve
<1>4. CASE Recover
  BY <1>4, <1>m DEF Recover
<1>5. CASE ResolveRoot
  BY <1>5, <1>m DEF ResolveRoot
<1>6. CASE EvaluatePipeline
  BY <1>6 DEF EvaluatePipeline
<1>7. CASE ConfirmWarnings
  BY <1>7, <1>m DEF ConfirmWarnings, Accept
<1>8. CASE AnswerPrompt
  BY <1>8, <1>m DEF AnswerPrompt, Accept
<1>9. CASE Project
  <2>1. UNCHANGED <<run, cmd, probe, report>>
    BY <1>9 DEF Project
  <2>2. pc' \in {"idle", "ensure"}
    BY <1>9 DEF Project
  <2>3. pc' = "ensure" => auth' = MintedFor(report) /\ cmd.kind = "run"
    BY <1>9, <1>k DEF Project
  <2> QED BY <1>9, <1>m, <2>1, <2>2, <2>3 DEF Project
<1>10. CASE EnsureWorkRoot
  BY <1>10, <1>m, <1>r DEF EnsureWorkRoot
<1>11. CASE BeginRun
  BY <1>11, <1>m, <1>r DEF BeginRun
<1>12. CASE Execute
  BY <1>12, <1>m DEF Execute
<1>13. CASE HostExits
  BY <1>13, <1>m DEF HostExits
<1>14. CASE RegisterAgain
  BY <1>14, <1>m DEF RegisterAgain, Moves
<1>15. CASE Unregister
  BY <1>15, <1>m DEF Unregister, Moves
<1>16. CASE ChangeHost
  BY <1>16, <1>m DEF ChangeHost, Moves
<1>17. CASE ChangeRoot
  BY <1>17, <1>m DEF ChangeRoot, Moves
<1>18. CASE UNCHANGED vars
  BY <1>18, <1>m DEF vars
<1> QED
  BY <1>1, <1>2, <1>3, <1>4, <1>5, <1>6, <1>7, <1>8, <1>9, <1>10, <1>11, <1>12,
     <1>13, <1>14, <1>15, <1>16, <1>17, <1>18 DEF Next

LEMMA LaunchInvariant == Spec => []LaunchInv
<1>1. LaunchInv /\ [Next]_vars => LaunchInv'
  BY NextTypeOK, NextJudged, NextConsented DEF LaunchInv
<1> QED BY InitLaunchInv, <1>1, PTL DEF Spec

-----------------------------------------------------------------------------
(* What the commands guarantee *)

\* A check, a refusal and a run not agreed to make nothing.
THEOREM NoTraceOfRefusalAlways == Spec => []NoTraceOfRefusal
<1>1. LaunchInv => NoTraceOfRefusal
  BY DEF LaunchInv, Consented, NoTraceOfRefusal
<1> QED BY <1>1, LaunchInvariant, PTL

\* A host runs what was agreed to, projected from the report that was judged.
THEOREM StartsAsAgreedAlways == Spec => []StartsAsAgreed
<1>1. LaunchInv => StartsAsAgreed
  <2> SUFFICES ASSUME LaunchInv, pc = "host" PROVE StartsAsAgreed
    BY DEF StartsAsAgreed
  <2>1. cmd.kind = "run"
    BY DEF LaunchInv, TypeOK, Command, CheckSteps
  <2>2. /\ report.decision # "refused"
        /\ agreed = {WarningSet(report)}
        /\ auth = MintedFor(report)
    BY <2>1 DEF LaunchInv, Consented, Authorised
  <2>3. /\ auth.warnings = WarningSet(report)
        /\ auth.plan = Plan(cmd.host, run, report)
    BY <2>2 DEF MintedFor
  <2> QED BY <2>2, <2>3 DEF StartsAsAgreed
<1> QED BY <1>1, LaunchInvariant, PTL

\* What a check said is what a run of the same will do.
THEOREM CheckPredictsRunAlways == Spec => []CheckPredictsRun
<1>1. LaunchInv => CheckPredictsRun
  <2> SUFFICES ASSUME LaunchInv, SameQuestion
               PROVE  report.decision =
                        IF probe = "unverified" THEN "refused" ELSE forecast.decision
    BY DEF CheckPredictsRun
  <2>1. cmd.strict \in BOOLEAN
    BY DEF LaunchInv, TypeOK, Command
  <2>0. (cmd.kind = "run") = TRUE
    BY DEF SameQuestion
  <2>2. report.decision = Judge(run, cmd.host, probe, cmd.strict, TRUE).decision
    BY <2>0 DEF LaunchInv, Judged, SameQuestion
  <2>3. forecast.decision = Judge(run, cmd.host, probe, cmd.strict, FALSE).decision
    BY DEF LaunchInv, Judged, SameQuestion
  <2> QED BY <2>1, <2>2, <2>3, SameDecision
<1> QED BY <1>1, LaunchInvariant, PTL

\* A run is judged no more kindly than the check before it.
THEOREM RunNeverLaxerAlways == Spec => []RunNeverLaxer
<1>1. LaunchInv => RunNeverLaxer
  <2> SUFFICES ASSUME LaunchInv, SameQuestion
               PROVE  Severity(report.decision) >= Severity(forecast.decision)
    BY DEF RunNeverLaxer
  <2>1. cmd.strict \in BOOLEAN
    BY DEF LaunchInv, TypeOK, Command
  <2>0. (cmd.kind = "run") = TRUE
    BY DEF SameQuestion
  <2>2. report.decision = Judge(run, cmd.host, probe, cmd.strict, TRUE).decision
    BY <2>0 DEF LaunchInv, Judged, SameQuestion
  <2>3. forecast.decision = Judge(run, cmd.host, probe, cmd.strict, FALSE).decision
    BY DEF LaunchInv, Judged, SameQuestion
  <2> QED BY <2>1, <2>2, <2>3, ExecuteNeverLaxer
<1> QED BY <1>1, LaunchInvariant, PTL

-----------------------------------------------------------------------------
(* What a report that does not refuse says *)

\* The facts of a command.
FactsOf(d, host, standing) == Assess(host, d, Found(standing))

\* A judgement has the rows of the declaration, and its decision is theirs, gated.
LEMMA JudgeRows ==
    ASSUME NEW d, NEW host, NEW standing, NEW strict \in BOOLEAN, NEW execute \in BOOLEAN
    PROVE  /\ Judge(d, host, standing, strict, execute).rows =
                Rows(Requirement(d), FactsOf(d, host, standing))
           /\ Ungated(d, host, standing) =
                Aggregate(Requirement(d), FactsOf(d, host, standing),
                          Rows(Requirement(d), FactsOf(d, host, standing)))
<1> DEFINE req == Requirement(d)
           facts == FactsOf(d, host, standing)
           judged == Judge(d, host, standing, strict, execute)
<1>1. judged = Gate(Report(req, facts), standing, strict, execute)
  BY DEF Judge, FactsOf
<1>2. Ungated(d, host, standing) = Report(req, facts).decision
  BY DEF Ungated, FactsOf
<1> HIDE DEF req, facts, judged
<1>4. Report(req, facts) = [rows |-> Rows(req, facts),
                            summaries |-> Summaries(req, facts, Rows(req, facts)),
                            decision |-> Aggregate(req, facts, Rows(req, facts))]
  BY DEF Report
<1>5. judged.rows = Rows(req, facts)
  BY <1>1, <1>4 DEF Gate
<1>6. Ungated(d, host, standing) = Aggregate(req, facts, Rows(req, facts))
  BY <1>2, <1>4
<1> QED BY <1>5, <1>6 DEF req, facts, judged

\* From the projection on, the report is the judgement of this command and no
\* required item of it fails.
Admitted ==
    LET req == Requirement(run)  facts == FactsOf(run, cmd.host, probe)
    IN  /\ run \in Declaration /\ cmd.host \in Hosts
        /\ report.rows = Rows(req, facts)
        /\ report.decision \in {"allowed", "allowed_with_warnings"}
        /\ report.decision = "allowed" => Aggregate(req, facts, Rows(req, facts)) = "allowed"
        /\ \A k \in Keys(req, facts) : ~Refuses(Required(req, facts, k), RowOf(req, facts, k))

LEMMA AdmittedFromProject ==
    ASSUME LaunchInv, pc \in {"project"} \union Authorised
    PROVE  Admitted
<1> DEFINE req == Requirement(run)
           facts == FactsOf(run, cmd.host, probe)
<1>1. /\ run \in Declaration /\ cmd.host \in Hosts
      /\ cmd.strict \in BOOLEAN /\ (cmd.kind = "run") \in BOOLEAN
  BY DEF LaunchInv, TypeOK, Command
<1>2. report.decision # "refused" /\ report.decision # "none"
  BY DEF LaunchInv, Consented, Judged, Authorised, BeforeReport
<1>3. report = Judge(run, cmd.host, probe, cmd.strict, cmd.kind = "run")
  BY <1>2 DEF LaunchInv, Judged
<1>4. report.decision \in Decisions
  BY <1>1, <1>3, JudgeDecides
<1>5. /\ report.rows = Rows(req, facts)
      /\ Aggregate(req, facts, Rows(req, facts)) # "refused"
      /\ Aggregate(req, facts, Rows(req, facts)) = "allowed_with_warnings" =>
            report.decision # "allowed"
  <2>0. PICK execute \in BOOLEAN : execute = (cmd.kind = "run")
    OBVIOUS
  <2> DEFINE judged == Judge(run, cmd.host, probe, cmd.strict, execute)
  <2>1. judged.rows = Rows(req, facts)
    BY <1>1, JudgeRows
  <2>2. Ungated(run, cmd.host, probe) = Aggregate(req, facts, Rows(req, facts))
    BY <1>1, JudgeRows
  <2>3. judged.decision \in {"refused", "allowed_with_warnings", Ungated(run, cmd.host, probe)}
    BY <1>1, GateDecision
  <2>5. Ungated(run, cmd.host, probe) = "refused" => judged.decision = "refused"
    BY <1>1, GateDecision
  <2> HIDE DEF judged
  <2>4. report = judged
    BY <1>3, <2>0 DEF judged
  <2> QED BY <1>2, <2>1, <2>2, <2>3, <2>4, <2>5
<1>6. Aggregate(req, facts, Rows(req, facts)) \in Decisions
  BY ThreeDecisions
<1>7. \A k \in Keys(req, facts) : ~Refuses(Required(req, facts, k), RowOf(req, facts, k))
  BY <1>2, <1>5, RefusedIff
<1> HIDE DEF req, facts
<1>8. /\ report.decision \in {"allowed", "allowed_with_warnings"}
      /\ report.decision = "allowed" => Aggregate(req, facts, Rows(req, facts)) = "allowed"
  BY <1>2, <1>4, <1>5, <1>6 DEF Decisions
<1> QED BY <1>1, <1>5, <1>7, <1>8 DEF Admitted, req, facts

\* What is judged has facts, and its row is the row of those.
LEMMA RowOfFact ==
    ASSUME NEW d, NEW host, NEW standing, NEW k \in FactKeys(d), k[1] # "context"
    PROVE  /\ k \in Keys(Requirement(d), FactsOf(d, host, standing))
           /\ RowOf(Requirement(d), FactsOf(d, host, standing), k) =
                JudgedRow(k[1], Required(Requirement(d), FactsOf(d, host, standing), k),
                          FactOf(host, d, Found(standing), k))
<1> DEFINE facts == FactsOf(d, host, standing)
           req == Requirement(d)
<1>1. k \in DOMAIN facts /\ facts[k] = FactOf(host, d, Found(standing), k)
  BY DEF FactsOf, Assess
<1> HIDE DEF facts, req
<1>2. RowOf(req, facts, k) = RawRow(req, facts, k)
  BY DEF RowOf, IsolationFails
<1>3. RawRow(req, facts, k) =
        JudgedRow(k[1], Required(req, facts, k), FactOf(host, d, Found(standing), k))
  BY <1>1 DEF RawRow
<1>4. k \in Keys(req, facts)
  BY <1>1 DEF Keys
<1> QED BY <1>2, <1>3, <1>4 DEF facts, req

\* A host that is not there is refused: it cannot activate the Agent.
LEMMA AdmittedFound ==
    ASSUME Admitted PROVE Found(probe)
<1> SUFFICES ASSUME ~Found(probe) PROVE FALSE
  OBVIOUS
<1> DEFINE k == Only("activation")
           req == Requirement(run)
           facts == FactsOf(run, cmd.host, probe)
<1>1. k \in FactKeys(run) /\ k[1] = "activation"
  BY DEF FactKeys, Only
<1> DEFINE fact == FactOf(cmd.host, run, Found(probe), k)
           row  == RowOf(req, facts, k)
<1>2. fact = Fact("unsupported")
  BY <1>1 DEF FactOf
<1>3. k \in Keys(req, facts) /\ row = JudgedRow("activation", Required(req, facts, k), fact)
  BY <1>1, RowOfFact
<1>5. Required(req, facts, k)
  BY <1>1 DEF Required
<1>6. ~Refuses(Required(req, facts, k), row)
  BY <1>3 DEF Admitted
<1> HIDE DEF k, fact, row
<1>4. row.result = "unsatisfied"
  <2>1. fact.support = "unsupported"
    BY <1>2 DEF Fact
  <2>2. row = ActivationRow(fact)
    BY <1>3 DEF JudgedRow
  <2> QED BY <2>1, <2>2 DEF ActivationRow, Verdict
<1> QED BY <1>4, <1>5, <1>6 DEF Refuses, Failing

\* A tool belongs to a server of the declaration.
LEMMA ToolServer ==
    ASSUME NEW d, NEW id \in Tools(d) PROVE id[1] \in DOMAIN d.servers
  BY DEF Tools

\* Only what is declared is judged, and all of it is.
LEMMA DeclaredKeys ==
    ASSUME NEW d, NEW host, NEW standing
    PROVE  /\ DOMAIN Requirement(d) = RequirementKeys(d)
           /\ \A k \in Keys(Requirement(d), FactsOf(d, host, standing)) :
                /\ k[1] \in Sections
                /\ k[1] = "skill"   => k[2] \in DOMAIN d.skills
                /\ k[1] = "context" => k[2] \in DOMAIN d.contexts
                /\ k[1] = "mcp"     => k[2] \in Tools(d)
                /\ k[1] = "hook"    => k[2] \in DOMAIN d.hooks
           /\ \A s \in DOMAIN d.skills   : <<"skill", s>> \in RequirementKeys(d)
           /\ \A c \in DOMAIN d.contexts : <<"context", c>> \in RequirementKeys(d)
           /\ \A id \in Tools(d)         : <<"mcp", id>> \in RequirementKeys(d)
<1> DEFINE P(k) == /\ k[1] \in Sections
                   /\ k[1] = "skill"   => k[2] \in DOMAIN d.skills
                   /\ k[1] = "context" => k[2] \in DOMAIN d.contexts
                   /\ k[1] = "mcp"     => k[2] \in Tools(d)
                   /\ k[1] = "hook"    => k[2] \in DOMAIN d.hooks
<1>1. DOMAIN Requirement(d) = RequirementKeys(d)
  BY DEF Requirement
<1>2. DOMAIN FactsOf(d, host, standing) = FactKeys(d)
  BY DEF FactsOf, Assess
<1>3. \A s \in Singletons : P(Only(s))
  BY DEF Only, Singletons, Sections
<1>5. \A k \in RequirementKeys(d) : P(k)
  <2>1. ASSUME NEW k \in Under("skill", DOMAIN d.skills) \union
                         Under("context", DOMAIN d.contexts) PROVE P(k)
    BY DEF Under, Sections, ItemSections
  <2>2. ASSUME NEW k \in Under("mcp", Tools(d)) \union Under("hook", DOMAIN d.hooks) PROVE P(k)
    BY DEF Under, Sections, ItemSections
  <2>3. ASSUME NEW k \in Under("secret", Secrets(d)) PROVE P(k)
    BY DEF Under, Sections
  <2>4. P(Only("sandbox")) /\ P(Only("output_schema")) /\ P(Only("output_validation"))
    BY <1>3 DEF Singletons
  <2> HIDE DEF P
  <2> QED BY <2>1, <2>2, <2>3, <2>4 DEF RequirementKeys, When
<1>6. \A k \in FactKeys(d) : P(k)
  <2>1. ASSUME NEW all, NEW k \in Under("context_isolation", all) PROVE P(k)
    BY DEF Under, Sections
  <2>2. ASSUME NEW all, NEW k \in Under("mcp_isolation", all) PROVE P(k)
    BY DEF Under, Sections
  <2>3. \A s \in {"activation", "sop", "permissions", "approvals"} : P(Only(s))
    BY <1>3 DEF Singletons
  <2> HIDE DEF P
  <2> QED BY <1>5, <2>1, <2>2, <2>3 DEF FactKeys
<1>7. /\ \A s \in DOMAIN d.skills   : <<"skill", s>> \in RequirementKeys(d)
      /\ \A c \in DOMAIN d.contexts : <<"context", c>> \in RequirementKeys(d)
      /\ \A id \in Tools(d)         : <<"mcp", id>> \in RequirementKeys(d)
  BY DEF RequirementKeys, Under
<1>8. \A k \in Keys(Requirement(d), FactsOf(d, host, standing)) : P(k)
  <2> HIDE DEF P
  <2> QED BY <1>1, <1>2, <1>3, <1>5, <1>6 DEF Keys
<1> QED BY <1>1, <1>7, <1>8

-----------------------------------------------------------------------------
(* The session *)

\* What the plan of each host holds.
LEMMA PlanOf ==
    ASSUME NEW host, NEW d, NEW rep
    PROVE  /\ Plan(host, d, rep).host = host
           /\ Plan(host, d, rep).files = Files(host, d, rep)
           /\ Plan(host, d, rep).config = Config(host, d, rep)
           /\ Plan(host, d, rep).args = Args(host, d)
           /\ Plan(host, d, rep).home = Home(host)
           /\ Plan(host, d, rep).slots = Slots(host, d, rep)
           /\ Plan(host, d, rep).expands = When(host = "kiro", Configured(host, d, rep))
           /\ Plan(host, d, rep).exports = Exported(host, d)
           /\ Plan(host, d, rep).secrets = Secrets(d)
  BY DEF Plan

\* Every plan has the file of its host's controls, and that of the servers
\* where there are any.
LEMMA PlannedFiles ==
    ASSUME NEW host \in Hosts, NEW d, NEW rep
    PROVE  /\ ControlFile(host) \in Files(host, d, rep)
           /\ DOMAIN d.servers # {} => ServerFile(host) \in Files(host, d, rep)
<1>1. ControlFile(host) \in HostFiles(host, d)
  BY DEF HostFiles
<1>2. DOMAIN d.servers # {} => ServerFile(host) \in HostFiles(host, d)
  <2>1. CASE host = "claude-code"
    BY <2>1 DEF HostFiles, When
  <2>2. CASE host # "claude-code"
    BY <1>1, <2>2 DEF ServerFile
  <2> QED BY <2>1, <2>2
<1> QED BY <1>1, <1>2 DEF Files

\* A started session has the plan of a report that does not refuse.
LEMMA SessionPlan ==
    ASSUME LaunchInv, pc = "host"
    PROVE  Admitted /\ auth.plan = Plan(cmd.host, run, report) /\ agreed = {WarningSet(report)}
<1>1. Admitted
  BY AdmittedFromProject DEF Authorised
<1>2. cmd.kind = "run"
  BY DEF LaunchInv, TypeOK, Command, CheckSteps
<1>3. auth = MintedFor(report) /\ agreed = {WarningSet(report)}
  BY <1>2 DEF LaunchInv, Consented, Authorised
<1> QED BY <1>1, <1>3 DEF MintedFor

\* The effect of a tool is that of the host's own rules.
LEMMA EffectOf ==
    ASSUME NEW d, NEW rep, NEW tool
    PROVE  /\ Effect(Plan("claude-code", d, rep), tool) = ClaudeEffect(ClaudeConfig(d, rep), tool)
           /\ Effect(Plan("kiro", d, rep), tool) = KiroEffect(KiroConfig(d, rep), tool)
           /\ Effect(Plan("codex", d, rep), tool) = CodexEffect(CodexConfig(d, rep), tool)
<1>1. /\ Config("claude-code", d, rep) = ClaudeConfig(d, rep)
      /\ Config("kiro", d, rep) = KiroConfig(d, rep)
      /\ Config("codex", d, rep) = CodexConfig(d, rep)
  BY DEF Config
<1>2. /\ Effect(Plan("claude-code", d, rep), tool) =
           ClaudeEffect(Config("claude-code", d, rep), tool)
      /\ Effect(Plan("kiro", d, rep), tool) = KiroEffect(Config("kiro", d, rep), tool)
      /\ Effect(Plan("codex", d, rep), tool) = CodexEffect(Config("codex", d, rep), tool)
  BY PlanOf DEF Effect
<1> QED BY <1>1, <1>2

\* The tools a host offers: its own, as far as they are declared, and those of
\* the servers that are kept.
LEMMA OfferedTools ==
    ASSUME NEW d, NEW rep,
           NEW tool \in {Builtin("shell")} \union FileTools(d) \union WebTools(d)
                           \union ServerTools(d, rep)
    PROVE  tool = Builtin("shell") \/ tool \in Granted(d)
<1>1. FileTools(d) \subseteq Granted(d)
  BY DEF FileTools, Granted, When
<1>2. WebTools(d) \subseteq Granted(d)
  BY DEF WebTools, Granted, When
<1>3. ServerTools(d, rep) \subseteq Granted(d)
  BY DEF ServerTools, Granted
<1> QED BY <1>1, <1>2, <1>3

\* With Claude Code, what is silent is declared.
LEMMA ClaudeSession ==
    ASSUME NEW d, NEW rep, NEW tool, ClaudeEffect(ClaudeConfig(d, rep), tool) = "silent"
    PROVE  tool \in Granted(d)
<1> DEFINE c == ClaudeConfig(d, rep)
<1>1. /\ c.tools = {Builtin("shell")} \union FileTools(d) \union WebTools(d)
                      \union ServerTools(d, rep)
      /\ c.ask = When(d.shell # "never", {Builtin("shell")})
      /\ c.autoAllow = (d.shell = "never")
  BY DEF ClaudeConfig
<1> HIDE DEF c
<1>2. tool \in c.tools /\ (tool \notin c.ask \/ c.autoAllow)
  BY DEF ClaudeEffect, c
<1>3. tool = Builtin("shell") \/ tool \in Granted(d)
  BY <1>1, <1>2, OfferedTools
<1>4. CASE d.shell = "never"
  <2>1. Builtin("shell") \in Granted(d)
    BY <1>4 DEF Granted, When
  <2> QED BY <1>3, <2>1
<1>5. CASE d.shell # "never"
  <2>1. tool # Builtin("shell")
    BY <1>1, <1>2, <1>5 DEF When
  <2> QED BY <1>3, <2>1
<1> QED BY <1>4, <1>5

\* With Kiro, what is silent is both offered and allowed.
LEMMA KiroSession ==
    ASSUME NEW d, NEW rep, NEW tool, KiroEffect(KiroConfig(d, rep), tool) = "silent"
    PROVE  tool \in Granted(d)
<1> DEFINE c == KiroConfig(d, rep)
<1>1. /\ c.tools = FileTools(d) \union {Builtin("shell")} \union WebTools(d)
                      \union ServerTools(d, rep)
      /\ c.allowed = {Builtin("read")} \union ServerTools(d, rep) \union
                        When(d.shell = "never", {Builtin("shell"), Builtin("write")})
  BY DEF KiroConfig
<1> HIDE DEF c
<1>2. tool \in c.tools /\ tool \in c.allowed
  BY DEF KiroEffect, c
<1>3. tool = Builtin("shell") \/ tool \in Granted(d)
  BY <1>1, <1>2, OfferedTools
<1>4. ServerTools(d, rep) \subseteq Granted(d)
  BY DEF ServerTools, Granted
<1>5. d.shell = "never" => Builtin("shell") \in Granted(d)
  BY DEF Granted, When
<1>6. tool = Builtin("shell") => tool \in ServerTools(d, rep) \/ d.shell = "never"
  BY <1>1, <1>2 DEF When, Builtin
<1> QED BY <1>3, <1>4, <1>5, <1>6

\* With Codex, each tool is silent on its own switch.
LEMMA CodexSession ==
    ASSUME NEW d, NEW rep, NEW tool, CodexEffect(CodexConfig(d, rep), tool) = "silent"
    PROVE  tool \in Granted(d)
<1> DEFINE c == CodexConfig(d, rep)
<1>1. /\ c.approval = ApprovalFlag(d) /\ c.workspace = WorkspaceAccess(d)
      /\ c.network = (d.network = "allow") /\ c.tools = ServerTools(d, rep)
  BY DEF CodexConfig
<1> HIDE DEF c
<1>e. CodexEffect(c, tool) = "silent"
  BY DEF c
<1>2. CASE tool = Builtin("read")
  <2>1. c.workspace # "deny"
    BY <1>e, <1>2 DEF CodexEffect, Builtin
  <2> QED BY <1>1, <1>2, <2>1 DEF WorkspaceAccess, Granted, When
<1>3. CASE tool = Builtin("write")
  <2>1. c.workspace = "write"
    BY <1>e, <1>3 DEF CodexEffect, Builtin
  <2> QED BY <1>1, <1>3, <2>1 DEF WorkspaceAccess, Granted, When
<1>4. CASE tool = Builtin("web")
  <2>1. c.network
    BY <1>e, <1>4 DEF CodexEffect, Builtin
  <2> QED BY <1>1, <1>4, <2>1 DEF Granted, When
<1>5. CASE tool = Builtin("shell")
  <2>1. c.approval = "never"
    BY <1>e, <1>5 DEF CodexEffect, Builtin
  <2> QED BY <1>1, <1>5, <2>1 DEF ApprovalFlag, Granted, When
<1>6. CASE tool \notin {Builtin("read"), Builtin("write"), Builtin("web"), Builtin("shell")}
  <2>1. tool \in c.tools
    BY <1>e, <1>6 DEF CodexEffect
  <2> QED BY <1>1, <2>1 DEF ServerTools, Granted
<1> QED BY <1>2, <1>3, <1>4, <1>5, <1>6

\* Where the evidence is there, what the comparison says is the row.
LEMMA ComparisonCounts ==
    ASSUME NEW kind, NEW required \in BOOLEAN, NEW f,
           ~Unproven(kind, required, f), Compared(kind, required, f).result # "none"
    PROVE  PolicyRow(kind, required, f) = Compared(kind, required, f)
  BY DEF PolicyRow

\* Kiro is refused a declaration that requires its sandbox.
LEMMA KiroHasNoSandbox ==
    ASSUME Admitted, cmd.host = "kiro" PROVE run.sandbox.need # "required"
<1> SUFFICES ASSUME run.sandbox.need = "required" PROVE FALSE
  OBVIOUS
<1> DEFINE k == Only("sandbox")
           req == Requirement(run)
           facts == FactsOf(run, cmd.host, probe)
           fact == FactOf(cmd.host, run, Found(probe), k)
           row  == RowOf(req, facts, k)
<1>1. k \in RequirementKeys(run) /\ k \in FactKeys(run) /\ k[1] = "sandbox"
  BY DEF FactKeys, RequirementKeys, Only
<1>2. fact = SandboxFact("kiro", run, Found(probe))
  BY <1>1 DEF FactOf
<1>3. k \in Keys(req, facts) /\ row = JudgedRow("sandbox", Required(req, facts, k), fact)
  BY <1>1, RowOfFact
<1>4. Required(req, facts, k)
  <2>1. k \in DOMAIN req /\ req[k] = NeedOf(run, k)
    BY <1>1 DEF Requirement
  <2>2. NeedOf(run, k) = "required"
    BY <1>1 DEF NeedOf
  <2> QED BY <1>1, <2>1, <2>2 DEF Required
<1>5. ~Refuses(Required(req, facts, k), row)
  BY <1>3 DEF Admitted
<1>6. "sandbox" \notin Intent("kiro", run, Found(probe))
  BY DEF Intent, When
<1>7. Profile("kiro").sandboxed = "none" /\ Profile("kiro").sandbox = "unsupported"
  BY DEF Profile
<1>8. SandboxFact("kiro", run, Found(probe)) =
        [Fact("unsupported") EXCEPT !.enforcement = "none", !.judged = "looser"]
  BY <1>6, <1>7 DEF SandboxFact
<1> HIDE DEF k, fact, row
<1>9. /\ fact.support = "unsupported" /\ fact.confidence = "documented"
      /\ fact.enforcement = "none" /\ fact.judged = "looser"
  BY <1>2, <1>8 DEF Fact
<1>10. row.result = "unsatisfied"
  <2>1. row = PolicyRow("sandbox", TRUE, fact)
    BY <1>3, <1>4 DEF JudgedRow
  <2>2. ~Unproven("sandbox", TRUE, fact)
    BY <1>9 DEF Unproven, PolicyFactMissing
  <2>3. Verdict("unsatisfied", "acceptance_failed").result = "unsatisfied"
    BY DEF Verdict
  <2>4. Compared("sandbox", TRUE, fact).result = "unsatisfied"
    BY <1>9, <2>3 DEF Compared
  <2>5. row = Compared("sandbox", TRUE, fact)
    BY <2>1, <2>2, <2>4, ComparisonCounts
  <2> QED BY <2>4, <2>5
<1> QED BY <1>4, <1>5, <1>10 DEF Refuses, Failing

\* A session does silently only what the declaration grants; Kiro and Codex keep
\* a required read-only sandbox, Kiro by refusing it.
THEOREM SessionWithinDeclarationAlways == Spec => []SessionWithinDeclaration
<1>1. LaunchInv => SessionWithinDeclaration
  <2> SUFFICES ASSUME LaunchInv, pc = "host" PROVE SessionWithinDeclaration
    BY DEF SessionWithinDeclaration
  <2>1. /\ Admitted /\ cmd.host \in Hosts
        /\ auth.plan = Plan(cmd.host, run, report)
    BY SessionPlan DEF Admitted
  <2>2. ASSUME NEW tool, Effect(auth.plan, tool) = "silent" PROVE tool \in Granted(run)
    <3>1. CASE cmd.host = "claude-code"
      BY <2>1, <2>2, <3>1, EffectOf, ClaudeSession
    <3>2. CASE cmd.host = "kiro"
      BY <2>1, <2>2, <3>2, EffectOf, KiroSession
    <3>3. CASE cmd.host = "codex"
      BY <2>1, <2>2, <3>3, EffectOf, CodexSession
    <3> QED BY <2>1, <3>1, <3>2, <3>3 DEF Hosts
  <2>3. cmd.host \in {"kiro", "codex"} => ReadOnlyKept
    <3> SUFFICES ASSUME run.sandbox = [need |-> "required", mode |-> "read_only"],
                        cmd.host \in {"kiro", "codex"}
                 PROVE  Effect(auth.plan, Builtin("write")) # "silent"
      BY DEF ReadOnlyKept
    <3>0. run.sandbox.need = "required" /\ run.sandbox.mode = "read_only"
      OBVIOUS
    <3>1. cmd.host = "codex"
      BY <2>1, <3>0, KiroHasNoSandbox DEF Hosts
    <3>2. Effect(auth.plan, Builtin("write")) =
            CodexEffect(CodexConfig(run, report), Builtin("write"))
      BY <2>1, <3>1, EffectOf
    <3>3. CodexConfig(run, report).workspace # "write"
      BY <3>0 DEF CodexConfig, WorkspaceAccess
    <3>4. \A c : c.workspace # "write" => CodexEffect(c, Builtin("write")) # "silent"
      BY DEF CodexEffect, Builtin
    <3> QED BY <3>2, <3>3, <3>4
  <2> QED BY <2>2, <2>3 DEF SessionWithinDeclaration
<1> QED BY <1>1, LaunchInvariant, PTL

\* Secrets reach the files that need them and none the model may read.
THEOREM SecretsConfinedAlways == Spec => []SecretsConfined
<1>1. LaunchInv => SecretsConfined
  <2> SUFFICES ASSUME LaunchInv, pc = "host" PROVE SecretsConfined
    BY DEF SecretsConfined
  <2> DEFINE ids == Configured(cmd.host, run, report)
  <2>1. /\ cmd.host \in Hosts
        /\ auth.plan.slots = Slots(cmd.host, run, report)
        /\ auth.plan.files = Files(cmd.host, run, report)
        /\ auth.plan.secrets = Secrets(run)
        /\ auth.plan.expands = When(cmd.host = "kiro", ids)
        /\ auth.plan.exports = Exported(cmd.host, run)
    BY SessionPlan, PlanOf DEF Admitted
  <2>2. ids \subseteq Secrets(run)
    BY DEF Configured
  <2>3. CASE cmd.host = "kiro"
    <3> HIDE DEF ids
    <3>1. auth.plan.slots = {}
      BY <2>1, <2>3 DEF Slots, When
    <3>2. auth.plan.expands = ids /\ auth.plan.exports = Secrets(run)
      BY <2>1, <2>3 DEF When, Exported
    <3> QED BY <2>2, <3>1, <3>2 DEF SecretsConfined, ids
  <2>4. CASE cmd.host # "kiro"
    <3>0. ASSUME NEW id \in ids PROVE SlotFile(cmd.host, id) \in auth.plan.files
      <4>1. ControlFile(cmd.host) \in auth.plan.files
        BY <2>1, PlannedFiles
      <4>2. id[1][1] = "server" => ServerFile(cmd.host) \in auth.plan.files
        <5> SUFFICES ASSUME id[1][1] = "server"
                     PROVE  ServerFile(cmd.host) \in auth.plan.files
          OBVIOUS
        <5>1. id[1][2] \in DOMAIN run.servers \/ id[1][1] = "hook"
          BY DEF Configured, KeptServers
        <5>2. DOMAIN run.servers # {}
          BY <5>1
        <5> QED BY <2>1, <5>2, PlannedFiles
      <4> QED BY <4>1, <4>2 DEF SlotFile
    <3> HIDE DEF ids
    <3>1. auth.plan.slots = {<<SlotFile(cmd.host, id), id>> : id \in ids}
      BY <2>1, <2>4 DEF Slots, When, ids
    <3>2. \A id : ~ModelReadable(cmd.host, SlotFile(cmd.host, id))
      BY <2>1, <2>4 DEF ModelReadable, SlotFile, ServerFile, ControlFile, Hosts
    <3>3. ASSUME NEW slot \in auth.plan.slots
          PROVE  /\ slot[1] \in auth.plan.files /\ slot[2] \in auth.plan.secrets
                 /\ ~ModelReadable(cmd.host, slot[1])
      <4>1. PICK id \in ids : slot = <<SlotFile(cmd.host, id), id>>
        BY <3>1
      <4>2. slot[1] = SlotFile(cmd.host, id) /\ slot[2] = id
        BY <4>1
      <4> QED BY <2>1, <2>2, <3>0, <3>2, <4>2
    <3>4. \A id \in ids : \E slot \in auth.plan.slots : slot[2] = id
      <4> SUFFICES ASSUME NEW id \in ids PROVE \E slot \in auth.plan.slots : slot[2] = id
        OBVIOUS
      <4>1. <<SlotFile(cmd.host, id), id>> \in auth.plan.slots
        BY <3>1
      <4> QED BY <4>1
    <3> QED BY <3>3, <3>4 DEF SecretsConfined, ids
  <2> QED BY <2>3, <2>4
<1> QED BY <1>1, LaunchInvariant, PTL

\* What a host cannot prove of the network degrades the permissions.
LEMMA UnprovenFact ==
    ASSUME NEW d, NEW host, SessionNetwork(host, d) = "unknown"
    PROVE  PermissionsFact(host, d, TRUE) =
             [Fact("approximate") EXCEPT !.enforcement = "host_enforced",
                                         !.judged = "unverified"]
<1>1. d.network # "allow"
  BY DEF SessionNetwork
<1>2. Ceiling(d.network = "allow", SessionNetwork(host, d)) = "unverified"
  BY <1>1 DEF Ceiling
<1> QED BY <1>1, <1>2 DEF PermissionsFact

\* A reason some row of the report gives is among its warnings.
LEMMA ReasonGiven ==
    ASSUME NEW rep, NEW k \in DOMAIN rep.rows, rep.rows[k].reason # ""
    PROVE  /\ WarningSet(rep)[1] = rep.decision
           /\ rep.rows[k].reason \in DOMAIN WarningSet(rep)[2]
  BY DEF WarningSet

\* What degrades a row of a session's report was said to its user.
LEMMA DegradedIsSaid ==
    ASSUME LaunchInv, pc = "host", NEW k \in FactKeys(run), k[1] \in Sections,
           NEW reason, reason # "",
           LET row == RowOf(Requirement(run), FactsOf(run, cmd.host, probe), k)
           IN  row.result = "degraded" /\ row.reason = reason
    PROVE  Said(reason)
<1> DEFINE req == Requirement(run)
           facts == FactsOf(run, cmd.host, probe)
           row == RowOf(req, facts, k)
<1>1. /\ report.decision \in {"allowed", "allowed_with_warnings"}
      /\ report.decision = "allowed" => Aggregate(req, facts, Rows(req, facts)) = "allowed"
      /\ report.rows = Rows(req, facts)
      /\ agreed = {WarningSet(report)}
  BY SessionPlan DEF Admitted
<1>2. k \in DOMAIN facts
  BY DEF FactsOf, Assess
<1> HIDE DEF req, facts
<1>3. k \in Keys(req, facts)
  BY <1>2 DEF Keys
<1>4. k \in DOMAIN report.rows /\ report.rows[k] = row
  BY <1>1, <1>3 DEF Rows
<1>5. row.result = "degraded" /\ row.reason = reason
  BY DEF req, facts
<1> HIDE DEF row
<1>6. Warns(k[1], Required(req, facts, k), row)
  BY <1>5 DEF Warns
<1>7. report.decision = "allowed_with_warnings"
  BY <1>1, <1>3, <1>6, AllowedIff DEF row
<1>8. /\ WarningSet(report)[1] = "allowed_with_warnings"
      /\ reason \in DOMAIN WarningSet(report)[2]
  BY <1>4, <1>5, <1>7, ReasonGiven
<1> QED BY <1>1, <1>8 DEF Said

\* The network a host cannot prove it denies is said.
LEMMA UnprovenIsSaid ==
    ASSUME LaunchInv, pc = "host", SessionNetwork(cmd.host, run) = "unknown"
    PROVE  Said("insufficient_evidence")
<1> DEFINE k == Only("permissions")
           req == Requirement(run)
           facts == FactsOf(run, cmd.host, probe)
           fact == FactOf(cmd.host, run, Found(probe), k)
           row  == RowOf(req, facts, k)
<1>1. Found(probe) = TRUE
  BY SessionPlan, AdmittedFound DEF Found
<1>2. k \in FactKeys(run) /\ k[1] = "permissions" /\ k[1] \in Sections
  BY DEF FactKeys, Only, Sections, Singletons
<1>3. fact = PermissionsFact(cmd.host, run, TRUE)
  BY <1>1, <1>2 DEF FactOf
<1>4. row = JudgedRow("permissions", Required(req, facts, k), fact)
  BY <1>2, RowOfFact
<1>5. Required(req, facts, k)
  BY <1>2 DEF Required
<1> HIDE DEF fact
<1>6. /\ fact.support = "approximate" /\ fact.confidence = "documented"
      /\ fact.enforcement = "host_enforced" /\ fact.judged = "unverified"
  <2>1. fact = [Fact("approximate") EXCEPT !.enforcement = "host_enforced",
                                           !.judged = "unverified"]
    BY <1>3, UnprovenFact
  <2> QED BY <2>1 DEF Fact
<1> HIDE DEF row
<1>7. row.result = "degraded" /\ row.reason = "insufficient_evidence"
  <2>1. row = PolicyRow("permissions", TRUE, fact)
    BY <1>4, <1>5 DEF JudgedRow
  <2>2. ~Unproven("permissions", TRUE, fact)
    BY <1>6 DEF Unproven, PolicyFactMissing
  <2>3. Compared("permissions", TRUE, fact) = Verdict("degraded", "insufficient_evidence")
    BY <1>6 DEF Compared
  <2>4. /\ Verdict("degraded", "insufficient_evidence").result = "degraded"
        /\ Verdict("degraded", "insufficient_evidence").reason = "insufficient_evidence"
    BY DEF Verdict
  <2> QED BY <2>1, <2>2, <2>3, <2>4, ComparisonCounts
<1> QED BY <1>2, <1>7, DegradedIsSaid DEF row

\* Claude Code and Kiro have every hook that is declared.
LEMMA HooksKept ==
    ASSUME LaunchInv, pc = "host", cmd.host # "codex"
    PROVE  DOMAIN run.hooks \subseteq auth.plan.config.hooks
<1> DEFINE req == Requirement(run)
           facts == FactsOf(run, cmd.host, probe)
<1>1. /\ auth.plan.config = Config(cmd.host, run, report) /\ cmd.host \in Hosts
      /\ report.rows = Rows(req, facts) /\ Found(probe) = TRUE
  BY SessionPlan, PlanOf, AdmittedFound DEF Admitted, Found
<1>2. auth.plan.config.hooks = Kept(report, "hook", DOMAIN run.hooks)
  <2>1. CASE cmd.host = "claude-code"
    BY <1>1, <2>1 DEF Config, ClaudeConfig
  <2>2. CASE cmd.host = "kiro"
    BY <1>1, <2>2 DEF Config, KiroConfig
  <2> QED BY <1>1, <2>1, <2>2 DEF Hosts
<1>3. ASSUME NEW h \in DOMAIN run.hooks PROVE h \in Included(report, "hook")
  <2> DEFINE k == <<"hook", h>>
             fact == FactOf(cmd.host, run, Found(probe), k)
             row == RowOf(req, facts, k)
  <2>1. k \in FactKeys(run) /\ k[1] = "hook" /\ k[2] = h
    BY DEF FactKeys, RequirementKeys, Under
  <2>2. k \in Keys(req, facts) /\ row = JudgedRow("hook", Required(req, facts, k), fact)
    BY <2>1, RowOfFact
  <2>3. fact = Fact("mapped")
    BY <1>1, <2>1 DEF FactOf, Profile, Hosts
  <2>4. k \in DOMAIN report.rows /\ report.rows[k] = row
    BY <1>1, <2>2 DEF Rows
  <2> HIDE DEF fact, row
  <2>5. row.disposition = "include"
    <3>1. fact.support = "mapped" /\ fact.confidence = "documented"
      BY <2>3 DEF Fact
    <3>2. row = Include("satisfied", "")
      BY <2>2, <3>1 DEF JudgedRow, OrdinaryRow, DefaultConfidence, Projectable
    <3> QED BY <3>2 DEF Include
  <2> QED BY <2>1, <2>4, <2>5 DEF Included
<1> QED BY <1>2, <1>3 DEF Kept

\* The hooks Codex is not given are said.
LEMMA LossIsSaid ==
    ASSUME LaunchInv, pc = "host", cmd.host = "codex", NEW h \in DOMAIN run.hooks
    PROVE  Said("visible_loss")
<1> DEFINE k == <<"hook", h>>
           req == Requirement(run)
           facts == FactsOf(run, cmd.host, probe)
           fact == FactOf(cmd.host, run, Found(probe), k)
           row  == RowOf(req, facts, k)
<1>1. Found(probe) = TRUE
  BY SessionPlan, AdmittedFound DEF Found
<1>2. k \in FactKeys(run) /\ k[1] = "hook" /\ k[1] \in Sections
  BY DEF FactKeys, RequirementKeys, Under, Sections, ItemSections
<1>3. fact = Fact("approximate")
  BY <1>1, <1>2 DEF FactOf, Profile
<1>4. row = JudgedRow("hook", Required(req, facts, k), fact)
  BY <1>2, RowOfFact
<1> HIDE DEF fact, row
<1>5. row.result = "degraded" /\ row.reason = "visible_loss"
  <2>1. fact.support = "approximate" /\ fact.confidence = "documented"
    BY <1>3 DEF Fact
  <2>2. row = Include("degraded", "visible_loss")
    BY <1>4, <2>1 DEF JudgedRow, OrdinaryRow, DefaultConfidence, Projectable
  <2> QED BY <2>2 DEF Include
<1> QED BY <1>2, <1>5, DegradedIsSaid DEF row

\* Nobody starts a session unwarned of what it falls short of.
THEOREM ShortfallIsSaidAlways == Spec => []ShortfallIsSaid
<1>1. LaunchInv => ShortfallIsSaid
  <2> SUFFICES ASSUME LaunchInv, pc = "host" PROVE ShortfallIsSaid
    BY DEF ShortfallIsSaid
  <2>1. SessionNetwork(cmd.host, run) = "unknown" => Said("insufficient_evidence")
    BY UnprovenIsSaid
  <2>2. DOMAIN run.hooks \ auth.plan.config.hooks # {} => Said("visible_loss")
    <3>1. CASE cmd.host = "codex"
      BY <3>1, LossIsSaid
    <3>2. CASE cmd.host # "codex"
      BY <3>2, HooksKept
    <3> QED BY <3>1, <3>2
  <2> QED BY <2>1, <2>2 DEF ShortfallIsSaid
<1> QED BY <1>1, LaunchInvariant, PTL

-----------------------------------------------------------------------------
(* What is included *)

\* What a report that does not refuse requires and projects, it includes.
LEMMA RequiredIncluded ==
    ASSUME Admitted, NEW k \in RequirementKeys(run), k[1] \in ItemSections,
           NeedOf(run, k) = "required"
    PROVE  k[2] \in Included(report, k[1]) /\ k \in DOMAIN report.rows
<1> DEFINE req == Requirement(run)
           facts == FactsOf(run, cmd.host, probe)
           row == RowOf(req, facts, k)
<1>1. k \in DOMAIN req /\ req[k] = "required"
  BY DEF Requirement
<1>2. k \in Keys(req, facts)
  BY <1>1 DEF Keys
<1>3. Required(req, facts, k)
  BY <1>1 DEF Required, ItemSections
<1>4. k[1] \in Sections /\ k[1] \in Projectables
  BY DEF Sections, Projectables
<1>5. ~Failing(row)
  BY <1>2, <1>3 DEF Admitted, Refuses
<1>6. RowShape(k[1], row)
  BY <1>4, RowOfShape
<1>7. k \in DOMAIN report.rows /\ report.rows[k] = row
  BY <1>2 DEF Admitted, Rows
<1> HIDE DEF row
<1>8. row.disposition = "include"
  BY <1>4, <1>5, <1>6 DEF RowShape, Failing
<1> QED BY <1>7, <1>8 DEF Included

\* The tools a kept server has are not denied, on any host.
LEMMA OfferedNotDenied ==
    ASSUME NEW d \in Declaration, NEW host \in Hosts, NEW rep, NEW id \in ServerTools(d, rep)
    PROVE  Effect(Plan(host, d, rep), id) # "deny"
<1>1. \A b : id # Builtin(b)
  <2>1. id[1] \in DOMAIN d.servers
    BY ToolServer DEF ServerTools
  <2>2. "" \notin DOMAIN d.servers
    BY DeclarationAssumption
  <2>3. ASSUME NEW b, id = Builtin(b) PROVE FALSE
    <3>1. id[1] = ""
      BY <2>3 DEF Builtin
    <3> QED BY <2>1, <2>2, <3>1
  <2> QED BY <2>3
<1>2. CASE host = "claude-code"
  <2>1. id \in ClaudeConfig(d, rep).tools
    BY DEF ClaudeConfig
  <2>2. id \notin ClaudeConfig(d, rep).deny
    BY <1>1 DEF ClaudeConfig
  <2>3. ClaudeEffect(ClaudeConfig(d, rep), id) # "deny"
    BY <2>1, <2>2 DEF ClaudeEffect
  <2> QED BY <1>2, <2>3, EffectOf
<1>3. CASE host = "kiro"
  <2>1. id \in KiroConfig(d, rep).tools
    BY DEF KiroConfig
  <2>2. KiroEffect(KiroConfig(d, rep), id) # "deny"
    BY <2>1 DEF KiroEffect
  <2> QED BY <1>3, <2>2, EffectOf
<1>4. CASE host = "codex"
  <2>1. id \in CodexConfig(d, rep).tools
    BY DEF CodexConfig
  <2>2. CodexEffect(CodexConfig(d, rep), id) # "deny"
    BY <1>1, <2>1 DEF CodexEffect
  <2> QED BY <1>4, <2>2, EffectOf
<1> QED BY <1>2, <1>3, <1>4 DEF Hosts

\* A started session has everything the declaration requires.
THEOREM RequiredIsOfferedAlways == Spec => []RequiredIsOffered
<1>1. LaunchInv => RequiredIsOffered
  <2> SUFFICES ASSUME LaunchInv, pc = "host" PROVE RequiredIsOffered
    BY DEF RequiredIsOffered
  <2>1. /\ Admitted /\ cmd.host \in Hosts /\ run \in Declaration
        /\ auth.plan = Plan(cmd.host, run, report)
        /\ auth.plan.files = Files(cmd.host, run, report)
    BY SessionPlan, PlanOf DEF Admitted
  <2>2. ASSUME NEW s \in DOMAIN run.skills, run.skills[s].need = "required"
        PROVE  <<"skill", s>> \in auth.plan.files
    <3> DEFINE k == <<"skill", s>>
    <3>1. k \in RequirementKeys(run)
      BY DeclaredKeys
    <3>2. k[1] = "skill" /\ k[2] = s /\ k[1] \in ItemSections
      BY DEF ItemSections
    <3>3. NeedOf(run, k) = "required"
      BY <2>2 DEF NeedOf
    <3>4. s \in Included(report, "skill")
      BY <2>1, <3>1, <3>2, <3>3, RequiredIncluded
    <3> QED BY <2>1, <3>4 DEF Files, Under
  <2>3. ASSUME NEW c \in DOMAIN run.contexts, run.contexts[c].need = "required"
        PROVE  <<"context", c>> \in auth.plan.files
    <3> DEFINE k == <<"context", c>>
    <3>1. k \in RequirementKeys(run)
      BY DeclaredKeys
    <3>2. k[1] = "context" /\ k[2] = c /\ k[1] \in ItemSections
      BY DEF ItemSections
    <3>3. NeedOf(run, k) = "required"
      BY <2>3 DEF NeedOf
    <3>4. c \in Included(report, "context")
      BY <2>1, <3>1, <3>2, <3>3, RequiredIncluded
    <3> QED BY <2>1, <3>4 DEF Files, Under
  <2>4. ASSUME NEW id \in Tools(run), ToolNeed(run, id) = "required"
        PROVE  Effect(auth.plan, id) # "deny"
    <3> DEFINE k == <<"mcp", id>>
    <3>1. k \in RequirementKeys(run)
      BY DeclaredKeys
    <3>2. k[1] = "mcp" /\ k[2] = id /\ k[1] \in ItemSections
      BY DEF ItemSections
    <3>3. NeedOf(run, k) = "required"
      BY <2>4 DEF NeedOf
    <3>4. id \in Included(report, "mcp")
      BY <2>1, <3>1, <3>2, <3>3, RequiredIncluded
    <3>5. id \in ServerTools(run, report)
      BY <3>4, ToolServer DEF ServerTools, KeptServers
    <3> QED BY <2>1, <3>5, OfferedNotDenied
  <2> QED BY <2>2, <2>3, <2>4 DEF RequiredIsOffered
<1> QED BY <1>1, LaunchInvariant, PTL

-----------------------------------------------------------------------------
(* The projection *)

\* A report includes nothing that is not declared.
LEMMA IncludedDeclared ==
    ASSUME Admitted
    PROVE  /\ Included(report, "skill") \subseteq DOMAIN run.skills
           /\ Included(report, "mcp") \subseteq Tools(run)
           /\ Included(report, "hook") \subseteq DOMAIN run.hooks
<1>1. DOMAIN report.rows = Keys(Requirement(run), FactsOf(run, cmd.host, probe))
  BY DEF Admitted, Rows
<1>2. ASSUME NEW s, NEW i \in Included(report, s)
      PROVE  \E k \in DOMAIN report.rows : k[1] = s /\ k[2] = i
  BY DEF Included
<1> QED BY <1>1, <1>2, DeclaredKeys

\* The controls an intent may promise, and when it promises MCP.
Controls == {"permissions", "approvals", "isolation", "sandbox", "mcp", "hook"}

LEMMA IntentControls ==
    ASSUME NEW d, NEW host
    PROVE  /\ Intent(host, d, TRUE) \subseteq Controls
           /\ "mcp" \in Intent(host, d, TRUE) <=> DOMAIN d.servers # {}
           /\ "hook" \in Intent(host, d, TRUE) <=> HooksPlanned(host, d)
<1>1. Intent(host, d, TRUE) =
        {"permissions", "approvals", "isolation"} \union When(host # "kiro", {"sandbox"})
          \union When(DOMAIN d.servers # {}, {"mcp"})
          \union When(HooksPlanned(host, d), {"hook"})
  BY DEF Intent, When
<1> QED BY <1>1 DEF When, Controls

\* Every plan realises the controls promised for it.
LEMMA PromiseKept ==
    ASSUME NEW host \in Hosts, NEW d, NEW rep, NEW c \in Controls,
           c = "mcp" => DOMAIN d.servers # {}
    PROVE  Realised(Plan(host, d, rep), c)
<1> DEFINE plan == Plan(host, d, rep)
<1>1. /\ plan.host = host /\ plan.home = Home(host) /\ plan.args = Args(host, d)
      /\ ControlFile(host) \in plan.files
      /\ DOMAIN d.servers # {} => ServerFile(host) \in plan.files
  BY PlanOf, PlannedFiles
<1>2. "--ask-for-approval" \in Args("codex", d)
  BY DEF Args
<1> HIDE DEF plan
<1>3. c = "isolation" => Realised(plan, c)
  BY <1>1 DEF Realised
<1>4. c = "approvals" => Realised(plan, c)
  BY <1>1, <1>2 DEF Realised
<1>5. c = "mcp" => Realised(plan, c)
  BY <1>1 DEF Realised
<1>6. c \notin {"isolation", "approvals", "mcp"} => Realised(plan, c)
  BY <1>1 DEF Realised
<1> QED BY <1>3, <1>4, <1>5, <1>6 DEF plan

\* No host is launched past its own safeguards.
LEMMA PlanSafe ==
    ASSUME NEW host \in Hosts, NEW d, NEW rep PROVE LaunchSafe(Plan(host, d, rep))
<1>1. Args(host, d) \subseteq {"--agent", "--settings", "--add-dir", "--strict-mcp-config",
                               "--disable", "--ask-for-approval"}
  <2>1. CASE host = "claude-code"  BY <2>1 DEF Args, When
  <2>2. CASE host = "kiro"         BY <2>2 DEF Args
  <2>3. CASE host = "codex"        BY <2>3 DEF Args
  <2> QED BY <2>1, <2>2, <2>3 DEF Hosts
<1>2. Args(host, d) \intersect Bypasses = {}
  BY <1>1 DEF Bypasses
<1> QED BY <1>2, PlanOf DEF LaunchSafe

\* The plan of each host passes its own comparison with the declaration.
LEMMA PlanMatches ==
    ASSUME NEW host \in Hosts, NEW d, NEW rep
    PROVE  Matches(d, Intent(host, d, TRUE), rep, Plan(host, d, rep))
<1> DEFINE plan == Plan(host, d, rep)
           intent == Intent(host, d, TRUE)
<1>1. /\ plan.host = host /\ plan.home = Home(host) /\ plan.args = Args(host, d)
      /\ plan.config = Config(host, d, rep) /\ ControlFile(host) \in plan.files
  BY PlanOf, PlannedFiles
<1>5. "mcp" \in intent => DOMAIN d.servers # {}
  BY IntentControls
<1> HIDE DEF plan, intent
<1>2. CASE host = "claude-code"
  <2>1. plan.home = "auth_profile" /\ <<"settings", "">> \in plan.files
    BY <1>1, <1>2 DEF Home, ControlFile
  <2>2. /\ "--settings" \in plan.args /\ "--agent" \in plan.args
        /\ "mcp" \in intent => "--strict-mcp-config" \in plan.args
    BY <1>1, <1>2, <1>5 DEF Args, When
  <2>3. plan.config = ClaudeConfig(d, rep)
    BY <1>1, <1>2 DEF Config
  <2>4. ClaudeConfig(d, rep).sandboxed /\ ClaudeConfig(d, rep).autoAllow = (d.shell = "never")
    BY DEF ClaudeConfig
  <2>5. ClaudeMatches(d, intent, rep, plan)
    BY <2>1, <2>2, <2>3, <2>4 DEF ClaudeMatches
  <2> QED BY <1>1, <1>2, <2>5 DEF Matches, plan, intent
<1>3. CASE host = "kiro"
  <2>1. plan.home = "workspace" /\ <<"agent", "">> \in plan.files
    BY <1>1, <1>3 DEF Home, ControlFile
  <2>2. plan.config = KiroConfig(d, rep)
    BY <1>1, <1>3 DEF Config
  <2>3. KiroConfig(d, rep).denyByDefault = (d.shell = "always")
    BY DEF KiroConfig
  <2>4. KiroMatches(d, intent, rep, plan)
    BY <2>1, <2>2, <2>3 DEF KiroMatches
  <2> QED BY <1>1, <1>3, <2>4 DEF Matches, plan, intent
<1>4. CASE host = "codex"
  <2>1. plan.home = "private" /\ <<"config", "">> \in plan.files
    BY <1>1, <1>4 DEF Home, ControlFile
  <2>2. "--sandbox" \notin plan.args /\ "--ask-for-approval" \in plan.args
    BY <1>1, <1>4 DEF Args
  <2>3. plan.config = CodexConfig(d, rep)
    BY <1>1, <1>4 DEF Config
  <2>4. /\ CodexConfig(d, rep).approval = ApprovalFlag(d)
        /\ CodexConfig(d, rep).workspace = WorkspaceAccess(d)
        /\ CodexConfig(d, rep).network = (d.network = "allow")
    BY DEF CodexConfig
  <2>5. CodexMatches(d, plan)
    BY <2>1, <2>2, <2>3, <2>4 DEF CodexMatches
  <2> QED BY <1>1, <1>4, <2>5 DEF Matches, plan, intent
<1> QED BY <1>2, <1>3, <1>4 DEF Hosts

\* What evaluation admits projects: no command ends in an internal error there.
THEOREM AdmittedProjectsAlways == Spec => []AdmittedProjects
<1>1. LaunchInv => AdmittedProjects
  <2> SUFFICES ASSUME LaunchInv, pc = "project" PROVE ProjectSucceeds
    BY DEF AdmittedProjects
  <2> DEFINE intent == Intent(cmd.host, run, TRUE)
             plan == Plan(cmd.host, run, report)
  <2>1. Admitted /\ cmd.host \in Hosts /\ run \in Declaration
    BY AdmittedFromProject DEF Admitted
  <2>2. Found(probe) = TRUE
    BY <2>1, AdmittedFound DEF Found
  <2>3. /\ intent \subseteq Controls
        /\ "mcp" \in intent <=> DOMAIN run.servers # {}
        /\ "hook" \in intent <=> HooksPlanned(cmd.host, run)
    BY IntentControls
  <2>4. \A c \in intent : Realised(plan, c)
    BY <2>1, <2>3, PromiseKept
  <2>5. /\ Included(report, "skill") \subseteq DOMAIN run.skills
        /\ Included(report, "mcp") \subseteq Tools(run)
        /\ Included(report, "hook") \subseteq DOMAIN run.hooks
    BY <2>1, IncludedDeclared
  <2>6. Included(report, "mcp") # {} => "mcp" \in intent
    BY <2>3, <2>5, ToolServer
  <2>7. Included(report, "hook") # {} => "hook" \in intent
    BY <2>1, <2>3, <2>5, DeclarationAssumption DEF HooksPlanned
  <2>8. plan.files = Files(cmd.host, run, report) /\ plan.files # {}
    BY <2>1, PlanOf, PlannedFiles
  <2>9. /\ \A s \in Included(report, "skill") : <<"skill", s>> \in plan.files
        /\ \A c \in Included(report, "context") : <<"context", c>> \in plan.files
    BY <2>5, <2>8 DEF Files, Under
  <2>10. Matches(run, intent, report, plan) /\ LaunchSafe(plan)
    BY <2>1, PlanMatches, PlanSafe
  <2> HIDE DEF intent, plan
  <2>11. IntentRealised(intent, report, plan)
    BY <2>4, <2>6, <2>7, <2>8, <2>9 DEF IntentRealised
  <2>12. Reconciled(run, intent, report, plan)
    BY <2>10, <2>11 DEF Reconciled
  <2> QED BY <2>2, <2>12 DEF ProjectSucceeds, Projected, intent, plan
<1> QED BY <1>1, LaunchInvariant, PTL

-----------------------------------------------------------------------------
(* The order of a run *)

DecisionSteps == {"root", "evaluate", "confirm", "prompt", "project", "ensure"}

\* The stage of a command is read off its kind and its step.
LEMMA StageRead ==
    /\ cmd.kind = "check" => Stage = "out"
    /\ cmd.kind # "check" =>
         /\ pc = "recover" => Stage = "recovering"
         /\ pc \in DecisionSteps => Stage = "deciding"
         /\ pc = "begin" => Stage = "reserving"
         /\ pc = "execute" => Stage = "holding"
         /\ pc = "host" => Stage = "hosting"
         /\ pc \in {"idle", "resolve"} => Stage = "out"
<1> USE DEF Stage, DecisionSteps
<1>1. cmd.kind = "check" => Stage = "out"
  OBVIOUS
<1>2. cmd.kind # "check" /\ pc \in DecisionSteps => Stage = "deciding"
  OBVIOUS
<1>3. cmd.kind # "check" /\ pc \in {"idle", "resolve"} => Stage = "out"
  OBVIOUS
<1>4. cmd.kind # "check" =>
         /\ pc = "recover" => Stage = "recovering"
         /\ pc = "begin" => Stage = "reserving"
         /\ pc = "execute" => Stage = "holding"
         /\ pc = "host" => Stage = "hosting"
  OBVIOUS
<1> HIDE DEF Stage, DecisionSteps
<1> QED BY <1>1, <1>2, <1>3, <1>4

LEMMA StageReadNext ==
    /\ cmd'.kind = "check" => Stage' = "out"
    /\ cmd'.kind # "check" =>
         /\ pc' = "recover" => Stage' = "recovering"
         /\ pc' \in DecisionSteps => Stage' = "deciding"
         /\ pc' = "begin" => Stage' = "reserving"
         /\ pc' = "execute" => Stage' = "holding"
         /\ pc' = "host" => Stage' = "hosting"
         /\ pc' \in {"idle", "resolve"} => Stage' = "out"
<1> USE DEF Stage, DecisionSteps
<1>1. cmd'.kind = "check" => Stage' = "out"
  OBVIOUS
<1>2. cmd'.kind # "check" /\ pc' \in DecisionSteps => Stage' = "deciding"
  OBVIOUS
<1>3. cmd'.kind # "check" /\ pc' \in {"idle", "resolve"} => Stage' = "out"
  OBVIOUS
<1>4. cmd'.kind # "check" =>
         /\ pc' = "recover" => Stage' = "recovering"
         /\ pc' = "begin" => Stage' = "reserving"
         /\ pc' = "execute" => Stage' = "holding"
         /\ pc' = "host" => Stage' = "hosting"
  OBVIOUS
<1> HIDE DEF Stage, DecisionSteps
<1> QED BY <1>1, <1>2, <1>3, <1>4

\* What a step does, as far as the stage goes.
ProtocolMove ==
    \/ UNCHANGED <<pc, cmd>>
    \/ pc' \in {"idle", "resolve"}
    \/ /\ cmd' = cmd
       /\ \/ pc = "resolve" /\ pc' = "recover" /\ cmd.kind = "run"
          \/ pc = "resolve" /\ pc' = "root" /\ cmd.kind = "check"
          \/ pc = "recover" /\ pc' = "root"
          \/ pc \in DecisionSteps /\ pc' \in DecisionSteps
          \/ pc = "ensure" /\ pc' = "begin"
          \/ pc = "begin" /\ pc' = "execute"
          \/ pc = "execute" /\ pc' = "host"

LEMMA ProtocolMoves == TypeOK /\ [Next]_vars => ProtocolMove
<1> SUFFICES ASSUME TypeOK, [Next]_vars PROVE ProtocolMove
  OBVIOUS
<1> USE DEF ProtocolMove, DecisionSteps, world, local, Goto, Exit, Moves
<1>k. cmd.kind \in {"check", "run"}
  BY DEF TypeOK, Command
<1>1. CASE Start \/ RejectNativeArgs \/ Resolve \/ Recover \/ ResolveRoot
  BY <1>1, <1>k DEF Start, RejectNativeArgs, Resolve, Recover, ResolveRoot
<1>2. CASE EvaluatePipeline \/ ConfirmWarnings \/ AnswerPrompt \/ Project
  BY <1>2 DEF EvaluatePipeline, ConfirmWarnings, AnswerPrompt, Project
<1>3. CASE EnsureWorkRoot \/ BeginRun \/ Execute \/ HostExits
  BY <1>3 DEF EnsureWorkRoot, BeginRun, Execute, HostExits
<1>4. CASE RegisterAgain \/ Unregister \/ ChangeHost \/ ChangeRoot
  BY <1>4 DEF RegisterAgain, Unregister, ChangeHost, ChangeRoot
<1>5. CASE UNCHANGED vars
  BY <1>5 DEF vars
<1> QED BY <1>1, <1>2, <1>3, <1>4, <1>5 DEF Next

\* The command line takes a run through the stages in the order the runtime
\* relies on, whatever moves around it.
THEOREM ImplementsRunProtocol == Spec => ProtocolSpec
<1>1. Init => Protocol!Init
  BY StageRead DEF Init, Protocol!Init
<1>2. TypeOK /\ [Next]_vars => [Protocol!Next]_Stage
  <2> SUFFICES ASSUME TypeOK, [Next]_vars PROVE Protocol!Next \/ UNCHANGED Stage
    OBVIOUS
  <2>k. cmd.kind \in {"check", "run"}
    BY DEF TypeOK, Command
  <2> USE DEF Protocol!Next, Protocol!Recover, Protocol!Decide, Protocol!Authorise,
              Protocol!Reserve, Protocol!Host, Protocol!Leave, Protocol!Go
  <2>1. CASE UNCHANGED <<pc, cmd>>
    BY <2>1 DEF Stage
  <2>2. CASE pc' \in {"idle", "resolve"}
    BY <2>2, StageReadNext
  <2>3. CASE cmd' = cmd /\ pc \in DecisionSteps /\ pc' \in DecisionSteps
    BY <2>3, StageRead, StageReadNext
  <2>4. CASE cmd.kind = "check" /\ cmd' = cmd
    BY <2>4, StageReadNext
  <2> QED
    BY <2>k, <2>1, <2>2, <2>3, <2>4, StageRead, StageReadNext, ProtocolMoves
    DEF ProtocolMove, DecisionSteps
<1> QED BY <1>1, <1>2, TypeCorrect, PTL DEF Spec, ProtocolSpec, Protocol!Spec
=============================================================================
