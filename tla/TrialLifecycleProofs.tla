------------------------- MODULE TrialLifecycleProofs -------------------------
(***************************************************************************)
(* Theorems about TrialLifecycle, for every set of trials: that a leak is  *)
(* reported, that a result is on the trail and is never upgraded, that an  *)
(* accepted governed trial verifies later, and the two promises that it    *)
(* makes about its resources and its trail.                                *)
(***************************************************************************)
EXTENDS TrialLifecycle, FiniteSetTheorems, TLAPS

\* Before the evaluation, in it, behind it, and with the trail closed.
BeforeSetup == {"new", "requested", "admitting", "starting", "setup"}
Early       == SetupLabels \cup DeleteLabels \cup {"cleaned"}
Evaluating  == {"evaluate", "tests", "scans", "skipScans", "judge", "skipJudge"}
Completing  == {"complete", "runCompleted", "seal", "contain", "redact", "persist"}
Sealed      == {"contain", "redact", "persist", "attest", "amend", "done"}
Concluded   == {"runCompleted", "seal"} \cup Sealed

-----------------------------------------------------------------------------
(* The inductive invariant *)

\* What exists has a handle, or the failure to create it is known; what is left
\* has been written down.
Leaks ==
  /\ pc \in BeforeSetup => alive = {} /\ held = {}
  /\ pc = "proxying" => held \subseteq {"secret"}
  /\ pc = "creating" => held \subseteq {"secret", "proxy"}
  /\ pc \in SetupLabels => alive \subseteq held /\ cleanupErrors = {}
  /\ pc \in DeleteLabels \cup {"cleaned"} => alive \subseteq held \/ eff.infra # {} \/ raising
  /\ pc \in {"delProxy", "delSecret", "cleaned"} =>
       alive \cap held \cap {"pod"} \subseteq cleanupErrors
  /\ pc \in {"delSecret", "cleaned"} =>
       alive \cap held \cap {"proxy"} \subseteq cleanupErrors
  /\ pc = "cleaned" => alive \cap held \subseteq cleanupErrors
  /\ pc \notin Early \cup {"raised", "interrupted"} => alive = {} \/ eff.infra # {}
  /\ row = NoRow \/ alive = {} \/ row.outcome = "infra_error"

\* An exception goes through the finally clause, and nothing is saved before.
Flow ==
  /\ raising => pc \in DeleteLabels \cup {"cleaned", "raised", "interrupted"}
  /\ guarded \/ auditOpen => plan.governed
  /\ pc \in Early \cup Evaluating => row = NoRow /\ ~attErr
  /\ pc \in Concluded => outcome \in Outcomes
  /\ pc \in {"skipScans", "skipJudge"} => cor.integrity

\* A failure of the trail or of the attestation is held against the trial.
Blamed ==
  /\ auditErr => plan.governed /\ eff.infra # {}
  /\ attErr => eff.infra # {}
  /\ pc \in {"new", "setup", "proxying", "creating", "running", "snapshot", "finally"} =>
       ~auditErr

\* The verdict is the one of the record as it stands, and so is the saved record.
Settled ==
  /\ pc \in {"runCompleted", "seal"} => auditErr \/ outcome = Verdict(plan, eff, cor, graded)
  /\ pc \in Sealed => outcome = Verdict(plan, eff, cor, graded)
  /\ pc \in {"attest", "done"} => row = TheRecord
  /\ pc = "done" /\ plan.governed => attested = row \/ outcome = "infra_error"

\* A record that is completed again has lost its result.
Withdrawn ==
  row # NoRow =>
    /\ row.outcome \in Outcomes
    /\ pc \in Completing => cor.infra
    /\ pc = "amend" => outcome \in {row.outcome, "infra_error"}

\* The closed trail ends with the verdict, in the record and in the saved one.
Recorded ==
  /\ row # NoRow \/ pc \in Sealed => ~auditOpen
  /\ pc \in Sealed => count = Len(trail)
  /\ /\ plan.governed
     /\ (pc = "seal" /\ ~auditErr) \/ (pc \in Sealed /\ outcome # "infra_error")
     =>
       Len(trail) > 0 /\ trail[Len(trail)] = Ev("run.completed", outcome, FALSE)
  /\ plan.governed /\ row # NoRow /\ row.outcome # "infra_error" =>
       /\ row.count = Len(trail) /\ ~row.auditErr
       /\ Len(trail) > 0 /\ trail[Len(trail)] = Ev("run.completed", row.outcome, FALSE)

\* What is asked of an accepted governed record besides its verdict.
Evidenced ==
  pc \in Concluded /\ plan.governed /\ outcome = "accepted" =>
    /\ cor.isolated /\ eff.image
    /\ plan.scans => graded.scans
    /\ plan.judge => graded.score

\* The trail of a trial on its way to be accepted.
JudgeEvent == IF plan.judge THEN Ev("judge.completed", "completed", TRUE)
              ELSE Ev("judge.skipped", "disabled", FALSE)
Expected ==
  <<Ev("evaluation.requested", "none", TRUE), Ev("policy.admitted", "none", TRUE),
    Ev("agent.started", "none", TRUE), Ev("agent.completed", "completed", TRUE),
    Ev("cleanup.completed", "completed", FALSE), Ev("evaluation.started", "none", TRUE),
    Ev("tests.completed", "completed", cor.passed),
    Ev("scanners.completed", IF plan.scans THEN "completed" ELSE "skipped", FALSE),
    JudgeEvent, Ev("outcome.decided", "accepted", FALSE), Ev("run.completed", "accepted", FALSE)>>
OnPath(n) == Len(trail) = n /\ \A i \in 1 .. n : trail[i] = Expected[i]

Sound == eff.infra = {} /\ ~cor.infra /\ ~cor.integrity
Path ==
  plan.governed /\ ~auditErr =>
    /\ pc \in {"new", "requested"} => OnPath(0)
    /\ pc = "admitting" => OnPath(1)
    /\ pc = "starting" => OnPath(2)
    /\ pc \in {"setup", "proxying", "creating", "running", "snapshot", "finally"} => OnPath(3)
    /\ pc \in (DeleteLabels \ {"finally"}) \cup {"cleaned"} /\ snapshot /\ eff.infra = {} =>
         OnPath(4)
    /\ pc = "evaluate" /\ eff.infra = {} => OnPath(5)
    /\ pc = "tests" /\ eff.infra = {} => OnPath(6)
    /\ pc = "scans" /\ Sound => OnPath(7)
    /\ pc = "judge" /\ Sound => OnPath(8)
    /\ pc = "complete" /\ Sound /\ (plan.judge => graded.score) => OnPath(9)
    /\ pc = "runCompleted" /\ Sound /\ outcome = "accepted" => OnPath(10)
    /\ pc \in {"seal"} \cup Sealed /\ Sound /\ outcome = "accepted" => OnPath(11)

IInv == /\ TypeOK /\ Leaks /\ Flow /\ Blamed /\ Settled
        /\ Withdrawn /\ Recorded /\ Evidenced /\ Path

-----------------------------------------------------------------------------
(* Facts about the record and the trail *)

\* The flags of a trial are flags.
LEMMA PlanTyped ==
  ASSUME TypeOK
  PROVE  /\ plan.governed \in BOOLEAN /\ plan.secret \in BOOLEAN /\ plan.proxy \in BOOLEAN
         /\ plan.scans \in BOOLEAN /\ plan.judge \in BOOLEAN
BY PlansAssumption DEF TypeOK, Plan

\* What is blamed keeps its other fields.
LEMMA BlameAdds ==
  ASSUME NEW x \in Eff, NEW cause \in Causes
  PROVE  /\ Blame(x, cause) \in Eff /\ Blame(x, cause).infra = x.infra \cup {cause}
         /\ Blame(x, cause).image = x.image /\ Blame(x, cause).exit = x.exit
BY DEF Blame, Eff

\* Nor does it lose any where the blame depends on a condition.
LEMMA BlameIfAdds ==
  ASSUME NEW x \in Eff, NEW cause \in Causes, NEW holds \in BOOLEAN
  PROVE  /\ BlameIf(x, holds, cause) \in Eff /\ x.infra \subseteq BlameIf(x, holds, cause).infra
         /\ holds => cause \in BlameIf(x, holds, cause).infra
         /\ ~holds => BlameIf(x, holds, cause) = x
         /\ BlameIf(x, holds, cause).image = x.image
BY BlameAdds DEF BlameIf

\* So does what is held against the correctness.
LEMMA Corrected ==
  ASSUME NEW c \in Cor
  PROVE  /\ [c EXCEPT !.infra = TRUE] \in Cor /\ [c EXCEPT !.infra = TRUE].infra
         /\ [c EXCEPT !.integrity = TRUE] \in Cor /\ [c EXCEPT !.integrity = TRUE].integrity
         /\ [c EXCEPT !.integrity = TRUE].passed = c.passed
BY DEF Cor

\* A trial without a workspace to evaluate is held against something.
LEMMA Uncorrected ==
  /\ NoTests \in Cor
  /\ \A c \in Cor : /\ Unevaluated(c) \in Cor
                    /\ Unevaluated(c).infra \/ Unevaluated(c).integrity
<1>1. NoTests \in Cor
  BY DEF NoTests, Cor
<1> QED BY <1>1, Corrected DEF Unevaluated

\* A verdict is a result only where nothing is to blame.
LEMMA Verdicts ==
  ASSUME NEW p, NEW e, NEW c, NEW g
  PROVE  /\ Verdict(p, e, c, g) \in Outcomes
         /\ c.infra \/ e.infra # {} => Verdict(p, e, c, g) = "infra_error"
         /\ Verdict(p, e, c, g) # "infra_error" => e.infra = {} /\ ~c.infra
         /\ Verdict(p, e, c, g) = "accepted" => e.infra = {} /\ ~c.infra /\ ~c.integrity
BY DEF Verdict, Outcomes

\* The record is one, and a saved one.
LEMMA RecordTyped ==
  ASSUME TypeOK
  PROVE  /\ TheRecord \in Row /\ TheRecord.outcome = outcome
         /\ TheRecord.auditErr = auditErr /\ TheRecord.count = count
         /\ outcome \in Outcomes => TheRecord # NoRow
<1>1. TheRecord \in Row /\ TheRecord.outcome = outcome
  BY DEF TypeOK, TheRecord, Row
<1>2. TheRecord.auditErr = auditErr /\ TheRecord.count = count
  BY DEF TheRecord
<1>3. NoRow.outcome = "none" /\ "none" \notin Outcomes
  BY DEF NoRow, Outcomes
<1> QED BY <1>1, <1>2, <1>3

\* What the check of the evidence holds against a governed record.
LEMMA Checked ==
  ASSUME TypeOK, NEW intact \in BOOLEAN
  PROVE  LET e == EvidenceChecked(eff, intact)
         IN /\ e \in Eff /\ eff.infra \subseteq e.infra /\ e.image = eff.image
            /\ plan.governed /\ e.infra = {} =>
                 /\ cor.isolated /\ eff.image
                 /\ plan.scans => graded.scans
                 /\ plan.judge => graded.score
<1> DEFINE missing == \/ eff.infra = {} /\ ~eff.image
                      \/ plan.scans /\ ~graded.scans
                      \/ plan.judge /\ ~graded.score
                      \/ ~intact
           d == BlameIf(eff, plan.governed /\ ~cor.isolated, "mode")
           e == BlameIf(d, plan.governed /\ missing, "fault")
<1>1. EvidenceChecked(eff, intact) = e
  BY DEF EvidenceChecked
<1>2. (plan.governed /\ ~cor.isolated) \in BOOLEAN /\ (plan.governed /\ missing) \in BOOLEAN
  BY DEF TypeOK
<1>3. /\ d \in Eff /\ eff.infra \subseteq d.infra /\ d.image = eff.image
      /\ plan.governed /\ ~cor.isolated => "mode" \in d.infra
  BY <1>2, BlameIfAdds DEF TypeOK, Causes
<1> HIDE DEF d
<1>4. /\ e \in Eff /\ d.infra \subseteq e.infra /\ e.image = d.image
      /\ plan.governed /\ missing => "fault" \in e.infra
  BY <1>2, <1>3, BlameIfAdds DEF Causes
<1> HIDE DEF e
<1>5. plan.governed /\ e.infra = {} => ~missing /\ cor.isolated /\ eff.infra = {}
  BY <1>3, <1>4
<1> QED BY <1>1, <1>3, <1>4, <1>5

\* An event is one.
LEMMA EventTyped ==
  ASSUME NEW type \in EventTypes, NEW ok \in BOOLEAN,
         NEW status \in Outcomes \cup {"none", "completed", "failed", "infrastructure_error",
                                       "integrity_rejected", "skipped", "disabled"}
  PROVE  Ev(type, status, ok) \in Event
BY DEF Ev, Event

\* A trail grows at its end.
LEMMA AppendGrows ==
  ASSUME NEW S, NEW s \in Seq(S), NEW e \in S
  PROVE  /\ Append(s, e) \in Seq(S) /\ Len(Append(s, e)) = Len(s) + 1
         /\ \A i \in 1 .. Len(s) : Append(s, e)[i] = s[i]
         /\ Append(s, e)[Len(s) + 1] = e
OBVIOUS

\* What holds after any event, and where there was none.
Kept ==
  /\ eff' \in Eff /\ trail' \in Seq(Event) /\ auditErr' \in BOOLEAN
  /\ eff.infra \subseteq eff'.infra /\ eff'.image = eff.image
  /\ auditErr' => plan.governed /\ eff'.infra # {}
  /\ auditErr => auditErr'
  /\ ~auditOpen => trail' = trail

\* What holds after the event e of a record whose efficiency was to be m.
Written(e, m) ==
  /\ m.infra \subseteq eff'.infra
  /\ auditErr' \/ eff' = m
  /\ plan.governed /\ ~auditErr' =>
       /\ auditOpen /\ Len(trail') = Len(trail) + 1 /\ trail'[Len(trail) + 1] = e
       /\ \A i \in 1 .. Len(trail) : trail'[i] = trail[i]

\* Audit does one or the other: the event is on the trail or the trail has failed.
LEMMA Audited ==
  ASSUME TypeOK, Blamed, NEW e \in Event, NEW m \in Eff, Audit(e, m),
         eff.infra \subseteq m.infra, m.image = eff.image
  PROVE  Kept /\ Written(e, m)
<1>1. CASE (~plan.governed \/ auditErr) /\ eff' = m /\ UNCHANGED <<trail, auditErr>>
  BY <1>1 DEF TypeOK, Blamed, Kept, Written
<1>2. CASE /\ plan.governed /\ ~auditErr /\ auditOpen /\ trail' = Append(trail, e)
           /\ eff' = m /\ UNCHANGED auditErr
  <2>1. /\ trail' \in Seq(Event) /\ Len(trail') = Len(trail) + 1
        /\ \A i \in 1 .. Len(trail) : trail'[i] = trail[i]
        /\ trail'[Len(trail) + 1] = e
    BY <1>2, AppendGrows DEF TypeOK
  <2> QED BY <1>2, <2>1 DEF TypeOK, Kept, Written
<1>3. CASE /\ plan.governed /\ ~auditErr /\ auditErr' = TRUE /\ eff' = Blame(m, "fault")
           /\ UNCHANGED trail
  <2>1. eff' \in Eff /\ eff'.infra = m.infra \cup {"fault"} /\ eff'.image = m.image
    BY <1>3, BlameAdds DEF Causes
  <2> QED BY <1>3, <2>1 DEF TypeOK, Kept, Written
<1> QED BY <1>1, <1>2, <1>3 DEF Audit

\* A step without an event keeps the trail, too.
LEMMA Unwritten ==
  ASSUME TypeOK, Blamed, UNCHANGED <<eff, trail, auditErr>>
  PROVE  Kept
BY DEF TypeOK, Blamed, Kept

\* The trail on its way to be accepted, event by event.
LEMMA ExpectedEvents ==
  /\ Expected[1] = Ev("evaluation.requested", "none", TRUE)
  /\ Expected[2] = Ev("policy.admitted", "none", TRUE)
  /\ Expected[3] = Ev("agent.started", "none", TRUE)
  /\ Expected[4] = Ev("agent.completed", "completed", TRUE)
  /\ Expected[5] = Ev("cleanup.completed", "completed", FALSE)
  /\ Expected[6] = Ev("evaluation.started", "none", TRUE)
  /\ Expected[7] = Ev("tests.completed", "completed", cor.passed)
  /\ Expected[8] = Ev("scanners.completed", IF plan.scans THEN "completed" ELSE "skipped", FALSE)
  /\ Expected[9] = JudgeEvent
  /\ Expected[10] = Ev("outcome.decided", "accepted", FALSE)
  /\ Expected[11] = Ev("run.completed", "accepted", FALSE)
BY DEF Expected

\* What is expected of a trial does not change, but for what its tests come to.
LEMMA ExpectedKept ==
  ASSUME plan' = plan
  PROVE  /\ cor'.passed = cor.passed => Expected' = Expected
         /\ \A i \in 1 .. 6 : Expected'[i] = Expected[i]
BY DEF Expected, JudgeEvent

\* A trail that stays the same stays on its way.
LEMMA PathKept ==
  ASSUME NEW n, UNCHANGED <<trail, plan>>, OnPath(n), n < 7 \/ cor'.passed = cor.passed
  PROVE  OnPath(n)'
<1>1. /\ cor'.passed = cor.passed => Expected' = Expected
      /\ \A i \in 1 .. 6 : Expected'[i] = Expected[i]
  BY ExpectedKept
<1>2. n \in Nat
  BY DEF OnPath
<1> QED BY <1>1, <1>2 DEF OnPath

\* The next expected event takes it one step further.
LEMMA PathGrows ==
  ASSUME NEW n \in 0 .. 10, NEW k, k = n + 1, OnPath(n), plan' = plan,
         plan.governed, ~auditErr', NEW e, NEW m, Written(e, m), e = Expected[k],
         k < 7 \/ cor'.passed = cor.passed
  PROVE  OnPath(k)'
<1>1. \A i \in 1 .. k : Expected'[i] = Expected[i]
  <2>1. CASE k < 7
    <3>1. \A i \in 1 .. 6 : Expected'[i] = Expected[i]
      BY ExpectedKept
    <3> QED BY <2>1, <3>1
  <2>2. CASE cor'.passed = cor.passed
    BY <2>2, ExpectedKept
  <2> QED BY <2>1, <2>2
<1>2. /\ Len(trail') = n + 1 /\ trail'[n + 1] = Expected[n + 1]
      /\ \A i \in 1 .. n : trail'[i] = Expected[i]
  BY DEF OnPath, Written
<1> QED BY <1>1, <1>2 DEF OnPath

-----------------------------------------------------------------------------
(* Every step keeps the invariant *)

\* It holds before the trial.
LEMMA InitInvariant == Init => IInv
<1> SUFFICES ASSUME Init PROVE IInv
  OBVIOUS
<1> USE DEF Init
<1>1. TypeOK
  <2>1. NoEff \in Eff /\ NoTests \in Cor /\ NoGrades \in Graded
    BY DEF NoEff, NoTests, NoGrades, Eff, Cor, Graded
  <2>2. NoRow \in Row
    BY <2>1 DEF NoRow, Row
  <2>3. trail \in Seq(Event) /\ pc \in Labels
    BY DEF Labels, SetupLabels
  <2>4. plan \in Plans /\ count \in Nat
    OBVIOUS
  <2> QED BY <2>1, <2>2, <2>3, <2>4 DEF TypeOK
<1>2. Leaks
  BY DEF Leaks, BeforeSetup, Early, SetupLabels, DeleteLabels
<1>3. Flow
  BY DEF Flow, Concluded, Sealed
<1>4. Blamed /\ Withdrawn
  BY DEF Blamed, Withdrawn
<1>5. Settled
  BY DEF Settled, Sealed
<1>6. Recorded
  BY DEF Recorded, Sealed
<1>7. Evidenced
  BY DEF Evidenced, Concluded, Sealed
<1>8. Path
  BY DEF Path, OnPath, DeleteLabels, Sealed
<1> QED BY <1>1, <1>2, <1>3, <1>4, <1>5, <1>6, <1>7, <1>8 DEF IInv

\* The invariant survives the preparation of the run.
LEMMA PrepareRunInvariant == IInv /\ PrepareRun => IInv'
<1> SUFFICES ASSUME IInv, PrepareRun PROVE IInv'
  OBVIOUS
<1> USE DEF IInv, PrepareRun, flowVars, clusterVars, auditVars, storeVars
<1>1. TypeOK'
  BY PlanTyped DEF TypeOK, Labels, SetupLabels, DeleteLabels
<1>2. Leaks'
  BY DEF Leaks, TypeOK, Flow, BeforeSetup, Early, Evaluating, Completing, Sealed,
     Concluded, SetupLabels, DeleteLabels
<1>3. Flow'
  BY DEF Flow, Early, Evaluating, Completing, Sealed, Concluded, SetupLabels, DeleteLabels
<1>4. Blamed'
  BY DEF Blamed, TypeOK, Flow, Early, Evaluating, Completing, Sealed, Concluded,
     SetupLabels, DeleteLabels
<1>5. Settled'
  BY DEF Settled, Early, Evaluating, Completing, Sealed, Concluded, SetupLabels,
     DeleteLabels
<1>6. Withdrawn'
  BY DEF Withdrawn, Flow, Early, Evaluating, Completing, Sealed, Concluded, SetupLabels,
     DeleteLabels
<1>7. Recorded'
  BY DEF Recorded, Flow, Early, Evaluating, Completing, Sealed, Concluded, SetupLabels,
     DeleteLabels
<1>8. Evidenced'
  BY DEF Evidenced, Early, Evaluating, Completing, Sealed, Concluded, SetupLabels,
     DeleteLabels
<1>9. Path'
  BY PathKept DEF Path, Sound, Resolved, Early, Evaluating, Completing, Sealed, Concluded,
     SetupLabels, DeleteLabels
<1> QED BY <1>1, <1>2, <1>3, <1>4, <1>5, <1>6, <1>7, <1>8, <1>9

\* The invariant survives the first event.
LEMMA RequestedInvariant == IInv /\ Requested => IInv'
<1> SUFFICES ASSUME IInv, Requested PROVE IInv'
  OBVIOUS
<1> USE DEF IInv, Requested, flowVars, clusterVars, auditVars, storeVars
<1>0. Kept /\ Written(Ev("evaluation.requested", "none", TRUE), eff)
  <2>1. Ev("evaluation.requested", "none", TRUE) \in Event
    BY EventTyped DEF TypeOK, EventTypes
  <2> QED BY <2>1, Audited DEF TypeOK
<1>1. TypeOK'
  BY <1>0, PlanTyped DEF Kept, TypeOK, Labels, SetupLabels, DeleteLabels
<1>2. Leaks'
  BY <1>0 DEF Kept, Leaks, TypeOK, Flow, BeforeSetup, Early, Evaluating, Completing,
     Sealed, Concluded, SetupLabels, DeleteLabels
<1>3. Flow'
  BY <1>0 DEF Flow, Early, Evaluating, Completing, Sealed, Concluded, SetupLabels,
     DeleteLabels
<1>4. Blamed'
  BY <1>0 DEF Kept, Blamed, TypeOK, Flow, Early, Evaluating, Completing, Sealed,
     Concluded, SetupLabels, DeleteLabels
<1>5. Settled'
  BY <1>0 DEF Written, Kept, Settled, Early, Evaluating, Completing, Sealed, Concluded,
     SetupLabels, DeleteLabels
<1>6. Withdrawn'
  BY <1>0 DEF Kept, Withdrawn, Flow, Early, Evaluating, Completing, Sealed, Concluded,
     SetupLabels, DeleteLabels
<1>7. Recorded'
  BY <1>0 DEF Written, Kept, Recorded, Flow, Early, Evaluating, Completing, Sealed,
     Concluded, SetupLabels, DeleteLabels
<1>8. Evidenced'
  BY <1>0 DEF Kept, Evidenced, Early, Evaluating, Completing, Sealed, Concluded,
     SetupLabels, DeleteLabels
<1>9. Path'
  <2>1. ASSUME plan.governed, ~auditErr', pc' = "admitting"
        PROVE  OnPath(1)'
    <3>1. OnPath(0) /\ ~auditErr
      BY <1>0, <2>1 DEF Kept, Path, Sound, Resolved, JudgeEvent
    <3>2. Ev("evaluation.requested", "none", TRUE) = Expected[1]
      BY <1>0, <2>1, ExpectedEvents
    <3>3. 0 \in 0 .. 10 /\ 1 = 0 + 1 /\ plan' = plan
      OBVIOUS
    <3> QED BY <1>0, <2>1, <3>1, <3>2, <3>3, PathGrows, Zenon
  <2> QED BY <1>0, <2>1 DEF Kept, Path, Sound, Resolved, Early, Evaluating, Completing,
             Sealed, Concluded, SetupLabels, DeleteLabels
<1> QED BY <1>1, <1>2, <1>3, <1>4, <1>5, <1>6, <1>7, <1>8, <1>9

\* The invariant survives the second event.
LEMMA AdmittedInvariant == IInv /\ Admitted => IInv'
<1> SUFFICES ASSUME IInv, Admitted PROVE IInv'
  OBVIOUS
<1> USE DEF IInv, Admitted, flowVars, clusterVars, auditVars, storeVars, GoesOn
<1>0. Kept /\ Written(Ev("policy.admitted", "none", TRUE), eff)
  <2>1. Ev("policy.admitted", "none", TRUE) \in Event
    BY EventTyped DEF TypeOK, EventTypes
  <2> QED BY <2>1, Audited DEF TypeOK
<1>1. TypeOK'
  BY <1>0, PlanTyped, Corrected, Uncorrected
     DEF Kept, TypeOK, Labels, SetupLabels, DeleteLabels
<1>2. Leaks'
  BY <1>0 DEF Kept, Leaks, TypeOK, Flow, BeforeSetup, Early, Evaluating, Completing,
     Sealed, Concluded, SetupLabels, DeleteLabels
<1>3. Flow'
  BY <1>0 DEF Flow, Early, Evaluating, Completing, Sealed, Concluded, SetupLabels,
     DeleteLabels
<1>4. Blamed'
  BY <1>0 DEF Kept, Blamed, TypeOK, Flow, Early, Evaluating, Completing, Sealed,
     Concluded, SetupLabels, DeleteLabels
<1>5. Settled'
  BY <1>0 DEF Written, Kept, Settled, Early, Evaluating, Completing, Sealed, Concluded,
     SetupLabels, DeleteLabels
<1>6. Withdrawn'
  BY <1>0 DEF Kept, Withdrawn, Flow, Early, Evaluating, Completing, Sealed, Concluded,
     SetupLabels, DeleteLabels
<1>7. Recorded'
  BY <1>0 DEF Written, Kept, Recorded, Flow, Early, Evaluating, Completing, Sealed,
     Concluded, SetupLabels, DeleteLabels
<1>8. Evidenced'
  BY <1>0 DEF Kept, Evidenced, Early, Evaluating, Completing, Sealed, Concluded,
     SetupLabels, DeleteLabels
<1>9. Path'
  <2>1. ASSUME plan.governed, ~auditErr', pc' = "starting"
        PROVE  OnPath(2)'
    <3>1. OnPath(1) /\ ~auditErr
      BY <1>0, <2>1 DEF Kept, Path, Sound, Resolved, JudgeEvent
    <3>2. Ev("policy.admitted", "none", TRUE) = Expected[2]
      BY <1>0, <2>1, ExpectedEvents
    <3>3. 1 \in 0 .. 10 /\ 2 = 1 + 1 /\ plan' = plan
      OBVIOUS
    <3> QED BY <1>0, <2>1, <3>1, <3>2, <3>3, PathGrows, Zenon
  <2> QED BY <1>0, <2>1, Corrected, Uncorrected
          DEF Kept, Path, Sound, Resolved, Early, Evaluating, Completing,
             Sealed, Concluded, SetupLabels, DeleteLabels
<1> QED BY <1>1, <1>2, <1>3, <1>4, <1>5, <1>6, <1>7, <1>8, <1>9

\* The invariant survives the third event.
LEMMA AgentStartedInvariant == IInv /\ AgentStarted => IInv'
<1> SUFFICES ASSUME IInv, AgentStarted PROVE IInv'
  OBVIOUS
<1> USE DEF IInv, AgentStarted, flowVars, clusterVars, auditVars, storeVars, GoesOn
<1>0. Kept /\ Written(Ev("agent.started", "none", TRUE), eff)
  <2>1. Ev("agent.started", "none", TRUE) \in Event
    BY EventTyped DEF TypeOK, EventTypes
  <2> QED BY <2>1, Audited DEF TypeOK
<1>1. TypeOK'
  BY <1>0, PlanTyped, Corrected, Uncorrected
     DEF Kept, TypeOK, Labels, SetupLabels, DeleteLabels
<1>2. Leaks'
  BY <1>0 DEF Kept, Leaks, TypeOK, Flow, BeforeSetup, Early, Evaluating, Completing,
     Sealed, Concluded, SetupLabels, DeleteLabels
<1>3. Flow'
  BY <1>0 DEF Flow, Early, Evaluating, Completing, Sealed, Concluded, SetupLabels,
     DeleteLabels
<1>4. Blamed'
  BY <1>0 DEF Kept, Blamed, TypeOK, Flow, Early, Evaluating, Completing, Sealed,
     Concluded, SetupLabels, DeleteLabels
<1>5. Settled'
  BY <1>0 DEF Written, Kept, Settled, Early, Evaluating, Completing, Sealed, Concluded,
     SetupLabels, DeleteLabels
<1>6. Withdrawn'
  BY <1>0 DEF Kept, Withdrawn, Flow, Early, Evaluating, Completing, Sealed, Concluded,
     SetupLabels, DeleteLabels
<1>7. Recorded'
  BY <1>0 DEF Written, Kept, Recorded, Flow, Early, Evaluating, Completing, Sealed,
     Concluded, SetupLabels, DeleteLabels
<1>8. Evidenced'
  BY <1>0 DEF Kept, Evidenced, Early, Evaluating, Completing, Sealed, Concluded,
     SetupLabels, DeleteLabels
<1>9. Path'
  <2>1. ASSUME plan.governed, ~auditErr', pc' = "setup"
        PROVE  OnPath(3)'
    <3>1. OnPath(2) /\ ~auditErr
      BY <1>0, <2>1 DEF Kept, Path, Sound, Resolved, JudgeEvent
    <3>2. Ev("agent.started", "none", TRUE) = Expected[3]
      BY <1>0, <2>1, ExpectedEvents
    <3>3. 2 \in 0 .. 10 /\ 3 = 2 + 1 /\ plan' = plan
      OBVIOUS
    <3> QED BY <1>0, <2>1, <3>1, <3>2, <3>3, PathGrows, Zenon
  <2> QED BY <1>0, <2>1, Corrected, Uncorrected
          DEF Kept, Path, Sound, Resolved, Early, Evaluating, Completing,
             Sealed, Concluded, SetupLabels, DeleteLabels
<1> QED BY <1>1, <1>2, <1>3, <1>4, <1>5, <1>6, <1>7, <1>8, <1>9

\* The invariant survives the setup of the resources.
LEMMA SetupInvariant == IInv /\ Setup => IInv'
<1> SUFFICES ASSUME IInv, Setup PROVE IInv'
  OBVIOUS
<1> USE DEF IInv, Setup, flowVars, clusterVars, auditVars, storeVars, SetupSucceeds,
            SetupFails, NoProxy, Create, Fails
<1>0. /\ eff' \in Eff /\ eff.infra \subseteq eff'.infra
      /\ raising' \in BOOLEAN /\ redactor' \in BOOLEAN
      /\ pc' = "finally" => raising' \/ eff'.infra # {}
  BY PlanTyped, BlameAdds DEF TypeOK, Causes
<1>1. TypeOK'
  <2>1. alive' \subseteq Resources /\ held' \subseteq Resources /\ UNCHANGED cleanupErrors
    BY DEF TypeOK, Resources
  <2>2. pc' \in Labels
    BY DEF Labels, SetupLabels, DeleteLabels
  <2> QED BY <1>0, <2>1, <2>2 DEF TypeOK
<1>2. Leaks'
  <2> USE DEF Leaks, Flow, BeforeSetup, Early, SetupLabels, DeleteLabels
  <2>1. CASE SetupSucceeds
    BY <1>0, <2>1
  <2>2. CASE SetupFails
    BY <1>0, <2>2
  <2>3. CASE NoProxy
    BY <1>0, <2>3
  <2>4. CASE plan.proxy /\ Create("proxy", "proxying", "creating")
    BY <1>0, <2>4
  <2>5. CASE Create("pod", "creating", "running")
    BY <1>0, <2>5
  <2> QED BY <2>1, <2>2, <2>3, <2>4, <2>5
<1>3. Flow'
  BY <1>0 DEF Flow, Early, Evaluating, Completing, Sealed, Concluded, SetupLabels,
     DeleteLabels
<1>4. Blamed'
  BY <1>0 DEF Blamed, TypeOK, Flow, Early, Evaluating, Completing, Sealed, Concluded,
     SetupLabels, DeleteLabels
<1>5. Settled'
  BY <1>0 DEF Settled, Early, Evaluating, Completing, Sealed, Concluded, SetupLabels,
     DeleteLabels
<1>6. Withdrawn'
  BY <1>0 DEF Withdrawn, Flow, Early, Evaluating, Completing, Sealed, Concluded,
     SetupLabels, DeleteLabels
<1>7. Recorded'
  BY <1>0 DEF Recorded, Flow, Early, Evaluating, Completing, Sealed, Concluded,
     SetupLabels, DeleteLabels
<1>8. Evidenced'
  BY <1>0 DEF Evidenced, Early, Evaluating, Completing, Sealed, Concluded, SetupLabels,
     DeleteLabels
<1>9. Path'
  BY <1>0, PathKept DEF Path, Sound, Resolved, Early, Evaluating, Completing, Sealed,
     Concluded, SetupLabels, DeleteLabels
<1> QED BY <1>1, <1>2, <1>3, <1>4, <1>5, <1>6, <1>7, <1>8, <1>9

\* The invariant survives the run of the agent.
LEMMA RunAgentInvariant == IInv /\ RunAgent => IInv'
<1> SUFFICES ASSUME IInv, RunAgent PROVE IInv'
  OBVIOUS
<1> USE DEF IInv, RunAgent, flowVars, clusterVars, auditVars, storeVars, Fails
<1>0. /\ eff' \in Eff /\ raising' \in BOOLEAN
      /\ \/ pc' = "snapshot" /\ raising' = raising
         \/ pc' = "finally"
  <2> DEFINE ran == [infra : {{}, {"fault"}}, exit : {"zero", "nonzero"}, image : {TRUE}]
                      \cup {[infra |-> {"fault"}, exit |-> "none", image |-> TRUE]}
  <2>1. ran \subseteq Eff
    <3>1. ASSUME NEW x \in [infra : {{}, {"fault"}}, exit : {"zero", "nonzero"}, image : {TRUE}]
          PROVE  x \in Eff
      BY <3>1 DEF Eff, Causes
    <3>2. [infra |-> {"fault"}, exit |-> "none", image |-> TRUE] \in Eff
      BY DEF Eff, Causes
    <3> QED BY <3>1, <3>2
  <2>2. Blame(eff, "fault") \in Eff
    BY BlameAdds DEF TypeOK, Causes
  <2>3. eff' \in ran \/ eff' = Blame(eff, "fault") \/ eff' = eff
    OBVIOUS
  <2> HIDE DEF ran
  <2>4. eff' \in Eff
    BY <2>1, <2>2, <2>3 DEF TypeOK
  <2> QED BY <2>4 DEF TypeOK
<1>1. TypeOK'
  BY <1>0, Corrected, Uncorrected DEF TypeOK, Labels, SetupLabels, DeleteLabels
<1>2. Leaks'
  BY <1>0 DEF Leaks, TypeOK, Flow, BeforeSetup, Early, Evaluating, Completing, Sealed,
     Concluded, SetupLabels, DeleteLabels
<1>3. Flow'
  BY <1>0 DEF Flow, Early, Evaluating, Completing, Sealed, Concluded, SetupLabels,
     DeleteLabels
<1>4. Blamed'
  BY <1>0 DEF Blamed, TypeOK, Flow, Early, Evaluating, Completing, Sealed, Concluded,
     SetupLabels, DeleteLabels
<1>5. Settled'
  BY <1>0 DEF Settled, Early, Evaluating, Completing, Sealed, Concluded, SetupLabels,
     DeleteLabels
<1>6. Withdrawn'
  BY <1>0 DEF Withdrawn, Flow, Early, Evaluating, Completing, Sealed, Concluded,
     SetupLabels, DeleteLabels
<1>7. Recorded'
  BY <1>0 DEF Recorded, Flow, Early, Evaluating, Completing, Sealed, Concluded,
     SetupLabels, DeleteLabels
<1>8. Evidenced'
  BY <1>0 DEF Evidenced, Early, Evaluating, Completing, Sealed, Concluded, SetupLabels,
     DeleteLabels
<1>9. Path'
  BY <1>0, PathKept DEF Path, Sound, Resolved, Early, Evaluating, Completing, Sealed,
     Concluded, SetupLabels, DeleteLabels
<1> QED BY <1>1, <1>2, <1>3, <1>4, <1>5, <1>6, <1>7, <1>8, <1>9

\* The invariant survives the copying of the workspace.
LEMMA SnapshotInvariant == IInv /\ Snapshot => IInv'
<1> SUFFICES ASSUME IInv, Snapshot PROVE IInv'
  OBVIOUS
<1> USE DEF IInv, Snapshot, flowVars, clusterVars, auditVars, storeVars, Fails
<1>1. TypeOK'
  <2>1. eff' \in Eff /\ cor' \in Cor /\ raising' \in BOOLEAN /\ snapshot' \in BOOLEAN
    BY BlameAdds, Corrected, Uncorrected DEF TypeOK, Causes
  <2> QED BY <2>1 DEF TypeOK, Labels, SetupLabels, DeleteLabels
<1>2. Leaks'
  BY DEF Leaks, TypeOK, Flow, BeforeSetup, Early, Evaluating, Completing, Sealed,
     Concluded, SetupLabels, DeleteLabels
<1>3. Flow'
  BY DEF Flow, Early, Evaluating, Completing, Sealed, Concluded, SetupLabels, DeleteLabels
<1>4. Blamed'
  BY DEF Blamed, TypeOK, Flow, Early, Evaluating, Completing, Sealed, Concluded,
     SetupLabels, DeleteLabels
<1>5. Settled'
  BY DEF Settled, Early, Evaluating, Completing, Sealed, Concluded, SetupLabels,
     DeleteLabels
<1>6. Withdrawn'
  BY DEF Withdrawn, Flow, Early, Evaluating, Completing, Sealed, Concluded, SetupLabels,
     DeleteLabels
<1>7. Recorded'
  BY DEF Recorded, Flow, Early, Evaluating, Completing, Sealed, Concluded, SetupLabels,
     DeleteLabels
<1>8. Evidenced'
  BY DEF Evidenced, Early, Evaluating, Completing, Sealed, Concluded, SetupLabels,
     DeleteLabels
<1>9. Path'
  BY PathKept DEF Path, Sound, Resolved, Early, Evaluating, Completing, Sealed, Concluded,
     SetupLabels, DeleteLabels
<1> QED BY <1>1, <1>2, <1>3, <1>4, <1>5, <1>6, <1>7, <1>8, <1>9

\* The invariant survives the end of the agent.
LEMMA AgentCompletedInvariant == IInv /\ AgentCompleted => IInv'
<1> SUFFICES ASSUME IInv, AgentCompleted PROVE IInv'
  OBVIOUS
<1> USE DEF IInv, AgentCompleted, flowVars, clusterVars, auditVars, storeVars
<1>0. PICK m \in Eff :
        /\ Kept /\ Written(Ev("agent.completed", IF m.infra # {} THEN "infrastructure_error"
                                                 ELSE "completed", snapshot), m)
        /\ eff.infra \subseteq m.infra
  <2>1. PICK mismatch \in {FALSE, plan.governed /\ eff.image} :
          LET e == BlameIf(eff, mismatch, "fault")
          IN Audit(Ev("agent.completed", IF e.infra # {} THEN "infrastructure_error"
                                         ELSE "completed", snapshot), e)
    OBVIOUS
  <2> DEFINE m == BlameIf(eff, mismatch, "fault")
  <2>2. /\ m \in Eff /\ eff.infra \subseteq m.infra /\ m.image = eff.image
    <3>1. mismatch \in BOOLEAN
      BY PlanTyped DEF TypeOK, Eff
    <3> QED BY <3>1, BlameIfAdds DEF TypeOK, Causes
  <2>3. Audit(Ev("agent.completed", IF m.infra # {} THEN "infrastructure_error"
                                    ELSE "completed", snapshot), m)
    BY <2>1
  <2> HIDE DEF m
  <2>4. Ev("agent.completed", IF m.infra # {} THEN "infrastructure_error"
                              ELSE "completed", snapshot) \in Event
    BY EventTyped DEF TypeOK, EventTypes
  <2> QED BY <2>2, <2>3, <2>4, Audited
<1>1. TypeOK'
  BY <1>0, PlanTyped DEF Kept, TypeOK, Labels, SetupLabels, DeleteLabels
<1>2. Leaks'
  BY <1>0 DEF Kept, Leaks, TypeOK, Flow, BeforeSetup, Early, Evaluating, Completing,
     Sealed, Concluded, SetupLabels, DeleteLabels
<1>3. Flow'
  BY <1>0 DEF Flow, Early, Evaluating, Completing, Sealed, Concluded, SetupLabels,
     DeleteLabels
<1>4. Blamed'
  BY <1>0 DEF Kept, Blamed, TypeOK, Flow, Early, Evaluating, Completing, Sealed,
     Concluded, SetupLabels, DeleteLabels
<1>5. Settled'
  BY <1>0 DEF Written, Kept, Settled, Early, Evaluating, Completing, Sealed, Concluded,
     SetupLabels, DeleteLabels
<1>6. Withdrawn'
  BY <1>0 DEF Kept, Withdrawn, Flow, Early, Evaluating, Completing, Sealed, Concluded,
     SetupLabels, DeleteLabels
<1>7. Recorded'
  BY <1>0 DEF Written, Kept, Recorded, Flow, Early, Evaluating, Completing, Sealed,
     Concluded, SetupLabels, DeleteLabels
<1>8. Evidenced'
  BY <1>0 DEF Kept, Evidenced, Early, Evaluating, Completing, Sealed, Concluded,
     SetupLabels, DeleteLabels
<1>9. Path'
  <2>1. ASSUME plan.governed, ~auditErr', snapshot, eff'.infra = {}
        PROVE  OnPath(4)'
    <3>1. OnPath(3) /\ m.infra = {}
      BY <1>0, <2>1 DEF Kept, Written, Path
    <3>2. Ev("agent.completed", IF m.infra # {} THEN "infrastructure_error"
                                ELSE "completed", snapshot) = Expected[4]
      BY <2>1, <3>1, ExpectedEvents DEF TypeOK
    <3>3. 3 \in 0 .. 10 /\ 4 = 3 + 1 /\ plan' = plan
      OBVIOUS
    <3> QED BY <1>0, <2>1, <3>1, <3>2, <3>3, PathGrows, Zenon
  <2> QED BY <1>0, <2>1 DEF Path, Sealed, DeleteLabels
<1> QED BY <1>1, <1>2, <1>3, <1>4, <1>5, <1>6, <1>7, <1>8, <1>9

\* The invariant survives the reading of the logs.
LEMMA ProxyLogsInvariant == IInv /\ ProxyLogs => IInv'
<1> SUFFICES ASSUME IInv, ProxyLogs PROVE IInv'
  OBVIOUS
<1> USE DEF IInv, ProxyLogs, flowVars, clusterVars, auditVars, storeVars
<1>0. eff' \in Eff /\ eff.infra \subseteq eff'.infra /\ eff'.image = eff.image
  BY BlameAdds DEF TypeOK, Causes
<1>1. TypeOK'
  BY <1>0, PlanTyped DEF TypeOK, Labels, SetupLabels, DeleteLabels
<1>2. Leaks'
  BY <1>0 DEF Leaks, TypeOK, Flow, BeforeSetup, Early, Evaluating, Completing, Sealed,
     Concluded, SetupLabels, DeleteLabels
<1>3. Flow'
  BY <1>0 DEF Flow, Early, Evaluating, Completing, Sealed, Concluded, SetupLabels,
     DeleteLabels
<1>4. Blamed'
  BY <1>0 DEF Blamed, TypeOK, Flow, Early, Evaluating, Completing, Sealed, Concluded,
     SetupLabels, DeleteLabels
<1>5. Settled'
  BY <1>0 DEF Settled, Early, Evaluating, Completing, Sealed, Concluded, SetupLabels,
     DeleteLabels
<1>6. Withdrawn'
  BY <1>0 DEF Withdrawn, Flow, Early, Evaluating, Completing, Sealed, Concluded,
     SetupLabels, DeleteLabels
<1>7. Recorded'
  BY <1>0 DEF Recorded, Flow, Early, Evaluating, Completing, Sealed, Concluded,
     SetupLabels, DeleteLabels
<1>8. Evidenced'
  BY <1>0 DEF Evidenced, Early, Evaluating, Completing, Sealed, Concluded, SetupLabels,
     DeleteLabels
<1>9. Path'
  <2>1. \A n : OnPath(n) => OnPath(n)'
    BY PathKept
  <2> QED BY <1>0, <2>1 DEF Path, Sound, Resolved, Early, Evaluating, Completing,
             Sealed, Concluded, SetupLabels, DeleteLabels
<1> QED BY <1>1, <1>2, <1>3, <1>4, <1>5, <1>6, <1>7, <1>8, <1>9

\* The invariant survives the deletion of the resources.
LEMMA DeleteResourcesInvariant == IInv /\ DeleteResources => IInv'
<1> SUFFICES ASSUME IInv, DeleteResources PROVE IInv'
  OBVIOUS
<1> USE DEF IInv, DeleteResources, flowVars, clusterVars, auditVars, storeVars, Delete
<1>1. TypeOK'
  BY PlanTyped DEF TypeOK, Labels, SetupLabels, DeleteLabels
<1>2. Leaks'
  <2> USE DEF Leaks, Flow, BeforeSetup, Early, SetupLabels, DeleteLabels
  <2>1. CASE pc = "delPod" /\ pc' = "delProxy" /\ Delete("pod")
    BY <2>1 DEF TypeOK, Resources
  <2>2. CASE pc = "delProxy" /\ pc' = "delSecret" /\ Delete("proxy")
    BY <2>2 DEF TypeOK, Resources
  <2>3. CASE pc = "delSecret" /\ pc' = "cleaned" /\ Delete("secret")
    BY <2>3 DEF TypeOK, Resources
  <2> QED BY <2>1, <2>2, <2>3
<1>3. Flow'
  BY DEF Flow, Early, Evaluating, Completing, Sealed, Concluded, SetupLabels, DeleteLabels
<1>4. Blamed'
  BY DEF Blamed, TypeOK, Flow, Early, Evaluating, Completing, Sealed, Concluded,
     SetupLabels, DeleteLabels
<1>5. Settled'
  BY DEF Settled, Early, Evaluating, Completing, Sealed, Concluded, SetupLabels,
     DeleteLabels
<1>6. Withdrawn'
  BY DEF Withdrawn, Flow, Early, Evaluating, Completing, Sealed, Concluded, SetupLabels,
     DeleteLabels
<1>7. Recorded'
  BY DEF Recorded, Flow, Early, Evaluating, Completing, Sealed, Concluded, SetupLabels,
     DeleteLabels
<1>8. Evidenced'
  BY DEF Evidenced, Early, Evaluating, Completing, Sealed, Concluded, SetupLabels,
     DeleteLabels
<1>9. Path'
  BY PathKept DEF Path, Sound, Resolved, Early, Evaluating, Completing, Sealed, Concluded,
     SetupLabels, DeleteLabels
<1> QED BY <1>1, <1>2, <1>3, <1>4, <1>5, <1>6, <1>7, <1>8, <1>9

\* The invariant survives an interrupt in the finally clause.
LEMMA InterruptCleanupInvariant == IInv /\ InterruptCleanup => IInv'
<1> SUFFICES ASSUME IInv, InterruptCleanup PROVE IInv'
  OBVIOUS
<1> USE DEF IInv, flowVars, auditVars, storeVars
<1>0. /\ pc \in DeleteLabels \cup {"cleaned"} /\ pc' \in {"interrupted", "raised"}
      /\ alive' \subseteq alive
      /\ UNCHANGED <<flowVars, held, cleanupErrors, eff, cor, graded, snapshot, auditVars,
                     attErr, count, outcome, storeVars>>
  BY DEF InterruptCleanup, DeletedAt, TypeOK, Resources, DeleteLabels
<1>1. TypeOK'
  BY <1>0 DEF TypeOK, Labels
<1>2. Leaks'
  BY <1>0 DEF Leaks, BeforeSetup, Early, SetupLabels, DeleteLabels
<1>3. Flow'
  BY <1>0 DEF Flow, Early, Evaluating, Concluded, Sealed, SetupLabels, DeleteLabels
<1>4. Blamed'
  BY <1>0 DEF Blamed
<1>5. Settled' /\ Withdrawn' /\ Evidenced'
  BY <1>0 DEF Settled, Withdrawn, Evidenced, Flow, Early, Completing, Concluded, Sealed
<1>6. Recorded'
  BY <1>0 DEF Recorded, Flow, Early, Sealed
<1>7. Path'
  BY <1>0 DEF Path, Sealed, DeleteLabels
<1> QED BY <1>1, <1>2, <1>3, <1>4, <1>5, <1>6, <1>7

\* The invariant survives the end of the cleanup.
LEMMA CleanupCompletedInvariant == IInv /\ CleanupCompleted => IInv'
<1> SUFFICES ASSUME IInv, CleanupCompleted PROVE IInv'
  OBVIOUS
<1> USE DEF IInv, CleanupCompleted, flowVars, clusterVars, auditVars, storeVars
<1>0. PICK m \in Eff :
        /\ Kept /\ Written(Ev("cleanup.completed", IF cleanupErrors # {} THEN "failed"
                                                   ELSE "completed", FALSE), m)
        /\ cleanupErrors # {} => m.infra # {}
  <2> DEFINE m == BlameIf(eff, cleanupErrors # {}, "fault")
             e == Ev("cleanup.completed", IF cleanupErrors # {} THEN "failed"
                                          ELSE "completed", FALSE)
  <2>1. Audit(e, m)
    OBVIOUS
  <2>2. /\ m \in Eff /\ eff.infra \subseteq m.infra /\ m.image = eff.image
        /\ cleanupErrors # {} => "fault" \in m.infra
    BY BlameIfAdds DEF TypeOK, Causes
  <2>3. e \in Event
    BY EventTyped DEF EventTypes
  <2> HIDE DEF m, e
  <2>4. Kept /\ Written(e, m)
    BY <2>1, <2>2, <2>3, Audited
  <2> QED BY <2>2, <2>4 DEF e
<1>1. TypeOK'
  <2>1. cor' \in Cor
    BY Uncorrected DEF TypeOK
  <2>2. guarded' \in BOOLEAN
    BY PlanTyped DEF TypeOK
  <2> QED BY <1>0, <2>1, <2>2 DEF Kept, TypeOK, Labels, SetupLabels, DeleteLabels
<1>2. Leaks'
  <2>1. pc' \notin Early \/ pc' = "raised"
    BY DEF Early, SetupLabels, DeleteLabels
  <2>2. alive = {} \/ eff'.infra # {} \/ pc' = "raised"
    BY <1>0 DEF Kept, Written, Leaks, Early, DeleteLabels
  <2> QED BY <2>1, <2>2 DEF Leaks, BeforeSetup, Early, SetupLabels, DeleteLabels
<1>3. Flow'
  BY <1>0 DEF Flow, Early, Evaluating, Completing, Sealed, Concluded, SetupLabels,
     DeleteLabels
<1>4. Blamed'
  BY <1>0 DEF Kept, Blamed, TypeOK, Flow, Early, Evaluating, Completing, Sealed,
     Concluded, SetupLabels, DeleteLabels
<1>5. Settled'
  BY <1>0 DEF Written, Kept, Settled, Early, Evaluating, Completing, Sealed, Concluded,
     SetupLabels, DeleteLabels
<1>6. Withdrawn'
  BY <1>0 DEF Kept, Withdrawn, Flow, Early, Evaluating, Completing, Sealed, Concluded,
     SetupLabels, DeleteLabels
<1>7. Recorded'
  BY <1>0 DEF Written, Kept, Recorded, Flow, Early, Evaluating, Completing, Sealed,
     Concluded, SetupLabels, DeleteLabels
<1>8. Evidenced'
  BY <1>0 DEF Kept, Evidenced, Early, Evaluating, Completing, Sealed, Concluded,
     SetupLabels, DeleteLabels
<1>9. Path'
  <2>1. ASSUME plan.governed, ~auditErr', snapshot, eff'.infra = {}
        PROVE  OnPath(5)'
    <3>1. OnPath(4) /\ cleanupErrors = {}
      BY <1>0, <2>1 DEF Kept, Written, Path, DeleteLabels
    <3>2. Ev("cleanup.completed", IF cleanupErrors # {} THEN "failed"
                                  ELSE "completed", FALSE) = Expected[5]
      BY <3>1, ExpectedEvents
    <3>3. 4 \in 0 .. 10 /\ 5 = 4 + 1 /\ plan' = plan
      OBVIOUS
    <3> QED BY <1>0, <2>1, <3>1, <3>2, <3>3, PathGrows, Zenon
  <2>2. pc' = "complete" => cor'.infra \/ cor'.integrity
    BY Uncorrected DEF TypeOK
  <2> QED BY <1>0, <2>1, <2>2 DEF Path, Sound, Sealed, DeleteLabels
<1> QED BY <1>1, <1>2, <1>3, <1>4, <1>5, <1>6, <1>7, <1>8, <1>9

\* The invariant survives the start of the evaluation.
LEMMA EvaluationStartedInvariant == IInv /\ EvaluationStarted => IInv'
<1> SUFFICES ASSUME IInv, EvaluationStarted PROVE IInv'
  OBVIOUS
<1> USE DEF IInv, EvaluationStarted, flowVars, clusterVars, auditVars, storeVars, Throw
<1>0. /\ Kept
      /\ pc' = "tests" => Written(Ev("evaluation.started", "none", TRUE), eff)
  <2>1. Ev("evaluation.started", "none", TRUE) \in Event
    BY EventTyped DEF TypeOK, EventTypes
  <2> QED BY <2>1, Audited, Unwritten DEF TypeOK
<1>1. TypeOK'
  <2>1. pc' \in Labels /\ raising' \in BOOLEAN
    BY DEF TypeOK, Labels, SetupLabels, DeleteLabels
  <2> QED BY <1>0, <2>1 DEF Kept, TypeOK
<1>2. Leaks'
  BY <1>0 DEF Kept, Leaks, TypeOK, Flow, BeforeSetup, Early, Evaluating, Completing,
     Sealed, Concluded, SetupLabels, DeleteLabels
<1>3. Flow'
  BY <1>0 DEF Flow, Early, Evaluating, Completing, Sealed, Concluded, SetupLabels,
     DeleteLabels
<1>4. Blamed'
  BY <1>0 DEF Kept, Blamed, TypeOK, Flow, Early, Evaluating, Completing, Sealed,
     Concluded, SetupLabels, DeleteLabels
<1>5. Settled'
  BY <1>0 DEF Written, Kept, Settled, Early, Evaluating, Completing, Sealed, Concluded,
     SetupLabels, DeleteLabels
<1>6. Withdrawn'
  BY <1>0 DEF Kept, Withdrawn, Flow, Early, Evaluating, Completing, Sealed, Concluded,
     SetupLabels, DeleteLabels
<1>7. Recorded'
  BY <1>0 DEF Written, Kept, Recorded, Flow, Early, Evaluating, Completing, Sealed,
     Concluded, SetupLabels, DeleteLabels
<1>8. Evidenced'
  BY <1>0 DEF Kept, Evidenced, Early, Evaluating, Completing, Sealed, Concluded,
     SetupLabels, DeleteLabels
<1>9. Path'
  <2>1. ASSUME plan.governed, ~auditErr', pc' = "tests", eff'.infra = {}
        PROVE  OnPath(6)'
    <3>1. OnPath(5) /\ ~auditErr
      BY <1>0, <2>1 DEF Kept, Path, Sound, Resolved, JudgeEvent
    <3>2. Ev("evaluation.started", "none", TRUE) = Expected[6]
      BY <1>0, <2>1, ExpectedEvents
    <3>3. 5 \in 0 .. 10 /\ 6 = 5 + 1 /\ plan' = plan
      OBVIOUS
    <3> QED BY <1>0, <2>1, <3>1, <3>2, <3>3, PathGrows, Zenon
  <2> QED BY <1>0, <2>1 DEF Kept, Path, Sound, Resolved, Early, Evaluating, Completing,
             Sealed, Concluded, SetupLabels, DeleteLabels
<1> QED BY <1>1, <1>2, <1>3, <1>4, <1>5, <1>6, <1>7, <1>8, <1>9

\* The invariant survives the tests.
LEMMA TestsInvariant == IInv /\ Tests => IInv'
<1> SUFFICES ASSUME IInv, Tests PROVE IInv'
  OBVIOUS
<1> USE DEF IInv, Tests, flowVars, clusterVars, auditVars, storeVars, Throw,
            UnsafeWorkspace, TestsCompleted
<1>0. /\ pc = "tests" /\ Kept /\ cor' \in Cor
      /\ pc' \in {"skipScans", "scans", "raised"} \/ (pc' = "failed" /\ guarded)
      /\ pc' = "skipScans" => cor'.integrity
      /\ pc' = "scans" =>
           Written(Ev("tests.completed", IF cor'.infra THEN "infrastructure_error"
                                         ELSE "completed", Resolved(cor')), eff)
  <2>1. CASE UnsafeWorkspace
    <3>1. /\ Ev("tests.completed", "integrity_rejected", FALSE) \in Event
          /\ cor' \in Cor /\ cor'.integrity
      BY <2>1, EventTyped, PlanTyped DEF EventTypes, NoTests, Cor
    <3> QED BY <2>1, <3>1, Audited DEF TypeOK
  <2>2. CASE TestsCompleted
    <3>1. cor' \in Cor /\ Resolved(cor') \in BOOLEAN
      BY <2>2, PlanTyped DEF Cor, Resolved
    <3>2. Ev("tests.completed", IF cor'.infra THEN "infrastructure_error"
                                ELSE "completed", Resolved(cor')) \in Event
      BY <3>1, EventTyped DEF EventTypes
    <3> QED BY <2>2, <3>1, <3>2, Audited DEF TypeOK
  <2>3. CASE Throw /\ UNCHANGED <<cor, eff, trail, auditErr>>
    BY <2>3, Unwritten DEF TypeOK
  <2> QED BY <2>1, <2>2, <2>3
<1>a. UNCHANGED <<flowVars, clusterVars, graded, snapshot, auditOpen, attErr, count, outcome,
                  storeVars>>
  OBVIOUS
<1> HIDE DEF Tests, UnsafeWorkspace, TestsCompleted, Throw
<1>1. TypeOK'
  BY <1>0, <1>a, PlanTyped DEF Kept, TypeOK, Labels, SetupLabels, DeleteLabels
<1>2. Leaks'
  BY <1>0, <1>a DEF Kept, Leaks, TypeOK, Flow, BeforeSetup, Early, Evaluating, Completing,
     Sealed, Concluded, SetupLabels, DeleteLabels
<1>3. Flow'
  BY <1>0, <1>a DEF Flow, Early, Evaluating, Completing, Sealed, Concluded, SetupLabels,
     DeleteLabels
<1>4. Blamed'
  BY <1>0, <1>a DEF Kept, Blamed, TypeOK, Flow, Early, Evaluating, Completing, Sealed,
     Concluded, SetupLabels, DeleteLabels
<1>5. Settled'
  BY <1>0, <1>a DEF Written, Kept, Settled, Early, Evaluating, Completing, Sealed,
     Concluded, SetupLabels, DeleteLabels
<1>6. Withdrawn'
  BY <1>0, <1>a DEF Kept, Withdrawn, Flow, Early, Evaluating, Completing, Sealed,
     Concluded, SetupLabels, DeleteLabels
<1>7. Recorded'
  BY <1>0, <1>a DEF Written, Kept, Recorded, Flow, Early, Evaluating, Completing, Sealed,
     Concluded, SetupLabels, DeleteLabels
<1>8. Evidenced'
  BY <1>0, <1>a DEF Kept, Evidenced, Early, Evaluating, Completing, Sealed, Concluded,
     SetupLabels, DeleteLabels
<1>9. Path'
  <2>1. ASSUME plan.governed, ~auditErr', pc' = "scans", eff'.infra = {}, ~cor'.infra,
               ~cor'.integrity
        PROVE  OnPath(7)'
    <3>1. OnPath(6) /\ ~auditErr
      BY <1>0, <1>a, <2>1 DEF Kept, Path
    <3>2. Resolved(cor') = cor'.passed
      BY <1>0, <2>1 DEF Resolved, Cor
    <3>3. Written(Ev("tests.completed", "completed", cor'.passed), eff)
      BY <1>0, <2>1, <3>2
    <3>4. /\ Len(trail') = 7 /\ trail'[7] = Ev("tests.completed", "completed", cor'.passed)
          /\ \A i \in 1 .. 6 : trail'[i] = Expected[i]
      BY <1>a, <2>1, <3>1, <3>3 DEF Written, OnPath
    <3>5. /\ Expected'[7] = Ev("tests.completed", "completed", cor'.passed)
          /\ \A i \in 1 .. 6 : Expected'[i] = Expected[i]
      BY DEF Expected
    <3>6. \A i \in 1 .. 7 : i = 7 \/ i \in 1 .. 6
      OBVIOUS
    <3> QED BY <3>4, <3>5, <3>6 DEF OnPath
  <2> QED BY <1>0, <1>a, <2>1 DEF Kept, Path, Sound, Resolved, Early, Evaluating, Completing,
             Sealed, Concluded, SetupLabels, DeleteLabels
<1> QED BY <1>1, <1>2, <1>3, <1>4, <1>5, <1>6, <1>7, <1>8, <1>9

\* The invariant survives the scanners.
LEMMA ScansInvariant == IInv /\ Scans => IInv'
<1> SUFFICES ASSUME IInv, Scans PROVE IInv'
  OBVIOUS
<1> USE DEF IInv, Scans, flowVars, clusterVars, auditVars, storeVars, Throw,
            ScansCompleted
<1>0. /\ pc = "scans" /\ Kept /\ cor' \in Cor /\ graded' \in Graded
      /\ pc' \in {"judge", "raised"} \/ (pc' = "failed" /\ guarded)
      /\ cor'.passed = cor.passed
      /\ ~cor'.infra /\ ~cor'.integrity => ~cor.infra /\ ~cor.integrity
      /\ pc' = "judge" =>
           Written(Ev("scanners.completed", IF plan.scans THEN "completed" ELSE "skipped",
                      FALSE), eff)
  <2>1. CASE ScansCompleted
    <3>1. Ev("scanners.completed", IF plan.scans THEN "completed" ELSE "skipped", FALSE)
            \in Event
      BY EventTyped DEF EventTypes
    <3>2. PICK complete \in BOOLEAN, scans \in {FALSE, plan.scans} :
            /\ cor' = [cor EXCEPT !.integrity = @ \/ ~complete]
            /\ graded' \in [scans : {scans}, safe : {FALSE, complete /\ plan.scans},
                            score : {FALSE}, gates : {FALSE}]
      BY <2>1
    <3>3. /\ cor' \in Cor /\ cor'.passed = cor.passed
          /\ ~cor'.infra /\ ~cor'.integrity => ~cor.infra /\ ~cor.integrity
      BY <3>2 DEF TypeOK, Cor
    <3>4. graded' \in Graded
      BY <3>2, PlanTyped DEF Graded
    <3> QED BY <2>1, <3>1, <3>3, <3>4, Audited DEF TypeOK
  <2>2. CASE /\ Throw /\ cor' \in {cor, [cor EXCEPT !.integrity = TRUE]}
             /\ UNCHANGED <<graded, eff, trail, auditErr>>
    <3>1. cor' = cor \/ cor' = [cor EXCEPT !.integrity = TRUE]
      BY <2>2
    <3>2. /\ cor' \in Cor /\ cor'.passed = cor.passed
          /\ cor' = cor \/ cor'.integrity
      BY <3>1, Corrected DEF TypeOK
    <3> QED BY <2>2, <3>2, Unwritten DEF TypeOK
  <2> QED BY <2>1, <2>2
<1>a. UNCHANGED <<flowVars, clusterVars, snapshot, auditOpen, attErr, count, outcome,
                  storeVars>>
  OBVIOUS
<1> HIDE DEF Scans, ScansCompleted, Throw
<1>1. TypeOK'
  BY <1>0, <1>a, PlanTyped DEF Kept, TypeOK, Labels, SetupLabels, DeleteLabels
<1>2. Leaks'
  BY <1>0, <1>a DEF Kept, Leaks, TypeOK, Flow, BeforeSetup, Early, Evaluating, Completing,
     Sealed, Concluded, SetupLabels, DeleteLabels
<1>3. Flow'
  BY <1>0, <1>a DEF Flow, Early, Evaluating, Completing, Sealed, Concluded, SetupLabels,
     DeleteLabels
<1>4. Blamed'
  BY <1>0, <1>a DEF Kept, Blamed, TypeOK, Flow, Early, Evaluating, Completing, Sealed,
     Concluded, SetupLabels, DeleteLabels
<1>5. Settled'
  BY <1>0, <1>a DEF Written, Kept, Settled, Early, Evaluating, Completing, Sealed,
     Concluded, SetupLabels, DeleteLabels
<1>6. Withdrawn'
  BY <1>0, <1>a DEF Kept, Withdrawn, Flow, Early, Evaluating, Completing, Sealed,
     Concluded, SetupLabels, DeleteLabels
<1>7. Recorded'
  BY <1>0, <1>a DEF Written, Kept, Recorded, Flow, Early, Evaluating, Completing, Sealed,
     Concluded, SetupLabels, DeleteLabels
<1>8. Evidenced'
  BY <1>0, <1>a DEF Kept, Evidenced, Early, Evaluating, Completing, Sealed, Concluded,
     SetupLabels, DeleteLabels
<1>9. Path'
  <2>1. ASSUME plan.governed, ~auditErr', pc' = "judge", Sound'
        PROVE  OnPath(8)'
    <3>1. OnPath(7) /\ ~auditErr
      BY <1>0, <1>a, <2>1 DEF Kept, Path, Sound, Resolved, JudgeEvent
    <3>2. Ev("scanners.completed", IF plan.scans THEN "completed" ELSE "skipped", FALSE)
            = Expected[8]
      BY <1>0, <1>a, <2>1, ExpectedEvents
    <3>3. 7 \in 0 .. 10 /\ 8 = 7 + 1 /\ plan' = plan
      BY <1>a
    <3> QED BY <1>0, <1>a, <2>1, <3>1, <3>2, <3>3, PathGrows, Zenon
  <2> QED BY <1>0, <1>a, <2>1 DEF Kept, Path, Sound, Resolved, Early, Evaluating, Completing,
             Sealed, Concluded, SetupLabels, DeleteLabels
<1> QED BY <1>1, <1>2, <1>3, <1>4, <1>5, <1>6, <1>7, <1>8, <1>9

\* The invariant survives the judge.
LEMMA JudgeInvariant == IInv /\ Judge => IInv'
<1> SUFFICES ASSUME IInv, Judge PROVE IInv'
  OBVIOUS
<1> USE DEF IInv, Judge, flowVars, clusterVars, auditVars, storeVars, Throw
<1>0. /\ pc = "judge" /\ Kept /\ graded' \in Graded
      /\ pc' \in {"complete", "raised"} \/ (pc' = "failed" /\ guarded)
      /\ pc' = "complete" /\ (plan.judge => graded'.score) => Written(JudgeEvent, eff)
  <2>0. TypeOK /\ Blamed
    OBVIOUS
  <2> HIDE DEF IInv, Throw
  <2>j. /\ \E score \in {FALSE, plan.judge /\ graded.safe}, gates \in BOOLEAN :
             graded' = [graded EXCEPT !.score = score, !.gates = gates]
        /\ pc = "judge"
    OBVIOUS
  <2>k. \/ /\ pc' = "complete" \/ Throw
           /\ \/ /\ plan.judge /\ graded.safe
                 /\ Audit(Ev("judge.completed", "completed", graded'.score), eff)
              \/ /\ plan.judge /\ ~graded'.score
                 /\ Audit(Ev("judge.skipped", "skipped", FALSE), eff)
              \/ ~plan.judge /\ Audit(Ev("judge.skipped", "disabled", FALSE), eff)
        \/ Throw /\ UNCHANGED <<eff, trail, auditErr>>
    OBVIOUS
  <2> HIDE DEF Judge
  <2>1. PICK score \in {FALSE, plan.judge /\ graded.safe}, gates \in BOOLEAN :
          graded' = [graded EXCEPT !.score = score, !.gates = gates]
    BY <2>j
  <2>2. score \in BOOLEAN /\ (score => plan.judge /\ graded.safe)
    BY <2>0, <2>1, PlanTyped DEF TypeOK, Graded
  <2>3. graded' \in Graded /\ graded'.score = score
    BY <2>0, <2>1, <2>2 DEF TypeOK, Graded
  <2>a. pc = "judge" /\ (pc' = "complete" \/ pc' = "raised" \/ (guarded /\ pc' = "failed"))
    BY <2>j, <2>k DEF Throw
  <2>4. CASE /\ plan.judge /\ graded.safe
             /\ Audit(Ev("judge.completed", "completed", graded'.score), eff)
    <3>1. Ev("judge.completed", "completed", graded'.score) \in Event
      BY <2>2, <2>3, EventTyped DEF EventTypes
    <3>2. Kept /\ Written(Ev("judge.completed", "completed", graded'.score), eff)
      BY <2>4, <3>1, <2>0, Audited DEF TypeOK
    <3> QED BY <2>2, <2>3, <2>4, <3>2, <2>a DEF JudgeEvent
  <2>5. CASE /\ plan.judge /\ ~graded'.score
             /\ Audit(Ev("judge.skipped", "skipped", FALSE), eff)
    <3>1. Ev("judge.skipped", "skipped", FALSE) \in Event
      BY EventTyped DEF EventTypes
    <3>2. Kept
      BY <2>5, <3>1, <2>0, Audited DEF TypeOK
    <3> QED BY <2>3, <2>5, <3>2, <2>a
  <2>6. CASE ~plan.judge /\ Audit(Ev("judge.skipped", "disabled", FALSE), eff)
    <3>1. Ev("judge.skipped", "disabled", FALSE) \in Event
      BY EventTyped DEF EventTypes
    <3>2. Kept /\ Written(Ev("judge.skipped", "disabled", FALSE), eff)
      BY <2>6, <3>1, <2>0, Audited DEF TypeOK
    <3> QED BY <2>3, <2>6, <3>2, <2>a DEF JudgeEvent
  <2>7. CASE Throw /\ UNCHANGED <<eff, trail, auditErr>>
    BY <2>3, <2>7, <2>0, <2>a, Unwritten DEF Throw
  <2> QED BY <2>k, <2>4, <2>5, <2>6, <2>7
<1>a. UNCHANGED <<flowVars, clusterVars, cor, snapshot, auditOpen, attErr, count, outcome,
                  storeVars>>
  OBVIOUS
<1> HIDE DEF Judge, Throw
<1>1. TypeOK'
  BY <1>0, <1>a, PlanTyped DEF Kept, TypeOK, Labels, SetupLabels, DeleteLabels
<1>2. Leaks'
  BY <1>0, <1>a DEF Kept, Leaks, TypeOK, Flow, BeforeSetup, Early, Evaluating, Completing,
     Sealed, Concluded, SetupLabels, DeleteLabels
<1>3. Flow'
  BY <1>0, <1>a DEF Flow, Early, Evaluating, Completing, Sealed, Concluded, SetupLabels,
     DeleteLabels
<1>4. Blamed'
  BY <1>0, <1>a DEF Kept, Blamed, TypeOK, Flow, Early, Evaluating, Completing, Sealed,
     Concluded, SetupLabels, DeleteLabels
<1>5. Settled'
  BY <1>0, <1>a DEF Written, Kept, Settled, Early, Evaluating, Completing, Sealed,
     Concluded, SetupLabels, DeleteLabels
<1>6. Withdrawn'
  BY <1>0, <1>a DEF Kept, Withdrawn, Flow, Early, Evaluating, Completing, Sealed,
     Concluded, SetupLabels, DeleteLabels
<1>7. Recorded'
  BY <1>0, <1>a DEF Written, Kept, Recorded, Flow, Early, Evaluating, Completing, Sealed,
     Concluded, SetupLabels, DeleteLabels
<1>8. Evidenced'
  BY <1>0, <1>a DEF Kept, Evidenced, Early, Evaluating, Completing, Sealed, Concluded,
     SetupLabels, DeleteLabels
<1>9. Path'
  <2>1. ASSUME plan.governed, ~auditErr', pc' = "complete", Sound', plan.judge => graded'.score
        PROVE  OnPath(9)'
    <3>1. OnPath(8) /\ ~auditErr
      BY <1>0, <1>a, <2>1 DEF Kept, Path, Sound, Resolved
    <3>2. JudgeEvent = Expected[9]
      BY <1>0, <1>a, <2>1, ExpectedEvents
    <3>3. 8 \in 0 .. 10 /\ 9 = 8 + 1 /\ plan' = plan
      BY <1>a
    <3> QED BY <1>0, <1>a, <2>1, <3>1, <3>2, <3>3, PathGrows, Zenon
  <2> QED BY <1>0, <1>a, <2>1 DEF Kept, Path, Sound, Resolved, Early, Evaluating, Completing,
             Sealed, Concluded, SetupLabels, DeleteLabels
<1> QED BY <1>1, <1>2, <1>3, <1>4, <1>5, <1>6, <1>7, <1>8, <1>9

\* The invariant survives what an unsafe workspace skips.
LEMMA SkipInvariant == IInv /\ Skip => IInv'
<1> SUFFICES ASSUME IInv, Skip PROVE IInv'
  OBVIOUS
<1> USE DEF IInv, Skip, flowVars, clusterVars, auditVars, storeVars
<1>0. Kept
  <2>1. /\ Ev("scanners.completed", "skipped", FALSE) \in Event
        /\ Ev("judge.skipped", "skipped", FALSE) \in Event
    BY EventTyped DEF EventTypes
  <2> QED BY <2>1, Audited DEF TypeOK
<1>1. TypeOK'
  BY <1>0, PlanTyped DEF Kept, TypeOK, Labels, SetupLabels, DeleteLabels
<1>2. Leaks'
  BY <1>0 DEF Kept, Leaks, TypeOK, Flow, BeforeSetup, Early, Evaluating, Completing,
     Sealed, Concluded, SetupLabels, DeleteLabels
<1>3. Flow'
  BY <1>0 DEF Flow, Early, Evaluating, Completing, Sealed, Concluded, SetupLabels,
     DeleteLabels
<1>4. Blamed'
  BY <1>0 DEF Kept, Blamed, TypeOK, Flow, Early, Evaluating, Completing, Sealed,
     Concluded, SetupLabels, DeleteLabels
<1>5. Settled'
  BY <1>0 DEF Written, Kept, Settled, Early, Evaluating, Completing, Sealed, Concluded,
     SetupLabels, DeleteLabels
<1>6. Withdrawn'
  BY <1>0 DEF Kept, Withdrawn, Flow, Early, Evaluating, Completing, Sealed, Concluded,
     SetupLabels, DeleteLabels
<1>7. Recorded'
  BY <1>0 DEF Written, Kept, Recorded, Flow, Early, Evaluating, Completing, Sealed,
     Concluded, SetupLabels, DeleteLabels
<1>8. Evidenced'
  BY <1>0 DEF Kept, Evidenced, Early, Evaluating, Completing, Sealed, Concluded,
     SetupLabels, DeleteLabels
<1>9. Path'
  BY <1>0 DEF Kept, Flow, Path, Sound, Resolved, Sealed, DeleteLabels
<1> QED BY <1>1, <1>2, <1>3, <1>4, <1>5, <1>6, <1>7, <1>8, <1>9

\* The invariant survives a failed evaluation.
LEMMA EvaluationFailedInvariant == IInv /\ EvaluationFailed => IInv'
<1> SUFFICES ASSUME IInv, EvaluationFailed PROVE IInv'
  OBVIOUS
<1> USE DEF IInv, EvaluationFailed, flowVars, clusterVars, auditVars, storeVars
<1>0. Kept
  <2>1. Ev("evaluation.failed", "none", FALSE) \in Event
    BY EventTyped DEF TypeOK, EventTypes
  <2> QED BY <2>1, Audited DEF TypeOK
<1>1. TypeOK'
  BY <1>0, Corrected DEF Kept, TypeOK, Labels, SetupLabels, DeleteLabels
<1>2. Leaks'
  BY <1>0 DEF Kept, Leaks, TypeOK, Flow, BeforeSetup, Early, Evaluating, Completing,
     Sealed, Concluded, SetupLabels, DeleteLabels
<1>3. Flow'
  BY <1>0 DEF Flow, Early, Evaluating, Completing, Sealed, Concluded, SetupLabels,
     DeleteLabels
<1>4. Blamed'
  BY <1>0 DEF Kept, Blamed, TypeOK, Flow, Early, Evaluating, Completing, Sealed,
     Concluded, SetupLabels, DeleteLabels
<1>5. Settled'
  BY <1>0 DEF Written, Kept, Settled, Early, Evaluating, Completing, Sealed, Concluded,
     SetupLabels, DeleteLabels
<1>6. Withdrawn'
  BY <1>0, Corrected DEF TypeOK, Withdrawn, Completing
<1>7. Recorded'
  BY <1>0 DEF Written, Kept, Recorded, Flow, Early, Evaluating, Completing, Sealed,
     Concluded, SetupLabels, DeleteLabels
<1>8. Evidenced'
  BY <1>0 DEF Kept, Evidenced, Early, Evaluating, Completing, Sealed, Concluded,
     SetupLabels, DeleteLabels
<1>9. Path'
  BY Corrected DEF TypeOK, Path, Sound, Resolved, Sealed, DeleteLabels
<1> QED BY <1>1, <1>2, <1>3, <1>4, <1>5, <1>6, <1>7, <1>8, <1>9

\* The invariant survives the verdict.
LEMMA OutcomeDecidedInvariant == IInv /\ OutcomeDecided => IInv'
<1> SUFFICES ASSUME IInv, OutcomeDecided PROVE IInv'
  OBVIOUS
<1> USE DEF IInv, OutcomeDecided, flowVars, clusterVars, auditVars, storeVars
<1>0. PICK m \in Eff :
        /\ Kept /\ Written(Ev("outcome.decided", outcome', FALSE), m)
        /\ eff.infra \subseteq m.infra /\ m.image = eff.image
        /\ outcome' = Verdict(plan, m, cor, graded) /\ outcome' \in Outcomes
        /\ plan.governed /\ m.infra = {} => /\ cor.isolated /\ eff.image
                                            /\ plan.scans => graded.scans
                                            /\ plan.judge => graded.score
  <2>1. PICK intact \in BOOLEAN :
          LET e == EvidenceChecked(eff, intact)
          IN /\ outcome' = Verdict(plan, e, cor, graded)
             /\ Audit(Ev("outcome.decided", outcome', FALSE), e)
    OBVIOUS
  <2> DEFINE e == EvidenceChecked(eff, intact)
  <2>2. /\ e \in Eff /\ eff.infra \subseteq e.infra /\ e.image = eff.image
        /\ plan.governed /\ e.infra = {} => /\ cor.isolated /\ eff.image
                                            /\ plan.scans => graded.scans
                                            /\ plan.judge => graded.score
    BY Checked
  <2>3. /\ outcome' = Verdict(plan, e, cor, graded)
        /\ Audit(Ev("outcome.decided", outcome', FALSE), e)
    BY <2>1
  <2> HIDE DEF e
  <2>4. outcome' \in Outcomes
    BY <2>3, Verdicts
  <2>5. Ev("outcome.decided", outcome', FALSE) \in Event
    BY <2>4, EventTyped DEF EventTypes
  <2>6. Kept /\ Written(Ev("outcome.decided", outcome', FALSE), e)
    BY <2>2, <2>3, <2>5, Audited
  <2> QED BY <2>2, <2>3, <2>4, <2>6
<1>a. /\ pc = "complete" /\ pc' = "runCompleted"
      /\ UNCHANGED <<flowVars, clusterVars, cor, graded, snapshot, auditOpen, attErr, count,
                     storeVars>>
  OBVIOUS
<1> HIDE DEF OutcomeDecided
<1>1. TypeOK'
  BY <1>0, <1>a, PlanTyped DEF Kept, TypeOK, Labels, SetupLabels, DeleteLabels
<1>2. Leaks'
  BY <1>0, <1>a DEF Kept, Leaks, TypeOK, Flow, BeforeSetup, Early, Evaluating, Completing,
     Sealed, Concluded, SetupLabels, DeleteLabels
<1>3. Flow'
  BY <1>0, <1>a DEF Flow, Early, Evaluating, Completing, Sealed, Concluded, SetupLabels,
     DeleteLabels
<1>4. Blamed'
  BY <1>0, <1>a DEF Kept, Blamed, TypeOK, Flow, Early, Evaluating, Completing, Sealed,
     Concluded, SetupLabels, DeleteLabels
<1>5. Settled'
  BY <1>0, <1>a DEF Written, Kept, Settled, Early, Evaluating, Completing, Sealed,
     Concluded, SetupLabels, DeleteLabels
<1>6. Withdrawn'
  BY <1>0, <1>a DEF Kept, Withdrawn, Flow, Early, Evaluating, Completing, Sealed,
     Concluded, SetupLabels, DeleteLabels
<1>7. Recorded'
  BY <1>0, <1>a DEF Written, Kept, Recorded, Flow, Early, Evaluating, Completing, Sealed,
     Concluded, SetupLabels, DeleteLabels
<1>8. Evidenced'
  BY <1>0, <1>a, Verdicts DEF Kept, Evidenced
<1>9. Path'
  <2>1. ASSUME plan.governed, ~auditErr', outcome' = "accepted"
        PROVE  OnPath(10)'
    <3>1. m.infra = {} /\ ~cor.infra /\ ~cor.integrity
      BY <1>0, <2>1, Verdicts
    <3>2. OnPath(9)
      BY <1>0, <1>a, <2>1, <3>1 DEF Kept, Path, Sound, Completing
    <3>3. Ev("outcome.decided", outcome', FALSE) = Expected[10]
      BY <2>1, ExpectedEvents
    <3>4. 9 \in 0 .. 10 /\ 10 = 9 + 1 /\ plan' = plan
      BY <1>a
    <3> QED BY <1>0, <1>a, <2>1, <3>2, <3>3, <3>4, PathGrows, Zenon
  <2> QED BY <1>0, <1>a, <2>1 DEF Path, Sealed, DeleteLabels
<1> QED BY <1>1, <1>2, <1>3, <1>4, <1>5, <1>6, <1>7, <1>8, <1>9

\* The invariant survives the last event.
LEMMA RunCompletedInvariant == IInv /\ RunCompleted => IInv'
<1> SUFFICES ASSUME IInv, RunCompleted PROVE IInv'
  OBVIOUS
<1> USE DEF IInv, RunCompleted, flowVars, clusterVars, auditVars, storeVars
<1>0. Kept /\ Written(Ev("run.completed", outcome, FALSE), eff)
  <2>1. Ev("run.completed", outcome, FALSE) \in Event
    BY EventTyped DEF Flow, Concluded, EventTypes
  <2> QED BY <2>1, Audited DEF TypeOK
<1>1. TypeOK'
  BY <1>0, PlanTyped DEF Kept, TypeOK, Labels, SetupLabels, DeleteLabels
<1>2. Leaks'
  BY <1>0 DEF Kept, Leaks, TypeOK, Flow, BeforeSetup, Early, Evaluating, Completing,
     Sealed, Concluded, SetupLabels, DeleteLabels
<1>3. Flow'
  BY <1>0 DEF Flow, Early, Evaluating, Completing, Sealed, Concluded, SetupLabels,
     DeleteLabels
<1>4. Blamed'
  BY <1>0 DEF Kept, Blamed, TypeOK, Flow, Early, Evaluating, Completing, Sealed,
     Concluded, SetupLabels, DeleteLabels
<1>5. Settled'
  BY <1>0 DEF Written, Kept, Settled, Early, Evaluating, Completing, Sealed, Concluded,
     SetupLabels, DeleteLabels
<1>6. Withdrawn'
  BY <1>0 DEF Kept, Withdrawn, Flow, Early, Evaluating, Completing, Sealed, Concluded,
     SetupLabels, DeleteLabels
<1>7. Recorded'
  <2>1. plan.governed /\ ~auditErr' =>
          Len(trail') > 0 /\ trail'[Len(trail')] = Ev("run.completed", outcome, FALSE)
    <3>1. Len(trail) \in Nat
      BY DEF TypeOK
    <3>2. plan.governed /\ ~auditErr' =>
            /\ Len(trail') = Len(trail) + 1
            /\ trail'[Len(trail) + 1] = Ev("run.completed", outcome, FALSE)
      BY <1>0 DEF Written
    <3>3. ASSUME plan.governed, ~auditErr'
          PROVE  /\ Len(trail') > 0
                 /\ trail'[Len(trail')] = Ev("run.completed", outcome, FALSE)
      <4>1. Len(trail') > 0
        BY <3>1, <3>2, <3>3
      <4>2. trail'[Len(trail')] = trail'[Len(trail) + 1]
        BY <3>2, <3>3
      <4> QED BY <3>2, <3>3, <4>1, <4>2
    <3> QED BY <3>3
  <2>2. row # NoRow => trail' = trail
    BY <1>0 DEF Kept, Recorded
  <2> QED BY <2>1, <2>2 DEF Recorded, Sealed
<1>8. Evidenced'
  BY <1>0 DEF Kept, Evidenced, Early, Evaluating, Completing, Sealed, Concluded,
     SetupLabels, DeleteLabels
<1>9. Path'
  <2>1. ASSUME plan.governed, ~auditErr', outcome = "accepted", Sound'
        PROVE  OnPath(11)'
    <3>1. OnPath(10)
      BY <1>0, <2>1 DEF Kept, Path, Sound, Resolved
    <3>2. Ev("run.completed", outcome, FALSE) = Expected[11]
      BY <2>1, ExpectedEvents
    <3>3. 10 \in 0 .. 10 /\ 11 = 10 + 1 /\ plan' = plan
      OBVIOUS
    <3> QED BY <1>0, <2>1, <3>1, <3>2, <3>3, PathGrows, Zenon
  <2> QED BY <1>0, <2>1 DEF Path, Sealed, DeleteLabels
<1> QED BY <1>1, <1>2, <1>3, <1>4, <1>5, <1>6, <1>7, <1>8, <1>9

\* The invariant survives the closing of the trail.
LEMMA SealInvariant == IInv /\ Seal => IInv'
<1> SUFFICES ASSUME IInv, Seal PROVE IInv'
  OBVIOUS
<1> USE DEF IInv, Seal, flowVars, clusterVars, auditVars, storeVars
<1>0. /\ eff' \in Eff /\ eff.infra \subseteq eff'.infra /\ eff'.image = eff.image
      /\ auditErr' \in BOOLEAN /\ (auditErr => auditErr')
      /\ auditErr' => plan.governed /\ eff'.infra # {}
      /\ ~auditErr' => eff' = eff
  <2>1. /\ Blame(eff, "fault") \in Eff /\ Blame(eff, "fault").infra = eff.infra \cup {"fault"}
        /\ Blame(eff, "fault").image = eff.image
    BY BlameAdds DEF TypeOK, Causes
  <2>2. CASE UNCHANGED <<eff, auditErr>>
    BY <2>2 DEF TypeOK, Blamed
  <2>3. CASE auditOpen /\ auditErr' = TRUE /\ eff' = Blame(eff, "fault")
    BY <2>1, <2>3 DEF Flow
  <2> QED BY <2>2, <2>3
<1>a. /\ outcome' \in Outcomes /\ outcome' = Verdict(plan, eff', cor, graded)
      /\ auditErr' => outcome' = "infra_error"
      /\ ~auditErr' => outcome' = outcome
  BY <1>0, Verdicts DEF Settled
<1>1. TypeOK'
  <2>1. count' \in Nat
    BY DEF TypeOK
  <2> QED BY <1>0, <1>a, <2>1 DEF TypeOK, Labels
<1>2. Leaks'
  BY <1>0, <1>a DEF Leaks, TypeOK, Flow, BeforeSetup, Early, Evaluating, Completing,
     Sealed, Concluded, SetupLabels, DeleteLabels
<1>3. Flow'
  BY <1>0, <1>a DEF Flow, Early, Evaluating, Completing, Sealed, Concluded, SetupLabels,
     DeleteLabels
<1>4. Blamed'
  BY <1>0, <1>a DEF Blamed, TypeOK, Flow, Early, Evaluating, Completing, Sealed,
     Concluded, SetupLabels, DeleteLabels
<1>5. Settled'
  BY <1>0, <1>a DEF Settled, Early, Evaluating, Completing, Sealed, Concluded,
     SetupLabels, DeleteLabels
<1>6. Withdrawn'
  BY <1>0, <1>a DEF Withdrawn, Flow, Early, Evaluating, Completing, Sealed, Concluded,
     SetupLabels, DeleteLabels
<1>7. Recorded'
  BY <1>0, <1>a DEF Recorded, Flow, Early, Evaluating, Completing, Sealed, Concluded,
     SetupLabels, DeleteLabels
<1>8. Evidenced'
  BY <1>0, <1>a DEF Evidenced, Early, Evaluating, Completing, Sealed, Concluded,
     SetupLabels, DeleteLabels
<1>9. Path'
  <2>1. \A n : OnPath(n) => OnPath(n)'
    BY PathKept
  <2> QED BY <1>0, <1>a, <2>1 DEF Path, Sound, Resolved, Early, Evaluating, Completing,
             Sealed, Concluded, SetupLabels, DeleteLabels
<1> QED BY <1>1, <1>2, <1>3, <1>4, <1>5, <1>6, <1>7, <1>8, <1>9

\* The invariant survives the check of the artifacts.
LEMMA ContainInvariant == IInv /\ Contain => IInv'
<1> SUFFICES ASSUME IInv, Contain PROVE IInv'
  OBVIOUS
<1> USE DEF IInv, Contain, flowVars, clusterVars, auditVars, storeVars
<1>0. /\ eff' \in Eff /\ eff.infra \subseteq eff'.infra /\ eff'.image = eff.image
      /\ uncontained' \in BOOLEAN /\ attErr' \in BOOLEAN
      /\ attErr' => eff'.infra # {}
  <2>1. /\ Blame(eff, "fault") \in Eff /\ Blame(eff, "fault").infra = eff.infra \cup {"fault"}
        /\ Blame(eff, "fault").image = eff.image
    BY BlameAdds DEF TypeOK, Causes
  <2>2. CASE uncontained' = FALSE /\ UNCHANGED <<eff, attErr>>
    BY <2>2 DEF TypeOK, Blamed
  <2>3. CASE uncontained' = TRUE /\ attErr' = TRUE /\ eff' = Blame(eff, "fault")
    BY <2>1, <2>3
  <2> QED BY <2>2, <2>3
<1>a. /\ outcome' \in Outcomes /\ outcome' = Verdict(plan, eff', cor, graded)
      /\ outcome' = outcome \/ (outcome' = "infra_error" /\ eff'.infra # {})
  <2>1. CASE UNCHANGED <<eff, attErr, outcome>>
    <3>1. outcome = Verdict(plan, eff, cor, graded)
      BY DEF Settled, Sealed
    <3> QED BY <2>1, <3>1, Verdicts
  <2>2. CASE eff' = Blame(eff, "fault") /\ outcome' = Verdict(plan, eff', cor, graded)
    <3>1. eff'.infra # {}
      BY <2>2, BlameAdds DEF TypeOK, Causes
    <3>2. Verdict(plan, eff', cor, graded) \in Outcomes /\ Verdict(plan, eff', cor, graded) = "infra_error"
      BY ONLY <3>1, Verdicts
    <3> QED BY <2>2, <3>1, <3>2
  <2> QED BY <2>1, <2>2
<1>1. TypeOK'
  BY <1>0, <1>a, PlanTyped DEF TypeOK, Labels, SetupLabels, DeleteLabels
<1>2. Leaks'
  BY <1>0, <1>a DEF Leaks, TypeOK, Flow, BeforeSetup, Early, Evaluating, Completing,
     Sealed, Concluded, SetupLabels, DeleteLabels
<1>3. Flow'
  BY <1>0, <1>a DEF Flow, Early, Evaluating, Completing, Sealed, Concluded, SetupLabels,
     DeleteLabels
<1>4. Blamed'
  BY <1>0, <1>a DEF Blamed, TypeOK, Flow, Early, Evaluating, Completing, Sealed,
     Concluded, SetupLabels, DeleteLabels
<1>5. Settled'
  BY <1>0, <1>a DEF Settled, Early, Evaluating, Completing, Sealed, Concluded,
     SetupLabels, DeleteLabels
<1>6. Withdrawn'
  BY <1>0, <1>a DEF Withdrawn, Flow, Early, Evaluating, Completing, Sealed, Concluded,
     SetupLabels, DeleteLabels
<1>7. Recorded'
  BY <1>0, <1>a DEF Recorded, Flow, Early, Evaluating, Completing, Sealed, Concluded,
     SetupLabels, DeleteLabels
<1>8. Evidenced'
  BY <1>0, <1>a DEF Evidenced, Early, Evaluating, Completing, Sealed, Concluded,
     SetupLabels, DeleteLabels
<1>9. Path'
  <2>1. \A n : OnPath(n) => OnPath(n)'
    BY PathKept
  <2> QED BY <1>0, <1>a, <2>1 DEF Path, Sound, Resolved, Early, Evaluating, Completing,
             Sealed, Concluded, SetupLabels, DeleteLabels
<1> QED BY <1>1, <1>2, <1>3, <1>4, <1>5, <1>6, <1>7, <1>8, <1>9

\* The invariant survives the redaction.
LEMMA RedactInvariant == IInv /\ Redact => IInv'
<1> SUFFICES ASSUME IInv, Redact PROVE IInv'
  OBVIOUS
<1> USE DEF IInv, Redact, flowVars, clusterVars, auditVars, storeVars, Throw
<1>1. TypeOK'
  BY PlanTyped DEF TypeOK, Labels, SetupLabels, DeleteLabels
<1>2. Leaks'
  BY DEF Leaks, TypeOK, Flow, BeforeSetup, Early, Evaluating, Completing, Sealed,
     Concluded, SetupLabels, DeleteLabels
<1>3. Flow'
  BY DEF Flow, Early, Evaluating, Completing, Sealed, Concluded, SetupLabels, DeleteLabels
<1>4. Blamed'
  BY DEF Blamed, TypeOK, Flow, Early, Evaluating, Completing, Sealed, Concluded,
     SetupLabels, DeleteLabels
<1>5. Settled'
  BY DEF Settled, Early, Evaluating, Completing, Sealed, Concluded, SetupLabels,
     DeleteLabels
<1>6. Withdrawn'
  BY DEF Withdrawn, Flow, Early, Evaluating, Completing, Sealed, Concluded, SetupLabels,
     DeleteLabels
<1>7. Recorded'
  BY DEF Recorded, Flow, Early, Evaluating, Completing, Sealed, Concluded, SetupLabels,
     DeleteLabels
<1>8. Evidenced'
  BY DEF Evidenced, Early, Evaluating, Completing, Sealed, Concluded, SetupLabels,
     DeleteLabels
<1>9. Path'
  <2>1. \A n : OnPath(n) => OnPath(n)'
    BY PathKept
  <2> QED BY <2>1 DEF Path, Sound, Resolved, Early, Evaluating, Completing,
             Sealed, Concluded, SetupLabels, DeleteLabels
<1> QED BY <1>1, <1>2, <1>3, <1>4, <1>5, <1>6, <1>7, <1>8, <1>9

\* The invariant survives the save.
LEMMA PersistInvariant == IInv /\ Persist => IInv'
<1> SUFFICES ASSUME IInv, Persist PROVE IInv'
  OBVIOUS
<1> USE DEF IInv, Persist, flowVars, clusterVars, auditVars, storeVars, Throw, Save
<1>0. /\ row' \in {row, TheRecord} /\ UNCHANGED attested
      /\ \/ pc' = "attest" /\ row' = TheRecord
         \/ pc' = "raised"
         \/ pc' = "failed" /\ guarded
         \/ pc' = "amend" /\ row' = row
  OBVIOUS
<1>a. /\ TheRecord \in Row /\ TheRecord # NoRow /\ TheRecord.outcome = outcome
      /\ TheRecord.auditErr = auditErr /\ TheRecord.count = count
      /\ outcome \in Outcomes /\ outcome = Verdict(plan, eff, cor, graded)
  BY RecordTyped DEF Flow, Settled, Concluded, Sealed
<1> HIDE DEF Save, Throw
<1>1. TypeOK'
  BY <1>0, <1>a, PlanTyped DEF TypeOK, Labels, SetupLabels, DeleteLabels
<1>2. Leaks'
  BY <1>0, <1>a, Verdicts DEF Leaks, BeforeSetup, Early, SetupLabels, DeleteLabels
<1>3. Flow'
  BY <1>0, <1>a DEF Flow, Early, Evaluating, Completing, Sealed, Concluded, SetupLabels,
     DeleteLabels
<1>4. Blamed'
  BY <1>0, <1>a DEF Blamed, TypeOK, Flow, Early, Evaluating, Completing, Sealed,
     Concluded, SetupLabels, DeleteLabels
<1>5. Settled'
  BY <1>0, <1>a DEF Settled, TheRecord, Sealed
<1>6. Withdrawn'
  BY <1>0, <1>a, Verdicts DEF Withdrawn, Completing
<1>7. Recorded'
  <2>1. outcome # "infra_error" => ~auditErr
    BY <1>a, Verdicts DEF Blamed
  <2> QED BY <1>0, <1>a, <2>1 DEF Recorded, Sealed
<1>8. Evidenced'
  BY <1>0, <1>a DEF Evidenced, Early, Evaluating, Completing, Sealed, Concluded,
     SetupLabels, DeleteLabels
<1>9. Path'
  <2>1. \A n : OnPath(n) => OnPath(n)'
    BY PathKept
  <2> QED BY <1>0, <2>1 DEF Path, Sound, Resolved, Early, Evaluating, Completing,
             Sealed, Concluded, SetupLabels, DeleteLabels
<1> QED BY <1>1, <1>2, <1>3, <1>4, <1>5, <1>6, <1>7, <1>8, <1>9

\* The invariant survives the attestation.
LEMMA AttestInvariant == IInv /\ Attest => IInv'
<1> SUFFICES ASSUME IInv, Attest PROVE IInv'
  OBVIOUS
<1> USE DEF IInv, Attest, flowVars, clusterVars, auditVars, storeVars
<1>1. TypeOK'
  BY PlanTyped DEF TypeOK, Labels, SetupLabels, DeleteLabels
<1>2. Leaks'
  BY DEF Leaks, TypeOK, Flow, BeforeSetup, Early, Evaluating, Completing, Sealed,
     Concluded, SetupLabels, DeleteLabels
<1>3. Flow'
  BY DEF Flow, Early, Evaluating, Completing, Sealed, Concluded, SetupLabels, DeleteLabels
<1>4. Blamed'
  BY DEF Blamed, TypeOK, Flow, Early, Evaluating, Completing, Sealed, Concluded,
     SetupLabels, DeleteLabels
<1>5. Settled'
  BY DEF Settled, TheRecord, Sealed
<1>6. Withdrawn'
  BY RecordTyped DEF Settled, Withdrawn, Completing
<1>7. Recorded'
  BY DEF Recorded, Flow, Early, Evaluating, Completing, Sealed, Concluded, SetupLabels,
     DeleteLabels
<1>8. Evidenced'
  BY DEF Evidenced, Early, Evaluating, Completing, Sealed, Concluded, SetupLabels,
     DeleteLabels
<1>9. Path'
  <2>1. \A n : OnPath(n) => OnPath(n)'
    BY PathKept
  <2> QED BY <2>1 DEF Path, Sound, Resolved, Early, Evaluating, Completing,
             Sealed, Concluded, SetupLabels, DeleteLabels
<1> QED BY <1>1, <1>2, <1>3, <1>4, <1>5, <1>6, <1>7, <1>8, <1>9

\* The invariant survives the corrective save.
LEMMA AmendInvariant == IInv /\ Amend => IInv'
<1> SUFFICES ASSUME IInv, Amend PROVE IInv'
  OBVIOUS
<1> USE DEF IInv, Amend, flowVars, clusterVars, auditVars, storeVars, Throw
<1>0. /\ eff' \in Eff /\ eff.infra \subseteq eff'.infra /\ eff'.infra # {}
      /\ eff'.image = eff.image /\ outcome' = "infra_error" /\ outcome' \in Outcomes
  <2>1. /\ Blame(eff, "fault") \in Eff /\ Blame(eff, "fault").infra = eff.infra \cup {"fault"}
        /\ Blame(eff, "fault").image = eff.image
    BY BlameAdds DEF TypeOK, Causes
  <2>2. eff' = Blame(eff, "fault") /\ outcome' = Verdict(plan, eff', cor, graded)
    OBVIOUS
  <2> QED BY <2>1, <2>2, Verdicts
<1>a. /\ TheRecord' \in Row /\ TheRecord'.outcome = "infra_error" /\ TheRecord' # NoRow
      /\ TheRecord'.count = count
  <2>1. TheRecord'.outcome = "infra_error" /\ TheRecord'.count = count
    BY <1>0 DEF TheRecord
  <2>2. NoRow.outcome = "none"
    BY DEF NoRow
  <2>3. TheRecord' \in Row
    BY <1>0 DEF TypeOK, TheRecord, Row
  <2> QED BY <2>1, <2>2, <2>3
<1>b. /\ row' \in {row, TheRecord'} /\ outcome' = Verdict(plan, eff', cor, graded) /\ attErr'
      /\ \/ pc' = "done" /\ row' = TheRecord'
         \/ pc' = "raised"
         \/ pc' = "failed" /\ guarded
  OBVIOUS
<1>c. /\ pc = "amend"
      /\ UNCHANGED <<flowVars, clusterVars, cor, graded, snapshot, auditVars, count,
                     attested>>
  OBVIOUS
<1> HIDE DEF Amend, Throw
<1>1. TypeOK'
  BY <1>0, <1>a, <1>b, <1>c, PlanTyped DEF TypeOK, Labels, SetupLabels, DeleteLabels
<1>2. Leaks'
  BY <1>0, <1>a, <1>b, <1>c DEF Leaks, TypeOK, Flow, BeforeSetup, Early, Evaluating,
     Completing, Sealed, Concluded, SetupLabels, DeleteLabels
<1>3. Flow'
  BY <1>0, <1>a, <1>b, <1>c DEF Flow, Early, Evaluating, Completing, Sealed, Concluded,
     SetupLabels, DeleteLabels
<1>4. Blamed'
  BY <1>0, <1>a, <1>b, <1>c DEF Blamed, TypeOK, Flow, Early, Evaluating, Completing,
     Sealed, Concluded, SetupLabels, DeleteLabels
<1>5. Settled'
  BY <1>0, <1>b, <1>c DEF Settled, Sealed
<1>6. Withdrawn'
  BY <1>0, <1>a, <1>b, <1>c DEF Withdrawn, Flow, Early, Evaluating, Completing, Sealed,
     Concluded, SetupLabels, DeleteLabels
<1>7. Recorded'
  BY <1>0, <1>a, <1>b, <1>c DEF Recorded, Sealed
<1>8. Evidenced'
  BY <1>0, <1>a, <1>b, <1>c DEF Evidenced, Early, Evaluating, Completing, Sealed,
     Concluded, SetupLabels, DeleteLabels
<1>9. Path'
  <2>1. \A n : OnPath(n) => OnPath(n)'
    BY <1>c, PathKept
  <2> QED BY <1>0, <1>b, <2>1 DEF Path, Sound, Resolved, Early, Evaluating, Completing,
             Sealed, Concluded, SetupLabels, DeleteLabels
<1> QED BY <1>1, <1>2, <1>3, <1>4, <1>5, <1>6, <1>7, <1>8, <1>9

\* A step that changes nothing keeps it.
LEMMA StutterInvariant == IInv /\ UNCHANGED vars => IInv'
<1> SUFFICES ASSUME IInv, UNCHANGED vars PROVE IInv'
  OBVIOUS
<1> USE DEF IInv, vars, flowVars, clusterVars, auditVars, storeVars
<1>1. TypeOK'
  BY DEF TypeOK
<1>2. Leaks' /\ Flow' /\ Blamed'
  BY DEF Leaks, Flow, Blamed
<1>3. Settled' /\ Withdrawn' /\ Recorded' /\ Evidenced'
  BY DEF Settled, Withdrawn, Recorded, Evidenced, TheRecord
<1>4. Path'
  <2>1. \A n : OnPath(n) => OnPath(n)'
    BY PathKept
  <2> QED BY <2>1 DEF Path, Sound
<1> QED BY <1>1, <1>2, <1>3, <1>4

\* So no step of a trial breaks it.
LEMMA NextInvariant == IInv /\ [Next]_vars => IInv'
BY StutterInvariant, PrepareRunInvariant, RequestedInvariant, AdmittedInvariant,
   AgentStartedInvariant, SetupInvariant, RunAgentInvariant, SnapshotInvariant,
   AgentCompletedInvariant, ProxyLogsInvariant, DeleteResourcesInvariant,
   InterruptCleanupInvariant, CleanupCompletedInvariant, EvaluationStartedInvariant, TestsInvariant, ScansInvariant,
   JudgeInvariant, SkipInvariant, EvaluationFailedInvariant, OutcomeDecidedInvariant,
   RunCompletedInvariant, SealInvariant, ContainInvariant, RedactInvariant,
   PersistInvariant, AttestInvariant, AmendInvariant
   DEF Next

-----------------------------------------------------------------------------
(* What the invariant says of the saved record *)

\* A record is saved over another only once that one's result is withdrawn.
LEMMA SavesWithdraw ==
  ASSUME IInv, [Next]_vars, row # NoRow
  PROVE  row' # NoRow /\ row'.outcome \in {row.outcome, "infra_error"}
<1> USE DEF flowVars, clusterVars, auditVars, storeVars
<1>1. CASE Persist
  <2>1. row' \in {row, TheRecord} /\ pc = "persist"
    BY <1>1 DEF Persist, Save
  <2>2. outcome = "infra_error" /\ outcome \in Outcomes
    BY <2>1, Verdicts DEF IInv, Settled, Withdrawn, Completing, Sealed, Outcomes
  <2>3. TheRecord # NoRow /\ TheRecord.outcome = outcome
    BY <2>2, RecordTyped DEF IInv
  <2> QED BY <2>1, <2>2, <2>3
<1>2. CASE Amend
  <2>1. row' \in {row, TheRecord'} /\ outcome' = Verdict(plan, eff', cor, graded)
    BY <1>2 DEF Amend
  <2>2. eff'.infra # {}
    BY <1>2, BlameAdds DEF Amend, IInv, TypeOK, Causes
  <2>3. TheRecord'.outcome = "infra_error"
    BY <2>1, <2>2, Verdicts DEF TheRecord
  <2>4. TheRecord' # NoRow
    BY <2>3 DEF NoRow
  <2> QED BY <2>1, <2>3, <2>4
<1>3. CASE ~Persist /\ ~Amend
  <2>1. row' = row
    BY <1>3 DEF Next, vars, PrepareRun, Requested, Admitted, AgentStarted, Setup, RunAgent,
       Snapshot, AgentCompleted, ProxyLogs, DeleteResources, InterruptCleanup,
       CleanupCompleted, EvaluationStarted, Tests, Scans, Judge, Skip, EvaluationFailed, OutcomeDecided,
       RunCompleted, Seal, Contain, Redact, Attest
  <2> QED BY <2>1
<1> QED BY <1>1, <1>2, <1>3

\* An event type that the trail shows at one place only.
LEMMA Single ==
  ASSUME NEW type, NEW k \in DOMAIN trail,
         \A i \in DOMAIN trail : (trail[i].type = type) <=> (i = k)
  PROVE  Count(type) = 1 /\ At(type) = k /\ Said(type) = trail[k]
<1>1. {i \in DOMAIN trail : trail[i].type = type} = {k}
  OBVIOUS
<1>2. Count(type) = 1
  BY <1>1, FS_Singleton DEF Count
<1>3. At(type) = k
  BY DEF At
<1> QED BY <1>2, <1>3 DEF Said

\* And one that it does not show.
LEMMA Absent ==
  ASSUME NEW type, \A i \in DOMAIN trail : trail[i].type # type
  PROVE  Count(type) = 0
<1>1. {i \in DOMAIN trail : trail[i].type = type} = {}
  OBVIOUS
<1> QED BY <1>1, FS_EmptySet DEF Count

\* The types of an accepted trial's events, in their order.
ExpectedTypes ==
  <<"evaluation.requested", "policy.admitted", "agent.started", "agent.completed",
    "cleanup.completed", "evaluation.started", "tests.completed", "scanners.completed",
    IF plan.judge THEN "judge.completed" ELSE "judge.skipped",
    "outcome.decided", "run.completed">>

\* The trail of an accepted trial shows these types and no more.
LEMMA TypesOnPath ==
  ASSUME TypeOK, OnPath(11)
  PROVE  /\ DOMAIN trail = 1 .. 11
         /\ \A i \in 1 .. 11 : trail[i] = Expected[i] /\ trail[i].type = ExpectedTypes[i]
<1>1. DOMAIN trail = 1 .. 11
  BY DEF TypeOK, OnPath
<1>2. \A i \in 1 .. 11 : trail[i] = Expected[i]
  BY DEF OnPath
<1>3. \A i \in 1 .. 11 : Expected[i].type = ExpectedTypes[i]
  <2>1. JudgeEvent.type = IF plan.judge THEN "judge.completed" ELSE "judge.skipped"
    BY DEF JudgeEvent, Ev
  <2> QED BY <2>1, ExpectedEvents DEF ExpectedTypes, Ev
<1> QED BY <1>1, <1>2, <1>3

\* Each of them is there once, and no other.
LEMMA OnceOnPath ==
  ASSUME TypeOK, OnPath(11)
  PROVE  /\ \A k \in 1 .. 11 : /\ Count(ExpectedTypes[k]) = 1 /\ At(ExpectedTypes[k]) = k
                               /\ Said(ExpectedTypes[k]) = Expected[k]
         /\ Count("evaluation.failed") = 0
         /\ Count("judge.completed") = IF plan.judge THEN 1 ELSE 0
         /\ Count("judge.skipped") = IF plan.judge THEN 0 ELSE 1
<1>1. ASSUME NEW k \in 1 .. 11
      PROVE  /\ Count(ExpectedTypes[k]) = 1 /\ At(ExpectedTypes[k]) = k
             /\ Said(ExpectedTypes[k]) = Expected[k]
  <2>1. \A i \in 1 .. 11 : (ExpectedTypes[i] = ExpectedTypes[k]) <=> (i = k)
    BY DEF ExpectedTypes
  <2>2. k \in DOMAIN trail
        /\ \A i \in DOMAIN trail : (trail[i].type = ExpectedTypes[k]) <=> (i = k)
    BY <2>1, TypesOnPath
  <2>3. /\ Count(ExpectedTypes[k]) = 1 /\ At(ExpectedTypes[k]) = k
        /\ Said(ExpectedTypes[k]) = trail[k]
    BY <2>2, Single
  <2> QED BY <2>3, TypesOnPath
<1>2. ASSUME NEW type, \A i \in 1 .. 11 : ExpectedTypes[i] # type
      PROVE  Count(type) = 0
  BY <1>2, TypesOnPath, Absent
<1>3. \A i \in 1 .. 11 : ExpectedTypes[i] # "evaluation.failed"
  BY DEF ExpectedTypes
<1>4. CASE plan.judge
  <2>1. ExpectedTypes[9] = "judge.completed"
        /\ \A i \in 1 .. 11 : ExpectedTypes[i] # "judge.skipped"
    BY <1>4 DEF ExpectedTypes
  <2>2. Count("judge.completed") = 1
    BY <1>1, <2>1
  <2> QED BY <1>1, <1>2, <1>3, <1>4, <2>1, <2>2
<1>5. CASE ~plan.judge
  <2>1. ExpectedTypes[9] = "judge.skipped"
        /\ \A i \in 1 .. 11 : ExpectedTypes[i] # "judge.completed"
    BY <1>5 DEF ExpectedTypes
  <2>2. Count("judge.skipped") = 1
    BY <1>1, <2>1
  <2> QED BY <1>1, <1>2, <1>3, <1>5, <2>1, <2>2
<1> QED BY <1>4, <1>5

\* The event at each place, by the name of its type.
LEMMA PlacesOnPath ==
  ASSUME TypeOK, OnPath(11)
  PROVE  /\ At("evaluation.requested") = 1 /\ Count("evaluation.requested") = 1
         /\ At("policy.admitted") = 2 /\ Count("policy.admitted") = 1
         /\ At("agent.started") = 3 /\ Count("agent.started") = 1
         /\ At("agent.completed") = 4 /\ Count("agent.completed") = 1
         /\ Said("agent.completed") = Ev("agent.completed", "completed", TRUE)
         /\ At("cleanup.completed") = 5 /\ Count("cleanup.completed") = 1
         /\ Said("cleanup.completed") = Ev("cleanup.completed", "completed", FALSE)
         /\ At("evaluation.started") = 6 /\ Count("evaluation.started") = 1
         /\ At("tests.completed") = 7 /\ Count("tests.completed") = 1
         /\ Said("tests.completed") = Ev("tests.completed", "completed", cor.passed)
         /\ At("scanners.completed") = 8 /\ Count("scanners.completed") = 1
         /\ Said("scanners.completed")
              = Ev("scanners.completed", IF plan.scans THEN "completed" ELSE "skipped", FALSE)
         /\ At(JudgeType) = 9 /\ Said(JudgeType) = JudgeEvent
         /\ JudgeType = IF plan.judge THEN "judge.completed" ELSE "judge.skipped"
         /\ At("outcome.decided") = 10 /\ Count("outcome.decided") = 1
         /\ Said("outcome.decided") = Ev("outcome.decided", "accepted", FALSE)
         /\ At("run.completed") = 11 /\ Count("run.completed") = 1
         /\ Said("run.completed") = Ev("run.completed", "accepted", FALSE)
<1>1. JudgeType = IF plan.judge THEN "judge.completed" ELSE "judge.skipped"
  BY OnceOnPath DEF JudgeType
<1>2. /\ ExpectedTypes[1] = "evaluation.requested" /\ ExpectedTypes[2] = "policy.admitted"
      /\ ExpectedTypes[3] = "agent.started" /\ ExpectedTypes[4] = "agent.completed"
      /\ ExpectedTypes[5] = "cleanup.completed" /\ ExpectedTypes[6] = "evaluation.started"
      /\ ExpectedTypes[7] = "tests.completed" /\ ExpectedTypes[8] = "scanners.completed"
      /\ ExpectedTypes[9] = JudgeType
      /\ ExpectedTypes[10] = "outcome.decided" /\ ExpectedTypes[11] = "run.completed"
  BY <1>1 DEF ExpectedTypes
<1>3. \A k \in 1 .. 11 : /\ Count(ExpectedTypes[k]) = 1 /\ At(ExpectedTypes[k]) = k
                         /\ Said(ExpectedTypes[k]) = Expected[k]
  BY OnceOnPath
<1>4. /\ At("evaluation.requested") = 1 /\ Count("evaluation.requested") = 1
      /\ At("policy.admitted") = 2 /\ Count("policy.admitted") = 1
      /\ At("agent.started") = 3 /\ Count("agent.started") = 1
      /\ At("agent.completed") = 4 /\ Count("agent.completed") = 1
      /\ Said("agent.completed") = Expected[4]
  BY <1>2, <1>3
<1>5. /\ At("cleanup.completed") = 5 /\ Count("cleanup.completed") = 1
      /\ Said("cleanup.completed") = Expected[5]
      /\ At("evaluation.started") = 6 /\ Count("evaluation.started") = 1
      /\ At("tests.completed") = 7 /\ Count("tests.completed") = 1
      /\ Said("tests.completed") = Expected[7]
      /\ At("scanners.completed") = 8 /\ Count("scanners.completed") = 1
      /\ Said("scanners.completed") = Expected[8]
  BY <1>2, <1>3
<1>6. /\ At(JudgeType) = 9 /\ Said(JudgeType) = Expected[9]
      /\ At("outcome.decided") = 10 /\ Count("outcome.decided") = 1
      /\ Said("outcome.decided") = Expected[10]
      /\ At("run.completed") = 11 /\ Count("run.completed") = 1
      /\ Said("run.completed") = Expected[11]
  BY <1>2, <1>3
<1> QED BY <1>1, <1>4, <1>5, <1>6, ExpectedEvents

\* An accepted trail is in order and shows one undisturbed evaluation.
LEMMA TrailOnPath ==
  ASSUME TypeOK, OnPath(11)
  PROVE  /\ \A i \in 1 .. 7 : Count(Required[i]) = 1
         /\ InOrder(Required) /\ EvaluationOnTrail
<1>1. \A i \in 1 .. 7 : /\ Count(Required[i]) = 1
                        /\ At(Required[i]) = <<1, 2, 3, 4, 5, 10, 11>>[i]
  BY PlacesOnPath DEF Required
<1>2. InOrder(Required)
  <2>1. DOMAIN Required = 1 .. 7
    BY DEF Required
  <2>2. \A i, j \in 1 .. 7 : i < j => <<1, 2, 3, 4, 5, 10, 11>>[i] < <<1, 2, 3, 4, 5, 10, 11>>[j]
    OBVIOUS
  <2> QED BY <1>1, <2>1, <2>2 DEF InOrder
<1>3. Count("judge.completed") + Count("judge.skipped") = 1 /\ Count("evaluation.failed") = 0
  BY OnceOnPath
<1>4. InOrder(<<"cleanup.completed", "evaluation.started", "tests.completed",
                "scanners.completed", JudgeType, "outcome.decided">>)
  <2> DEFINE types == <<"cleanup.completed", "evaluation.started", "tests.completed",
                        "scanners.completed", JudgeType, "outcome.decided">>
  <2>1. DOMAIN types = 1 .. 6 /\ \A i \in 1 .. 6 : At(types[i]) = i + 4
    BY PlacesOnPath
  <2> HIDE DEF types
  <2>2. InOrder(types)
    BY <2>1 DEF InOrder
  <2> QED BY <2>2 DEF types
<1>5. EvaluationOnTrail
  BY <1>3, <1>4, PlacesOnPath DEF EvaluationOnTrail
<1> QED BY <1>1, <1>2, <1>5

\* What the invariant says of a trial that is over and accepted.
LEMMA AcceptedIsSound ==
  ASSUME IInv, plan.governed, pc = "done", row.outcome = "accepted"
  PROVE  /\ row = TheRecord /\ attested = row /\ OnPath(11)
         /\ Sound /\ ~auditErr /\ ~attErr
         /\ outcome = "accepted" /\ outcome = Verdict(plan, eff, cor, graded)
         /\ cor.isolated /\ eff.image /\ count = Len(trail)
         /\ plan.scans => graded.scans
         /\ plan.judge => graded.score
<1>1. row = TheRecord /\ outcome = "accepted" /\ attested = row
  BY RecordTyped DEF IInv, Settled
<1>2. outcome = Verdict(plan, eff, cor, graded) /\ count = Len(trail)
  BY DEF IInv, Settled, Recorded, Sealed
<1>3. Sound
  BY <1>1, <1>2, Verdicts DEF Sound
<1>4. ~auditErr /\ ~attErr
  BY <1>3 DEF Sound, IInv, Blamed
<1>5. OnPath(11)
  BY <1>1, <1>3, <1>4 DEF IInv, Path, Sound, Sealed
<1>6. /\ cor.isolated /\ eff.image
      /\ plan.scans => graded.scans
      /\ plan.judge => graded.score
  BY <1>1 DEF IInv, Evidenced, Concluded, Sealed
<1> QED BY <1>1, <1>2, <1>3, <1>4, <1>5, <1>6

\* With that trail and that record verify-run has nothing to object to.
LEMMA AcceptedVerified == IInv => AcceptedVerifies
<1> SUFFICES ASSUME IInv, plan.governed, pc = "done", row.outcome = "accepted"
             PROVE  Verifies
  BY DEF AcceptedVerifies
<1>1. /\ row = TheRecord /\ attested = row /\ OnPath(11)
      /\ Sound /\ ~auditErr /\ ~attErr
      /\ outcome = "accepted" /\ outcome = Verdict(plan, eff, cor, graded)
      /\ cor.isolated /\ eff.image /\ count = Len(trail)
      /\ plan.scans => graded.scans
      /\ plan.judge => graded.score
  BY AcceptedIsSound
<1>2. /\ row.eff = eff /\ row.cor = cor /\ row.graded = graded /\ row.auditErr = auditErr
      /\ row.attErr = attErr /\ row.count = count /\ row.outcome = outcome
  BY <1>1 DEF TheRecord
<1>3. TypeOK /\ Len(trail) = 11
  BY <1>1 DEF IInv, OnPath
<1>4. /\ \A i \in 1 .. 7 : Count(Required[i]) = 1
      /\ InOrder(Required) /\ EvaluationOnTrail
  BY <1>1, <1>3, TrailOnPath
<1>5. At("agent.started") = 3 /\ At("outcome.decided") = Len(trail) - 1
  BY <1>1, <1>3, PlacesOnPath
<1>6. JudgeMatches
  <2>1. /\ JudgeType = IF plan.judge THEN "judge.completed" ELSE "judge.skipped"
        /\ Said(JudgeType) = JudgeEvent
    BY <1>1, <1>3, PlacesOnPath
  <2> QED BY <2>1 DEF JudgeMatches, JudgeEvent, Ev
<1>7. EventsMatchRow
  <2>1. /\ Said("agent.completed").ok /\ Said("agent.completed").status = "completed"
        /\ Said("cleanup.completed").status = "completed"
        /\ Said("tests.completed").status = "completed"
        /\ Said("scanners.completed").status = IF plan.scans THEN "completed" ELSE "skipped"
        /\ Said("outcome.decided").status = "accepted"
        /\ Said("run.completed").status = "accepted"
    BY <1>1, <1>3, PlacesOnPath DEF Ev
  <2>2. Said("agent.completed").ok = TRUE /\ Said("tests.completed").ok = cor.passed
    BY <1>1, <1>3, PlacesOnPath DEF Ev
  <2>3. Count("evaluation.started") = 1
    BY <1>1, <1>3, PlacesOnPath
  <2>4. ~cor.infra /\ Resolved(cor) = cor.passed
    BY <1>1, <1>3 DEF Sound, Resolved, TypeOK, Cor
  <2>5. plan.scans \in BOOLEAN
    BY <1>3, PlanTyped
  <2>6. Said("agent.completed").ok = (Count("evaluation.started") > 0)
    <3>1. Count("evaluation.started") > 0
      BY <2>3
    <3> QED BY <2>2, <3>1, Zenon
  <2>7. LET e == Said("tests.completed")
        IN IF e.status = "integrity_rejected" THEN row.cor.integrity
           ELSE /\ e.ok = Resolved(row.cor)
                /\ e.status = IF row.cor.infra THEN "infrastructure_error" ELSE "completed"
    BY <1>2, <2>1, <2>2, <2>4
  <2>8. /\ plan.scans = (Said("scanners.completed").status # "skipped")
        /\ plan.scans => row.graded.scans
    BY <1>1, <1>2, <2>1, <2>5
  <2>9. /\ Said("agent.completed").status # "infrastructure_error"
        /\ Said("cleanup.completed").status # "failed"
        /\ Said("outcome.decided").status = row.outcome
        /\ Said("run.completed").status = row.outcome
    BY <1>1, <1>2, <2>1
  <2> QED BY <1>6, <2>6, <2>7, <2>8, <2>9 DEF EventsMatchRow
<1>8. OutcomeRecomputes
  BY <1>1, <1>2 DEF OutcomeRecomputes
<1> QED BY <1>1, <1>2, <1>4, <1>5, <1>7, <1>8 DEF Verifies

-----------------------------------------------------------------------------
(* The promises about the resources and about the trail *)

\* A trial begins as both promise.
LEMMA InitMaps == Init => Cluster!Init /\ Log!Init
<1> SUFFICES ASSUME Init PROVE Cluster!Init /\ Log!Init
  OBVIOUS
<1>1. Cluster!Init
  BY DEF Init, Cluster!Init, SetupLabels, DeleteLabels
<1>2. Log!Init
  <2>1. (pc = "new" \/ auditOpen) /\ ~auditErr
    BY DEF Init
  <2>2. ((pc = "new" \/ auditOpen) /\ ~auditErr) = TRUE
    BY <2>1, Zenon
  <2> QED BY <2>2 DEF Init, Log!Init
<1> QED BY <1>1, <1>2

\* The setup gets its resources one by one, and a failure leads to the finally clause.
LEMMA SetupMaps == IInv /\ Setup => [Cluster!Next]_(Cluster!vars)
<1> SUFFICES ASSUME IInv, Setup PROVE [Cluster!Next]_(Cluster!vars)
  OBVIOUS
<1> USE DEF SetupLabels, DeleteLabels
<1>0. /\ pc = "setup" => alive = {} /\ held = {}
      /\ pc = "proxying" => held \subseteq {"secret"}
      /\ pc = "creating" => held \subseteq {"secret", "proxy"}
      /\ pc \in SetupLabels => alive \subseteq held
      /\ plan.secret \in BOOLEAN
  BY PlanTyped DEF IInv, Leaks, BeforeSetup
<1>1. CASE SetupSucceeds
  <2>1. CASE plan.secret
    <3>1. Cluster!Create("secret")
      BY <1>0, <1>1, <2>1 DEF SetupSucceeds, Cluster!Create
    <3> QED BY <3>1 DEF Cluster!Next, Resources
  <2>2. CASE ~plan.secret
    BY <1>0, <1>1, <2>2 DEF SetupSucceeds, Cluster!vars
  <2> QED BY <2>1, <2>2
<1>2. CASE SetupFails
  <2>1. Cluster!Attempt("secret")
    BY <1>0, <1>2 DEF SetupFails, Fails, Cluster!Attempt
  <2> QED BY <2>1 DEF Cluster!Next, Resources
<1>3. CASE NoProxy
  BY <1>3 DEF NoProxy, Cluster!vars, clusterVars
<1>4. ASSUME NEW r \in {"proxy", "pod"}, NEW from \in {"proxying", "creating"},
             NEW to \in {"creating", "running"}, Create(r, from, to), r \notin held
      PROVE  Cluster!Next
  <2>1. Cluster!Create(r) \/ Cluster!Attempt(r)
    BY <1>0, <1>4 DEF Create, Fails, Cluster!Create, Cluster!Attempt
  <2> QED BY <2>1 DEF Cluster!Next, Resources
<1>5. CASE Create("proxy", "proxying", "creating")
  <2>1. "proxy" \notin held
    BY <1>0, <1>5 DEF Create
  <2> QED BY <1>4, <1>5, <2>1
<1>6. CASE Create("pod", "creating", "running")
  <2>1. "pod" \notin held
    BY <1>0, <1>6 DEF Create
  <2> QED BY <1>4, <1>6, <2>1
<1> QED BY <1>1, <1>2, <1>3, <1>5, <1>6 DEF Setup

\* The finally clause gives back what there is a handle for.
LEMMA DeleteMaps == IInv /\ IInv' /\ DeleteResources => [Cluster!Next]_(Cluster!vars)
<1> SUFFICES ASSUME IInv, IInv', DeleteResources PROVE [Cluster!Next]_(Cluster!vars)
  OBVIOUS
<1> USE DEF SetupLabels, DeleteLabels
<1>1. pc' = "cleaned" => alive' \cap held' \subseteq cleanupErrors'
  BY DEF IInv, Leaks
<1>2. ASSUME NEW r \in Resources, r \in held, Delete(r)
      PROVE  Cluster!Next
  <2>1. Cluster!Delete(r)
    BY <1>1, <1>2 DEF DeleteResources, Delete, Cluster!Delete
  <2> QED BY <2>1 DEF Cluster!Next
<1>3. ASSUME UNCHANGED <<alive, cleanupErrors>>
      PROVE  [Cluster!Next]_(Cluster!vars)
  BY <1>1, <1>3 DEF DeleteResources, Cluster!Next, Cluster!Move, Cluster!vars
<1> QED BY <1>2, <1>3 DEF DeleteResources, Delete, Resources

\* So does what an interrupt cuts short: it deletes the resource at hand or nothing.
LEMMA InterruptMaps == IInv /\ InterruptCleanup => [Cluster!Next]_(Cluster!vars)
<1> SUFFICES ASSUME IInv, InterruptCleanup PROVE [Cluster!Next]_(Cluster!vars)
  OBVIOUS
<1> USE DEF InterruptCleanup, SetupLabels, DeleteLabels
<1>1. ASSUME NEW r \in held, pc = DeletedAt[r], pc' = "interrupted", alive' = alive \ {r}
      PROVE  Cluster!Next
  <2>1. r \in Resources
    BY DEF IInv, TypeOK
  <2>2. pc \in DeleteLabels
    BY <1>1, <2>1 DEF Resources, DeletedAt
  <2>3. Cluster!Delete(r)
    BY <1>1, <2>2 DEF Cluster!Delete
  <2> QED BY <2>1, <2>3 DEF Cluster!Next
<1>2. CASE \/ pc \in DeleteLabels /\ pc' = "interrupted" /\ UNCHANGED alive
           \/ pc = "cleaned" /\ pc' = "raised" /\ UNCHANGED alive
  BY <1>2 DEF Cluster!vars
<1> QED BY <1>1, <1>2

\* Every other step only moves on.
LEMMA ClusterMaps == IInv /\ IInv' /\ [Next]_vars => [Cluster!Next]_(Cluster!vars)
<1> SUFFICES ASSUME IInv, IInv', [Next]_vars, ~Setup, ~DeleteResources, ~InterruptCleanup
             PROVE  [Cluster!Next]_(Cluster!vars)
  BY SetupMaps, DeleteMaps, InterruptMaps
<1> DEFINE NotOver == SetupLabels \cup DeleteLabels \cup {"interrupted"}
<1> USE DEF SetupLabels, DeleteLabels, flowVars, clusterVars
<1>1. UNCHANGED <<alive, held, cleanupErrors>>
  BY DEF Next, vars, PrepareRun, Requested, Admitted, AgentStarted, RunAgent,
     Snapshot, AgentCompleted, ProxyLogs, CleanupCompleted, EvaluationStarted, Tests,
     Scans, Judge, Skip, EvaluationFailed, OutcomeDecided, RunCompleted, Seal, Contain,
     Redact, Persist, Attest, Amend
<1>2. pc \in {"new", "admitting", "starting"} => alive = {}
  BY DEF IInv, Leaks, BeforeSetup
<1>3. \/ pc' \in SetupLabels /\ pc \in SetupLabels
      \/ pc' \in DeleteLabels /\ pc \in DeleteLabels
      \/ pc' \in DeleteLabels /\ pc \in SetupLabels
      \/ pc' \notin NotOver /\ pc \notin NotOver
      \/ pc' \notin NotOver /\ pc \in {"new", "admitting", "starting"}
      \/ pc' = pc
  BY DEF Next, vars, PrepareRun, Requested, Admitted, GoesOn, AgentStarted, RunAgent, Fails,
     Snapshot, AgentCompleted, ProxyLogs, CleanupCompleted, EvaluationStarted, Throw, Tests,
     UnsafeWorkspace, TestsCompleted, Scans, ScansCompleted, Judge, Skip, EvaluationFailed,
     OutcomeDecided, RunCompleted, Seal, Contain, Redact, Persist, Save, Attest, Amend
<1> QED BY <1>1, <1>2, <1>3 DEF Cluster!Next, Cluster!Move, Cluster!vars

\* An event goes to the end of the trail, or ends it.
LEMMA AuditMaps ==
  ASSUME TypeOK, TypeOK', NEW e, NEW m, Audit(e, m), UNCHANGED auditOpen, pc # "new", pc' # "new"
  PROVE  [Log!Next]_<<trail, (pc = "new" \/ auditOpen) /\ ~auditErr>>
<1>1. CASE (~plan.governed \/ auditErr) /\ UNCHANGED <<trail, auditErr>>
  BY <1>1
<1>2. CASE /\ ~auditErr /\ auditOpen /\ trail' = Append(trail, e) /\ UNCHANGED auditErr
  <2>1. /\ trail' \in Seq(Event) /\ Len(trail') = Len(trail) + 1
        /\ SubSeq(trail', 1, Len(trail)) = trail
    <3>1. trail \in Seq(Event) /\ trail' \in Seq(Event)
      BY DEF TypeOK
    <3> QED BY <1>2, <3>1
  <2>2. Log!Record
    BY <1>2, <2>1 DEF Log!Record
  <2> QED BY <2>2 DEF Log!Next
<1>3. CASE ~auditErr /\ auditErr' = TRUE /\ UNCHANGED trail
  BY <1>3 DEF Log!Next, Log!Stop
<1> QED BY <1>1, <1>2, <1>3 DEF Audit

\* Every step adds one event to the trail, ends it, or leaves it alone.
LEMMA LogMaps ==
  IInv /\ IInv' /\ [Next]_vars
    => [Log!Next]_<<trail, (pc = "new" \/ auditOpen) /\ ~auditErr>>
<1> SUFFICES ASSUME IInv, IInv', [Next]_vars
             PROVE  [Log!Next]_<<trail, (pc = "new" \/ auditOpen) /\ ~auditErr>>
  OBVIOUS
<1> USE DEF flowVars, auditVars
<1>1. TypeOK /\ TypeOK'
  BY DEF IInv
<1>2. CASE PrepareRun
  BY <1>2 DEF PrepareRun, IInv, Blamed, Log!Next, Log!Stop
<1>3. CASE Seal
  BY <1>1, <1>3 DEF Seal, TypeOK, Log!Next, Log!Stop
<1>4. ASSUME pc # "new", pc' # "new", UNCHANGED <<trail, auditOpen, auditErr>>
      PROVE  [Log!Next]_<<trail, (pc = "new" \/ auditOpen) /\ ~auditErr>>
  BY <1>4
<1>5. CASE Requested \/ Admitted \/ AgentStarted \/ AgentCompleted \/ CleanupCompleted
  <2>1. pc # "new" /\ pc' # "new" /\ UNCHANGED auditOpen
    BY <1>5 DEF Requested, Admitted, AgentStarted, AgentCompleted, CleanupCompleted, GoesOn
  <2>2. \E e, m : Audit(e, m)
    BY <1>5, Zenon DEF Requested, Admitted, AgentStarted, AgentCompleted, CleanupCompleted
  <2> QED BY <1>1, <2>1, <2>2, AuditMaps
<1>6. CASE EvaluationFailed \/ OutcomeDecided \/ RunCompleted \/ Skip
  <2>1. pc # "new" /\ pc' # "new" /\ UNCHANGED auditOpen
    BY <1>6 DEF EvaluationFailed, OutcomeDecided, RunCompleted, Skip
  <2>2. \E e, m : Audit(e, m)
    BY <1>6, Zenon DEF EvaluationFailed, OutcomeDecided, RunCompleted, Skip
  <2> QED BY <1>1, <2>1, <2>2, AuditMaps
<1>7. CASE EvaluationStarted \/ Tests \/ Scans \/ Judge
  <2>1. pc # "new" /\ pc' # "new" /\ UNCHANGED auditOpen
    BY <1>7 DEF EvaluationStarted, Tests, UnsafeWorkspace, TestsCompleted, Scans,
       ScansCompleted, Judge, Throw
  <2>2. (\E e, m : Audit(e, m)) \/ UNCHANGED <<trail, auditErr>>
    BY <1>7, Zenon DEF EvaluationStarted, Tests, UnsafeWorkspace, TestsCompleted, Scans,
       ScansCompleted, Judge
  <2> QED BY <1>1, <1>4, <2>1, <2>2, AuditMaps
<1>8. CASE Setup \/ RunAgent \/ Snapshot \/ ProxyLogs \/ DeleteResources
  BY <1>4, <1>8 DEF Setup, SetupSucceeds, SetupFails, NoProxy, Create, Fails, RunAgent,
     Snapshot, ProxyLogs, DeleteResources
<1>9. CASE Contain \/ Redact \/ Persist \/ Attest \/ Amend
  BY <1>4, <1>9 DEF Contain, Redact, Persist, Save, Attest, Amend, Throw
<1>10. CASE UNCHANGED vars
  BY <1>10 DEF vars
<1>11. CASE InterruptCleanup
  <2>1. held \subseteq Resources
    BY DEF IInv, TypeOK
  <2>2. pc # "new" /\ pc' # "new" /\ UNCHANGED <<trail, auditOpen, auditErr>>
    BY <1>11, <2>1 DEF InterruptCleanup, DeletedAt, DeleteLabels, Resources, auditVars
  <2> QED BY <1>4, <2>2
<1> QED BY <1>2, <1>3, <1>5, <1>6, <1>7, <1>8, <1>9, <1>10, <1>11 DEF Next

-----------------------------------------------------------------------------
(* Theorems *)

\* The inductive invariant holds in every state of a trial.
THEOREM Invariance == Spec => []IInv
BY InitInvariant, NextInvariant, PTL DEF Spec

\* TypeOK: every variable of a trial keeps its type.
THEOREM TypeCorrect == Spec => []TypeOK
<1>1. IInv => TypeOK
  BY DEF IInv
<1> QED BY <1>1, Invariance, PTL

\* LeakReported: whatever is left in the cluster when the record is saved, the saved
\* outcome is an infrastructure error.
THEOREM LeakReportedAlways == Spec => []LeakReported
<1>1. IInv => LeakReported
  BY DEF IInv, Leaks, LeakReported
<1> QED BY <1>1, Invariance, PTL

\* VerdictOnTrail: at every moment a saved governed result has a complete trail that
\* ends with it.
THEOREM VerdictOnTrailAlways == Spec => []VerdictOnTrail
<1>1. IInv => VerdictOnTrail
  BY DEF IInv, Recorded, VerdictOnTrail
<1> QED BY <1>1, Invariance, PTL

\* NeverUpgraded: neither a second completion nor a corrective save turns a saved
\* outcome into a better one.
THEOREM NeverUpgradedAlways == Spec => NeverUpgraded
<1>1. IInv /\ [Next]_vars
        => [row # NoRow => row' # NoRow /\ row'.outcome \in {row.outcome, "infra_error"}]_vars
  BY SavesWithdraw
<1> QED BY <1>1, Invariance, PTL DEF Spec, NeverUpgraded

\* AcceptedVerifies: verify-run agrees with every accepted governed record, for the
\* whole trail, whichever step failed or was repeated on the way.
THEOREM AcceptedVerifiesAlways == Spec => []AcceptedVerifies
BY AcceptedVerified, Invariance, PTL

\* TrialResourcesPromise: over all its steps, exceptions included, a trial treats its
\* resources as TrialResources says.
THEOREM ResourcesRefinement == Spec => TrialResourcesPromise
<1>1. Init => Cluster!Init
  BY InitMaps
<1> QED BY <1>1, ClusterMaps, Invariance, PTL DEF Spec, TrialResourcesPromise, Cluster!Spec

\* TrailIsLog: over all its steps a trial uses its trail as an append-only log.
THEOREM TrailRefinement == Spec => TrailIsLog
<1>1. Init => Log!Init
  BY InitMaps
<1> QED BY <1>1, LogMaps, Invariance, PTL DEF Spec, TrailIsLog, Log!Spec
===============================================================================
