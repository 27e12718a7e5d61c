---------------------------- MODULE TrialLifecycle ----------------------------
(***************************************************************************)
(* One agent trial, from run_agent_trial to the saved record (runner.py):  *)
(* the agent's cluster resources, the audit trail of a governed run, the   *)
(* evaluation of the workspace it leaves, the verdict, and the save, with  *)
(* every place where a step can fail or raise.  `Verifies' is what         *)
(* verify-run later asks of the saved record (cli.py).                     *)
(*                                                                         *)
(* An infra_error text that grows by "; " is the set of the kinds of error *)
(* it names: the wrong mode of evaluation, or any other fault.  The        *)
(* measurements and the policy's thresholds are one bit: do the gates      *)
(* pass?  AuditChain, RunStore and TrialCluster hold the detail of the     *)
(* trail, of the save and of the resources.                                *)
(*                                                                         *)
(* A process that is killed leaves the state it is in, so what holds in    *)
(* every state holds after a kill; there is no action for it.              *)
(***************************************************************************)
EXTENDS Integers, Sequences, FiniteSets

CONSTANT Plans   \* trials to consider: governed, secret, proxy, scans, judge,
                 \* and whether the acceptance policy requires resolved tests

Plan == [governed : BOOLEAN, secret : BOOLEAN, proxy : BOOLEAN,
         scans : BOOLEAN, judge : BOOLEAN, resolve : BOOLEAN]
ASSUME PlansAssumption == Plans \subseteq Plan

VARIABLES plan,      \* the trial
          pc,        \* where it is
          raising,   \* an exception is passing through the finally clause
          redactor,  \* the trial has credentials and a redactor for them
          uncontained, \* the artifacts failed the check before the save
          guarded,   \* inside evaluate_workspace, called by a governed trial
          alive,     \* resources of the trial that exist in the cluster
          held,      \* those the trial has a handle for
          cleanupErrors, \* cleanup_errors: handles whose deletion failed
          eff,       \* record.efficiency
          cor,       \* record.correctness
          graded,    \* record.scans and record.judge, and whether gates pass
          snapshot,  \* snapshot_available
          trail,     \* events in the audit trail
          auditOpen, \* the AuditChain accepts events
          auditErr,  \* record.provenance.audit_error
          attErr,    \* record.provenance.attestation_error
          count,     \* record.provenance.audit_event_count
          outcome,   \* record.outcome
          row,       \* the saved record
          attested   \* the saved record the attestation binds

clusterVars == <<alive, held, cleanupErrors>>
auditVars   == <<trail, auditOpen, auditErr>>
storeVars   == <<row, attested>>
flowVars    == <<plan, raising, guarded, redactor, uncontained>>
vars == <<pc, flowVars, clusterVars, eff, cor, graded, snapshot, auditVars, attErr,
          count, outcome, storeVars>>

Resources == {"secret", "proxy", "pod"}
Causes    == {"mode", "fault"}
Outcomes  == {"accepted", "rejected", "infra_error"}
EventTypes == {"evaluation.requested", "policy.admitted", "agent.started",
               "agent.completed", "cleanup.completed", "evaluation.started",
               "tests.completed", "scanners.completed", "judge.completed",
               "judge.skipped", "evaluation.failed", "outcome.decided",
               "run.completed"}
\* status: the event's status or reason; ok: its resolved, snapshot or score.
Event   == [type : EventTypes, ok : BOOLEAN,
            status : Outcomes \cup {"none", "completed", "failed", "infrastructure_error",
                                    "integrity_rejected", "skipped", "disabled"}]
Eff     == [infra : SUBSET Causes, exit : {"none", "zero", "nonzero"}, image : BOOLEAN]
Cor     == [infra : BOOLEAN, integrity : BOOLEAN, passed : BOOLEAN, isolated : BOOLEAN]
\* Scanner assurance, input fit for the judge, its score, the policy's gates.
Graded  == [scans : BOOLEAN, safe : BOOLEAN, score : BOOLEAN, gates : BOOLEAN]
Row     == [eff : Eff, cor : Cor, graded : Graded, auditErr : BOOLEAN,
            attErr : BOOLEAN, count : Nat, outcome : Outcomes \cup {"none"}]

SetupLabels  == {"new", "requested", "admitting", "starting", "setup", "proxying",
                 "creating", "running", "snapshot"}
DeleteLabels == {"finally", "logs", "delPod", "delProxy", "delSecret"}
Labels == SetupLabels \cup DeleteLabels \cup
          {"cleaned", "evaluate", "tests", "scans", "skipScans", "judge", "skipJudge",
           "failed", "complete", "runCompleted", "seal", "contain", "redact",
           "persist", "attest", "amend", "done", "raised", "interrupted"}

TypeOK ==
  /\ plan \in Plans /\ pc \in Labels
  /\ raising \in BOOLEAN /\ guarded \in BOOLEAN
  /\ redactor \in BOOLEAN /\ uncontained \in BOOLEAN
  /\ alive \subseteq Resources /\ held \subseteq Resources
  /\ cleanupErrors \subseteq Resources
  /\ eff \in Eff /\ cor \in Cor /\ graded \in Graded /\ snapshot \in BOOLEAN
  /\ trail \in Seq(Event) /\ auditOpen \in BOOLEAN /\ auditErr \in BOOLEAN
  /\ attErr \in BOOLEAN /\ count \in Nat
  /\ outcome \in Outcomes \cup {"none"}
  /\ row \in Row /\ attested \in Row

\* A record as it begins; it stands for no record in the store, too.
NoEff    == [infra |-> {}, exit |-> "none", image |-> FALSE]
NoTests  == [infra |-> FALSE, integrity |-> FALSE, passed |-> FALSE, isolated |-> FALSE]
NoGrades == [scans |-> FALSE, safe |-> FALSE, score |-> FALSE, gates |-> FALSE]
NoRow    == [eff |-> NoEff, cor |-> NoTests, graded |-> NoGrades, auditErr |-> FALSE,
             attErr |-> FALSE, count |-> 0, outcome |-> "none"]

Init ==
  /\ plan \in Plans /\ pc = "new"
  /\ raising = FALSE /\ guarded = FALSE /\ redactor = FALSE /\ uncontained = FALSE
  /\ alive = {} /\ held = {} /\ cleanupErrors = {}
  /\ eff = NoEff
  /\ cor = NoTests
  /\ graded = NoGrades
  /\ snapshot = FALSE
  /\ trail = << >> /\ auditOpen = FALSE /\ auditErr = FALSE
  /\ attErr = FALSE /\ count = 0 /\ outcome = "none"
  /\ row = NoRow /\ attested = NoRow

-----------------------------------------------------------------------------
(* Operators on the record *)

Blame(e, cause) == [e EXCEPT !.infra = @ \cup {cause}]
BlameIf(e, cond, cause) == IF cond THEN Blame(e, cause) ELSE e

\* TestResults.resolved
Resolved(c) == c.passed /\ ~c.infra /\ ~c.integrity

\* evaluate_outcome for the trial p: infrastructure errors decide first, then
\* every gate has to pass, that of the tests where the policy asks for it.
Verdict(p, e, c, g) ==
  IF c.infra \/ e.infra # {} THEN "infra_error"
  ELSE IF e.exit # "nonzero" /\ ~c.integrity /\ (p.resolve => Resolved(c)) /\ g.gates
    THEN "accepted"
  ELSE "rejected"

Ev(type, status, ok) == [type |-> type, status |-> status, ok |-> ok]

\* Mutant: writes on after the trail has been closed.
AuditReopens(e, m) ==
  \/ (~plan.governed \/ auditErr) /\ eff' = m /\ UNCHANGED <<trail, auditErr>>
  \/ plan.governed /\ ~auditErr /\ trail' = Append(trail, e)
       /\ eff' = m /\ UNCHANGED auditErr

\* _audit_event, which also gives the efficiency m of the record its blame.
\* An event that cannot be written ends the recording of the whole run.
Audit(e, m) ==
  \/ (~plan.governed \/ auditErr) /\ eff' = m /\ UNCHANGED <<trail, auditErr>>
  \/ plan.governed /\ ~auditErr /\ auditOpen /\ trail' = Append(trail, e)
       /\ eff' = m /\ UNCHANGED auditErr
  \/ plan.governed /\ ~auditErr /\ auditErr' = TRUE /\ eff' = Blame(m, "fault")
       /\ UNCHANGED trail

TheRecord == [eff |-> eff, cor |-> cor, graded |-> graded, auditErr |-> auditErr,
              attErr |-> attErr, count |-> count, outcome |-> outcome]

\* Inside evaluate_workspace a governed trial catches every Exception; a
\* KeyboardInterrupt passes there too.
Throw == pc' = "raised" \/ (guarded /\ pc' = "failed")

-----------------------------------------------------------------------------
(* Admission and the start of the agent *)

\* The record and its directory; the trail of a governed run is created.
PrepareRun ==
  /\ pc = "new"
  /\ \/ pc' = "raised" /\ UNCHANGED auditOpen
     \/ pc' = (IF plan.governed THEN "requested" ELSE "starting")
          /\ auditOpen' = plan.governed
  /\ UNCHANGED <<flowVars, clusterVars, eff, cor, graded, snapshot, trail, auditErr,
                 attErr, count, outcome, storeVars>>

Requested ==
  /\ pc = "requested" /\ pc' = "admitting"
  /\ Audit(Ev("evaluation.requested", "none", TRUE), eff)
  /\ UNCHANGED <<flowVars, clusterVars, cor, graded, snapshot, auditOpen, attErr,
                 count, outcome, storeVars>>

\* A trial whose trail cannot be written completes before it has an agent.
GoesOn(label) ==
  \/ ~auditErr' /\ pc' = label /\ UNCHANGED cor
  \/ auditErr' /\ pc' = "complete" /\ cor' = [NoTests EXCEPT !.infra = TRUE]

Admitted ==
  /\ pc = "admitting"
  /\ Audit(Ev("policy.admitted", "none", TRUE), eff)
  /\ GoesOn("starting")
  /\ UNCHANGED <<flowVars, clusterVars, graded, snapshot, auditOpen, attErr, count,
                 outcome, storeVars>>

AgentStarted ==
  /\ pc = "starting"
  /\ Audit(Ev("agent.started", "none", TRUE), eff)
  /\ GoesOn("setup")
  /\ UNCHANGED <<flowVars, clusterVars, graded, snapshot, auditOpen, attErr, count,
                 outcome, storeVars>>

-----------------------------------------------------------------------------
(* The agent phase *)

\* Inside the try: a handled exception is written down, any other is raised
\* again after the finally clause.
Fails ==
  /\ pc' = "finally"
  /\ \/ eff' = Blame(eff, "fault") /\ UNCHANGED raising
     \/ raising' = TRUE /\ UNCHANGED eff

SetupSucceeds ==
  /\ pc = "setup" /\ pc' = "proxying"
  /\ redactor' = plan.secret
  /\ alive' = IF plan.secret THEN {"secret"} ELSE {}
  /\ held' = alive'
  /\ UNCHANGED <<raising, cleanupErrors, eff>>

\* The image, the namespace or the credentials fail, or the Secret does: it
\* may have been created all the same, and its rollback may fail.
SetupFails ==
  /\ pc = "setup" /\ Fails
  /\ \/ redactor' = plan.secret
          /\ alive' \in {{}, {"secret"} \cap {r \in Resources : plan.secret}}
     \/ UNCHANGED <<redactor, alive>>
  /\ UNCHANGED <<held, cleanupErrors>>

\* create_egress_proxy and create_sandbox_pod clean up after themselves when
\* they fail; that can fail too.
Create(r, from, to) ==
  /\ pc = from
  /\ \/ /\ pc' = to
        /\ alive' = alive \cup {r} /\ held' = held \cup {r}
        /\ UNCHANGED <<raising, eff>>
     \/ /\ Fails
        /\ alive' \in {alive, alive \cup {r}}
        /\ UNCHANGED held
  /\ UNCHANGED <<redactor, cleanupErrors>>

NoProxy ==
  /\ pc = "proxying" /\ ~plan.proxy /\ pc' = "creating"
  /\ UNCHANGED <<raising, redactor, clusterVars, eff>>

Setup ==
  /\ \/ SetupSucceeds \/ SetupFails \/ NoProxy
     \/ plan.proxy /\ Create("proxy", "proxying", "creating")
     \/ Create("pod", "creating", "running")
  /\ UNCHANGED <<plan, guarded, uncontained, cor, graded, snapshot, auditVars, attErr,
                 count, outcome, storeVars>>

\* The agent ran: its exit status, a sandbox failure (OOM, eviction, ...), a
\* timeout or the output cap; or the pod never became ready, or showed the
\* wrong image; or what it was to be given made an unsafe archive.
RunAgent ==
  /\ pc = "running"
  /\ \/ /\ pc' = "snapshot" /\ UNCHANGED <<raising, cor>>
        /\ eff' \in [infra : {{}, {"fault"}}, exit : {"zero", "nonzero"}, image : {TRUE}]
                    \cup {[infra |-> {"fault"}, exit |-> "none", image |-> TRUE]}
     \/ Fails /\ UNCHANGED cor
     \/ /\ pc' = "finally" /\ cor' = [NoTests EXCEPT !.integrity = TRUE]
        /\ UNCHANGED <<raising, eff>>
  /\ UNCHANGED <<plan, guarded, redactor, uncontained, clusterVars, graded,
                 snapshot, auditVars, attErr, count, outcome, storeVars>>

\* The processes must stop before the workspace is copied; an unsafe archive,
\* or credentials in it, is the agent's fault and not the infrastructure's.
Snapshot ==
  /\ pc = "snapshot"
  /\ \/ /\ pc' = "finally" /\ UNCHANGED <<raising, eff>>
        /\ \/ snapshot' = TRUE /\ UNCHANGED cor
           \/ cor' = [NoTests EXCEPT !.integrity = TRUE] /\ UNCHANGED snapshot
     \/ Fails /\ UNCHANGED <<snapshot, cor>>
  /\ UNCHANGED <<plan, guarded, redactor, uncontained, clusterVars, graded,
                 auditVars, attErr, count, outcome, storeVars>>

-----------------------------------------------------------------------------
(* The finally clause *)

\* A governed agent that ran must have shown the admitted model.
AgentCompleted ==
  /\ pc = "finally" /\ pc' = "logs"
  /\ \E mismatch \in {FALSE, plan.governed /\ eff.image} :
       LET e == BlameIf(eff, mismatch, "fault")
       IN Audit(Ev("agent.completed", IF e.infra # {} THEN "infrastructure_error"
                                      ELSE "completed", snapshot), e)
  /\ UNCHANGED <<flowVars, clusterVars, cor, graded, snapshot, auditOpen, attErr,
                 count, outcome, storeVars>>

ProxyLogs ==
  /\ pc = "logs" /\ pc' = "delPod"
  /\ eff' = eff \/ ("proxy" \in held /\ eff' = Blame(eff, "fault"))
  /\ UNCHANGED <<flowVars, clusterVars, cor, graded, snapshot, auditVars, attErr,
                 count, outcome, storeVars>>

\* Mutant: a failed deletion is not written down.
DeleteQuietly(r) ==
  /\ alive' \in {alive, alive \ {r}}
  /\ UNCHANGED cleanupErrors

\* _delete_with_retries on a resource the trial holds, if it holds it.  After
\* the last failure the resource may be gone all the same.
Delete(r) ==
  \/ r \notin held /\ UNCHANGED <<alive, cleanupErrors>>
  \/ r \in held /\ alive' = alive \ {r} /\ UNCHANGED cleanupErrors
  \/ r \in held /\ alive' \in {alive, alive \ {r}}
       /\ cleanupErrors' = cleanupErrors \cup {r}

\* Mutant: an exception on its way out skips the Secret.
DeleteUnlessRaising ==
  /\ \/ pc = "delPod"    /\ pc' = "delProxy"  /\ Delete("pod")
     \/ pc = "delProxy"  /\ pc' = "delSecret" /\ Delete("proxy")
     \/ pc = "delSecret" /\ pc' = "cleaned"   /\ ~raising /\ Delete("secret")
     \/ pc = "delSecret" /\ pc' = "cleaned"   /\ raising /\ UNCHANGED <<alive, cleanupErrors>>
  /\ UNCHANGED <<flowVars, held, eff, cor, graded, snapshot, auditVars, attErr, count,
                 outcome, storeVars>>

\* The retries catch every Exception.
DeleteResources ==
  /\ \/ pc = "delPod"    /\ pc' = "delProxy"  /\ Delete("pod")
     \/ pc = "delProxy"  /\ pc' = "delSecret" /\ Delete("proxy")
     \/ pc = "delSecret" /\ pc' = "cleaned"   /\ Delete("secret")
  /\ UNCHANGED <<flowVars, held, eff, cor, graded, snapshot, auditVars, attErr, count,
                 outcome, storeVars>>

\* What correctness says of a trial without a workspace to evaluate.
Unevaluated(c) == IF c.integrity THEN c ELSE [NoTests EXCEPT !.infra = TRUE]

CleanupCompleted ==
  /\ pc = "cleaned"
  /\ Audit(Ev("cleanup.completed", IF cleanupErrors # {} THEN "failed" ELSE "completed",
              FALSE), BlameIf(eff, cleanupErrors # {}, "fault"))
  /\ \/ raising /\ pc' = "raised" /\ UNCHANGED <<cor, guarded>>
     \/ ~raising /\ snapshot /\ pc' = "evaluate" /\ guarded' = plan.governed
          /\ UNCHANGED cor
     \/ ~raising /\ ~snapshot /\ pc' \in {"complete", "raised"}
          /\ cor' = Unevaluated(cor) /\ UNCHANGED guarded
  /\ UNCHANGED <<plan, raising, redactor, uncontained, clusterVars, graded, snapshot,
                 auditOpen, attErr, count, outcome, storeVars>>

\* Nothing in the finally clause catches an interrupt (runner.py:3453, 1785): it
\* skips the deletions that are left, and no record is saved to tell of them.
DeletedAt == [pod |-> "delPod", proxy |-> "delProxy", secret |-> "delSecret"]
InterruptCleanup ==
  /\ \/ pc \in DeleteLabels /\ pc' = "interrupted" /\ UNCHANGED alive
     \/ \E r \in held : /\ pc = DeletedAt[r] /\ pc' = "interrupted"
                       /\ alive' = alive \ {r}
     \/ pc = "cleaned" /\ pc' = "raised" /\ UNCHANGED alive
  /\ UNCHANGED <<flowVars, held, cleanupErrors, eff, cor, graded, snapshot, auditVars,
                 attErr, count, outcome, storeVars>>

-----------------------------------------------------------------------------
(* evaluate_workspace *)

EvaluationStarted ==
  /\ pc = "evaluate"
  /\ \/ pc' = "tests" /\ Audit(Ev("evaluation.started", "none", TRUE), eff)
     \/ Throw /\ UNCHANGED <<eff, trail, auditErr>>
  /\ UNCHANGED <<flowVars, clusterVars, cor, graded, snapshot, auditOpen, attErr,
                 count, outcome, storeVars>>

\* A workspace that is not safe to evaluate is rejected without tests.
UnsafeWorkspace ==
  /\ pc' = "skipScans"
  /\ cor' = [NoTests EXCEPT !.integrity = TRUE, !.isolated = plan.governed]
  /\ Audit(Ev("tests.completed", "integrity_rejected", FALSE), eff)

\* run_eval_phase; what went wrong with the agent goes wrong here too.
TestsCompleted ==
  /\ pc' = "scans"
  /\ \E failing \in {"none", "infra", "integrity", "tests"} :
       cor' = [infra |-> failing = "infra" \/ eff.infra # {},
               integrity |-> failing = "integrity",
               passed |-> failing = "none", isolated |-> plan.governed]
  /\ Audit(Ev("tests.completed", IF cor'.infra THEN "infrastructure_error"
                                 ELSE "completed", Resolved(cor')), eff)

Tests ==
  /\ pc = "tests"
  /\ \/ UnsafeWorkspace \/ TestsCompleted
     \/ Throw /\ UNCHANGED <<cor, eff, trail, auditErr>>
  /\ UNCHANGED <<flowVars, clusterVars, graded, snapshot, auditOpen, attErr, count,
                 outcome, storeVars>>

\* The diff, which is an integrity error when it is incomplete, and the
\* scanners; both have to be clean before a model may see the diff.
ScansCompleted ==
  /\ pc' = "judge"
  /\ \E complete \in BOOLEAN, scans \in {FALSE, plan.scans} :
       /\ cor' = [cor EXCEPT !.integrity = @ \/ ~complete]
       /\ graded' \in [scans : {scans}, safe : {FALSE, complete /\ plan.scans},
                       score : {FALSE}, gates : {FALSE}]
  /\ Audit(Ev("scanners.completed", IF plan.scans THEN "completed" ELSE "skipped",
              FALSE), eff)

Scans ==
  /\ pc = "scans"
  /\ \/ ScansCompleted
     \/ Throw /\ cor' \in {cor, [cor EXCEPT !.integrity = TRUE]}
          /\ UNCHANGED <<graded, eff, trail, auditErr>>
  /\ UNCHANGED <<flowVars, clusterVars, snapshot, auditOpen, attErr, count, outcome,
                 storeVars>>

\* The judge, then the challenges; then all measurements are in.
Judge ==
  /\ pc = "judge"
  /\ \E score \in {FALSE, plan.judge /\ graded.safe}, gates \in BOOLEAN :
       graded' = [graded EXCEPT !.score = score, !.gates = gates]
  /\ \/ /\ pc' = "complete" \/ Throw
        /\ \/ plan.judge /\ graded.safe
                /\ Audit(Ev("judge.completed", "completed", graded'.score), eff)
           \/ plan.judge /\ ~graded'.score  \* not safe, or screened for credentials
                /\ Audit(Ev("judge.skipped", "skipped", FALSE), eff)
           \/ ~plan.judge /\ Audit(Ev("judge.skipped", "disabled", FALSE), eff)
     \/ Throw /\ UNCHANGED <<eff, trail, auditErr>>
  /\ UNCHANGED <<flowVars, clusterVars, cor, snapshot, auditOpen, attErr, count,
                 outcome, storeVars>>

\* An unsafe workspace meets neither.
Skip ==
  /\ \/ pc = "skipScans" /\ pc' = "skipJudge"
          /\ Audit(Ev("scanners.completed", "skipped", FALSE), eff)
     \/ pc = "skipJudge" /\ pc' = "complete"
          /\ Audit(Ev("judge.skipped", "skipped", FALSE), eff)
  /\ UNCHANGED <<flowVars, clusterVars, cor, graded, snapshot, auditOpen, attErr,
                 count, outcome, storeVars>>

\* Mutant: the handler catches what its own completion raises, again and again.
EvaluationFailedAgain ==
  /\ pc = "failed" /\ pc' \in {"complete", "raised"}
  /\ cor' = [cor EXCEPT !.infra = TRUE]
  /\ Audit(Ev("evaluation.failed", "none", FALSE), eff)
  /\ UNCHANGED <<flowVars, clusterVars, graded, snapshot, auditOpen, attErr, count,
                 outcome, storeVars>>

\* The handler in the trial: the record says so and completes, once more if
\* the exception came out of completing it.
EvaluationFailed ==
  /\ pc = "failed" /\ pc' \in {"complete", "raised"}
  /\ guarded' = FALSE
  /\ cor' = [cor EXCEPT !.infra = TRUE]
  /\ Audit(Ev("evaluation.failed", "none", FALSE), eff)
  /\ UNCHANGED <<plan, raising, redactor, uncontained, clusterVars, graded, snapshot,
                 auditOpen, attErr, count, outcome, storeVars>>

-----------------------------------------------------------------------------
(* _complete_record *)

\* A governed record must hold the evidence its admission promised: the mode
\* of the evaluation, the agent's image, the scanners, the judge, and an
\* untouched copy of the task with the images all of one digest.
EvidenceChecked(e, intact) ==
  LET missing == \/ e.infra = {} /\ ~e.image
                 \/ plan.scans /\ ~graded.scans
                 \/ plan.judge /\ ~graded.score
                 \/ ~intact
  IN BlameIf(BlameIf(e, plan.governed /\ ~cor.isolated, "mode"),
             plan.governed /\ missing, "fault")

OutcomeDecided ==
  /\ pc = "complete" /\ pc' = "runCompleted"
  /\ \E intact \in BOOLEAN :
       LET e == EvidenceChecked(eff, intact)
       IN /\ outcome' = Verdict(plan, e, cor, graded)
          /\ Audit(Ev("outcome.decided", outcome', FALSE), e)
  /\ UNCHANGED <<flowVars, clusterVars, cor, graded, snapshot, auditOpen, attErr,
                 count, storeVars>>

RunCompleted ==
  /\ pc = "runCompleted" /\ pc' = "seal"
  /\ Audit(Ev("run.completed", outcome, FALSE), eff)
  /\ UNCHANGED <<flowVars, clusterVars, cor, graded, snapshot, auditOpen, attErr,
                 count, outcome, storeVars>>

\* Mutant: the verdict stands although the trail has failed after it.
SealKeepsVerdict ==
  /\ pc = "seal" /\ pc' = "contain"
  /\ count' = Len(trail)
  /\ auditOpen' = FALSE
  /\ UNCHANGED <<flowVars, clusterVars, eff, auditErr, outcome, cor, graded, snapshot,
                 trail, attErr, storeVars>>

\* What the trail comes to goes into the record, then the trail is closed.
Seal ==
  /\ pc = "seal" /\ pc' = "contain"
  /\ count' = Len(trail)
  /\ auditOpen' = FALSE
  /\ \/ UNCHANGED <<eff, auditErr>>
     \/ auditOpen /\ auditErr' = TRUE /\ eff' = Blame(eff, "fault")
  /\ outcome' = IF auditErr' THEN Verdict(plan, eff', cor, graded) ELSE outcome
  /\ UNCHANGED <<flowVars, clusterVars, cor, graded, snapshot, trail, attErr, storeVars>>

\* Artifacts that may hold credentials are removed before the record is saved.
Contain ==
  /\ pc = "contain" /\ pc' = "redact"
  /\ \/ uncontained' = FALSE /\ UNCHANGED <<eff, attErr, outcome>>
     \/ /\ redactor /\ uncontained' = TRUE /\ attErr' = TRUE
        /\ eff' = Blame(eff, "fault")
        /\ outcome' = Verdict(plan, eff', cor, graded)
  /\ UNCHANGED <<plan, raising, guarded, redactor, clusterVars, cor, graded, snapshot,
                 auditVars, count, storeVars>>

\* The record is redacted; what can not be redacted is not saved.
Redact ==
  /\ pc = "redact"
  /\ pc' = "persist" \/ Throw
  /\ UNCHANGED <<flowVars, clusterVars, eff, cor, graded, snapshot, auditVars, attErr,
                 count, outcome, storeVars>>

\* save_run: an exception leaves the old record, or it came after the commit.
Save(next) ==
  /\ \/ pc' = next /\ row' = TheRecord
     \/ Throw /\ row' \in {row, TheRecord}
  /\ UNCHANGED attested

\* _persist_run looks at the artifacts and at the record once more and then
\* does not save what it finds unfit.
Persist ==
  /\ pc = "persist"
  /\ Save("attest") \/ (redactor /\ pc' = "amend" /\ UNCHANGED storeVars)
  /\ UNCHANGED <<flowVars, clusterVars, eff, cor, graded, snapshot, auditVars, attErr,
                 count, outcome>>

\* Mutant: a governed run, too, remains usable without its attestation.
AttestOptional ==
  /\ pc = "attest"
  /\ \/ attested' = row /\ pc' = IF uncontained THEN "amend" ELSE "done"
     \/ UNCHANGED attested /\ pc' = IF uncontained THEN "amend" ELSE "done"
  /\ UNCHANGED <<flowVars, clusterVars, eff, cor, graded, snapshot, auditVars, attErr,
                 count, outcome, row>>

\* create_attestation, or its prerequisites, may fail: a governed run can not
\* do without, another remains usable.
Attest ==
  /\ pc = "attest"
  /\ \/ attested' = row /\ pc' = IF uncontained THEN "amend" ELSE "done"
     \/ UNCHANGED attested
          /\ pc' = IF uncontained \/ plan.governed THEN "amend" ELSE "done"
  /\ UNCHANGED <<flowVars, clusterVars, eff, cor, graded, snapshot, auditVars, attErr,
                 count, outcome, row>>

\* Mutant: holds a record that lost its attestation against the submission.
AmendBlamesAgent ==
  /\ pc = "amend"
  /\ attErr' = TRUE /\ cor' = [cor EXCEPT !.integrity = TRUE]
  /\ outcome' = Verdict(plan, eff, cor', graded)
  /\ UNCHANGED <<flowVars, clusterVars, eff, graded, snapshot, auditVars, count,
                 attested>>
  /\ \/ pc' = "done" /\ row' = TheRecord'
     \/ Throw /\ row' \in {row, TheRecord'}

\* The corrective save.
Amend ==
  /\ pc = "amend"
  /\ attErr' = TRUE /\ eff' = Blame(eff, "fault")
  /\ outcome' = Verdict(plan, eff', cor, graded)
  /\ UNCHANGED <<flowVars, clusterVars, cor, graded, snapshot, auditVars, count,
                 attested>>
  /\ \/ pc' = "done" /\ row' = TheRecord'
     \/ Throw /\ row' \in {row, TheRecord'}

-----------------------------------------------------------------------------

Next ==
  \/ PrepareRun \/ Requested \/ Admitted \/ AgentStarted
  \/ Setup \/ RunAgent \/ Snapshot
  \/ AgentCompleted \/ ProxyLogs \/ DeleteResources \/ CleanupCompleted
  \/ InterruptCleanup
  \/ EvaluationStarted \/ Tests \/ Scans \/ Judge \/ Skip \/ EvaluationFailed
  \/ OutcomeDecided \/ RunCompleted \/ Seal \/ Contain \/ Redact \/ Persist
  \/ Attest \/ Amend

\* Every command of a trial has a timeout, so a trial goes on.
Spec == Init /\ [][Next]_vars /\ WF_vars(Next)

-----------------------------------------------------------------------------
(* verify-run (cli.py): what a saved governed record has to agree with *)

Count(type)  == Cardinality({i \in DOMAIN trail : trail[i].type = type})
At(type)     == CHOOSE i \in DOMAIN trail : trail[i].type = type
Said(type)   == trail[At(type)]
InOrder(types) == \A i, j \in DOMAIN types : i < j => At(types[i]) < At(types[j])

Required == <<"evaluation.requested", "policy.admitted", "agent.started",
              "agent.completed", "cleanup.completed", "outcome.decided",
              "run.completed">>

\* Which judge result the trail shows, if it shows one.
JudgeType == IF Count("judge.completed") = 1 THEN "judge.completed" ELSE "judge.skipped"

EvaluationOnTrail ==
  \/ Count("evaluation.started") = 0
  \/ /\ Count("evaluation.failed") = 1
     /\ InOrder(<<"evaluation.started", "evaluation.failed", "outcome.decided">>)
  \/ /\ Count("evaluation.failed") = 0
     /\ \A type \in {"evaluation.started", "tests.completed", "scanners.completed"} :
          Count(type) = 1
     /\ Count("judge.completed") + Count("judge.skipped") = 1
     /\ InOrder(<<"cleanup.completed", "evaluation.started", "tests.completed",
                  "scanners.completed", JudgeType, "outcome.decided">>)

\* The events say of the run what its record says.
\* An admitted judge has judged, and no other.
JudgeMatches ==
  Count("judge.completed") + Count("judge.skipped") = 1 =>
    IF plan.judge THEN JudgeType = "judge.completed" /\ Said("judge.completed").ok
    ELSE JudgeType = "judge.skipped" /\ Said("judge.skipped").status = "disabled"

EventsMatchRow ==
  /\ Said("agent.completed").ok = (Count("evaluation.started") > 0)
  /\ Said("agent.completed").status = "infrastructure_error" => row.eff.infra # {}
  /\ Said("cleanup.completed").status = "failed" => row.eff.infra # {}
  /\ Count("tests.completed") = 1 =>
       LET e == Said("tests.completed")
       IN IF e.status = "integrity_rejected" THEN row.cor.integrity
          ELSE /\ e.ok = Resolved(row.cor)
               /\ e.status = IF row.cor.infra THEN "infrastructure_error" ELSE "completed"
  /\ Count("scanners.completed") = 1 =>
       /\ plan.scans = (Said("scanners.completed").status # "skipped")
       /\ plan.scans => row.graded.scans
  /\ JudgeMatches
  /\ Said("outcome.decided").status = row.outcome
  /\ Said("run.completed").status = row.outcome

OutcomeRecomputes == row.outcome = Verdict(plan, row.eff, row.cor, row.graded)

Verifies ==
  /\ attested = row
  /\ ~row.auditErr /\ ~row.attErr /\ row.cor.isolated
  /\ row.eff.infra = {} => row.eff.image
  /\ row.outcome # "infra_error" => (plan.scans => row.graded.scans)
  /\ row.count = Len(trail)
  /\ \A i \in 1..7 : Count(Required[i]) = 1
  /\ InOrder(Required)
  /\ At("agent.started") = 3 /\ At("outcome.decided") = Len(trail) - 1
  /\ EvaluationOnTrail
  /\ EventsMatchRow
  /\ OutcomeRecomputes

-----------------------------------------------------------------------------
(* Properties *)

\* A record saved while something the trial created is still in the cluster
\* is an infrastructure error: a leak is never scored as a result.
LeakReported == row # NoRow /\ alive # {} => row.outcome = "infra_error"

\* A governed record with a result of the agent's, saved for good or about to
\* be corrected, has a complete trail that ends with that very result.
VerdictOnTrail ==
  plan.governed /\ row # NoRow /\ row.outcome # "infra_error" =>
    /\ row.count = Len(trail) /\ ~row.auditErr
    /\ trail[Len(trail)] = Ev("run.completed", row.outcome, FALSE)

\* A governed trial that returns an accepted record has left behind all that
\* verify-run asks for.
AcceptedVerifies ==
  plan.governed /\ pc = "done" /\ row.outcome = "accepted" => Verifies

\* Completing a record again, or correcting it, only ever withdraws a result.
NeverUpgraded ==
  [][row # NoRow => row' # NoRow /\ row'.outcome \in {row.outcome, "infra_error"}]_vars

\* Every trial ends: no failure on the way, nor a second completion of the
\* record, leaves it without a next step.
Terminates == <>(pc \in {"done", "raised", "interrupted"})

\* A trial that returns, or raises what was raised before its cleanup, has given
\* back each resource it got a handle for, or noticed that it could not.  A
\* cleanup that is itself interrupted never gets that far: it stays "deleting".
Cluster == INSTANCE TrialResources WITH
             left <- cleanupErrors,
             phase <- CASE pc \in SetupLabels  -> "creating"
                        [] pc \in DeleteLabels \cup {"interrupted"} -> "deleting"
                        [] OTHER              -> "over"
TrialResourcesPromise == Cluster!Spec

\* To the trial the audit trail is an append-only log, and after the first
\* failure or the closing nothing more is added to it.
Log == INSTANCE AppendLog WITH Events <- Event, log <- trail,
                               open <- (pc = "new" \/ auditOpen) /\ ~auditErr
TrailIsLog == Log!Spec

\* "A hostile or structurally unsafe submission is a rejected result, not an
\* infrastructure outage" (evaluators/tests.py:123), for trials in which no
\* scanner or judge is due and nothing went wrong outside the submission.
UnsafeIsRejected ==
  (/\ pc = "done" /\ ~plan.scans /\ ~plan.judge
   /\ row.cor.integrity /\ ~row.cor.infra /\ row.eff.infra \subseteq {"mode"})
    => row.outcome = "rejected"
===============================================================================
