------------------------------ MODULE Governance ------------------------------
(***************************************************************************)
(* Admission of a governed run (governance.py): a request, a policy bundle *)
(* and what is observed of the run give a decision, twice: before anything *)
(* is prepared ("preflight"), and for the image that will run              *)
(* ("execution").  And the replay of a decision against later observations *)
(* (_validate_governance_decision, runner.py).                             *)
(*                                                                         *)
(* A digest is the value it is made of.  What may be absent is None, a     *)
(* matched registry entry and the link to another decision are sets of at  *)
(* most one element.  Ill-typed inputs are left out, and so are the order  *)
(* and the wording of the reasons.                                         *)
(*                                                                         *)
(*   request  task, agent, model, tenant, project, class, retention,       *)
(*            tokens, cost (0: no threshold of its own)                    *)
(*   bundle   rules, tasks, models, judges                                 *)
(*   runtime  task, agent, model, trials, network, domains, proxy,         *)
(*            agentSecs, evalSecs, broker, scans, scanner, scannerReady,   *)
(*            judge, judgeBackend, judgeModel, tree, spec, image           *)
(***************************************************************************)
EXTENDS Integers, FiniteSets, FiniteSetsExt

None == "none"

\* The reference of a governed image holds its task and its digest.
NoImage == [digest |-> None, named |-> None, task |-> None, platform |-> None]
Exact(image) == \A f \in DOMAIN image : image[f] # None

Deny(code, holds) == IF holds THEN {code} ELSE {}

-----------------------------------------------------------------------------
(* Entries of the registries; their keys are unique *)

MatchedTask(b, r)  == {e \in b.tasks : e.task = r.task}
MatchedModel(b, r) == {e \in b.models : e.agent = r.agent /\ e.model = r.model}

\* Codex cannot prove which model it runs, and is not looked up.
MatchedJudge(b, r) ==
  {e \in b.judges : /\ r.judge /\ r.judgeBackend = "claude" /\ r.judgeModel # None
                    /\ e.backend = r.judgeBackend /\ e.model = r.judgeModel}

-----------------------------------------------------------------------------
(* Why a run is denied *)

ImageDenials(r, stage) ==
  IF stage = "preflight" THEN Deny("image_digest_unexpected", r.image # NoImage)
  ELSE Deny("image_digest_invalid", r.image.digest = None)
       \cup Deny("image_identity_invalid", None \in {r.image.named, r.image.platform})
       \cup Deny("image_identity_mismatch",
                 Exact(r.image) /\ ~(r.image.task = r.task /\ r.image.named = r.image.digest))

TaskDenials(b, r, stage) ==
  Deny("task_not_registered", MatchedTask(b, r) = {})
  \cup UNION {Deny("task_status", e.status # "approved")
              \cup Deny("task_tree_not_approved", r.tree # e.tree)
              \cup Deny("execution_spec_not_approved", r.spec \notin e.specs)
              \cup Deny("task_image_not_approved",
                        stage = "execution" /\ r.image \notin e.images)
              : e \in MatchedTask(b, r)}

RequestDenials(q, r) ==
  Deny("task_mismatch", r.task # q.task)
  \cup Deny("agent_mismatch", r.agent # q.agent)
  \cup Deny("model_mismatch", r.model # q.model)
  \cup Deny("coding_model_observation_unsupported", r.agent = "codex")

RuleDenials(q, b, r) ==
  Deny("tenant_not_allowed", q.tenant \notin b.rules.tenants)
  \cup Deny("project_not_allowed", q.project \notin b.rules.projects)
  \cup Deny("task_not_allowed", r.task \notin b.rules.tasks)
  \cup Deny("data_classification_not_allowed", q.class \notin b.rules.classes)
  \cup Deny("retention_not_allowed", q.retention \notin b.rules.retentions)
  \cup Deny("broker_credentials_required", b.rules.requireBroker /\ ~r.broker)

NetworkDenials(b, r) ==
  Deny("network_mode_not_allowed", r.network \notin b.rules.networks)
  \cup Deny("egress_domain_not_allowed",
            r.network = "proxy" /\ ~(r.domains \subseteq b.rules.domains))
  \cup Deny("proxy_image_required", r.network = "proxy" /\ r.proxy = None)
  \cup Deny("proxy_image_not_allowed",
            r.network = "proxy" /\ r.proxy \notin b.rules.proxies \cup {None})

ScannerDenials(b, r) ==
  Deny("scans_required", b.rules.requireScans /\ ~r.scans)
  \cup Deny("scanner_identity_required", r.scans /\ r.scanner = None)
  \cup Deny("scanner_identity_not_allowed",
            r.scans /\ r.scanner \notin b.rules.scanners \cup {None})
  \cup Deny("scanner_identity_incomplete", r.scans /\ ~r.scannerReady)
  \cup Deny("scanner_identity_unexpected",
            ~r.scans /\ (r.scanner # None \/ r.scannerReady))

JudgeDenials(q, b, r) ==
  Deny("judge_required", b.rules.requireJudge /\ ~r.judge)
  \cup Deny("judge_requires_scans", r.judge /\ ~r.scans)
  \cup Deny("judge_identity_required", r.judge /\ None \in {r.judgeBackend, r.judgeModel})
  \cup Deny("judge_model_observation_unsupported",
            r.judge /\ r.judgeBackend = "codex" /\ r.judgeModel # None)
  \cup Deny("judge_model_not_registered",
            /\ r.judge /\ r.judgeBackend = "claude" /\ r.judgeModel # None
            /\ MatchedJudge(b, r) = {})
  \cup UNION {Deny("judge_model_status", e.status # "approved")
              \cup Deny("judge_model_classification_not_allowed", q.class \notin e.classes)
              : e \in MatchedJudge(b, r)}
  \cup Deny("judge_identity_unexpected",
            ~r.judge /\ (r.judgeBackend # None \/ r.judgeModel # None))

LimitDenials(b, r) ==
  Deny("invalid_trials", r.trials <= 0)
  \cup Deny("trial_limit_exceeded", r.trials > b.rules.trials)
  \cup Deny("agent_timeout_exceeded", r.agentSecs > b.rules.agentSecs)
  \cup Deny("eval_timeout_exceeded", r.evalSecs > b.rules.evalSecs)

ModelDenials(q, b, r) ==
  Deny("model_not_registered", MatchedModel(b, r) = {})
  \cup UNION {Deny("model_status", e.status # "approved")
              \cup Deny("model_classification_not_allowed", q.class \notin e.classes)
              : e \in MatchedModel(b, r)}

Denials(q, b, r, stage) ==
  UNION {ImageDenials(r, stage), TaskDenials(b, r, stage), RequestDenials(q, r),
         RuleDenials(q, b, r), NetworkDenials(b, r), ScannerDenials(b, r),
         JudgeDenials(q, b, r), LimitDenials(b, r), ModelDenials(q, b, r)}

\* Mutant: the model's own threshold is forgotten.
LowestButModels(q, b, r, unit) ==
  Min({b.rules[unit]} \cup ({q[unit]} \ {0}))

\* The lowest of the thresholds for what may be used, of policy, request, model.
Lowest(q, b, r, unit) ==
  Min({b.rules[unit]} \cup ({q[unit]} \ {0}) \cup {e[unit] : e \in MatchedModel(b, r)})

EffectiveLimits(q, b, r) ==
  [trials |-> b.rules.trials, agentSecs |-> b.rules.agentSecs, evalSecs |-> b.rules.evalSecs,
   tokens |-> Lowest(q, b, r, "tokens"), cost |-> Lowest(q, b, r, "cost")]

EvaluateAdmission(q, b, r, stage, link) ==
  LET denied == Denials(q, b, r, stage) IN
  [stage |-> stage, link |-> link, allowed |-> denied = {}, request |-> q, bundle |-> b,
   input |-> [r EXCEPT !.proxy = IF r.network = "proxy" THEN r.proxy ELSE None],
   reasons |-> IF denied = {} THEN {"admitted"} ELSE denied,
   limits |-> EffectiveLimits(q, b, r), task |-> MatchedTask(b, r),
   model |-> MatchedModel(b, r), judge |-> MatchedJudge(b, r)]

-----------------------------------------------------------------------------
(* validate_execution_continuity: the execution decision adds the image, no more *)

Bound == {"request", "bundle", "reasons", "limits", "task", "model", "judge"}
Continues(preflight, execution) ==
  /\ preflight.stage = "preflight" /\ preflight.allowed
  /\ execution.stage = "execution" /\ execution.link = {preflight}
  /\ preflight.input.image = NoImage
  /\ [execution.input EXCEPT !.image = NoImage] = preflight.input
  /\ \A f \in Bound : preflight[f] = execution[f]

\* The decision is made again, and must be the same in all but its name and time.
Replayed(q, b, d, stage, parent) == EvaluateAdmission(q, b, d.input, stage, parent) = d

\* _validate_governance_decision: `r' is what is observed now, except for the
\* number of trials, which is the decision's.  `parent' is the preflight, where
\* `d' is an execution decision.
Replays(q, b, r, d, stage, parent, trial) ==
  /\ d.stage = stage
  /\ stage = "execution" => \E p \in parent : Continues(p, d)
  /\ stage = "preflight" => parent = {}
  /\ d.allowed /\ d.reasons = {"admitted"}
  /\ q.task = r.task /\ q.agent = r.agent /\ q.model = r.model
  /\ trial \in 1 .. Min({d.limits.trials, d.input.trials})
  /\ [r EXCEPT !.trials = d.input.trials] = d.input
  /\ r.agentSecs <= d.limits.agentSecs /\ r.evalSecs <= d.limits.evalSecs
  /\ Replayed(q, b, d, stage, parent)

\* GovernanceEvidence.from_decision: what a record may keep as its evidence.
IsEvidence(q, d) ==
  /\ d.request = q /\ d.stage = "execution" /\ d.link # {} /\ Exact(d.input.image)
  /\ IF d.input.scans THEN d.input.scanner # None /\ d.input.scannerReady
     ELSE d.input.scanner = None /\ ~d.input.scannerReady
  /\ IF d.input.judge THEN \E e \in d.judge : e.backend = d.input.judgeBackend
                                            /\ e.model = d.input.judgeModel
     ELSE d.input.judgeBackend = None /\ d.input.judgeModel = None
  /\ \E e \in d.task : /\ e.status = "approved" /\ e.task = q.task
                       /\ e.tree = d.input.tree /\ d.input.spec \in e.specs
===============================================================================
