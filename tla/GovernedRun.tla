------------------------------ MODULE GovernedRun ------------------------------
(***************************************************************************)
(* A governed `run' of the CLI, from its options to its last trial: what   *)
(* is admitted at the beginning is replayed before every trial, while the  *)
(* task's directory, the scanners and the images of the host and of the    *)
(* cluster may be changed by others at any time.                           *)
(***************************************************************************)
EXTENDS Governance, Sequences

CONSTANTS Cases,    \* what the two governance files and the command line may say:
                    \* records of a request, a bundle, and options with environment
          Settings, \* what a task of a version says of its execution
          Usages,   \* what a trial may be observed to use
          Changes   \* bound: changes that others make

Missing == -1

\* Limits are natural numbers, where 0 in a request sets none; a specification in
\* the registry was made of a task as it was.
ASSUME CasesAssumption ==
  \A c \in Cases :
    /\ c = [request |-> c.request, bundle |-> c.bundle, options |-> c.options]
    /\ c.options.trials \in Nat /\ c.bundle.rules.trials \in Nat
    /\ \A limits \in {c.bundle.rules, c.request} \cup c.bundle.models :
         limits.tokens \in Nat /\ limits.cost \in Nat
    /\ \A e \in c.bundle.tasks : \A spec \in e.specs : spec.config = spec.tree
ASSUME UsagesAssumption == Usages \subseteq [tokens : Nat \cup {Missing}, cost : Nat \cup {Missing}]
ASSUME ChangesAssumption == Changes \in Nat

VARIABLES request, bundle, options, \* as loaded
          live,      \* the task's directory and the scanners, as they are
          images,    \* digests behind the governed reference, on host and node
          changes,   \* changes made by others
          pc, trial,
          config,    \* version of the task's settings, read at the beginning
          preflight, execution, \* the decisions, where taken
          snapshot,  \* the trial's private copy of the task
          pod,       \* digest of the image the agent's pod runs
          usage,     \* history: what the trials were observed to use
          used,      \* history: the scanners that looked at each trial
          accepted,  \* the accepted trials
          hashed,    \* the scanners as hashed before they scan
          swaps,     \* history: how often they were replaced since then
          restored   \* history: trials in whose scan they were, more than once

files == <<request, bundle, options>>
world == <<live, images, changes>>
scanVars == <<accepted, hashed, swaps, restored>>
vars  == <<files, world, pc, trial, config, preflight, execution, snapshot, pod, usage,
           used, scanVars>>

Unknown == [tokens |-> Missing, cost |-> Missing]

\* A directory that is written to while it is read is found as no version.
Torn     == "torn"
Versions == DOMAIN Settings
Digests  == {"approved", "other"}
Over     == {"refused", "denied", "ended"}
Labels   == Over \cup {"load", "preflight", "prepare", "copy", "decide", "validate", "snapshot",
                       "evidence", "host", "import", "node", "pod", "digest", "agent", "finish",
                       "scan", "rehash", "next"}

\* Variables keep their types.
TypeOK ==
  /\ [request |-> request, bundle |-> bundle, options |-> options] \in Cases
  /\ live.tree \in Versions /\ images \in [{"host", "node"} -> Digests \cup {None}]
  /\ changes \in 0 .. Changes /\ pc \in Labels
  /\ trial \in 0 .. options.trials
  /\ config \in Versions \cup {None} /\ snapshot \in Versions \cup {None}
  /\ \A d \in preflight \cup execution : d.allowed \in BOOLEAN
  /\ Cardinality(preflight) <= 1 /\ Cardinality(execution) <= 1
  /\ pod \in Digests \cup {None}
  /\ usage \in Seq(Usages \cup {Unknown}) /\ Len(usage) <= trial /\ accepted \subseteq 1 .. trial
  /\ hashed \in {"allowed", "partial", "newer", None} /\ swaps \in 0 .. changes
  /\ restored \subseteq 1 .. trial

Init ==
  /\ \E c \in Cases : request = c.request /\ bundle = c.bundle /\ options = c.options
  /\ live \in [tree : Versions, scanner : {"allowed", "partial"}]
  /\ images \in [{"host", "node"} -> Digests \cup {None}] /\ changes = 0
  /\ pc = "load" /\ trial = 0 /\ config = None /\ preflight = {} /\ execution = {}
  /\ snapshot = None /\ pod = None /\ usage = <<>> /\ used = <<>> /\ accepted = {}
  /\ hashed = None /\ swaps = 0 /\ restored = {}

-----------------------------------------------------------------------------
(* What is observed of the run: _governance_..._evidence *)

Read == {live.tree, Torn}

Judged == options.judge /\ Settings[config].judge

\* Mutant: a digest of the files alone.
ExecutionSpecOfFiles(tree) ==
  [config |-> tree, tree |-> tree, scans |-> options.scans, judge |-> Judged]

ExecutionSpec(tree) ==
  [config |-> config, tree |-> tree, scans |-> options.scans, judge |-> Judged]

Observed(tree, image) ==
  LET s == Settings[config] IN
  [task |-> s.task, agent |-> options.agent, model |-> options.model, trials |-> options.trials,
   network |-> s.network, domains |-> s.domains,
   proxy |-> IF s.network = "proxy" THEN s.proxy ELSE None,
   agentSecs |-> s.agentSecs, evalSecs |-> s.evalSecs, broker |-> options.broker,
   scans |-> options.scans, scanner |-> IF options.scans THEN live.scanner ELSE None,
   scannerReady |-> options.scans /\ live.scanner # "partial",
   judge |-> Judged, judgeBackend |-> IF Judged THEN s.judgeBackend ELSE None,
   judgeModel |-> IF Judged THEN s.judgeModel ELSE None,
   tree |-> tree, spec |-> ExecutionSpec(tree), image |-> image]

-----------------------------------------------------------------------------
(* cli.run up to the first trial *)

Goto(l) == pc' = l
Refuse  == pc' = "refused"  \* an exception: a message and exit 2, or a traceback

\* Only adapters of the harness itself, only isolated evaluation.
Load ==
  /\ pc = "load"
  /\ \/ config' = live.tree /\ Settings[live.tree].isolated
          /\ IF options.builtin THEN Goto("preflight") ELSE Refuse
     \/ config' = live.tree /\ ~Settings[live.tree].isolated /\ Refuse
     \/ UNCHANGED config /\ Refuse
  /\ UNCHANGED <<files, world, trial, preflight, execution, snapshot, pod, usage, used, scanVars>>

\* The decision is persisted also when it is a denial.
Preflight ==
  /\ pc = "preflight"
  /\ \/ \E tree \in Read :
          /\ preflight' = {EvaluateAdmission(request, bundle, Observed(tree, NoImage),
                                             "preflight", {})}
          /\ \E d \in preflight' : IF d.allowed THEN Goto("prepare") ELSE Goto("denied")
     \/ Refuse /\ UNCHANGED preflight
  /\ UNCHANGED <<files, world, trial, config, execution, snapshot, pod, usage, used, scanVars>>

\* Replays the preflight decision on what is there now.
ReplaysNow(n) == \E tree \in Read, d \in preflight :
                   Replays(request, bundle, Observed(tree, NoImage), d, "preflight", {}, n)

\* prepare_governed_execution, and at the start of a trial.
Validate ==
  /\ \/ pc = "prepare" /\ ReplaysNow(1) /\ Goto("copy")
     \/ pc = "validate" /\ ReplaysNow(trial) /\ Goto("snapshot")
     \/ pc \in {"prepare", "validate"} /\ Refuse
  /\ UNCHANGED <<files, world, trial, config, preflight, execution, snapshot, pod, usage, used,
                 scanVars>>

IsAdmitted(tree) == \A d \in preflight : tree = d.input.tree /\ ExecutionSpec(tree) = d.input.spec

\* _snapshot_governed_task: copied, and the copy is what is hashed.
Snapshot ==
  /\ pc \in {"copy", "snapshot"}
  /\ \/ /\ snapshot' = live.tree /\ IsAdmitted(live.tree)
        /\ Goto(IF pc = "copy" THEN "decide" ELSE "evidence")
     \/ Refuse /\ UNCHANGED snapshot
  /\ UNCHANGED <<files, world, trial, config, preflight, execution, pod, usage, used, scanVars>>

\* The approved image of this host's platform, and the decision that names it.
Decide ==
  /\ pc = "decide"
  /\ \/ \E p \in preflight, e \in UNION {t.images : t \in MatchedTask(bundle, Observed(snapshot, NoImage))} :
          LET d == EvaluateAdmission(request, bundle,
                     [Observed(snapshot, e) EXCEPT !.trials = p.input.trials], "execution", {p})
          IN /\ e.platform = options.platform
             /\ d.allowed /\ Continues(p, d) /\ execution' = {d} /\ Goto("host")
     \/ Refuse /\ UNCHANGED execution
  /\ UNCHANGED <<files, world, trial, config, preflight, snapshot, pod, usage, used, scanVars>>

Admitted == CHOOSE i \in {d.input.image : d \in execution} : TRUE

\* ensure_image, whose error ends the run before the first trial, and the trial
\* within one.
ImageError == IF trial = 0 THEN Refuse /\ UNCHANGED <<usage, used>>
              ELSE Goto("next") /\ usage' = Append(usage, Unknown)
                     /\ used' = Append(used, None)
ImageFound == Goto(IF trial = 0 THEN "next" ELSE "pod") /\ UNCHANGED <<usage, used>>

\* The manifest that the reference stands for there, if that can be told.
LocalManifest == {images.host, None}
NodeManifest  == {images.node, None}

EnsureImage ==
  /\ \/ /\ pc = "host" /\ Admitted.digest \in LocalManifest /\ UNCHANGED images
        /\ \E found \in NodeManifest :
             IF found = Admitted.digest THEN ImageFound
             ELSE Goto("import") /\ UNCHANGED <<usage, used>>
     \/ /\ pc = "import" /\ images' = [images EXCEPT !.node = images.host]
        /\ Goto("node") /\ UNCHANGED <<usage, used>>
     \/ /\ pc = "node" /\ Admitted.digest \in NodeManifest /\ ImageFound /\ UNCHANGED images
     \/ pc \in {"host", "import", "node"} /\ ImageError /\ UNCHANGED images
  /\ UNCHANGED <<files, live, changes, trial, config, preflight, execution, snapshot, pod,
                 scanVars>>

-----------------------------------------------------------------------------
(* The trials *)

\* _governed_usage_stop_reason: missing evidence stops as an excess does.
MayGoOn(u, limits) ==
  /\ u.tokens # Missing /\ u.tokens <= limits.tokens
  /\ u.cost # Missing /\ u.cost <= limits.cost

NextTrial ==
  /\ pc = "next"
  /\ IF trial < options.trials
          /\ \A d \in execution : trial > 0 => MayGoOn(usage[trial], d.limits)
     THEN trial' = trial + 1 /\ Goto("validate")
     ELSE UNCHANGED trial /\ Goto("ended")
  /\ snapshot' = None /\ pod' = None
  /\ UNCHANGED <<files, world, config, preflight, execution, usage, used, scanVars>>

\* _governance_evidence: the execution decision, on the copy that will be used.
Evidence ==
  /\ pc = "evidence"
  /\ \/ /\ \E p \in preflight, d \in execution :
             Replays(request, bundle, Observed(snapshot, d.input.image), d, "execution", {p}, trial)
             /\ IsEvidence(request, d)
        /\ Goto("host")
     \/ Refuse
  /\ UNCHANGED <<files, world, trial, config, preflight, execution, snapshot, pod, usage, used,
                 scanVars>>

\* The pod may find another image than was there a moment ago, or none.
StartPod ==
  /\ pc = "pod"
  /\ \/ images.node # None /\ pod' = images.node /\ Goto("digest") /\ UNCHANGED <<usage, used>>
     \/ ImageError /\ UNCHANGED pod
  /\ UNCHANGED <<files, world, trial, config, preflight, execution, snapshot, scanVars>>

\* Mutant: what the reference stands for now, whatever the pod runs.
DigestOfReference == NodeManifest

\* Pod.image_manifest_digest: the reference may stand for another image by now.
ManifestDigest == IF pod \in NodeManifest THEN {pod, None} ELSE {None}

\* _runtime_image_evidence
RuntimeDigest ==
  /\ pc = "digest"
  /\ \/ Admitted.digest \in ManifestDigest /\ Goto("agent") /\ UNCHANGED <<usage, used>>
     \/ ImageError
  /\ UNCHANGED <<files, world, trial, config, preflight, execution, snapshot, pod, scanVars>>

\* The agent ends; its transcript tells what it has used, or not.
Agent ==
  /\ pc = "agent" /\ Goto("finish")
  /\ \E u \in Usages : usage' = Append(usage, u)
  /\ UNCHANGED <<files, world, trial, config, preflight, execution, snapshot, pod, used, scanVars>>

\* _governed_scanner_assurance_error
ScannersAdmitted(observed) ==
  options.scans => \A d \in execution : observed # "partial" /\ observed = d.input.scanner

\* _governed_task: thresholds of the task hold as well, where it has any.
Acceptable(u, unit) ==
  \A d \in execution :
    /\ u[unit] # Missing
    /\ u[unit] <= Min({d.limits[unit]} \cup ({Settings[config][unit]} \ {0}))

\* The outcome: it may be accepted only with complete usage below the admitted
\* thresholds, and if the scanners were those admitted.
Outcome(scanner) ==
  \/ UNCHANGED accepted
  \/ /\ Acceptable(usage[trial], "tokens") /\ Acceptable(usage[trial], "cost")
     /\ ScannersAdmitted(scanner)
     /\ accepted' = accepted \cup {trial}

\* The evaluation up to the scanners, which are hashed before they scan; it ends
\* here where none are due, and where it fails.
Finish ==
  /\ pc = "finish"
  /\ \/ options.scans /\ Goto("scan") /\ hashed' = live.scanner /\ UNCHANGED <<used, accepted>>
     \/ ~options.scans /\ Goto("next") /\ used' = Append(used, None) /\ Outcome(None)
          /\ UNCHANGED hashed
     \/ Goto("next") /\ used' = Append(used, None) /\ UNCHANGED <<accepted, hashed>>
  /\ UNCHANGED <<files, world, trial, config, preflight, execution, snapshot, pod, usage, swaps,
                 restored>>

\* Those there are by now look at the workspace.
Scan ==
  /\ pc = "scan" /\ Goto("rehash")
  /\ used' = Append(used, live.scanner)
  /\ UNCHANGED <<files, world, trial, config, preflight, execution, snapshot, pod, usage, scanVars>>

\* Mutant: what the scanners were before they scan.
FirstHash == hashed

\* scanner_assurance_identity, of digests that are the same before and after.
Identity == IF live.scanner = hashed THEN hashed ELSE "partial"

\* And are hashed again.
Rehash ==
  /\ pc = "rehash" /\ Goto("next")
  /\ Outcome(Identity)
  /\ hashed' = None /\ swaps' = 0
  /\ restored' = IF swaps > 1 THEN restored \cup {trial} ELSE restored
  /\ UNCHANGED <<files, world, trial, config, preflight, execution, snapshot, pod, usage, used>>

-----------------------------------------------------------------------------
(* Others *)

Disturb ==
  /\ changes < Changes /\ changes' = changes + 1 /\ pc \notin Over
  /\ \/ \E v \in Versions \ {live.tree} :
          live' = [live EXCEPT !.tree = v] /\ UNCHANGED <<images, swaps>>
     \/ \E s \in {"allowed", "partial", "newer"} \ {live.scanner} :
          /\ live' = [live EXCEPT !.scanner = s] /\ UNCHANGED images
          /\ swaps' = IF pc \in {"scan", "rehash"} THEN swaps + 1 ELSE swaps
     \/ \E where \in {"host", "node"}, i \in Digests \cup {None} :
          /\ i # images[where] /\ images' = [images EXCEPT ![where] = i]
          /\ UNCHANGED <<live, swaps>>
  /\ UNCHANGED <<files, pc, trial, config, preflight, execution, snapshot, pod, usage, used,
                 accepted, hashed, restored>>

Step == \/ Load \/ Preflight \/ Validate \/ Snapshot \/ Decide \/ EnsureImage \/ NextTrial
        \/ Evidence \/ StartPod \/ RuntimeDigest \/ Agent \/ Finish \/ Scan \/ Rehash

Next == Step \/ Disturb
Spec == Init /\ [][Next]_vars

-----------------------------------------------------------------------------
(* Properties *)

\* Whenever an agent runs, everything it was given is approved by the policy as
\* loaded, and of one piece: settings and files of one version that the registry
\* approves, the approved image of the platform, for a model approved for the
\* data, in a trial that request, options and policy cover.
AdmittedOnly ==
  pc = "agent" =>
    /\ snapshot = config
    /\ \E e \in bundle.tasks :
         /\ e.status = "approved" /\ e.tree = snapshot /\ ExecutionSpec(snapshot) \in e.specs
         /\ \E i \in e.images : i.digest = pod /\ i.platform = options.platform
    /\ \E e \in bundle.models : /\ e.agent = request.agent /\ e.model = options.model
                                /\ e.status = "approved" /\ request.class \in e.classes
    /\ trial <= Min({options.trials, bundle.rules.trials})
    /\ bundle.rules.requireBroker => options.broker
    /\ bundle.rules.requireJudge => Judged
    /\ Settings[config].network \in bundle.rules.networks

\* No agent starts after a trial that has used more, of tokens or money, than
\* policy, request or model allow, or about whose usage nothing is known.
UsageStops ==
  pc = "agent" =>
    \A t \in 1 .. trial - 1, unit \in {"tokens", "cost"} :
      /\ usage[t][unit] # Missing
      /\ usage[t][unit] <= bundle.rules[unit]
      /\ request[unit] # 0 => usage[t][unit] <= request[unit]
      /\ \A e \in bundle.models : e.agent = options.agent /\ e.model = options.model
                                    => usage[t][unit] <= e[unit]

\* verify-run, on the documents of a run and on a task directory of this version.
Verified(tree, n) ==
  \E p \in preflight, d \in execution :
    LET s == Settings[tree]
        FromRecord(e) ==
          [e.input EXCEPT !.task = s.task, !.model = request.model, !.network = s.network,
             !.domains = s.domains, !.proxy = IF s.network = "proxy" THEN s.proxy ELSE None,
             !.agentSecs = s.agentSecs, !.evalSecs = s.evalSecs,
             !.scans = d.input.scans, !.scanner = d.input.scanner,
             !.scannerReady = d.input.scannerReady, !.judge = d.input.judge,
             !.judgeBackend = IF d.input.judge THEN s.judgeBackend ELSE None,
             !.judgeModel = IF d.input.judge THEN s.judgeModel ELSE None,
             !.tree = tree, !.spec = [config |-> tree, tree |-> tree, scans |-> d.input.scans,
                                      judge |-> d.input.judge]]
    IN /\ d.allowed /\ d.reasons = {"admitted"}
       /\ Continues(p, d) /\ n <= Min({p.input.trials, d.input.trials})
       /\ IsEvidence(request, d)
       /\ EvaluateAdmission(request, bundle, FromRecord(p), "preflight", {}) = p
       /\ EvaluateAdmission(request, bundle, FromRecord(d), "execution", {p}) = d

\* The run and verify-run look at different things, the one at settings in memory
\* and the state of the host, the other at saved documents and at a task read
\* anew.  Still the admission of every trial that runs an agent can be verified.
VerifiesLater == pc = "agent" => Verified(snapshot, trial)

\* An accepted trial was looked at by scanners that the policy allows, whenever
\* they were replaced before it ended: between the hashes, too, one replacement is
\* noticed.  Only scanners put in and taken out again between the two are not.
AcceptedAsAdmitted ==
  \A t \in accepted \ restored :
    options.scans \/ bundle.rules.requireScans => used[t] \in bundle.rules.scanners
===============================================================================
