--------------------------- MODULE GovernedRunProofs ---------------------------
(***************************************************************************)
(* Theorems about GovernedRun, for any documents, settings and usages, and *)
(* any number of changes by others: its types, that an agent runs only as  *)
(* admitted and within the thresholds, that its admission can be verified  *)
(* later, and that an accepted trial was scanned as admitted.              *)
(***************************************************************************)
EXTENDS GovernedRun, WellFoundedInduction, FiniteSetTheorems, TLAPS

\* The run behind its preflight, behind its second decision, and a trial behind
\* its evidence.
Images     == {"host", "import", "node"}
TrialRuns  == {"pod", "digest", "agent", "finish", "scan", "rehash"}
InTrial    == {"validate", "snapshot", "evidence"} \cup TrialRuns
AfterFirst == {"prepare", "copy", "decide", "next", "ended"} \cup Images \cup InTrial
AfterBoth  == {"next", "ended"} \cup Images \cup InTrial
Copied     == {"decide", "evidence"} \cup Images \cup TrialRuns

\* What is observed at any time, apart from the scanners.
Runtime == {"task", "agent", "model", "trials", "network", "domains", "proxy", "agentSecs",
            "evalSecs", "broker", "scans", "scanner", "scannerReady", "judge",
            "judgeBackend", "judgeModel", "tree", "spec", "image"}
Seen(r) ==
  /\ r = [f \in Runtime |-> r[f]]
  /\ \A f \in Runtime \ {"scanner", "scannerReady"} : r[f] = Observed(r.tree, r.image)[f]

-----------------------------------------------------------------------------
(* The inductive invariant *)

\* The first decision is of what was seen of the run.
Preflighted ==
  \A p \in preflight :
    /\ p = EvaluateAdmission(request, bundle, p.input, "preflight", {})
    /\ Seen(p.input) /\ p.input.image = NoImage

\* The second one follows it, and adds an approved image of this platform.
Executed ==
  \A d \in execution :
    /\ d = EvaluateAdmission(request, bundle, d.input, "execution", preflight)
    /\ d.allowed /\ Seen(d.input) /\ d.input.image.platform = options.platform
    /\ \A p \in preflight : Continues(p, d)

\* When the decisions have been taken, and what is held of them.
Decided ==
  /\ pc = "load" => preflight = {}
  /\ pc \in {"load", "preflight", "prepare", "copy", "decide"} => execution = {}
  /\ pc \in AfterFirst => \E p \in preflight : preflight = {p}
  /\ pc \in AfterBoth => \E d \in execution : execution = {d}
  /\ pc \in Copied => \A p \in preflight : snapshot = p.input.tree
  /\ pc \in TrialRuns \/ (pc \in Images /\ trial > 0) =>
       \A d \in execution : IsEvidence(request, d)
  /\ pc = "agent" => \A d \in execution : pod = d.input.image.digest

\* Every trial is counted, and has its usage and its scanners on record.
Counted ==
  /\ live \in [tree : Versions, scanner : {"allowed", "partial", "newer"}]
  /\ used \in Seq({"allowed", "partial", "newer", None}) /\ accepted \subseteq 1 .. Len(used)
  /\ pc \in {"load", "preflight", "prepare", "copy", "decide"} => trial = 0
  /\ pc \in InTrial => trial > 0
  /\ pc \in {"load", "preflight", "prepare", "copy", "decide", "next", "ended"} =>
       Len(usage) = trial /\ Len(used) = trial
  /\ pc \in InTrial \ {"finish", "scan", "rehash"} \/ (pc \in Images /\ trial > 0) =>
       Len(usage) = trial - 1 /\ Len(used) = trial - 1
  /\ pc \in Images /\ trial = 0 => usage = <<>> /\ used = <<>>
  /\ pc \in {"finish", "scan"} => Len(usage) = trial /\ Len(used) = trial - 1
  /\ pc = "rehash" => Len(usage) = trial /\ Len(used) = trial

\* The trials before this one have kept to the limits.
Moderate ==
  \A t \in 1 .. trial - 1 :
    t \in DOMAIN usage /\ \A d \in execution : MayGoOn(usage[t], d.limits)

\* Accepted trials were looked at by the scanners of the decision, unless those were
\* restored before the second hash.  One replacement cannot bring back what was
\* hashed before the scan.
Scanned ==
  /\ \A t \in accepted :
       /\ execution # {}
       /\ options.scans /\ t \notin restored => \A d \in execution : used[t] = d.input.scanner
  /\ pc \in {"scan", "rehash"} =>
       /\ swaps = 0 => live.scanner = hashed
       /\ swaps = 1 => live.scanner # hashed
       /\ pc = "rehash" /\ swaps = 0 => used[trial] = hashed
  /\ pc \notin {"scan", "rehash"} => swaps = 0

IInv == TypeOK /\ Preflighted /\ Executed /\ Decided /\ Counted /\ Moderate /\ Scanned

-----------------------------------------------------------------------------
(* Facts about the operators of the model *)

\* Numbers have a smallest one.
LEMMA MinOfNumbers ==
  ASSUME NEW S \in SUBSET Nat, S # {}
  PROVE  Min(S) \in S /\ \A x \in S : Min(S) <= x
<1> DEFINE Less == {s \in Nat \X Nat : s[1] < s[2]}
<1>1. OpToRel(<, Nat) = Less
  BY DEF OpToRel
<1>2. IsWellFoundedOn(Less, Nat)
  BY <1>1, NatLessThanWellFounded
<1>3. \E x \in S : \A y \in S : <<y, x>> \notin Less
  <2> HIDE DEF Less
  <2> QED BY <1>2, WFMin
<1>4. \A x, y \in Nat : <<y, x>> \notin Less => x <= y
  OBVIOUS
<1>5. \E x \in S : \A y \in S : x <= y
  BY <1>3, <1>4
<1> QED BY <1>5 DEF Min

\* What is not denied is not denied for any reason.
LEMMA NoDenials ==
  ASSUME NEW q, NEW b, NEW r, NEW stage, Denials(q, b, r, stage) = {}
  PROVE  /\ ImageDenials(r, stage) = {} /\ TaskDenials(b, r, stage) = {}
         /\ RequestDenials(q, r) = {} /\ RuleDenials(q, b, r) = {}
         /\ NetworkDenials(b, r) = {} /\ ScannerDenials(b, r) = {}
         /\ JudgeDenials(q, b, r) = {} /\ LimitDenials(b, r) = {}
         /\ ModelDenials(q, b, r) = {}
BY DEF Denials

\* What an admission has been checked for, as far as the properties ask.
LEMMA AdmittedRuntime ==
  ASSUME NEW q, NEW b, NEW r, NEW stage, Denials(q, b, r, stage) = {}
  PROVE  /\ r.task = q.task /\ r.agent = q.agent /\ r.model = q.model
         /\ b.rules.requireBroker => r.broker
         /\ b.rules.requireJudge => r.judge
         /\ r.network \in b.rules.networks
         /\ b.rules.requireScans => r.scans
         /\ r.scans => r.scanner \in b.rules.scanners
         /\ ~(r.trials > b.rules.trials)
         /\ \E e \in b.tasks : /\ e.task = r.task /\ e.status = "approved" /\ e.tree = r.tree
                               /\ r.spec \in e.specs
                               /\ stage = "execution" => r.image \in e.images
         /\ \E e \in b.models : /\ e.agent = r.agent /\ e.model = r.model
                                /\ e.status = "approved" /\ q.class \in e.classes
         /\ stage = "execution" => r.image.digest # None
<1>1. r.task = q.task /\ r.agent = q.agent /\ r.model = q.model
  BY NoDenials DEF RequestDenials, Deny
<1>2. b.rules.requireBroker => r.broker
  BY NoDenials DEF RuleDenials, Deny
<1>3. b.rules.requireJudge => r.judge
  BY NoDenials DEF JudgeDenials, Deny
<1>4. r.network \in b.rules.networks
  BY NoDenials DEF NetworkDenials, Deny
<1>5. (b.rules.requireScans => r.scans) /\ (r.scans => r.scanner \in b.rules.scanners)
  BY NoDenials DEF ScannerDenials, Deny
<1>6. ~(r.trials > b.rules.trials)
  BY NoDenials DEF LimitDenials, Deny
<1>7. \E e \in b.tasks : /\ e.task = r.task /\ e.status = "approved" /\ e.tree = r.tree
                         /\ r.spec \in e.specs
                         /\ stage = "execution" => r.image \in e.images
  <2>1. MatchedTask(b, r) # {}
    BY NoDenials DEF TaskDenials, Deny
  <2>2. \A e \in MatchedTask(b, r) :
           /\ e.status = "approved" /\ e.tree = r.tree /\ r.spec \in e.specs
           /\ stage = "execution" => r.image \in e.images
    BY NoDenials DEF TaskDenials, Deny
  <2> QED BY <2>1, <2>2 DEF MatchedTask
<1>8. \E e \in b.models : /\ e.agent = r.agent /\ e.model = r.model
                          /\ e.status = "approved" /\ q.class \in e.classes
  <2>1. MatchedModel(b, r) # {}
    BY NoDenials DEF ModelDenials, Deny
  <2>2. \A e \in MatchedModel(b, r) : e.status = "approved" /\ q.class \in e.classes
    BY NoDenials DEF ModelDenials, Deny
  <2> QED BY <2>1, <2>2 DEF MatchedModel
<1>9. stage = "execution" => r.image.digest # None
  BY NoDenials DEF ImageDenials, Deny
<1> QED BY <1>1, <1>2, <1>3, <1>4, <1>5, <1>6, <1>7, <1>8, <1>9

\* The limits of a decision are the lowest of the thresholds.
LEMMA LowestThreshold ==
  ASSUME NEW q, NEW b, NEW r, NEW unit, b.rules[unit] \in Nat, q[unit] \in Nat,
         \A e \in b.models : e[unit] \in Nat
  PROVE  /\ Lowest(q, b, r, unit) \in Nat /\ Lowest(q, b, r, unit) <= b.rules[unit]
         /\ q[unit] # 0 => Lowest(q, b, r, unit) <= q[unit]
         /\ \A e \in MatchedModel(b, r) : Lowest(q, b, r, unit) <= e[unit]
<1> DEFINE S == {b.rules[unit]} \cup ({q[unit]} \ {0}) \cup {e[unit] : e \in MatchedModel(b, r)}
<1>1. S \in SUBSET Nat /\ S # {}
  BY DEF MatchedModel
<1>2. Min(S) \in S /\ \A x \in S : Min(S) <= x
  BY <1>1, MinOfNumbers
<1> QED BY <1>1, <1>2 DEF Lowest

\* What a decision says of its making.
LEMMA Evaluated ==
  ASSUME NEW q, NEW b, NEW r, NEW stage, NEW link,
         NEW d, d = EvaluateAdmission(q, b, r, stage, link)
  PROVE  /\ d.stage = stage /\ d.link = link /\ d.request = q /\ d.bundle = b
         /\ d.allowed \in BOOLEAN /\ d.limits.trials = b.rules.trials
         /\ d.limits.tokens = Lowest(q, b, r, "tokens")
         /\ d.limits.cost = Lowest(q, b, r, "cost")
BY DEF EvaluateAdmission, EffectiveLimits

\* What is allowed was not denied.
LEMMA Allowed ==
  ASSUME NEW q, NEW b, NEW r, NEW stage, NEW link,
         NEW d, d = EvaluateAdmission(q, b, r, stage, link), d.allowed
  PROVE  d.reasons = {"admitted"} /\ Denials(q, b, r, stage) = {}
BY DEF EvaluateAdmission

\* What is observed apart from the scanners depends on settings and options alone.
LEMMA ObservedKept ==
  ASSUME NEW tree, NEW image, UNCHANGED <<options, config>>
  PROVE  \A f \in Runtime \ {"scanner", "scannerReady"} :
           Observed(tree, image)'[f] = Observed(tree, image)[f]
BY DEF Observed, Runtime, Judged, ExecutionSpec

\* So what has been seen stays seen.
LEMMA SeenKept ==
  ASSUME NEW r, UNCHANGED <<options, config>>, Seen(r)
  PROVE  Seen(r)'
BY ObservedKept DEF Seen

\* What is observed now is seen.
LEMMA ObservedSeen ==
  ASSUME NEW tree, NEW image
  PROVE  LET r == Observed(tree, image)
         IN /\ Seen(r) /\ r.tree = tree /\ r.image = image /\ r.trials = options.trials
            /\ DOMAIN r = Runtime
<1>1. /\ DOMAIN Observed(tree, image) = Runtime
      /\ Observed(tree, image).tree = tree /\ Observed(tree, image).image = image
      /\ Observed(tree, image).trials = options.trials
  BY DEF Observed, Runtime
<1>2. Observed(tree, image) = [f \in Runtime |-> Observed(tree, image)[f]]
  BY <1>1 DEF Observed
<1> QED BY <1>1, <1>2 DEF Seen

\* What was seen has its proxy only where it is used.
LEMMA SeenProxy ==
  ASSUME NEW r, Seen(r)
  PROVE  [r EXCEPT !.proxy = IF r.network = "proxy" THEN r.proxy ELSE None] = r
<1>1. r.network # "proxy" => r.proxy = None
  BY DEF Seen, Observed, Runtime
<1>2. r.proxy = IF r.network = "proxy" THEN r.proxy ELSE None
  BY <1>1
<1> QED BY <1>2 DEF Seen, Runtime

\* What the documents hold, whatever they say.
LEMMA Documents ==
  ASSUME TypeOK
  PROVE  /\ options.trials \in Nat /\ bundle.rules.trials \in Nat
         /\ \A limits \in {bundle.rules, request} \cup bundle.models :
              limits.tokens \in Nat /\ limits.cost \in Nat
         /\ \A e \in bundle.tasks : \A spec \in e.specs : spec.config = spec.tree
<1> DEFINE c == [request |-> request, bundle |-> bundle, options |-> options]
<1>1. c \in Cases
  BY DEF TypeOK
<1>2. c.request = request /\ c.bundle = bundle /\ c.options = options
  OBVIOUS
<1> HIDE DEF c
<1> QED BY <1>1, <1>2, CasesAssumption

\* Decisions that are kept stay decisions of what was seen.
LEMMA DecisionsKept ==
  ASSUME Preflighted, Executed, UNCHANGED <<files, config, preflight, execution>>
  PROVE  Preflighted' /\ Executed'
<1>1. Preflighted'
  <2> SUFFICES ASSUME NEW p \in preflight
               PROVE  /\ p = EvaluateAdmission(request, bundle, p.input, "preflight", {})
                      /\ Seen(p.input)' /\ p.input.image = NoImage
    BY DEF Preflighted, files
  <2>1. Seen(p.input)'
    BY SeenKept DEF Preflighted, files
  <2> QED BY <2>1 DEF Preflighted
<1>2. Executed'
  <2> SUFFICES ASSUME NEW d \in execution
               PROVE  /\ d = EvaluateAdmission(request, bundle, d.input, "execution", preflight)
                      /\ d.allowed /\ Seen(d.input)'
                      /\ d.input.image.platform = options.platform
                      /\ \A p \in preflight : Continues(p, d)
    BY DEF Executed, files
  <2>1. Seen(d.input)'
    BY SeenKept DEF Executed, files
  <2> QED BY <2>1 DEF Executed
<1> QED BY <1>1, <1>2

\* A decision on what is observed is one of what was seen.
LEMMA DecisionSeen ==
  ASSUME NEW tree, NEW image, NEW stage, NEW link,
         NEW d, d = EvaluateAdmission(request, bundle, Observed(tree, image), stage, link)
  PROVE  /\ d.input = Observed(tree, image) /\ Seen(d.input)
         /\ d.input.image = image /\ d.input.tree = tree
<1> DEFINE r == Observed(tree, image)
<1>1. Seen(r) /\ r.image = image /\ r.tree = tree
  BY ObservedSeen
<1>2. d = EvaluateAdmission(request, bundle, r, stage, link)
  OBVIOUS
<1> HIDE DEF r
<1>3. d.input = [r EXCEPT !.proxy = IF r.network = "proxy" THEN r.proxy ELSE None]
  BY <1>2 DEF EvaluateAdmission
<1>4. d.input = r
  BY <1>1, <1>3, SeenProxy
<1> QED BY <1>1, <1>4 DEF r

\* The image of the decision has a digest.
LEMMA AdmittedImage ==
  ASSUME Executed, NEW d, execution = {d}
  PROVE  Admitted = d.input.image /\ Admitted.digest # None
<1>1. Admitted = d.input.image
  BY DEF Admitted
<1>2. d = EvaluateAdmission(request, bundle, d.input, "execution", preflight) /\ d.allowed
  BY DEF Executed
<1>3. Denials(request, bundle, d.input, "execution") = {}
  BY <1>2, Allowed
<1>4. d.input.image.digest # None
  BY <1>3, AdmittedRuntime
<1> QED BY <1>1, <1>4

\* A sequence grows at its end.
LEMMA AppendGrows ==
  ASSUME NEW S, NEW s \in Seq(S), NEW e \in S
  PROVE  /\ Append(s, e) \in Seq(S) /\ Len(Append(s, e)) = Len(s) + 1
         /\ DOMAIN s = 1 .. Len(s) /\ DOMAIN Append(s, e) = 1 .. Len(s) + 1
         /\ \A t \in 1 .. Len(s) : Append(s, e)[t] = s[t]
         /\ Append(s, e)[Len(s) + 1] = e
OBVIOUS

\* A trial whose usage and whose scanners are on record has ended, the evaluation
\* of it or an error.
LEMMA RecordInvariant ==
  ASSUME IInv, trial > 0, pc \in Images \cup {"pod", "digest"}, pc' = "next",
         usage' = Append(usage, Unknown), used' = Append(used, None), images' = images,
         UNCHANGED <<files, live, changes, trial, config, preflight, execution, snapshot, pod,
                     scanVars>>
  PROVE  IInv'
<1> USE DEF IInv, files, scanVars
<1>1. trial \in Nat /\ usage \in Seq(Usages \cup {Unknown}) /\ Len(usage) = trial - 1
      /\ Len(used) = trial - 1 /\ used \in Seq({"allowed", "partial", "newer", None})
  BY Documents DEF TypeOK, Counted, Images, InTrial, TrialRuns
<1>2. /\ usage' \in Seq(Usages \cup {Unknown}) /\ Len(usage') = trial
      /\ DOMAIN usage = 1 .. Len(usage) /\ DOMAIN usage' = 1 .. trial
      /\ \A t \in 1 .. trial - 1 : usage'[t] = usage[t]
  <2>1. Unknown \in Usages \cup {Unknown}
    OBVIOUS
  <2> QED BY <1>1, <2>1, AppendGrows
<1>3. /\ used' \in Seq({"allowed", "partial", "newer", None}) /\ Len(used') = trial
      /\ \A t \in 1 .. trial - 1 : used'[t] = used[t]
  <2>1. None \in {"allowed", "partial", "newer", None}
    OBVIOUS
  <2> QED BY <1>1, <2>1, AppendGrows
<1>4. TypeOK'
  BY <1>1, <1>2 DEF TypeOK, Labels, Over
<1>5. Preflighted' /\ Executed'
  BY DecisionsKept
<1>6. Decided'
  BY DEF Decided, AfterFirst, AfterBoth, Copied, Images, TrialRuns, InTrial
<1>7. Counted'
  BY <1>1, <1>2, <1>3 DEF Counted, Images, TrialRuns, InTrial
<1>8. Moderate'
  BY <1>1, <1>2 DEF Moderate
<1>9. Scanned'
  BY <1>1, <1>3 DEF Scanned, Counted
<1> QED BY <1>4, <1>5, <1>6, <1>7, <1>8, <1>9

\* A run that is refused keeps what it has, other than the trial's copy and image.
LEMMA RefusedInvariant ==
  ASSUME IInv, pc' = "refused", pc \notin {"scan", "rehash"},
         UNCHANGED <<files, live, images, changes, trial, config, preflight, execution, snapshot,
                     pod, usage, used, scanVars>>
  PROVE  IInv'
<1> USE DEF IInv, files, scanVars
<1>1. TypeOK'
  BY DEF TypeOK, Labels, Over
<1>2. Preflighted' /\ Executed'
  BY DecisionsKept
<1>3. Decided'
  BY DEF Decided, AfterFirst, AfterBoth, Copied, Images, TrialRuns, InTrial
<1>4. Counted'
  BY DEF Counted, Images, TrialRuns, InTrial
<1>5. Moderate' /\ Scanned'
  BY DEF Moderate, Scanned
<1> QED BY <1>1, <1>2, <1>3, <1>4, <1>5

\* An image that cannot be had ends the run or the trial.
LEMMA ImageErrorInvariant ==
  ASSUME IInv, ImageError, pc \in Images \cup {"pod", "digest"}, images' = images,
         UNCHANGED <<files, live, changes, trial, config, preflight, execution, snapshot, pod,
                     scanVars>>
  PROVE  IInv'
<1>1. CASE trial = 0
  BY <1>1, RefusedInvariant DEF ImageError, Refuse, Images
<1>2. CASE trial # 0
  <2>1. trial > 0
    BY <1>2, Documents DEF IInv, TypeOK
  <2> QED BY <1>2, <2>1, RecordInvariant DEF ImageError, Goto
<1> QED BY <1>1, <1>2

-----------------------------------------------------------------------------
(* Every step keeps the invariant *)

\* It holds before anything is loaded.
LEMMA InitInvariant == Init => IInv
<1> SUFFICES ASSUME Init PROVE IInv
  OBVIOUS
<1> USE DEF Init
<1>1. TypeOK
  <2>1. PICK c \in Cases : request = c.request /\ bundle = c.bundle /\ options = c.options
    OBVIOUS
  <2>2. [request |-> request, bundle |-> bundle, options |-> options] \in Cases
    BY <2>1, CasesAssumption
  <2>3. options.trials \in Nat
    BY <2>1, CasesAssumption
  <2>4. Cardinality({}) = 0
    BY FS_EmptySet
  <2>5. live.tree \in Versions
    OBVIOUS
  <2> QED BY <2>2, <2>3, <2>4, <2>5, ChangesAssumption DEF TypeOK, Labels, Over
<1>2. Preflighted /\ Executed
  BY DEF Preflighted, Executed
<1>3. Decided
  BY DEF Decided, AfterFirst, AfterBoth, Copied, Images, TrialRuns, InTrial
<1>4. Counted
  BY DEF Counted, Images, TrialRuns, InTrial
<1>5. Moderate /\ Scanned
  BY DEF Moderate, Scanned
<1> QED BY <1>1, <1>2, <1>3, <1>4, <1>5 DEF IInv

\* The invariant survives the loading of task and options.
LEMMA LoadInvariant == IInv /\ Load => IInv'
<1> SUFFICES ASSUME IInv, Load PROVE IInv'
  OBVIOUS
<1> USE DEF IInv, Load, files, world, scanVars, Goto, Refuse
<1>1. TypeOK'
  BY DEF TypeOK, Labels, Over
<1>2. Preflighted'
  BY DEF Decided, Preflighted, Executed
<1>3. Executed'
  BY DEF Decided, Preflighted, Executed
<1>4. Decided'
  BY DEF Decided, AfterFirst, AfterBoth, Copied, Images, TrialRuns, InTrial
<1>5. Counted'
  BY DEF Counted, TypeOK, Images, TrialRuns, InTrial
<1>6. Moderate'
  BY DEF Moderate, Counted, TypeOK
<1>7. Scanned'
  BY DEF Scanned, Counted, TypeOK
<1> QED BY <1>1, <1>2, <1>3, <1>4, <1>5, <1>6, <1>7

\* The invariant survives the first decision.
LEMMA PreflightInvariant == IInv /\ Preflight => IInv'
<1> SUFFICES ASSUME IInv, Preflight PROVE IInv'
  OBVIOUS
<1> USE DEF IInv, Preflight, files, world, scanVars, Goto, Refuse
<1>1. TypeOK'
  <2>1. \/ UNCHANGED preflight
        \/ \E d : preflight' = {d} /\ d.allowed \in BOOLEAN
    BY Evaluated
  <2>2. Cardinality(preflight') <= 1
    <3>1. CASE UNCHANGED preflight
      BY <3>1 DEF TypeOK
    <3>2. ASSUME NEW d, preflight' = {d} PROVE Cardinality(preflight') = 1
      BY <3>2, FS_Singleton
    <3> QED BY <2>1, <3>1, <3>2
  <2>3. \A d \in preflight' : d.allowed \in BOOLEAN
    BY <2>1 DEF TypeOK
  <2>4. pc' \in Labels
    BY DEF Labels, Over
  <2> QED BY <2>2, <2>3, <2>4 DEF TypeOK
<1>2. Preflighted'
  <2>1. CASE UNCHANGED preflight
    BY <2>1, DecisionsKept DEF Decided
  <2>2. ASSUME NEW tree,
               preflight' = {EvaluateAdmission(request, bundle, Observed(tree, NoImage),
                                               "preflight", {})}
        PROVE  Preflighted'
    <3> SUFFICES ASSUME NEW p \in preflight'
                 PROVE  /\ p = EvaluateAdmission(request, bundle, p.input, "preflight", {})
                        /\ Seen(p.input)' /\ p.input.image = NoImage
      BY DEF Preflighted
    <3>1. p = EvaluateAdmission(request, bundle, Observed(tree, NoImage), "preflight", {})
      BY <2>2
    <3>2. p.input = Observed(tree, NoImage) /\ Seen(p.input) /\ p.input.image = NoImage
      BY <3>1, DecisionSeen
    <3>3. Seen(p.input)'
      BY <3>2, SeenKept
    <3> QED BY <3>1, <3>2, <3>3
  <2> QED BY <2>1, <2>2
<1>3. Executed'
  BY DEF Decided, Executed
<1>4. Decided'
  BY DEF Decided, AfterFirst, AfterBoth, Copied, Images, TrialRuns, InTrial
<1>5. Counted'
  BY DEF Counted, TypeOK, Images, TrialRuns, InTrial
<1>6. Moderate'
  BY DEF Moderate, Counted, TypeOK
<1>7. Scanned'
  BY DEF Scanned, Counted, TypeOK
<1> QED BY <1>1, <1>2, <1>3, <1>4, <1>5, <1>6, <1>7

\* The invariant survives a replay of it.
LEMMA ValidateInvariant == IInv /\ Validate => IInv'
<1> SUFFICES ASSUME IInv, Validate PROVE IInv'
  OBVIOUS
<1> USE DEF IInv, Validate, files, world, scanVars, Goto, Refuse
<1>1. TypeOK'
  BY DEF TypeOK, Labels, Over
<1>2. Preflighted'
  BY DecisionsKept
<1>3. Executed'
  BY DecisionsKept
<1>4. Decided'
  BY DEF Decided, AfterFirst, AfterBoth, Copied, Images, TrialRuns, InTrial
<1>5. Counted'
  BY DEF Counted, TypeOK, Images, TrialRuns, InTrial
<1>6. Moderate'
  BY DEF Moderate, Counted, TypeOK
<1>7. Scanned'
  BY DEF Scanned, Counted, TypeOK
<1> QED BY <1>1, <1>2, <1>3, <1>4, <1>5, <1>6, <1>7

\* The invariant survives the copying of the task.
LEMMA SnapshotInvariant == IInv /\ Snapshot => IInv'
<1> SUFFICES ASSUME IInv, Snapshot PROVE IInv'
  OBVIOUS
<1> USE DEF IInv, Snapshot, files, world, scanVars, Goto, Refuse
<1>1. TypeOK'
  BY DEF TypeOK, Labels, Over
<1>2. Preflighted'
  BY DecisionsKept
<1>3. Executed'
  BY DecisionsKept
<1>4. Decided'
  <2>1. CASE pc' = "refused"
    BY <2>1, RefusedInvariant DEF Decided
  <2>2. CASE snapshot' = live.tree /\ IsAdmitted(live.tree)
             /\ pc' = IF pc = "copy" THEN "decide" ELSE "evidence"
    <3>1. \A p \in preflight : snapshot' = p.input.tree
      BY <2>2 DEF IsAdmitted
    <3> QED BY <2>2, <3>1 DEF Decided, AfterFirst, AfterBoth, Copied, Images, TrialRuns, InTrial
  <2> QED BY <2>1, <2>2
<1>5. Counted'
  BY DEF Counted, TypeOK, Images, TrialRuns, InTrial
<1>6. Moderate'
  BY DEF Moderate, Counted, TypeOK
<1>7. Scanned'
  BY DEF Scanned, Counted, TypeOK
<1> QED BY <1>1, <1>2, <1>3, <1>4, <1>5, <1>6, <1>7

\* The second decision is of what was seen, on the copy of the task.
LEMMA DecisionTaken ==
  ASSUME IInv, NEW p \in preflight, pc = "decide", NEW e, NEW d,
         e.platform = options.platform, d.allowed, Continues(p, d),
         d = EvaluateAdmission(request, bundle,
               [Observed(snapshot, e) EXCEPT !.trials = p.input.trials], "execution", {p})
  PROVE  /\ preflight = {p} /\ d = EvaluateAdmission(request, bundle, d.input, "execution", {p})
         /\ Seen(d.input) /\ d.input.image = e /\ d.input.tree = snapshot
<1>1. preflight = {p}
  BY DEF IInv, Decided, AfterFirst
<1>2. p.input.trials = options.trials
  <2>1. p.input.trials = Observed(p.input.tree, p.input.image).trials
    BY DEF IInv, Preflighted, Seen, Runtime
  <2> QED BY <2>1, ObservedSeen
<1>3. [Observed(snapshot, e) EXCEPT !.trials = p.input.trials] = Observed(snapshot, e)
  <2> DEFINE r == Observed(snapshot, e)
  <2>1. r.trials = p.input.trials /\ r = [f \in Runtime |-> r[f]]
    BY <1>2, ObservedSeen DEF Seen
  <2> HIDE DEF r
  <2>2. [r EXCEPT !.trials = p.input.trials] = r
    BY <2>1
  <2> QED BY <2>2 DEF r
<1>4. d = EvaluateAdmission(request, bundle, Observed(snapshot, e), "execution", {p})
  BY <1>3
<1>5. d.input = Observed(snapshot, e) /\ Seen(d.input) /\ d.input.image = e
      /\ d.input.tree = snapshot
  BY <1>4, DecisionSeen
<1> QED BY <1>1, <1>4, <1>5

\* The invariant survives the second decision.
LEMMA DecideInvariant == IInv /\ Decide => IInv'
<1> SUFFICES ASSUME IInv, Decide PROVE IInv'
  OBVIOUS
<1> USE DEF IInv, files, world, scanVars, Goto
<1>1. CASE Refuse /\ UNCHANGED execution
  BY <1>1, RefusedInvariant DEF Decide, Refuse
<1>2. CASE ~(Refuse /\ UNCHANGED execution)
  <2> DEFINE Taken(p, e, d) ==
          /\ d = EvaluateAdmission(request, bundle,
                   [Observed(snapshot, e) EXCEPT !.trials = p.input.trials], "execution", {p})
          /\ e.platform = options.platform /\ d.allowed /\ Continues(p, d)
          /\ execution' = {d} /\ pc' = "host"
  <2>0. PICK p \in preflight : \E e, d : Taken(p, e, d)
    BY <1>2 DEF Decide
  <2>1. PICK e, d : Taken(p, e, d)
    BY <2>0
  <2>2. /\ execution' = {d} /\ pc' = "host" /\ pc = "decide" /\ d.allowed /\ Continues(p, d)
        /\ UNCHANGED <<files, world, trial, config, preflight, snapshot, pod, usage, used,
                        scanVars>>
    BY <2>1 DEF Decide
  <2>3. /\ preflight = {p} /\ d = EvaluateAdmission(request, bundle, d.input, "execution", {p})
        /\ Seen(d.input) /\ d.input.image = e /\ d.input.tree = snapshot
    BY <2>1, <2>2, DecisionTaken
  <2>4. d.allowed \in BOOLEAN
    BY <2>1, Evaluated
  <2>5. TypeOK'
    <3>1. Cardinality(execution') = 1
      BY <2>2, FS_Singleton
    <3>2. \A x \in preflight' \cup execution' : x.allowed \in BOOLEAN
      BY <2>2, <2>4 DEF TypeOK
    <3>3. pc' \in Labels
      BY <2>2 DEF Labels
    <3> QED BY <2>2, <3>1, <3>2, <3>3 DEF TypeOK
  <2>6. Preflighted'
    <3>1. Seen(p.input)'
      BY <2>2, SeenKept DEF Preflighted
    <3> QED BY <2>2, <2>3, <3>1 DEF Preflighted
  <2>7. Executed'
    <3>1. Seen(d.input)'
      BY <2>2, <2>3, SeenKept
    <3> QED BY <2>1, <2>2, <2>3, <3>1 DEF Executed
  <2>8. Decided'
    BY <2>2, <2>3 DEF Decided, Counted, AfterFirst, AfterBoth, Copied, Images, TrialRuns, InTrial
  <2>9. Counted'
    <3>1. usage = <<>> /\ used = <<>> /\ trial = 0
      BY <2>2 DEF Counted, TypeOK
    <3> QED BY <2>2, <3>1 DEF Counted, Images, TrialRuns, InTrial
  <2>10. Moderate' /\ Scanned'
    <3>1. trial = 0 /\ accepted = {}
      BY <2>2 DEF Counted
    <3> QED BY <2>2, <3>1 DEF Moderate, Scanned
  <2> QED BY <2>5, <2>6, <2>7, <2>8, <2>9, <2>10
<1> QED BY <1>1, <1>2

\* An image that is there lets the trial go on, or the first one begin.
LEMMA ImageFoundInvariant ==
  ASSUME IInv, ImageFound, pc \in Images, images' = images,
         UNCHANGED <<files, live, changes, trial, config, preflight, execution, snapshot, pod,
                     scanVars>>
  PROVE  IInv'
<1> USE DEF IInv, files, scanVars, ImageFound, Goto
<1>1. TypeOK' /\ trial \in Nat
  BY Documents DEF TypeOK, Labels, Over
<1>2. Preflighted' /\ Executed'
  BY DecisionsKept
<1>3. Decided'
  BY <1>1 DEF Decided, AfterFirst, AfterBoth, Copied, Images, TrialRuns, InTrial
<1>4. Counted'
  <2>1. CASE trial = 0
    BY <2>1 DEF Counted, TypeOK, Images, TrialRuns, InTrial
  <2>2. CASE trial # 0
    BY <1>1, <2>2 DEF Counted, Images, TrialRuns, InTrial
  <2> QED BY <2>1, <2>2
<1>5. Moderate' /\ Scanned'
  BY DEF Moderate, Scanned, Images
<1> QED BY <1>1, <1>2, <1>3, <1>4, <1>5

\* The image of the node may be replaced, and the search for it go on.
LEMMA SearchInvariant ==
  ASSUME IInv, pc \in Images, pc' \in Images,
         images' \in {images, [images EXCEPT !.node = images.host]},
         UNCHANGED <<files, live, changes, trial, config, preflight, execution, snapshot, pod,
                     usage, used, scanVars>>
  PROVE  IInv'
<1> USE DEF IInv, files, scanVars
<1>1. images' \in [{"host", "node"} -> Digests \cup {None}] /\ pc' \in Labels
  BY DEF TypeOK, Images, Labels
<1>2. TypeOK'
  BY <1>1 DEF TypeOK
<1>3. Preflighted' /\ Executed'
  BY DecisionsKept
<1>4. Decided'
  BY DEF Decided, AfterFirst, AfterBoth, Copied, Images, TrialRuns, InTrial
<1>5. Counted'
  BY DEF Counted, Images, TrialRuns, InTrial
<1>6. Moderate' /\ Scanned'
  BY DEF Moderate, Scanned, Images
<1> QED BY <1>2, <1>3, <1>4, <1>5, <1>6

\* The invariant survives making the image available.
LEMMA EnsureImageInvariant == IInv /\ EnsureImage => IInv'
<1> SUFFICES ASSUME IInv, EnsureImage PROVE IInv'
  OBVIOUS
<1>1. pc \in Images
  BY DEF EnsureImage, Images
<1>2. UNCHANGED <<files, live, changes, trial, config, preflight, execution, snapshot, pod,
                  scanVars>>
  BY DEF EnsureImage
<1>3. CASE pc = "host" /\ UNCHANGED images /\ ImageFound
  BY <1>1, <1>2, <1>3, ImageFoundInvariant
<1>4. CASE pc = "host" /\ UNCHANGED images /\ Goto("import") /\ UNCHANGED <<usage, used>>
  BY <1>1, <1>2, <1>4, SearchInvariant DEF Goto, Images
<1>5. CASE /\ pc = "import" /\ images' = [images EXCEPT !.node = images.host]
           /\ Goto("node") /\ UNCHANGED <<usage, used>>
  BY <1>1, <1>2, <1>5, SearchInvariant DEF Goto, Images
<1>6. CASE pc = "node" /\ ImageFound /\ UNCHANGED images
  BY <1>1, <1>2, <1>6, ImageFoundInvariant
<1>7. CASE ImageError /\ UNCHANGED images
  BY <1>1, <1>2, <1>7, ImageErrorInvariant
<1> QED BY <1>3, <1>4, <1>5, <1>6, <1>7 DEF EnsureImage

\* The invariant survives the beginning of a trial, or the end.
LEMMA NextTrialInvariant == IInv /\ NextTrial => IInv'
<1> SUFFICES ASSUME IInv, NextTrial PROVE IInv'
  OBVIOUS
<1> USE DEF IInv, NextTrial, files, world, scanVars, Goto, Refuse
<1>1. TypeOK'
  <2>1. trial' \in 0 .. options.trials /\ trial \in Nat
    BY Documents DEF TypeOK
  <2>2. Len(usage) <= trial' /\ accepted \subseteq 1 .. trial'
    BY <2>1 DEF TypeOK
  <2>3. pc' \in Labels
    BY DEF Labels, Over
  <2> QED BY <2>1, <2>2, <2>3 DEF TypeOK
<1>2. Preflighted'
  BY DecisionsKept
<1>3. Executed'
  BY DecisionsKept
<1>4. Decided'
  BY DEF Decided, AfterFirst, AfterBoth, Copied, Images, TrialRuns, InTrial
<1>5. Counted'
  BY DEF Counted, TypeOK, Images, TrialRuns, InTrial
<1>6. Moderate'
  BY DEF Moderate, Counted, TypeOK
<1>7. Scanned'
  BY DEF Scanned, Counted, TypeOK
<1> QED BY <1>1, <1>2, <1>3, <1>4, <1>5, <1>6, <1>7

\* The invariant survives a replay of the second decision.
LEMMA EvidenceInvariant == IInv /\ Evidence => IInv'
<1> SUFFICES ASSUME IInv, Evidence PROVE IInv'
  OBVIOUS
<1> USE DEF IInv, Evidence, files, world, scanVars, Goto, Refuse
<1>1. TypeOK'
  BY DEF TypeOK, Labels, Over
<1>2. Preflighted'
  BY DecisionsKept
<1>3. Executed'
  BY DecisionsKept
<1>4. Decided'
  BY DEF Decided, AfterFirst, AfterBoth, Copied, Images, TrialRuns, InTrial
<1>5. Counted'
  BY DEF Counted, TypeOK, Images, TrialRuns, InTrial
<1>6. Moderate'
  BY DEF Moderate, Counted, TypeOK
<1>7. Scanned'
  BY DEF Scanned, Counted, TypeOK
<1> QED BY <1>1, <1>2, <1>3, <1>4, <1>5, <1>6, <1>7

\* The invariant survives the start of the pod.
LEMMA StartPodInvariant == IInv /\ StartPod => IInv'
<1> SUFFICES ASSUME IInv, StartPod PROVE IInv'
  OBVIOUS
<1> USE DEF IInv, files, world, scanVars
<1>1. CASE ImageError /\ UNCHANGED pod
  BY <1>1, ImageErrorInvariant DEF StartPod
<1>2. CASE images.node # None /\ pod' = images.node /\ Goto("digest") /\ UNCHANGED <<usage, used>>
  <2> USE <1>2 DEF StartPod, Goto
  <2>1. TypeOK'
    BY DEF TypeOK, Labels, Over
  <2>2. Preflighted' /\ Executed'
    BY DecisionsKept
  <2>3. Decided'
    BY DEF Decided, AfterFirst, AfterBoth, Copied, Images, TrialRuns, InTrial
  <2>4. Counted'
    BY DEF Counted, Images, TrialRuns, InTrial
  <2>5. Moderate' /\ Scanned'
    BY DEF Moderate, Scanned
  <2> QED BY <2>1, <2>2, <2>3, <2>4, <2>5
<1> QED BY <1>1, <1>2 DEF StartPod

\* The invariant survives comparing the digest of the pod.
LEMMA RuntimeDigestInvariant == IInv /\ RuntimeDigest => IInv'
<1> SUFFICES ASSUME IInv, RuntimeDigest PROVE IInv'
  OBVIOUS
<1> USE DEF IInv, files, world, scanVars
<1>1. CASE ImageError
  BY <1>1, ImageErrorInvariant DEF RuntimeDigest
<1>2. CASE Admitted.digest \in ManifestDigest /\ Goto("agent") /\ UNCHANGED <<usage, used>>
  <2> USE <1>2 DEF RuntimeDigest, Goto
  <2>1. TypeOK'
    BY DEF TypeOK, Labels, Over
  <2>2. Preflighted' /\ Executed'
    BY DecisionsKept
  <2>3. \A d \in execution : pod = d.input.image.digest
    <3>1. PICK d \in execution : execution = {d}
      BY DEF Decided, AfterBoth, InTrial, TrialRuns
    <3>2. Admitted = d.input.image /\ Admitted.digest # None
      BY <3>1, AdmittedImage
    <3>3. Admitted.digest \in {pod, None}
      BY DEF ManifestDigest
    <3> QED BY <3>1, <3>2, <3>3
  <2>4. Decided'
    BY <2>3 DEF Decided, AfterFirst, AfterBoth, Copied, Images, TrialRuns, InTrial
  <2>5. Counted'
    BY DEF Counted, Images, TrialRuns, InTrial
  <2>6. Moderate' /\ Scanned'
    BY DEF Moderate, Scanned
  <2> QED BY <2>1, <2>2, <2>4, <2>5, <2>6
<1> QED BY <1>1, <1>2 DEF RuntimeDigest

\* The invariant survives the work of the agent.
LEMMA AgentInvariant == IInv /\ Agent => IInv'
<1> SUFFICES ASSUME IInv, Agent PROVE IInv'
  OBVIOUS
<1> USE DEF IInv, Agent, files, world, scanVars, Goto, Refuse
<1>1. TypeOK'
  <2>1. /\ usage \in Seq(Usages \cup {Unknown}) /\ Len(usage) = trial - 1 /\ trial \in Nat
    BY Documents DEF TypeOK, Counted, InTrial, TrialRuns
  <2>2. /\ usage' \in Seq(Usages \cup {Unknown}) /\ Len(usage') = trial
    BY <2>1, AppendGrows
  <2> QED BY <2>1, <2>2 DEF TypeOK, Labels, Over
<1>2. Preflighted'
  BY DecisionsKept
<1>3. Executed'
  BY DecisionsKept
<1>4. Decided'
  BY DEF Decided, AfterFirst, AfterBoth, Copied, Images, TrialRuns, InTrial
<1>5. Counted'
  BY DEF Counted, TypeOK, Images, TrialRuns, InTrial
<1>6. Moderate'
  BY DEF Moderate, Counted, TypeOK
<1>7. Scanned'
  BY DEF Scanned, Counted, TypeOK
<1> QED BY <1>1, <1>2, <1>3, <1>4, <1>5, <1>6, <1>7

\* A verdict accepts this trial or none.
LEMMA OutcomeTyped ==
  ASSUME NEW scanner, Outcome(scanner)
  PROVE  /\ accepted' \subseteq accepted \cup {trial}
         /\ trial \in accepted' => trial \in accepted \/ ScannersAdmitted(scanner)
BY DEF Outcome

\* The invariant survives the evaluation up to its scanners.
LEMMA FinishInvariant == IInv /\ Finish => IInv'
<1> SUFFICES ASSUME IInv, Finish PROVE IInv'
  OBVIOUS
<1> USE DEF IInv, files, world, Goto
<1>0. /\ pc = "finish"
      /\ \/ pc' = "scan" /\ hashed' = live.scanner /\ UNCHANGED <<used, accepted>>
         \/ /\ pc' = "next" /\ used' = Append(used, None) /\ hashed' = hashed
            /\ UNCHANGED accepted \/ (~options.scans /\ Outcome(None))
      /\ UNCHANGED <<files, world, trial, config, preflight, execution, snapshot, pod, usage,
                     swaps, restored>>
  BY DEF Finish
<1>1. accepted' \subseteq accepted \cup {trial} /\ (~options.scans \/ accepted' = accepted)
  BY <1>0, OutcomeTyped
<1>2. /\ trial \in Nat /\ trial > 0 /\ Len(used) = trial - 1
      /\ used \in Seq({"allowed", "partial", "newer", None})
  BY <1>0, Documents DEF TypeOK, Counted, InTrial, TrialRuns
<1>3. CASE pc' = "scan"
  <2>1. UNCHANGED <<used, accepted>> /\ hashed' = live.scanner
    BY <1>0, <1>3
  <2>2. TypeOK'
    BY <1>0, <1>3, <2>1 DEF TypeOK, Labels, Over, Counted
  <2>3. Preflighted' /\ Executed'
    BY <1>0, DecisionsKept
  <2>4. Decided'
    BY <1>0, <1>3 DEF Decided, AfterFirst, AfterBoth, Copied, Images, TrialRuns, InTrial
  <2>5. Counted'
    BY <1>0, <1>3, <2>1 DEF Counted, Images, TrialRuns, InTrial
  <2>6. Moderate' /\ Scanned'
    BY <1>0, <1>3, <2>1 DEF Moderate, Scanned
  <2> QED BY <2>2, <2>3, <2>4, <2>5, <2>6
<1>4. CASE pc' = "next"
  <2>1. /\ used' \in Seq({"allowed", "partial", "newer", None}) /\ Len(used') = trial
        /\ \A t \in 1 .. trial - 1 : used'[t] = used[t]
    BY <1>0, <1>2, <1>4, AppendGrows
  <2>2. TypeOK'
    <3>1. accepted' \subseteq 1 .. trial
      BY <1>1, <1>2 DEF TypeOK
    <3> QED BY <1>0, <1>4, <3>1 DEF TypeOK, Labels, Over
  <2>3. Preflighted' /\ Executed'
    BY <1>0, DecisionsKept
  <2>4. Decided'
    BY <1>0, <1>4 DEF Decided, AfterFirst, AfterBoth, Copied, Images, TrialRuns, InTrial
  <2>5. Counted'
    BY <1>0, <1>1, <1>2, <1>4, <2>1 DEF Counted, Images, TrialRuns, InTrial
  <2>6. Moderate'
    BY <1>0 DEF Moderate
  <2>7. Scanned'
    <3>1. execution # {}
      BY <1>0 DEF Decided, AfterBoth, InTrial, TrialRuns
    <3>2. \A t \in accepted : used'[t] = used[t]
      BY <1>2, <2>1 DEF Counted
    <3> QED BY <1>0, <1>1, <1>4, <3>1, <3>2 DEF Scanned
  <2> QED BY <2>2, <2>3, <2>4, <2>5, <2>6, <2>7
<1> QED BY <1>0, <1>3, <1>4

\* The invariant survives the scan.
LEMMA ScanInvariant == IInv /\ Scan => IInv'
<1> SUFFICES ASSUME IInv, Scan PROVE IInv'
  OBVIOUS
<1> USE DEF IInv, Scan, files, world, scanVars, Goto
<1>1. /\ trial \in Nat /\ trial > 0 /\ Len(used) = trial - 1
      /\ used \in Seq({"allowed", "partial", "newer", None})
      /\ live.scanner \in {"allowed", "partial", "newer", None}
  BY Documents DEF TypeOK, Counted, InTrial, TrialRuns
<1>2. /\ used' \in Seq({"allowed", "partial", "newer", None}) /\ Len(used') = trial
      /\ \A t \in 1 .. trial - 1 : used'[t] = used[t]
      /\ used'[trial] = live.scanner
  BY <1>1, AppendGrows
<1>3. TypeOK'
  BY DEF TypeOK, Labels, Over
<1>4. Preflighted' /\ Executed'
  BY DecisionsKept
<1>5. Decided'
  BY DEF Decided, AfterFirst, AfterBoth, Copied, Images, TrialRuns, InTrial
<1>6. Counted'
  BY <1>1, <1>2 DEF Counted, Images, TrialRuns, InTrial
<1>7. Moderate'
  BY DEF Moderate
<1>8. Scanned'
  <2>1. \A t \in accepted : used'[t] = used[t]
    BY <1>1, <1>2 DEF Counted
  <2> QED BY <1>2, <2>1 DEF Scanned
<1> QED BY <1>3, <1>4, <1>5, <1>6, <1>7, <1>8

\* The invariant survives the second hash.
LEMMA RehashInvariant == IInv /\ Rehash => IInv'
<1> SUFFICES ASSUME IInv, Rehash PROVE IInv'
  OBVIOUS
<1> USE DEF IInv, Rehash, files, world, Goto
<1>1. /\ trial \in Nat /\ trial > 0 /\ Len(used) = trial /\ swaps \in Nat
      /\ accepted' \subseteq accepted \cup {trial}
      /\ trial \in accepted' => trial \in accepted \/ ScannersAdmitted(Identity)
  BY Documents, OutcomeTyped, ChangesAssumption DEF TypeOK, Counted, InTrial, TrialRuns
<1>2. restored' \subseteq restored \cup {trial} /\ restored \subseteq restored'
  OBVIOUS
<1> HIDE DEF Rehash
<1>3. /\ pc = "rehash" /\ pc' = "next" /\ hashed' = None /\ swaps' = 0
      /\ swaps > 1 => trial \in restored'
      /\ UNCHANGED <<files, world, trial, config, preflight, execution, snapshot, pod, usage, used>>
  BY DEF Rehash
<1>4. TypeOK'
  <2>1. accepted' \subseteq 1 .. trial /\ restored' \subseteq 1 .. trial
    BY <1>1, <1>2 DEF TypeOK
  <2>2. swaps' \in 0 .. changes'
    BY <1>3, ChangesAssumption DEF TypeOK
  <2> QED BY <1>3, <2>1, <2>2 DEF TypeOK, Labels, Over
<1>5. Preflighted' /\ Executed'
  BY <1>3, DecisionsKept
<1>6. Decided'
  BY <1>3 DEF Decided, AfterFirst, AfterBoth, Copied, Images, TrialRuns, InTrial
<1>7. Counted'
  BY <1>1, <1>3 DEF Counted, Images, TrialRuns, InTrial
<1>8. Moderate'
  BY <1>3 DEF Moderate
<1>9. Scanned'
  <2>1. execution # {}
    BY <1>3 DEF Decided, AfterBoth, InTrial, TrialRuns
  <2>2. ASSUME NEW t \in accepted', options.scans, t \notin restored', NEW d \in execution
        PROVE  used[t] = d.input.scanner
    <3>1. CASE t \in accepted
      BY <1>2, <2>2, <3>1 DEF Scanned
    <3>2. CASE t \notin accepted
      <4>1. t = trial /\ ScannersAdmitted(Identity)
        BY <1>1, <2>2, <3>2
      <4>2. Identity # "partial" /\ Identity = d.input.scanner
        BY <2>2, <4>1 DEF ScannersAdmitted
      <4>3. live.scanner = hashed /\ hashed = d.input.scanner
        BY <4>2 DEF Identity
      <4>4. swaps = 0
        BY <1>1, <1>3, <2>2, <4>1, <4>3 DEF Scanned
      <4> QED BY <1>3, <4>1, <4>3, <4>4 DEF Scanned
    <3> QED BY <3>1, <3>2
  <2> QED BY <1>3, <2>1, <2>2 DEF Scanned
<1> QED BY <1>4, <1>5, <1>6, <1>7, <1>8, <1>9

\* The invariant survives what others do.
LEMMA DisturbInvariant == IInv /\ Disturb => IInv'
<1> SUFFICES ASSUME IInv, Disturb PROVE IInv'
  OBVIOUS
<1> USE DEF IInv, Disturb, files, world, scanVars
<1>1. TypeOK'
  <2>1. live'.tree \in Versions
    BY DEF TypeOK, Counted
  <2>2. images' \in [{"host", "node"} -> Digests \cup {None}]
    BY DEF TypeOK
  <2>3. changes' \in 0 .. Changes /\ changes' = changes + 1
    BY ChangesAssumption DEF TypeOK
  <2>4. swaps' \in 0 .. changes'
    BY <2>3, ChangesAssumption DEF TypeOK
  <2> QED BY <2>1, <2>2, <2>3, <2>4 DEF TypeOK
<1>2. Preflighted'
  BY DecisionsKept
<1>3. Executed'
  BY DecisionsKept
<1>4. Decided'
  BY DEF Decided, AfterFirst, AfterBoth, Copied, Images, TrialRuns, InTrial
<1>5. Counted'
  BY DEF Counted, TypeOK, Images, TrialRuns, InTrial
<1>6. Moderate'
  BY DEF Moderate, Counted, TypeOK
<1>7. Scanned'
  BY DEF Scanned, Counted, TypeOK
<1> QED BY <1>1, <1>2, <1>3, <1>4, <1>5, <1>6, <1>7

\* No step of the run, and nothing that others do, breaks it.
LEMMA NextInvariant == IInv /\ [Next]_vars => IInv'
<1> SUFFICES ASSUME IInv, [Next]_vars PROVE IInv'
  OBVIOUS
<1>1. CASE UNCHANGED vars
  <2> USE <1>1 DEF IInv, vars, files, world, scanVars
  <2>1. TypeOK' /\ Decided' /\ Counted'
    BY DEF TypeOK, Decided, Counted
  <2>2. Preflighted' /\ Executed'
    BY DecisionsKept
  <2>3. Moderate' /\ Scanned'
    BY DEF Moderate, Scanned
  <2> QED BY <2>1, <2>2, <2>3
<1>2. CASE Step
  <2>1. CASE Load \/ Preflight \/ Validate \/ Snapshot
    BY <2>1, LoadInvariant, PreflightInvariant, ValidateInvariant, SnapshotInvariant
  <2>2. CASE Decide \/ EnsureImage \/ NextTrial \/ Evidence
    BY <2>2, DecideInvariant, EnsureImageInvariant, NextTrialInvariant, EvidenceInvariant
  <2>3. CASE StartPod \/ RuntimeDigest \/ Agent
    BY <2>3, StartPodInvariant, RuntimeDigestInvariant, AgentInvariant
  <2>4. CASE Finish \/ Scan \/ Rehash
    BY <2>4, FinishInvariant, ScanInvariant, RehashInvariant
  <2> QED BY <1>2, <2>1, <2>2, <2>3, <2>4 DEF Step
<1> QED BY <1>1, <1>2, DisturbInvariant DEF Next

-----------------------------------------------------------------------------
(* What the invariant says of an agent that runs, and of a trial that is accepted *)

\* What the second decision admits is what settings and options say.
LEMMA Granted ==
  ASSUME IInv, NEW d \in execution
  PROVE  /\ Denials(request, bundle, d.input, "execution") = {} /\ d.reasons = {"admitted"}
         /\ d = EvaluateAdmission(request, bundle, d.input, "execution", preflight)
         /\ \A f \in Runtime \ {"scanner", "scannerReady"} :
              d.input[f] = Observed(d.input.tree, d.input.image)[f]
         /\ d.input = [f \in Runtime |-> d.input[f]]
<1>1. /\ d = EvaluateAdmission(request, bundle, d.input, "execution", preflight)
      /\ d.allowed /\ Seen(d.input)
  BY DEF IInv, Executed
<1>2. Denials(request, bundle, d.input, "execution") = {} /\ d.reasons = {"admitted"}
  BY <1>1, Allowed
<1> QED BY <1>1, <1>2 DEF Seen

\* And these are, of what it admits, the parts that the properties name.
LEMMA AsObserved ==
  ASSUME IInv, NEW d \in execution
  PROVE  /\ d.input.agent = options.agent /\ d.input.model = options.model
         /\ d.input.trials = options.trials /\ d.input.broker = options.broker
         /\ d.input.scans = options.scans /\ d.input.judge = Judged
         /\ d.input.network = Settings[config].network
         /\ d.input.spec = ExecutionSpec(d.input.tree)
<1> DEFINE r == Observed(d.input.tree, d.input.image)
<1>1. /\ r.agent = options.agent /\ r.model = options.model /\ r.trials = options.trials
      /\ r.broker = options.broker /\ r.scans = options.scans /\ r.judge = Judged
      /\ r.network = Settings[config].network /\ r.spec = ExecutionSpec(d.input.tree)
  BY DEF Observed
<1> HIDE DEF r
<1>2. \A f \in Runtime \ {"scanner", "scannerReady"} : d.input[f] = r[f]
  BY Granted DEF r
<1>3. /\ d.input.agent = r.agent /\ d.input.model = r.model /\ d.input.trials = r.trials
      /\ d.input.broker = r.broker /\ d.input.scans = r.scans /\ d.input.judge = r.judge
      /\ d.input.network = r.network /\ d.input.spec = r.spec
  BY <1>2 DEF Runtime
<1> QED BY <1>1, <1>3

\* The two decisions of a trial that runs.
LEMMA BothDecisions ==
  ASSUME IInv, pc = "agent"
  PROVE  \E p \in preflight, d \in execution :
           /\ preflight = {p} /\ execution = {d} /\ Continues(p, d)
           /\ snapshot = p.input.tree /\ snapshot = d.input.tree
           /\ pod = d.input.image.digest
<1>1. PICK p \in preflight : preflight = {p}
  BY DEF IInv, Decided, AfterFirst, InTrial, TrialRuns
<1>2. PICK d \in execution : execution = {d}
  BY DEF IInv, Decided, AfterBoth, InTrial, TrialRuns
<1>3. Continues(p, d)
  BY DEF IInv, Executed
<1>4. snapshot = p.input.tree /\ pod = d.input.image.digest
  BY DEF IInv, Decided, Copied, TrialRuns
<1>5. p.input.tree = d.input.tree
  <2>1. d.input = [f \in Runtime |-> d.input[f]]
    BY Granted
  <2>2. [d.input EXCEPT !.image = NoImage] = p.input
    BY <1>3 DEF Continues
  <2> QED BY <2>1, <2>2 DEF Runtime
<1> QED BY <1>1, <1>2, <1>3, <1>4, <1>5

\* Settings and files are of the version that the registry approves.
LEMMA OnePiece ==
  ASSUME IInv, pc = "agent"
  PROVE  snapshot = config
<1>1. PICK p \in preflight, d \in execution : snapshot = d.input.tree
  BY BothDecisions
<1>2. PICK e \in bundle.tasks : d.input.spec \in e.specs
  <2>1. Denials(request, bundle, d.input, "execution") = {}
    BY Granted
  <2> QED BY <2>1, AdmittedRuntime
<1>3. d.input.spec.config = d.input.spec.tree
  BY <1>2, Documents DEF IInv
<1>4. d.input.spec = ExecutionSpec(d.input.tree)
  BY AsObserved
<1> QED BY <1>1, <1>3, <1>4 DEF ExecutionSpec

\* What an agent was given was admitted.
LEMMA AdmissionCovers == IInv => AdmittedOnly
<1> SUFFICES ASSUME IInv, pc = "agent"
             PROVE  /\ snapshot = config
                    /\ \E e \in bundle.tasks :
                         /\ e.status = "approved" /\ e.tree = snapshot
                         /\ ExecutionSpec(snapshot) \in e.specs
                         /\ \E i \in e.images : i.digest = pod /\ i.platform = options.platform
                    /\ \E e \in bundle.models :
                         /\ e.agent = request.agent /\ e.model = options.model
                         /\ e.status = "approved" /\ request.class \in e.classes
                    /\ trial <= Min({options.trials, bundle.rules.trials})
                    /\ bundle.rules.requireBroker => options.broker
                    /\ bundle.rules.requireJudge => Judged
                    /\ Settings[config].network \in bundle.rules.networks
  BY DEF AdmittedOnly
<1>1. PICK d \in execution : snapshot = d.input.tree /\ pod = d.input.image.digest
  BY BothDecisions
<1>2. Denials(request, bundle, d.input, "execution") = {}
  BY Granted
<1>3. /\ d.input.model = options.model /\ d.input.broker = options.broker
      /\ d.input.trials = options.trials /\ d.input.judge = Judged
      /\ d.input.network = Settings[config].network
      /\ d.input.spec = ExecutionSpec(d.input.tree)
  BY AsObserved
<1>4. \E e \in bundle.tasks :
        /\ e.status = "approved" /\ e.tree = snapshot /\ ExecutionSpec(snapshot) \in e.specs
        /\ \E i \in e.images : i.digest = pod /\ i.platform = options.platform
  <2>1. PICK e \in bundle.tasks : /\ e.status = "approved" /\ e.tree = d.input.tree
                                  /\ d.input.spec \in e.specs /\ d.input.image \in e.images
    BY <1>2, AdmittedRuntime
  <2>2. d.input.image.platform = options.platform
    BY DEF IInv, Executed
  <2> QED BY <1>1, <1>3, <2>1, <2>2
<1>5. \E e \in bundle.models : /\ e.agent = request.agent /\ e.model = options.model
                               /\ e.status = "approved" /\ request.class \in e.classes
  <2>1. PICK e \in bundle.models : /\ e.agent = d.input.agent /\ e.model = d.input.model
                                   /\ e.status = "approved" /\ request.class \in e.classes
    BY <1>2, AdmittedRuntime
  <2>2. d.input.agent = request.agent
    BY <1>2, AdmittedRuntime
  <2> QED BY <1>3, <2>1, <2>2
<1>6. trial <= Min({options.trials, bundle.rules.trials})
  <2>1. trial <= options.trials /\ trial \in Nat
    BY Documents DEF IInv, TypeOK
  <2>2. options.trials \in Nat /\ bundle.rules.trials \in Nat
    BY Documents DEF IInv
  <2>3. ~(d.input.trials > bundle.rules.trials)
    BY <1>2, AdmittedRuntime
  <2>4. trial <= bundle.rules.trials
    BY <1>3, <2>1, <2>2, <2>3
  <2>5. Min({options.trials, bundle.rules.trials}) \in {options.trials, bundle.rules.trials}
    BY <2>2, MinOfNumbers
  <2> QED BY <2>1, <2>4, <2>5
<1>7. /\ bundle.rules.requireBroker => options.broker
      /\ bundle.rules.requireJudge => Judged
      /\ Settings[config].network \in bundle.rules.networks
  BY <1>2, <1>3, AdmittedRuntime
<1> QED BY <1>4, <1>5, <1>6, <1>7, OnePiece

\* The limits of the second decision are what policy, request and model allow.
LEMMA LimitsOfDecision ==
  ASSUME IInv, NEW d \in execution, NEW unit \in {"tokens", "cost"}
  PROVE  /\ d.limits[unit] \in Nat /\ d.limits[unit] <= bundle.rules[unit]
         /\ request[unit] # 0 => d.limits[unit] <= request[unit]
         /\ \A e \in bundle.models : e.agent = options.agent /\ e.model = options.model
                                       => d.limits[unit] <= e[unit]
<1>1. /\ bundle.rules[unit] \in Nat /\ request[unit] \in Nat
      /\ \A e \in bundle.models : e[unit] \in Nat
  BY Documents DEF IInv
<1>2. d.limits[unit] = Lowest(request, bundle, d.input, unit)
  <2>1. d = EvaluateAdmission(request, bundle, d.input, "execution", preflight)
    BY Granted
  <2> QED BY <2>1, Evaluated
<1>3. d.input.agent = options.agent /\ d.input.model = options.model
  BY AsObserved
<1>4. \A e \in bundle.models : e.agent = options.agent /\ e.model = options.model
                                 => e \in MatchedModel(bundle, d.input)
  BY <1>3 DEF MatchedModel
<1> QED BY <1>1, <1>2, <1>4, LowestThreshold

\* The trials before this one have kept to what everyone allows.
LEMMA ModerationStops == IInv => UsageStops
<1> SUFFICES ASSUME IInv, pc = "agent", NEW t \in 1 .. trial - 1, NEW unit \in {"tokens", "cost"}
             PROVE  /\ usage[t][unit] # Missing
                    /\ usage[t][unit] <= bundle.rules[unit]
                    /\ request[unit] # 0 => usage[t][unit] <= request[unit]
                    /\ \A e \in bundle.models : e.agent = options.agent /\ e.model = options.model
                                                  => usage[t][unit] <= e[unit]
  BY DEF UsageStops
<1>1. PICK d \in execution : execution = {d}
  BY BothDecisions
<1>2. t \in DOMAIN usage /\ MayGoOn(usage[t], d.limits)
  BY <1>1 DEF IInv, Moderate
<1>3. usage[t][unit] # Missing /\ usage[t][unit] <= d.limits[unit]
  BY <1>2 DEF MayGoOn
<1>4. usage[t][unit] \in Nat \cup {Missing}
  <2>1. usage[t] \in Usages \cup {Unknown}
    BY <1>2 DEF IInv, TypeOK
  <2> QED BY <2>1, UsagesAssumption DEF Unknown
<1>5. usage[t][unit] \in Nat
  BY <1>3, <1>4
<1>6. /\ bundle.rules[unit] \in Nat /\ request[unit] \in Nat
      /\ \A e \in bundle.models : e[unit] \in Nat
  BY Documents DEF IInv
<1> QED BY <1>3, <1>5, <1>6, LimitsOfDecision

\* What an accepted trial was looked at by is what the policy allows.
LEMMA ScannersHold == IInv => AcceptedAsAdmitted
<1> SUFFICES ASSUME IInv, NEW t \in accepted \ restored, options.scans \/ bundle.rules.requireScans
             PROVE  used[t] \in bundle.rules.scanners
  BY DEF AcceptedAsAdmitted
<1>1. PICK d \in execution : options.scans => used[t] = d.input.scanner
  BY DEF IInv, Scanned
<1>2. Denials(request, bundle, d.input, "execution") = {} /\ d.input.scans = options.scans
  BY Granted, AsObserved
<1>3. /\ bundle.rules.requireScans => d.input.scans
      /\ d.input.scans => d.input.scanner \in bundle.rules.scanners
  BY <1>2, AdmittedRuntime
<1> QED BY <1>1, <1>2, <1>3

\* What verify-run makes of what a decision was of, from the saved scanners and
\* judge of another and a task of some version.
Renewed(r, saved, tree) ==
  LET s == Settings[tree] IN
  [r EXCEPT !.task = s.task, !.model = request.model, !.network = s.network,
     !.domains = s.domains, !.proxy = IF s.network = "proxy" THEN s.proxy ELSE None,
     !.agentSecs = s.agentSecs, !.evalSecs = s.evalSecs,
     !.scans = saved.scans, !.scanner = saved.scanner,
     !.scannerReady = saved.scannerReady, !.judge = saved.judge,
     !.judgeBackend = IF saved.judge THEN s.judgeBackend ELSE None,
     !.judgeModel = IF saved.judge THEN s.judgeModel ELSE None,
     !.tree = tree, !.spec = [config |-> tree, tree |-> tree, scans |-> saved.scans,
                              judge |-> saved.judge]]

\* A task of the version of the run changes nothing of what was seen.
LEMMA RenewedIsSeen ==
  ASSUME IInv, NEW d \in execution, NEW r, Seen(r), r.tree = config,
         request.model = options.model,
         r.scanner = d.input.scanner, r.scannerReady = d.input.scannerReady
  PROVE  Renewed(r, d.input, config) = r
<1> DEFINE s == Settings[config]
           o == Observed(r.tree, r.image)
<1>1. d.input.scans = options.scans /\ d.input.judge = Judged
  BY AsObserved
<1>2. /\ o.task = s.task /\ o.model = options.model /\ o.network = s.network
      /\ o.domains = s.domains /\ o.proxy = (IF s.network = "proxy" THEN s.proxy ELSE None)
      /\ o.agentSecs = s.agentSecs /\ o.evalSecs = s.evalSecs /\ o.scans = options.scans
      /\ o.judge = Judged /\ o.judgeBackend = (IF Judged THEN s.judgeBackend ELSE None)
      /\ o.judgeModel = (IF Judged THEN s.judgeModel ELSE None)
      /\ o.spec = ExecutionSpec(r.tree)
  BY DEF Observed
<1>3. ExecutionSpec(r.tree) = [config |-> config, tree |-> config, scans |-> options.scans,
                               judge |-> Judged]
  BY DEF ExecutionSpec
<1> HIDE DEF s, o
<1>4. r = [f \in Runtime |-> r[f]]
      /\ \A f \in Runtime \ {"scanner", "scannerReady"} : r[f] = o[f]
  BY DEF Seen, o
<1>5. /\ r.task = o.task /\ r.model = o.model /\ r.network = o.network /\ r.domains = o.domains
      /\ r.proxy = o.proxy /\ r.agentSecs = o.agentSecs /\ r.evalSecs = o.evalSecs
      /\ r.scans = o.scans /\ r.judge = o.judge /\ r.judgeBackend = o.judgeBackend
      /\ r.judgeModel = o.judgeModel /\ r.spec = o.spec
  BY <1>4 DEF Runtime
<1> DEFINE m == [r EXCEPT !.task = r.task, !.model = r.model, !.network = r.network,
            !.domains = r.domains, !.proxy = r.proxy,
            !.agentSecs = r.agentSecs, !.evalSecs = r.evalSecs,
            !.scans = r.scans, !.scanner = r.scanner,
            !.scannerReady = r.scannerReady, !.judge = r.judge,
            !.judgeBackend = r.judgeBackend, !.judgeModel = r.judgeModel,
            !.tree = r.tree, !.spec = r.spec]
<1>6. /\ s.task = r.task /\ request.model = r.model /\ s.network = r.network
      /\ s.domains = r.domains /\ (IF s.network = "proxy" THEN s.proxy ELSE None) = r.proxy
      /\ s.agentSecs = r.agentSecs /\ s.evalSecs = r.evalSecs /\ d.input.scans = r.scans
      /\ d.input.scanner = r.scanner /\ d.input.scannerReady = r.scannerReady
      /\ d.input.judge = r.judge
      /\ (IF d.input.judge THEN s.judgeBackend ELSE None) = r.judgeBackend
      /\ (IF d.input.judge THEN s.judgeModel ELSE None) = r.judgeModel /\ config = r.tree
      /\ [config |-> config, tree |-> config, scans |-> d.input.scans,
          judge |-> d.input.judge] = r.spec
  BY <1>1, <1>2, <1>3, <1>5
<1>7. Renewed(r, d.input, config) = m
  BY <1>6, Zenon DEF Renewed, s
<1>8. m = r
  BY <1>4, Zenon DEF Runtime
<1> QED BY <1>7, <1>8

\* Both decisions can be made again from what has been saved.
LEMMA RecordsSuffice == IInv => VerifiesLater
<1> SUFFICES ASSUME IInv, pc = "agent" PROVE Verified(snapshot, trial)
  BY DEF VerifiesLater
<1>1. PICK p \in preflight, d \in execution :
        /\ preflight = {p} /\ execution = {d} /\ Continues(p, d)
        /\ snapshot = p.input.tree /\ snapshot = d.input.tree
  BY BothDecisions
<1>2. /\ p = EvaluateAdmission(request, bundle, p.input, "preflight", {})
      /\ d = EvaluateAdmission(request, bundle, d.input, "execution", {p})
      /\ Seen(p.input) /\ Seen(d.input) /\ d.allowed /\ IsEvidence(request, d)
  BY <1>1 DEF IInv, Preflighted, Executed, Decided, TrialRuns
<1>3. d.reasons = {"admitted"} /\ Denials(request, bundle, d.input, "execution") = {}
  BY Granted
<1>4. snapshot = config
  BY OnePiece
<1>5. request.model = options.model
  BY <1>3, AdmittedRuntime, AsObserved
<1>6. [d.input EXCEPT !.image = NoImage] = p.input /\ DOMAIN d.input = Runtime
  BY <1>1, <1>2 DEF Continues, Seen
<1>7. p.input.scanner = d.input.scanner /\ p.input.scannerReady = d.input.scannerReady
      /\ p.input.trials = d.input.trials
  BY <1>6 DEF Runtime
<1>8. trial <= Min({p.input.trials, d.input.trials})
  <2>1. trial <= options.trials /\ options.trials \in Nat
    BY Documents DEF IInv, TypeOK
  <2>2. p.input.trials = options.trials /\ d.input.trials = options.trials
    BY <1>7, AsObserved
  <2>3. Min({options.trials}) \in {options.trials}
    BY <2>1, MinOfNumbers
  <2> QED BY <2>1, <2>2, <2>3
<1>9. p.input.tree = config /\ d.input.tree = config
  BY <1>1, <1>4
<1>10. /\ Renewed(p.input, d.input, snapshot) = p.input
       /\ Renewed(d.input, d.input, snapshot) = d.input
  BY <1>1, <1>2, <1>4, <1>5, <1>7, <1>9, RenewedIsSeen
<1>11. /\ EvaluateAdmission(request, bundle, Renewed(p.input, d.input, snapshot),
                            "preflight", {}) = p
       /\ EvaluateAdmission(request, bundle, Renewed(d.input, d.input, snapshot),
                            "execution", {p}) = d
  BY <1>2, <1>10
<1> QED BY <1>1, <1>2, <1>3, <1>8, <1>11, Zenon DEF Verified, Renewed

-----------------------------------------------------------------------------
(* Theorems *)

\* The inductive invariant holds in every state of every run.
THEOREM Invariance == Spec => []IInv
<1>1. Init => IInv
  BY InitInvariant
<1>2. IInv /\ [Next]_vars => IInv'
  BY NextInvariant
<1> QED BY <1>1, <1>2, PTL DEF Spec

\* Variables keep their types, and no trial begins beyond those asked for.
THEOREM TypeCorrect == Spec => []TypeOK
<1>1. IInv => TypeOK
  BY DEF IInv
<1> QED BY <1>1, Invariance, PTL

\* Whenever an agent runs, what it was given is approved by the policy as loaded,
\* and of one piece: whatever others change, and whatever the documents say.
THEOREM AdmittedOnlyAlways == Spec => []AdmittedOnly
BY AdmissionCovers, Invariance, PTL

\* No agent starts after a trial that has used more than policy, request or model
\* allow, or whose usage is not known.
THEOREM UsageStopsAlways == Spec => []UsageStops
BY ModerationStops, Invariance, PTL

\* An accepted trial was looked at by scanners that the policy allows.
THEOREM AcceptedAsAdmittedAlways == Spec => []AcceptedAsAdmitted
BY ScannersHold, Invariance, PTL

\* The admission of every trial that runs an agent can be verified from the saved
\* documents and a task directory of its version.
THEOREM VerifiesLaterAlways == Spec => []VerifiesLater
BY RecordsSuffice, Invariance, PTL
===============================================================================
