------------------------------- MODULE EvalPhase -------------------------------
(***************************************************************************)
(* run_eval_phase (runner.py): a produced workspace is tested in one pod   *)
(* (cooperative), or it runs in a pod of its own that only the evaluator's *)
(* pod can talk to (isolated).  As in TrialCluster, a kubectl call that    *)
(* fails may have taken effect.                                            *)
(*                                                                         *)
(* The submission is a process of its own: once started it may stall its   *)
(* answers, exhaust its pod, or never get ready.  What a probe of it finds *)
(* changes nothing, for the tests run in any case.                         *)
(***************************************************************************)
EXTENDS Retries

VARIABLES mode,     \* "cooperative" or "isolated"
          objects,  \* what exists in the cluster
          pc,       \* the next call
          tries,    \* failed attempts at the current deletion
          failing,  \* SandboxLink.delete: `failures' is not empty
          held,     \* resources with a handle
          left,     \* those whose deletion was given up
          started,  \* the submitted command runs
          sick,     \* pods whose status tells of a resource failure
          result,   \* TestResults: what it says, of Verdicts
          infra,    \* and its infra_error
          raising,  \* an exception that nothing here handles is on its way
          fault     \* history: cluster, host or evaluator have failed

vars == <<mode, objects, pc, tries, failing, held, left, started, sick, result, infra,
          raising, fault>>

Parts == [submission |-> {"subPolicy", "submission"},
          evaluator  |-> {"evalPolicy", "evaluator"},
          link       |-> {"egress", "ingress"}]
Resources == DOMAIN Parts
Objects   == UNION {Parts[r] : r \in Resources}
Pods      == {"submission", "evaluator"}
Verdicts  == {"none", "tests", "failed", "integrity"}

\* The calls of an isolated evaluation in their order; a cooperative one has
\* those that concern the evaluator.
After == [namespace |-> "subPolicy", subPolicy |-> "submission", submission |-> "subReady",
          subReady |-> "subReset", subReset |-> "subCopy", subCopy |-> "evalPolicy",
          evalPolicy |-> "evaluator", evaluator |-> "evalReady", evalReady |-> "egress",
          egress |-> "ingress", ingress |-> "address", address |-> "start",
          start |-> "probe", probe |-> "reset", reset |-> "files", files |-> "tests",
          tests |-> "quiesce", quiesce |-> "results"]
Then(l) == IF mode = "cooperative" /\ l = "namespace" THEN "evalPolicy"
           ELSE IF mode = "cooperative" /\ l = "evalReady" THEN "reset"
           ELSE After[l]

UndoLabels  == {"undoPod", "undoPolicy", "undoEgress", "undoIngress"}
SetupLabels == DOMAIN After \cup UndoLabels \cup {"check", "results", "report"}
CleanLabels == {"delEvaluator", "delEvalPolicy", "delEgress", "delIngress",
                "delSubmission", "delSubPolicy"}
Over        == {"done", "raised"}

\* Variables keep their types.
TypeOK ==
  /\ mode \in {"cooperative", "isolated"}
  /\ objects \subseteq Objects
  /\ pc \in SetupLabels \cup CleanLabels \cup Over
  /\ tries \in 0 .. Attempts - 1 /\ failing \in BOOLEAN
  /\ held \subseteq Resources /\ left \subseteq Resources
  /\ started \in BOOLEAN /\ sick \subseteq Pods
  /\ result \in Verdicts /\ infra \in BOOLEAN
  /\ raising \in BOOLEAN /\ fault \in BOOLEAN

Init ==
  /\ mode \in {"cooperative", "isolated"}
  /\ objects = {} /\ pc = "check" /\ tries = 0 /\ failing = FALSE
  /\ held = {} /\ left = {} /\ started = FALSE /\ sick = {}
  /\ result = "none" /\ infra = FALSE /\ raising = FALSE /\ fault = FALSE

-----------------------------------------------------------------------------
(* Ends of the evaluation itself; each is followed by the cleanup *)

Goto(l) == pc' = l /\ UNCHANGED <<result, infra, fault>>
End(verdict, bad) == pc' = "delEvaluator" /\ result' = verdict /\ infra' = bad

\* A step of the harness, or of a pod that is not the submission's, has failed.
Infra == End("tests", TRUE) /\ fault' = TRUE

\* An archive that is not safe to handle is the submission's fault; an error of
\* the host's disk while it is read is taken for one.
Unsafe == End("integrity", FALSE) /\ fault' \in {fault, TRUE}

Pod(l) == IF l \in {"subPolicy", "submission"} THEN "submission" ELSE "evaluator"

\* _workspace_safety_error, and for cooperative tasks _evaluator_control_error.
Check ==
  /\ pc = "check"
  /\ \/ Goto("namespace")
     \/ pc' = "done" /\ result' = "integrity" /\ UNCHANGED <<infra, fault>>
  /\ UNCHANGED <<mode, objects, tries, failing, held, left, started, sick, raising>>

\* ensure_namespace, the waits for a pod and its image's digest, resets, the
\* address: each goes on, or is an error (a wrong digest is one as well).
Prepare ==
  /\ pc \in {"namespace", "subReady", "subReset", "evalReady", "address", "reset"}
  /\ Goto(Then(pc)) \/ Infra
  /\ UNCHANGED <<mode, objects, tries, failing, held, left, started, sick, raising>>

\* Copies the workspace, or workspace and tests, into a pod.
CopyTo ==
  /\ pc \in {"subCopy", "files"}
  /\ Goto(Then(pc)) \/ Infra \/ Unsafe
  /\ UNCHANGED <<mode, objects, tries, failing, held, left, started, sick, raising>>

\* create_sandbox_pod, as in TrialCluster.
CreatePod ==
  /\ \/ /\ pc \in {"subPolicy", "evalPolicy"} /\ UNCHANGED held
        /\ \/ Goto(Then(pc)) /\ objects' = objects \cup {pc}
           \/ Infra /\ objects' \in {objects, objects \cup {pc}}
     \/ /\ pc \in Pods
        /\ \/ Goto(Then(pc)) /\ objects' = objects \cup {pc} /\ held' = held \cup {pc}
           \/ /\ Goto("undoPod") /\ objects' \in {objects, objects \cup {pc}}
              /\ UNCHANGED held
  /\ UNCHANGED <<mode, tries, failing, left, started, sick, raising>>

\* The pod in work when its creation is undone.
Undone == IF mode = "isolated" /\ "submission" \notin held THEN "submission" ELSE "evaluator"
UndonePolicy == IF Undone = "submission" THEN "subPolicy" ELSE "evalPolicy"

UndoPod ==
  /\ \/ pc = "undoPod" /\ Goto("undoPolicy") /\ objects' \in {objects, objects \ {Undone}}
     \/ pc = "undoPolicy" /\ Infra /\ objects' \in {objects, objects \ {UndonePolicy}}
  /\ UNCHANGED <<mode, tries, failing, held, left, started, sick, raising>>

\* create_black_box_link; what fails deletes both policies and ignores the result.
CreateLink ==
  /\ \/ /\ pc = "egress" /\ UNCHANGED held
        /\ \/ Goto("ingress") /\ objects' = objects \cup {"egress"}
           \/ Goto("undoEgress") /\ objects' \in {objects, objects \cup {"egress"}}
     \/ /\ pc = "ingress"
        /\ \/ Goto(Then(pc)) /\ objects' = objects \cup {"ingress"}
                /\ held' = held \cup {"link"}
           \/ Goto("undoEgress") /\ objects' \in {objects, objects \cup {"ingress"}}
                /\ UNCHANGED held
     \/ pc = "undoEgress" /\ Goto("undoIngress") /\ UNCHANGED held
          /\ objects' \in {objects, objects \ {"egress"}}
     \/ pc = "undoIngress" /\ Infra /\ UNCHANGED held
          /\ objects' \in {objects, objects \ {"ingress"}}
  /\ UNCHANGED <<mode, tries, failing, left, started, sick, raising>>

\* The submitted command waits for a file that this call makes.
Start ==
  /\ pc = "start"
  /\ \/ Goto("probe") /\ started' = TRUE
     \/ Infra /\ started' \in BOOLEAN
  /\ UNCHANGED <<mode, objects, tries, failing, held, left, sick, raising>>

\* _wait_for_submission_readiness: ready, or not within its time.
Probe ==
  /\ pc = "probe"
  /\ Goto("reset") \/ Infra
  /\ UNCHANGED <<mode, objects, tries, failing, held, left, started, sick, raising>>

\* A pod runs out of memory, is evicted, or past its deadline.  The submission
\* can bring that upon its own pod.
PodFails(p) ==
  /\ pc \in SetupLabels /\ p \in held /\ p \notin sick
  /\ sick' = sick \cup {p}
  /\ fault' = (fault \/ p = "evaluator" \/ ~started)
  /\ UNCHANGED <<mode, objects, pc, tries, failing, held, left, started, result, infra, raising>>

-----------------------------------------------------------------------------
(* _run_hidden_tests_in_pod, from the test command on *)

\* Mutant: looks at the submission's pod as well.
EvidenceOfAny(seen) == seen \in {sick # {}, FALSE}

\* infrastructure_failure of the evaluator's pod; a status that cannot be read
\* is no evidence.
Evidence(seen) == seen \in {"evaluator" \in sick, FALSE}

\* The tests take too long.  A submission that stalls must not get out of the
\* count that way, so that only the evaluator's own pod can excuse it.
Timeout ==
  \E seen \in BOOLEAN :
    /\ Evidence(seen) /\ UNCHANGED fault
    /\ IF mode = "isolated" /\ ~seen THEN End("failed", FALSE) ELSE End("tests", TRUE)

\* The test command has ended; a killed one is seen by its exit code.
Exit ==
  \E seen \in BOOLEAN :
    /\ Evidence(seen) /\ UNCHANGED fault
    /\ IF seen THEN End("tests", TRUE) ELSE pc' = "quiesce" /\ UNCHANGED <<result, infra>>

\* `Infra': killed, over the output limit, or not to be executed at all.
Tests ==
  /\ pc = "tests"
  /\ Timeout \/ Exit \/ Infra
  /\ UNCHANGED <<mode, objects, tries, failing, held, left, started, sick, raising>>

\* Nothing may write to the results while they are read.
Quiesce ==
  /\ pc = "quiesce"
  /\ Goto("results") \/ Infra
  /\ UNCHANGED <<mode, objects, tries, failing, held, left, started, sick, raising>>

\* copy_dir_from: every member of the archive is looked at before it is extracted.
CopyFrom ==
  /\ pc = "results"
  /\ Goto("report") \/ Unsafe \/ Infra
  /\ UNCHANGED <<mode, objects, tries, failing, held, left, started, sick, raising>>

\* What the report or the coverage may be found to be; one that is linked,
\* replaced while opened, or too large is unsafe.
Artifacts == {"good", "missing", "unreadable", "unsafe", "malformed"}

\* The tests of an evaluator write a report in any case, coverage if they please.
ParseJunit(file) ==
  IF file = "unsafe" THEN "rejected" ELSE IF file = "good" THEN "parsed" ELSE "failed"
ParseCoverage(file) ==
  IF file \in {"unsafe", "malformed"} THEN "rejected"
  ELSE IF file = "unreadable" THEN "failed" ELSE "parsed"

Report ==
  /\ pc = "report"
  /\ \E junit, coverage \in Artifacts :
       LET found == {ParseJunit(junit), ParseCoverage(coverage)} IN
       /\ End(IF "rejected" \in found THEN "integrity" ELSE "tests", "failed" \in found)
       /\ fault' = (fault \/ "failed" \in found)
  /\ UNCHANGED <<mode, objects, tries, failing, held, left, started, sick, raising>>

\* An exception that is not handled, as KeyboardInterrupt, after which nothing is
\* undone; the finally clause runs, but an exception out of that ends it.
Interrupt ==
  /\ pc \notin Over /\ fault' = TRUE
  /\ IF pc \in {"check"} \cup CleanLabels THEN pc' = "raised" ELSE pc' = "delEvaluator"
  /\ raising' = TRUE /\ objects' \in {objects, objects \cup ({pc} \cap Objects)}
  /\ UNCHANGED <<mode, tries, failing, held, left, started, sick, result, infra>>

-----------------------------------------------------------------------------
(* The finally clause: evaluator, link, submission, with _delete_with_retries *)

Remove(o)      == objects' = objects \ {o}
RemoveFails(o) == objects' \in {objects, objects \ {o}}

\* What the pods have come to is forgotten, for nothing asks for it any more.
Settle == sick' = {} /\ started' = FALSE

\* The end of the cleanup hands the result on, or the exception.
OrOver(l) == IF l # "over" THEN l ELSE IF raising THEN "raised" ELSE "done"

\* Mutant: the last failure is not noted.
RetryQuietly(r, again, next) ==
  /\ fault' = TRUE /\ UNCHANGED <<infra, left>>
  /\ \/ tries + 1 < Attempts /\ pc' = again /\ tries' = tries + 1
     \/ tries + 1 = Attempts /\ pc' = OrOver(next) /\ tries' = 0

Retry(r, again, next) ==
  /\ fault' = TRUE
  /\ \/ tries + 1 < Attempts /\ pc' = again /\ tries' = tries + 1 /\ UNCHANGED <<left, infra>>
     \/ /\ tries + 1 = Attempts /\ pc' = OrOver(next) /\ tries' = 0
        /\ left' = left \cup {r} /\ infra' = TRUE

Deleted(next) == pc' = OrOver(next) /\ tries' = 0 /\ UNCHANGED <<left, infra, fault>>

NothingToDelete ==
  /\ \/ pc = "delEvaluator" /\ "evaluator" \notin held /\ pc' = "delEgress"
     \/ pc = "delEgress" /\ "link" \notin held /\ pc' = "delSubmission"
     \/ pc = "delSubmission" /\ "submission" \notin held /\ pc' = OrOver("over")
  /\ Settle
  /\ UNCHANGED <<mode, objects, tries, failing, held, left, result, infra, raising, fault>>

\* Mutant: the policy first.
DeletePolicyFirst(pod, policy, again, last, next) ==
  \/ /\ pc = again /\ pod \in held
     /\ \/ Remove(policy) /\ pc' = last /\ UNCHANGED <<tries, left, infra, fault>>
        \/ RemoveFails(policy) /\ Retry(pod, again, next)
  \/ /\ pc = last
     /\ \/ Remove(pod) /\ Deleted(next)
        \/ RemoveFails(pod) /\ Retry(pod, again, next)

\* Pod.delete keeps the policy until the pod is gone.
DeletePod(pod, policy, again, last, next) ==
  \/ /\ pc = again /\ pod \in held
     /\ \/ Remove(pod) /\ pc' = last /\ UNCHANGED <<tries, left, infra, fault>>
        \/ RemoveFails(pod) /\ Retry(pod, again, next)
  \/ /\ pc = last
     /\ \/ Remove(policy) /\ Deleted(next)
        \/ RemoveFails(policy) /\ Retry(pod, again, next)

DeletePods ==
  /\ \/ DeletePod("evaluator", "evalPolicy", "delEvaluator", "delEvalPolicy", "delEgress")
     \/ DeletePod("submission", "subPolicy", "delSubmission", "delSubPolicy", "over")
  /\ Settle
  /\ UNCHANGED <<mode, failing, held, result, raising>>

\* SandboxLink.delete: both policies, and then what has failed.
DeleteLink ==
  /\ \/ /\ pc = "delEgress" /\ "link" \in held /\ pc' = "delIngress"
        /\ \/ Remove("egress") /\ failing' = FALSE
           \/ RemoveFails("egress") /\ failing' = TRUE
        /\ UNCHANGED <<tries, left, infra, fault>>
     \/ /\ pc = "delIngress" /\ failing' = FALSE
        /\ \/ Remove("ingress") /\ ~failing /\ Deleted("delSubmission")
           \/ Remove("ingress") /\ failing /\ Retry("link", "delEgress", "delSubmission")
           \/ RemoveFails("ingress") /\ Retry("link", "delEgress", "delSubmission")
  /\ Settle
  /\ UNCHANGED <<mode, held, result, raising>>

-----------------------------------------------------------------------------

Step ==
  \/ Check \/ Prepare \/ CopyTo \/ CreatePod \/ UndoPod \/ CreateLink \/ Start \/ Probe
  \/ Tests \/ Quiesce \/ CopyFrom \/ Report \/ NothingToDelete \/ DeletePods \/ DeleteLink

Next == Step \/ Interrupt \/ \E p \in Pods : PodFails(p)

\* Every call has a timeout.
Spec == Init /\ [][Next]_vars /\ WF_vars(Step)

-----------------------------------------------------------------------------
(* Properties *)

\* As long as a pod exists that the evaluation has, so does the policy that
\* denies it the network; and submitted code starts to run only with the one
\* link in place that its tests need.
Confined ==
  /\ "submission" \in held \cap objects => "subPolicy" \in objects
  /\ "evaluator" \in held \cap objects => "evalPolicy" \in objects
  /\ started /\ pc \in SetupLabels => Parts["link"] \subseteq objects

\* An isolated submission cannot get itself out of the count: as long as
\* cluster, host and evaluator work, the evaluation has a result, and that is
\* not an infrastructure error, however the submission stalls or fails.
NotManufactured == mode = "isolated" /\ pc \in Over /\ ~fault => result # "none" /\ ~infra

\* The evaluation ends.
Terminates == <>(pc \in Over)

\* In whole resources it keeps the same promise as the trial around it.  An
\* evaluation that raises has not got to the end of its cleanup.
Alive == {r \in Resources : Parts[r] \cap objects # {}}
Cluster == INSTANCE TrialResources WITH
             phase <- IF pc \in SetupLabels THEN "creating"
                      ELSE IF pc = "done" THEN "over" ELSE "deleting",
             alive <- Alive
TrialResourcesPromise == Cluster!Spec
===============================================================================
