------------------------------ MODULE MCTrialPods ------------------------------
(***************************************************************************)
(* The two phases of a trial that use the cluster, one after the other:    *)
(* the agent's (TrialCluster), and, where that has a workspace to show,    *)
(* its evaluation (EvalPhase).  An agent that has failed, and a cleanup    *)
(* that has left something behind, do not keep the trial from evaluating.  *)
(***************************************************************************)
EXTENDS TrialCluster

VARIABLES mode, evalObjects, evalPc, evalTries, evalFailing, evalHeld, evalLeft,
          started, sick, result, infra, raising, fault

evalVars == <<mode, evalObjects, evalPc, evalTries, evalFailing, evalHeld, evalLeft,
              started, sick, result, infra, raising, fault>>

Eval == INSTANCE EvalPhase WITH
          objects <- evalObjects, pc <- evalPc, tries <- evalTries,
          failing <- evalFailing, held <- evalHeld, left <- evalLeft

\* Whatever else went wrong: where there is a snapshot, it is evaluated.  What
\* may raise before run_eval_phase is an interrupt of its first step.
Evaluated == pc = "done" /\ snapshot

TrialInit == Init /\ Eval!Init
TrialNext ==
  \/ Next /\ UNCHANGED evalVars
  \/ Evaluated /\ Eval!Next /\ UNCHANGED vars
TrialSpec ==
  /\ TrialInit /\ [][TrialNext]_<<vars, evalVars>>
  /\ WF_vars(Next) /\ WF_evalVars(Evaluated /\ Eval!Step)

\* No pod of the evaluation is ever without the policies that confine it.
EvalConfined == Eval!Confined

\* A submission cannot turn its own failure into an infrastructure error.
NotManufactured == Eval!NotManufactured

\* Both phases end, the second one whenever there is a workspace to evaluate,
\* after a failed agent and an incomplete cleanup as well.
TrialEnds == <>[](pc = "done" /\ (snapshot => evalPc \in Eval!Over))

\* The evaluation keeps the promise about whole resources.
EvalResourcesPromise == Eval!TrialResourcesPromise
===============================================================================
