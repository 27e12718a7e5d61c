--------------------------- MODULE MCTrialLifecycle ---------------------------
(* Four trials: an ungoverned one with every cluster resource; governed ones *)
(* with credentials and no graders, with scanners only, and with scanners    *)
(* and a judge.  The resources differ in nothing but the order in which they *)
(* come and go, and the graders of an ungoverned trial change nothing that   *)
(* the properties can see.                                                   *)
EXTENDS TrialLifecycle

Trial(governed, secret, proxy, scans, judge, resolve) ==
  [governed |-> governed, secret |-> secret, proxy |-> proxy, scans |-> scans,
   judge |-> judge, resolve |-> resolve]

MCBarePlans == {Trial(TRUE, FALSE, FALSE, FALSE, FALSE, TRUE)}
MCPlans == {Trial(FALSE, TRUE, TRUE, FALSE, FALSE, TRUE),
            Trial(TRUE, TRUE, FALSE, FALSE, FALSE, FALSE),
            Trial(TRUE, FALSE, FALSE, TRUE, FALSE, TRUE),
            Trial(TRUE, FALSE, FALSE, TRUE, TRUE, TRUE)}
===============================================================================
