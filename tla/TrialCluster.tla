----------------------------- MODULE TrialCluster -----------------------------
(***************************************************************************)
(* The Kubernetes objects of one agent trial, and the calls that create    *)
(* and delete them (kube.py): the credential Secret, the egress proxy and  *)
(* the sandbox pod, in the order in which the trial (runner.py) makes,     *)
(* uses and deletes them.                                                  *)
(*                                                                         *)
(* The API server is external.  A kubectl call that fails may have taken   *)
(* effect or not, and its caller does not know; one that succeeds has; and *)
(* a request whose client is gone takes no effect later.                   *)
(***************************************************************************)
EXTENDS Retries

VARIABLES objects,   \* what exists in the cluster
          pc,        \* the next call
          tries,     \* failed attempts at the current deletion
          undoing,   \* EgressProxy.delete is called by create_egress_proxy
          podGone,   \* EgressProxy.delete: `pod_deleted'
          failing,   \* EgressProxy.delete: `failures' is not empty
          held,      \* resources the trial holds a handle for
          left,      \* those whose deletion it has given up
          error,     \* the trial has an infrastructure error to report
          confirmed, \* create_trial_secret reports a confirmed rollback
          snapshot   \* `snapshot_available': there is a workspace to evaluate

vars == <<objects, pc, tries, undoing, podGone, failing, held, left, error, confirmed,
          snapshot>>

Parts == [secret |-> {"secret"},
          proxy  |-> {"config", "proxyPod", "service", "proxyPolicy"},
          pod    |-> {"podPolicy", "pod"}]
Resources == DOMAIN Parts
Objects   == UNION {Parts[r] : r \in Resources}

CreateLabels == {"secret", "rollback", "config", "proxyPod", "service", "proxyPolicy",
                 "proxyReady", "podPolicy", "pod", "undoPod", "undoPolicy", "use"}
DeleteLabels == {"delPod", "delPodPolicy", "delService", "delProxyPod", "delConfig",
                 "delProxyPolicy", "delSecret"}

TypeOK ==
  /\ objects \subseteq Objects
  /\ pc \in CreateLabels \cup DeleteLabels \cup {"done"}
  /\ tries \in 0 .. Attempts - 1
  /\ undoing \in BOOLEAN /\ podGone \in BOOLEAN /\ failing \in BOOLEAN
  /\ held \subseteq Resources /\ left \subseteq Resources
  /\ error \in BOOLEAN /\ confirmed \in BOOLEAN /\ snapshot \in BOOLEAN

Init ==
  /\ objects = {} /\ pc = "secret" /\ tries = 0
  /\ undoing = FALSE /\ podGone = FALSE /\ failing = FALSE
  /\ held = {} /\ left = {} /\ error = FALSE /\ confirmed = FALSE
  /\ snapshot = FALSE

-----------------------------------------------------------------------------
(* kubectl: what a call can have done when it returns, and when it raises *)

Apply(o)       == objects' = objects \cup {o}
ApplyFails(o)  == objects' \in {objects, objects \cup {o}}
Remove(o)      == objects' = objects \ {o}
RemoveFails(o) == objects' \in {objects, objects \ {o}}

\* The exception that ends the setup is reported, and the cleanup begins.
Abort == pc' = "delPod" /\ error' = TRUE

-----------------------------------------------------------------------------
(* Creation *)

\* A trial may have no credentials, and then no Secret.
CreateSecret ==
  /\ pc = "secret"
  /\ \/ pc' = "config" /\ UNCHANGED <<objects, held>>
     \/ pc' = "config" /\ Apply("secret") /\ held' = held \cup {"secret"}
     \/ pc' = "rollback" /\ ApplyFails("secret") /\ UNCHANGED held
  /\ UNCHANGED <<tries, undoing, podGone, failing, left, error, confirmed, snapshot>>

\* Mutant: takes the end of the deletion for the absence of the Secret.
RollbackUnread ==
  /\ pc = "rollback"
  /\ RemoveFails("secret")
  /\ Abort /\ confirmed' = TRUE
  /\ UNCHANGED <<tries, undoing, podGone, failing, held, left, snapshot>>

\* _rollback_trial_secret: whatever comes of the deletion, only a read that
\* shows no Secret confirms it.  The read can fail as well.
Rollback ==
  /\ pc = "rollback"
  /\ RemoveFails("secret")
  /\ \/ "secret" \notin objects' /\ Abort /\ confirmed' = TRUE /\ tries' = 0
     \/ tries + 1 = Attempts /\ Abort /\ UNCHANGED confirmed /\ tries' = 0
     \/ tries + 1 < Attempts /\ tries' = tries + 1 /\ UNCHANGED <<pc, error, confirmed>>
  /\ UNCHANGED <<undoing, podGone, failing, held, left, snapshot>>

\* The order of egress_proxy_manifests.
NextManifest == [config |-> "proxyPod", proxyPod |-> "service",
                 service |-> "proxyPolicy", proxyPolicy |-> "proxyReady"]

\* create_egress_proxy, where the trial needs a proxy.  A failure, also of the
\* wait for its pod, deletes whatever there is of it.
CreateProxy ==
  /\ \/ pc = "config" /\ pc' = "podPolicy" /\ UNCHANGED <<objects, undoing, held>>
     \/ /\ pc \in DOMAIN NextManifest /\ UNCHANGED held
        /\ \/ pc' = NextManifest[pc] /\ Apply(pc) /\ UNCHANGED undoing
           \/ pc' = "delService" /\ ApplyFails(pc) /\ undoing' = TRUE
     \/ /\ pc = "proxyReady" /\ UNCHANGED objects
        /\ \/ pc' = "podPolicy" /\ held' = held \cup {"proxy"} /\ UNCHANGED undoing
           \/ pc' = "delService" /\ undoing' = TRUE /\ UNCHANGED held
  /\ podGone' = FALSE /\ failing' = FALSE
  /\ UNCHANGED <<tries, left, error, confirmed, snapshot>>

\* create_sandbox_pod: the policy first.  Nothing undoes a failed policy; a
\* failed pod is deleted, and then its policy, with the results ignored.
CreatePod ==
  /\ \/ /\ pc = "podPolicy" /\ UNCHANGED held
        /\ \/ pc' = "pod" /\ Apply("podPolicy") /\ UNCHANGED error
           \/ Abort /\ ApplyFails("podPolicy")
     \/ /\ pc = "pod" /\ UNCHANGED error
        /\ \/ pc' = "use" /\ Apply("pod") /\ held' = held \cup {"pod"}
           \/ pc' = "undoPod" /\ ApplyFails("pod") /\ UNCHANGED held
     \/ pc = "undoPod" /\ pc' = "undoPolicy" /\ RemoveFails("pod")
          /\ UNCHANGED <<held, error>>
     \/ pc = "undoPolicy" /\ RemoveFails("podPolicy") /\ Abort /\ UNCHANGED held
  /\ UNCHANGED <<tries, undoing, podGone, failing, left, confirmed, snapshot>>

\* The agent works, or fails to.  Its workspace may be had even so, and may be
\* unsafe to have when nothing has failed.
Use ==
  /\ pc = "use"
  /\ pc' = "delPod" /\ error' \in BOOLEAN /\ snapshot' \in BOOLEAN
  /\ UNCHANGED <<objects, tries, undoing, podGone, failing, held, left, confirmed>>

-----------------------------------------------------------------------------
(* Deletion, each with _delete_with_retries *)

\* Mutant: does not count its attempts.
RetryUncounted(r, again, next) == pc' = again /\ UNCHANGED <<tries, left, error>>

\* An attempt at deleting r has raised: once more from its first call, unless
\* that was the last attempt.
Retry(r, again, next) ==
  \/ tries + 1 < Attempts /\ pc' = again /\ tries' = tries + 1 /\ UNCHANGED <<left, error>>
  \/ tries + 1 = Attempts /\ pc' = next /\ tries' = 0
       /\ left' = left \cup {r} /\ error' = TRUE

Deleted(next) == pc' = next /\ tries' = 0 /\ UNCHANGED <<left, error>>

NothingToDelete ==
  /\ \/ pc = "delPod" /\ "pod" \notin held /\ pc' = "delService"
     \/ pc = "delService" /\ "proxy" \notin held /\ ~undoing /\ pc' = "delSecret"
     \/ pc = "delSecret" /\ "secret" \notin held /\ pc' = "done"
  /\ UNCHANGED <<objects, tries, undoing, podGone, failing, held, left, error, confirmed,
                 snapshot>>

\* Pod.delete keeps the policy until the pod is gone.
DeletePod ==
  /\ \/ /\ pc = "delPod" /\ "pod" \in held
        /\ \/ Remove("pod") /\ pc' = "delPodPolicy" /\ UNCHANGED <<tries, left, error>>
           \/ RemoveFails("pod") /\ Retry("pod", "delPod", "delService")
     \/ /\ pc = "delPodPolicy"
        /\ \/ Remove("podPolicy") /\ Deleted("delService")
           \/ RemoveFails("podPolicy") /\ Retry("pod", "delPod", "delService")
  /\ UNCHANGED <<undoing, podGone, failing, held, confirmed, snapshot>>

\* The objects of the proxy one by one; what fails does not stop the next.
DeleteProxyObjects ==
  /\ \/ /\ pc = "delService" /\ ("proxy" \in held \/ undoing) /\ pc' = "delProxyPod"
        /\ podGone' = FALSE
        /\ \/ Remove("service") /\ failing' = FALSE
           \/ RemoveFails("service") /\ failing' = TRUE
     \/ /\ pc = "delProxyPod" /\ pc' = "delConfig"
        /\ \/ Remove("proxyPod") /\ podGone' = TRUE /\ UNCHANGED failing
           \/ RemoveFails("proxyPod") /\ failing' = TRUE /\ UNCHANGED podGone
     \/ /\ pc = "delConfig" /\ pc' = "delProxyPolicy" /\ UNCHANGED podGone
        /\ \/ Remove("config") /\ UNCHANGED failing
           \/ RemoveFails("config") /\ failing' = TRUE
  /\ UNCHANGED <<tries, undoing, held, left, error, confirmed, snapshot>>

\* Mutant: does not ask whether the proxy's pod is gone.
PolicyCallAlways == Remove("proxyPolicy") \/ RemoveFails("proxyPolicy")

\* The policy is deleted only after the proxy's pod.
PolicyCall ==
  \/ podGone /\ RemoveFails("proxyPolicy")
  \/ ~podGone /\ UNCHANGED objects

\* Mutant: forgets the failures of the objects before the policy.
DeleteProxyForgetful ==
  /\ pc = "delProxyPolicy"
  /\ PolicyCall
  /\ \/ ~undoing /\ Deleted("delSecret") /\ UNCHANGED undoing
     \/ undoing /\ Abort /\ undoing' = FALSE /\ UNCHANGED <<tries, left>>
  /\ podGone' = FALSE /\ failing' = FALSE
  /\ UNCHANGED <<held, confirmed, snapshot>>

\* The end of EgressProxy.delete, and of its local variables.  Within create_egress_proxy its exception,
\* if any, takes the place of the one that is raised anyway.
DeleteProxy ==
  /\ pc = "delProxyPolicy"
  /\ PolicyCall
  /\ \/ ~undoing /\ ~failing /\ "proxyPolicy" \notin objects' /\ Deleted("delSecret")
          /\ UNCHANGED undoing
     \/ ~undoing /\ (failing \/ podGone) /\ Retry("proxy", "delService", "delSecret")
          /\ UNCHANGED undoing
     \/ undoing /\ Abort /\ undoing' = FALSE /\ UNCHANGED <<tries, left>>
  /\ podGone' = FALSE /\ failing' = FALSE
  /\ UNCHANGED <<held, confirmed, snapshot>>

\* Mutant: the Secret's deletion is best effort.
DeleteSecretBestEffort ==
  /\ pc = "delSecret" /\ "secret" \in held
  /\ RemoveFails("secret") /\ Deleted("done")
  /\ UNCHANGED <<undoing, podGone, failing, held, confirmed, snapshot>>

DeleteSecret ==
  /\ pc = "delSecret" /\ "secret" \in held
  /\ \/ Remove("secret") /\ Deleted("done")
     \/ RemoveFails("secret") /\ Retry("secret", "delSecret", "done")
  /\ UNCHANGED <<undoing, podGone, failing, held, confirmed, snapshot>>

-----------------------------------------------------------------------------

Next ==
  \/ CreateSecret \/ Rollback \/ CreateProxy \/ CreatePod \/ Use
  \/ NothingToDelete \/ DeletePod \/ DeleteProxyObjects \/ DeleteProxy \/ DeleteSecret

\* Every call has a timeout.
Spec == Init /\ [][Next]_vars /\ WF_vars(Next)

-----------------------------------------------------------------------------
(* Properties *)

\* As long as the agent's pod exists and the trial has it, the pod's own
\* network policy exists; and the proxy's, as long as both pods do.
Confined ==
  "pod" \in held /\ "pod" \in objects =>
    /\ "podPolicy" \in objects
    /\ "proxyPod" \in objects => "proxyPolicy" \in objects

\* A Secret whose rollback was reported as confirmed does not exist.
RollbackConfirmed == confirmed => "secret" \notin objects

\* An object that outlives the trial is never passed over in silence.
LeakReported == pc = "done" /\ objects # {} => error

\* The trial ends: no chain of failing calls keeps it deleting forever.
Terminates == <>(pc = "done")

\* In terms of whole resources this is what the trial relies on.
Alive == {r \in Resources : Parts[r] \cap objects # {}}
Cluster == INSTANCE TrialResources WITH
             phase <- IF pc \in CreateLabels \/ undoing THEN "creating"
                      ELSE IF pc = "done" THEN "over" ELSE "deleting",
             alive <- Alive
TrialResourcesPromise == Cluster!Spec
===============================================================================
