---------------------------- MODULE TrialPodsProofs ----------------------------
(***************************************************************************)
(* Theorems about the two phases of a trial that use the cluster, for      *)
(* every number of attempts.                                               *)
(*                                                                         *)
(* Of the agent's phase (TrialCluster), which comes first: its types, the  *)
(* confinement of the agent, the reports on the rollback of a Secret and   *)
(* on what is left behind, and the promise of TrialResources.  Of the      *)
(* evaluation (EvalPhase): its types, the confinement of its pods, that no *)
(* submission excuses itself, and the same promise.  Last, both together,  *)
(* the second wherever the first has a workspace to show.                  *)
(***************************************************************************)
EXTENDS MCTrialPods, TLAPS


SecretParts   == {"secret"}
ProxyParts    == {"config", "proxyPod", "service", "proxyPolicy"}
PodParts      == {"podPolicy", "pod"}

\* How far the trial has come at each call.
BeforeProxy   == {"secret", "rollback", "config"}
BeforePod     == BeforeProxy \cup {"proxyPod", "service", "proxyPolicy", "proxyReady",
                                   "podPolicy"}
AfterProxy    == {"podPolicy", "pod", "undoPod", "undoPolicy", "use"}
ProxyDeletion == {"delService", "delProxyPod", "delConfig", "delProxyPolicy"}
AfterPod      == ProxyDeletion \cup {"delSecret", "done"}

\* Nothing of r exists that the trial could not know of.
Known(r, parts) == parts \cap objects # {} => r \in held
\* A resource the trial holds is gone or written down.
Gone(r, parts)  == r \in held /\ parts \cap objects # {} => r \in left

-----------------------------------------------------------------------------
(* The inductive invariant *)

\* Handles come in the order of creation, and an undoing proxy has none.
Handles ==
  /\ pc \in {"secret", "rollback"} => "secret" \notin held
  /\ pc \in CreateLabels \ AfterProxy => "proxy" \notin held
  /\ pc \in CreateLabels \ {"use"} => "pod" \notin held
  /\ pc = "use" => "pod" \in held
  /\ pc = "delPodPolicy" => "pod" \in held
  /\ undoing => pc \in ProxyDeletion /\ "pod" \notin held /\ "proxy" \notin held
  /\ pc \in ProxyDeletion \ {"delService"} /\ ~undoing => "proxy" \in held

\* What exists while the resources are created.
Creation ==
  /\ pc = "secret" => objects = {} /\ ~confirmed
  /\ pc \in BeforeProxy => ProxyParts \cap objects = {}
  /\ pc \in BeforePod => PodParts \cap objects = {}
  /\ undoing => PodParts \cap objects = {}
  /\ pc = "proxyReady" => "proxyPolicy" \in objects
  /\ pc \in CreateLabels \ {"rollback"} \/ undoing => Known("secret", SecretParts)
  /\ pc \in AfterProxy => Known("proxy", ProxyParts)
  /\ pc = "pod" => "podPolicy" \in objects
  /\ pc \in CreateLabels \/ undoing => left = {}

\* Policies and the pods they are for.
Policies ==
  /\ pc = "delPodPolicy" => "pod" \notin objects
  /\ podGone => "proxyPod" \notin objects
  /\ pc \in AfterProxy \/ "pod" \in held =>
       ("proxyPod" \in objects => "proxyPolicy" \in objects)
  /\ "pod" \in held /\ "pod" \in objects => "podPolicy" \in objects

\* What the deletion of the proxy has done up to each of its calls.
ProxyDeleted ==
  /\ pc = "delProxyPod" /\ ~failing => "service" \notin objects
  /\ pc = "delConfig" /\ ~failing => {"service", "proxyPod"} \cap objects = {} /\ podGone
  /\ pc = "delProxyPolicy" /\ ~failing =>
       {"service", "proxyPod", "config"} \cap objects = {} /\ podGone

\* What is over is gone or left, and what is left or unknown is an error.
Deletion ==
  /\ pc \in AfterPod /\ ~undoing => Gone("pod", PodParts)
  /\ pc \in {"delSecret", "done"} => Gone("proxy", ProxyParts)
  /\ pc = "done" => Gone("secret", SecretParts)
  /\ left # {} => error
  /\ pc \notin CreateLabels /\ ~undoing /\ ~error =>
       /\ Known("secret", SecretParts)
       /\ Known("proxy", ProxyParts)
       /\ Known("pod", PodParts)

IInv == TypeOK /\ Handles /\ Creation /\ Policies /\ ProxyDeleted /\ Deletion
          /\ RollbackConfirmed

-----------------------------------------------------------------------------
(* Facts about the constants of the model *)

\* The resources and the objects each consists of.
LEMMA PartsValue ==
  /\ Resources = {"secret", "proxy", "pod"}
  /\ Parts["secret"] = SecretParts
  /\ Parts["proxy"] = ProxyParts
  /\ Parts["pod"] = PodParts
BY DEF Resources, Parts, SecretParts, ProxyParts, PodParts

\* All objects of a trial.
LEMMA ObjectsValue == Objects = SecretParts \cup ProxyParts \cup PodParts
<1>1. ASSUME NEW x PROVE x \in Objects <=> \E r \in Resources : x \in Parts[r]
  BY DEF Objects
<1> QED BY <1>1, PartsValue

\* The order of the manifests.
LEMMA ManifestOrder ==
  /\ DOMAIN NextManifest = {"config", "proxyPod", "service", "proxyPolicy"}
  /\ NextManifest["config"] = "proxyPod"
  /\ NextManifest["proxyPod"] = "service"
  /\ NextManifest["service"] = "proxyPolicy"
  /\ NextManifest["proxyPolicy"] = "proxyReady"
BY DEF NextManifest

\* The sets of labels and objects are used everywhere, by their values.
USE AttemptsAssumption, PartsValue, ObjectsValue
    DEF CreateLabels, DeleteLabels, BeforeProxy, BeforePod, AfterProxy, AfterPod,
        ProxyDeletion, SecretParts, ProxyParts, PodParts

-----------------------------------------------------------------------------
(* Every call preserves the invariant *)

\* The invariant holds before the first call.
LEMMA InitInvariant == Init => IInv
<1> SUFFICES ASSUME Init PROVE IInv
  OBVIOUS
<1>1. TypeOK
  <2>1. tries \in 0 .. Attempts - 1
    BY DEF Init
  <2> QED BY <2>1 DEF Init, TypeOK
<1>2. Handles /\ Creation
  BY DEF Init, Handles, Creation, Known
<1>3. Policies /\ ProxyDeleted
  BY DEF Init, Policies, ProxyDeleted
<1>4. Deletion /\ RollbackConfirmed
  BY DEF Init, Deletion, Known, Gone, RollbackConfirmed
<1> QED BY <1>1, <1>2, <1>3, <1>4 DEF IInv

\* The invariant survives the creation of the Secret.
LEMMA CreateSecretInvariant == IInv /\ CreateSecret => IInv'
<1> SUFFICES ASSUME IInv, CreateSecret PROVE IInv'
  OBVIOUS
<1> USE DEF IInv, CreateSecret, Apply, ApplyFails
<1>1. TypeOK'
  BY DEF TypeOK
<1>2. Handles'
  BY DEF TypeOK, Handles
<1>3. Creation'
  BY DEF TypeOK, Handles, Creation, Known
<1>4. Policies'
  BY DEF TypeOK, Handles, Creation, Policies
<1>5. ProxyDeleted'
  BY DEF TypeOK, Policies, ProxyDeleted
<1>6. Deletion'
  BY DEF TypeOK, Handles, Creation, Policies, ProxyDeleted, Deletion, Known, Gone
<1>7. RollbackConfirmed'
  BY DEF TypeOK, Creation, RollbackConfirmed
<1> QED BY <1>1, <1>2, <1>3, <1>4, <1>5, <1>6, <1>7

\* The invariant survives the rollback of the Secret.
LEMMA RollbackInvariant == IInv /\ Rollback => IInv'
<1> SUFFICES ASSUME IInv, Rollback PROVE IInv'
  OBVIOUS
<1> USE DEF IInv, Rollback, RemoveFails, Abort
<1>1. TypeOK'
  <2>1. tries' \in 0 .. Attempts - 1
    BY DEF TypeOK
  <2>2. objects' \subseteq Objects
    BY DEF TypeOK
  <2> QED BY <2>1, <2>2 DEF TypeOK
<1>2. Handles'
  BY DEF TypeOK, Handles
<1>3. Creation'
  BY DEF TypeOK, Handles, Creation, Known
<1>4. Policies'
  BY DEF TypeOK, Handles, Creation, Policies
<1>5. ProxyDeleted'
  BY DEF TypeOK, Policies, ProxyDeleted
<1>6. Deletion'
  BY DEF TypeOK, Handles, Creation, Policies, ProxyDeleted, Deletion, Known, Gone
<1>7. RollbackConfirmed'
  BY DEF TypeOK, Creation, RollbackConfirmed
<1> QED BY <1>1, <1>2, <1>3, <1>4, <1>5, <1>6, <1>7

\* The invariant survives the creation of the proxy.
LEMMA CreateProxyInvariant == IInv /\ CreateProxy => IInv'
<1> SUFFICES ASSUME IInv, CreateProxy PROVE IInv'
  OBVIOUS
<1> USE ManifestOrder DEF IInv, CreateProxy, Apply, ApplyFails
<1>1. TypeOK'
  BY DEF TypeOK
<1>2. Handles'
  BY DEF TypeOK, Handles
<1>3. Creation'
  BY DEF TypeOK, Handles, Creation, Known
<1>4. Policies'
  BY DEF TypeOK, Handles, Creation, Policies
<1>5. ProxyDeleted'
  BY DEF TypeOK, Policies, ProxyDeleted
<1>6. Deletion'
  BY DEF TypeOK, Handles, Creation, Policies, ProxyDeleted, Deletion, Known, Gone
<1>7. RollbackConfirmed'
  BY DEF TypeOK, Creation, RollbackConfirmed
<1> QED BY <1>1, <1>2, <1>3, <1>4, <1>5, <1>6, <1>7

\* The invariant survives the creation of the sandbox pod.
LEMMA CreatePodInvariant == IInv /\ CreatePod => IInv'
<1> SUFFICES ASSUME IInv, CreatePod PROVE IInv'
  OBVIOUS
<1> USE DEF IInv, CreatePod, Apply, ApplyFails, RemoveFails, Abort
<1>1. TypeOK'
  BY DEF TypeOK
<1>2. Handles'
  BY DEF TypeOK, Handles
<1>3. Creation'
  BY DEF TypeOK, Handles, Creation, Known
<1>4. Policies'
  BY DEF TypeOK, Handles, Creation, Policies
<1>5. ProxyDeleted'
  BY DEF TypeOK, Policies, ProxyDeleted
<1>6. Deletion'
  BY DEF TypeOK, Handles, Creation, Policies, ProxyDeleted, Deletion, Known, Gone
<1>7. RollbackConfirmed'
  BY DEF TypeOK, Creation, RollbackConfirmed
<1> QED BY <1>1, <1>2, <1>3, <1>4, <1>5, <1>6, <1>7

\* The invariant survives the use of the pod.
LEMMA UseInvariant == IInv /\ Use => IInv'
<1> SUFFICES ASSUME IInv, Use PROVE IInv'
  OBVIOUS
<1> USE DEF IInv, Use
<1>1. TypeOK'
  BY DEF TypeOK
<1>2. Handles'
  BY DEF TypeOK, Handles
<1>3. Creation'
  BY DEF TypeOK, Handles, Creation, Known
<1>4. Policies'
  BY DEF TypeOK, Handles, Creation, Policies
<1>5. ProxyDeleted'
  BY DEF TypeOK, Policies, ProxyDeleted
<1>6. Deletion'
  BY DEF TypeOK, Handles, Creation, Policies, ProxyDeleted, Deletion, Known, Gone
<1>7. RollbackConfirmed'
  BY DEF TypeOK, Creation, RollbackConfirmed
<1> QED BY <1>1, <1>2, <1>3, <1>4, <1>5, <1>6, <1>7

\* The invariant survives the absence of a handle.
LEMMA NothingToDeleteInvariant == IInv /\ NothingToDelete => IInv'
<1> SUFFICES ASSUME IInv, NothingToDelete PROVE IInv'
  OBVIOUS
<1> USE DEF IInv, NothingToDelete
<1>1. TypeOK'
  BY DEF TypeOK
<1>2. Handles'
  BY DEF TypeOK, Handles
<1>3. Creation'
  BY DEF TypeOK, Handles, Creation, Known
<1>4. Policies'
  BY DEF TypeOK, Handles, Creation, Policies
<1>5. ProxyDeleted'
  BY DEF TypeOK, Policies, ProxyDeleted
<1>6. Deletion'
  BY DEF TypeOK, Handles, Creation, Policies, ProxyDeleted, Deletion, Known, Gone
<1>7. RollbackConfirmed'
  BY DEF TypeOK, Creation, RollbackConfirmed
<1> QED BY <1>1, <1>2, <1>3, <1>4, <1>5, <1>6, <1>7

\* The invariant survives the deletion of the pod.
LEMMA DeletePodInvariant == IInv /\ DeletePod => IInv'
<1> SUFFICES ASSUME IInv, DeletePod PROVE IInv'
  OBVIOUS
<1> USE DEF IInv, DeletePod, Remove, RemoveFails, Retry, Deleted
<1>1. TypeOK'
  <2>1. tries' \in 0 .. Attempts - 1
    BY DEF TypeOK
  <2>2. objects' \subseteq Objects
    BY DEF TypeOK
  <2> QED BY <2>1, <2>2 DEF TypeOK
<1>2. Handles'
  BY DEF TypeOK, Handles
<1>3. Creation'
  BY DEF TypeOK, Handles, Creation, Known
<1>4. Policies'
  BY DEF TypeOK, Handles, Creation, Policies
<1>5. ProxyDeleted'
  BY DEF TypeOK, Policies, ProxyDeleted
<1>6. Deletion'
  BY DEF TypeOK, Handles, Creation, Policies, ProxyDeleted, Deletion, Known, Gone
<1>7. RollbackConfirmed'
  BY DEF TypeOK, Creation, RollbackConfirmed
<1> QED BY <1>1, <1>2, <1>3, <1>4, <1>5, <1>6, <1>7

\* The invariant survives the deletion of the proxy, object by object.
LEMMA DeleteProxyObjectsInvariant == IInv /\ DeleteProxyObjects => IInv'
<1> SUFFICES ASSUME IInv, DeleteProxyObjects PROVE IInv'
  OBVIOUS
<1> USE DEF IInv, DeleteProxyObjects, Remove, RemoveFails
<1>1. TypeOK'
  BY DEF TypeOK
<1>2. Handles'
  BY DEF TypeOK, Handles
<1>3. Creation'
  BY DEF TypeOK, Handles, Creation, Known
<1>4. Policies'
  BY DEF TypeOK, Handles, Creation, Policies
<1>5. ProxyDeleted'
  BY DEF TypeOK, Policies, ProxyDeleted
<1>6. Deletion'
  BY DEF TypeOK, Handles, Creation, Policies, ProxyDeleted, Deletion, Known, Gone
<1>7. RollbackConfirmed'
  BY DEF TypeOK, Creation, RollbackConfirmed
<1> QED BY <1>1, <1>2, <1>3, <1>4, <1>5, <1>6, <1>7

\* The invariant survives the end of the deletion of the proxy.
LEMMA DeleteProxyInvariant == IInv /\ DeleteProxy => IInv'
<1> SUFFICES ASSUME IInv, DeleteProxy PROVE IInv'
  OBVIOUS
<1> USE DEF IInv, DeleteProxy, PolicyCall, RemoveFails, Retry, Deleted, Abort
<1>1. TypeOK'
  <2>1. tries' \in 0 .. Attempts - 1
    BY DEF TypeOK
  <2>2. objects' \subseteq Objects
    BY DEF TypeOK
  <2> QED BY <2>1, <2>2 DEF TypeOK
<1>2. Handles'
  BY DEF TypeOK, Handles
<1>3. Creation'
  BY DEF TypeOK, Handles, Creation, Known
<1>4. Policies'
  BY DEF TypeOK, Handles, Creation, Policies
<1>5. ProxyDeleted'
  BY DEF TypeOK, Policies, ProxyDeleted
<1>6. Deletion'
  BY DEF TypeOK, Handles, Creation, Policies, ProxyDeleted, Deletion, Known, Gone
<1>7. RollbackConfirmed'
  BY DEF TypeOK, Creation, RollbackConfirmed
<1> QED BY <1>1, <1>2, <1>3, <1>4, <1>5, <1>6, <1>7

\* The invariant survives the deletion of the Secret.
LEMMA DeleteSecretInvariant == IInv /\ DeleteSecret => IInv'
<1> SUFFICES ASSUME IInv, DeleteSecret PROVE IInv'
  OBVIOUS
<1> USE DEF IInv, DeleteSecret, Remove, RemoveFails, Retry, Deleted
<1>1. TypeOK'
  <2>1. tries' \in 0 .. Attempts - 1
    BY DEF TypeOK
  <2>2. objects' \subseteq Objects
    BY DEF TypeOK
  <2> QED BY <2>1, <2>2 DEF TypeOK
<1>2. Handles'
  BY DEF TypeOK, Handles
<1>3. Creation'
  BY DEF TypeOK, Handles, Creation, Known
<1>4. Policies'
  BY DEF TypeOK, Handles, Creation, Policies
<1>5. ProxyDeleted'
  BY DEF TypeOK, Policies, ProxyDeleted
<1>6. Deletion'
  BY DEF TypeOK, Handles, Creation, Policies, ProxyDeleted, Deletion, Known, Gone
<1>7. RollbackConfirmed'
  BY DEF TypeOK, Creation, RollbackConfirmed
<1> QED BY <1>1, <1>2, <1>3, <1>4, <1>5, <1>6, <1>7

\* No call breaks the invariant.
LEMMA NextInvariant == IInv /\ [Next]_vars => IInv'
<1> SUFFICES ASSUME IInv, [Next]_vars PROVE IInv'
  OBVIOUS
<1>1. CASE UNCHANGED vars
  BY <1>1 DEF vars, IInv, TypeOK, Handles, Creation, Policies, ProxyDeleted, Deletion,
              Known, Gone, RollbackConfirmed
<1>2. CASE Next
  BY <1>2, CreateSecretInvariant, RollbackInvariant, CreateProxyInvariant,
     CreatePodInvariant, UseInvariant, NothingToDeleteInvariant, DeletePodInvariant,
     DeleteProxyObjectsInvariant, DeleteProxyInvariant, DeleteSecretInvariant DEF Next
<1> QED BY <1>1, <1>2

-----------------------------------------------------------------------------
(* Theorems *)

\* The inductive invariant holds in every state.
THEOREM Invariance == Spec => []IInv
BY InitInvariant, NextInvariant, PTL DEF Spec

\* TypeOK: every variable of the trial's calls keeps its type; a deletion never
\* counts more than its attempts.
THEOREM TypeCorrect == Spec => []TypeOK
<1>1. IInv => TypeOK
  BY DEF IInv
<1> QED BY <1>1, Invariance, PTL

\* The policies are there as long as the pods are.
LEMMA PoliciesConfine == IInv => Confined
BY DEF IInv, Policies, Confined

\* What is left is written down, and what is written down is an error.
LEMMA LeftIsReported == IInv => LeakReported
<1> SUFFICES ASSUME IInv, pc = "done", objects # {} PROVE error
  BY DEF LeakReported
<1>1. objects \subseteq SecretParts \cup ProxyParts \cup PodParts
  BY DEF IInv, TypeOK
<1>2. SUFFICES ASSUME ~error PROVE FALSE
  OBVIOUS
<1>3. SecretParts \cap objects = {} /\ ProxyParts \cap objects = {} /\ PodParts \cap objects = {}
  BY <1>2 DEF IInv, Handles, Deletion, Known, Gone
<1> QED BY <1>1, <1>3

\* Confined: however its creation and its deletion fail, a pod the trial holds
\* never exists without its policy, nor together with an unconfined proxy.
THEOREM ConfinedAlways == Spec => []Confined
BY PoliciesConfine, Invariance, PTL

\* RollbackConfirmed: create_trial_secret says so only when the Secret is gone,
\* and no later call brings it back.
THEOREM RollbackConfirmedAlways == Spec => []RollbackConfirmed
<1>1. IInv => RollbackConfirmed
  BY DEF IInv
<1> QED BY <1>1, Invariance, PTL

\* LeakReported: a trial that ends without an infrastructure error has left
\* nothing in the cluster.
THEOREM LeakReportedAlways == Spec => []LeakReported
BY LeftIsReported, Invariance, PTL

-----------------------------------------------------------------------------
(* TrialCluster implements TrialResources *)

\* What a call does to an object tells what it does to its resource.
LEMMA AliveGrows ==
  ASSUME NEW r \in Resources, NEW o \in Parts[r], objects' = objects \cup {o}
  PROVE  Alive' = Alive \cup {r}
<1>1. \A q \in Resources : o \in Parts[q] => q = r
  OBVIOUS
<1>2. \A q \in Resources : Parts[q] \cap objects' # {} <=> Parts[q] \cap objects # {} \/ q = r
  BY <1>1
<1> QED BY <1>2 DEF Alive

\* Removing one object of a resource may end that resource and no other.
LEMMA AliveShrinks ==
  ASSUME NEW r \in Resources, NEW o \in Parts[r], objects' = objects \ {o}
  PROVE  Alive' = Alive \/ Alive' = Alive \ {r}
<1>1. \A q \in Resources : o \in Parts[q] => q = r
  OBVIOUS
<1>2. \A q \in Resources : q # r => (Parts[q] \cap objects' # {} <=> Parts[q] \cap objects # {})
  BY <1>1
<1>3. Parts[r] \cap objects' # {} => Parts[r] \cap objects # {}
  OBVIOUS
<1> QED BY <1>2, <1>3 DEF Alive

\* Which resources are alive depends on the objects only.
LEMMA AliveSame == objects' = objects => Alive' = Alive
BY DEF Alive

Phase == IF pc \in CreateLabels \/ undoing THEN "creating"
         ELSE IF pc = "done" THEN "over" ELSE "deleting"

\* A call that concerns one object of a resource without a handle.
LEMMA AttemptMaps ==
  ASSUME NEW r \in Resources, NEW o \in Parts[r], r \notin held, UNCHANGED <<held, left>>,
         Phase = "creating", Phase' \in {"creating", "deleting"},
         ApplyFails(o) \/ RemoveFails(o)
  PROVE  Cluster!Next
<1>1. Alive' \in {Alive, Alive \cup {r}, Alive \ {r}}
  BY AliveGrows, AliveShrinks, AliveSame DEF ApplyFails, RemoveFails
<1>2. Alive' \in {Alive \cup {r}, Alive \ {r}}
  BY <1>1
<1>3. Cluster!Attempt(r)
  BY <1>2 DEF Phase, Cluster!Attempt
<1> QED BY <1>3 DEF Cluster!Next

\* A call that deletes one object of a resource with a handle.
LEMMA DeleteMaps ==
  ASSUME NEW r \in Resources, NEW o \in Parts[r], r \in held, held' = held,
         left' \in {left, left \cup {r}}, RemoveFails(o), Phase = "deleting",
         Phase' = "deleting" \/ (Phase' = "over" /\ Alive' \cap held \subseteq left')
  PROVE  Cluster!Next
<1>1. Alive' \in {Alive, Alive \ {r}}
  BY AliveShrinks, AliveSame DEF RemoveFails
<1>2. Cluster!Delete(r)
  BY <1>1 DEF Phase, Cluster!Delete
<1> QED BY <1>2 DEF Cluster!Next

\* What is over is gone or left, resource by resource.
LEMMA OverIsGone ==
  ASSUME IInv', pc' = "done" PROVE Alive' \cap held' \subseteq left'
<1>1. SUFFICES ASSUME NEW r \in Alive' \cap held' PROVE r \in left'
  OBVIOUS
<1>2. r \in Resources /\ Parts[r] \cap objects' # {}
  BY DEF Alive
<1>3. ~undoing'
  BY DEF IInv, Handles
<1> QED BY <1>2, <1>3 DEF IInv, Deletion, Gone

\* Creating the secret is a creation, a failed attempt, or a stutter.
LEMMA CreateSecretMaps ==
  ASSUME IInv, CreateSecret PROVE [Cluster!Next]_(Cluster!vars)
<1>1. Phase = "creating" /\ Phase' = "creating" /\ "secret" \notin held /\ left' = left
  BY DEF CreateSecret, Phase, IInv, Handles
<1>2. CASE UNCHANGED <<objects, held>>
  BY <1>1, <1>2, AliveSame DEF Phase, Cluster!vars
<1>3. CASE Apply("secret") /\ held' = held \cup {"secret"}
  <2>1. Alive' = Alive \cup {"secret"}
    BY <1>3, AliveGrows DEF Apply
  <2>2. Cluster!Create("secret")
    BY <1>1, <1>3, <2>1 DEF Phase, Cluster!Create
  <2> QED BY <2>2 DEF Cluster!Next
<1>4. CASE ApplyFails("secret") /\ held' = held
  BY <1>1, <1>4, AttemptMaps
<1> QED BY <1>2, <1>3, <1>4 DEF CreateSecret

\* Rolling the secret back is an attempt at a resource nobody has a handle of.
LEMMA RollbackMaps ==
  ASSUME IInv, Rollback PROVE Cluster!Next
<1>1. Phase = "creating" /\ Phase' \in {"creating", "deleting"} /\ "secret" \notin held
  BY DEF Rollback, Abort, Phase, IInv, Handles
<1>2. RemoveFails("secret") /\ UNCHANGED <<held, left>>
  BY DEF Rollback
<1> QED BY <1>1, <1>2, AttemptMaps

\* The proxy is created when its last object is ready.
LEMMA CreateProxyMaps ==
  ASSUME IInv, CreateProxy PROVE [Cluster!Next]_(Cluster!vars)
<1>1. /\ Phase = "creating" /\ Phase' = "creating" /\ "proxy" \notin held
      /\ ~undoing /\ left' = left
  BY ManifestOrder DEF CreateProxy, Phase, IInv, Handles
<1>2. CASE UNCHANGED <<objects, held>>
  BY <1>1, <1>2, AliveSame DEF Phase, Cluster!vars
<1>3. CASE pc \in DOMAIN NextManifest /\ held' = held /\ (Apply(pc) \/ ApplyFails(pc))
  <2>1. pc \in Parts["proxy"] /\ ApplyFails(pc)
    BY <1>3, ManifestOrder DEF Apply, ApplyFails
  <2> QED BY <1>1, <1>3, <2>1, AttemptMaps
<1>4. CASE pc = "proxyReady" /\ objects' = objects /\ held' = held \cup {"proxy"}
  <2>1. Alive' = Alive
    BY <1>4, AliveSame
  <2>2. "proxy" \in Alive
    BY <1>4 DEF IInv, Creation, Alive
  <2>3. Cluster!Create("proxy")
    BY <1>1, <1>4, <2>1, <2>2 DEF Phase, Cluster!Create
  <2> QED BY <2>3 DEF Cluster!Next
<1> QED BY <1>2, <1>3, <1>4 DEF CreateProxy

\* The pod is created when its handle is returned.
LEMMA CreatePodMaps ==
  ASSUME IInv, CreatePod PROVE Cluster!Next
<1>1. Phase = "creating" /\ Phase' \in {"creating", "deleting"} /\ "pod" \notin held
  BY DEF CreatePod, Abort, Phase, IInv, Handles
<1>2. left' = left
  BY DEF CreatePod
<1>3. CASE pc = "pod" /\ pc' = "use" /\ Apply("pod") /\ held' = held \cup {"pod"}
  <2>1. Alive' = Alive \cup {"pod"}
    BY <1>3, AliveGrows DEF Apply
  <2>2. Cluster!Create("pod")
    BY <1>1, <1>2, <1>3, <2>1 DEF Phase, Cluster!Create
  <2> QED BY <2>2 DEF Cluster!Next
<1>4. CASE held' = held /\ \E o \in PodParts : ApplyFails(o) \/ RemoveFails(o)
  BY <1>1, <1>2, <1>4, AttemptMaps
<1>5. \A o : Apply(o) => ApplyFails(o)
  BY DEF Apply, ApplyFails
<1> QED BY <1>3, <1>4, <1>5 DEF CreatePod

\* Using the pod ends the creation of resources.
LEMMA UseMaps ==
  ASSUME IInv, Use PROVE Cluster!Next
<1>1. Alive' = Alive
  BY AliveSame DEF Use
<1>2. Cluster!Move
  BY <1>1 DEF Use, IInv, Handles, Cluster!Move
<1> QED BY <1>2 DEF Cluster!Next

\* Without a handle there is nothing to delete.
LEMMA NothingToDeleteMaps ==
  ASSUME IInv, IInv', NothingToDelete PROVE [Cluster!Next]_(Cluster!vars)
<1>1. Alive' = Alive /\ held' = held /\ left' = left
  BY AliveSame DEF NothingToDelete
<1>2. CASE pc' # "done"
  <2>1. Phase' = Phase
    BY <1>2 DEF NothingToDelete, Phase
  <2> QED BY <1>1, <2>1 DEF Phase, Cluster!vars
<1>3. CASE pc' = "done"
  <2>1. Alive' \cap held' \subseteq left'
    BY <1>3, OverIsGone
  <2>2. Cluster!Move
    BY <1>1, <1>3, <2>1 DEF NothingToDelete, IInv, Handles, Cluster!Move
  <2> QED BY <2>2 DEF Cluster!Next
<1> QED BY <1>2, <1>3

\* A try to delete the pod or its policy is a deletion.
LEMMA DeletePodMaps ==
  ASSUME IInv, DeletePod PROVE Cluster!Next
<1>1. "pod" \in held /\ held' = held /\ left' \in {left, left \cup {"pod"}}
  BY DEF DeletePod, Retry, Deleted, IInv, Handles
<1>2. Phase = "deleting" /\ Phase' = "deleting"
  BY DEF DeletePod, Retry, Deleted, Phase, IInv, Handles
<1>3. RemoveFails("pod") \/ RemoveFails("podPolicy")
  BY DEF DeletePod, Remove, RemoveFails
<1> QED BY <1>1, <1>2, <1>3, DeleteMaps

\* A try to delete an object of the proxy is an attempt or a deletion.
LEMMA DeleteProxyObjectsMaps ==
  ASSUME IInv, DeleteProxyObjects PROVE Cluster!Next
<1>1. UNCHANGED <<held, left, undoing>>
  BY DEF DeleteProxyObjects
<1>2. \E o \in ProxyParts : RemoveFails(o)
  BY DEF DeleteProxyObjects, Remove, RemoveFails
<1>3. CASE undoing
  <2>1. Phase = "creating" /\ Phase' = "creating" /\ "proxy" \notin held
    BY <1>1, <1>3 DEF Phase, IInv, Handles
  <2> QED BY <1>1, <1>2, <2>1, AttemptMaps
<1>4. CASE ~undoing
  <2>1. Phase = "deleting" /\ Phase' = "deleting" /\ "proxy" \in held
    BY <1>1, <1>4 DEF DeleteProxyObjects, Phase, IInv, Handles
  <2> QED BY <1>1, <1>2, <2>1, DeleteMaps
<1> QED BY <1>3, <1>4

\* So is the last one, which gives the proxy up or tries again.
LEMMA DeleteProxyMaps ==
  ASSUME IInv, DeleteProxy PROVE [Cluster!Next]_(Cluster!vars)
<1>1. RemoveFails("proxyPolicy") /\ held' = held
  BY DEF DeleteProxy, PolicyCall, RemoveFails
<1>2. CASE undoing
  <2>1. Phase = "creating" /\ Phase' = "deleting" /\ "proxy" \notin held /\ left' = left
    BY <1>2 DEF DeleteProxy, Abort, Phase, IInv, Handles
  <2> QED BY <1>1, <2>1, AttemptMaps
<1>3. CASE ~undoing
  <2>1. Phase = "deleting" /\ Phase' = "deleting" /\ "proxy" \in held
    BY <1>3 DEF DeleteProxy, Retry, Deleted, Phase, IInv, Handles
  <2>2. left' \in {left, left \cup {"proxy"}}
    BY <1>3 DEF DeleteProxy, Retry, Deleted
  <2> QED BY <1>1, <2>1, <2>2, DeleteMaps
<1> QED BY <1>2, <1>3

\* A try to delete the secret is a deletion, the last one of the session.
LEMMA DeleteSecretMaps ==
  ASSUME IInv, IInv', DeleteSecret PROVE Cluster!Next
<1>1. "secret" \in held /\ held' = held /\ left' \in {left, left \cup {"secret"}}
  BY DEF DeleteSecret, Retry, Deleted
<1>2. Phase = "deleting" /\ RemoveFails("secret")
  BY DEF DeleteSecret, Remove, RemoveFails, Phase, IInv, Handles
<1>3. CASE pc' = "delSecret"
  <2>1. Phase' = "deleting"
    BY <1>3 DEF Phase, IInv, Handles
  <2> QED BY <1>1, <1>2, <2>1, DeleteMaps
<1>4. CASE pc' = "done"
  <2>1. Phase' = "over"
    BY <1>4 DEF Phase, IInv, Handles
  <2>2. Alive' \cap held' \subseteq left'
    BY <1>4, OverIsGone
  <2> QED BY <1>1, <1>2, <2>1, <2>2, DeleteMaps
<1> QED BY <1>3, <1>4 DEF DeleteSecret, Retry, Deleted

\* The first call finds nothing in the cluster.
LEMMA InitMaps == Init => Cluster!Init
BY DEF Init, Cluster!Init, Alive

\* Every call is a step of TrialResources, or none.
LEMMA NextMaps == IInv /\ IInv' /\ [Next]_vars => [Cluster!Next]_(Cluster!vars)
<1> SUFFICES ASSUME IInv, IInv', [Next]_vars PROVE [Cluster!Next]_(Cluster!vars)
  OBVIOUS
<1>1. CASE UNCHANGED vars
  BY <1>1, AliveSame DEF vars, Cluster!vars
<1>2. CASE Next
  BY <1>2, CreateSecretMaps, RollbackMaps, CreateProxyMaps, CreatePodMaps, UseMaps,
     NothingToDeleteMaps, DeletePodMaps, DeleteProxyObjectsMaps, DeleteProxyMaps,
     DeleteSecretMaps DEF Next
<1> QED BY <1>1, <1>2

\* TrialResourcesPromise: seen as whole resources, the calls on the single
\* objects do what TrialResources allows, whichever of them fail.
THEOREM Refinement == Spec => TrialResourcesPromise
BY InitMaps, NextMaps, Invariance, PTL DEF Spec, TrialResourcesPromise, Cluster!Spec

-----------------------------------------------------------------------------
(* The evaluation, which has names of its own for all of this *)

HIDE DEF CreateLabels, DeleteLabels, BeforeProxy, BeforePod, AfterProxy, AfterPod,
         ProxyDeletion, SecretParts, ProxyParts, PodParts

\* The evaluation up to its handle for the evaluator's pod, behind the link, and
\* the calls that an isolated evaluation alone makes.
Submitted == {"subReady", "subReset", "subCopy", "evalPolicy", "evaluator"}
Running   == {"probe", "reset", "files", "tests", "quiesce", "results", "report"}
Linked    == {"address", "start"} \cup Running
Isolated  == {"subPolicy", "submission", "subReady", "subReset", "subCopy", "egress",
              "ingress", "undoEgress", "undoIngress", "address", "start", "probe",
              "delIngress", "delSubPolicy"}

\* A resource the evaluation holds is gone or written down.
EvalGone(r) == r \in evalHeld /\ Eval!Parts[r] \cap evalObjects # {} => r \in evalLeft

-----------------------------------------------------------------------------
(* The inductive invariant of the evaluation *)

\* Handles come in the order of creation; a cooperative evaluation has one.
EvalHandles ==
  /\ evalPc \in {"check", "namespace", "subPolicy", "submission"} => evalHeld = {}
  /\ mode = "cooperative" =>
       evalHeld \subseteq {"evaluator"} /\ ~started /\ evalPc \notin Isolated
  /\ mode = "isolated" /\ evalPc \in Submitted => "submission" \in evalHeld
  /\ evalPc \in Submitted \cup {"undoPod", "undoPolicy"} => "evaluator" \notin evalHeld
  /\ evalPc \in Eval!SetupLabels \ Linked => "link" \notin evalHeld
  /\ evalPc = "delEvalPolicy" => "evaluator" \in evalHeld
  /\ evalPc = "delIngress" => "link" \in evalHeld
  /\ evalPc = "delSubPolicy" => "submission" \in evalHeld

\* What exists while the evaluation is set up and works.
EvalCreation ==
  /\ evalPc = "check" => evalObjects = {}
  /\ evalPc = "submission" => "subPolicy" \in evalObjects
  /\ evalPc = "evaluator" => "evalPolicy" \in evalObjects
  /\ evalPc = "ingress" => "egress" \in evalObjects
  /\ evalPc \in {"address", "start"} => {"egress", "ingress"} \subseteq evalObjects
  /\ started /\ evalPc \in Eval!SetupLabels =>
       evalPc \in Running /\ {"egress", "ingress"} \subseteq evalObjects

\* Policies and the pods they are for.
EvalPolicies ==
  /\ "submission" \in evalHeld \cap evalObjects => "subPolicy" \in evalObjects
  /\ "evaluator" \in evalHeld \cap evalObjects => "evalPolicy" \in evalObjects
  /\ evalPc = "delEvalPolicy" => "evaluator" \notin evalObjects
  /\ evalPc = "delSubPolicy" => "submission" \notin evalObjects

\* What the cleanup is done with is gone or left.
EvalDeletion ==
  /\ evalPc = "delIngress" /\ ~evalFailing => "egress" \notin evalObjects
  /\ evalPc \in {"delEgress", "delIngress", "delSubmission", "delSubPolicy", "done"} =>
       EvalGone("evaluator")
  /\ evalPc \in {"delSubmission", "delSubPolicy", "done"} => EvalGone("link")
  /\ evalPc = "done" => EvalGone("submission")

\* Only a fault of cluster, host or evaluator excuses an isolated submission.
Excused ==
  /\ "evaluator" \in sick => fault
  /\ mode = "isolated" /\ infra => fault
  /\ evalPc \in Eval!CleanLabels \cup Eval!Over /\ result = "none" => fault

EInv == /\ Eval!TypeOK /\ EvalHandles /\ EvalCreation /\ EvalPolicies /\ EvalDeletion
        /\ Excused

-----------------------------------------------------------------------------
(* Facts about the constants of the model *)

\* The resources of an evaluation and the objects each consists of.
LEMMA EvalPartsValue ==
  /\ Eval!Resources = {"submission", "evaluator", "link"}
  /\ Eval!Parts["submission"] = {"subPolicy", "submission"}
  /\ Eval!Parts["evaluator"] = {"evalPolicy", "evaluator"}
  /\ Eval!Parts["link"] = {"egress", "ingress"}
BY DEF Eval!Resources, Eval!Parts

\* All objects of an evaluation.
LEMMA EvalObjectsValue ==
  Eval!Objects = {"subPolicy", "submission", "evalPolicy", "evaluator", "egress", "ingress"}
<1>1. ASSUME NEW x
      PROVE  x \in Eval!Objects <=> \E r \in Eval!Resources : x \in Eval!Parts[r]
  BY DEF Eval!Objects
<1> QED BY <1>1, EvalPartsValue

\* The calls before the cleanup.
LEMMA EvalOrder ==
  /\ DOMAIN Eval!After = {"namespace", "subPolicy", "submission", "subReady", "subReset",
                          "subCopy", "evalPolicy", "evaluator", "evalReady", "egress",
                          "ingress", "address", "start", "probe", "reset", "files",
                          "tests", "quiesce"}
  /\ Eval!After["namespace"] = "subPolicy" /\ Eval!After["subPolicy"] = "submission"
  /\ Eval!After["submission"] = "subReady" /\ Eval!After["subReady"] = "subReset"
  /\ Eval!After["subReset"] = "subCopy" /\ Eval!After["subCopy"] = "evalPolicy"
  /\ Eval!After["evalPolicy"] = "evaluator" /\ Eval!After["evaluator"] = "evalReady"
  /\ Eval!After["evalReady"] = "egress" /\ Eval!After["ingress"] = "address"
  /\ Eval!After["address"] = "start" /\ Eval!After["reset"] = "files"
  /\ Eval!After["files"] = "tests"
BY DEF Eval!After

\* The sets of labels and objects are used everywhere, by their values.
USE EvalPartsValue, EvalObjectsValue, EvalOrder
    DEF Eval!SetupLabels, Eval!UndoLabels, Eval!CleanLabels, Eval!Over, Eval!Pods,
        Submitted, Running, Linked, Isolated

-----------------------------------------------------------------------------
(* Every call of the evaluation preserves its invariant *)

\* The invariant holds before the first call.
LEMMA EvalInitInvariant == Eval!Init => EInv
<1> SUFFICES ASSUME Eval!Init PROVE EInv
  OBVIOUS
<1>1. Eval!TypeOK
  <2>1. evalTries \in 0 .. Attempts - 1
    BY AttemptsAssumption DEF Eval!Init
  <2> QED BY <2>1 DEF Eval!Init, Eval!TypeOK, Eval!Verdicts
<1>2. EvalHandles /\ EvalCreation
  BY DEF Eval!Init, EvalHandles, EvalCreation
<1>3. EvalPolicies /\ EvalDeletion /\ Excused
  BY DEF Eval!Init, EvalPolicies, EvalDeletion, EvalGone, Excused
<1> QED BY <1>1, <1>2, <1>3 DEF EInv

\* The invariant survives the check of the workspace.
LEMMA EvalCheckInvariant == EInv /\ Eval!Check => EInv'
<1> SUFFICES ASSUME EInv, Eval!Check PROVE EInv'
  OBVIOUS
<1> USE DEF EInv, Eval!Check, Eval!Goto
<1>1. Eval!TypeOK'
  BY DEF Eval!TypeOK, Eval!Verdicts
<1>2. EvalHandles'
  BY DEF Eval!TypeOK, EvalHandles
<1>3. EvalCreation'
  BY DEF Eval!TypeOK, EvalHandles, EvalCreation
<1>4. EvalPolicies'
  BY DEF Eval!TypeOK, EvalHandles, EvalCreation, EvalPolicies
<1>5. EvalDeletion'
  BY DEF Eval!TypeOK, EvalHandles, EvalCreation, EvalPolicies, EvalDeletion, EvalGone
<1>6. Excused'
  BY DEF Eval!TypeOK, EvalHandles, EvalCreation, Excused
<1> QED BY <1>1, <1>2, <1>3, <1>4, <1>5, <1>6

\* The invariant survives a wait, a reset, or the address.
LEMMA EvalPrepareInvariant == EInv /\ Eval!Prepare => EInv'
<1> SUFFICES ASSUME EInv, Eval!Prepare PROVE EInv'
  OBVIOUS
<1> USE DEF EInv, Eval!Prepare, Eval!Goto, Eval!End, Eval!Infra, Eval!Then
<1>1. Eval!TypeOK'
  <2>1. evalPc' \in Eval!SetupLabels \cup Eval!CleanLabels
    BY DEF Eval!TypeOK
  <2> QED BY <2>1 DEF Eval!TypeOK, Eval!Verdicts
<1>2. EvalHandles'
  BY DEF Eval!TypeOK, EvalHandles
<1>3. EvalCreation'
  BY DEF Eval!TypeOK, EvalHandles, EvalCreation
<1>4. EvalPolicies'
  BY DEF Eval!TypeOK, EvalHandles, EvalCreation, EvalPolicies
<1>5. EvalDeletion'
  BY DEF Eval!TypeOK, EvalHandles, EvalCreation, EvalPolicies, EvalDeletion, EvalGone
<1>6. Excused'
  BY DEF Eval!TypeOK, EvalHandles, EvalCreation, Excused
<1> QED BY <1>1, <1>2, <1>3, <1>4, <1>5, <1>6

\* The invariant survives copying into a pod.
LEMMA EvalCopyToInvariant == EInv /\ Eval!CopyTo => EInv'
<1> SUFFICES ASSUME EInv, Eval!CopyTo PROVE EInv'
  OBVIOUS
<1> USE DEF EInv, Eval!CopyTo, Eval!Goto, Eval!End, Eval!Infra, Eval!Unsafe, Eval!Then
<1>1. Eval!TypeOK'
  BY ONLY EInv, Eval!CopyTo, EvalOrder DEF Eval!TypeOK, Eval!Verdicts
<1>2. EvalHandles'
  BY DEF Eval!TypeOK, EvalHandles
<1>3. EvalCreation'
  BY DEF Eval!TypeOK, EvalHandles, EvalCreation
<1>4. EvalPolicies'
  BY DEF Eval!TypeOK, EvalHandles, EvalCreation, EvalPolicies
<1>5. EvalDeletion'
  BY DEF Eval!TypeOK, EvalHandles, EvalCreation, EvalPolicies, EvalDeletion, EvalGone
<1>6. Excused'
  <2>1. CASE evalPc' # "delEvaluator" /\ UNCHANGED <<result, infra, fault>>
    BY <2>1 DEF Excused
  <2>2. CASE evalPc' = "delEvaluator" /\ result' = "tests" /\ fault' = TRUE
    BY <2>2 DEF Excused
  <2>3. CASE /\ evalPc' = "delEvaluator" /\ result' = "integrity" /\ infra' = FALSE
             /\ fault' = TRUE \/ fault' = fault
    <3>1. CASE fault' = TRUE
      BY <2>3, <3>1 DEF Excused
    <3>2. CASE fault' = fault
      BY <2>3, <3>2 DEF Eval!TypeOK, Excused
    <3> QED BY <2>3, <3>1, <3>2
  <2> QED BY <2>1, <2>2, <2>3
<1> QED BY <1>1, <1>2, <1>3, <1>4, <1>5, <1>6

\* The invariant survives the creation of a pod.
LEMMA EvalCreatePodInvariant == EInv /\ Eval!CreatePod => EInv'
<1> SUFFICES ASSUME EInv, Eval!CreatePod PROVE EInv'
  OBVIOUS
<1> USE DEF EInv, Eval!CreatePod, Eval!Goto, Eval!End, Eval!Infra, Eval!Then
<1>1. Eval!TypeOK'
  <2>1. evalPc' \in Eval!SetupLabels \cup Eval!CleanLabels
    <3>1. CASE evalPc \in {"subPolicy", "evalPolicy"}
      BY <3>1
    <3>2. CASE evalPc \in Eval!Pods
      BY <3>2
    <3> QED BY <3>1, <3>2
  <2>2. evalObjects' \subseteq Eval!Objects /\ evalHeld' \subseteq Eval!Resources
    <3>1. CASE evalPc \in {"subPolicy", "evalPolicy"}
      BY <3>1 DEF Eval!TypeOK
    <3>2. CASE evalPc \in Eval!Pods
      BY <3>2 DEF Eval!TypeOK
    <3> QED BY <3>1, <3>2
  <2>3. /\ UNCHANGED <<mode, evalTries, evalFailing, evalLeft, started, sick, raising>>
        /\ result' \in Eval!Verdicts /\ infra' \in BOOLEAN /\ fault' \in BOOLEAN
    BY DEF Eval!TypeOK, Eval!Verdicts
  <2> QED BY ONLY <2>1, <2>2, <2>3, EInv DEF EInv, Eval!TypeOK
<1>2. EvalHandles'
  <2>1. CASE evalPc \in {"subPolicy", "evalPolicy"}
    BY <2>1 DEF Eval!TypeOK, EvalHandles
  <2>2. CASE evalPc \in Eval!Pods
    BY <2>2 DEF Eval!TypeOK, EvalHandles
  <2> QED BY <2>1, <2>2
<1>3. EvalCreation'
  BY DEF Eval!TypeOK, EvalHandles, EvalCreation
<1>4. EvalPolicies'
  BY DEF Eval!TypeOK, EvalHandles, EvalCreation, EvalPolicies
<1>5. EvalDeletion'
  BY DEF Eval!TypeOK, EvalHandles, EvalCreation, EvalPolicies, EvalDeletion, EvalGone
<1>6. Excused'
  BY DEF Eval!TypeOK, EvalHandles, EvalCreation, Excused
<1> QED BY <1>1, <1>2, <1>3, <1>4, <1>5, <1>6

\* The invariant survives undoing a creation.
LEMMA EvalUndoPodInvariant == EInv /\ Eval!UndoPod => EInv'
<1> SUFFICES ASSUME EInv, Eval!UndoPod PROVE EInv'
  OBVIOUS
<1> USE DEF EInv, Eval!UndoPod, Eval!Goto, Eval!End, Eval!Infra, Eval!Undone,
            Eval!UndonePolicy
<1>1. Eval!TypeOK'
  BY DEF Eval!TypeOK, Eval!Verdicts
<1>2. EvalHandles'
  BY DEF Eval!TypeOK, EvalHandles
<1>3. EvalCreation'
  BY DEF Eval!TypeOK, EvalHandles, EvalCreation
<1>4. EvalPolicies'
  BY DEF Eval!TypeOK, EvalHandles, EvalCreation, EvalPolicies
<1>5. EvalDeletion'
  BY DEF Eval!TypeOK, EvalHandles, EvalCreation, EvalPolicies, EvalDeletion, EvalGone
<1>6. Excused'
  BY DEF Eval!TypeOK, EvalHandles, EvalCreation, Excused
<1> QED BY <1>1, <1>2, <1>3, <1>4, <1>5, <1>6

\* The invariant survives the creation of the link.
LEMMA EvalCreateLinkInvariant == EInv /\ Eval!CreateLink => EInv'
<1> SUFFICES ASSUME EInv, Eval!CreateLink PROVE EInv'
  OBVIOUS
<1> USE DEF EInv, Eval!CreateLink, Eval!Goto, Eval!End, Eval!Infra, Eval!Then
<1>1. Eval!TypeOK'
  <2>1. evalPc' \in Eval!SetupLabels \cup Eval!CleanLabels
    BY DEF Eval!TypeOK
  <2>2. evalObjects' \subseteq Eval!Objects /\ evalHeld' \subseteq Eval!Resources
    BY DEF Eval!TypeOK
  <2>3. /\ UNCHANGED <<mode, evalTries, evalFailing, evalLeft, started, sick, raising>>
        /\ result' \in Eval!Verdicts /\ infra' \in BOOLEAN /\ fault' \in BOOLEAN
    BY DEF Eval!TypeOK, Eval!Verdicts
  <2> QED BY ONLY <2>1, <2>2, <2>3, EInv DEF EInv, Eval!TypeOK
<1>2. EvalHandles'
  BY DEF Eval!TypeOK, EvalHandles
<1>3. EvalCreation'
  BY DEF Eval!TypeOK, EvalHandles, EvalCreation
<1>4. EvalPolicies'
  BY DEF Eval!TypeOK, EvalHandles, EvalCreation, EvalPolicies
<1>5. EvalDeletion'
  BY DEF Eval!TypeOK, EvalHandles, EvalCreation, EvalPolicies, EvalDeletion, EvalGone
<1>6. Excused'
  BY DEF Eval!TypeOK, EvalHandles, EvalCreation, Excused
<1> QED BY <1>1, <1>2, <1>3, <1>4, <1>5, <1>6

\* The invariant survives the start of the submission.
LEMMA EvalStartInvariant == EInv /\ Eval!Start => EInv'
<1> SUFFICES ASSUME EInv, Eval!Start PROVE EInv'
  OBVIOUS
<1> USE DEF EInv, Eval!Start, Eval!Goto, Eval!End, Eval!Infra
<1>1. Eval!TypeOK'
  BY DEF Eval!TypeOK, Eval!Verdicts
<1>2. EvalHandles'
  BY DEF Eval!TypeOK, EvalHandles
<1>3. EvalCreation'
  BY DEF Eval!TypeOK, EvalHandles, EvalCreation
<1>4. EvalPolicies'
  BY DEF Eval!TypeOK, EvalHandles, EvalCreation, EvalPolicies
<1>5. EvalDeletion'
  BY DEF Eval!TypeOK, EvalHandles, EvalCreation, EvalPolicies, EvalDeletion, EvalGone
<1>6. Excused'
  BY DEF Eval!TypeOK, EvalHandles, EvalCreation, Excused
<1> QED BY <1>1, <1>2, <1>3, <1>4, <1>5, <1>6

\* The invariant survives the wait for the submission.
LEMMA EvalProbeInvariant == EInv /\ Eval!Probe => EInv'
<1> SUFFICES ASSUME EInv, Eval!Probe PROVE EInv'
  OBVIOUS
<1> USE DEF EInv, Eval!Probe, Eval!Goto, Eval!End, Eval!Infra
<1>1. Eval!TypeOK'
  BY DEF Eval!TypeOK, Eval!Verdicts
<1>2. EvalHandles'
  BY DEF Eval!TypeOK, EvalHandles
<1>3. EvalCreation'
  BY DEF Eval!TypeOK, EvalHandles, EvalCreation
<1>4. EvalPolicies'
  BY DEF Eval!TypeOK, EvalHandles, EvalCreation, EvalPolicies
<1>5. EvalDeletion'
  BY DEF Eval!TypeOK, EvalHandles, EvalCreation, EvalPolicies, EvalDeletion, EvalGone
<1>6. Excused'
  BY DEF Eval!TypeOK, EvalHandles, EvalCreation, Excused
<1> QED BY <1>1, <1>2, <1>3, <1>4, <1>5, <1>6

\* The invariant survives the tests.
LEMMA EvalTestsInvariant == EInv /\ Eval!Tests => EInv'
<1> SUFFICES ASSUME EInv, Eval!Tests PROVE EInv'
  OBVIOUS
<1> USE DEF EInv, Eval!Tests, Eval!Goto, Eval!End, Eval!Infra, Eval!Timeout, Eval!Exit,
            Eval!Evidence
<1>1. Eval!TypeOK'
  <2>1. evalPc' \in Eval!SetupLabels \cup Eval!CleanLabels
    BY DEF Eval!TypeOK
  <2>2. /\ UNCHANGED <<mode, evalObjects, evalTries, evalFailing, evalHeld, evalLeft, started,
                      sick, raising>>
        /\ result' \in Eval!Verdicts /\ infra' \in BOOLEAN /\ fault' \in BOOLEAN
    BY DEF Eval!TypeOK, Eval!Verdicts
  <2> QED BY ONLY <2>1, <2>2, EInv DEF EInv, Eval!TypeOK
<1>2. EvalHandles'
  BY DEF Eval!TypeOK, EvalHandles
<1>3. EvalCreation'
  BY DEF Eval!TypeOK, EvalHandles, EvalCreation
<1>4. EvalPolicies'
  BY DEF Eval!TypeOK, EvalHandles, EvalCreation, EvalPolicies
<1>5. EvalDeletion'
  BY DEF Eval!TypeOK, EvalHandles, EvalCreation, EvalPolicies, EvalDeletion, EvalGone
<1>6. Excused'
  BY DEF Eval!TypeOK, EvalHandles, EvalCreation, Excused
<1> QED BY <1>1, <1>2, <1>3, <1>4, <1>5, <1>6

\* The invariant survives the end of all processes.
LEMMA EvalQuiesceInvariant == EInv /\ Eval!Quiesce => EInv'
<1> SUFFICES ASSUME EInv, Eval!Quiesce PROVE EInv'
  OBVIOUS
<1> USE DEF EInv, Eval!Quiesce, Eval!Goto, Eval!End, Eval!Infra
<1>1. Eval!TypeOK'
  BY DEF Eval!TypeOK, Eval!Verdicts
<1>2. EvalHandles'
  BY DEF Eval!TypeOK, EvalHandles
<1>3. EvalCreation'
  BY DEF Eval!TypeOK, EvalHandles, EvalCreation
<1>4. EvalPolicies'
  BY DEF Eval!TypeOK, EvalHandles, EvalCreation, EvalPolicies
<1>5. EvalDeletion'
  BY DEF Eval!TypeOK, EvalHandles, EvalCreation, EvalPolicies, EvalDeletion, EvalGone
<1>6. Excused'
  BY DEF Eval!TypeOK, EvalHandles, EvalCreation, Excused
<1> QED BY <1>1, <1>2, <1>3, <1>4, <1>5, <1>6

\* The invariant survives copying the results.
LEMMA EvalCopyFromInvariant == EInv /\ Eval!CopyFrom => EInv'
<1> SUFFICES ASSUME EInv, Eval!CopyFrom PROVE EInv'
  OBVIOUS
<1> USE DEF EInv, Eval!CopyFrom, Eval!Goto, Eval!End, Eval!Infra, Eval!Unsafe
<1>1. Eval!TypeOK'
  BY DEF Eval!TypeOK, Eval!Verdicts
<1>2. EvalHandles'
  BY DEF Eval!TypeOK, EvalHandles
<1>3. EvalCreation'
  BY DEF Eval!TypeOK, EvalHandles, EvalCreation
<1>4. EvalPolicies'
  BY DEF Eval!TypeOK, EvalHandles, EvalCreation, EvalPolicies
<1>5. EvalDeletion'
  BY DEF Eval!TypeOK, EvalHandles, EvalCreation, EvalPolicies, EvalDeletion, EvalGone
<1>6. Excused'
  <2>1. CASE evalPc' # "delEvaluator" /\ UNCHANGED <<result, infra, fault>>
    BY <2>1 DEF Excused
  <2>2. CASE evalPc' = "delEvaluator" /\ result' = "tests" /\ fault' = TRUE
    BY <2>2 DEF Excused
  <2>3. CASE /\ evalPc' = "delEvaluator" /\ result' = "integrity" /\ infra' = FALSE
             /\ fault' = TRUE \/ fault' = fault
    <3>1. CASE fault' = TRUE
      BY <2>3, <3>1 DEF Excused
    <3>2. CASE fault' = fault
      BY <2>3, <3>2 DEF Eval!TypeOK, Excused
    <3> QED BY <2>3, <3>1, <3>2
  <2> QED BY <2>1, <2>2, <2>3
<1> QED BY <1>1, <1>2, <1>3, <1>4, <1>5, <1>6

\* The invariant survives parsing the results.
LEMMA EvalReportInvariant == EInv /\ Eval!Report => EInv'
<1> SUFFICES ASSUME EInv, Eval!Report PROVE EInv'
  OBVIOUS
<1> USE DEF EInv, Eval!Report, Eval!End
<1>1. Eval!TypeOK'
  BY DEF Eval!TypeOK, Eval!Verdicts
<1>2. EvalHandles'
  BY DEF Eval!TypeOK, EvalHandles
<1>3. EvalCreation'
  BY DEF Eval!TypeOK, EvalHandles, EvalCreation
<1>4. EvalPolicies'
  BY DEF Eval!TypeOK, EvalHandles, EvalCreation, EvalPolicies
<1>5. EvalDeletion'
  BY DEF Eval!TypeOK, EvalHandles, EvalCreation, EvalPolicies, EvalDeletion, EvalGone
<1>6. Excused'
  BY DEF Eval!TypeOK, EvalHandles, EvalCreation, Excused
<1> QED BY <1>1, <1>2, <1>3, <1>4, <1>5, <1>6

\* The invariant survives the absence of a handle.
LEMMA EvalNothingToDeleteInvariant == EInv /\ Eval!NothingToDelete => EInv'
<1> SUFFICES ASSUME EInv, Eval!NothingToDelete PROVE EInv'
  OBVIOUS
<1> USE DEF EInv, Eval!NothingToDelete, Eval!OrOver, Eval!Settle
<1>1. Eval!TypeOK'
  BY DEF Eval!TypeOK, Eval!Verdicts
<1>2. EvalHandles'
  BY DEF Eval!TypeOK, EvalHandles
<1>3. EvalCreation'
  BY DEF Eval!TypeOK, EvalHandles, EvalCreation
<1>4. EvalPolicies'
  BY DEF Eval!TypeOK, EvalHandles, EvalCreation, EvalPolicies
<1>5. EvalDeletion'
  BY DEF Eval!TypeOK, EvalHandles, EvalCreation, EvalPolicies, EvalDeletion, EvalGone
<1>6. Excused'
  BY DEF Eval!TypeOK, EvalHandles, EvalCreation, Excused
<1> QED BY <1>1, <1>2, <1>3, <1>4, <1>5, <1>6

\* The invariant survives the deletion of a pod.
LEMMA EvalDeletePodsInvariant == EInv /\ Eval!DeletePods => EInv'
<1> SUFFICES ASSUME EInv, Eval!DeletePods PROVE EInv'
  OBVIOUS
<1> USE DEF EInv, Eval!DeletePods, Eval!DeletePod, Eval!Remove, Eval!RemoveFails,
            Eval!Retry, Eval!Deleted, Eval!OrOver, Eval!Settle
<1>1. Eval!TypeOK'
  <2>1. evalTries' \in 0 .. Attempts - 1
    BY AttemptsAssumption DEF Eval!TypeOK
  <2>2. evalObjects' \subseteq Eval!Objects /\ evalLeft' \subseteq Eval!Resources
    BY DEF Eval!TypeOK
  <2>3. evalPc' \in Eval!CleanLabels \cup Eval!Over
    BY DEF Eval!TypeOK
  <2> QED BY <2>1, <2>2, <2>3 DEF Eval!TypeOK, Eval!Verdicts
<1>2. EvalHandles'
  BY DEF Eval!TypeOK, EvalHandles
<1>3. EvalCreation'
  BY DEF Eval!TypeOK, EvalHandles, EvalCreation
<1>4. EvalPolicies'
  BY DEF Eval!TypeOK, EvalHandles, EvalCreation, EvalPolicies
<1>5. EvalDeletion'
  BY DEF Eval!TypeOK, EvalHandles, EvalCreation, EvalPolicies, EvalDeletion, EvalGone
<1>6. Excused'
  BY DEF Eval!TypeOK, EvalHandles, EvalCreation, Excused
<1> QED BY <1>1, <1>2, <1>3, <1>4, <1>5, <1>6

\* The invariant survives the deletion of the link.
LEMMA EvalDeleteLinkInvariant == EInv /\ Eval!DeleteLink => EInv'
<1> SUFFICES ASSUME EInv, Eval!DeleteLink PROVE EInv'
  OBVIOUS
<1> USE DEF EInv, Eval!DeleteLink, Eval!Remove, Eval!RemoveFails, Eval!Retry,
            Eval!Deleted, Eval!OrOver, Eval!Settle
<1>1. Eval!TypeOK'
  <2>1. evalTries' \in 0 .. Attempts - 1
    BY AttemptsAssumption DEF Eval!TypeOK
  <2>2. evalObjects' \subseteq Eval!Objects /\ evalLeft' \subseteq Eval!Resources
    BY DEF Eval!TypeOK
  <2>3. evalPc' \in Eval!CleanLabels \cup Eval!Over
    BY DEF Eval!TypeOK
  <2> QED BY <2>1, <2>2, <2>3 DEF Eval!TypeOK, Eval!Verdicts
<1>2. EvalHandles'
  BY DEF Eval!TypeOK, EvalHandles
<1>3. EvalCreation'
  BY DEF Eval!TypeOK, EvalHandles, EvalCreation
<1>4. EvalPolicies'
  BY DEF Eval!TypeOK, EvalHandles, EvalCreation, EvalPolicies
<1>5. EvalDeletion'
  BY DEF Eval!TypeOK, EvalHandles, EvalCreation, EvalPolicies, EvalDeletion, EvalGone
<1>6. Excused'
  BY DEF Eval!TypeOK, EvalHandles, EvalCreation, Excused
<1> QED BY <1>1, <1>2, <1>3, <1>4, <1>5, <1>6

\* The invariant survives an exception that is not handled.
LEMMA EvalInterruptInvariant == EInv /\ Eval!Interrupt => EInv'
<1> SUFFICES ASSUME EInv, Eval!Interrupt PROVE EInv'
  OBVIOUS
<1> USE DEF EInv, Eval!Interrupt
<1>1. Eval!TypeOK'
  BY DEF Eval!TypeOK, Eval!Verdicts
<1>2. EvalHandles'
  BY DEF Eval!TypeOK, EvalHandles
<1>3. EvalCreation'
  BY DEF Eval!TypeOK, EvalHandles, EvalCreation
<1>4. EvalPolicies'
  BY DEF Eval!TypeOK, EvalHandles, EvalCreation, EvalPolicies
<1>5. EvalDeletion'
  BY DEF Eval!TypeOK, EvalHandles, EvalCreation, EvalPolicies, EvalDeletion, EvalGone
<1>6. Excused'
  BY DEF Eval!TypeOK, EvalHandles, EvalCreation, Excused
<1> QED BY <1>1, <1>2, <1>3, <1>4, <1>5, <1>6

\* The invariant survives a failure of a pod.
LEMMA EvalPodFailsInvariant ==
  ASSUME EInv, NEW p \in Eval!Pods, Eval!PodFails(p) PROVE EInv'
<1> USE DEF EInv, Eval!PodFails
<1>1. Eval!TypeOK'
  BY DEF Eval!TypeOK, Eval!Verdicts
<1>2. EvalHandles'
  BY DEF Eval!TypeOK, EvalHandles
<1>3. EvalCreation'
  BY DEF Eval!TypeOK, EvalHandles, EvalCreation
<1>4. EvalPolicies'
  BY DEF Eval!TypeOK, EvalHandles, EvalCreation, EvalPolicies
<1>5. EvalDeletion'
  BY DEF Eval!TypeOK, EvalHandles, EvalCreation, EvalPolicies, EvalDeletion, EvalGone
<1>6. Excused'
  BY DEF Eval!TypeOK, EvalHandles, EvalCreation, Excused
<1> QED BY <1>1, <1>2, <1>3, <1>4, <1>5, <1>6

\* No call of the evaluation, no exception and no failure of a pod breaks it.
LEMMA EvalNextInvariant == EInv /\ [Eval!Next]_evalVars => EInv'
<1> SUFFICES ASSUME EInv, [Eval!Next]_evalVars PROVE EInv'
  OBVIOUS
<1>1. CASE UNCHANGED evalVars
  BY <1>1 DEF evalVars, EInv, Eval!TypeOK, EvalHandles, EvalCreation, EvalPolicies,
              EvalDeletion, EvalGone, Excused
<1>2. CASE Eval!Step
  BY <1>2, EvalCheckInvariant, EvalPrepareInvariant, EvalCopyToInvariant,
     EvalCreatePodInvariant, EvalUndoPodInvariant, EvalCreateLinkInvariant,
     EvalStartInvariant, EvalProbeInvariant, EvalTestsInvariant, EvalQuiesceInvariant,
     EvalCopyFromInvariant, EvalReportInvariant, EvalNothingToDeleteInvariant,
     EvalDeletePodsInvariant, EvalDeleteLinkInvariant DEF Eval!Step
<1> QED BY <1>1, <1>2, EvalInterruptInvariant, EvalPodFailsInvariant DEF Eval!Next

\* The policies are there as long as the pods are, and the link as long as the
\* submission runs.
LEMMA EvalPoliciesConfine == EInv => EvalConfined
BY DEF EInv, EvalCreation, EvalPolicies, EvalConfined, Eval!Confined

\* Without a fault the evaluation has a result of its own.
LEMMA OnlyFaultsExcuse == EInv => NotManufactured
BY DEF EInv, Eval!TypeOK, Excused, NotManufactured, Eval!NotManufactured

-----------------------------------------------------------------------------
(* Every call of the evaluation is a step of TrialResources, or none *)

Stage == IF evalPc \in Eval!SetupLabels THEN "creating"
         ELSE IF evalPc = "done" THEN "over" ELSE "deleting"

\* What a call does to an object tells what it does to its resource.
LEMMA EvalAliveGrows ==
  ASSUME NEW r \in Eval!Resources, NEW o \in Eval!Parts[r],
         evalObjects' = evalObjects \cup {o}
  PROVE  Eval!Alive' = Eval!Alive \cup {r}
<1>1. \A q \in Eval!Resources : o \in Eval!Parts[q] => q = r
  OBVIOUS
<1>2. \A q \in Eval!Resources :
         Eval!Parts[q] \cap evalObjects' # {} <=> Eval!Parts[q] \cap evalObjects # {} \/ q = r
  BY <1>1
<1> QED BY <1>2 DEF Eval!Alive

\* Removing one object of a resource may end that resource and no other.
LEMMA EvalAliveShrinks ==
  ASSUME NEW r \in Eval!Resources, NEW o \in Eval!Parts[r],
         evalObjects' = evalObjects \ {o}
  PROVE  Eval!Alive' = Eval!Alive \/ Eval!Alive' = Eval!Alive \ {r}
<1>1. \A q \in Eval!Resources : o \in Eval!Parts[q] => q = r
  OBVIOUS
<1>2. \A q \in Eval!Resources :
         q # r => (Eval!Parts[q] \cap evalObjects' # {} <=> Eval!Parts[q] \cap evalObjects # {})
  BY <1>1
<1>3. Eval!Parts[r] \cap evalObjects' # {} => Eval!Parts[r] \cap evalObjects # {}
  OBVIOUS
<1> QED BY <1>2, <1>3 DEF Eval!Alive

\* Which resources are alive depends on the objects only.
LEMMA EvalAliveSame == evalObjects' = evalObjects => Eval!Alive' = Eval!Alive
BY DEF Eval!Alive

\* A call that concerns no object may end the setup.
LEMMA EvalCallMaps ==
  ASSUME UNCHANGED <<evalObjects, evalHeld, evalLeft>>,
         Stage' = Stage \/ (Stage = "creating" /\ Stage' = "deleting")
  PROVE  [Eval!Cluster!Next]_(Eval!Cluster!vars)
<1>1. Eval!Alive' = Eval!Alive
  BY EvalAliveSame
<1>2. CASE Stage' = Stage
  BY <1>1, <1>2 DEF Stage, Eval!Cluster!vars
<1>3. CASE Stage = "creating" /\ Stage' = "deleting"
  <2>1. Eval!Cluster!Move
    BY <1>1, <1>3 DEF Stage, Eval!Cluster!Move
  <2> QED BY <2>1 DEF Eval!Cluster!Next
<1> QED BY <1>2, <1>3

\* A call that concerns one object of a resource without a handle.
LEMMA EvalAttemptMaps ==
  ASSUME NEW r \in Eval!Resources, NEW o \in Eval!Parts[r], r \notin evalHeld,
         UNCHANGED <<evalHeld, evalLeft>>,
         Stage = "creating", Stage' \in {"creating", "deleting"},
         evalObjects' \in {evalObjects, evalObjects \cup {o}, evalObjects \ {o}}
  PROVE  Eval!Cluster!Next
<1>1. Eval!Alive' \in {Eval!Alive, Eval!Alive \cup {r}, Eval!Alive \ {r}}
  BY EvalAliveGrows, EvalAliveShrinks, EvalAliveSame
<1>2. Eval!Alive' \in {Eval!Alive \cup {r}, Eval!Alive \ {r}}
  BY <1>1
<1>3. Eval!Cluster!Attempt(r)
  BY <1>2 DEF Stage, Eval!Cluster!Attempt
<1> QED BY <1>3 DEF Eval!Cluster!Next

\* A call that creates the last object of a resource, and returns its handle.
LEMMA EvalCreateMaps ==
  ASSUME NEW r \in Eval!Resources, NEW o \in Eval!Parts[r], r \notin evalHeld,
         evalHeld' = evalHeld \cup {r}, evalLeft' = evalLeft,
         Stage = "creating", Stage' = "creating", evalObjects' = evalObjects \cup {o}
  PROVE  Eval!Cluster!Next
<1>1. Eval!Alive' = Eval!Alive \cup {r}
  BY EvalAliveGrows
<1>2. Eval!Cluster!Create(r)
  BY <1>1 DEF Stage, Eval!Cluster!Create
<1> QED BY <1>2 DEF Eval!Cluster!Next

\* A call that deletes one object of a resource with a handle.
LEMMA EvalDeleteMaps ==
  ASSUME NEW r \in Eval!Resources, NEW o \in Eval!Parts[r], r \in evalHeld,
         evalHeld' = evalHeld, evalLeft' \in {evalLeft, evalLeft \cup {r}},
         evalObjects' \in {evalObjects, evalObjects \ {o}}, Stage = "deleting",
         \/ Stage' = "deleting"
         \/ Stage' = "over" /\ Eval!Alive' \cap evalHeld \subseteq evalLeft'
  PROVE  Eval!Cluster!Next
<1>1. Eval!Alive' \in {Eval!Alive, Eval!Alive \ {r}}
  BY EvalAliveShrinks, EvalAliveSame
<1>2. Eval!Cluster!Delete(r)
  BY <1>1 DEF Stage, Eval!Cluster!Delete
<1> QED BY <1>2 DEF Eval!Cluster!Next

\* What is over is gone or left, resource by resource.
LEMMA EvalOverIsGone ==
  ASSUME EInv', evalPc' = "done" PROVE Eval!Alive' \cap evalHeld' \subseteq evalLeft'
<1>1. SUFFICES ASSUME NEW r \in Eval!Alive' \cap evalHeld' PROVE r \in evalLeft'
  OBVIOUS
<1>2. r \in Eval!Resources /\ Eval!Parts[r] \cap evalObjects' # {}
  BY DEF Eval!Alive
<1> QED BY <1>2 DEF EInv, EvalDeletion, EvalGone

\* A workspace that is not safe ends the evaluation before there is anything.
LEMMA EvalCheckMaps ==
  ASSUME EInv, Eval!Check PROVE [Eval!Cluster!Next]_(Eval!Cluster!vars)
<1>1. UNCHANGED <<evalObjects, evalHeld, evalLeft>> /\ Stage = "creating"
  BY DEF Eval!Check, Stage
<1>2. CASE evalPc' = "namespace"
  BY <1>1, <1>2, EvalCallMaps DEF Stage
<1>3. CASE evalPc' = "done"
  <2>1. Eval!Alive = {} /\ Eval!Alive' = Eval!Alive
    BY <1>1, EvalAliveSame DEF Eval!Check, EInv, EvalCreation, Eval!Alive
  <2>2. Eval!Cluster!Move
    BY <1>1, <1>3, <2>1 DEF Stage, Eval!Cluster!Move
  <2> QED BY <2>2 DEF Eval!Cluster!Next
<1> QED BY <1>2, <1>3 DEF Eval!Check, Eval!Goto

\* What works in the pods leaves the cluster alone.
LEMMA EvalWorkMaps ==
  ASSUME \/ Eval!Prepare \/ Eval!CopyTo \/ Eval!Start \/ Eval!Probe \/ Eval!Tests
         \/ Eval!Quiesce \/ Eval!CopyFrom \/ Eval!Report,
         EInv, EInv'
  PROVE  [Eval!Cluster!Next]_(Eval!Cluster!vars)
<1> USE DEF Eval!Goto, Eval!End, Eval!Infra, Eval!Unsafe
<1>1. UNCHANGED <<evalObjects, evalHeld, evalLeft>> /\ Stage = "creating"
  BY DEF Eval!Prepare, Eval!CopyTo, Eval!Start, Eval!Probe, Eval!Tests, Eval!Quiesce,
         Eval!CopyFrom, Eval!Report, Stage
<1>2. evalPc' \notin Eval!Over
  <2>0. CASE Eval!Prepare
    BY <2>0 DEF Eval!Prepare, Eval!Then
  <2>1. CASE Eval!CopyTo
    BY <2>1 DEF Eval!CopyTo, Eval!Then
  <2>2. CASE Eval!Start \/ Eval!Probe \/ Eval!Tests
    BY <2>2 DEF Eval!Start, Eval!Probe, Eval!Tests, Eval!Timeout, Eval!Exit
  <2>3. CASE Eval!Quiesce \/ Eval!CopyFrom \/ Eval!Report
    BY <2>3 DEF Eval!Quiesce, Eval!CopyFrom, Eval!Report
  <2> QED BY <2>0, <2>1, <2>2, <2>3
<1>3. Stage' \in {"creating", "deleting"}
  BY <1>2 DEF Stage
<1> QED BY <1>1, <1>3, EvalCallMaps

\* A pod is created when its handle is returned.
LEMMA EvalCreatePodMaps ==
  ASSUME EInv, Eval!CreatePod PROVE Eval!Cluster!Next
<1> USE DEF Eval!Goto, Eval!End, Eval!Infra
<1>1. Stage = "creating" /\ Stage' \in {"creating", "deleting"} /\ evalLeft' = evalLeft
  BY DEF Eval!CreatePod, Eval!Then, Stage
<1>2. PICK r \in {"submission", "evaluator"} : evalPc \in Eval!Parts[r]
  BY DEF Eval!CreatePod
<1>3. r \notin evalHeld
  BY <1>2 DEF Eval!CreatePod, EInv, EvalHandles
<1>4. CASE evalHeld' = evalHeld /\ evalObjects' \in {evalObjects, evalObjects \cup {evalPc}}
  BY <1>1, <1>2, <1>3, <1>4, EvalAttemptMaps
<1>5. CASE /\ evalPc \in Eval!Pods /\ evalPc' = Eval!Then(evalPc)
           /\ evalHeld' = evalHeld \cup {evalPc} /\ evalObjects' = evalObjects \cup {evalPc}
  <2>1. r = evalPc /\ Stage' = "creating"
    BY <1>2, <1>5 DEF Eval!Then, Stage
  <2> QED BY <1>1, <1>2, <1>3, <1>5, <2>1, EvalCreateMaps
<1> QED BY <1>4, <1>5 DEF Eval!CreatePod

\* Undoing a creation is an attempt at a pod nobody has a handle of.
LEMMA EvalUndoPodMaps ==
  ASSUME EInv, Eval!UndoPod PROVE Eval!Cluster!Next
<1> USE DEF Eval!Goto, Eval!End, Eval!Infra
<1>1. /\ Stage = "creating" /\ Stage' \in {"creating", "deleting"}
      /\ UNCHANGED <<evalHeld, evalLeft>>
  BY DEF Eval!UndoPod, Stage
<1>2. /\ Eval!Undone \in {"submission", "evaluator"} /\ Eval!Undone \notin evalHeld
      /\ {Eval!Undone, Eval!UndonePolicy} \subseteq Eval!Parts[Eval!Undone]
  BY DEF Eval!UndoPod, Eval!Undone, Eval!UndonePolicy, EInv, EvalHandles
<1>3. \E o \in {Eval!Undone, Eval!UndonePolicy} : evalObjects' \in {evalObjects, evalObjects \ {o}}
  BY DEF Eval!UndoPod
<1> QED BY <1>1, <1>2, <1>3, EvalAttemptMaps

\* The link is created with its second policy; what fails is undone.
LEMMA EvalCreateLinkMaps ==
  ASSUME EInv, Eval!CreateLink PROVE Eval!Cluster!Next
<1> USE DEF Eval!Goto, Eval!End, Eval!Infra
<1>1. /\ Stage = "creating" /\ Stage' \in {"creating", "deleting"}
      /\ evalLeft' = evalLeft /\ "link" \notin evalHeld
  BY DEF Eval!CreateLink, Eval!Then, Stage, EInv, EvalHandles
<1>2. CASE /\ evalHeld' = evalHeld
           /\ \E o \in {"egress", "ingress"} :
                evalObjects' \in {evalObjects, evalObjects \cup {o}, evalObjects \ {o}}
  BY <1>1, <1>2, EvalAttemptMaps
<1>3. CASE /\ evalPc = "ingress" /\ evalPc' = Eval!Then(evalPc)
           /\ evalObjects' = evalObjects \cup {"ingress"} /\ evalHeld' = evalHeld \cup {"link"}
  <2>1. Stage' = "creating"
    BY <1>3 DEF Eval!Then, Stage
  <2> QED BY <1>1, <1>3, <2>1, EvalCreateMaps
<1> QED BY <1>2, <1>3 DEF Eval!CreateLink

\* Without a handle there is nothing to delete.
LEMMA EvalNothingToDeleteMaps ==
  ASSUME EInv, EInv', Eval!NothingToDelete PROVE [Eval!Cluster!Next]_(Eval!Cluster!vars)
<1>1. UNCHANGED <<evalObjects, evalHeld, evalLeft>> /\ Stage = "deleting"
  BY DEF Eval!NothingToDelete, Stage
<1>2. CASE evalPc' # "done"
  <2>1. Stage' = Stage
    BY <1>1, <1>2 DEF Eval!NothingToDelete, Eval!OrOver, Stage
  <2> QED BY <1>1, <2>1, EvalCallMaps
<1>3. CASE evalPc' = "done"
  <2>1. Eval!Alive' \cap evalHeld' \subseteq evalLeft' /\ Eval!Alive' = Eval!Alive
    BY <1>1, <1>3, EvalOverIsGone, EvalAliveSame
  <2>2. Eval!Cluster!Move
    BY <1>1, <1>3, <2>1 DEF Stage, Eval!Cluster!Move
  <2> QED BY <2>2 DEF Eval!Cluster!Next
<1> QED BY <1>2, <1>3

\* A call that deletes an object of r, the last one or not.
LEMMA EvalDeletionMaps ==
  ASSUME EInv', NEW r \in Eval!Resources, NEW o \in Eval!Parts[r], r \in evalHeld,
         evalHeld' = evalHeld, evalLeft' \in {evalLeft, evalLeft \cup {r}},
         evalObjects' \in {evalObjects, evalObjects \ {o}},
         evalPc \in Eval!CleanLabels, evalPc' \in Eval!CleanLabels \cup Eval!Over
  PROVE  Eval!Cluster!Next
<1>1. Stage = "deleting"
  BY DEF Stage
<1>2. CASE evalPc' # "done"
  <2>1. Stage' = "deleting"
    BY <1>2 DEF Stage
  <2> QED BY <1>1, <2>1, EvalDeleteMaps
<1>3. CASE evalPc' = "done"
  <2>1. Stage' = "over" /\ Eval!Alive' \cap evalHeld \subseteq evalLeft'
    BY <1>3, EvalOverIsGone DEF Stage
  <2> QED BY <1>1, <2>1, EvalDeleteMaps
<1> QED BY <1>2, <1>3

\* A try to delete a pod or its policy is a deletion.
LEMMA EvalDeletePodsMaps ==
  ASSUME EInv, EInv', Eval!DeletePods PROVE Eval!Cluster!Next
<1> USE DEF Eval!DeletePods, Eval!DeletePod, Eval!Remove, Eval!RemoveFails, Eval!Retry,
            Eval!Deleted, Eval!OrOver
<1>1. evalPc \in Eval!CleanLabels /\ evalPc' \in Eval!CleanLabels \cup Eval!Over
  OBVIOUS
<1>2. CASE evalPc \in {"delEvaluator", "delEvalPolicy"}
  <2>1. "evaluator" \in evalHeld /\ evalHeld' = evalHeld
    BY <1>2 DEF EInv, EvalHandles
  <2>2. evalLeft' \in {evalLeft, evalLeft \cup {"evaluator"}}
    BY <1>2
  <2>3. \E o \in Eval!Parts["evaluator"] : evalObjects' \in {evalObjects, evalObjects \ {o}}
    BY <1>2
  <2> HIDE DEF Eval!DeletePods
  <2> QED BY <1>1, <2>1, <2>2, <2>3, EvalDeletionMaps
<1>3. CASE evalPc \in {"delSubmission", "delSubPolicy"}
  <2>1. "submission" \in evalHeld /\ evalHeld' = evalHeld
    BY <1>3 DEF EInv, EvalHandles
  <2>2. evalLeft' \in {evalLeft, evalLeft \cup {"submission"}}
    BY <1>3
  <2>3. \E o \in Eval!Parts["submission"] : evalObjects' \in {evalObjects, evalObjects \ {o}}
    BY <1>3
  <2> HIDE DEF Eval!DeletePods
  <2> QED BY <1>1, <2>1, <2>2, <2>3, EvalDeletionMaps
<1> QED BY <1>2, <1>3

\* So is a try to delete one of the policies of the link.
LEMMA EvalDeleteLinkMaps ==
  ASSUME EInv, EInv', Eval!DeleteLink PROVE Eval!Cluster!Next
<1> USE DEF Eval!DeleteLink, Eval!Remove, Eval!RemoveFails, Eval!Retry, Eval!Deleted,
            Eval!OrOver
<1>1. evalPc \in Eval!CleanLabels /\ evalPc' \in Eval!CleanLabels \cup Eval!Over
  OBVIOUS
<1>2. "link" \in evalHeld /\ evalHeld' = evalHeld
  BY DEF EInv, EvalHandles
<1>3. evalLeft' \in {evalLeft, evalLeft \cup {"link"}}
  OBVIOUS
<1>4. \E o \in Eval!Parts["link"] : evalObjects' \in {evalObjects, evalObjects \ {o}}
  OBVIOUS
<1> HIDE DEF Eval!DeleteLink
<1> QED BY <1>1, <1>2, <1>3, <1>4, EvalDeletionMaps

\* An exception may leave behind what was being created; during the cleanup it
\* ends that.
LEMMA EvalInterruptMaps ==
  ASSUME EInv, Eval!Interrupt PROVE [Eval!Cluster!Next]_(Eval!Cluster!vars)
<1>1. UNCHANGED <<evalHeld, evalLeft>> /\ evalPc \notin Eval!Over
  BY DEF Eval!Interrupt
<1>2. Stage' = "deleting" /\ Stage \in {"creating", "deleting"}
  BY DEF Eval!Interrupt, Stage
<1>3. CASE evalObjects' = evalObjects
  BY <1>1, <1>2, <1>3, EvalCallMaps
<1>4. CASE evalPc \in Eval!Objects /\ evalObjects' = evalObjects \cup {evalPc}
  <2>1. PICK r \in Eval!Resources : evalPc \in Eval!Parts[r]
    BY <1>4
  <2>2. r \notin evalHeld
    BY <1>4, <2>1 DEF EInv, EvalHandles
  <2>3. Stage = "creating"
    BY <1>4 DEF Stage
  <2> QED BY <1>1, <1>2, <1>4, <2>1, <2>2, <2>3, EvalAttemptMaps
<1> QED BY <1>3, <1>4 DEF Eval!Interrupt

\* The evaluation begins with nothing in the cluster.
LEMMA EvalInitMaps == Eval!Init => Eval!Cluster!Init
BY DEF Eval!Init, Eval!Cluster!Init, Eval!Alive

\* Every step of the evaluation is one of TrialResources, or none.
LEMMA EvalNextMaps ==
  EInv /\ EInv' /\ [Eval!Next]_evalVars => [Eval!Cluster!Next]_(Eval!Cluster!vars)
<1> SUFFICES ASSUME EInv, EInv', [Eval!Next]_evalVars
             PROVE  [Eval!Cluster!Next]_(Eval!Cluster!vars)
  OBVIOUS
<1>1. CASE UNCHANGED evalVars
  BY <1>1, EvalCallMaps DEF evalVars, Stage
<1>2. CASE Eval!Step
  BY <1>2, EvalCheckMaps, EvalWorkMaps, EvalCreatePodMaps, EvalUndoPodMaps,
     EvalCreateLinkMaps, EvalNothingToDeleteMaps, EvalDeletePodsMaps, EvalDeleteLinkMaps
     DEF Eval!Step
<1>3. CASE Eval!Interrupt
  BY <1>3, EvalInterruptMaps
<1>4. CASE \E p \in Eval!Pods : Eval!PodFails(p)
  BY <1>4, EvalCallMaps DEF Eval!PodFails, Stage
<1> QED BY <1>1, <1>2, <1>3, <1>4 DEF Eval!Next

-----------------------------------------------------------------------------
(* Theorems *)

\* Both invariants hold in every state of a trial.
THEOREM TrialInvariance == TrialSpec => [](IInv /\ EInv)
<1>1. TrialInit => IInv /\ EInv
  BY InitInvariant, EvalInitInvariant DEF TrialInit
<1>2. IInv /\ EInv /\ [TrialNext]_<<vars, evalVars>> => (IInv /\ EInv)'
  BY NextInvariant, EvalNextInvariant DEF TrialNext
<1> QED BY <1>1, <1>2, PTL DEF TrialSpec

\* Eval!TypeOK: every variable of the evaluation keeps its type.
THEOREM EvalTypeCorrect == TrialSpec => []Eval!TypeOK
<1>1. EInv => Eval!TypeOK
  BY DEF EInv
<1> QED BY <1>1, TrialInvariance, PTL

\* Confined, RollbackConfirmed and LeakReported, as shown of the agent's phase, hold
\* as well while the evaluation follows it, behind a failed agent or a cleanup that
\* has left its pod running too: that pod keeps its policies all the time.
THEOREM TrialConfined == TrialSpec => [](Confined /\ RollbackConfirmed /\ LeakReported)
<1>1. IInv => RollbackConfirmed
  BY DEF IInv
<1> QED BY <1>1, PoliciesConfine, LeftIsReported, TrialInvariance, PTL

\* EvalConfined: whatever kubectl call fails and whenever an exception ends the
\* evaluation, a pod it holds has its policy, and submitted code runs only with
\* its one link in place.
THEOREM EvalConfinedAlways == TrialSpec => []EvalConfined
BY EvalPoliciesConfine, TrialInvariance, PTL

\* NotManufactured: an isolated submission that stalls, dies or exhausts its pod
\* never makes run_eval_phase end without a result, or with an infrastructure
\* error.
THEOREM NotManufacturedAlways == TrialSpec => []NotManufactured
BY OnlyFaultsExcuse, TrialInvariance, PTL

\* EvalResourcesPromise: seen as whole resources, the evaluation does what
\* TrialResources allows, whichever of its calls fail.
THEOREM EvalRefinement == TrialSpec => EvalResourcesPromise
<1>1. TrialInit => Eval!Cluster!Init
  BY EvalInitMaps DEF TrialInit
<1>2. EInv /\ EInv' /\ [TrialNext]_<<vars, evalVars>> => [Eval!Cluster!Next]_(Eval!Cluster!vars)
  BY EvalNextMaps DEF TrialNext
<1> QED BY <1>1, <1>2, TrialInvariance, PTL
        DEF TrialSpec, EvalResourcesPromise, Eval!TrialResourcesPromise, Eval!Cluster!Spec

\* TrialResourcesPromise: that the evaluation follows, whatever the agent's phase has
\* left behind, does not break the promise of that phase.
THEOREM TrialRefinement == TrialSpec => TrialResourcesPromise
<1>1. TrialInit => Cluster!Init
  BY InitMaps DEF TrialInit
<1>2. IInv /\ IInv' /\ [TrialNext]_<<vars, evalVars>> => [Cluster!Next]_(Cluster!vars)
  BY NextMaps DEF TrialNext
<1> QED BY <1>1, <1>2, TrialInvariance, PTL
        DEF TrialSpec, TrialResourcesPromise, Cluster!Spec
===============================================================================
