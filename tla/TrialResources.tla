---------------------------- MODULE TrialResources ----------------------------
(***************************************************************************)
(* What a trial promises about the cluster resources it uses: it gets      *)
(* handles for them while it sets up, gives back only what it has a handle *)
(* for, and is over only when each of those is gone or known to be left.   *)
(* What a failed creation leaves behind is not covered by a handle.        *)
(***************************************************************************)
CONSTANT Resources

VARIABLES phase, \* "creating", "deleting" or "over"
          alive, \* resources of which something exists in the cluster
          held,  \* resources there is a handle for
          left   \* resources whose deletion was given up

vars == <<phase, alive, held, left>>

Init == phase = "creating" /\ alive = {} /\ held = {} /\ left = {}

Create(r) ==
  /\ phase = "creating" /\ r \notin held
  /\ alive' = alive \cup {r} /\ held' = held \cup {r}
  /\ UNCHANGED <<phase, left>>

\* Objects of a resource without a handle come, and go when they are rolled back.
Attempt(r) ==
  /\ phase = "creating" /\ r \notin held
  /\ alive' \in {alive \cup {r}, alive \ {r}}
  /\ phase' \in {"creating", "deleting"}
  /\ UNCHANGED <<held, left>>

Delete(r) ==
  /\ phase = "deleting" /\ r \in held
  /\ alive' \in {alive, alive \ {r}}
  /\ left' \in {left, left \cup {r}}
  /\ UNCHANGED held
  /\ phase' = "deleting" \/ (phase' = "over" /\ alive' \cap held \subseteq left')

Move ==
  /\ \/ phase = "creating" /\ phase' = "deleting"
     \/ phase' = "over" /\ alive \cap held \subseteq left
  /\ UNCHANGED <<alive, held, left>>

Next == Move \/ \E r \in Resources : Create(r) \/ Attempt(r) \/ Delete(r)

Spec == Init /\ [][Next]_vars
===============================================================================
