------------------------------- MODULE AppendLog -------------------------------
(***************************************************************************)
(* What an audit trail promises: an append-only log of events that stops   *)
(* growing for good once its writer stops.                                 *)
(***************************************************************************)
EXTENDS Naturals, Sequences

CONSTANT Events
VARIABLES log, open

Init == log = << >> /\ open = TRUE

Record ==
  /\ open /\ UNCHANGED open
  /\ log' \in Seq(Events)
  /\ Len(log') = Len(log) + 1
  /\ SubSeq(log', 1, Len(log)) = log

Stop      == open /\ open' = FALSE /\ UNCHANGED log

Next == Record \/ Stop

Spec == Init /\ [][Next]_<<log, open>>
===============================================================================
