------------------------------ MODULE AuditChain ------------------------------
(***************************************************************************)
(* The hash-chained audit trail of one governed run (audit.py): the       *)
(* AuditChain writer, shared by threads under one lock, its file, and      *)
(* verify_audit_chain reading that file line by line.                      *)
(*                                                                         *)
(* A digest is represented by what it commits to: the digest of an event   *)
(* is the digest of its predecessor with the event's own body appended,    *)
(* so two digests are equal only when all they cover is equal (SHA-256     *)
(* taken as collision free), and the genesis hash covers nothing.  The     *)
(* run and trace identifiers, fixed when the chain is created and checked  *)
(* alike, are one field `run'.  Event content that survives or fails       *)
(* strict validation and the size limit is `Payloads' and `Unfit'.         *)
(***************************************************************************)
EXTENDS Integers, Sequences

CONSTANTS Threads,      \* callers that share the writer
          Payloads,     \* event type and attributes of an append call
          Unfit,        \* payloads refused by the schema or the size limit
          Runs,         \* run and trace identifiers
          ThisRun,      \* the one this chain was created with
          MaxEvents,    \* bound: no call of append past this many events
          NoThread      \* the lock is free

ASSUME UnfitAssumption    == Unfit \subseteq Payloads
ASSUME RunAssumption      == ThisRun \in Runs
ASSUME BoundAssumption    == MaxEvents \in Nat
ASSUME NoThreadAssumption == NoThread \notin Threads

VARIABLES file,       \* lines of the audit file; some storage may hold them only in part
          finalHash,  \* AuditChain._final_hash
          count,      \* AuditChain._event_count
          writer,     \* "open", "closed" (_closed) or "dead" (its process ended)
          lock,       \* holder of AuditChain._lock
          pc, arg,    \* where each caller is in append, and with which payload
          acked,      \* history: events append has returned to its callers
          damaged,    \* history: the file was changed from outside
          vpc,        \* verifier: "off", "reading", "valid" or "invalid"
          copy,       \* verifier: the snapshot of the file its callers take
          anchored,   \* verifier: was expected_final_hash supplied?
          vcount, vhash, \* verifier: event_count and final_hash so far
          seen        \* history: the lines the verifier accepted

writerVars   == <<finalHash, count, writer, lock, pc, arg, acked>>
verifierVars == <<vpc, copy, anchored, vcount, vhash, seen>>
vars         == <<file, writerVars, damaged, verifierVars>>

Genesis == << >>
Body    == [seq : Nat, run : Runs, payload : Payloads]
Hash    == Seq(Body)
\* A line that is not whole lost its end: no newline, or not the full event.
Line    == [whole : BOOLEAN, body : Body, prev : Hash, hash : Hash]

Digest(prev, body) == Append(prev, body)

\* The event append builds from the writer's state for payload p.
NextBody(p)  == [seq |-> count, run |-> ThisRun, payload |-> p]
NextEvent(p) == [whole |-> TRUE, body |-> NextBody(p), prev |-> finalHash,
                 hash |-> Digest(finalHash, NextBody(p))]

\* What a write that did not complete can leave of a line.
Torn(line)    == [line EXCEPT !.whole = FALSE]
Remains(line) == {<< >>, <<Torn(line)>>, <<line>>}

TypeOK ==
  /\ file \in Seq(Line)
  /\ finalHash \in Hash
  /\ count \in Nat
  /\ writer \in {"open", "closed", "dead"}
  /\ lock \in Threads \cup {NoThread}
  /\ pc \in [Threads -> {"idle", "entered", "written"}]
  /\ arg \in [Threads -> Payloads]
  /\ acked \in Seq(Line)
  /\ damaged \in BOOLEAN
  /\ vpc \in {"off", "reading", "valid", "invalid"}
  /\ copy \in Seq(Line)
  /\ anchored \in BOOLEAN
  /\ vcount \in Nat
  /\ vhash \in Hash
  /\ seen \in Seq(Line)

Init ==
  /\ file = << >>
  /\ finalHash = Genesis
  /\ count = 0
  /\ writer = "open"
  /\ lock = NoThread
  /\ pc = [t \in Threads |-> "idle"]
  /\ arg \in [Threads -> Payloads]
  /\ acked = << >>
  /\ damaged = FALSE
  /\ vpc = "off"
  /\ copy = << >>
  /\ anchored = FALSE
  /\ vcount = 0
  /\ vhash = Genesis
  /\ seen = << >>

-----------------------------------------------------------------------------
(* AuditChain.append, step by step under the lock *)

\* Mutant: append without the lock.
EnterUnlocked(t, p) ==
  /\ writer # "dead" /\ count < MaxEvents
  /\ pc[t] = "idle"
  /\ lock' = t
  /\ pc' = [pc EXCEPT ![t] = "entered"]
  /\ arg' = [arg EXCEPT ![t] = p]
  /\ UNCHANGED <<file, finalHash, count, writer, acked, damaged, verifierVars>>

\* A caller enters `with self._lock'.
Enter(t, p) ==
  /\ lock = NoThread /\ writer # "dead" /\ count < MaxEvents
  /\ pc[t] = "idle"
  /\ lock' = t
  /\ pc' = [pc EXCEPT ![t] = "entered"]
  /\ arg' = [arg EXCEPT ![t] = p]
  /\ UNCHANGED <<file, finalHash, count, writer, acked, damaged, verifierVars>>

Leave(t) ==
  /\ lock' = NoThread
  /\ pc' = [pc EXCEPT ![t] = "idle"]

\* Mutant: the early error leaves the lock taken.
RefuseKeepsLock(t) ==
  /\ pc[t] = "entered"
  /\ writer = "closed" \/ arg[t] \in Unfit
  /\ pc' = [pc EXCEPT ![t] = "idle"]
  /\ UNCHANGED <<file, finalHash, count, writer, lock, arg, acked, damaged,
                 verifierVars>>

\* AuditError, nothing written: the chain is closed, or the event is unfit.
Refuse(t) ==
  /\ pc[t] = "entered"
  /\ writer = "closed" \/ arg[t] \in Unfit
  /\ Leave(t)
  /\ UNCHANGED <<file, finalHash, count, writer, arg, acked, damaged,
                 verifierVars>>

\* Mutant: append forgets to ask whether the chain is closed.
MayWriteClosed(t) == pc[t] = "entered" /\ arg[t] \notin Unfit

MayWrite(t) == pc[t] = "entered" /\ writer = "open" /\ arg[t] \notin Unfit

\* write and flush hand the whole line to the file.
Write(t) ==
  /\ MayWrite(t)
  /\ file' = Append(file, NextEvent(arg[t]))
  /\ pc' = [pc EXCEPT ![t] = "written"]
  /\ UNCHANGED <<finalHash, count, writer, lock, arg, acked, damaged,
                 verifierVars>>

\* Mutant: a failed write does not close the chain.
WriteFailsOpen(t) ==
  /\ MayWrite(t)
  /\ \E remains \in Remains(NextEvent(arg[t])) : file' = file \o remains
  /\ Leave(t)
  /\ UNCHANGED <<finalHash, count, writer, arg, acked, damaged, verifierVars>>

\* OSError from write or flush: the writer shuts itself, and the call fails
\* with none, part or all of the line in the file.
WriteFails(t) ==
  /\ MayWrite(t)
  /\ \E remains \in Remains(NextEvent(arg[t])) : file' = file \o remains
  /\ writer' = "closed"
  /\ Leave(t)
  /\ UNCHANGED <<finalHash, count, arg, acked, damaged, verifierVars>>

\* fsync succeeds: the chain advances and the event is returned.
Advance(t) ==
  /\ pc[t] = "written"
  /\ finalHash' = Digest(finalHash, NextBody(arg[t]))
  /\ count' = count + 1
  /\ acked' = Append(acked, NextEvent(arg[t]))
  /\ Leave(t)
  /\ UNCHANGED <<file, writer, arg, damaged, verifierVars>>

\* OSError from fsync: the line is in the file, the chain did not advance.
SyncFails(t) ==
  /\ pc[t] = "written"
  /\ writer' = "closed"
  /\ Leave(t)
  /\ UNCHANGED <<file, finalHash, count, arg, acked, damaged, verifierVars>>

\* AuditChain.close
Close ==
  /\ lock = NoThread /\ writer = "open"
  /\ writer' = "closed"
  /\ UNCHANGED <<file, finalHash, count, lock, pc, arg, acked, damaged,
                 verifierVars>>

-----------------------------------------------------------------------------
(* What happens to the process and to its file *)

\* The host stops.  Lines that fsync confirmed survive; a line still in
\* flight, or left over by a failed append, survives, is torn or is lost.
Crash ==
  /\ writer # "dead" /\ ~damaged
  /\ writer' = "dead"
  /\ lock' = NoThread
  /\ pc' = [t \in Threads |-> "idle"]
  /\ file' \in IF Len(file) > count
               THEN { SubSeq(file, 1, count) \o remains :
                        remains \in Remains(file[count + 1]) }
               ELSE {file}
  /\ UNCHANGED <<finalHash, count, arg, acked, damaged, verifierVars>>

\* The resting file is damaged, once: its tail or a line lost, a line
\* overwritten by another one, altered, or rewritten with a digest to match.
Altered(line, p) == [line EXCEPT !.body = [@ EXCEPT !.payload = p]]
Rewritten(line, r, p) ==
  LET body == [seq |-> line.body.seq, run |-> r, payload |-> p]
  IN  [whole |-> TRUE, body |-> body, prev |-> line.prev,
       hash |-> Digest(line.prev, body)]

WithoutTail(lines, n) == SubSeq(lines, 1, n)
WithoutLine(lines, i) == SubSeq(lines, 1, i - 1) \o SubSeq(lines, i + 1, Len(lines))

Shortened(lines) ==
  {WithoutTail(lines, i - 1) : i \in 1 .. Len(lines)}
  \cup {WithoutLine(lines, i) : i \in 1 .. Len(lines)}
Overwritten(lines) == {[lines EXCEPT ![i] = lines[j]] : i, j \in 1 .. Len(lines)}
Changed(lines) ==
  {[lines EXCEPT ![i] = Altered(lines[i], p)] : i \in 1 .. Len(lines), p \in Payloads}
Forged(lines) ==
  {[lines EXCEPT ![i] = Rewritten(lines[i], r, p)] :
     i \in 1 .. Len(lines), r \in Runs, p \in Payloads}

Damaged(lines) ==
  Shortened(lines) \cup Overwritten(lines) \cup Changed(lines) \cup Forged(lines)

Damage ==
  /\ ~damaged /\ writer # "open"  /\ lock = NoThread
  /\ file' \in Damaged(file)
  /\ damaged' = TRUE
  /\ UNCHANGED <<writerVars, verifierVars>>

-----------------------------------------------------------------------------
(* verify_audit_chain over a snapshot of the finished file,     *)
(* expecting ThisRun and, when one is recorded, the final hash             *)

VerifyStart ==
  /\ vpc = "off" /\ writer # "open" /\ lock = NoThread
  /\ vpc' = "reading"
  /\ copy' = file
  /\ anchored' \in {a \in BOOLEAN : a => count > 0}
  /\ UNCHANGED <<file, writerVars, damaged, vcount, vhash, seen>>

\* The checks on one line, in terms of what was accepted before it.
LineOk(line) ==
  /\ line.whole
  /\ line.body.seq = vcount
  /\ line.body.run = ThisRun
  /\ line.prev = vhash
  /\ line.hash = Digest(line.prev, line.body)

VerifyLine ==
  /\ vpc = "reading" /\ vcount < Len(copy)
  /\ LineOk(copy[vcount + 1])
  /\ vhash' = copy[vcount + 1].hash
  /\ vcount' = vcount + 1
  /\ seen' = Append(seen, copy[vcount + 1])
  /\ UNCHANGED <<file, writerVars, damaged, vpc, copy, anchored>>

RejectLine ==
  /\ vpc = "reading" /\ vcount < Len(copy)
  /\ ~LineOk(copy[vcount + 1])
  /\ vpc' = "invalid"
  /\ UNCHANGED <<file, writerVars, damaged, copy, anchored, vcount, vhash, seen>>

\* Mutant: the expected final hash is not compared.
AcceptsAnyEnd == vcount > 0

\* End of file: an empty chain fails, and so does a final hash other than
\* the expected one.
Accepts == vcount > 0 /\ (anchored => vhash = finalHash)

VerifyEnd ==
  /\ vpc = "reading" /\ vcount >= Len(copy)
  /\ vpc' = IF Accepts THEN "valid" ELSE "invalid"
  /\ UNCHANGED <<file, writerVars, damaged, copy, anchored, vcount, vhash, seen>>

-----------------------------------------------------------------------------
Append_(t) == Refuse(t) \/ Write(t) \/ WriteFails(t) \/ Advance(t) \/ SyncFails(t)
Verify     == VerifyStart \/ VerifyLine \/ RejectLine \/ VerifyEnd

Next ==
  \/ \E t \in Threads, p \in Payloads : Enter(t, p)
  \/ \E t \in Threads : Append_(t)
  \/ Close
  \/ Crash
  \/ Damage
  \/ Verify

\* A caller inside append and a started verifier keep running.
Fairness == WF_vars(\E t \in Threads : Append_(t)) /\ WF_vars(Verify)

Spec == Init /\ [][Next]_vars /\ Fairness
-----------------------------------------------------------------------------
(* Properties *)

\* What append has acknowledged survives crashes and failed appends, in order
\* and contiguous, and behind it stands at most the remains of one append.
AckedSurvives ==
  ~damaged => /\ SubSeq(file, 1, Len(acked)) = acked
              /\ Len(file) <= Len(acked) + 1

\* The verifier, given the recorded final hash, accepts nothing but exactly
\* the acknowledged events, whatever happened to the file.
VerifiedIsAcked == vpc = "valid" /\ anchored => seen = acked

\* An untouched trail fails verification only if it never held an event or an
\* append failed or was cut off half-way.
HonestTrailVerifies ==
  vpc = "invalid" /\ ~damaged => count = 0 \/ Len(copy) > count

\* Every call of append lets go of the lock, whichever way it ends.
LockReleased == lock # NoThread ~> lock = NoThread

\* The durable part of the file is an append-only log: it grows by one event
\* at a time, only while the writer is open, and nothing takes it back.
Log == INSTANCE AppendLog
         WITH Events <- Line,
              log    <- IF damaged THEN acked ELSE SubSeq(file, 1, count),
              open   <- writer = "open"
RefinesAppendLog == Log!Spec

===============================================================================
