--------------------------- MODULE AuditChainProofs ---------------------------
(***************************************************************************)
(* Proofs about AuditChain for any callers, payloads, runs and bound.      *)
(*                                                                         *)
(* The argument: a digest determines the whole chain below it.  Chain(h)   *)
(* is the one sequence of lines whose last digest is h; the writer keeps   *)
(* acked = Chain(finalHash), the verifier keeps seen = Chain(vhash), so    *)
(* when the two digests agree the two sequences do.                        *)
(***************************************************************************)
EXTENDS AuditChain, SequenceTheorems, TLAPS

Link(h, i) == [whole |-> TRUE, body |-> h[i], prev |-> SubSeq(h, 1, i - 1),
               hash |-> SubSeq(h, 1, i)]
Chain(h) == [i \in 1 .. Len(h) |-> Link(h, i)]

LockInv == \A t \in Threads : pc[t] # "idle" => lock = t /\ writer # "dead"

WriterInv ==
  /\ count = Len(finalHash)
  /\ acked = Chain(finalHash)
  /\ writer = "open" => ~damaged
  /\ \A t \in Threads :
       pc[t] = "written" => /\ writer = "open"
                            /\ file = Append(acked, NextEvent(arg[t]))
  /\ writer = "open" /\ (\A t \in Threads : pc[t] # "written") => file = acked

FileInv ==
  ~damaged => /\ Len(file) \in {count, count + 1}
              /\ SubSeq(file, 1, count) = acked

VerifierInv ==
  /\ vcount = Len(vhash)
  /\ seen = Chain(vhash)
  /\ vpc # "off" => writer # "open"
  /\ vpc = "valid" /\ anchored => vhash = finalHash

IInv == LockInv /\ WriterInv /\ FileInv /\ VerifierInv
-----------------------------------------------------------------------------
(* Facts about chains *)

\* Each line of a chain is a line of the file.
LEMMA LinkType ==
  ASSUME NEW h \in Hash, NEW i \in 1 .. Len(h)
  PROVE  Link(h, i) \in Line
<1>1. h[i] \in Body
  BY ElementOfSeq DEF Hash
<1>2. SubSeq(h, 1, i - 1) \in Hash /\ SubSeq(h, 1, i) \in Hash
  BY ElementOfSeq, SubSeqProperties, LenProperties DEF Hash
<1> QED BY <1>1, <1>2 DEF Link, Line

\* A chain has one line for each body in the digest.
LEMMA ChainType ==
  ASSUME NEW h \in Hash
  PROVE  Chain(h) \in Seq(Line) /\ Len(Chain(h)) = Len(h)
<1>1. Len(h) \in Nat
  BY LenProperties DEF Hash
<1>2. \A i \in 1 .. Len(h) : Link(h, i) \in Line
  BY LinkType
<1> QED BY <1>1, <1>2 DEF Chain

\* The chain of an extended digest is the chain with one more line.
LEMMA ChainAppend ==
  ASSUME NEW h \in Hash, NEW b \in Body
  PROVE  Chain(Append(h, b)) =
           Append(Chain(h), [whole |-> TRUE, body |-> b, prev |-> h,
                             hash |-> Append(h, b)])
<1> DEFINE g == Append(h, b)
           l == [whole |-> TRUE, body |-> b, prev |-> h, hash |-> g]
<1>1. /\ Len(h) \in Nat /\ g \in Hash /\ Len(g) = Len(h) + 1
      /\ \A i \in 1 .. Len(h) : g[i] = h[i]
      /\ g[Len(h) + 1] = b
  BY LenProperties, AppendProperties DEF Hash
<1>2. l \in Line
  BY <1>1 DEF Line
<1>3. \A n \in 0 .. Len(h) : SubSeq(g, 1, n) = SubSeq(h, 1, n)
  <2> TAKE n \in 0 .. Len(h)
  <2>1. \A i \in 1 .. n : g[i] \in Body /\ h[i] \in Body
    BY <1>1, ElementOfSeq DEF Hash
  <2>2. /\ SubSeq(g, 1, n) \in Seq(Body) /\ SubSeq(h, 1, n) \in Seq(Body)
        /\ Len(SubSeq(g, 1, n)) = n /\ Len(SubSeq(h, 1, n)) = n
    BY <1>1, <2>1, SubSeqProperties
  <2>3. \A i \in 1 .. n : SubSeq(g, 1, n)[i] = SubSeq(h, 1, n)[i]
    BY <1>1, <2>1, SubSeqProperties
  <2> QED BY <2>2, <2>3, SeqEqual
<1>4. SubSeq(g, 1, Len(h)) = h /\ SubSeq(g, 1, Len(h) + 1) = g
  BY <1>1, <1>3, SubSeqFull DEF Hash
<1>5. /\ Chain(g) \in Seq(Line) /\ Len(Chain(g)) = Len(h) + 1
      /\ Chain(h) \in Seq(Line) /\ Len(Chain(h)) = Len(h)
  BY <1>1, ChainType
<1>6. /\ Append(Chain(h), l) \in Seq(Line)
      /\ Len(Append(Chain(h), l)) = Len(h) + 1
      /\ \A i \in 1 .. Len(h) : Append(Chain(h), l)[i] = Chain(h)[i]
      /\ Append(Chain(h), l)[Len(h) + 1] = l
  BY <1>2, <1>5, AppendProperties
<1>7. /\ \A i \in 1 .. Len(g) : Chain(g)[i] = Link(g, i)
      /\ \A i \in 1 .. Len(h) : Chain(h)[i] = Link(h, i)
  BY DEF Chain
<1>8. Link(g, Len(h) + 1) = l
  <2> HIDE DEF g
  <2>1. Len(h) + 1 - 1 = Len(h)
    BY <1>1
  <2>2. SubSeq(g, 1, Len(h) + 1 - 1) = h
    BY <2>1, <1>4
  <2>3. g[Len(h) + 1] = b /\ SubSeq(g, 1, Len(h) + 1) = g
    BY <1>1, <1>4
  <2>4. Link(g, Len(h) + 1) =
          [whole |-> TRUE, body |-> g[Len(h) + 1],
           prev |-> SubSeq(g, 1, Len(h) + 1 - 1), hash |-> SubSeq(g, 1, Len(h) + 1)]
    BY DEF Link
  <2> HIDE DEF Link
  <2> QED BY <2>2, <2>3, <2>4
<1>9. ASSUME NEW i \in 1 .. Len(h)
      PROVE  Link(g, i) = Link(h, i)
  <2>1. i - 1 \in 0 .. Len(h) /\ i \in 0 .. Len(h)
    BY <1>1
  <2> QED BY <2>1, <1>1, <1>3 DEF Link
<1>10. \A i \in 1 .. Len(Chain(g)) : Chain(g)[i] = Append(Chain(h), l)[i]
  <2> HIDE DEF g, l
  <2> QED BY <1>1, <1>5, <1>6, <1>7, <1>8, <1>9
<1> HIDE DEF g, l
<1>11. Chain(g) = Append(Chain(h), l)
  BY <1>1, <1>5, <1>6, <1>10, SeqEqual
<1> QED BY <1>11 DEF g, l
-----------------------------------------------------------------------------
(* Types *)

\* What append writes next is a line.
LEMMA NextEventType ==
  ASSUME TypeOK, NEW p \in Payloads
  PROVE  /\ NextBody(p) \in Body
         /\ NextEvent(p) \in Line
         /\ Digest(finalHash, NextBody(p)) \in Hash
<1>1. NextBody(p) \in Body
  BY RunAssumption DEF TypeOK, NextBody, Body
<1>2. Digest(finalHash, NextBody(p)) \in Hash
  BY <1>1, AppendProperties DEF TypeOK, Digest, Hash
<1> QED BY <1>1, <1>2 DEF TypeOK, NextEvent, Line

\* A damaged line is one.
LEMMA LineEditType ==
  ASSUME NEW line \in Line, NEW r \in Runs, NEW p \in Payloads
  PROVE  /\ Torn(line) \in Line
         /\ Altered(line, p) \in Line
         /\ Rewritten(line, r, p) \in Line
<1>1. Torn(line) \in Line
  BY DEF Torn, Line
<1>2. Altered(line, p) \in Line
  <2>1. [line.body EXCEPT !.payload = p] \in Body
    BY DEF Line, Body
  <2> QED BY <2>1 DEF Altered, Line
<1>3. Rewritten(line, r, p) \in Line
  <2> DEFINE body == [seq |-> line.body.seq, run |-> r, payload |-> p]
  <2>1. body \in Body /\ line.prev \in Hash
    BY DEF Line, Body
  <2>2. Digest(line.prev, body) \in Hash
    BY <2>1, AppendProperties DEF Digest, Hash
  <2> QED BY <2>1, <2>2 DEF Rewritten, Line
<1> QED BY <1>1, <1>2, <1>3

\* A crash leaves at most one line of the one in flight.
LEMMA RemainsType ==
  ASSUME NEW line \in Line, NEW r \in Remains(line)
  PROVE  r \in Seq(Line) /\ Len(r) \in {0, 1}
<1>1. Torn(line) \in Line
  BY DEF Torn, Line
<1>2. \A l \in Line : <<l>> \in Seq(Line) /\ Len(<<l>>) = 1
  OBVIOUS
<1> QED BY <1>1, <1>2, EmptySeq DEF Remains

\* A damaged file is a sequence of lines.
LEMMA DamagedType ==
  ASSUME NEW lines \in Seq(Line), NEW f \in Damaged(lines)
  PROVE  f \in Seq(Line)
<1> DEFINE n == Len(lines)
<1>1. n \in Nat /\ \A i \in 1 .. n : lines[i] \in Line
  BY LenProperties, ElementOfSeq
<1>2. \A a, b \in Int : 1 <= a /\ b <= n => SubSeq(lines, a, b) \in Seq(Line)
  BY <1>1, SubSeqProperties
<1>3. ASSUME NEW i \in 1 .. n
      PROVE  WithoutTail(lines, i - 1) \in Seq(Line)
  BY <1>1, <1>2 DEF WithoutTail
<1>4. ASSUME NEW i \in 1 .. n
      PROVE  WithoutLine(lines, i) \in Seq(Line)
  <2>1. SubSeq(lines, 1, i - 1) \in Seq(Line) /\ SubSeq(lines, i + 1, n) \in Seq(Line)
    BY <1>1, <1>2
  <2> QED BY <2>1, ConcatProperties DEF WithoutLine
<1>5. ASSUME NEW i \in 1 .. n, NEW new \in Line
      PROVE  [lines EXCEPT ![i] = new] \in Seq(Line)
  BY ExceptSeq
<1>6. ASSUME NEW i \in 1 .. n, NEW r \in Runs, NEW p \in Payloads
      PROVE  Altered(lines[i], p) \in Line /\ Rewritten(lines[i], r, p) \in Line
  BY <1>1, LineEditType
<1>7. \A i \in 1 .. n, p \in Payloads : Altered(lines[i], p) \in Line
  BY <1>6, RunAssumption
<1>8. Shortened(lines) \subseteq Seq(Line)
  BY <1>3, <1>4 DEF Shortened
<1>9. Overwritten(lines) \subseteq Seq(Line)
  BY <1>1, <1>5 DEF Overwritten
<1>10. Changed(lines) \subseteq Seq(Line)
  BY <1>5, <1>7 DEF Changed
<1>11. ASSUME NEW g \in Forged(lines) PROVE g \in Seq(Line)
  <2>1. PICK i \in 1 .. n, r \in Runs, p \in Payloads :
          g = [lines EXCEPT ![i] = Rewritten(lines[i], r, p)]
    BY DEF Forged
  <2>2. Rewritten(lines[i], r, p) \in Line
    BY <1>6
  <2> QED BY <2>1, <2>2, <1>5
<1> QED BY <1>8, <1>9, <1>10, <1>11 DEF Damaged

\* Every step keeps the types.
LEMMA TypeStep == TypeOK /\ [Next]_vars => TypeOK'
<1> SUFFICES ASSUME TypeOK, [Next]_vars PROVE TypeOK'
  OBVIOUS
<1>1. ASSUME NEW t \in Threads, NEW p \in Payloads, Enter(t, p) PROVE TypeOK'
  BY <1>1 DEF TypeOK, Enter, verifierVars
<1>2. ASSUME NEW t \in Threads, Refuse(t) PROVE TypeOK'
  BY <1>2 DEF TypeOK, Refuse, Leave, verifierVars
<1>3. ASSUME NEW t \in Threads, Write(t) PROVE TypeOK'
  <2>1. NextEvent(arg[t]) \in Line
    BY NextEventType DEF TypeOK
  <2>2. file' \in Seq(Line)
    BY <1>3, <2>1, AppendProperties DEF Write, TypeOK
  <2> QED BY <1>3, <2>2 DEF TypeOK, Write, verifierVars
<1>4. ASSUME NEW t \in Threads, WriteFails(t) PROVE TypeOK'
  <2>1. NextEvent(arg[t]) \in Line
    BY NextEventType DEF TypeOK
  <2>2. PICK r \in Remains(NextEvent(arg[t])) : file' = file \o r
    BY <1>4 DEF WriteFails
  <2>3. file' \in Seq(Line)
    BY <2>1, <2>2, RemainsType, ConcatProperties DEF TypeOK
  <2> QED BY <1>4, <2>3 DEF TypeOK, WriteFails, Leave, verifierVars
<1>5. ASSUME NEW t \in Threads, Advance(t) PROVE TypeOK'
  <2>1. NextEvent(arg[t]) \in Line /\ finalHash' \in Hash
    BY <1>5, NextEventType DEF TypeOK, Advance
  <2>2. acked' \in Seq(Line)
    BY <1>5, <2>1, AppendProperties DEF Advance, TypeOK
  <2> QED BY <1>5, <2>1, <2>2 DEF TypeOK, Advance, Leave, verifierVars
<1>6. ASSUME NEW t \in Threads, SyncFails(t) PROVE TypeOK'
  BY <1>6 DEF TypeOK, SyncFails, Leave, verifierVars
<1>7. CASE Close
  BY <1>7 DEF TypeOK, Close, verifierVars
<1>8. CASE Crash
  <2>1. file' \in Seq(Line)
    <3>1. CASE Len(file) > count
      <4>1. PICK r \in Remains(file[count + 1]) : file' = SubSeq(file, 1, count) \o r
        BY <1>8, <3>1 DEF Crash
      <4>2. file[count + 1] \in Line /\ SubSeq(file, 1, count) \in Seq(Line)
        BY <3>1, LenProperties, ElementOfSeq, SubSeqProperties DEF TypeOK
      <4> QED BY <4>1, <4>2, RemainsType, ConcatProperties
    <3>2. CASE ~(Len(file) > count)
      BY <1>8, <3>2 DEF Crash, TypeOK
    <3> QED BY <3>1, <3>2
  <2> QED BY <1>8, <2>1 DEF TypeOK, Crash, verifierVars
<1>9. CASE Damage
  <2>1. file' \in Seq(Line)
    BY <1>9, DamagedType DEF Damage, TypeOK
  <2> QED BY <1>9, <2>1 DEF TypeOK, Damage, writerVars, verifierVars
<1>10. CASE VerifyStart
  BY <1>10 DEF TypeOK, VerifyStart, writerVars
<1>11. CASE VerifyLine
  <2>1. copy[vcount + 1] \in Line
    BY <1>11, LenProperties, ElementOfSeq DEF VerifyLine, TypeOK
  <2>2. seen' \in Seq(Line) /\ vhash' \in Hash
    BY <1>11, <2>1, AppendProperties DEF VerifyLine, TypeOK, Line
  <2> QED BY <1>11, <2>2 DEF TypeOK, VerifyLine, writerVars
<1>12. CASE RejectLine
  BY <1>12 DEF TypeOK, RejectLine, writerVars
<1>13. CASE VerifyEnd
  BY <1>13 DEF TypeOK, VerifyEnd, writerVars
<1>14. CASE UNCHANGED vars
  BY <1>14 DEF TypeOK, vars, writerVars, verifierVars
<1> QED BY <1>1, <1>2, <1>3, <1>4, <1>5, <1>6, <1>7, <1>8, <1>9, <1>10, <1>11,
           <1>12, <1>13, <1>14 DEF Next, Append_, Verify

\* Every variable keeps its type.
THEOREM TypeCorrect == Spec => []TypeOK
<1>1. << >> \in Seq(Line) /\ Genesis \in Hash
  BY EmptySeq DEF Hash, Genesis
<1>2. Init => TypeOK
  <2> SUFFICES ASSUME Init PROVE TypeOK
    OBVIOUS
  <2>1. /\ file \in Seq(Line) /\ acked \in Seq(Line)
        /\ copy \in Seq(Line) /\ seen \in Seq(Line)
        /\ finalHash \in Hash /\ vhash \in Hash
    BY <1>1, Zenon DEF Init
  <2>2. pc \in [Threads -> {"idle", "entered", "written"}]
    BY DEF Init
  <2>3. count \in Nat /\ vcount \in Nat /\ damaged \in BOOLEAN /\ anchored \in BOOLEAN
    BY DEF Init
  <2> QED BY <2>1, <2>2, <2>3, Zenon DEF Init, TypeOK
<1> QED BY <1>2, TypeStep, PTL DEF Spec
-----------------------------------------------------------------------------
(* The inductive invariant *)

\* A sequence is the prefix of what is appended to it.
LEMMA PrefixOfConcat ==
  ASSUME NEW s \in Seq(Line), NEW r \in Seq(Line)
  PROVE  SubSeq(s \o r, 1, Len(s)) = s
<1>1. /\ s \o r \in Seq(Line) /\ Len(s) \in Nat
      /\ Len(s \o r) = Len(s) + Len(r) /\ Len(r) \in Nat
      /\ \A i \in 1 .. Len(s) : (s \o r)[i] = s[i] /\ s[i] \in Line
  BY LenProperties, ConcatProperties, ElementOfSeq
<1>2. /\ SubSeq(s \o r, 1, Len(s)) \in Seq(Line)
      /\ Len(SubSeq(s \o r, 1, Len(s))) = Len(s)
      /\ \A i \in 1 .. Len(s) : SubSeq(s \o r, 1, Len(s))[i] = s[i]
  BY <1>1, SubSeqProperties
<1> QED BY <1>2, SeqEqual

\* The same for one more element.
LEMMA PrefixOfAppend ==
  ASSUME NEW s \in Seq(Line), NEW e \in Line
  PROVE  SubSeq(Append(s, e), 1, Len(s)) = s
<1>1. <<e>> \in Seq(Line) /\ Append(s, e) = s \o <<e>>
  BY AppendIsConcat
<1> QED BY <1>1, PrefixOfConcat

\* The writer counts the events it acknowledged.
LEMMA AckedLength == TypeOK /\ WriterInv => Len(acked) = count
  BY ChainType DEF TypeOK, WriterInv

\* Only the holder of the lock is inside append.
LEMMA OneInside ==
  ASSUME TypeOK, LockInv, NEW t \in Threads, pc[t] # "idle"
  PROVE  \A u \in Threads : u # t => pc[u] = "idle"
BY DEF LockInv

\* While the lock is free nobody is.
LEMMA NobodyInside ==
  ASSUME LockInv, lock = NoThread
  PROVE  \A t \in Threads : pc[t] = "idle"
BY NoThreadAssumption DEF LockInv

\* Entering takes the free lock.
LEMMA EnterStep ==
  ASSUME TypeOK, IInv, NEW t \in Threads, NEW p \in Payloads, Enter(t, p)
  PROVE  IInv'
<1>1. \A u \in Threads : pc[u] = "idle"
  BY NobodyInside DEF IInv, Enter
<1>2. LockInv'
  BY <1>1 DEF TypeOK, LockInv, Enter
<1>3. WriterInv'
  BY <1>1 DEF TypeOK, IInv, WriterInv, Enter
<1> QED BY <1>2, <1>3 DEF IInv, FileInv, VerifierInv, Enter, verifierVars

\* A refused append gives the lock back and changes nothing.
LEMMA RefuseStep ==
  ASSUME TypeOK, IInv, NEW t \in Threads, Refuse(t)
  PROVE  IInv'
<1>1. pc[t] = "entered" /\ \A u \in Threads : u # t => pc[u] = "idle"
  BY OneInside DEF IInv, Refuse
<1>2. LockInv'
  BY <1>1 DEF TypeOK, LockInv, Refuse, Leave
<1>3. WriterInv'
  BY <1>1 DEF TypeOK, IInv, WriterInv, Refuse, Leave
<1> QED BY <1>2, <1>3 DEF IInv, FileInv, VerifierInv, Refuse, verifierVars

\* The line in flight is the next one of the chain.
LEMMA WriteStep ==
  ASSUME TypeOK, IInv, NEW t \in Threads, Write(t)
  PROVE  IInv'
<1>1. pc[t] = "entered" /\ \A u \in Threads : u # t => pc[u] = "idle"
  BY OneInside DEF IInv, Write, MayWrite
<1>2. writer = "open" /\ file = acked
  BY <1>1 DEF IInv, WriterInv, Write, MayWrite
<1>3. LockInv'
  BY <1>1 DEF TypeOK, IInv, LockInv, Write
<1>4. NextEvent(arg[t]) \in Line
  BY NextEventType DEF TypeOK
<1>5. UNCHANGED <<finalHash, count, arg, acked, writer, damaged>>
  BY DEF Write
<1>6. file' = Append(acked, NextEvent(arg[t]))
  BY <1>2 DEF Write
<1>7. NextEvent(arg[t])' = NextEvent(arg[t])
  BY <1>5 DEF NextEvent, NextBody
<1>8. pc' = [pc EXCEPT ![t] = "written"]
  BY DEF Write
<1>9. WriterInv'
  <2>1. \A u \in Threads : pc'[u] = "written" => u = t
    BY <1>1, <1>8 DEF TypeOK
  <2>2. pc'[t] = "written"
    BY <1>8 DEF TypeOK
  <2> QED BY <1>2, <1>5, <1>6, <1>7, <2>1, <2>2 DEF IInv, WriterInv
<1>10. FileInv'
  <2>1. Len(acked) = count
    BY AckedLength DEF IInv
  <2>2. Len(file') = count + 1 /\ SubSeq(file', 1, count) = acked
    BY <1>4, <1>6, <2>1, AppendProperties, PrefixOfAppend DEF TypeOK
  <2> QED BY <1>5, <2>2 DEF FileInv
<1> QED BY <1>3, <1>9, <1>10 DEF IInv, VerifierInv, Write, verifierVars

\* A torn line goes after the acknowledged ones, and stops the writer.
LEMMA WriteFailsStep ==
  ASSUME TypeOK, IInv, NEW t \in Threads, WriteFails(t)
  PROVE  IInv'
<1>1. pc[t] = "entered" /\ \A u \in Threads : u # t => pc[u] = "idle"
  BY OneInside DEF IInv, WriteFails, MayWrite
<1>2. writer = "open" /\ file = acked
  BY <1>1 DEF IInv, WriterInv, WriteFails, MayWrite
<1>3. LockInv' /\ \A u \in Threads : pc'[u] = "idle"
  BY <1>1 DEF TypeOK, LockInv, WriteFails, Leave
<1>4. WriterInv'
  BY <1>3 DEF IInv, WriterInv, WriteFails
<1>5. FileInv'
  <2>1. Len(acked) = count
    BY AckedLength DEF IInv
  <2>2. acked \in Seq(Line) /\ count \in Nat /\ NextEvent(arg[t]) \in Line
    BY NextEventType DEF TypeOK
  <2>3. \E r \in Remains(NextEvent(arg[t])) : file' = acked \o r
    BY <1>2 DEF WriteFails
  <2>4. \E r \in Seq(Line) : Len(r) \in {0, 1} /\ file' = acked \o r
    BY <2>2, <2>3, RemainsType
  <2>5. Len(file') \in {count, count + 1} /\ SubSeq(file', 1, count) = acked
    <3>1. PICK r \in Seq(Line) : Len(r) \in {0, 1} /\ file' = acked \o r
      BY <2>4
    <3>2. Len(file') = count + Len(r)
      BY <2>1, <2>2, <3>1, ConcatProperties
    <3>3. SubSeq(file', 1, count) = acked
      BY <2>1, <2>2, <3>1, PrefixOfConcat
    <3> QED BY <2>2, <3>1, <3>2, <3>3
  <2> QED BY <2>5 DEF FileInv, WriteFails
<1>6. VerifierInv'
  BY DEF IInv, VerifierInv, WriteFails, verifierVars
<1> QED BY <1>3, <1>4, <1>5, <1>6 DEF IInv

\* The line in flight becomes the last acknowledged one.
LEMMA AdvanceStep ==
  ASSUME TypeOK, IInv, NEW t \in Threads, Advance(t)
  PROVE  IInv'
<1>1. pc[t] = "written" /\ \A u \in Threads : u # t => pc[u] = "idle"
  BY OneInside DEF IInv, Advance
<1>2. writer = "open" /\ file = Append(acked, NextEvent(arg[t]))
  BY <1>1 DEF IInv, WriterInv
<1>3. LockInv' /\ \A u \in Threads : pc'[u] = "idle"
  BY <1>1 DEF TypeOK, LockInv, Advance, Leave
<1>4. NextBody(arg[t]) \in Body /\ NextEvent(arg[t]) \in Line
  BY NextEventType DEF TypeOK
<1>5. file' = acked'
  BY <1>2 DEF Advance
<1>6. acked' = Chain(finalHash')
  <2>1. NextEvent(arg[t]) =
          [whole |-> TRUE, body |-> NextBody(arg[t]), prev |-> finalHash,
           hash |-> Append(finalHash, NextBody(arg[t]))]
    BY DEF NextEvent, Digest
  <2>2. Chain(Append(finalHash, NextBody(arg[t]))) =
          Append(Chain(finalHash), NextEvent(arg[t]))
    BY <1>4, <2>1, ChainAppend DEF TypeOK
  <2> QED BY <2>2 DEF Advance, Digest, IInv, WriterInv
<1>7. count' = Len(finalHash')
  BY <1>4, AppendProperties DEF TypeOK, Hash, Advance, Digest, IInv, WriterInv
<1>8. WriterInv'
  BY <1>2, <1>3, <1>5, <1>6, <1>7 DEF IInv, WriterInv, Advance
<1>9. FileInv'
  <2>1. acked' \in Seq(Line) /\ Len(acked') = count'
    <3>1. Len(acked) = count
      BY AckedLength DEF IInv
    <3> QED BY <1>4, <3>1, AppendProperties DEF TypeOK, Advance
  <2> QED BY <1>5, <2>1, SubSeqFull DEF FileInv
<1>10. VerifierInv'
  BY <1>2 DEF IInv, VerifierInv, Advance, verifierVars
<1> QED BY <1>3, <1>8, <1>9, <1>10 DEF IInv

\* An event that was not synchronised stops the writer.
LEMMA SyncFailsStep ==
  ASSUME TypeOK, IInv, NEW t \in Threads, SyncFails(t)
  PROVE  IInv'
<1>1. pc[t] = "written" /\ \A u \in Threads : u # t => pc[u] = "idle"
  BY OneInside DEF IInv, SyncFails
<1>2. LockInv' /\ \A u \in Threads : pc'[u] = "idle"
  BY <1>1 DEF TypeOK, LockInv, SyncFails, Leave
<1>3. WriterInv'
  BY <1>2 DEF IInv, WriterInv, SyncFails
<1> QED BY <1>2, <1>3 DEF IInv, FileInv, VerifierInv, SyncFails, verifierVars

\* Closing changes the state of the writer only.
LEMMA CloseStep ==
  ASSUME TypeOK, IInv, Close
  PROVE  IInv'
<1>1. \A u \in Threads : pc[u] = "idle"
  BY NobodyInside DEF IInv, Close
<1>2. LockInv' /\ WriterInv'
  BY <1>1 DEF IInv, LockInv, WriterInv, Close
<1> QED BY <1>2 DEF IInv, FileInv, VerifierInv, Close, verifierVars

\* A crash may take the line in flight and no other.
LEMMA CrashStep ==
  ASSUME TypeOK, IInv, Crash
  PROVE  IInv'
<1>1. LockInv' /\ \A u \in Threads : pc'[u] = "idle"
  BY DEF LockInv, Crash
<1>2. WriterInv'
  BY <1>1 DEF IInv, WriterInv, Crash
<1>3. FileInv'
  <2>1. /\ Len(acked) = count /\ acked \in Seq(Line) /\ count \in Nat
        /\ SubSeq(file, 1, count) = acked /\ Len(file) \in {count, count + 1}
    BY AckedLength DEF IInv, FileInv, Crash, TypeOK
  <2>2. CASE Len(file) > count
    <3>1. PICK r \in Remains(file[count + 1]) : file' = acked \o r
      BY <2>1, <2>2 DEF Crash
    <3>2. file[count + 1] \in Line
      BY <2>1, <2>2, ElementOfSeq DEF TypeOK
    <3>3. r \in Seq(Line) /\ Len(r) \in {0, 1}
      BY <3>2, RemainsType
    <3>4. Len(file') = count + Len(r)
      BY <2>1, <3>1, <3>3, ConcatProperties
    <3>5. SubSeq(file', 1, count) = acked
      BY <2>1, <3>1, <3>3, PrefixOfConcat
    <3> QED BY <2>1, <3>3, <3>4, <3>5 DEF FileInv, Crash
  <2>3. CASE ~(Len(file) > count)
    BY <2>1, <2>3 DEF FileInv, Crash
  <2> QED BY <2>2, <2>3
<1>4. VerifierInv'
  BY DEF IInv, VerifierInv, Crash, verifierVars
<1> QED BY <1>1, <1>2, <1>3, <1>4 DEF IInv

\* Damage is done to a file that nobody writes.
LEMMA DamageStep ==
  ASSUME TypeOK, IInv, Damage
  PROVE  IInv'
<1>1. \A u \in Threads : pc[u] = "idle"
  BY NobodyInside DEF IInv, Damage
<1>2. LockInv' /\ WriterInv'
  BY <1>1 DEF IInv, LockInv, WriterInv, Damage, writerVars
<1> QED BY <1>2 DEF IInv, FileInv, VerifierInv, Damage, writerVars, verifierVars

\* The verifier has seen the chain of the digest it holds.
LEMMA VerifyStep ==
  ASSUME TypeOK, IInv, Verify
  PROVE  IInv'
<1>1. UNCHANGED <<file, writerVars, damaged>>
  BY DEF Verify, VerifyStart, VerifyLine, RejectLine, VerifyEnd
<1>2. LockInv' /\ WriterInv' /\ FileInv'
  BY <1>1 DEF IInv, LockInv, WriterInv, FileInv, writerVars, NextEvent, NextBody
<1>3. VerifierInv'
  <2>1. CASE VerifyStart
    BY <2>1 DEF IInv, VerifierInv, VerifyStart, writerVars
  <2>2. CASE VerifyLine
    <3> DEFINE line == copy[vcount + 1]
    <3>1. line \in Line
      BY <2>2, LenProperties, ElementOfSeq DEF VerifyLine, TypeOK
    <3>2. line.whole = TRUE /\ line.prev = vhash /\ line.hash = Append(vhash, line.body)
      BY <2>2, <3>1 DEF VerifyLine, LineOk, Digest, Line
    <3>3. line = [whole |-> TRUE, body |-> line.body, prev |-> vhash,
                  hash |-> Append(vhash, line.body)]
      BY <3>1, <3>2 DEF Line
    <3>4. line.body \in Body
      BY <3>1 DEF Line
    <3>5. Chain(Append(vhash, line.body)) = Append(Chain(vhash), line)
      BY <3>3, <3>4, ChainAppend DEF TypeOK
    <3>6. vhash' = Append(vhash, line.body) /\ seen' = Append(seen, line)
      BY <2>2, <3>2 DEF VerifyLine
    <3>7. seen' = Chain(vhash') /\ vcount' = Len(vhash')
      <4>1. Len(Append(vhash, line.body)) = Len(vhash) + 1
        BY <3>4, AppendProperties DEF TypeOK, Hash
      <4> HIDE DEF line
      <4> QED BY <2>2, <3>5, <3>6, <4>1 DEF IInv, VerifierInv, VerifyLine
    <3> QED BY <2>2, <3>7 DEF IInv, VerifierInv, VerifyLine, writerVars
  <2>3. CASE RejectLine
    BY <2>3 DEF IInv, VerifierInv, RejectLine, writerVars
  <2>4. CASE VerifyEnd
    BY <2>4 DEF IInv, VerifierInv, VerifyEnd, Accepts, writerVars
  <2> QED BY <2>1, <2>2, <2>3, <2>4 DEF Verify
<1> QED BY <1>2, <1>3 DEF IInv

\* Every step preserves the inductive invariant.
LEMMA IInvStep == TypeOK /\ IInv /\ [Next]_vars => IInv'
<1> SUFFICES ASSUME TypeOK, IInv, [Next]_vars PROVE IInv'
  OBVIOUS
<1>1. CASE UNCHANGED vars
  BY <1>1 DEF IInv, LockInv, WriterInv, FileInv, VerifierInv, NextEvent, NextBody,
              vars, writerVars, verifierVars
<1>2. CASE Next
  BY <1>2, EnterStep, RefuseStep, WriteStep, WriteFailsStep, AdvanceStep,
     SyncFailsStep, CloseStep, CrashStep, DamageStep, VerifyStep DEF Next, Append_
<1> QED BY <1>1, <1>2

\* The types and the inductive invariant hold in every reachable state.
THEOREM Invariance == Spec => [](TypeOK /\ IInv)
<1>1. Init => IInv
  <2> SUFFICES ASSUME Init PROVE IInv
    OBVIOUS
  <2>1. Chain(<< >>) = << >> /\ Len(<< >>) = 0
    BY DEF Chain
  <2>2. SubSeq(<< >>, 1, 0) = << >>
    BY SubSeqEmpty
  <2> QED BY <2>1, <2>2 DEF Init, IInv, LockInv, WriterInv, FileInv, VerifierInv, Genesis
<1> QED BY <1>1, IInvStep, TypeCorrect, TypeStep, PTL DEF Spec

\* Acknowledged events survive failed appends and crashes.
THEOREM AckedSurvivesAlways == Spec => []AckedSurvives
<1>1. TypeOK /\ IInv => AckedSurvives
  BY AckedLength DEF IInv, FileInv, AckedSurvives, TypeOK
<1> QED BY <1>1, Invariance, PTL

\* Against the recorded final hash only the acknowledged events verify.
THEOREM VerifiedIsAckedAlways == Spec => []VerifiedIsAcked
<1>1. IInv => VerifiedIsAcked
  BY DEF IInv, WriterInv, VerifierInv, VerifiedIsAcked
<1> QED BY <1>1, Invariance, PTL

-----------------------------------------------------------------------------
(* An honest trail verifies *)

\* The bodies that the recorded digest covers are numbered from zero, and all
\* of this run.
NumberedInv ==
  \A i \in 1 .. count : finalHash[i].seq = i - 1 /\ finalHash[i].run = ThisRun

\* The verifier's snapshot of an undamaged trail begins with the acknowledged
\* events; as long as it is among them its digest is a prefix of the writer's.
SnapshotInv ==
  /\ vpc = "off" => vcount = 0 /\ vhash = Genesis
  /\ ~damaged /\ vpc # "off" =>
       /\ Len(copy) \in {count, count + 1}
       /\ SubSeq(copy, 1, count) = acked
       /\ vcount <= Len(copy)
       /\ vcount <= count => vhash = SubSeq(finalHash, 1, vcount)

HonestInv == NumberedInv /\ SnapshotInv /\ HonestTrailVerifies

\* The next body gets the next number.
LEMMA NumberedStep ==
  ASSUME TypeOK, IInv, NumberedInv, [Next]_vars
  PROVE  NumberedInv'
<1>1. CASE UNCHANGED <<count, finalHash>>
  BY <1>1 DEF NumberedInv
<1>2. ASSUME NEW t \in Threads, Advance(t)
      PROVE  NumberedInv'
  <2> DEFINE b == NextBody(arg[t])
  <2>1. finalHash' = Append(finalHash, b) /\ count' = count + 1
    BY <1>2 DEF Advance, Digest
  <2>2. b \in Body /\ b.seq = count /\ b.run = ThisRun
    BY NextEventType DEF NextBody, TypeOK
  <2>3. Len(finalHash) = count /\ count \in Nat /\ finalHash \in Seq(Body)
    BY DEF IInv, WriterInv, TypeOK, Hash
  <2> HIDE DEF b
  <2>4. /\ finalHash'[count + 1] = b
        /\ \A i \in 1 .. count : finalHash'[i] = finalHash[i]
    BY <2>1, <2>2, <2>3, AppendProperties
  <2> QED BY <2>1, <2>2, <2>3, <2>4 DEF NumberedInv
<1>3. UNCHANGED <<count, finalHash>> \/ \E t \in Threads : Advance(t)
  BY DEF Next, Append_, Enter, Refuse, Write, WriteFails, SyncFails, Close, Crash,
         Damage, Verify, VerifyStart, VerifyLine, RejectLine, VerifyEnd, vars,
         writerVars
<1> QED BY <1>1, <1>2, <1>3

\* The verifier accepts the next line of a trail whose acknowledged events it
\* has not all seen.
LEMMA AckedLineOk ==
  ASSUME TypeOK, IInv, HonestInv, ~damaged, vpc # "off", vcount < count
  PROVE  /\ LineOk(copy[vcount + 1])
         /\ copy[vcount + 1].hash = SubSeq(finalHash, 1, vcount + 1)
<1> DEFINE n == vcount + 1
<1>1. /\ count \in Nat /\ vcount \in Nat /\ n \in 1 .. count
      /\ finalHash \in Seq(Body) /\ finalHash \in Hash /\ Len(finalHash) = count
      /\ copy \in Seq(Line) /\ Len(copy) \in {count, count + 1}
  BY DEF TypeOK, IInv, WriterInv, HonestInv, SnapshotInv, Hash
<1>2. copy[n] = acked[n]
  <2>1. \A i \in 1 .. count : copy[i] \in Line
    BY <1>1, ElementOfSeq
  <2>2. SubSeq(copy, 1, count)[n] = copy[n]
    BY <1>1, <2>1, SubSeqProperties
  <2> QED BY <2>2 DEF HonestInv, SnapshotInv
<1>3. acked[n] = Link(finalHash, n)
  BY <1>1 DEF IInv, WriterInv, Chain
<1>4. vhash = SubSeq(finalHash, 1, vcount)
  BY <1>1 DEF HonestInv, SnapshotInv
<1>5. finalHash[n] \in Body /\ finalHash[n].seq = vcount /\ finalHash[n].run = ThisRun
  BY <1>1, ElementOfSeq DEF HonestInv, NumberedInv
<1>6. SubSeq(finalHash, 1, n) = Append(vhash, finalHash[n])
  <2>1. \A i \in 1 .. count : finalHash[i] \in Body
    BY <1>1, ElementOfSeq
  <2>2. /\ SubSeq(finalHash, 1, n) \in Seq(Body) /\ Len(SubSeq(finalHash, 1, n)) = n
        /\ \A i \in 1 .. n : SubSeq(finalHash, 1, n)[i] = finalHash[i]
    BY <1>1, <2>1, SubSeqProperties
  <2>3. /\ vhash \in Seq(Body) /\ Len(vhash) = vcount
        /\ \A i \in 1 .. vcount : vhash[i] = finalHash[i]
    BY <1>1, <1>4, <2>1, SubSeqProperties DEF IInv, VerifierInv, TypeOK, Hash
  <2>4. /\ Append(vhash, finalHash[n]) \in Seq(Body)
        /\ Len(Append(vhash, finalHash[n])) = n
        /\ \A i \in 1 .. vcount : Append(vhash, finalHash[n])[i] = vhash[i]
        /\ Append(vhash, finalHash[n])[n] = finalHash[n]
    BY <1>5, <2>3, AppendProperties
  <2>5. \A i \in 1 .. n : SubSeq(finalHash, 1, n)[i] = Append(vhash, finalHash[n])[i]
    BY <1>1, <2>2, <2>3, <2>4
  <2> HIDE DEF n
  <2> QED BY <1>1, <2>2, <2>4, <2>5, SeqEqual
<1>7. n - 1 = vcount
  BY <1>1
<1>8. Link(finalHash, n) = [whole |-> TRUE, body |-> finalHash[n], prev |-> vhash,
                           hash |-> Append(vhash, finalHash[n])]
  BY <1>4, <1>6, <1>7 DEF Link
<1> HIDE DEF n
<1>9. LineOk(copy[n]) /\ copy[n].hash = SubSeq(finalHash, 1, n)
  <2>1. /\ copy[n].whole = TRUE /\ copy[n].body = finalHash[n] /\ copy[n].prev = vhash
        /\ copy[n].hash = Append(vhash, finalHash[n])
    BY <1>2, <1>3, <1>8
  <2> QED BY <2>1, <1>5, <1>6 DEF LineOk, Digest
<1> QED BY <1>9 DEF n

\* The steps that take no snapshot and read no line.
LEMMA HonestOthers ==
  ASSUME TypeOK, IInv, HonestInv, [Next]_vars, ~Verify
  PROVE  SnapshotInv' /\ HonestTrailVerifies'
<1>1. verifierVars' = verifierVars /\ (damaged => damaged')
  BY DEF Next, Append_, Enter, Refuse, Write, WriteFails, Advance, SyncFails, Close,
         Crash, Damage, vars
<1>2. vpc # "off" => UNCHANGED <<count, finalHash, acked>>
  <2> SUFFICES ASSUME vpc # "off" PROVE UNCHANGED <<count, finalHash, acked>>
    OBVIOUS
  <2>1. \A t \in Threads : ~Advance(t)
    BY DEF IInv, WriterInv, VerifierInv, Advance
  <2> QED BY <2>1 DEF Next, Append_, Enter, Refuse, Write, WriteFails, SyncFails, Close,
            Crash, Damage, vars, writerVars
<1> QED BY <1>1, <1>2 DEF HonestInv, SnapshotInv, HonestTrailVerifies, verifierVars

\* The steps of the verifier.
LEMMA HonestVerify ==
  ASSUME TypeOK, IInv, HonestInv, Verify
  PROVE  SnapshotInv' /\ HonestTrailVerifies'
<1>1. UNCHANGED <<count, finalHash, acked, damaged>>
  BY DEF Verify, VerifyStart, VerifyLine, RejectLine, VerifyEnd, writerVars
<1>2. /\ count \in Nat /\ vcount \in Nat /\ Len(copy) \in Nat
      /\ finalHash \in Hash /\ Len(finalHash) = count
  BY LenProperties DEF TypeOK, IInv, WriterInv
<1>3. CASE VerifyStart
  <2>1. vcount' = 0 /\ vhash' = Genesis /\ copy' = file /\ vpc' = "reading"
    BY <1>3 DEF VerifyStart, HonestInv, SnapshotInv
  <2>2. SubSeq(finalHash, 1, 0) = Genesis
    BY SubSeqEmpty DEF Genesis
  <2> QED BY <1>1, <1>2, <2>1, <2>2, LenProperties
        DEF IInv, FileInv, SnapshotInv, HonestTrailVerifies, TypeOK
<1>4. CASE VerifyLine
  <2>1. /\ vpc = "reading" /\ vpc' = "reading" /\ copy' = copy /\ vcount < Len(copy)
        /\ vcount' = vcount + 1 /\ vhash' = copy[vcount + 1].hash
    BY <1>4 DEF VerifyLine
  <2>2. ~damaged /\ vcount + 1 <= count => vhash' = SubSeq(finalHash, 1, vcount + 1)
    BY <1>2, <2>1, AckedLineOk
  <2> QED BY <1>1, <1>2, <2>1, <2>2 DEF HonestInv, SnapshotInv, HonestTrailVerifies
<1>5. CASE RejectLine
  <2>1. /\ vpc = "reading" /\ vpc' = "invalid" /\ UNCHANGED <<copy, vcount, vhash>>
        /\ vcount < Len(copy) /\ ~LineOk(copy[vcount + 1])
    BY <1>5 DEF RejectLine
  <2>2. ~damaged => Len(copy) > count
    BY <1>2, <2>1, AckedLineOk DEF HonestInv, SnapshotInv
  <2> QED BY <1>1, <2>1, <2>2 DEF HonestInv, SnapshotInv, HonestTrailVerifies
<1>6. CASE VerifyEnd
  <2>1. /\ vpc = "reading" /\ vpc' \in {"valid", "invalid"} /\ UNCHANGED <<copy, vcount, vhash>>
        /\ vcount >= Len(copy) /\ (vpc' = "invalid" => ~Accepts)
    BY <1>6 DEF VerifyEnd
  <2>2. ~damaged /\ Len(copy) = count => vhash = finalHash /\ vcount = count
    <3>1. SubSeq(finalHash, 1, count) = finalHash
      BY <1>2, SubSeqFull DEF Hash
    <3> QED BY <1>2, <2>1, <3>1 DEF HonestInv, SnapshotInv
  <2>3. vpc' = "invalid" /\ ~damaged => count = 0 \/ Len(copy) > count
    BY <1>2, <2>1, <2>2 DEF Accepts, HonestInv, SnapshotInv
  <2> QED BY <1>1, <2>1, <2>3 DEF HonestInv, SnapshotInv, HonestTrailVerifies
<1> QED BY <1>3, <1>4, <1>5, <1>6 DEF Verify

\* An untouched trail with nothing left over from an append that failed or was
\* cut off verifies, unless it is empty.
THEOREM HonestTrailVerifiesAlways == Spec => []HonestTrailVerifies
<1>1. Init => HonestInv
  <2> SUFFICES ASSUME Init PROVE HonestInv
    OBVIOUS
  <2>1. 1 .. 0 = {}
    OBVIOUS
  <2> QED BY <2>1 DEF Init, HonestInv, NumberedInv, SnapshotInv, HonestTrailVerifies
<1>2. TypeOK /\ IInv /\ HonestInv /\ [Next]_vars => HonestInv'
  BY NumberedStep, HonestOthers, HonestVerify DEF HonestInv
<1>3. HonestInv => HonestTrailVerifies
  BY DEF HonestInv
<1> QED BY <1>1, <1>2, <1>3, Invariance, PTL DEF Spec

-----------------------------------------------------------------------------
(* The chain implements an append-only log *)

DurableLog == IF damaged THEN acked ELSE SubSeq(file, 1, count)

\* Every step but the one that acknowledges an event leaves the log alone,
\* and none opens a stopped writer.
LEMMA OtherSteps ==
  ASSUME TypeOK, [Next]_vars, \A t \in Threads : ~Advance(t)
  PROVE  acked' = acked /\ (writer # "open" => writer' # "open")
BY DEF Next, Append_, Enter, Refuse, Write, WriteFails, SyncFails, Close, Crash,
       Damage, Verify, VerifyStart, VerifyLine, RejectLine, VerifyEnd, vars,
       writerVars

\* The step that acknowledges an event adds one line to the log.
LEMMA AdvanceRecords ==
  ASSUME TypeOK, TypeOK', IInv, NEW t \in Threads, Advance(t)
  PROVE  /\ writer = "open" /\ writer' = writer
         /\ acked' \in Seq(Line)
         /\ Len(acked') = Len(acked) + 1
         /\ SubSeq(acked', 1, Len(acked)) = acked
<1>1. writer = "open" /\ writer' = writer
  BY DEF IInv, WriterInv, Advance
<1>2. NextEvent(arg[t]) \in Line /\ acked \in Seq(Line)
  BY NextEventType DEF TypeOK
<1>3. acked' = Append(acked, NextEvent(arg[t]))
  BY DEF Advance
<1> QED BY <1>1, <1>2, <1>3, AppendProperties, PrefixOfAppend

\* The durable part of the file is an append-only log.
THEOREM Refinement == Spec => RefinesAppendLog
<1>1. Init => Log!Init
  BY SubSeqEmpty DEF Init, Log!Init
<1>2. TypeOK /\ IInv /\ TypeOK' /\ IInv' /\ [Next]_vars
        => [Log!Next]_<<DurableLog, writer = "open">>
  <2> SUFFICES ASSUME TypeOK, IInv, TypeOK', IInv', [Next]_vars
               PROVE  [Log!Next]_<<DurableLog, writer = "open">>
    OBVIOUS
  <2>1. DurableLog = acked /\ DurableLog' = acked'
    BY DEF IInv, FileInv, DurableLog
  <2>2. CASE \E t \in Threads : Advance(t)
    <3>1. Log!Record
      BY <2>1, <2>2, AdvanceRecords DEF Log!Record, DurableLog
    <3> QED BY <3>1 DEF Log!Next
  <2>3. CASE \A t \in Threads : ~Advance(t)
    <3>1. acked' = acked /\ (writer # "open" => writer' # "open")
      BY <2>3, OtherSteps
    <3>2. CASE writer = "open" /\ writer' # "open"
      BY <2>1, <3>1, <3>2 DEF Log!Next, Log!Stop, DurableLog
    <3>3. CASE ~(writer = "open" /\ writer' # "open")
      BY <2>1, <3>1, <3>3
    <3> QED BY <3>2, <3>3
  <2> QED BY <2>2, <2>3
<1> QED BY <1>1, <1>2, Invariance, PTL DEF Spec, RefinesAppendLog, Log!Spec, DurableLog
===============================================================================
