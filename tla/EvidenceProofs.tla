----------------------------- MODULE EvidenceProofs -----------------------------
(***************************************************************************)
(* Theorems about the evidence of a trial, part by part.                   *)
(*                                                                         *)
(* Redaction: for any credentials, any bytes and any chunks, the           *)
(* inspection of a stream comes to the verdict of the inspection of the    *)
(* whole.  The model's functions are defined by recursion, about which the *)
(* first section says what there is to say without the library's induction *)
(* theorems.                                                               *)
(*                                                                         *)
(* Attestation: for any files and any number of changes by others, its     *)
(* types, what an accepting verify-run has judged, that it accepts only    *)
(* what was attested to its end, and that it accepts a run that nobody has *)
(* touched.                                                                *)
(*                                                                         *)
(* The last section carries both over to their composition (MCEvidence).   *)
(***************************************************************************)
EXTENDS MCEvidence, SequenceTheorems, FiniteSetTheorems, TLAPS

-----------------------------------------------------------------------------
(* Induction, and functions defined by recursion.  The theorems of the      *)
(* library that take a predicate are replaced by ones about sets.           *)

\* A set of numbers has a least one: the intervals up to its members are
\* finite sets, which inclusion orders well.
LEMMA LeastNumber ==
  ASSUME NEW S, S \subseteq Nat, S # {}
  PROVE  \E n \in S : \A m \in S : n <= m
<1> DEFINE T == {0 .. n : n \in S}
<1>1. T \subseteq FiniteSubsetsOf(Nat)
  <2>1. ASSUME NEW n \in S PROVE IsFiniteSet(0 .. n) /\ 0 .. n \subseteq Nat
    BY FS_Interval
  <2> QED BY <2>1 DEF FiniteSubsetsOf
<1>2. T # {}
  OBVIOUS
<1>3. IsWellFoundedOn(StrictSubsetOrdering(Nat), FiniteSubsetsOf(Nat))
  BY FS_StrictSubsetOrderingWellFounded
<1> HIDE DEF T
<1>4. PICK x \in T : \A y \in T : <<y, x>> \notin StrictSubsetOrdering(Nat)
  BY <1>1, <1>2, <1>3, WFMin, Zenon
<1>5. PICK n \in S : x = 0 .. n
  BY DEF T
<1>6. ASSUME NEW m \in S, m < n PROVE FALSE
  <2>1. 0 .. m \in T
    BY DEF T
  <2>2. 0 .. m \subseteq 0 .. n /\ 0 .. m # 0 .. n /\ 0 .. n \subseteq Nat
    BY <1>6
  <2>3. <<0 .. m, 0 .. n>> \in StrictSubsetOrdering(Nat)
    BY <2>2 DEF StrictSubsetOrdering
  <2> QED BY <2>1, <2>3, <1>4, <1>5
<1> QED BY <1>6

\* A set that has every number of which it has all the smaller ones has them all.
LEMMA CourseOfValues ==
  ASSUME NEW S, \A n \in Nat : (\A m \in 0 .. n - 1 : m \in S) => n \in S
  PROVE  Nat \subseteq S
<1> SUFFICES ASSUME Nat \ S # {} PROVE FALSE
  OBVIOUS
<1>1. PICK n \in Nat \ S : \A m \in Nat \ S : n <= m
  BY LeastNumber
<1>2. \A m \in 0 .. n - 1 : m \in S
  BY <1>1
<1> QED BY <1>1, <1>2

\* A set that has zero, and with a number the next, has them all.
LEMMA StepByStep ==
  ASSUME NEW S, 0 \in S, \A n \in Nat : n \in S => n + 1 \in S
  PROVE  Nat \subseteq S
<1>1. ASSUME NEW n \in Nat, \A m \in 0 .. n - 1 : m \in S PROVE n \in S
  <2>1. CASE n = 0
    BY <2>1
  <2>2. CASE n # 0
    <3>1. n - 1 \in S /\ n - 1 \in Nat
      BY <1>1, <2>2
    <3> QED BY <3>1
  <2> QED BY <2>1, <2>2
<1> QED BY <1>1, CourseOfValues

\* A recursion over the points of D: it stops at some, and goes elsewhere to a
\* point of a smaller rank.
Descends(D, stop, next, rank, N) ==
  /\ next \in [D -> D] /\ N \in Nat /\ rank \in [D -> 0 .. N]
  /\ \A i \in D : i \notin stop => rank[next[i]] < rank[i]

\* What is in S where it stops, and wherever the next point is in S.
Carried(D, stop, next, S) == \A i \in D : i \in stop \/ next[i] \in S => i \in S

\* The function that is base where it stops, and elsewhere a step from its value
\* at the next point.
Solves(f, D, stop, next, base, step) ==
  \A i \in D : f[i] = IF i \in stop THEN base[i] ELSE step[i][f[next[i]]]

\* Induction along a recursion.
LEMMA Descent ==
  ASSUME NEW D, NEW stop, NEW next, NEW rank, NEW N, Descends(D, stop, next, rank, N),
         NEW S, Carried(D, stop, next, S)
  PROVE  D \subseteq S
<1> USE DEF Descends, Carried
<1> DEFINE T == {n \in Nat : \A i \in D : rank[i] = n => i \in S}
<1>1. ASSUME NEW n \in Nat, \A m \in 0 .. n - 1 : m \in T PROVE n \in T
  <2> SUFFICES ASSUME NEW i \in D, rank[i] = n, i \notin stop PROVE i \in S
    OBVIOUS
  <2>1. next[i] \in D /\ rank[next[i]] \in 0 .. n - 1
    OBVIOUS
  <2>2. next[i] \in S
    BY <1>1, <2>1
  <2> QED BY <2>2
<1>2. Nat \subseteq T
  <2> HIDE DEF T
  <2> QED BY <1>1, CourseOfValues
<1> QED BY <1>2

\* A recursion has a solution.
LEMMA Recursion ==
  ASSUME NEW D, NEW stop, NEW next, NEW rank, NEW N, Descends(D, stop, next, rank, N),
         NEW V, NEW base, base \in [D -> V], NEW step, step \in [D -> [V -> V]]
  PROVE  \E f \in [D -> V] : Solves(f, D, stop, next, base, step)
<1> USE DEF Descends
<1> DEFINE Right(f, i) == f[i] = IF i \in stop THEN base[i] ELSE step[i][f[next[i]]]
           S == {n \in Nat : \E f \in [D -> V] : \A i \in D : rank[i] < n => Right(f, i)}
<1>1. 0 \in S
  OBVIOUS
<1>2. ASSUME NEW n \in Nat, n \in S PROVE n + 1 \in S
  <2>1. PICK f \in [D -> V] : \A i \in D : rank[i] < n => Right(f, i)
    BY <1>2
  <2> DEFINE g == [i \in D |-> IF i \in stop THEN base[i] ELSE step[i][f[next[i]]]]
  <2>2. g \in [D -> V]
    OBVIOUS
  <2>3. ASSUME NEW i \in D, rank[i] < n PROVE g[i] = f[i]
    BY <2>1, <2>3
  <2>4. ASSUME NEW i \in D, rank[i] < n + 1 PROVE Right(g, i)
    <3>1. CASE i \in stop
      BY <3>1
    <3>2. CASE i \notin stop
      <4>1. next[i] \in D /\ rank[next[i]] < n
        BY <2>4, <3>2
      <4>2. g[next[i]] = f[next[i]]
        BY <4>1, <2>3
      <4> QED BY <4>2, <3>2
    <3> QED BY <3>1, <3>2
  <2> HIDE DEF g
  <2> QED BY <2>2, <2>4
<1>3. N + 1 \in S
  <2> HIDE DEF S
  <2> QED BY <1>1, <1>2, StepByStep
<1>4. PICK f \in [D -> V] : \A i \in D : rank[i] < N + 1 => Right(f, i)
  BY <1>3
<1>5. \A i \in D : rank[i] < N + 1
  OBVIOUS
<1> QED BY <1>4, <1>5 DEF Solves

-----------------------------------------------------------------------------
(* One decoding *)

Bytes == Seq(Letters)

\* What stands at a position is at least one byte, and no more than there are.
LEMMA AtType ==
  ASSUME NEW s \in Bytes, NEW i \in 1 .. Len(s)
  PROVE  /\ At(s, i).takes \in 1 .. Len(s) + 1 - i
         /\ At(s, i).out \in Bytes
         /\ At(s, i).changed \in BOOLEAN
<1> DEFINE Itself(n)    == [takes |-> n, out |-> SubSeq(s, i, i + n - 1), changed |-> FALSE]
           Escape(n, b) == [takes |-> n, out |-> <<b>>, changed |-> TRUE]
           Fits(n)      == i + n - 1 <= Len(s)
           Good(r)      == r.takes \in 1 .. Len(s) + 1 - i /\ r.out \in Bytes
                           /\ r.changed \in BOOLEAN
<1>1. ASSUME NEW n \in 1 .. 6, Fits(n) PROVE Good(Itself(n))
  <2>1. \A j \in i .. i + n - 1 : s[j] \in Letters
    BY <1>1 DEF Bytes
  <2>2. SubSeq(s, i, i + n - 1) \in Bytes
    BY <2>1, SubSeqProperties DEF Bytes
  <2> QED BY <1>1, <2>2 DEF Bytes
<1>2. ASSUME NEW n \in 1 .. 6, NEW b \in Letters, Fits(n) PROVE Good(Escape(n, b))
  BY <1>2 DEF Bytes
<1>3. \A b \in DOMAIN Simple : Simple[b] \in Letters
  BY LettersAssumption DEF Simple, Backslash
<1>4. \A b \in DOMAIN Point : Point[b] \in Letters
  BY LettersAssumption DEF Point
<1>5. Pair \in Letters
  BY LettersAssumption DEF Pair
<1>6. Fits(1)
  BY DEF Bytes
<1> HIDE DEF Itself, Escape
<1>7. \/ \E n \in {1, 3} : Fits(n) /\ At(s, i) = Itself(n)
      \/ \E n \in {2, 3, 6}, b \in Letters : Fits(n) /\ At(s, i) = Escape(n, b)
  <2>1. CASE s[i] # Backslash \/ ~Fits(2)
    BY <2>1, <1>6 DEF At, Itself
  <2>2. CASE s[i] = Backslash /\ Fits(2) /\ s[i + 1] \in DOMAIN Simple
    BY <2>2, <1>3 DEF At, Escape
  <2>3. CASE s[i] = Backslash /\ Fits(2) /\ s[i + 1] \notin DOMAIN Simple
             /\ (s[i + 1] # "u" \/ ~Fits(3))
    BY <2>3, <1>6 DEF At, Itself
  <2> QED BY <2>1, <2>2, <2>3, <1>3, <1>4, <1>5, <1>6 DEF At, Itself, Escape
<1> HIDE DEF Good
<1> QED BY <1>1, <1>2, <1>7 DEF Good

\* Where decoding stops, with what is left, and what it does elsewhere.
Outcome               == [out : Bytes, rest : Bytes, changed : BOOLEAN]
Waits(s, final, i)    == i > Len(s) \/ (~final /\ Incomplete(s, i))
Waiting(s, i)         == [out |-> <<>>, rest |-> SubSeq(s, i, Len(s)), changed |-> FALSE]
Followed(here, more)  == [out |-> here.out \o more.out, rest |-> more.rest,
                          changed |-> here.changed \/ more.changed]

\* The recursion of a decoding has a solution.
LEMMA DecodingDef ==
  ASSUME NEW s \in Bytes, NEW final \in BOOLEAN
  PROVE  /\ Decoding(s, final) \in [1 .. Len(s) + 1 -> Outcome]
         /\ \A i \in 1 .. Len(s) + 1 :
              Decoding(s, final)[i] =
                IF Waits(s, final, i) THEN Waiting(s, i)
                ELSE Followed(At(s, i), Decoding(s, final)[i + At(s, i).takes])
<1> DEFINE D    == 1 .. Len(s) + 1
           stop == {i \in D : Waits(s, final, i)}
           base == [i \in D |-> Waiting(s, i)]
           next == [i \in D |-> IF i \in stop THEN i ELSE i + At(s, i).takes]
           step == [i \in D |-> [more \in Outcome |->
                     IF i \in stop THEN more ELSE Followed(At(s, i), more)]]
           rank == [i \in D |-> Len(s) + 1 - i]
<1>0. Len(s) \in Nat
  BY DEF Bytes
<1>1. ASSUME NEW i \in D PROVE Waiting(s, i) \in Outcome
  <2>1. \A j \in i .. Len(s) : s[j] \in Letters
    BY DEF Bytes
  <2>2. SubSeq(s, i, Len(s)) \in Bytes
    BY <2>1, <1>0, SubSeqProperties DEF Bytes
  <2>3. <<>> \in Bytes
    BY DEF Bytes
  <2> QED BY <2>2, <2>3 DEF Waiting, Outcome
<1>2. ASSUME NEW i \in D, i \notin stop
      PROVE  /\ i + At(s, i).takes \in i + 1 .. Len(s) + 1
             /\ \A more \in Outcome : Followed(At(s, i), more) \in Outcome
  <2>1. i \in 1 .. Len(s)
    BY <1>0, <1>2 DEF Waits
  <2>2. \A more \in Outcome : At(s, i).out \o more.out \in Bytes
    BY <2>1, AtType, ConcatProperties DEF Outcome, Bytes
  <2> QED BY <1>0, <2>1, <2>2, AtType DEF Outcome, Followed
<1>3. base \in [D -> Outcome]
  BY <1>1
<1>4. next \in [D -> D]
  BY <1>0, <1>2
<1>5. step \in [D -> [Outcome -> Outcome]]
  BY <1>2
<1>6. rank \in [D -> 0 .. Len(s)]
  BY <1>0
<1>7. Descends(D, stop, next, rank, Len(s))
  BY <1>0, <1>2, <1>4, <1>6 DEF Descends
<1>8. PICK f \in [D -> Outcome] : Solves(f, D, stop, next, base, step)
  <2> HIDE DEF D, stop, base, next, step, rank
  <2> QED BY <1>3, <1>5, <1>7, Recursion, Zenon
<1>9. \A i \in D : f[i] = IF Waits(s, final, i) THEN Waiting(s, i)
                          ELSE Followed(At(s, i), f[i + At(s, i).takes])
  <2> SUFFICES ASSUME NEW i \in D
               PROVE  f[i] = IF Waits(s, final, i) THEN Waiting(s, i)
                             ELSE Followed(At(s, i), f[i + At(s, i).takes])
    OBVIOUS
  <2>1. CASE Waits(s, final, i)
    BY <1>8, <2>1 DEF Solves
  <2>2. CASE ~Waits(s, final, i)
    <3>1. i \notin stop /\ next[i] = i + At(s, i).takes /\ f[next[i]] \in Outcome
      BY <2>2, <1>4
    <3>2. f[i] = step[i][f[next[i]]]
      BY <1>8, <3>1 DEF Solves
    <3> QED BY <3>1, <3>2, <2>2
  <2> QED BY <2>1, <2>2
<1>10. f = [i \in D |-> IF Waits(s, final, i) THEN Waiting(s, i)
                        ELSE Followed(At(s, i), f[i + At(s, i).takes])]
  BY <1>9
<1>11. Decoding(s, final) =
         [i \in D |-> IF Waits(s, final, i) THEN Waiting(s, i)
                      ELSE Followed(At(s, i), Decoding(s, final)[i + At(s, i).takes])]
  <2> DEFINE Solution(g) == g = [i \in D |-> IF Waits(s, final, i) THEN Waiting(s, i)
                                 ELSE Followed(At(s, i), g[i + At(s, i).takes])]
  <2>1. Decoding(s, final) = CHOOSE g : Solution(g)
    BY DEF Decoding, Waits, Waiting, Followed
  <2> HIDE DEF Solution
  <2>2. \E g : Solution(g)
    BY <1>10 DEF Solution
  <2>3. Solution(Decoding(s, final))
    BY <2>1, <2>2
  <2> QED BY <2>3 DEF Solution
<1>12. \A i \in D : Decoding(s, final)[i] = f[i]
  <2> DEFINE S == {i \in D : Decoding(s, final)[i] = f[i]}
  <2>1. Carried(D, stop, next, S)
    BY <1>9, <1>11 DEF Carried
  <2>2. D \subseteq S
    <3> HIDE DEF D, stop, next, rank, S
    <3> QED BY <1>7, <2>1, Descent, Zenon
  <2> QED BY <2>2
<1>13. Decoding(s, final) = f
  BY <1>11, <1>12
<1> QED BY <1>9, <1>13

\* A part of a sequence of bytes, byte by byte.
LEMMA PartOf ==
  ASSUME NEW s \in Bytes, NEW i \in Nat \ {0}, NEW j \in Nat, j <= Len(s)
  PROVE  /\ SubSeq(s, i, j) \in Bytes
         /\ Len(SubSeq(s, i, j)) = IF i <= j THEN j - i + 1 ELSE 0
         /\ \A k \in 1 .. j - i + 1 : SubSeq(s, i, j)[k] = s[i + k - 1]
<1>1. \A k \in i .. j : s[k] \in Letters
  BY DEF Bytes
<1> QED BY <1>1, SubSeqProperties DEF Bytes

\* Equal bytes make equal sequences.
LEMMA SameBytes ==
  ASSUME NEW v \in Bytes, NEW w \in Bytes, Len(v) = Len(w),
         \A k \in 1 .. Len(v) : v[k] = w[k]
  PROVE  v = w
BY SeqEqual DEF Bytes

\* From position i on, s is what u is from position j on.
SameFrom(s, i, u, j) ==
  Len(s) - i = Len(u) - j /\ \A k \in 0 .. Len(s) - i : s[i + k] = u[j + k]

\* Parts of the same bytes are the same.
LEMMA SamePart ==
  ASSUME NEW s \in Bytes, NEW u \in Bytes, NEW n \in Nat,
         NEW i \in 1 .. Len(s) + 1, NEW j \in 1 .. Len(u) + 1,
         i + n - 1 <= Len(s), j + n - 1 <= Len(u),
         \A k \in 0 .. n - 1 : s[i + k] = u[j + k]
  PROVE  SubSeq(s, i, i + n - 1) = SubSeq(u, j, j + n - 1)
<1> DEFINE v == SubSeq(s, i, i + n - 1)
           w == SubSeq(u, j, j + n - 1)
<1>0. Len(s) \in Nat /\ Len(u) \in Nat
  BY DEF Bytes
<1>1. v \in Bytes /\ Len(v) = n /\ \A k \in 1 .. n : v[k] = s[i + k - 1]
  <2>1. i + n - 1 \in Nat /\ i \in Nat \ {0}
    BY <1>0
  <2> QED BY <2>1, PartOf
<1>2. w \in Bytes /\ Len(w) = n /\ \A k \in 1 .. n : w[k] = u[j + k - 1]
  <2>1. j + n - 1 \in Nat /\ j \in Nat \ {0}
    BY <1>0
  <2> QED BY <2>1, PartOf
<1> HIDE DEF v, w
<1>3. \A k \in 1 .. n : v[k] = w[k]
  <2> SUFFICES ASSUME NEW k \in 1 .. n PROVE v[k] = w[k]
    OBVIOUS
  <2>1. k - 1 \in 0 .. n - 1 => s[i + (k - 1)] = u[j + (k - 1)]
    OBVIOUS
  <2>2. i + (k - 1) = i + k - 1 /\ j + (k - 1) = j + k - 1
    BY <1>0
  <2> QED BY <1>1, <1>2, <2>1, <2>2
<1>4. v = w
  BY <1>1, <1>2, <1>3, SameBytes
<1> QED BY <1>4 DEF v, w

\* What stands at a position is decided by the bytes from there on.
LEMMA AtSame ==
  ASSUME NEW s \in Bytes, NEW u \in Bytes, NEW i \in 1 .. Len(s), NEW j \in 1 .. Len(u),
         SameFrom(s, i, u, j)
  PROVE  At(s, i) = At(u, j) /\ (Incomplete(s, i) <=> Incomplete(u, j))
<1>0. Len(s) \in Nat /\ Len(u) \in Nat
  BY DEF Bytes
<1>1. \A n \in 1 .. 6 : i + n - 1 <= Len(s) <=> j + n - 1 <= Len(u)
  BY <1>0 DEF SameFrom
<1>2. \A n \in 0 .. 5 : i + n <= Len(s) => s[i + n] = u[j + n]
  BY <1>0 DEF SameFrom
<1>3. \A n \in 1 .. 6 : i + n - 1 <= Len(s) =>
        SubSeq(s, i, i + n - 1) = SubSeq(u, j, j + n - 1)
  <2> SUFFICES ASSUME NEW n \in 1 .. 6, i + n - 1 <= Len(s)
               PROVE  SubSeq(s, i, i + n - 1) = SubSeq(u, j, j + n - 1)
    OBVIOUS
  <2>1. j + n - 1 <= Len(u)
    BY <1>1
  <2>2. \A k \in 0 .. n - 1 : s[i + k] = u[j + k]
    <3> SUFFICES ASSUME NEW k \in 0 .. n - 1 PROVE s[i + k] = u[j + k]
      OBVIOUS
    <3>1. k \in 0 .. 5 /\ i + k <= Len(s)
      BY <1>0
    <3> QED BY <3>1, <1>2
  <2>3. i \in 1 .. Len(s) + 1 /\ j \in 1 .. Len(u) + 1 /\ n \in Nat
    BY <1>0
  <2> QED BY <2>1, <2>2, <2>3, SamePart
<1>4. i + 5 <= Len(s) => SubSeq(s, i + 3, i + 5) = SubSeq(u, j + 3, j + 5)
  <2> SUFFICES ASSUME i + 5 <= Len(s)
               PROVE  SubSeq(s, i + 3, (i + 3) + 3 - 1) = SubSeq(u, j + 3, (j + 3) + 3 - 1)
    BY <1>0
  <2>1. \A k \in 0 .. 3 - 1 : s[(i + 3) + k] = u[(j + 3) + k]
    <3> SUFFICES ASSUME NEW k \in 0 .. 2 PROVE s[(i + 3) + k] = u[(j + 3) + k]
      OBVIOUS
    <3>1. s[i + (3 + k)] = u[j + (3 + k)]
      BY <1>0, <1>2
    <3>2. i + (3 + k) = (i + 3) + k /\ j + (3 + k) = (j + 3) + k
      BY <1>0
    <3> QED BY <3>1, <3>2
  <2>2. i + 3 \in 1 .. Len(s) + 1 /\ j + 3 \in 1 .. Len(u) + 1 /\ j + 5 <= Len(u)
    BY <1>0 DEF SameFrom
  <2> QED BY <1>0, <2>1, <2>2, SamePart
<1>5. s[i] = u[j] /\ (i + 1 <= Len(s) => s[i + 1] = u[j + 1])
      /\ (i + 2 <= Len(s) => s[i + 2] = u[j + 2])
  BY <1>0, <1>2
<1>6. Incomplete(s, i) <=> Incomplete(u, j)
  BY <1>0, <1>5 DEF Incomplete, SameFrom
<1>7. /\ i + 1 - 1 <= Len(s)
      /\ SubSeq(s, i, i + 1 - 1) = SubSeq(u, j, j + 1 - 1)
      /\ i + 3 - 1 <= Len(s) => SubSeq(s, i, i + 3 - 1) = SubSeq(u, j, j + 3 - 1)
  <2>1. i + 1 - 1 <= Len(s)
    BY <1>0
  <2> QED BY <2>1, <1>3
<1>8. /\ i + 2 - 1 <= Len(s) <=> j + 2 - 1 <= Len(u)
      /\ i + 3 - 1 <= Len(s) <=> j + 3 - 1 <= Len(u)
      /\ i + 6 - 1 <= Len(s) <=> j + 6 - 1 <= Len(u)
  BY <1>1
<1>9. /\ i + 2 - 1 <= Len(s) => s[i + 1] = u[j + 1]
      /\ i + 3 - 1 <= Len(s) => s[i + 2] = u[j + 2]
      /\ i + 6 - 1 <= Len(s) => SubSeq(s, i + 3, i + 5) = SubSeq(u, j + 3, j + 5)
      /\ i + 6 - 1 <= Len(s) => i + 3 - 1 <= Len(s)
      /\ i + 3 - 1 <= Len(s) => i + 2 - 1 <= Len(s)
  BY <1>0, <1>4, <1>5
<1>10. At(s, i) = At(u, j)
  BY ONLY <1>5, <1>7, <1>8, <1>9, Zenon DEF At
<1> QED BY <1>6, <1>10

\* A decoding, too, from any position on.
LEMMA DecodingSame ==
  ASSUME NEW s \in Bytes, NEW u \in Bytes, NEW final \in BOOLEAN,
         NEW i \in 1 .. Len(s) + 1, NEW j \in 1 .. Len(u) + 1, SameFrom(s, i, u, j)
  PROVE  Decoding(s, final)[i] = Decoding(u, final)[j]
<1> DEFINE f == Decoding(s, final)
           g == Decoding(u, final)
           S == {n \in Nat : \A a \in 1 .. Len(s) + 1, b \in 1 .. Len(u) + 1 :
                               Len(s) + 1 - a = n /\ SameFrom(s, a, u, b) => f[a] = g[b]}
<1>0. Len(s) \in Nat /\ Len(u) \in Nat
  BY DEF Bytes
<1>1. ASSUME NEW n \in Nat, \A m \in 0 .. n - 1 : m \in S PROVE n \in S
  <2> SUFFICES ASSUME NEW a \in 1 .. Len(s) + 1, NEW b \in 1 .. Len(u) + 1,
                      Len(s) + 1 - a = n, SameFrom(s, a, u, b)
               PROVE  f[a] = g[b]
    OBVIOUS
  <2>1. CASE a = Len(s) + 1
    <3>1. b = Len(u) + 1
      BY <1>0, <2>1 DEF SameFrom
    <3>2. f[a] = Waiting(s, a) /\ g[b] = Waiting(u, b)
      BY <1>0, <2>1, <3>1, DecodingDef DEF Waits
    <3>3. SubSeq(s, a, Len(s)) = <<>> /\ SubSeq(u, b, Len(u)) = <<>>
      BY <1>0, <2>1, <3>1, SubSeqEmpty
    <3> QED BY <3>2, <3>3 DEF Waiting
  <2>2. CASE a # Len(s) + 1
    <3>1. a \in 1 .. Len(s) /\ b \in 1 .. Len(u)
      BY <1>0, <2>2 DEF SameFrom
    <3>2. At(s, a) = At(u, b) /\ (Waits(s, final, a) <=> Waits(u, final, b))
      BY <1>0, <3>1, AtSame DEF Waits
    <3>3. CASE Waits(s, final, a)
      <4>1. f[a] = Waiting(s, a) /\ g[b] = Waiting(u, b)
        BY <3>2, <3>3, DecodingDef
      <4>2. SubSeq(s, a, a + n - 1) = SubSeq(u, b, b + n - 1)
        <5>1. a + n - 1 <= Len(s) /\ b + n - 1 <= Len(u)
          BY <1>0 DEF SameFrom
        <5>2. \A k \in 0 .. n - 1 : s[a + k] = u[b + k]
          BY <1>0 DEF SameFrom
        <5> QED BY <5>1, <5>2, SamePart
      <4>3. a + n - 1 = Len(s) /\ b + n - 1 = Len(u)
        BY <1>0 DEF SameFrom
      <4> QED BY <4>1, <4>2, <4>3 DEF Waiting
    <3>4. CASE ~Waits(s, final, a)
      <4> DEFINE t == At(s, a).takes
      <4>1. t \in 1 .. Len(s) + 1 - a
        BY <3>1, AtType
      <4> HIDE DEF t
      <4>2. SameFrom(s, a + t, u, b + t)
        <5>1. Len(s) - (a + t) = Len(u) - (b + t)
          BY <1>0, <4>1 DEF SameFrom
        <5>2. ASSUME NEW k \in 0 .. Len(s) - (a + t)
              PROVE  s[(a + t) + k] = u[(b + t) + k]
          <6>1. t + k \in 0 .. Len(s) - a
            BY <1>0, <4>1
          <6>2. s[a + (t + k)] = u[b + (t + k)]
            BY <6>1 DEF SameFrom
          <6>3. (a + t) + k = a + (t + k) /\ (b + t) + k = b + (t + k)
            BY <1>0, <4>1
          <6> QED BY <6>2, <6>3
        <5> QED BY <5>1, <5>2 DEF SameFrom
      <4>3. f[a + t] = g[b + t]
        <5>1. a + t \in 1 .. Len(s) + 1 /\ b + t \in 1 .. Len(u) + 1
          BY <1>0, <4>1 DEF SameFrom
        <5>2. Len(s) + 1 - (a + t) \in 0 .. n - 1
          BY <1>0, <4>1
        <5> QED BY <1>1, <4>2, <5>1, <5>2
      <4>4. f[a] = Followed(At(s, a), f[a + t]) /\ g[b] = Followed(At(s, a), g[b + t])
        BY <3>2, <3>4, DecodingDef DEF t
      <4> QED BY <4>3, <4>4
    <3> QED BY <3>3, <3>4
  <2> QED BY <2>1, <2>2
<1>2. Nat \subseteq S
  <2> HIDE DEF S
  <2> QED BY <1>1, CourseOfValues
<1>3. Len(s) + 1 - i \in S
  <2> HIDE DEF S
  <2>1. Len(s) + 1 - i \in Nat
    BY <1>0
  <2> QED BY <1>2, <2>1
<1> QED BY <1>3

\* Two sequences of bytes, one behind the other.
LEMMA Joined ==
  ASSUME NEW a \in Bytes, NEW b \in Bytes
  PROVE  /\ a \o b \in Bytes
         /\ Len(a \o b) = Len(a) + Len(b)
         /\ Len(a) \in Nat /\ Len(b) \in Nat
         /\ \A k \in 1 .. Len(a) : (a \o b)[k] = a[k]
         /\ \A k \in 1 .. Len(b) : (a \o b)[Len(a) + k] = b[k]
<1>0. Len(a) \in Nat /\ Len(b) \in Nat
  BY DEF Bytes
<1>1. a \o b \in Bytes /\ Len(a \o b) = Len(a) + Len(b)
  BY ConcatProperties DEF Bytes
<1>2. \A k \in 1 .. Len(a) : (a \o b)[k] = a[k]
  BY <1>0, ConcatProperties DEF Bytes
<1>3. ASSUME NEW k \in 1 .. Len(b) PROVE (a \o b)[Len(a) + k] = b[k]
  BY <1>0, ConcatProperties DEF Bytes
<1> QED BY <1>0, <1>1, <1>2, <1>3

\* More bytes do not change what is complete.
LEMMA AtGrows ==
  ASSUME NEW a \in Bytes, NEW b \in Bytes, NEW i \in 1 .. Len(a), ~Incomplete(a, i)
  PROVE  At(a \o b, i) = At(a, i) /\ ~Incomplete(a \o b, i)
<1> DEFINE s == a \o b
<1>0. Len(a) \in Nat /\ Len(b) \in Nat /\ Len(s) = Len(a) + Len(b) /\ s \in Bytes
  BY Joined
<1>1. \A k \in 1 .. Len(a) : s[k] = a[k]
  BY Joined
<1> HIDE DEF s
<1>2. s[i] = a[i] /\ (i + 1 <= Len(a) => s[i + 1] = a[i + 1])
      /\ (i + 2 <= Len(a) => s[i + 2] = a[i + 2])
  BY <1>0, <1>1
<1>3. ASSUME NEW j \in 1 .. Len(a) + 1, NEW n \in Nat, j + n - 1 <= Len(a)
      PROVE  SubSeq(s, j, j + n - 1) = SubSeq(a, j, j + n - 1)
  <2>1. \A k \in 0 .. n - 1 : s[j + k] = a[j + k]
    BY <1>0, <1>1, <1>3
  <2>2. j \in 1 .. Len(s) + 1 /\ j + n - 1 <= Len(s)
    BY <1>0, <1>3
  <2> QED BY <1>0, <1>3, <2>1, <2>2, SamePart
<1>4. /\ SubSeq(s, i, i + 1 - 1) = SubSeq(a, i, i + 1 - 1)
      /\ i + 2 <= Len(a) => SubSeq(s, i, i + 3 - 1) = SubSeq(a, i, i + 3 - 1)
  <2>1. i \in 1 .. Len(a) + 1 /\ 1 \in Nat /\ 3 \in Nat /\ i + 1 - 1 <= Len(a)
        /\ (i + 2 <= Len(a) => i + 3 - 1 <= Len(a))
    BY <1>0
  <2> QED BY <1>3, <2>1
<1>5. i + 5 <= Len(a) => SubSeq(s, i + 3, i + 5) = SubSeq(a, i + 3, i + 5)
  <2> SUFFICES ASSUME i + 5 <= Len(a)
               PROVE  SubSeq(s, i + 3, (i + 3) + 3 - 1) = SubSeq(a, i + 3, (i + 3) + 3 - 1)
    BY <1>0
  <2>1. i + 3 \in 1 .. Len(a) + 1 /\ 3 \in Nat /\ (i + 3) + 3 - 1 <= Len(a)
    BY <1>0
  <2> QED BY <1>3, <2>1
<1>6. a[i] = Backslash =>
        /\ i + 1 <= Len(a)
        /\ a[i + 1] = "u" => i + 2 <= Len(a)
        /\ a[i + 1] = "u" /\ a[i + 2] = High => i + 5 <= Len(a)
  BY <1>0 DEF Incomplete
<1>7. ~Incomplete(s, i)
  BY <1>0, <1>2, <1>6 DEF Incomplete
<1>8. \A n \in {2, 3, 6} : i + n - 1 <= Len(a) => i + n - 1 <= Len(s)
  BY <1>0
<1>9. /\ i + 1 <= Len(a) => i + 2 - 1 <= Len(a)
      /\ i + 2 <= Len(a) => i + 3 - 1 <= Len(a)
      /\ i + 5 <= Len(a) => i + 6 - 1 <= Len(a)
  BY <1>0
<1>10. At(s, i) = At(a, i)
  <2>1. CASE a[i] # Backslash
    BY ONLY <2>1, <1>2, <1>4, Zenon DEF At
  <2>2. CASE a[i] = Backslash
    <3>1. i + 2 - 1 <= Len(a) /\ i + 2 - 1 <= Len(s) /\ s[i + 1] = a[i + 1]
      BY <1>2, <1>6, <1>8, <1>9, <2>2
    <3>2. CASE a[i + 1] # "u"
      BY ONLY <2>2, <3>1, <3>2, <1>2, <1>4, Zenon DEF At
    <3>3. CASE a[i + 1] = "u"
      <4>1. i + 3 - 1 <= Len(a) /\ i + 3 - 1 <= Len(s) /\ s[i + 2] = a[i + 2]
            /\ SubSeq(s, i, i + 3 - 1) = SubSeq(a, i, i + 3 - 1)
        BY <1>2, <1>4, <1>6, <1>8, <1>9, <2>2, <3>3
      <4>2. CASE a[i + 2] # High
        BY ONLY <2>2, <3>1, <3>3, <4>1, <4>2, <1>2, <1>4, Zenon DEF At
      <4>3. CASE a[i + 2] = High
        <5>1. i + 6 - 1 <= Len(a) /\ i + 6 - 1 <= Len(s)
              /\ SubSeq(s, i + 3, i + 5) = SubSeq(a, i + 3, i + 5)
          BY <1>5, <1>6, <1>8, <1>9, <2>2, <3>3, <4>3
        <5> QED BY ONLY <2>2, <3>1, <3>3, <4>1, <4>3, <5>1, <1>2, <1>4, Zenon DEF At
      <4> QED BY <4>2, <4>3
    <3> QED BY <3>2, <3>3
  <2> QED BY <2>1, <2>2
<1> QED BY <1>7, <1>10 DEF s

LEMMA WaitingParts ==
  ASSUME NEW s, NEW i
  PROVE  /\ Waiting(s, i).rest = SubSeq(s, i, Len(s))
         /\ Waiting(s, i).out = <<>>
         /\ Waiting(s, i).changed = FALSE
BY DEF Waiting

LEMMA FollowedOut ==
  ASSUME NEW here, NEW more
  PROVE  Followed(here, more).out = here.out \o more.out
BY DEF Followed

LEMMA DecodeType ==
  ASSUME NEW s \in Bytes, NEW final \in BOOLEAN
  PROVE  /\ Decode(s, final) \in Outcome
         /\ Decode(s, final).out \in Bytes
         /\ Decode(s, final).rest \in Bytes
         /\ Decode(s, final).changed \in BOOLEAN
<1>1. 1 \in 1 .. Len(s) + 1
  BY DEF Bytes
<1>2. Decode(s, final) \in Outcome
  BY <1>1, DecodingDef DEF Decode
<1> QED BY <1>2 DEF Outcome

LEMMA Grouped ==
  ASSUME NEW a \in Bytes, NEW b \in Bytes, NEW c \in Bytes
  PROVE  (a \o b) \o c = a \o (b \o c)
<1> DEFINE ab == a \o b
           bc == b \o c
           v  == ab \o c
           w  == a \o bc
<1>1. /\ ab \in Bytes /\ Len(ab) = Len(a) + Len(b)
      /\ Len(a) \in Nat /\ Len(b) \in Nat
      /\ \A k \in 1 .. Len(a) : ab[k] = a[k]
      /\ \A k \in 1 .. Len(b) : ab[Len(a) + k] = b[k]
  BY Joined
<1>2. /\ bc \in Bytes /\ Len(bc) = Len(b) + Len(c) /\ Len(c) \in Nat
      /\ \A k \in 1 .. Len(b) : bc[k] = b[k]
      /\ \A k \in 1 .. Len(c) : bc[Len(b) + k] = c[k]
  BY Joined
<1> HIDE DEF ab, bc
<1>3. /\ v \in Bytes /\ Len(v) = Len(ab) + Len(c)
      /\ \A k \in 1 .. Len(ab) : v[k] = ab[k]
      /\ \A k \in 1 .. Len(c) : v[Len(ab) + k] = c[k]
  BY <1>1, Joined
<1>4. /\ w \in Bytes /\ Len(w) = Len(a) + Len(bc)
      /\ \A k \in 1 .. Len(a) : w[k] = a[k]
      /\ \A k \in 1 .. Len(bc) : w[Len(a) + k] = bc[k]
  BY <1>2, Joined
<1> HIDE DEF v, w
<1>5. ASSUME NEW k \in 1 .. Len(v) PROVE v[k] = w[k]
  <2>1. CASE k <= Len(a)
    BY <1>1, <1>3, <1>4, <2>1
  <2>2. CASE k > Len(a) /\ k <= Len(a) + Len(b)
    <3> DEFINE j == k - Len(a)
    <3>1. j \in 1 .. Len(b) /\ j \in 1 .. Len(bc) /\ k \in 1 .. Len(ab) /\ k = Len(a) + j
      BY <1>1, <1>2, <1>3, <2>2
    <3> HIDE DEF j
    <3>2. v[k] = b[j] /\ w[k] = b[j]
      BY <1>1, <1>2, <1>3, <1>4, <3>1
    <3> QED BY <3>2
  <2>3. CASE k > Len(a) + Len(b)
    <3> DEFINE j == k - Len(a) - Len(b)
    <3>1. /\ j \in 1 .. Len(c) /\ Len(b) + j \in 1 .. Len(bc)
          /\ k = Len(ab) + j /\ k = Len(a) + (Len(b) + j)
      BY <1>1, <1>2, <1>3, <2>3
    <3> HIDE DEF j
    <3>2. v[k] = c[j] /\ w[k] = c[j]
      BY <1>1, <1>2, <1>3, <1>4, <3>1
    <3> QED BY <3>2
  <2> QED BY <1>1, <2>1, <2>2, <2>3
<1>6. v = w
  <2>1. v \in Bytes /\ w \in Bytes /\ Len(v) = Len(w)
    BY <1>1, <1>2, <1>3, <1>4
  <2> QED BY ONLY <1>5, <2>1, SameBytes
<1> QED BY <1>6 DEF v, w, ab, bc

\* What follows follows in any grouping.
LEMMA FollowedAssociative ==
  ASSUME NEW here, here.out \in Bytes, NEW more \in Outcome, NEW then \in Outcome
  PROVE  Followed(here, Followed(more, then)) = Followed(Followed(here, more), then)
<1>1. more.out \in Bytes /\ then.out \in Bytes
  BY DEF Outcome
<1>2. here.out \o (more.out \o then.out) = (here.out \o more.out) \o then.out
  BY <1>1, Grouped, Zenon
<1> QED BY <1>2 DEF Followed

\* Behind nothing comes what follows.
LEMMA FollowedNothing ==
  ASSUME NEW more \in Outcome, NEW here, here.out = <<>>, here.changed = FALSE
  PROVE  Followed(here, more) = more
<1>1. more.out \in Bytes
  BY DEF Outcome
<1>2. <<>> \o more.out = more.out
  BY <1>1 DEF Bytes
<1> QED BY <1>2 DEF Followed, Outcome

\* A stream is decoded as the whole is: what the decoder gives for the first
\* bytes, and then for those it has kept with the rest behind them.
THEOREM DecodeIsStreaming ==
  ASSUME NEW a \in Bytes, NEW b \in Bytes, NEW final \in BOOLEAN
  PROVE  Decode(a \o b, final) =
           Followed(Decode(a, FALSE), Decode(Decode(a, FALSE).rest \o b, final))
<1> DEFINE s == a \o b
           f == Decoding(a, FALSE)
           g == Decoding(s, final)
           Right(i) == g[i] = Followed(f[i], Decode(f[i].rest \o b, final))
           S == {n \in Nat : \A i \in 1 .. Len(a) + 1 : Len(a) + 1 - i = n => Right(i)}
<1>0. Len(a) \in Nat /\ Len(b) \in Nat /\ Len(s) = Len(a) + Len(b) /\ s \in Bytes
  BY Joined
<1>1. /\ f \in [1 .. Len(a) + 1 -> Outcome]
      /\ \A i \in 1 .. Len(a) + 1 :
           f[i] = IF Waits(a, FALSE, i) THEN Waiting(a, i)
                  ELSE Followed(At(a, i), f[i + At(a, i).takes])
  BY DecodingDef
<1>2. /\ g \in [1 .. Len(s) + 1 -> Outcome]
      /\ \A i \in 1 .. Len(s) + 1 :
           g[i] = IF Waits(s, final, i) THEN Waiting(s, i)
                  ELSE Followed(At(s, i), g[i + At(s, i).takes])
  BY <1>0, DecodingDef
<1>3. ASSUME NEW n \in Nat, \A m \in 0 .. n - 1 : m \in S PROVE n \in S
  <2> SUFFICES ASSUME NEW i \in 1 .. Len(a) + 1, Len(a) + 1 - i = n
               PROVE  Right(i)
    OBVIOUS
  <2>1. CASE Waits(a, FALSE, i)
    <3> DEFINE r == SubSeq(a, i, Len(a))
               u == r \o b
    <3>1. f[i] = Waiting(a, i)
      BY <1>1, <2>1
    <3>2. r \in Bytes /\ Len(r) = Len(a) + 1 - i
          /\ \A k \in 1 .. Len(a) - i + 1 : r[k] = a[i + k - 1]
      BY <1>0, PartOf
    <3>3. /\ u \in Bytes /\ Len(u) = Len(r) + Len(b)
          /\ \A k \in 1 .. Len(r) : u[k] = r[k]
          /\ \A k \in 1 .. Len(b) : u[Len(r) + k] = b[k]
      BY <3>2, Joined
    <3>4. /\ \A k \in 1 .. Len(a) : s[k] = a[k]
          /\ \A k \in 1 .. Len(b) : s[Len(a) + k] = b[k]
      BY Joined
    <3>5. SameFrom(s, i, u, 1)
      <4>1. Len(s) - i = Len(u) - 1
        BY <1>0, <3>2, <3>3
      <4>2. ASSUME NEW k \in 0 .. Len(s) - i PROVE s[i + k] = u[1 + k]
        <5> HIDE DEF s, u, r
        <5>1. CASE i + k <= Len(a)
          <6>1. s[i + k] = a[i + k]
            BY <1>0, <3>4, <5>1
          <6>2. 1 + k \in 1 .. Len(a) - i + 1 /\ i + (1 + k) - 1 = i + k
            BY <1>0, <5>1
          <6>3. r[1 + k] = a[i + k]
            BY <3>2, <6>2
          <6>4. u[1 + k] = r[1 + k]
            BY <1>0, <3>2, <3>3, <6>2
          <6> QED BY <6>1, <6>3, <6>4
        <5>2. CASE i + k > Len(a)
          <6> DEFINE j == i + k - Len(a)
          <6>1. j \in 1 .. Len(b) /\ i + k = Len(a) + j /\ 1 + k = Len(r) + j
            BY <1>0, <3>2, <5>2
          <6> HIDE DEF j
          <6> QED BY <3>3, <3>4, <6>1
        <5> QED BY <1>0, <5>1, <5>2
      <4> QED BY <4>1, <4>2 DEF SameFrom
    <3>6. g[i] = Decode(u, final)
      <4>1. i \in 1 .. Len(s) + 1 /\ 1 \in 1 .. Len(u) + 1
        BY <1>0, <3>2, <3>3
      <4> HIDE DEF s, u
      <4>2. s \in Bytes /\ u \in Bytes
        BY <1>0, <3>3
      <4>3. Decoding(s, final)[i] = Decoding(u, final)[1]
        BY ONLY <3>5, <4>1, <4>2, final \in BOOLEAN, DecodingSame
      <4> QED BY <4>3 DEF Decode
    <3>7. g[i] \in Outcome
      BY <1>0, <1>2
    <3>8. f[i].rest = r /\ f[i].out = <<>> /\ f[i].changed = FALSE
      BY <3>1, WaitingParts
    <3> HIDE DEF f, g, r
    <3>9. Followed(f[i], g[i]) = g[i]
      BY <3>7, <3>8, FollowedNothing
    <3> QED BY <3>6, <3>8, <3>9
  <2>2. CASE ~Waits(a, FALSE, i)
    <3> DEFINE here == At(a, i)
    <3>1. i \in 1 .. Len(a) /\ ~Incomplete(a, i)
      BY <1>0, <2>2 DEF Waits
    <3>2. At(s, i) = here /\ ~Waits(s, final, i)
      BY <1>0, <3>1, AtGrows DEF Waits
    <3>3. here.takes \in 1 .. Len(a) + 1 - i /\ here.out \in Bytes /\ here.changed \in BOOLEAN
      BY <3>1, AtType
    <3> DEFINE j == i + here.takes
    <3>4. f[i] = Followed(here, f[j]) /\ g[i] = Followed(here, g[j])
      <4>1. f[i] = Followed(At(a, i), f[i + At(a, i).takes])
        BY <1>1, <2>2
      <4>2. i \in 1 .. Len(s) + 1
        BY <1>0
      <4>3. g[i] = Followed(At(s, i), g[i + At(s, i).takes])
        BY <1>2, <3>2, <4>2
      <4> QED BY <3>2, <4>1, <4>3
    <3> HIDE DEF here, f, g, s
    <3>5. j \in 1 .. Len(a) + 1 /\ Len(a) + 1 - j \in 0 .. n - 1
      BY <1>0, <3>3
    <3>6. Right(j)
      BY <1>3, <3>5
    <3> DEFINE d == Decode(f[j].rest \o b, final)
    <3>7. f[j] \in Outcome /\ f[i].rest = f[j].rest
      <4>1. f[j] \in Outcome
        BY <1>1, <3>5
      <4> QED BY <3>4, <4>1 DEF Followed
    <3>8. d \in Outcome
      <4>1. f[j].rest \o b \in Bytes
        BY <3>7, Joined DEF Outcome
      <4> QED BY <4>1, DecodeType
    <3>9. g[i] = Followed(here, Followed(f[j], d))
      BY <3>4, <3>6
    <3> HIDE DEF j, d
    <3>10. g[i] = Followed(Followed(here, f[j]), d)
      BY <3>3, <3>7, <3>8, <3>9, FollowedAssociative
    <3> QED BY <3>4, <3>7, <3>10 DEF d
  <2> QED BY <2>1, <2>2
<1>4. Nat \subseteq S
  <2> HIDE DEF S
  <2> QED BY <1>3, CourseOfValues
<1>5. Right(1)
  <2>1. Len(a) \in S
    <3> HIDE DEF S
    <3> QED BY <1>0, <1>4
  <2>2. \A i \in 1 .. Len(a) + 1 : Len(a) + 1 - i = Len(a) => Right(i)
    <3> HIDE DEF Right
    <3> QED BY <2>1
  <2> HIDE DEF Right
  <2> QED BY <1>0, <2>2
<1> QED BY <1>5 DEF Decode
-----------------------------------------------------------------------------
(* Patterns *)

\* A function from a finite set to numbers has a bound.
LEMMA FiniteBound ==
  ASSUME NEW S, IsFiniteSet(S), NEW f \in [S -> Nat]
  PROVE  \E b \in Nat : \A x \in S : f[x] <= b
<1> DEFINE Bounded(U) == \E b \in Nat : \A x \in U : f[x] <= b
           T == {n \in Nat : \A U \in SUBSET S : Cardinality(U) = n => Bounded(U)}
<1>1. 0 \in T
  <2> SUFFICES ASSUME NEW U \in SUBSET S, Cardinality(U) = 0 PROVE Bounded(U)
    OBVIOUS
  <2>1. U = {}
    BY FS_Subset, FS_EmptySet
  <2> QED BY <2>1
<1>2. ASSUME NEW n \in Nat, n \in T PROVE n + 1 \in T
  <2> SUFFICES ASSUME NEW U \in SUBSET S, Cardinality(U) = n + 1 PROVE Bounded(U)
    OBVIOUS
  <2>1. IsFiniteSet(U) /\ U # {}
    BY FS_Subset, FS_EmptySet
  <2>2. PICK u \in U : TRUE
    BY <2>1
  <2>3. Cardinality(U \ {u}) = n
    <3>1. Cardinality(U \ {u}) = Cardinality(U) - 1
      BY <2>1, FS_RemoveElement
    <3> QED BY <3>1
  <2>4. PICK b \in Nat : \A x \in U \ {u} : f[x] <= b
    BY <1>2, <2>3
  <2>5. /\ f[u] \in Nat
        /\ \A x \in U : f[x] \in Nat
        /\ b + f[u] \in Nat
    OBVIOUS
  <2>6. \A x \in U : f[x] <= b + f[u]
    BY <2>4, <2>5
  <2> QED BY <2>5, <2>6
<1>3. Cardinality(S) \in T
  <2> HIDE DEF T
  <2>1. Nat \subseteq T
    BY <1>1, <1>2, StepByStep
  <2> QED BY <2>1, FS_CardinalityType
<1> QED BY <1>3

\* Of sequences that are not longer than some bound there is a longest.
LEMMA LongestDef ==
  ASSUME NEW ps \in SUBSET Bytes, ps # {}, NEW b \in Nat, \A p \in ps : Len(p) <= b
  PROVE  /\ \E p \in ps : Longest(ps) = Len(p)
         /\ \A p \in ps : Len(p) <= Longest(ps)
         /\ Longest(ps) \in Nat
<1> DEFINE U == {n \in Nat : \A p \in ps : Len(p) <= n}
<1>0. \A p \in ps : Len(p) \in Nat
  BY DEF Bytes
<1>1. PICK n \in U : \A m \in U : n <= m
  <2>1. U \subseteq Nat /\ b \in U
    OBVIOUS
  <2> HIDE DEF U
  <2> QED BY <2>1, LeastNumber
<1>2. \E p \in ps : n = Len(p)
  <2> SUFFICES ASSUME \A p \in ps : Len(p) # n PROVE FALSE
    OBVIOUS
  <2>1. \A p \in ps : Len(p) <= n - 1
    BY <1>0, <1>1
  <2>2. n - 1 \in Nat
    BY <1>0, <2>1
  <2>3. n - 1 \in U
    BY <2>1, <2>2
  <2>4. n \in Nat /\ n <= n - 1
    BY <1>1, <2>3
  <2> QED BY <2>4
<1> DEFINE Greatest(m) == \A p \in ps : Len(p) <= m
<1>3. \E m \in {Len(p) : p \in ps} : Greatest(m)
  BY <1>1, <1>2
<1>4. Longest(ps) = CHOOSE m \in {Len(p) : p \in ps} : Greatest(m)
  BY DEF Longest
<1> HIDE DEF Greatest
<1>5. Longest(ps) \in {Len(p) : p \in ps} /\ Greatest(Longest(ps))
  BY <1>3, <1>4
<1> QED BY <1>0, <1>5 DEF Greatest

\* Sequences of bytes, one behind the other, are one; and it is not empty.
LEMMA FlattenType ==
  ASSUME NEW n \in Nat \ {0}, NEW parts \in [1 .. n -> Bytes \ {<<>>}]
  PROVE  FlattenSeq(parts) \in Bytes \ {<<>>}
<1> DEFINE D    == 1 .. n
           stop == {1}
           next == [i \in D |-> IF i = 1 THEN 1 ELSE i - 1]
           rank == [i \in D |-> i - 1]
           V    == Bytes \ {<<>>}
           step == [i \in D |-> [before \in V |-> before \o parts[i]]]
           Flat(g) == g = [i \in D |-> IF i = 1 THEN parts[i] ELSE g[i - 1] \o parts[i]]
<1>0. Len(parts) = n
  OBVIOUS
<1>1. ASSUME NEW p \in V, NEW q \in V PROVE p \o q \in V
  <2>1. p \o q \in Bytes /\ Len(p \o q) = Len(p) + Len(q)
        /\ Len(p) \in Nat /\ Len(q) \in Nat
    BY Joined
  <2>2. Len(p) # 0
    BY DEF Bytes
  <2> QED BY <2>1, <2>2
<1>2. Descends(D, stop, next, rank, n)
  BY DEF Descends
<1>3. step \in [D -> [V -> V]]
  BY <1>1
<1>4. PICK f \in [D -> V] : Solves(f, D, stop, next, parts, step)
  <2> HIDE DEF D, stop, next, rank, step, V
  <2>1. parts \in [D -> V]
    BY DEF D, V
  <2> QED BY <1>2, <1>3, <2>1, Recursion, Zenon
<1>5. \A i \in D : f[i] = IF i = 1 THEN parts[i] ELSE f[i - 1] \o parts[i]
  <2> SUFFICES ASSUME NEW i \in D
               PROVE  f[i] = IF i = 1 THEN parts[i] ELSE f[i - 1] \o parts[i]
    OBVIOUS
  <2>1. CASE i = 1
    BY <1>4, <2>1 DEF Solves
  <2>2. CASE i # 1
    <3>1. i \notin stop /\ next[i] = i - 1 /\ f[i - 1] \in V
      BY <2>2
    <3>2. f[i] = step[i][f[next[i]]]
      BY <1>4, <3>1 DEF Solves
    <3> QED BY <2>2, <3>1, <3>2
  <2> QED BY <2>1, <2>2
<1>6. Flat(f)
  BY <1>5
<1>7. PICK g : Flat(g) /\ FlattenSeq(parts) = g[n]
  <2> DEFINE g == CHOOSE h : Flat(h)
  <2>1. Flat(g)
    <3> HIDE DEF Flat
    <3> QED BY <1>6
  <2>2. FlattenSeq(parts) = g[n]
    BY <1>0 DEF FlattenSeq
  <2> QED BY <2>1, <2>2
<1>8. D \subseteq {i \in D : g[i] = f[i]}
  <2> DEFINE S == {i \in D : g[i] = f[i]}
  <2>1. ASSUME NEW i \in D, i \in stop \/ next[i] \in S PROVE i \in S
    <3>1. g[i] = IF i = 1 THEN parts[i] ELSE g[i - 1] \o parts[i]
      BY <1>7
    <3>2. CASE i = 1
      BY <1>5, <3>1, <3>2
    <3>3. CASE i # 1
      <4>1. g[i - 1] = f[i - 1]
        BY <2>1, <3>3
      <4> QED BY <1>5, <3>1, <3>3, <4>1
    <3> QED BY <3>2, <3>3
  <2>2. Carried(D, stop, next, S)
    BY <2>1 DEF Carried
  <2> HIDE DEF D, stop, next, rank, S
  <2>3. D \subseteq S
    BY <1>2, <2>2, Descent, Zenon
  <2> QED BY <2>3 DEF S
<1>9. g[n] = f[n] /\ f[n] \in V
  BY <1>8
<1> QED BY <1>7, <1>9

LEMMA DumpType ==
  ASSUME NEW v \in Bytes, v # <<>>, NEW ascii \in BOOLEAN
  PROVE  Dump(v, ascii) \in Bytes \ {<<>>}
<1> DEFINE part(i) == IF v[i] = "s" THEN <<Backslash, "n">>
                      ELSE IF v[i] = Backslash THEN <<Backslash, Backslash>>
                      ELSE IF v[i] = Pair /\ ascii
                           THEN <<Backslash, "u", High, Backslash, "u", Low>>
                      ELSE <<v[i]>>
           parts   == [i \in 1 .. Len(v) |-> part(i)]
<1>1. Len(v) \in Nat \ {0}
  BY DEF Bytes
<1>2. {"\\", "n", "s", "u", "D", "C"} \subseteq Letters
  BY LettersAssumption
<1>3. /\ <<Backslash, "n">> \in Bytes \ {<<>>} /\ <<Backslash, Backslash>> \in Bytes \ {<<>>}
      /\ <<Backslash, "u", High, Backslash, "u", Low>> \in Bytes \ {<<>>}
  BY <1>2 DEF Bytes, Backslash, High, Low
<1>4. ASSUME NEW i \in 1 .. Len(v) PROVE part(i) \in Bytes \ {<<>>}
  <2>1. v[i] \in Letters
    BY DEF Bytes
  <2>2. <<v[i]>> \in Bytes \ {<<>>}
    BY <2>1 DEF Bytes
  <2> QED BY <1>3, <2>2
<1>5. parts \in [1 .. Len(v) -> Bytes \ {<<>>}]
  BY <1>4
<1>6. FlattenSeq(parts) \in Bytes \ {<<>>}
  <2> HIDE DEF parts
  <2> QED BY <1>1, <1>5, FlattenType
<1> QED BY <1>6 DEF Dump

\* What an overlap has is enough: no pattern is longer by more than a byte.
LEMMA PatternsType ==
  /\ Patterns \subseteq Bytes \ {<<>>}
  /\ Overlap \in Nat
  /\ \A p \in Patterns : Len(p) \in 1 .. Overlap + 1
<1>1. ASSUME NEW v \in Values
      PROVE  /\ v \in Bytes \ {<<>>}
             /\ Dump(v, FALSE) \in Bytes \ {<<>>}
             /\ Dump(v, TRUE) \in Bytes \ {<<>>}
  <2>1. v \in Bytes \ {<<>>}
    BY ValuesAssumption DEF Bytes
  <2> QED BY <2>1, DumpType
<1>2. Patterns \subseteq Bytes \ {<<>>}
  BY <1>1 DEF Patterns
<1>3. \A p \in Patterns : Len(p) \in Nat \ {0}
  BY <1>2 DEF Bytes
<1>4. PICK b \in Nat : \A p \in Patterns : Len(p) <= b
  <2> DEFINE plain == [v \in Values |-> Len(v)]
             json  == [v \in Values |-> Len(Dump(v, FALSE))]
             ascii == [v \in Values |-> Len(Dump(v, TRUE))]
  <2>1. plain \in [Values -> Nat] /\ json \in [Values -> Nat] /\ ascii \in [Values -> Nat]
    <3>1. \A v \in Bytes : Len(v) \in Nat
      BY DEF Bytes
    <3>2. \A v \in Values : Len(v) \in Nat /\ Len(Dump(v, FALSE)) \in Nat
                            /\ Len(Dump(v, TRUE)) \in Nat
      BY <1>1, <3>1
    <3> QED BY <3>2
  <2> HIDE DEF plain, json, ascii
  <2>2. PICK b1 \in Nat : \A v \in Values : plain[v] <= b1
    BY <2>1, FiniteBound, ValuesAssumption
  <2>3. PICK b2 \in Nat : \A v \in Values : json[v] <= b2
    BY <2>1, FiniteBound, ValuesAssumption
  <2>4. PICK b3 \in Nat : \A v \in Values : ascii[v] <= b3
    BY <2>1, FiniteBound, ValuesAssumption
  <2>5. ASSUME NEW p \in Patterns PROVE Len(p) <= b1 + b2 + b3
    <3>1. PICK v \in Values : p \in {v, Dump(v, FALSE), Dump(v, TRUE)}
      BY DEF Patterns
    <3>2. Len(p) \in {plain[v], json[v], ascii[v]}
      BY <3>1 DEF plain, json, ascii
    <3>3. plain[v] \in Nat /\ json[v] \in Nat /\ ascii[v] \in Nat
      BY <2>1
    <3>4. plain[v] <= b1 /\ json[v] <= b2 /\ ascii[v] <= b3
      BY <2>2, <2>3, <2>4
    <3> QED BY <3>2, <3>3, <3>4
  <2>6. b1 + b2 + b3 \in Nat
    OBVIOUS
  <2> QED BY <2>5, <2>6
<1>5. Patterns # {} /\ Patterns \in SUBSET Bytes
  <2>1. PICK v \in Values : TRUE
    BY ValuesAssumption
  <2>2. v \in {v, Dump(v, FALSE), Dump(v, TRUE)}
    OBVIOUS
  <2>3. v \in Patterns
    BY <2>2 DEF Patterns
  <2> QED BY <1>2, <2>3
<1>6. /\ \E p \in Patterns : Longest(Patterns) = Len(p)
      /\ \A p \in Patterns : Len(p) <= Longest(Patterns)
      /\ Longest(Patterns) \in Nat
  BY <1>4, <1>5, LongestDef
<1> QED BY <1>2, <1>3, <1>6 DEF Overlap
-----------------------------------------------------------------------------
(* The matcher of a stream *)

\* What a matcher keeps are the last bytes it has seen.
LEMMA RetainedDef ==
  ASSUME NEW x \in Bytes
  PROVE  /\ Retained(x) \in Bytes
         /\ Len(Retained(x)) = IF Len(x) > Overlap THEN Overlap ELSE Len(x)
         /\ Len(Retained(x)) \in Nat
         /\ Len(Retained(x)) <= Overlap /\ Len(Retained(x)) <= Len(x)
         /\ Len(Retained(x)) = Overlap \/ Len(Retained(x)) = Len(x)
         /\ \A k \in 1 .. Len(Retained(x)) :
              Retained(x)[k] = x[Len(x) - Len(Retained(x)) + k]
<1> DEFINE i == IF Len(x) > Overlap THEN Len(x) - Overlap + 1 ELSE 1
           r == SubSeq(x, i, Len(x))
<1>1. Len(x) \in Nat /\ Overlap \in Nat
  BY PatternsType DEF Bytes
<1>2. i \in Nat \ {0} /\ i <= Len(x) + 1
  BY <1>1
<1> HIDE DEF i
<1>3. /\ r \in Bytes
      /\ Len(r) = IF i <= Len(x) THEN Len(x) - i + 1 ELSE 0
      /\ \A k \in 1 .. Len(x) - i + 1 : r[k] = x[i + k - 1]
  BY <1>1, <1>2, PartOf
<1> HIDE DEF r
<1>4. Len(r) = Len(x) - i + 1
  BY <1>1, <1>2, <1>3
<1>5. Len(r) = IF Len(x) > Overlap THEN Overlap ELSE Len(x)
  BY <1>1, <1>4 DEF i
<1>6. ASSUME NEW k \in 1 .. Len(r) PROVE r[k] = x[Len(x) - Len(r) + k]
  <2>1. Len(x) - Len(r) + k = i + k - 1
    BY <1>1, <1>2, <1>4
  <2> QED BY <1>3, <1>4, <2>1
<1>7. r = Retained(x)
  BY DEF r, i, Retained
<1>8. Len(r) \in Nat /\ Len(r) <= Overlap /\ Len(r) <= Len(x)
      /\ (Len(r) = Overlap \/ Len(r) = Len(x))
  <2>1. CASE Len(x) > Overlap
    BY <1>1, <1>5, <2>1
  <2>2. CASE ~(Len(x) > Overlap)
    BY <1>1, <1>5, <2>2
  <2> QED BY <2>1, <2>2
<1> QED BY <1>3, <1>5, <1>6, <1>7, <1>8

\* What follows upon the bytes kept is what follows upon all of them.
LEMMA RetainedShift ==
  ASSUME NEW x \in Bytes, NEW y \in Bytes, NEW k \in 1 .. Len(Retained(x) \o y)
  PROVE  (Retained(x) \o y)[k] = (x \o y)[Len(x) - Len(Retained(x)) + k]
<1> DEFINE r == Retained(x)
<1>1. /\ r \in Bytes /\ Len(r) <= Len(x)
      /\ \A j \in 1 .. Len(r) : r[j] = x[Len(x) - Len(r) + j]
  BY RetainedDef
<1> HIDE DEF r
<1>2. /\ Len(r) \in Nat /\ Len(y) \in Nat /\ Len(r \o y) = Len(r) + Len(y)
      /\ \A j \in 1 .. Len(r) : (r \o y)[j] = r[j]
      /\ \A j \in 1 .. Len(y) : (r \o y)[Len(r) + j] = y[j]
  BY <1>1, Joined
<1>3. /\ Len(x) \in Nat
      /\ \A j \in 1 .. Len(x) : (x \o y)[j] = x[j]
      /\ \A j \in 1 .. Len(y) : (x \o y)[Len(x) + j] = y[j]
  BY Joined
<1>4. k \in 1 .. Len(r) + Len(y)
  BY <1>2 DEF r
<1>5. CASE k <= Len(r)
  <2>1. k \in 1 .. Len(r) /\ Len(x) - Len(r) + k \in 1 .. Len(x)
    BY <1>1, <1>2, <1>3, <1>4, <1>5
  <2> QED BY <1>1, <1>2, <1>3, <2>1 DEF r
<1>6. CASE k > Len(r)
  <2> DEFINE j == k - Len(r)
  <2>1. j \in 1 .. Len(y) /\ k = Len(r) + j /\ Len(x) - Len(r) + k = Len(x) + j
    BY <1>2, <1>3, <1>4, <1>6
  <2> HIDE DEF j
  <2>2. (r \o y)[k] = y[j] /\ (x \o y)[Len(x) - Len(r) + k] = y[j]
    BY <1>2, <1>3, <2>1
  <2> QED BY <2>2 DEF r
<1>7. k <= Len(r) \/ k > Len(r)
  BY <1>2, <1>4
<1> QED BY <1>5, <1>6, <1>7

\* A matcher keeps the same, whether it has seen all bytes or what it has kept of
\* the first.
LEMMA RetainedAgain ==
  ASSUME NEW x \in Bytes, NEW y \in Bytes
  PROVE  Retained(Retained(x) \o y) = Retained(x \o y)
<1> DEFINE r == Retained(x)
           u == r \o y
           s == x \o y
           d == Len(x) - Len(r)
<1>1. /\ r \in Bytes /\ Len(r) <= Overlap /\ Len(r) <= Len(x)
      /\ Len(r) = Overlap \/ Len(r) = Len(x)
  BY RetainedDef
<1>2. /\ u \in Bytes /\ Len(u) = Len(r) + Len(y)
      /\ Len(r) \in Nat /\ Len(y) \in Nat
  BY <1>1, Joined
<1>3. s \in Bytes /\ Len(s) = Len(x) + Len(y) /\ Len(x) \in Nat
  BY Joined
<1>4. \A k \in 1 .. Len(u) : u[k] = s[d + k]
  BY RetainedShift
<1>5. Overlap \in Nat
  BY PatternsType
<1> HIDE DEF r, u, s
<1>6. /\ Retained(u) \in Bytes
      /\ Len(Retained(u)) = IF Len(u) > Overlap THEN Overlap ELSE Len(u)
      /\ \A k \in 1 .. Len(Retained(u)) : Retained(u)[k] = u[Len(u) - Len(Retained(u)) + k]
  BY <1>2, RetainedDef
<1>7. /\ Retained(s) \in Bytes
      /\ Len(Retained(s)) = IF Len(s) > Overlap THEN Overlap ELSE Len(s)
      /\ \A k \in 1 .. Len(Retained(s)) : Retained(s)[k] = s[Len(s) - Len(Retained(s)) + k]
  BY <1>3, RetainedDef
<1>8. Len(Retained(u)) = Len(Retained(s)) /\ Len(s) = d + Len(u)
  <2>1. Len(s) = d + Len(u)
    BY <1>2, <1>3
  <2>2. CASE Len(r) = Overlap
    <3>1. Len(u) >= Overlap /\ Len(s) >= Overlap
      BY <1>1, <1>2, <1>3, <1>5, <2>2
    <3>2. Len(Retained(u)) = Overlap
      BY <1>2, <1>5, <1>6, <3>1
    <3>3. Len(Retained(s)) = Overlap
      BY <1>3, <1>5, <1>7, <3>1
    <3> QED BY <2>1, <3>2, <3>3
  <2>3. CASE Len(r) = Len(x)
    BY <1>2, <1>3, <1>6, <1>7, <2>1, <2>3
  <2> QED BY <1>1, <2>2, <2>3
<1>9. ASSUME NEW k \in 1 .. Len(Retained(u)) PROVE Retained(u)[k] = Retained(s)[k]
  <2> DEFINE j == Len(u) - Len(Retained(u)) + k
  <2>1. Len(Retained(u)) \in Nat /\ Len(u) \in Nat /\ Len(Retained(u)) <= Len(u)
    BY <1>2, <1>5, <1>6
  <2>2. j \in 1 .. Len(u) /\ d + j = Len(s) - Len(Retained(s)) + k
    BY <1>2, <1>3, <1>8, <2>1
  <2>3. Retained(u)[k] = u[j] /\ Retained(s)[k] = s[d + j]
    BY <1>6, <1>7, <1>8, <2>2
  <2> HIDE DEF j, d
  <2> QED BY <1>4, <2>2, <2>3
<1>10. Retained(u) = Retained(s)
  BY ONLY <1>6, <1>7, <1>8, <1>9, SameBytes
<1> QED BY <1>10 DEF u, s, r

\* A pattern occurs wherever its bytes are.
LEMMA OccursWhere ==
  ASSUME NEW s \in Bytes, NEW i \in 1 .. Len(s), NEW p \in PatternsAt(s, i),
         NEW u \in Bytes, NEW j \in Nat \ {0}, j + Len(p) - 1 <= Len(u),
         \A k \in 0 .. Len(p) - 1 : u[j + k] = s[i + k]
  PROVE  j \in 1 .. Len(u) /\ p \in PatternsAt(u, j)
<1>1. p \in Patterns /\ i + Len(p) - 1 <= Len(s) /\ SubSeq(s, i, i + Len(p) - 1) = p
  BY DEF PatternsAt
<1>2. Len(p) \in Nat \ {0} /\ Len(s) \in Nat /\ Len(u) \in Nat
  <2>1. Len(p) \in 1 .. Overlap + 1 /\ Overlap \in Nat
    BY <1>1, PatternsType
  <2> QED BY <2>1 DEF Bytes
<1>3. i \in 1 .. Len(s) + 1 /\ j \in 1 .. Len(u) + 1 /\ j \in 1 .. Len(u)
  BY <1>2
<1>4. SubSeq(u, j, j + Len(p) - 1) = SubSeq(s, i, i + Len(p) - 1)
  BY <1>1, <1>2, <1>3, SamePart
<1> QED BY <1>1, <1>3, <1>4 DEF PatternsAt

LEMMA OccursGrows ==
  ASSUME NEW x \in Bytes, NEW y \in Bytes, Occurs(x)
  PROVE  Occurs(x \o y)
<1>1. PICK i \in 1 .. Len(x) : PatternsAt(x, i) # {}
  BY DEF Occurs
<1>2. PICK p \in PatternsAt(x, i) : TRUE
  BY <1>1
<1>3. i + Len(p) - 1 <= Len(x) /\ p \in Patterns
  BY DEF PatternsAt
<1>4. Len(p) \in Nat
  <2>1. Len(p) \in 1 .. Overlap + 1 /\ Overlap \in Nat
    BY <1>3, PatternsType
  <2> QED BY <2>1
<1>5. /\ x \o y \in Bytes /\ Len(x \o y) = Len(x) + Len(y)
      /\ Len(x) \in Nat /\ Len(y) \in Nat
      /\ \A k \in 1 .. Len(x) : (x \o y)[k] = x[k]
  BY Joined
<1>6. /\ i \in Nat \ {0} /\ i + Len(p) - 1 <= Len(x \o y)
      /\ \A k \in 0 .. Len(p) - 1 : i + k \in 1 .. Len(x)
  BY <1>3, <1>4, <1>5
<1>7. i \in 1 .. Len(x \o y) /\ p \in PatternsAt(x \o y, i)
  <2>1. \A k \in 0 .. Len(p) - 1 : (x \o y)[i + k] = x[i + k]
    BY <1>5, <1>6
  <2> QED BY <1>5, <1>6, <2>1, OccursWhere
<1> QED BY <1>7 DEF Occurs

\* Where no pattern has occurred, what is kept is enough to find the next one.
THEOREM RetainedIsEnough ==
  ASSUME NEW x \in Bytes, NEW y \in Bytes, ~Occurs(x)
  PROVE  Occurs(Retained(x) \o y) <=> Occurs(x \o y)
<1> DEFINE r == Retained(x)
           u == r \o y
           s == x \o y
           d == Len(x) - Len(r)
<1>1. /\ r \in Bytes /\ Len(r) <= Overlap /\ Len(r) <= Len(x)
      /\ Len(r) = Overlap \/ Len(r) = Len(x)
  BY RetainedDef
<1>2. /\ u \in Bytes /\ Len(u) = Len(r) + Len(y)
      /\ Len(r) \in Nat /\ Len(y) \in Nat
  BY <1>1, Joined
<1>3. /\ s \in Bytes /\ Len(s) = Len(x) + Len(y) /\ Len(x) \in Nat
      /\ \A k \in 1 .. Len(x) : s[k] = x[k]
  BY Joined
<1>4. \A k \in 1 .. Len(u) : u[k] = s[d + k]
  BY RetainedShift
<1>5. Overlap \in Nat /\ \A p \in Patterns : Len(p) \in 1 .. Overlap + 1
  BY PatternsType
<1> HIDE DEF r, u, s
<1>6. d \in Nat /\ Len(s) = d + Len(u)
  BY <1>1, <1>2, <1>3, <1>5
<1>7. ASSUME Occurs(u) PROVE Occurs(s)
  <2>0. PICK i \in 1 .. Len(u) : PatternsAt(u, i) # {}
    BY <1>7 DEF Occurs
  <2>1. PICK p \in PatternsAt(u, i) : TRUE
    BY <2>0
  <2>2. i + Len(p) - 1 <= Len(u) /\ p \in Patterns
    BY DEF PatternsAt
  <2>3. Len(p) \in Nat
    BY <1>5, <2>2
  <2>4. d + i \in Nat \ {0} /\ (d + i) + Len(p) - 1 <= Len(s)
    BY <1>2, <1>6, <2>2, <2>3
  <2>5. ASSUME NEW k \in 0 .. Len(p) - 1 PROVE s[(d + i) + k] = u[i + k]
    <3>1. i + k \in 1 .. Len(u) /\ (d + i) + k = d + (i + k)
      BY <1>2, <1>6, <2>2, <2>3
    <3> QED BY <1>4, <3>1
  <2>6. d + i \in 1 .. Len(s) /\ p \in PatternsAt(s, d + i)
    BY ONLY <1>2, <1>3, <2>1, <2>4, <2>5, i \in 1 .. Len(u), p \in PatternsAt(u, i), OccursWhere
  <2> QED BY <2>6 DEF Occurs
<1>8. ASSUME Occurs(s) PROVE Occurs(u)
  <2>0. PICK i \in 1 .. Len(s) : PatternsAt(s, i) # {}
    BY <1>8 DEF Occurs
  <2>1. PICK p \in PatternsAt(s, i) : TRUE
    BY <2>0
  <2>2. i + Len(p) - 1 <= Len(s) /\ p \in Patterns
    BY DEF PatternsAt
  <2>3. Len(p) \in 1 .. Overlap + 1
    BY <1>5, <2>2
  <2>4. i + Len(p) - 1 > Len(x)
    <3> SUFFICES ASSUME i + Len(p) - 1 <= Len(x) PROVE FALSE
      BY <1>3, <2>3, <1>5
    <3>1. i \in Nat \ {0} /\ \A k \in 0 .. Len(p) - 1 : i + k \in 1 .. Len(x)
      BY <1>3, <1>5, <2>3
    <3>2. \A k \in 0 .. Len(p) - 1 : x[i + k] = s[i + k]
      BY <1>3, <3>1
    <3>3. i \in 1 .. Len(x) /\ p \in PatternsAt(x, i)
      BY <1>3, <3>1, <3>2, OccursWhere
    <3> QED BY <3>3 DEF Occurs
  <2> DEFINE j == i - d
  <2>5. j \in Nat \ {0} /\ j + Len(p) - 1 <= Len(u) /\ i = d + j
    BY <1>1, <1>2, <1>3, <1>5, <1>6, <2>2, <2>3, <2>4
  <2> HIDE DEF j
  <2>6. ASSUME NEW k \in 0 .. Len(p) - 1 PROVE u[j + k] = s[i + k]
    <3>1. j + k \in 1 .. Len(u) /\ i + k = d + (j + k)
      BY <1>2, <1>5, <1>6, <2>3, <2>5
    <3> QED BY <1>4, <3>1
  <2>7. j \in 1 .. Len(u) /\ p \in PatternsAt(u, j)
    BY ONLY <1>2, <1>3, <2>5, <2>6, i \in 1 .. Len(s), p \in PatternsAt(s, i), OccursWhere
  <2> QED BY <2>7 DEF Occurs
<1> QED BY <1>7, <1>8 DEF u, s, r
-----------------------------------------------------------------------------
(* Whole buffers *)

\* Redaction gives bytes.
LEMMA RedactedType ==
  ASSUME NEW s \in Bytes
  PROVE  Redacted(s) \in Bytes
<1> DEFINE D      == 1 .. Len(s) + 1
           stop   == {i \in D : i > Len(s)}
           past(i) == IF PatternsAt(s, i) = {} THEN 1 ELSE Longest(PatternsAt(s, i))
           put(i)  == IF PatternsAt(s, i) = {} THEN <<s[i]>> ELSE <<"#">>
           base   == [i \in D |-> <<>>]
           next   == [i \in D |-> IF i \in stop THEN i ELSE i + past(i)]
           rank   == [i \in D |-> Len(s) + 1 - i]
           step   == [i \in D |-> [more \in Bytes |->
                       IF i \in stop THEN more ELSE put(i) \o more]]
           Right(g, i) == g[i] = IF i > Len(s) THEN <<>> ELSE put(i) \o g[i + past(i)]
<1>0. Len(s) \in Nat
  BY DEF Bytes
<1>1. ASSUME NEW i \in D, i \notin stop
      PROVE  past(i) \in 1 .. Len(s) + 1 - i /\ put(i) \in Bytes
  <2>1. i \in 1 .. Len(s)
    BY <1>0, <1>1
  <2>2. past(i) \in 1 .. Len(s) + 1 - i
    <3>1. CASE PatternsAt(s, i) = {}
      BY <1>0, <2>1, <3>1
    <3>2. CASE PatternsAt(s, i) # {}
      <4> DEFINE ps == PatternsAt(s, i)
      <4>1. /\ ps \in SUBSET Bytes /\ Overlap + 1 \in Nat
            /\ \A p \in ps : Len(p) \in 1 .. Overlap + 1 /\ i + Len(p) - 1 <= Len(s)
        BY PatternsType DEF PatternsAt
      <4>2. \A p \in ps : Len(p) <= Overlap + 1
        BY <4>1
      <4> HIDE DEF ps
      <4>3. PICK p \in ps : Longest(ps) = Len(p)
        BY <3>2, <4>1, <4>2, LongestDef DEF ps
      <4>4. Longest(ps) \in 1 .. Len(s) + 1 - i
        BY <1>0, <2>1, <4>1, <4>3
      <4> QED BY <3>2, <4>4 DEF ps
    <3> QED BY <3>1, <3>2
  <2>3. put(i) \in Bytes
    <3>1. s[i] \in Letters /\ "#" \in Letters
      BY <2>1, LettersAssumption DEF Bytes
    <3>2. <<s[i]>> \in Bytes /\ <<"#">> \in Bytes
      BY <3>1 DEF Bytes
    <3> QED BY <3>2
  <2> QED BY <2>2, <2>3
<1>2. /\ Redacting(s) = CHOOSE g : g = [i \in D |-> IF i > Len(s) THEN <<>>
                                                   ELSE put(i) \o g[i + past(i)]]
  <2>1. \A g, i : (IF PatternsAt(s, i) = {} THEN <<s[i]>> \o g[i + 1]
                   ELSE <<"#">> \o g[i + Longest(PatternsAt(s, i))])
                  = put(i) \o g[i + past(i)]
    OBVIOUS
  <2> QED BY <2>1 DEF Redacting
<1> HIDE DEF past, put
<1>3. base \in [D -> Bytes]
  BY DEF Bytes
<1>4. next \in [D -> D] /\ rank \in [D -> 0 .. Len(s)]
  BY <1>0, <1>1
<1>5. ASSUME NEW i \in D, i \notin stop PROVE rank[next[i]] < rank[i]
  <2>1. next[i] = i + past(i) /\ i + past(i) \in D
    BY <1>0, <1>1, <1>5
  <2> QED BY <1>0, <1>1, <1>5, <2>1
<1>6. Descends(D, stop, next, rank, Len(s))
  BY <1>0, <1>4, <1>5 DEF Descends
<1>7. step \in [D -> [Bytes -> Bytes]]
  BY <1>1, Joined
<1>8. PICK f \in [D -> Bytes] : Solves(f, D, stop, next, base, step)
  <2> HIDE DEF D, stop, base, next, step, rank
  <2> QED BY <1>3, <1>6, <1>7, Recursion, Zenon
<1>9. \A i \in D : Right(f, i)
  <2> SUFFICES ASSUME NEW i \in D PROVE Right(f, i)
    OBVIOUS
  <2>1. CASE i > Len(s)
    BY <1>8, <2>1 DEF Solves
  <2>2. CASE ~(i > Len(s))
    <3>1. i \notin stop /\ next[i] = i + past(i) /\ f[next[i]] \in Bytes
      BY <1>4, <2>2
    <3>2. f[i] = step[i][f[next[i]]]
      BY <1>8, <3>1 DEF Solves
    <3> QED BY <2>2, <3>1, <3>2
  <2> QED BY <2>1, <2>2
<1> DEFINE Whole(g) == g = [i \in D |-> IF i > Len(s) THEN <<>> ELSE put(i) \o g[i + past(i)]]
<1>10. Whole(f)
  BY <1>9
<1>11. Whole(Redacting(s))
  <2> HIDE DEF Whole
  <2>1. Redacting(s) = CHOOSE g : Whole(g)
    BY <1>2 DEF Whole
  <2> QED BY <1>10, <2>1
<1> DEFINE h == Redacting(s)
           S == {i \in D : h[i] = f[i]}
<1>12. \A i \in D : Right(h, i)
  BY <1>11
<1> HIDE DEF h
<1>13. ASSUME NEW i \in D, i \in stop \/ next[i] \in S PROVE i \in S
  <2>1. CASE i > Len(s)
    BY <1>9, <1>12, <2>1
  <2>2. CASE ~(i > Len(s))
    <3>1. i \notin stop /\ next[i] = i + past(i) /\ h[next[i]] = f[next[i]]
      BY <1>13, <2>2
    <3> QED BY <1>9, <1>12, <2>2, <3>1
  <2> QED BY <2>1, <2>2
<1>14. D \subseteq S
  <2>1. Carried(D, stop, next, S)
    BY <1>13 DEF Carried
  <2> HIDE DEF D, stop, next, rank, S
  <2> QED BY <1>6, <2>1, Descent, Zenon
<1>15. h[1] = f[1] /\ f[1] \in Bytes
  BY <1>0, <1>14
<1> QED BY <1>15 DEF Redacted, h

\* The decodings of a buffer: itself, and each decoded to the next.
LEMMA DecodingsDef ==
  ASSUME NEW s \in Bytes
  PROVE  /\ Decodings(s) \in [0 .. Rounds -> Bytes]
         /\ Decodings(s)[0] = s
         /\ \A k \in 0 .. Rounds - 1 :
              Decodings(s)[k + 1] = Decode(Decodings(s)[k], TRUE).out
<1> DEFINE D    == 0 .. Rounds
           stop == {0}
           base == [k \in D |-> s]
           next == [k \in D |-> IF k = 0 THEN 0 ELSE k - 1]
           rank == [k \in D |-> k]
           step == [k \in D |-> [more \in Bytes |-> Decode(more, TRUE).out]]
           Whole(g) == g = [k \in D |-> IF k = 0 THEN s ELSE Decode(g[k - 1], TRUE).out]
<1>0. Rounds \in Nat
  BY BoundsAssumption
<1>1. base \in [D -> Bytes] /\ step \in [D -> [Bytes -> Bytes]]
  BY DecodeType
<1>2. Descends(D, stop, next, rank, Rounds)
  BY <1>0 DEF Descends
<1>3. PICK f \in [D -> Bytes] : Solves(f, D, stop, next, base, step)
  <2> HIDE DEF D, stop, base, next, step, rank
  <2> QED BY <1>1, <1>2, Recursion, Zenon
<1>4. \A k \in D : f[k] = IF k = 0 THEN s ELSE Decode(f[k - 1], TRUE).out
  <2> SUFFICES ASSUME NEW k \in D
               PROVE  f[k] = IF k = 0 THEN s ELSE Decode(f[k - 1], TRUE).out
    OBVIOUS
  <2>1. CASE k = 0
    BY <1>3, <2>1 DEF Solves
  <2>2. CASE k # 0
    <3>1. k \notin stop /\ next[k] = k - 1 /\ f[k - 1] \in Bytes
      BY <1>0, <2>2
    <3>2. f[k] = step[k][f[next[k]]]
      BY <1>3, <3>1 DEF Solves
    <3> QED BY <2>2, <3>1, <3>2
  <2> QED BY <2>1, <2>2
<1>5. Whole(f)
  BY <1>4
<1> DEFINE h == Decodings(s)
           S == {k \in D : h[k] = f[k]}
<1>6. Whole(h)
  <2> HIDE DEF Whole
  <2>1. h = CHOOSE g : Whole(g)
    BY DEF Whole, Decodings
  <2> QED BY <1>5, <2>1
<1>7. \A k \in D : h[k] = IF k = 0 THEN s ELSE Decode(h[k - 1], TRUE).out
  BY <1>6
<1>8. h = [k \in D |-> h[k]]
  BY <1>6
<1> HIDE DEF h
<1>9. ASSUME NEW k \in D, k \in stop \/ next[k] \in S PROVE k \in S
  <2>1. CASE k = 0
    BY <1>4, <1>7, <2>1
  <2>2. CASE k # 0
    <3>1. h[k - 1] = f[k - 1]
      BY <1>9, <2>2
    <3> QED BY <1>4, <1>7, <2>2, <3>1
  <2> QED BY <2>1, <2>2
<1>10. D \subseteq S
  <2>1. Carried(D, stop, next, S)
    BY <1>9 DEF Carried
  <2> HIDE DEF D, stop, next, rank, S
  <2> QED BY <1>2, <2>1, Descent, Zenon
<1>11. h = f
  BY <1>8, <1>10
<1>12. \A k \in 0 .. Rounds - 1 : f[k + 1] = Decode(f[k], TRUE).out
  <2> SUFFICES ASSUME NEW k \in 0 .. Rounds - 1 PROVE f[k + 1] = Decode(f[k], TRUE).out
    OBVIOUS
  <2>1. k + 1 \in D /\ k + 1 # 0 /\ (k + 1) - 1 = k
    BY <1>0
  <2> HIDE DEF D
  <2> QED BY <1>4, <2>1
<1>13. f[0] = s /\ f \in [0 .. Rounds -> Bytes]
  <2>1. 0 \in D
    BY <1>0
  <2>2. f[0] = IF 0 = 0 THEN s ELSE Decode(f[0 - 1], TRUE).out
    BY ONLY <1>4, <2>1, Zenon
  <2> QED BY <2>2
<1>14. Decodings(s) = f
  BY <1>11 DEF h
<1> QED BY <1>12, <1>13, <1>14
-----------------------------------------------------------------------------
(* The layers of a stream *)

Layers == [tail : [0 .. Rounds -> Bytes], pending : [0 .. Rounds -> Bytes],
           deep : BOOLEAN, hit : BOOLEAN]

\* What has come through each layer.
Contents == [0 .. Rounds -> Bytes]

\* What the layers know, from the first of them on, of what has come through them.
Represents(m, x, first) ==
  /\ m \in Layers /\ x \in Contents
  /\ \A k \in first .. Rounds : /\ m.tail[k] = Retained(x[k])
                                /\ m.pending[k] = Decode(x[k], FALSE).rest
  /\ m.hit  <=> \E k \in 0 .. Rounds : Occurs(x[k])
  /\ m.deep <=> Decode(x[Rounds], FALSE).changed

Passed == [to : Layers, bytes : Bytes]

LEMMA ThroughType ==
  ASSUME NEW m \in Layers, NEW k \in 0 .. Rounds, NEW bytes \in Bytes
  PROVE  Through(m, k, bytes) \in Passed
<1> DEFINE held    == m.tail[k] \o bytes
           decoded == Decode(m.pending[k] \o bytes, FALSE)
<1>1. m.tail \in [0 .. Rounds -> Bytes] /\ m.pending \in [0 .. Rounds -> Bytes]
      /\ m.deep \in BOOLEAN /\ m.hit \in BOOLEAN
  BY DEF Layers
<1>2. held \in Bytes /\ m.pending[k] \o bytes \in Bytes
  BY <1>1, Joined
<1>3. Retained(held) \in Bytes
  BY <1>2, RetainedDef
<1>4. decoded.rest \in Bytes /\ decoded.out \in Bytes /\ decoded.changed \in BOOLEAN
  BY <1>2, DecodeType
<1> HIDE DEF held, decoded
<1>5. /\ [m.tail EXCEPT ![k] = Retained(held)] \in [0 .. Rounds -> Bytes]
      /\ [m.pending EXCEPT ![k] = decoded.rest] \in [0 .. Rounds -> Bytes]
      /\ (m.deep \/ (k = Rounds /\ decoded.changed)) \in BOOLEAN
      /\ (m.hit \/ (bytes # <<>> /\ Occurs(held))) \in BOOLEAN
  BY <1>1, <1>3, <1>4
<1> QED BY <1>4, <1>5 DEF Through, Passed, Layers, held, decoded

\* Bytes that go through a layer: it knows what it knew of all it has seen, and the
\* next layer is given what the decoding of all has more.
LEMMA ThroughDef ==
  ASSUME NEW m, NEW x, NEW first \in 0 .. Rounds, Represents(m, x, first),
         NEW k \in first .. Rounds, NEW bytes \in Bytes
  PROVE  /\ Represents(Through(m, k, bytes).to, [x EXCEPT ![k] = x[k] \o bytes], first)
         /\ Through(m, k, bytes).bytes \in Bytes
         /\ Decode(x[k] \o bytes, FALSE).out
              = Decode(x[k], FALSE).out \o Through(m, k, bytes).bytes
<1> DEFINE held    == m.tail[k] \o bytes
           decoded == Decode(m.pending[k] \o bytes, FALSE)
           to      == Through(m, k, bytes).to
           all     == x[k] \o bytes
           y       == [x EXCEPT ![k] = all]
<1>0. Rounds \in Nat /\ k \in 0 .. Rounds
  BY BoundsAssumption
<1>1. /\ m \in Layers /\ x \in Contents
      /\ m.tail[k] = Retained(x[k]) /\ m.pending[k] = Decode(x[k], FALSE).rest
  BY DEF Represents
<1>2. x[k] \in Bytes
  BY <1>0, <1>1 DEF Contents
<1>3. all \in Bytes
  BY <1>2, Joined
<1>4. Through(m, k, bytes) \in Passed
  BY <1>0, <1>1, ThroughType
<1>5. to \in Layers /\ Through(m, k, bytes).bytes \in Bytes
  BY <1>4 DEF Passed
<1>6. /\ to.tail = [m.tail EXCEPT ![k] = Retained(held)]
      /\ to.pending = [m.pending EXCEPT ![k] = decoded.rest]
      /\ to.deep = (m.deep \/ (k = Rounds /\ decoded.changed))
      /\ to.hit = (m.hit \/ (bytes # <<>> /\ Occurs(held)))
      /\ Through(m, k, bytes).bytes = decoded.out
  BY DEF Through
<1>7. Retained(held) = Retained(all)
  BY <1>1, <1>2, RetainedAgain
<1>8. Decode(all, FALSE) = Followed(Decode(x[k], FALSE), decoded)
  BY <1>1, <1>2, DecodeIsStreaming
<1>9. /\ Decode(all, FALSE).rest = decoded.rest
      /\ Decode(all, FALSE).out = Decode(x[k], FALSE).out \o decoded.out
      /\ Decode(all, FALSE).changed = (Decode(x[k], FALSE).changed \/ decoded.changed)
  <2> DEFINE here == Decode(x[k], FALSE)
             whole == Decode(all, FALSE)
  <2> HIDE DEF all, decoded, here
  <2>1. whole = [out |-> here.out \o decoded.out, rest |-> decoded.rest,
                 changed |-> here.changed \/ decoded.changed]
    BY <1>8 DEF Followed, here
  <2> HIDE DEF whole
  <2>2. /\ whole.rest = decoded.rest /\ whole.out = here.out \o decoded.out
        /\ whole.changed = (here.changed \/ decoded.changed)
    BY <2>1
  <2> QED BY <2>2 DEF whole, here
<1>10. y \in Contents /\ y[k] = all /\ \A j \in 0 .. Rounds : j # k => y[j] = x[j]
  BY <1>0, <1>1, <1>3 DEF Contents
<1>11. m.tail \in [0 .. Rounds -> Bytes] /\ m.pending \in [0 .. Rounds -> Bytes]
  BY <1>1 DEF Layers
<1> HIDE DEF to, held, decoded, all, y
<1>12. ASSUME NEW j \in first .. Rounds
       PROVE  to.tail[j] = Retained(y[j]) /\ to.pending[j] = Decode(y[j], FALSE).rest
  <2>1. j \in 0 .. Rounds
    BY <1>0
  <2>2. CASE j = k
    BY <1>0, <1>6, <1>7, <1>9, <1>10, <1>11, <2>2
  <2>3. CASE j # k
    <3>1. m.tail[j] = Retained(x[j]) /\ m.pending[j] = Decode(x[j], FALSE).rest
      BY DEF Represents
    <3> QED BY <1>6, <1>10, <1>11, <2>1, <2>3, <3>1
  <2> QED BY <2>2, <2>3
<1>13. to.hit <=> \E j \in 0 .. Rounds : Occurs(y[j])
  <2>1. m.hit <=> \E j \in 0 .. Rounds : Occurs(x[j])
    BY DEF Represents
  <2>2. CASE Occurs(x[k])
    <3>1. Occurs(all)
      BY <1>2, <2>2, OccursGrows DEF all
    <3> QED BY <1>0, <1>6, <1>10, <2>1, <2>2, <3>1
  <2>3. CASE ~Occurs(x[k])
    <3>1. Occurs(held) <=> Occurs(all)
      BY <1>1, <1>2, <2>3, RetainedIsEnough DEF held, all
    <3>2. CASE bytes = <<>>
      <4>1. all = x[k]
        BY <1>2, <3>2 DEF all, Bytes
      <4>2. ~Occurs(y[k])
        BY <1>10, <2>3, <4>1
      <4> QED BY <1>0, <1>6, <1>10, <2>1, <2>3, <3>2, <4>2
    <3>3. CASE bytes # <<>>
      <4>1. to.hit <=> m.hit \/ Occurs(y[k])
        BY <1>6, <1>10, <3>1, <3>3
      <4> QED BY <1>0, <1>10, <2>1, <2>3, <4>1
    <3> QED BY <3>2, <3>3
  <2> QED BY <2>2, <2>3
<1>14. to.deep <=> Decode(y[Rounds], FALSE).changed
  <2>1. m.deep <=> Decode(x[Rounds], FALSE).changed
    BY DEF Represents
  <2>2. CASE k = Rounds
    <3>1. y[Rounds] = all
      BY <1>10, <2>2
    <3>2. Decode(y[Rounds], FALSE).changed <=> Decode(x[Rounds], FALSE).changed \/ decoded.changed
      BY <1>9, <2>2, <3>1
    <3> QED BY <1>6, <2>1, <2>2, <3>2
  <2>3. CASE k # Rounds
    <3>1. y[Rounds] = x[Rounds]
      BY <1>0, <1>10, <2>3
    <3> QED BY <1>6, <2>1, <2>3, <3>1
  <2> QED BY <2>2, <2>3
<1>15. Represents(to, y, first)
  BY <1>5, <1>10, <1>12, <1>13, <1>14 DEF Represents
<1> QED BY <1>5, <1>6, <1>9, <1>15 DEF to, y, all
\* Bytes go through one layer after the other.
Feeds(f, m, first, bytes) ==
  /\ f \in [first .. Rounds + 1 -> Passed]
  /\ f[first] = [to |-> m, bytes |-> bytes]
  /\ \A k \in first .. Rounds : f[k + 1] = Through(f[k].to, k, f[k].bytes)

LEMMA FeedingDef ==
  ASSUME NEW m \in Layers, NEW first \in 0 .. Rounds, NEW bytes \in Bytes
  PROVE  Feeds(Feeding(m, first, bytes), m, first, bytes)
<1> DEFINE D     == first .. Rounds + 1
           start == [to |-> m, bytes |-> bytes]
           stop  == {first}
           base  == [k \in D |-> start]
           next  == [k \in D |-> IF k = first THEN first ELSE k - 1]
           rank  == [k \in D |-> k - first]
           step  == [k \in D |-> [p \in Passed |->
                      IF k = first THEN start ELSE Through(p.to, k - 1, p.bytes)]]
           Whole(g) == g = [k \in D |-> IF k = first THEN start
                                        ELSE Through(g[k - 1].to, k - 1, g[k - 1].bytes)]
<1>0. Rounds \in Nat /\ first \in Nat /\ first <= Rounds
  BY BoundsAssumption
<1>1. start \in Passed
  BY DEF Passed
<1>2. ASSUME NEW k \in D, k # first, NEW p \in Passed
      PROVE  Through(p.to, k - 1, p.bytes) \in Passed
  <2>1. k - 1 \in 0 .. Rounds /\ p.to \in Layers /\ p.bytes \in Bytes
    BY <1>0, <1>2 DEF Passed
  <2> QED BY <2>1, ThroughType
<1> HIDE DEF start
<1>3. base \in [D -> Passed] /\ step \in [D -> [Passed -> Passed]]
  BY <1>1, <1>2
<1>4. Descends(D, stop, next, rank, Rounds + 1)
  BY <1>0 DEF Descends
<1>5. PICK f \in [D -> Passed] : Solves(f, D, stop, next, base, step)
  <2> HIDE DEF D, stop, base, next, step, rank
  <2> QED BY <1>3, <1>4, Recursion, Zenon
<1>6. \A k \in D : f[k] = IF k = first THEN start
                          ELSE Through(f[k - 1].to, k - 1, f[k - 1].bytes)
  <2> SUFFICES ASSUME NEW k \in D
               PROVE  f[k] = IF k = first THEN start
                             ELSE Through(f[k - 1].to, k - 1, f[k - 1].bytes)
    OBVIOUS
  <2>1. CASE k = first
    BY <1>5, <2>1 DEF Solves
  <2>2. CASE k # first
    <3>1. k \notin stop /\ next[k] = k - 1 /\ f[k - 1] \in Passed
      BY <1>0, <2>2
    <3>2. f[k] = step[k][f[next[k]]]
      BY <1>5, <3>1 DEF Solves
    <3> QED BY <2>2, <3>1, <3>2
  <2> QED BY <2>1, <2>2
<1>7. Whole(f)
  BY <1>6
<1> DEFINE h == Feeding(m, first, bytes)
           S == {k \in D : h[k] = f[k]}
<1>8. Whole(h)
  <2>1. h = CHOOSE g : Whole(g)
    BY DEF Feeding, start
  <2> HIDE DEF Whole, h
  <2> QED BY <1>7, <2>1
<1>9. \A k \in D : h[k] = IF k = first THEN start
                          ELSE Through(h[k - 1].to, k - 1, h[k - 1].bytes)
  BY <1>8
<1>10. h = [k \in D |-> h[k]]
  BY <1>8
<1> HIDE DEF h
<1>11. ASSUME NEW k \in D, k \in stop \/ next[k] \in S PROVE k \in S
  <2>1. CASE k = first
    BY <1>6, <1>9, <2>1
  <2>2. CASE k # first
    <3>1. h[k - 1] = f[k - 1]
      BY <1>11, <2>2
    <3> QED BY <1>6, <1>9, <2>2, <3>1
  <2> QED BY <2>1, <2>2
<1>12. D \subseteq S
  <2>1. Carried(D, stop, next, S)
    BY <1>11 DEF Carried
  <2> HIDE DEF D, stop, next, rank, S
  <2> QED BY <1>4, <2>1, Descent, Zenon
<1>13. h = f
  BY <1>10, <1>12
<1>14. ASSUME NEW k \in first .. Rounds PROVE f[k + 1] = Through(f[k].to, k, f[k].bytes)
  <2>1. k + 1 \in D /\ k + 1 # first /\ (k + 1) - 1 = k
    BY <1>0
  <2> HIDE DEF D
  <2> QED BY <1>6, <2>1
<1>15. f[first] = start
  <2>1. first \in D
    BY <1>0
  <2> QED BY ONLY <1>6, <2>1, Zenon
<1>16. Feeding(m, first, bytes) = f /\ f \in [first .. Rounds + 1 -> Passed]
  BY <1>13 DEF h
<1> HIDE DEF D
<1> QED BY <1>14, <1>15, <1>16 DEF start, Feeds

LEMMA FeedType ==
  ASSUME NEW m \in Layers, NEW first \in 0 .. Rounds, NEW bytes \in Bytes
  PROVE  Feed(m, first, bytes) \in Layers
<1>1. Rounds + 1 \in first .. Rounds + 1
  BY BoundsAssumption
<1>2. Feeding(m, first, bytes) \in [first .. Rounds + 1 -> Passed]
  BY FeedingDef DEF Feeds
<1>3. Feeding(m, first, bytes)[Rounds + 1] \in Passed
  BY <1>1, <1>2
<1> QED BY <1>3 DEF Feed, Passed

\* Bytes that are fed to a layer, and decoded to all below it: each of these has then
\* seen what its decoder makes of all that the layer above it has seen.
Below(x, first, bytes, y) ==
  /\ \A i \in 0 .. first - 1 : y[i] = x[i]
  /\ y[first] = x[first] \o bytes
  /\ \A i \in first .. Rounds - 1 : y[i + 1] = Decode(y[i], FALSE).out

\* What the bytes make of what layer j has seen.
Given(x, first, bytes, y, j) ==
  IF j = first THEN x[first] \o bytes ELSE Decode(y[j - 1], FALSE).out

\* The bytes have gone through the layers above j, and what they have become will
\* make of what layer j has seen what they are to make of it.
Reached(x, first, bytes, at, j, y) ==
  /\ Represents(at.to, y, first)
  /\ \A i \in 0 .. Rounds : i < first \/ i >= j => y[i] = x[i]
  /\ \A i \in first .. Rounds : i < j => y[i] = Given(x, first, bytes, y, i)
  /\ j <= Rounds => x[j] \o at.bytes = Given(x, first, bytes, y, j)

LEMMA FeedDef ==
  ASSUME NEW m, NEW x, NEW first \in 0 .. Rounds, Represents(m, x, first),
         \A i \in first .. Rounds - 1 : x[i + 1] = Decode(x[i], FALSE).out,
         NEW bytes \in Bytes
  PROVE  \E y \in Contents : Represents(Feed(m, first, bytes), y, first)
                             /\ Below(x, first, bytes, y)
<1> DEFINE f == Feeding(m, first, bytes)
           Right(j, y) == Reached(x, first, bytes, f[j], j, y)
           S == {n \in Nat : first + n <= Rounds + 1 => \E y \in Contents : Right(first + n, y)}
<1>0. Rounds \in Nat /\ first \in Nat /\ first <= Rounds
  BY BoundsAssumption
<1>1. m \in Layers /\ x \in Contents
  BY DEF Represents
<1>2. /\ f \in [first .. Rounds + 1 -> Passed]
      /\ f[first].to = m /\ f[first].bytes = bytes
      /\ \A k \in first .. Rounds : f[k + 1] = Through(f[k].to, k, f[k].bytes)
  <2>1. Feeds(f, m, first, bytes)
    BY <1>1, FeedingDef
  <2> HIDE DEF f
  <2>2. f[first].to = m /\ f[first].bytes = bytes
    BY <2>1 DEF Feeds
  <2> QED BY <2>1, <2>2 DEF Feeds
<1> HIDE DEF f
<1>3. 0 \in S
  <2>1. Right(first, x)
    <3>1. \A i \in first .. Rounds : ~(i < first)
      BY <1>0
    <3>2. x[first] \o f[first].bytes = Given(x, first, bytes, x, first)
      BY <1>2 DEF Given
    <3> QED BY <1>2, <3>1, <3>2 DEF Reached
  <2>2. first + 0 = first
    BY <1>0
  <2> QED BY <1>1, <2>1, <2>2
<1>4. ASSUME NEW n \in Nat, n \in S PROVE n + 1 \in S
  <2> DEFINE j == first + n
  <2> HIDE DEF Right
  <2> SUFFICES ASSUME first + (n + 1) <= Rounds + 1
               PROVE  \E y \in Contents : Right(first + (n + 1), y)
    OBVIOUS
  <2>1. j \in first .. Rounds /\ j + 1 = first + (n + 1) /\ j \in Nat
    BY <1>0
  <2>2. PICK y \in Contents : Right(j, y)
    BY <1>0, <1>4, <2>1
  <2> HIDE DEF j
  <2> USE DEF Right
  <2> DEFINE p == f[j]
             z == [y EXCEPT ![j] = y[j] \o p.bytes]
  <2>3. p \in Passed /\ p.bytes \in Bytes /\ f[j + 1] = Through(p.to, j, p.bytes)
    <3>1. j \in first .. Rounds + 1
      BY <1>0, <2>1
    <3>2. p \in Passed
      BY <1>2, <3>1
    <3> QED BY <1>2, <2>1, <3>2 DEF Passed
  <2>4. y[j] = x[j] /\ y[j] \o p.bytes = Given(x, first, bytes, y, j)
    <3>1. j \in 0 .. Rounds /\ j >= j
      BY <1>0, <2>1
    <3>2. y[j] = x[j]
      BY <2>2, <3>1 DEF Reached
    <3> HIDE DEF j
    <3>3. x[j] \o p.bytes = Given(x, first, bytes, y, j)
      <4>1. j <= Rounds
        BY <1>0, <2>1
      <4> QED BY ONLY <2>2, <4>1, Zenon DEF Reached
    <3> QED BY <3>2, <3>3
  <2> HIDE DEF p
  <2>5. /\ Represents(f[j + 1].to, z, first)
        /\ f[j + 1].bytes \in Bytes
        /\ Decode(y[j] \o p.bytes, FALSE).out = Decode(y[j], FALSE).out \o f[j + 1].bytes
    <3>1. Represents(p.to, y, first)
      BY <2>2 DEF p, Reached
    <3>2. /\ Represents(Through(p.to, j, p.bytes).to, [y EXCEPT ![j] = y[j] \o p.bytes], first)
          /\ Through(p.to, j, p.bytes).bytes \in Bytes
          /\ Decode(y[j] \o p.bytes, FALSE).out
               = Decode(y[j], FALSE).out \o Through(p.to, j, p.bytes).bytes
      <4> DEFINE before == p.to
                 given  == p.bytes
      <4>1. given \in Bytes /\ Represents(before, y, first) /\ j \in first .. Rounds
        BY <2>1, <2>3, <3>1
      <4> HIDE DEF before, given
      <4>2. /\ Represents(Through(before, j, given).to, [y EXCEPT ![j] = y[j] \o given], first)
            /\ Through(before, j, given).bytes \in Bytes
            /\ Decode(y[j] \o given, FALSE).out
                 = Decode(y[j], FALSE).out \o Through(before, j, given).bytes
        BY <4>1, ThroughDef
      <4> QED BY <4>2 DEF before, given
    <3> QED BY <2>3, <3>2
  <2>6. z \in Contents
    BY <2>5 DEF Represents
  <2>7. z[j] = y[j] \o p.bytes /\ \A i \in 0 .. Rounds : i # j => z[i] = y[i]
    BY <1>0, <2>1, <2>2 DEF Contents
  <2> HIDE DEF z
  <2>8. \A i \in first .. Rounds : i <= j => Given(x, first, bytes, z, i) = Given(x, first, bytes, y, i)
    <3> SUFFICES ASSUME NEW i \in first .. Rounds, i <= j, i # first
                 PROVE  Given(x, first, bytes, z, i) = Given(x, first, bytes, y, i)
      BY DEF Given
    <3>1. i - 1 \in 0 .. Rounds /\ i - 1 # j
      BY <1>0, <2>1
    <3> QED BY <2>7, <3>1 DEF Given
  <2>9. Right(j + 1, z)
    <3>1. \A i \in 0 .. Rounds : i < first \/ i >= j + 1 => z[i] = x[i]
      <4> SUFFICES ASSUME NEW i \in 0 .. Rounds, i < first \/ i >= j + 1
                   PROVE  z[i] = x[i]
        OBVIOUS
      <4>1. i # j /\ (i < first \/ i >= j)
        BY <1>0, <2>1
      <4> QED BY <2>2, <2>7, <4>1 DEF Reached
    <3>2. ASSUME NEW i \in first .. Rounds, i < j + 1 PROVE z[i] = Given(x, first, bytes, z, i)
      <4>1. Given(x, first, bytes, z, i) = Given(x, first, bytes, y, i)
        <5>1. i <= j
          BY <1>0, <2>1, <3>2
        <5> QED BY <2>8, <5>1
      <4>2. CASE i = j
        BY <2>4, <2>7, <4>1, <4>2
      <4>3. CASE i # j
        <5>1. i < j /\ i \in 0 .. Rounds
          BY <1>0, <2>1, <3>2, <4>3
        <5>2. y[i] = Given(x, first, bytes, y, i)
          BY <2>2, <5>1 DEF Reached
        <5> QED BY <2>7, <4>1, <4>3, <5>1, <5>2
      <4> QED BY <4>2, <4>3
    <3>3. ASSUME j + 1 <= Rounds PROVE x[j + 1] \o f[j + 1].bytes = Given(x, first, bytes, z, j + 1)
      <4>1. j \in first .. Rounds - 1 /\ j + 1 # first /\ (j + 1) - 1 = j
        BY <1>0, <2>1, <3>3
      <4>2. x[j + 1] = Decode(x[j], FALSE).out
        BY <4>1
      <4>3. Given(x, first, bytes, z, j + 1) = Decode(z[j], FALSE).out
        BY <4>1 DEF Given
      <4> QED BY <2>4, <2>5, <2>7, <4>2, <4>3
    <3> QED BY <2>5, <3>1, <3>2, <3>3 DEF Reached
  <2> QED BY <2>1, <2>6, <2>9
<1>5. Rounds + 1 - first \in S
  <2> HIDE DEF S
  <2>1. Nat \subseteq S
    BY <1>3, <1>4, StepByStep
  <2>2. Rounds + 1 - first \in Nat
    BY <1>0
  <2> QED BY <2>1, <2>2
<1>6. PICK y \in Contents : Right(Rounds + 1, y)
  <2>1. first + (Rounds + 1 - first) = Rounds + 1
    BY <1>0
  <2> HIDE DEF Right
  <2> QED BY <1>0, <1>5, <2>1
<1>7. Represents(Feed(m, first, bytes), y, first)
  BY <1>6 DEF Feed, f, Reached
<1>8. Below(x, first, bytes, y)
  <2>1. \A i \in 0 .. first - 1 : y[i] = x[i]
    BY <1>0, <1>6 DEF Reached
  <2>2. y[first] = x[first] \o bytes
    <3>1. first \in first .. Rounds /\ first < Rounds + 1
      BY <1>0
    <3>2. y[first] = Given(x, first, bytes, y, first)
      BY <1>6, <3>1 DEF Reached
    <3> QED BY <3>2 DEF Given
  <2>3. ASSUME NEW i \in first .. Rounds - 1 PROVE y[i + 1] = Decode(y[i], FALSE).out
    <3>1. i + 1 \in first .. Rounds /\ i + 1 < Rounds + 1 /\ i + 1 # first /\ (i + 1) - 1 = i
      BY <1>0
    <3>2. y[i + 1] = Given(x, first, bytes, y, i + 1)
      BY <1>6, <3>1 DEF Reached
    <3> QED BY <3>1, <3>2 DEF Given
  <2> QED BY <2>1, <2>2, <2>3 DEF Below
<1> QED BY <1>7, <1>8
\* The layers after the end of the stream above layer k.
Flushes(f, m) ==
  /\ f \in [0 .. Rounds -> Layers]
  /\ f[0] = m
  /\ \A k \in 0 .. Rounds - 1 :
       f[k + 1] = Feed([f[k] EXCEPT !.pending[k] = <<>>], k + 1,
                       Decode(f[k].pending[k], TRUE).out)

LEMMA EmptiedType ==
  ASSUME NEW m \in Layers, NEW k \in 0 .. Rounds
  PROVE  /\ [m EXCEPT !.pending[k] = <<>>] \in Layers
         /\ m.pending[k] \in Bytes
         /\ Decode(m.pending[k], TRUE).out \in Bytes
<1>1. m.pending \in [0 .. Rounds -> Bytes]
  BY DEF Layers
<1>2. m.pending[k] \in Bytes /\ <<>> \in Bytes
  <2>1. <<>> \in Bytes
    BY DEF Bytes
  <2> QED BY <1>1, <2>1
<1>3. [m.pending EXCEPT ![k] = <<>>] \in [0 .. Rounds -> Bytes]
  BY <1>1, <1>2
<1>4. [m EXCEPT !.pending[k] = <<>>] \in Layers
  BY <1>3 DEF Layers
<1> QED BY <1>2, <1>4, DecodeType

LEMMA FlushingDef ==
  ASSUME NEW m \in Layers
  PROVE  Flushes(Flushing(m), m)
<1> DEFINE D     == 0 .. Rounds
           fed(before, k) == Feed([before EXCEPT !.pending[k - 1] = <<>>], k,
                                  Decode(before.pending[k - 1], TRUE).out)
           stop  == {0}
           base  == [k \in D |-> m]
           next  == [k \in D |-> IF k = 0 THEN 0 ELSE k - 1]
           rank  == [k \in D |-> k]
           step  == [k \in D |-> [before \in Layers |-> IF k = 0 THEN m ELSE fed(before, k)]]
           Whole(g) == g = [k \in D |-> IF k = 0 THEN m ELSE fed(g[k - 1], k)]
<1>0. Rounds \in Nat
  BY BoundsAssumption
<1>1. ASSUME NEW k \in D, k # 0, NEW before \in Layers PROVE fed(before, k) \in Layers
  <2>1. k - 1 \in 0 .. Rounds
    BY <1>0, <1>1
  <2>2. /\ [before EXCEPT !.pending[k - 1] = <<>>] \in Layers
        /\ Decode(before.pending[k - 1], TRUE).out \in Bytes
    BY <2>1, EmptiedType
  <2> QED BY <2>2, FeedType
<1> DEFINE h == Flushing(m)
<1>2. h = CHOOSE g : Whole(g)
  BY DEF Flushing
<1> HIDE DEF fed, h
<1>3. base \in [D -> Layers] /\ step \in [D -> [Layers -> Layers]]
  BY <1>1
<1>4. Descends(D, stop, next, rank, Rounds)
  BY <1>0 DEF Descends
<1>5. PICK f \in [D -> Layers] : Solves(f, D, stop, next, base, step)
  <2> HIDE DEF D, stop, base, next, step, rank
  <2> QED BY <1>3, <1>4, Recursion, Zenon
<1>6. \A k \in D : f[k] = IF k = 0 THEN m ELSE fed(f[k - 1], k)
  <2> SUFFICES ASSUME NEW k \in D
               PROVE  f[k] = IF k = 0 THEN m ELSE fed(f[k - 1], k)
    OBVIOUS
  <2>1. CASE k = 0
    BY <1>5, <2>1 DEF Solves
  <2>2. CASE k # 0
    <3>1. k \notin stop /\ next[k] = k - 1 /\ f[k - 1] \in Layers
      BY <1>0, <2>2
    <3>2. f[k] = step[k][f[next[k]]]
      BY <1>5, <3>1 DEF Solves
    <3> QED BY <2>2, <3>1, <3>2
  <2> QED BY <2>1, <2>2
<1>7. Whole(f)
  BY <1>6
<1>8. Whole(h)
  <2> HIDE DEF Whole
  <2> QED BY <1>2, <1>7
<1>9. \A k \in D : h[k] = IF k = 0 THEN m ELSE fed(h[k - 1], k)
  BY <1>8
<1>10. h = [k \in D |-> h[k]]
  BY <1>8
<1> DEFINE T == {k \in D : h[k] = f[k]}
<1>11. ASSUME NEW k \in D, k \in stop \/ next[k] \in T PROVE k \in T
  <2>1. CASE k = 0
    BY <1>6, <1>9, <2>1
  <2>2. CASE k # 0
    <3>1. h[k - 1] = f[k - 1]
      BY <1>11, <2>2
    <3> QED BY <1>6, <1>9, <2>2, <3>1
  <2> QED BY <2>1, <2>2
<1>12. D \subseteq T
  <2>1. Carried(D, stop, next, T)
    BY <1>11 DEF Carried
  <2> HIDE DEF D, stop, next, rank, T
  <2> QED BY <1>4, <2>1, Descent, Zenon
<1>13. h = f
  BY <1>10, <1>12
<1>14. ASSUME NEW k \in 0 .. Rounds - 1
       PROVE  f[k + 1] = Feed([f[k] EXCEPT !.pending[k] = <<>>], k + 1,
                              Decode(f[k].pending[k], TRUE).out)
  <2>1. k + 1 \in D /\ k + 1 # 0 /\ (k + 1) - 1 = k
    BY <1>0
  <2>2. f[k + 1] = fed(f[(k + 1) - 1], k + 1)
    <3> HIDE DEF D
    <3> QED BY <1>6, <2>1
  <2>3. f[k + 1] = fed(f[k], k + 1)
    BY <2>1, <2>2
  <2> QED BY <2>1, <2>3 DEF fed
<1>15. f[0] = m
  <2>1. 0 \in D
    BY <1>0
  <2> QED BY ONLY <1>6, <2>1, Zenon
<1>16. Flushing(m) = f /\ f \in [0 .. Rounds -> Layers]
  BY <1>13 DEF h
<1> HIDE DEF D
<1> QED BY <1>14, <1>15, <1>16 DEF Flushes

\* All the bytes decoded are those of the stream so far decoded, and what is decoded
\* of those that were kept.
LEMMA DecodeAtEnd ==
  ASSUME NEW x \in Bytes
  PROVE  Decode(x, TRUE)
           = Followed(Decode(x, FALSE), Decode(Decode(x, FALSE).rest, TRUE))
<1> DEFINE r == Decode(x, FALSE).rest
<1>1. r \in Bytes /\ <<>> \in Bytes
  <2>1. <<>> \in Bytes
    BY DEF Bytes
  <2> QED BY <2>1, DecodeType
<1> HIDE DEF r
<1>2. x \o <<>> = x /\ r \o <<>> = r
  BY <1>1 DEF Bytes
<1>3. Decode(x \o <<>>, TRUE) = Followed(Decode(x, FALSE), Decode(r \o <<>>, TRUE))
  BY <1>1, DecodeIsStreaming DEF r
<1> QED BY <1>2, <1>3 DEF r

LEMMA DecodeAtEndParts ==
  ASSUME NEW x \in Bytes
  PROVE  /\ Decode(x, TRUE).out = Decode(x, FALSE).out \o Decode(Decode(x, FALSE).rest, TRUE).out
         /\ Decode(x, TRUE).changed <=>
              Decode(x, FALSE).changed \/ Decode(Decode(x, FALSE).rest, TRUE).changed
<1> DEFINE here == Decode(x, FALSE)
           more == Decode(here.rest, TRUE)
           all  == Decode(x, TRUE)
<1>1. all = Followed(here, more)
  BY DecodeAtEnd
<1> HIDE DEF here, more, all
<1>2. all = [out |-> here.out \o more.out, rest |-> more.rest,
             changed |-> here.changed \/ more.changed]
  BY <1>1 DEF Followed
<1>3. all.out = here.out \o more.out /\ (all.changed <=> here.changed \/ more.changed)
  BY <1>2
<1> QED BY <1>3 DEF all, more, here

\* The layers k and below have what a stream gives, those above what a whole gives.
Flushed(x, m, k, y) ==
  /\ Represents(m, y, k)
  /\ y[0] = x[0]
  /\ \A i \in 0 .. k - 1 : y[i + 1] = Decode(y[i], TRUE).out
  /\ \A i \in k .. Rounds - 1 : y[i + 1] = Decode(y[i], FALSE).out

LEMMA FlushDef ==
  ASSUME NEW m, NEW x, Represents(m, x, 0),
         \A i \in 0 .. Rounds - 1 : x[i + 1] = Decode(x[i], FALSE).out
  PROVE  \E y \in Contents : Flushed(x, Flushing(m)[Rounds], Rounds, y)
<1> DEFINE f == Flushing(m)
           S == {n \in Nat : n <= Rounds => \E y \in Contents : Flushed(x, f[n], n, y)}
<1>0. Rounds \in Nat
  BY BoundsAssumption
<1>1. m \in Layers /\ x \in Contents
  BY DEF Represents
<1>2. Flushes(f, m)
  BY <1>1, FlushingDef
<1> HIDE DEF f
<1>3. 0 \in S
  <2>1. f[0] = m
    BY <1>2 DEF Flushes
  <2>2. \A i \in 0 .. 0 - 1 : FALSE
    OBVIOUS
  <2>3. Flushed(x, f[0], 0, x)
    BY <2>1, <2>2 DEF Flushed
  <2> QED BY <1>1, <2>3
<1>4. ASSUME NEW k \in Nat, k \in S PROVE k + 1 \in S
  <2> SUFFICES ASSUME k + 1 <= Rounds
               PROVE  \E y \in Contents : Flushed(x, f[k + 1], k + 1, y)
    OBVIOUS
  <2>1. k \in 0 .. Rounds - 1 /\ k \in 0 .. Rounds /\ k + 1 \in 0 .. Rounds
    BY <1>0
  <2>2. PICK y \in Contents : Flushed(x, f[k], k, y)
    BY <1>0, <1>4, <2>1
  <2> DEFINE before == f[k]
             m0     == [before EXCEPT !.pending[k] = <<>>]
             bytes  == Decode(before.pending[k], TRUE).out
  <2>3. before \in Layers /\ f[k + 1] = Feed(m0, k + 1, bytes)
    BY <1>2, <2>1 DEF Flushes
  <2>4. Represents(before, y, k)
    BY <2>2 DEF Flushed
  <2>5. before.pending[k] = Decode(y[k], FALSE).rest /\ y[k] \in Bytes
    <3>1. k \in k .. Rounds
      BY <1>0, <2>1
    <3> QED BY <2>1, <2>4, <3>1 DEF Represents, Contents
  <2> HIDE DEF before
  <2>6. m0 \in Layers /\ bytes \in Bytes
    BY <2>1, <2>3, EmptiedType
  <2>7. Represents(m0, y, k + 1)
    <3>1. m0.tail = before.tail /\ m0.hit = before.hit /\ m0.deep = before.deep
      BY <2>3 DEF Layers
    <3>2. \A j \in k + 1 .. Rounds : m0.pending[j] = before.pending[j]
      <4>1. before.pending \in [0 .. Rounds -> Bytes]
        BY <2>3 DEF Layers
      <4>2. m0.pending = [before.pending EXCEPT ![k] = <<>>]
        BY <2>3 DEF Layers
      <4>3. \A j \in k + 1 .. Rounds : j \in 0 .. Rounds /\ j # k
        BY <1>0, <2>1
      <4> QED BY <4>1, <4>2, <4>3
    <3>3. \A j \in k + 1 .. Rounds : j \in k .. Rounds
      BY <1>0, <2>1
    <3> HIDE DEF m0
    <3> QED BY <2>4, <2>6, <3>1, <3>2, <3>3 DEF Represents
  <2>8. \A i \in k + 1 .. Rounds - 1 : y[i + 1] = Decode(y[i], FALSE).out
    <3>1. \A i \in k + 1 .. Rounds - 1 : i \in k .. Rounds - 1
      BY <1>0, <2>1
    <3> QED BY <2>2, <3>1 DEF Flushed
  <2> HIDE DEF m0
  <2>9. PICK z \in Contents : Represents(Feed(m0, k + 1, bytes), z, k + 1)
                              /\ Below(y, k + 1, bytes, z)
    <3> HIDE DEF bytes
    <3> QED BY <2>1, <2>6, <2>7, <2>8, FeedDef
  <2>10. z[k + 1] = Decode(z[k], TRUE).out
    <3>1. y[k + 1] = Decode(y[k], FALSE).out
      <4>1. k \in k .. Rounds - 1
        BY <1>0, <2>1
      <4> QED BY <2>2, <4>1 DEF Flushed
    <3>2. z[k + 1] = y[k + 1] \o bytes
      BY <2>9 DEF Below
    <3>3. z[k] = y[k]
      <4>1. k \in 0 .. (k + 1) - 1
        BY <2>1
      <4> QED BY <2>9, <4>1 DEF Below
    <3>4. Decode(y[k], TRUE).out = Decode(y[k], FALSE).out \o bytes
      BY <2>5, DecodeAtEndParts
    <3> QED BY <3>1, <3>2, <3>3, <3>4
  <2>11. Flushed(x, f[k + 1], k + 1, z)
    <3>1. \A i \in 0 .. k : z[i] = y[i]
      <4>1. \A i \in 0 .. k : i \in 0 .. (k + 1) - 1
        OBVIOUS
      <4> QED BY <2>9, <4>1 DEF Below
    <3>2. z[0] = x[0]
      BY <2>2, <3>1 DEF Flushed
    <3>3. ASSUME NEW i \in 0 .. (k + 1) - 1 PROVE z[i + 1] = Decode(z[i], TRUE).out
      <4>1. CASE i = k
        BY <2>10, <4>1
      <4>2. CASE i # k
        <5>1. i \in 0 .. k - 1 /\ i \in 0 .. k /\ i + 1 \in 0 .. k
          BY <4>2
        <5>2. y[i + 1] = Decode(y[i], TRUE).out
          BY <2>2, <5>1 DEF Flushed
        <5> QED BY <3>1, <5>1, <5>2
      <4> QED BY <4>1, <4>2
    <3>4. \A i \in k + 1 .. Rounds - 1 : z[i + 1] = Decode(z[i], FALSE).out
      BY <2>9 DEF Below
    <3>5. Represents(f[k + 1], z, k + 1)
      BY <2>3, <2>9
    <3> QED BY <3>2, <3>3, <3>4, <3>5 DEF Flushed
  <2> QED BY <2>11
<1>5. Rounds \in S
  <2> HIDE DEF S
  <2> QED BY <1>0, <1>3, <1>4, StepByStep
<1>6. \E y \in Contents : Flushed(x, f[Rounds], Rounds, y)
  BY <1>0, <1>5
<1> QED BY <1>6 DEF f
-----------------------------------------------------------------------------
(* The verdict *)

\* A stream's bytes, and what its decoders have made of them.
Chain(x, s) ==
  /\ x \in Contents
  /\ x[0] = s
  /\ \A i \in 0 .. Rounds - 1 : x[i + 1] = Decode(x[i], FALSE).out

\* What is found in a layer of the first bytes is found in the whole.
LEMMA FoundEarly ==
  ASSUME NEW a \in Bytes, NEW b \in Bytes, NEW x, Chain(x, a),
         \E k \in 0 .. Rounds : Occurs(x[k])
  PROVE  ContainsBytes(a \o b) = "hit"
<1> DEFINE s == a \o b
           d == Decodings(s)
           S == {n \in Nat : n <= Rounds => \E c \in Bytes : d[n] = x[n] \o c}
<1>0. Rounds \in Nat /\ s \in Bytes
  BY BoundsAssumption, Joined
<1>1. /\ d \in [0 .. Rounds -> Bytes] /\ d[0] = s
      /\ \A k \in 0 .. Rounds - 1 : d[k + 1] = Decode(d[k], TRUE).out
  BY <1>0, DecodingsDef
<1> HIDE DEF d
<1>2. 0 \in S
  BY <1>1 DEF Chain
<1>3. ASSUME NEW n \in Nat, n \in S PROVE n + 1 \in S
  <2> SUFFICES ASSUME n + 1 <= Rounds
               PROVE  \E c \in Bytes : d[n + 1] = x[n + 1] \o c
    OBVIOUS
  <2>1. n \in 0 .. Rounds - 1 /\ n \in 0 .. Rounds
    BY <1>0
  <2>2. PICK c \in Bytes : d[n] = x[n] \o c
    BY <1>0, <1>3, <2>1
  <2>3. x[n] \in Bytes
    BY <2>1 DEF Chain, Contents
  <2> DEFINE here == Decode(x[n], FALSE)
             rest == here.rest
             more == Decode(rest \o c, TRUE)
  <2>4. rest \in Bytes
    BY <2>3, DecodeType
  <2>5. more.out \in Bytes
    <3> HIDE DEF rest
    <3>1. rest \o c \in Bytes
      BY <2>4, Joined
    <3> QED BY <3>1, DecodeType
  <2>6. Decode(d[n], TRUE) = Followed(here, more)
    BY <2>2, <2>3, DecodeIsStreaming
  <2> HIDE DEF here, more
  <2>7. Decode(d[n], TRUE).out = here.out \o more.out
    BY <2>6, FollowedOut
  <2>8. d[n + 1] = x[n + 1] \o more.out
    BY <1>1, <2>1, <2>7 DEF Chain, here
  <2> QED BY <2>5, <2>8
<1>4. Nat \subseteq S
  <2> HIDE DEF S
  <2> QED BY <1>2, <1>3, StepByStep
<1>5. PICK k \in 0 .. Rounds : Occurs(x[k])
  OBVIOUS
<1>6. PICK c \in Bytes : d[k] = x[k] \o c
  <2>1. k \in Nat /\ k <= Rounds
    BY <1>0
  <2>2. k \in S
    <3> HIDE DEF S
    <3> QED BY <1>4, <2>1
  <2> QED BY <2>1, <2>2
<1>7. x[k] \in Bytes
  BY DEF Chain, Contents
<1>8. Occurs(d[k])
  BY <1>5, <1>6, <1>7, OccursGrows
<1> QED BY <1>8 DEF ContainsBytes, d

\* At the end of the stream the layers know what the whole has.
LEMMA FinishedIsExact ==
  ASSUME NEW s \in Bytes, NEW x, Chain(x, s), NEW m, Represents(m, x, 0)
  PROVE  ContainsBytes(s) = IF Finished(m).hit THEN "hit"
                            ELSE IF Finished(m).deep THEN "error" ELSE "clean"
<1> DEFINE all == Flushing(m)[Rounds]
           d   == Decodings(s)
<1>0. Rounds \in Nat /\ Rounds \in Rounds .. Rounds /\ Rounds \in 0 .. Rounds
  BY BoundsAssumption
<1>1. PICK y \in Contents : Flushed(x, all, Rounds, y)
  BY FlushDef DEF Chain
<1>2. /\ d \in [0 .. Rounds -> Bytes] /\ d[0] = s
      /\ \A k \in 0 .. Rounds - 1 : d[k + 1] = Decode(d[k], TRUE).out
  BY DecodingsDef
<1> HIDE DEF all, d
<1>3. \A k \in 0 .. Rounds : y[k] = d[k]
  <2> DEFINE S == {n \in Nat : n <= Rounds => y[n] = d[n]}
  <2>1. 0 \in S
    BY <1>1, <1>2 DEF Flushed, Chain
  <2>2. ASSUME NEW n \in Nat, n \in S PROVE n + 1 \in S
    <3> SUFFICES ASSUME n + 1 <= Rounds PROVE y[n + 1] = d[n + 1]
      OBVIOUS
    <3>1. n \in 0 .. Rounds - 1
      BY <1>0
    <3>2. y[n] = d[n]
      BY <1>0, <2>2, <3>1
    <3>3. y[n + 1] = Decode(y[n], TRUE).out
      BY <1>1, <3>1 DEF Flushed
    <3> QED BY <1>2, <3>1, <3>2, <3>3
  <2>3. Nat \subseteq S
    <3> HIDE DEF S
    <3> QED BY <2>1, <2>2, StepByStep
  <2> QED BY <1>0, <2>3
<1>4. Represents(all, y, Rounds)
  BY <1>1 DEF Flushed
<1>5. Finished(m).hit <=> \E k \in 0 .. Rounds : Occurs(d[k])
  <2>1. all.hit <=> \E k \in 0 .. Rounds : Occurs(y[k])
    BY <1>4 DEF Represents
  <2>2. all \in Layers
    BY <1>4 DEF Represents
  <2>3. Finished(m).hit = all.hit
    BY <2>2 DEF Finished, all, Layers
  <2> QED BY <1>3, <2>1, <2>3
<1>6. Finished(m).deep <=> Decode(d[Rounds], TRUE).changed
  <2>1. all.deep <=> Decode(d[Rounds], FALSE).changed
    BY <1>0, <1>3, <1>4 DEF Represents
  <2>2. all.pending[Rounds] = Decode(d[Rounds], FALSE).rest
    BY <1>0, <1>3, <1>4 DEF Represents
  <2>3. all \in Layers
    BY <1>4 DEF Represents
  <2>4. Finished(m).deep = (all.deep \/ Decode(all.pending[Rounds], TRUE).changed)
    BY <2>3 DEF Finished, all, Layers
  <2>5. d[Rounds] \in Bytes
    BY <1>0, <1>2
  <2>6. Decode(d[Rounds], TRUE).changed <=>
          Decode(d[Rounds], FALSE).changed \/ Decode(Decode(d[Rounds], FALSE).rest, TRUE).changed
    BY <2>5, DecodeAtEndParts
  <2> QED BY <2>1, <2>2, <2>4, <2>6
<1> QED BY <1>5, <1>6 DEF ContainsBytes, d

\* Fresh layers have seen nothing.
LEMMA FreshIsEmpty ==
  LET x == [k \in 0 .. Rounds |-> <<>>]
  IN Chain(x, <<>>) /\ Represents(FreshLayers, x, 0) /\ FreshLayers.hit = FALSE
<1> DEFINE x == [k \in 0 .. Rounds |-> <<>>]
<1>0. Rounds \in Nat /\ <<>> \in Bytes /\ Len(<<>>) = 0
  BY BoundsAssumption DEF Bytes
<1>1. Decode(<<>>, FALSE) = Waiting(<<>>, 1)
  <2>1. Waits(<<>>, FALSE, 1) /\ 1 \in 1 .. Len(<<>>) + 1
    BY <1>0 DEF Waits
  <2> QED BY <1>0, <2>1, DecodingDef DEF Decode
<1>2. SubSeq(<<>>, 1, Len(<<>>)) = <<>>
  BY <1>0
<1>3. /\ Decode(<<>>, FALSE).out = <<>>
      /\ Decode(<<>>, FALSE).rest = <<>>
      /\ Decode(<<>>, FALSE).changed = FALSE
  <2> DEFINE w == Waiting(<<>>, 1)
  <2>1. w.out = <<>> /\ w.rest = SubSeq(<<>>, 1, Len(<<>>)) /\ w.changed = FALSE
    BY WaitingParts, Zenon
  <2> HIDE DEF w
  <2>2. Decode(<<>>, FALSE) = w
    BY <1>1 DEF w
  <2> QED BY <1>2, <2>1, <2>2
<1>4. Retained(<<>>) = <<>>
  <2>1. Overlap \in Nat
    BY PatternsType
  <2> QED BY <1>0, <1>2, <2>1 DEF Retained
<1>5. ~Occurs(<<>>)
  BY <1>0 DEF Occurs
<1>6. Chain(x, <<>>)
  <2>1. x \in Contents /\ x[0] = <<>>
    BY <1>0 DEF Contents
  <2>2. \A i \in 0 .. Rounds - 1 : x[i] = <<>> /\ x[i + 1] = <<>>
    BY <1>0
  <2> HIDE DEF x
  <2> QED BY <1>3, <2>1, <2>2 DEF Chain
<1>7. FreshLayers \in Layers /\ x \in Contents
  BY <1>0 DEF FreshLayers, Layers, Contents
<1>8. Represents(FreshLayers, x, 0)
  <2>1. /\ FreshLayers.hit = FALSE /\ FreshLayers.deep = FALSE
        /\ \A k \in 0 .. Rounds : FreshLayers.tail[k] = <<>> /\ FreshLayers.pending[k] = <<>>
    BY DEF FreshLayers
  <2>2. \A k \in 0 .. Rounds : x[k] = <<>>
    OBVIOUS
  <2>3. x[Rounds] = <<>>
    BY <1>0, <2>2
  <2> HIDE DEF x
  <2> QED BY <1>3, <1>4, <1>5, <1>7, <2>1, <2>2, <2>3 DEF Represents
<1>9. FreshLayers.hit = FALSE
  BY DEF FreshLayers
<1> QED BY <1>6, <1>8, <1>9

\* A chunk through the layers.
LEMMA FeedIsExact ==
  ASSUME NEW s \in Bytes, NEW bytes \in Bytes, NEW x, Chain(x, s),
         NEW m, Represents(m, x, 0)
  PROVE  \E y : Chain(y, s \o bytes) /\ Represents(Feed(m, 0, bytes), y, 0)
<1>0. Rounds \in Nat /\ 0 \in 0 .. Rounds
  BY BoundsAssumption
<1>1. PICK y \in Contents : Represents(Feed(m, 0, bytes), y, 0) /\ Below(x, 0, bytes, y)
  BY <1>0, FeedDef DEF Chain
<1>2. Chain(y, s \o bytes)
  BY <1>1 DEF Chain, Below
<1> QED BY <1>1, <1>2
-----------------------------------------------------------------------------
(* The invariant *)

StreamTypeOK ==
  /\ text \in Bytes /\ limit \in Nat /\ taken \in 0 .. Len(text)
  /\ layers \in Layers
  /\ verdict \in {"none", "hit", "clean", "error"}

\* As long as there is no verdict, the layers know what the bytes read so far are
\* decoded to, and nothing has been found in it.
Reading ==
  verdict = "none" =>
    /\ taken <= limit
    /\ layers.hit = FALSE
    /\ \E x : Chain(x, SubSeq(text, 1, taken)) /\ Represents(layers, x, 0)

StreamInv == StreamTypeOK /\ Reading /\ StreamIsExact

\* The bytes read, and then some more.
LEMMA ReadMore ==
  ASSUME NEW s \in Bytes, NEW i \in Nat, NEW j \in Nat, i <= j, j <= Len(s)
  PROVE  /\ SubSeq(s, 1, i) \in Bytes /\ SubSeq(s, i + 1, j) \in Bytes
         /\ SubSeq(s, 1, j) = SubSeq(s, 1, i) \o SubSeq(s, i + 1, j)
<1> DEFINE a == SubSeq(s, 1, i)
           b == SubSeq(s, i + 1, j)
           c == SubSeq(s, 1, j)
           d == a \o b
<1>0. Len(s) \in Nat
  BY DEF Bytes
<1>1. a \in Bytes /\ Len(a) = i /\ \A k \in 1 .. i : a[k] = s[k]
  <2>1. /\ a \in Bytes /\ Len(a) = IF 1 <= i THEN i - 1 + 1 ELSE 0
        /\ \A k \in 1 .. i - 1 + 1 : a[k] = s[1 + k - 1]
    BY <1>0, PartOf
  <2> HIDE DEF a
  <2> QED BY <2>1
<1>2. c \in Bytes /\ Len(c) = j /\ \A k \in 1 .. j : c[k] = s[k]
  <2>1. /\ c \in Bytes /\ Len(c) = IF 1 <= j THEN j - 1 + 1 ELSE 0
        /\ \A k \in 1 .. j - 1 + 1 : c[k] = s[1 + k - 1]
    BY <1>0, PartOf
  <2> HIDE DEF c
  <2> QED BY <2>1
<1>3. b \in Bytes /\ Len(b) = j - i /\ \A k \in 1 .. j - i : b[k] = s[i + k]
  <2>1. i + 1 \in Nat \ {0}
    OBVIOUS
  <2>2. /\ b \in Bytes /\ Len(b) = IF i + 1 <= j THEN j - (i + 1) + 1 ELSE 0
        /\ \A k \in 1 .. j - (i + 1) + 1 : b[k] = s[(i + 1) + k - 1]
    BY <1>0, <2>1, PartOf
  <2> HIDE DEF b
  <2>3. ASSUME NEW k \in 1 .. j - i PROVE b[k] = s[i + k]
    <3>1. k \in 1 .. j - (i + 1) + 1 /\ (i + 1) + k - 1 = i + k
      OBVIOUS
    <3> QED BY <2>2, <3>1
  <2> QED BY <2>2, <2>3
<1> HIDE DEF a, b, c
<1>4. /\ d \in Bytes /\ Len(d) = Len(a) + Len(b)
      /\ \A k \in 1 .. Len(a) : d[k] = a[k]
      /\ \A k \in 1 .. Len(b) : d[Len(a) + k] = b[k]
  BY <1>1, <1>3, Joined
<1> HIDE DEF d
<1>5. Len(c) = Len(d)
  BY <1>1, <1>2, <1>3, <1>4
<1>6. ASSUME NEW k \in 1 .. Len(c) PROVE c[k] = d[k]
  <2>1. CASE k <= i
    BY <1>1, <1>2, <1>4, <2>1
  <2>2. CASE k > i
    <3> DEFINE n == k - i
    <3>1. n \in 1 .. j - i /\ k = i + n
      BY <1>2, <2>2
    <3> HIDE DEF n
    <3>2. c[k] = s[i + n] /\ d[k] = s[i + n]
      BY <1>1, <1>2, <1>3, <1>4, <3>1
    <3> QED BY <3>2
  <2> QED BY <1>2, <2>1, <2>2
<1>7. c = d
  BY ONLY <1>2, <1>4, <1>5, <1>6, SameBytes
<1> QED BY <1>1, <1>3, <1>7 DEF a, b, c, d

LEMMA ReadAll ==
  ASSUME NEW s \in Bytes
  PROVE  SubSeq(s, 1, Len(s)) = s /\ SubSeq(s, 1, 0) = <<>>
BY SubSeqFull, SubSeqEmpty DEF Bytes

\* The artifact is a text, or one redacted, and nothing of it has been read.
LEMMA StreamInitially ==
  ASSUME StreamInit
  PROVE  StreamInv
<1>1. text \in Bytes
  <2>1. PICK raw \in Texts : text = raw \/ text = Redacted(raw)
    BY DEF StreamInit
  <2>2. raw \in Bytes
    BY TextsAssumption DEF Bytes
  <2> QED BY <2>1, <2>2, RedactedType
<1>2. Len(text) \in Nat
  BY <1>1 DEF Bytes
<1>3. limit \in Nat /\ taken = 0 /\ layers = FreshLayers /\ verdict = "none"
  BY <1>2, BoundsAssumption DEF StreamInit, Limits
<1> DEFINE x == [k \in 0 .. Rounds |-> <<>>]
<1>4. Chain(x, <<>>) /\ Represents(FreshLayers, x, 0) /\ FreshLayers.hit = FALSE
  BY FreshIsEmpty
<1> HIDE DEF x
<1>5. SubSeq(text, 1, taken) = <<>>
  BY <1>1, <1>3, ReadAll
<1>6. Reading
  <2>1. Chain(x, SubSeq(text, 1, taken)) /\ Represents(layers, x, 0)
    BY <1>3, <1>4, <1>5
  <2>2. taken <= limit /\ layers.hit = FALSE
    BY <1>3, <1>4
  <2> QED BY <2>1, <2>2 DEF Reading
<1>7. layers \in Layers
  BY <1>3, <1>4 DEF Represents
<1>8. StreamTypeOK
  BY <1>1, <1>2, <1>3, <1>7 DEF StreamTypeOK
<1>9. StreamIsExact
  BY <1>3 DEF StreamIsExact
<1> QED BY <1>6, <1>8, <1>9 DEF StreamInv

\* A chunk keeps the invariant.
LEMMA ReadChunkKeeps ==
  ASSUME StreamInv, ReadChunk
  PROVE  StreamInv'
<1> USE DEF StreamInv
<1>1. /\ text \in Bytes /\ limit \in Nat /\ taken \in Nat /\ taken <= Len(text)
      /\ Len(text) \in Nat /\ verdict = "none"
  BY DEF StreamTypeOK, Bytes, ReadChunk
<1>2. text' = text /\ limit' = limit
  BY DEF ReadChunk
<1>3. PICK n \in taken + 1 .. Len(text) :
        /\ taken' = n
        /\ IF n > limit THEN verdict' = "error" /\ UNCHANGED layers
           ELSE /\ layers' = Feed(layers, 0, SubSeq(text, taken + 1, n))
                /\ verdict' = IF layers'.hit THEN "hit" ELSE "none"
  BY DEF ReadChunk
<1>4. n \in Nat /\ taken <= n /\ n <= Len(text) /\ n \in 0 .. Len(text)
  BY <1>1
<1>5. CASE n > limit
  <2>1. verdict' = "error" /\ layers' = layers
    BY <1>3, <1>5
  <2>2. StreamTypeOK'
    BY <1>1, <1>2, <1>3, <1>4, <2>1 DEF StreamTypeOK
  <2>3. Reading'
    BY <2>1 DEF Reading
  <2>4. StreamIsExact'
    BY <1>1, <1>2, <1>4, <1>5, <2>1 DEF StreamIsExact
  <2> QED BY <2>2, <2>3, <2>4
<1>6. CASE ~(n > limit)
  <2> DEFINE before == SubSeq(text, 1, taken)
             bytes  == SubSeq(text, taken + 1, n)
             now    == SubSeq(text, 1, n)
  <2>1. layers' = Feed(layers, 0, bytes) /\ verdict' = IF layers'.hit THEN "hit" ELSE "none"
    BY <1>3, <1>6
  <2>2. before \in Bytes /\ bytes \in Bytes /\ now = before \o bytes
    BY <1>1, <1>4, ReadMore
  <2>3. PICK x : Chain(x, before) /\ Represents(layers, x, 0)
    BY <1>1 DEF Reading
  <2> HIDE DEF before, bytes
  <2>4. PICK y : Chain(y, before \o bytes) /\ Represents(Feed(layers, 0, bytes), y, 0)
    BY <2>2, <2>3, FeedIsExact
  <2>5. Chain(y, now) /\ Represents(layers', y, 0)
    BY <2>1, <2>2, <2>4
  <2>6. layers' \in Layers /\ layers'.hit \in BOOLEAN
    BY <2>5 DEF Represents, Layers
  <2>7. now \in Bytes
    BY <2>2, Joined
  <2>8. StreamTypeOK'
    BY <1>1, <1>2, <1>3, <1>4, <2>1, <2>6 DEF StreamTypeOK
  <2>9. Reading'
    <3> SUFFICES ASSUME verdict' = "none"
                 PROVE  /\ taken' <= limit' /\ layers'.hit = FALSE
                        /\ \E z : Chain(z, SubSeq(text', 1, taken')) /\ Represents(layers', z, 0)
      BY DEF Reading
    <3>1. taken' <= limit' /\ layers'.hit = FALSE
      BY <1>1, <1>2, <1>3, <1>4, <1>6, <2>1, <2>6
    <3> QED BY <1>2, <1>3, <2>5, <3>1
  <2>10. StreamIsExact'
    <3> SUFFICES ASSUME verdict' = "hit" PROVE StreamIsExact'
      BY <2>1 DEF StreamIsExact
    <3> DEFINE whole == IF Len(text) > limit THEN SubSeq(text, 1, limit) ELSE text
    <3>1. \E k \in 0 .. Rounds : Occurs(y[k])
      BY <2>1, <2>5 DEF Represents
    <3>2. PICK c \in Bytes : whole = now \o c
      <4> HIDE DEF now
      <4>1. CASE Len(text) > limit
        <5>1. n <= limit /\ limit <= Len(text)
          BY <1>1, <1>4, <1>6, <4>1
        <5>2. /\ SubSeq(text, n + 1, limit) \in Bytes
              /\ SubSeq(text, 1, limit) = now \o SubSeq(text, n + 1, limit)
          BY <1>1, <1>4, <5>1, ReadMore DEF now
        <5> QED BY <4>1, <5>2
      <4>2. CASE ~(Len(text) > limit)
        <5>1. SubSeq(text, 1, Len(text)) = text
          BY <1>1, ReadAll
        <5>2. /\ SubSeq(text, n + 1, Len(text)) \in Bytes
              /\ SubSeq(text, 1, Len(text)) = now \o SubSeq(text, n + 1, Len(text))
          <6>1. n <= Len(text) /\ Len(text) <= Len(text)
            BY <1>1, <1>4
          <6> QED BY <1>1, <1>4, <6>1, ReadMore DEF now
        <5> QED BY <4>2, <5>1, <5>2
      <4> QED BY <4>1, <4>2
    <3> HIDE DEF now, whole
    <3>3. ContainsBytes(now \o c) = "hit"
      BY <2>5, <2>7, <3>1, FoundEarly
    <3>4. ContainsBytes(whole) = "hit"
      BY <3>2, <3>3
    <3> QED BY <1>2, <3>4 DEF StreamIsExact, whole
  <2> QED BY <2>8, <2>9, <2>10
<1> QED BY <1>5, <1>6

\* The end of the stream keeps the invariant.
LEMMA EndStreamKeeps ==
  ASSUME StreamInv, EndStream
  PROVE  StreamInv'
<1> USE DEF StreamInv
<1>1. /\ text \in Bytes /\ limit \in Nat /\ taken = Len(text)
      /\ Len(text) \in Nat /\ verdict = "none"
  BY DEF StreamTypeOK, Bytes, EndStream
<1>2. text' = text /\ limit' = limit /\ taken' = taken
  BY DEF EndStream
<1>3. /\ layers' = Finished(layers)
      /\ verdict' = IF layers'.hit THEN "hit" ELSE IF layers'.deep THEN "error" ELSE "clean"
  BY DEF EndStream
<1>4. PICK x : Chain(x, SubSeq(text, 1, taken)) /\ Represents(layers, x, 0)
  BY <1>1 DEF Reading
<1>5. Chain(x, text)
  BY <1>1, <1>4, ReadAll
<1>6. verdict' = ContainsBytes(text)
  BY <1>1, <1>3, <1>4, <1>5, FinishedIsExact
<1>7. Len(text) <= limit
  BY <1>1 DEF Reading
<1>8. layers' \in Layers
  <2> DEFINE all == Flushing(layers)[Rounds]
  <2>1. \A i \in 0 .. Rounds - 1 : x[i + 1] = Decode(x[i], FALSE).out
    BY <1>5 DEF Chain
  <2>2. PICK y \in Contents : Flushed(x, all, Rounds, y)
    BY <1>4, <2>1, FlushDef
  <2>3. all \in Layers
    BY <2>2 DEF Flushed, Represents
  <2>4. /\ Rounds \in 0 .. Rounds
    BY BoundsAssumption
  <2> HIDE DEF all
  <2>5. all.pending[Rounds] \in Bytes
    BY <2>3, <2>4, EmptiedType
  <2>6. Decode(all.pending[Rounds], TRUE).changed \in BOOLEAN
    BY <2>5, DecodeType
  <2>7. Finished(layers) = [all EXCEPT !.deep = @ \/ Decode(all.pending[Rounds], TRUE).changed]
    BY DEF Finished, all
  <2>8. Finished(layers) \in Layers
    BY <2>3, <2>6, <2>7 DEF Layers
  <2> QED BY <1>3, <2>8
<1>9. StreamTypeOK'
  BY <1>1, <1>2, <1>3, <1>8 DEF StreamTypeOK
<1>10. Reading'
  BY <1>3 DEF Reading
<1>11. StreamIsExact'
  <2>1. ~(Len(text') > limit')
    BY <1>1, <1>2, <1>7
  <2>2. verdict' = ContainsBytes(text')
    BY <1>2, <1>6
  <2> QED BY <1>1, <1>2, <1>7, <2>1, <2>2 DEF StreamIsExact
<1> QED BY <1>9, <1>10, <1>11

\* Another byte of the file keeps the invariant.
LEMMA GrowKeeps ==
  ASSUME StreamInv, Grow
  PROVE  StreamInv'
<1> USE DEF StreamInv
<1>1. PICK b \in Added : text' = Append(text, b)
  BY DEF Grow
<1>2. limit' = limit /\ taken' = taken /\ layers' = layers /\ verdict' = verdict
      /\ verdict = "none"
  BY DEF Grow
<1>3. text \in Bytes /\ taken \in Nat /\ taken <= Len(text) /\ Len(text) \in Nat
  BY DEF StreamTypeOK, Bytes
<1>4. b \in Letters /\ <<b>> \in Bytes
  BY TextsAssumption DEF Bytes
<1>5. text' \in Bytes /\ Len(text') = Len(text) + 1
      /\ \A k \in 1 .. Len(text) : text'[k] = text[k]
  BY <1>1, <1>3, <1>4 DEF Bytes
<1>6. SubSeq(text', 1, 1 + taken - 1) = SubSeq(text, 1, 1 + taken - 1)
  <2>1. /\ 1 \in 1 .. Len(text') + 1 /\ 1 \in 1 .. Len(text) + 1
        /\ 1 + taken - 1 <= Len(text') /\ 1 + taken - 1 <= Len(text)
    BY <1>3, <1>5
  <2>2. \A k \in 0 .. taken - 1 : text'[1 + k] = text[1 + k]
    BY <1>3, <1>5
  <2> QED BY <1>3, <1>5, <2>1, <2>2, SamePart
<1>7. SubSeq(text', 1, taken) = SubSeq(text, 1, taken)
  <2>1. 1 + taken - 1 = taken
    BY <1>3
  <2> QED BY <1>6, <2>1
<1>8. StreamTypeOK'
  BY <1>2, <1>3, <1>5 DEF StreamTypeOK
<1>9. Reading'
  BY <1>2, <1>7 DEF Reading
<1>10. StreamIsExact'
  BY <1>2 DEF StreamIsExact
<1> QED BY <1>8, <1>9, <1>10

LEMMA StreamStutters ==
  ASSUME StreamInv, UNCHANGED stream
  PROVE  StreamInv'
BY DEF StreamInv, StreamTypeOK, Reading, StreamIsExact, stream

\* The inductive invariant holds in every state of an inspection.
THEOREM StreamInvariance == StreamSpec => []StreamInv
<1>1. StreamInit => StreamInv
  BY StreamInitially
<1>2. StreamInv /\ [StreamNext]_stream => StreamInv'
  BY ReadChunkKeeps, EndStreamKeeps, GrowKeeps, StreamStutters DEF StreamNext
<1> QED BY <1>1, <1>2, PTL DEF StreamSpec

\* StreamTypeOK: chunks, the end of the stream and others who append keep the types;
\* no more is read than there is.
THEOREM StreamTypesAlways == StreamSpec => []StreamTypeOK
<1>1. StreamInv => StreamTypeOK
  BY DEF StreamInv
<1> QED BY <1>1, StreamInvariance, PTL

\* StreamIsExact: however the bytes are cut into chunks, within a credential or within
\* an escape, contains_stream comes to the verdict of contains_bytes on the whole; and
\* no file that outgrows its limit is found clean.
THEOREM StreamIsExactAlways == StreamSpec => []StreamIsExact
<1>1. StreamInv => StreamIsExact
  BY DEF StreamInv
<1> QED BY <1>1, StreamInvariance, PTL

-----------------------------------------------------------------------------
(* What is kept, and where decoding ends *)

\* A decoder keeps back no more than a part of an escape, and at the end nothing.
LEMMA RestIsShort ==
  ASSUME NEW s \in Bytes, NEW final \in BOOLEAN
  PROVE  /\ Len(Decode(s, final).rest) < 6
         /\ final => Decode(s, final).rest = <<>>
<1> DEFINE D    == 1 .. Len(s) + 1
           f    == Decoding(s, final)
           stop == {i \in D : Waits(s, final, i)}
           next == [i \in D |-> IF i \in stop THEN i ELSE i + At(s, i).takes]
           rank == [i \in D |-> Len(s) + 1 - i]
           Short(r) == Len(r) < 6 /\ (final => r = <<>>)
           S    == {i \in D : Short(f[i].rest)}
<1>0. Len(s) \in Nat
  BY DEF Bytes
<1>1. \A i \in D : f[i] = IF Waits(s, final, i) THEN Waiting(s, i)
                          ELSE Followed(At(s, i), f[i + At(s, i).takes])
  BY DecodingDef
<1> HIDE DEF f
<1>2. ASSUME NEW i \in D, i \notin stop PROVE i + At(s, i).takes \in i + 1 .. Len(s) + 1
  <2>1. i \in 1 .. Len(s)
    BY <1>0, <1>2 DEF Waits
  <2> QED BY <1>0, <2>1, AtType
<1>3. Descends(D, stop, next, rank, Len(s))
  <2>1. next \in [D -> D] /\ rank \in [D -> 0 .. Len(s)]
    BY <1>0, <1>2
  <2> QED BY <1>0, <1>2, <2>1 DEF Descends
<1>4. ASSUME NEW i \in D, i \in stop \/ next[i] \in S PROVE i \in S
  <2>1. CASE i \in stop
    <3> DEFINE r == SubSeq(s, i, Len(s))
    <3>1. f[i].rest = r
      BY <1>1, <2>1, WaitingParts
    <3>2. Len(r) = IF i <= Len(s) THEN Len(s) - i + 1 ELSE 0
      BY <1>0, PartOf
    <3>3. i > Len(s) => r = <<>>
      BY <1>0, SubSeqEmpty
    <3> HIDE DEF r
    <3>4. CASE i > Len(s)
      BY <3>1, <3>3, <3>4
    <3>5. CASE ~(i > Len(s))
      <4>1. ~final /\ Incomplete(s, i)
        BY <2>1, <3>5 DEF Waits
      <4>2. Len(s) - i + 1 < 6
        BY <1>0, <4>1 DEF Incomplete
      <4>3. Len(r) < 6
        BY <1>0, <3>2, <3>5, <4>2
      <4> QED BY <3>1, <4>1, <4>3
    <3> QED BY <3>4, <3>5
  <2>2. CASE i \notin stop
    <3>1. f[i] = Followed(At(s, i), f[next[i]])
      BY <1>1, <2>2
    <3>2. f[i].rest = f[next[i]].rest
      BY <3>1 DEF Followed
    <3> QED BY <1>4, <2>2, <3>2
  <2> QED BY <2>1, <2>2
<1>5. D \subseteq S
  <2>1. Carried(D, stop, next, S)
    BY <1>4 DEF Carried
  <2> HIDE DEF D, stop, next, rank, S
  <2> QED BY <1>3, <2>1, Descent, Zenon
<1>6. Short(f[1].rest)
  BY <1>0, <1>5
<1> QED BY <1>6 DEF Decode, f

\* What is decoded to itself stands for itself.
LEMMA AtUnchanged ==
  ASSUME NEW s \in Bytes, NEW i \in 1 .. Len(s), ~At(s, i).changed
  PROVE  At(s, i).out = SubSeq(s, i, i + At(s, i).takes - 1)
<1> DEFINE Itself(n)    == [takes |-> n, out |-> SubSeq(s, i, i + n - 1), changed |-> FALSE]
           Escape(n, b) == [takes |-> n, out |-> <<b>>, changed |-> TRUE]
<1>1. (\E n \in {1, 3} : At(s, i) = Itself(n)) \/ (\E n, b : At(s, i) = Escape(n, b))
  <2> HIDE DEF Itself, Escape
  <2>1. CASE s[i] # Backslash \/ ~(i + 2 - 1 <= Len(s))
    BY <2>1 DEF At, Itself
  <2>2. CASE s[i] = Backslash /\ (i + 2 - 1 <= Len(s)) /\ s[i + 1] \in DOMAIN Simple
    BY <2>2 DEF At, Escape
  <2>3. CASE s[i] = Backslash /\ (i + 2 - 1 <= Len(s)) /\ s[i + 1] \notin DOMAIN Simple
             /\ (s[i + 1] # "u" \/ ~(i + 3 - 1 <= Len(s)))
    BY <2>3 DEF At, Itself
  <2> QED BY <2>1, <2>2, <2>3 DEF At, Itself, Escape
<1>2. \A n, b : Escape(n, b).changed
  OBVIOUS
<1>3. PICK n \in {1, 3} : At(s, i) = Itself(n)
  BY <1>1, <1>2
<1> QED BY <1>3

\* Two parts of the same bytes, one behind the other, are one.
LEMMA PartsJoin ==
  ASSUME NEW s \in Bytes, NEW i \in Nat \ {0}, NEW j \in Nat, NEW n \in Nat,
         i <= j + 1, j <= n, n <= Len(s)
  PROVE  SubSeq(s, i, j) \o SubSeq(s, j + 1, n) = SubSeq(s, i, n)
<1> DEFINE a == SubSeq(s, i, j)
           b == SubSeq(s, j + 1, n)
           c == SubSeq(s, i, n)
           d == a \o b
<1>0. Len(s) \in Nat
  BY DEF Bytes
<1>1. a \in Bytes /\ Len(a) = j - i + 1 /\ \A k \in 1 .. j - i + 1 : a[k] = s[i + k - 1]
  <2>1. /\ a \in Bytes /\ Len(a) = IF i <= j THEN j - i + 1 ELSE 0
        /\ \A k \in 1 .. j - i + 1 : a[k] = s[i + k - 1]
    BY <1>0, PartOf
  <2> HIDE DEF a
  <2> QED BY <2>1
<1>2. c \in Bytes /\ Len(c) = n - i + 1 /\ \A k \in 1 .. n - i + 1 : c[k] = s[i + k - 1]
  <2>1. /\ c \in Bytes /\ Len(c) = IF i <= n THEN n - i + 1 ELSE 0
        /\ \A k \in 1 .. n - i + 1 : c[k] = s[i + k - 1]
    BY <1>0, PartOf
  <2> HIDE DEF c
  <2> QED BY <2>1
<1>3. b \in Bytes /\ Len(b) = n - j /\ \A k \in 1 .. n - j : b[k] = s[j + k]
  <2>1. j + 1 \in Nat \ {0}
    OBVIOUS
  <2>2. /\ b \in Bytes /\ Len(b) = IF j + 1 <= n THEN n - (j + 1) + 1 ELSE 0
        /\ \A k \in 1 .. n - (j + 1) + 1 : b[k] = s[(j + 1) + k - 1]
    BY <1>0, <2>1, PartOf
  <2> HIDE DEF b
  <2>3. ASSUME NEW k \in 1 .. n - j PROVE b[k] = s[j + k]
    <3>1. k \in 1 .. n - (j + 1) + 1 /\ (j + 1) + k - 1 = j + k
      OBVIOUS
    <3> QED BY <2>2, <3>1
  <2> QED BY <2>2, <2>3
<1> HIDE DEF a, b, c
<1>4. /\ d \in Bytes /\ Len(d) = Len(a) + Len(b)
      /\ \A k \in 1 .. Len(a) : d[k] = a[k]
      /\ \A k \in 1 .. Len(b) : d[Len(a) + k] = b[k]
  BY <1>1, <1>3, Joined
<1> HIDE DEF d
<1>5. Len(c) = Len(d)
  BY <1>1, <1>2, <1>3, <1>4
<1>6. ASSUME NEW k \in 1 .. Len(d) PROVE d[k] = c[k]
  <2>0. k \in 1 .. n - i + 1
    BY <1>2, <1>5
  <2>1. CASE k <= j - i + 1
    BY <1>1, <1>2, <1>4, <2>0, <2>1
  <2>2. CASE k > j - i + 1
    <3> DEFINE m == k - (j - i + 1)
    <3>1. m \in 1 .. n - j /\ k = Len(a) + m /\ i + k - 1 = j + m
      BY <1>1, <2>0, <2>2
    <3> HIDE DEF m
    <3>2. d[k] = s[j + m] /\ c[k] = s[j + m]
      BY <1>2, <1>3, <1>4, <2>0, <3>1
    <3> QED BY <3>2
  <2> QED BY <2>0, <2>1, <2>2
<1>7. d = c
  BY ONLY <1>2, <1>4, <1>5, <1>6, SameBytes
<1> QED BY <1>7 DEF a, b, c, d

\* A decoding that changes nothing gives back what it was given.
LEMMA UnchangedIsSame ==
  ASSUME NEW s \in Bytes, NEW final \in BOOLEAN, final, ~Decode(s, final).changed
  PROVE  Decode(s, final).out = s
<1> DEFINE D    == 1 .. Len(s) + 1
           f    == Decoding(s, final)
           stop == {i \in D : Waits(s, final, i)}
           next == [i \in D |-> IF i \in stop THEN i ELSE i + At(s, i).takes]
           rank == [i \in D |-> Len(s) + 1 - i]
           S    == {i \in D : f[i].changed \/ f[i].out = SubSeq(s, i, Len(s))}
<1>0. Len(s) \in Nat
  BY DEF Bytes
<1>1. \A i \in D : f[i] = IF Waits(s, final, i) THEN Waiting(s, i)
                          ELSE Followed(At(s, i), f[i + At(s, i).takes])
  BY DecodingDef
<1> HIDE DEF f
<1>2. ASSUME NEW i \in D, i \notin stop PROVE i + At(s, i).takes \in i + 1 .. Len(s) + 1
  <2>1. i \in 1 .. Len(s)
    BY <1>0, <1>2 DEF Waits
  <2> QED BY <1>0, <2>1, AtType
<1>3. Descends(D, stop, next, rank, Len(s))
  <2>1. next \in [D -> D] /\ rank \in [D -> 0 .. Len(s)]
    BY ONLY <1>0, <1>2
  <2> QED BY ONLY <1>0, <1>2, <2>1 DEF Descends
<1>4. ASSUME NEW i \in D, i \in stop \/ next[i] \in S PROVE i \in S
  <2>1. CASE i \in stop
    <3>1. i > Len(s)
      BY <2>1, final DEF Waits
    <3>2. f[i].out = <<>>
      BY <1>1, <2>1, WaitingParts
    <3>3. SubSeq(s, i, Len(s)) = <<>>
      BY <1>0, <3>1, SubSeqEmpty
    <3> QED BY <3>2, <3>3
  <2>2. CASE i \notin stop
    <3> DEFINE here == At(s, i)
               j    == i + here.takes
    <3>0. i \in 1 .. Len(s) /\ j \in i + 1 .. Len(s) + 1 /\ here.takes \in Nat
      <4>1. i \in 1 .. Len(s)
        BY <1>0, <2>2 DEF Waits
      <4> QED BY <1>0, <4>1, AtType
    <3>1. f[i] = Followed(here, f[j])
      BY <1>1, <2>2
    <3>2. f[j].changed \/ f[j].out = SubSeq(s, j, Len(s))
      BY <1>4, <2>2
    <3>3. CASE here.changed \/ f[j].changed
      <4> HIDE DEF here, j
      <4>1. f[i].changed = (here.changed \/ f[j].changed)
        BY <3>1 DEF Followed
      <4> QED BY <3>3, <4>1
    <3>4. CASE ~(here.changed \/ f[j].changed)
      <4>1. here.out = SubSeq(s, i, j - 1)
        BY <3>0, <3>4, AtUnchanged
      <4> HIDE DEF here, j
      <4>2. f[i].out = SubSeq(s, i, j - 1) \o SubSeq(s, j, Len(s))
        <5>1. f[i].out = here.out \o f[j].out
          BY <3>1, FollowedOut
        <5> QED BY <3>2, <3>4, <4>1, <5>1
      <4>3. SubSeq(s, i, j - 1) \o SubSeq(s, (j - 1) + 1, Len(s)) = SubSeq(s, i, Len(s))
        <5>1. i \in Nat \ {0} /\ j - 1 \in Nat /\ i <= (j - 1) + 1 /\ j - 1 <= Len(s)
              /\ Len(s) <= Len(s)
          BY <1>0, <3>0
        <5> QED BY ONLY <1>0, <5>1, s \in Bytes, PartsJoin
      <4>4. (j - 1) + 1 = j
        BY <1>0, <3>0
      <4> QED BY <4>2, <4>3, <4>4
    <3> QED BY <3>3, <3>4
  <2> QED BY <2>1, <2>2
<1>5. D \subseteq S
  <2>1. Carried(D, stop, next, S)
    BY <1>4 DEF Carried
  <2> HIDE DEF D, stop, next, rank, S
  <2> QED BY <1>3, <2>1, Descent, Zenon
<1>6. f[1].changed \/ f[1].out = SubSeq(s, 1, Len(s))
  BY <1>0, <1>5
<1>7. SubSeq(s, 1, Len(s)) = s
  BY SubSeqFull DEF Bytes
<1> QED BY <1>6, <1>7 DEF Decode, f

\* contains_bytes returns where a decoding changes nothing: all further ones are the
\* same buffer, in which there is nothing more to find and nothing more to decode.
THEOREM UnchangedEndsDecoding ==
  ASSUME NEW s \in Bytes, NEW k \in 0 .. Rounds, ~Decode(Decodings(s)[k], TRUE).changed
  PROVE  \A j \in k .. Rounds : Decodings(s)[j] = Decodings(s)[k]
<1> DEFINE d == Decodings(s)
           S == {n \in Nat : k + n <= Rounds => d[k + n] = d[k]}
<1>0. Rounds \in Nat /\ k \in Nat /\ k <= Rounds
  BY BoundsAssumption
<1>1. /\ d \in [0 .. Rounds -> Bytes]
      /\ \A i \in 0 .. Rounds - 1 : d[i + 1] = Decode(d[i], TRUE).out
  BY DecodingsDef
<1> HIDE DEF d
<1>2. d[k] \in Bytes
  BY <1>1
<1>3. Decode(d[k], TRUE).out = d[k]
  BY <1>2, UnchangedIsSame DEF d
<1>4. 0 \in S
  BY <1>0
<1>5. ASSUME NEW n \in Nat, n \in S PROVE n + 1 \in S
  <2> SUFFICES ASSUME k + (n + 1) <= Rounds PROVE d[k + (n + 1)] = d[k]
    OBVIOUS
  <2>1. k + n \in 0 .. Rounds - 1 /\ k + (n + 1) = (k + n) + 1 /\ k + n <= Rounds
    BY <1>0
  <2>2. d[k + n] = d[k]
    BY <1>5, <2>1
  <2> QED BY <1>1, <1>3, <2>1, <2>2
<1>6. Nat \subseteq S
  <2> HIDE DEF S
  <2> QED BY <1>4, <1>5, StepByStep
<1>7. ASSUME NEW j \in k .. Rounds PROVE d[j] = d[k]
  <2>1. j - k \in Nat /\ k + (j - k) = j /\ j <= Rounds
    BY <1>0
  <2>2. j - k \in S
    <3> HIDE DEF S
    <3> QED BY <1>6, <2>1
  <2> QED BY <2>1, <2>2
<1> QED BY <1>7 DEF d
\* What is kept between two chunks, whatever has been read.
MemoryIsBounded ==
  verdict = "none" =>
    \A k \in 0 .. Rounds : Len(layers.tail[k]) <= Overlap /\ Len(layers.pending[k]) < 6

\* MemoryIsBounded: between two chunks a decoder keeps less than a pair of surrogates,
\* and a matcher less than the longest pattern, however long the stream is and
\* wherever it was cut (_StreamingJSONUnescaper, _StreamingPatternMatcher).
THEOREM MemoryIsBoundedAlways == StreamSpec => []MemoryIsBounded
<1>1. StreamInv => MemoryIsBounded
  <2> SUFFICES ASSUME Reading, verdict = "none", NEW k \in 0 .. Rounds
               PROVE  Len(layers.tail[k]) <= Overlap /\ Len(layers.pending[k]) < 6
    BY DEF StreamInv, MemoryIsBounded
  <2>1. PICK x : Chain(x, SubSeq(text, 1, taken)) /\ Represents(layers, x, 0)
    BY DEF Reading
  <2>2. x[k] \in Bytes
    BY <2>1 DEF Chain, Contents
  <2>3. layers.tail[k] = Retained(x[k]) /\ layers.pending[k] = Decode(x[k], FALSE).rest
    BY <2>1 DEF Represents
  <2> QED BY <2>2, <2>3, RetainedDef, RestIsShort
<1> QED BY <1>1, StreamInvariance, PTL

-----------------------------------------------------------------------------
(* Attestation *)

GitLabels == {"head", "staged", "unstaged"}

\* The process before its save, and behind it; verify-run behind the digest.
BeforeSave == GitLabels \cup {"inspect", "contain", "save"}
Attesting  == {"list", "hash", "sidecar", "correct"}
Digested   == GitLabels \cup {"subjects", "task", "tree", "results", "log", "accepted"}

-----------------------------------------------------------------------------
(* The inductive invariant *)

\* A record is completed at most twice, and corrected once.
Counted ==
  /\ pc \in BeforeSave \cup Attesting \cup {"raised", "done", "stopped"}
  /\ pc \in BeforeSave => saves < attempt
  /\ pc \in Attesting \ {"correct"} => saves # 0
  /\ pc \in Attesting => saves <= attempt
  /\ pc = "raised" => saves <= attempt
  /\ saves <= attempt + 1
  /\ row <= saves /\ vrow <= saves /\ vrow \in Nat

\* Statements are about files.
Bounded ==
  /\ DOMAIN statement.subjects \subseteq Files
  /\ DOMAIN draft.subjects \subseteq Files
  /\ DOMAIN vstatement.subjects \subseteq Files

\* What the statement in work is of.
Drafted ==
  /\ pc \in {"list", "hash", "sidecar"} => (flawed <=> saves \in errors)
  /\ pc \in {"hash", "sidecar"} =>
       draft.record = saves /\ DOMAIN draft = {"subjects", "task", "git", "record"}

\* A completed statement is of a record with an error, or the end.
Complete ==
  /\ sidecar \in completed \cup {Nothing}
  /\ \A s \in completed : s.record \in errors \/ (pc = "done" /\ ~flawed)
  /\ vpc = "sidecar" => vstatement # Nothing
  /\ vpc \in Digested => vstatement \in completed

\* What verify-run has read so far is the same in the record, in the file, and in
\* the statement.
Read ==
  /\ vpc \in {"log", "accepted"} =>
       /\ used[Results] = vstatement.subjects[Results] /\ used[Results] = vrow
       /\ vstatement.record = vrow /\ vrow \notin errors
  /\ vpc = "accepted" => used[Log] = vstatement.subjects[Log]
  /\ vpc = "tree" => vleft \subseteq DOMAIN task

\* The files that a statement covers, as they are now.
Kept == {f \in Files : dir[f] # Absent} \ Namesakes

Describes(s, missing) ==
  /\ s.subjects = [f \in Kept \ missing |-> dir[f]]
  /\ s.task = task /\ s.git = GitState /\ s.record = saves

\* As long as nothing has changed, what is attested is what there is.
Quiet ==
  quiet =>
    /\ pc \in Attesting \cup {"done", "stopped"}
    /\ captured = GitState /\ task = Snapshot /\ dir[Log] # Absent
    /\ saves # 0 /\ dir[Results] = saves /\ row = saves /\ columns = saves
    /\ pc = "hash" => left \subseteq Kept /\ Describes(draft, left)
    /\ pc = "sidecar" => statement = draft /\ Describes(draft, {})
    /\ pc = "done" => /\ statement = sidecar /\ Describes(statement, {})
                      /\ statement # Nothing /\ saves \notin errors

\* What verify-run finds in that case.
Honest ==
  honest =>
    /\ quiet /\ pc = "done" /\ Verifiable
    /\ vpc \notin {"idle", "refused"} /\ vrow = row
    /\ vpc # "statement" => vstatement = statement
    /\ vpc = "subjects" => vleft \subseteq DOMAIN vstatement.subjects

IInv == TypeOK /\ Counted /\ Bounded /\ Drafted /\ Complete /\ Read /\ Quiet /\ Honest

-----------------------------------------------------------------------------
(* Facts about the constants of the model *)

\* git is asked three times.
LEMMA GitParts == DOMAIN GitState = GitLabels
BY DEF GitState, GitLabels

\* The task has two parts.
LEMMA TaskParts == DOMAIN Snapshot = {"manifest", "rest"}
BY DEF Snapshot

\* No statement is about no files.
LEMMA NoSubjects == Nothing.subjects = <<>> /\ DOMAIN Nothing.subjects = {}
BY DEF Nothing

\* What git says depends on the harness alone.
LEMMA SameHarness == git' = git => GitState' = GitState
BY DEF GitState, WorkTree, Diff

\* The files to be attested are those there are but for the namesakes.
LEMMA AttestableFiles == Attestable = Kept
BY FilesAssumption DEF Attestable, Present, Tree, Own, Kept, Absent

\* Whether verify-run can accept a run depends on the files alone.
LEMMA SameFiles == UNCHANGED <<dir, statement, sidecar>> => Verifiable' = Verifiable
BY DEF Verifiable, Listable, Readable, Attestable, Present, Tree

USE FilesAssumption, ChangesAssumption, GitParts, NoSubjects, SameHarness
    DEF world, record, process, reader, history, Absent, MaxSaves, Foreign, Judged,
        GitLabels, BeforeSave, Attesting, Digested

\* A run that nobody has touched is as its statement says.
LEMMA HonestStatement ==
  ASSUME TypeOK, Quiet, Honest, honest
  PROVE  /\ sidecar = statement /\ statement # Nothing
         /\ vpc # "statement" => vstatement = statement
         /\ statement.subjects = [f \in Kept |-> dir[f]] /\ Judged \subseteq Kept
         /\ statement.task = task /\ statement.git = GitState /\ statement.record = saves
         /\ dir[Results] = saves /\ vrow = saves /\ saves \notin errors
         /\ Listable(DOMAIN statement.subjects) /\ Tree \notin Unscannable
         /\ (\A f \in Judged : Readable(f)) /\ Present \cap Namesakes = {}
<1>1. quiet /\ pc = "done" /\ vrow = row /\ (vpc # "statement" => vstatement = statement)
  BY DEF Honest
<1>2. Describes(statement, {})
  BY <1>1 DEF Quiet
<1>3. Judged \subseteq Kept
  BY <1>1 DEF Quiet, Kept, TypeOK
<1>4. DOMAIN statement.subjects = Attestable /\ Verifiable
  BY <1>1, <1>2, AttestableFiles DEF Honest, Describes
<1>5. /\ Listable(DOMAIN statement.subjects) /\ Tree \notin Unscannable
      /\ (\A f \in Judged : Readable(f)) /\ Present \cap Namesakes = {}
  BY <1>4 DEF Verifiable
<1> QED BY <1>1, <1>2, <1>3, <1>5 DEF Quiet, Describes

-----------------------------------------------------------------------------
(* Every step preserves the invariant *)

\* The invariant holds in the beginning.
LEMMA InitInvariant == Init => IInv
<1> SUFFICES ASSUME Init PROVE IInv
  OBVIOUS
<1> USE DEF Init
<1>1. TypeOK
  <2>1. dir \in [Files -> Absent .. Foreign] /\ used \in [Judged -> Absent .. Foreign]
    OBVIOUS
  <2>2. /\ task \in [manifest : 1 .. 2, rest : 1 .. 2]
        /\ git \in [head : 1 .. 2, index : 1 .. 2, files : 1 .. 2]
    BY DEF Snapshot
  <2>3. /\ changes \in 0 .. Changes /\ errors \subseteq 1 .. saves
        /\ left \subseteq Files /\ vleft \subseteq Files \cup DOMAIN task
    OBVIOUS
  <2>4. row \in Absent .. MaxSaves /\ columns \in Absent .. Foreign /\ saves \in 0 .. MaxSaves
    OBVIOUS
  <2> HIDE DEF Init
  <2> QED BY <2>1, <2>2, <2>3, <2>4 DEF TypeOK, Init
<1>2. Counted /\ Drafted /\ Read /\ Quiet /\ Honest
  BY DEF Counted, Drafted, Read, Quiet, Honest
<1>3. Bounded
  BY DEF Bounded, Nothing
<1>4. Complete
  BY DEF Complete
<1> QED BY <1>1, <1>2, <1>3, <1>4 DEF IInv

\* The invariant survives what git says.
LEMMA CaptureGitInvariant == IInv /\ CaptureGit => IInv'
<1> SUFFICES ASSUME IInv, CaptureGit PROVE IInv'
  OBVIOUS
<1> USE DEF IInv, CaptureGit, AfterGit, Goto
<1>1. TypeOK'
  BY DEF TypeOK, Counted, Bounded
<1>2. Counted'
  BY DEF TypeOK, Counted
<1>3. Bounded'
  BY DEF Bounded, TypeOK
<1>4. Drafted'
  BY DEF TypeOK, Counted, Drafted
<1>5. Complete'
  BY DEF TypeOK, Counted, Drafted, Complete
<1>6. Read'
  BY DEF TypeOK, Counted, Read, Complete
<1>7. Quiet'
  BY DEF TypeOK, Counted, Drafted, Quiet, Describes, Kept
<1>8. Honest'
  BY DEF TypeOK, Quiet, Honest, Complete, Counted, Describes, Kept
<1> QED BY <1>1, <1>2, <1>3, <1>4, <1>5, <1>6, <1>7, <1>8

\* The invariant survives the inspection.
LEMMA InspectInvariant == IInv /\ Inspect => IInv'
<1> SUFFICES ASSUME IInv, Inspect PROVE IInv'
  OBVIOUS
<1> USE DEF IInv, Inspect, Goto
<1>1. TypeOK'
  BY DEF TypeOK, Counted, Bounded
<1>2. Counted'
  BY DEF TypeOK, Counted
<1>3. Bounded'
  BY DEF Bounded, TypeOK
<1>4. Drafted'
  BY DEF TypeOK, Counted, Drafted
<1>5. Complete'
  BY DEF TypeOK, Counted, Drafted, Complete
<1>6. Read'
  BY DEF TypeOK, Counted, Read, Complete
<1>7. Quiet'
  BY DEF TypeOK, Counted, Drafted, Quiet, Describes, Kept
<1>8. Honest'
  BY DEF TypeOK, Quiet, Honest, Complete, Counted, Describes, Kept
<1> QED BY <1>1, <1>2, <1>3, <1>4, <1>5, <1>6, <1>7, <1>8

\* Removing what was found leaves a directory, and no other statement.
LEMMA PurgeKeeps ==
  ASSUME TypeOK, NEW found, Purge(found)
  PROVE  /\ dir' \in [Files -> Absent .. Foreign]
         /\ statement' \in {statement, Nothing} /\ sidecar' \in {sidecar, Nothing}
<1>1. \A f \in Files : dir[f] \in Absent .. Foreign /\ Absent \in Absent .. Foreign
  BY DEF TypeOK
<1>2. dir' \in [Files -> Absent .. Foreign]
  <2>1. dir' = [f \in Files |-> IF f \in Purged(found) THEN Absent ELSE dir[f]]
    BY DEF Purge
  <2>2. \A f \in Files : (IF f \in Purged(found) THEN Absent ELSE dir[f]) \in Absent .. Foreign
    BY <1>1
  <2> QED BY <2>1, <2>2
<1> QED BY <1>2 DEF Purge

\* An exception saves nothing, and removes.
LEMMA RaiseKeeps ==
  ASSUME TypeOK, Raise
  PROVE  /\ pc' = "raised" /\ draft' = Nothing /\ left' = {} /\ UNCHANGED attempt
         /\ UNCHANGED <<saves, row, columns, errors>>
         /\ dir' \in [Files -> Absent .. Foreign]
         /\ statement' \in {statement, Nothing} /\ sidecar' \in {sidecar, Nothing}
BY PurgeKeeps DEF Raise, Leave, Unsaved

\* The invariant survives the containment.
LEMMA ContainInvariant == IInv /\ Contain => IInv'
<1> SUFFICES ASSUME IInv, Contain PROVE IInv'
  OBVIOUS
<1> USE DEF IInv, Contain, Goto
<1>0. /\ dir' \in [Files -> Absent .. Foreign] /\ flawed' \in BOOLEAN /\ (flawed => flawed')
      /\ statement' \in {statement, Nothing} /\ sidecar' \in {sidecar, Nothing}
  <2>1. CASE Purge(inspection) /\ flawed' = (flawed \/ inspection # "clean")
    BY <2>1, PurgeKeeps DEF TypeOK
  <2>2. CASE UNCHANGED <<dir, statement, sidecar, flawed>>
    BY <2>2 DEF TypeOK
  <2> QED BY <2>1, <2>2
<1>1. TypeOK'
  BY <1>0 DEF TypeOK
<1>2. Counted'
  BY DEF TypeOK, Counted
<1>3. Bounded'
  BY <1>0 DEF Bounded, TypeOK
<1>4. Drafted'
  BY DEF TypeOK, Counted, Drafted
<1>5. Complete'
  BY <1>0 DEF TypeOK, Counted, Drafted, Complete
<1>6. Read'
  BY DEF TypeOK, Counted, Read, Complete
<1>7. Quiet'
  BY DEF TypeOK, Counted, Drafted, Quiet, Describes, Kept
<1>8. Honest'
  BY DEF TypeOK, Quiet, Honest, Complete, Counted, Describes, Kept
<1> QED BY <1>1, <1>2, <1>3, <1>4, <1>5, <1>6, <1>7, <1>8

\* The invariant survives a save.
LEMMA SaveInvariant == IInv /\ Save => IInv'
<1> SUFFICES ASSUME IInv, Save PROVE IInv'
  OBVIOUS
<1> USE DEF IInv, Save, SaveAs, Goto, Leave
<1>0. /\ dir' \in [Files -> Absent .. Foreign]
      /\ statement' \in {statement, Nothing} /\ sidecar' \in {sidecar, Nothing}
      /\ \/ /\ SaveAs(flawed) /\ pc' \in {"correct", "list"}
            /\ quiet' = (captured = GitState /\ task = Snapshot /\ dir[Log] # Absent)
         \/ /\ UNCHANGED <<saves, row, columns, errors, quiet>>
            /\ pc' \in {"correct", "raised"}
      /\ draft' \in {draft, Nothing} /\ left' \in {left, {}} /\ UNCHANGED attempt
  <2>1. CASE /\ SaveAs(flawed) /\ Goto(IF captured = Unknown THEN "correct" ELSE "list")
             /\ quiet' = (captured = GitState /\ task = Snapshot /\ dir[Log] # Absent)
    <3>1. dir' \in [Files -> Absent .. Foreign]
      BY <2>1 DEF TypeOK, Counted
    <3> QED BY <2>1, <3>1
  <2>2. CASE \E found \in {"clean", "hit", "error"} :
               Unsaved(found) /\ Goto("correct") /\ UNCHANGED quiet
    <3>1. PICK found \in {"clean", "hit", "error"} : Unsaved(found)
      BY <2>2
    <3>2. /\ dir' \in [Files -> Absent .. Foreign]
          /\ statement' \in {statement, Nothing} /\ sidecar' \in {sidecar, Nothing}
      BY <3>1, PurgeKeeps DEF Unsaved
    <3> QED BY <2>2, <3>1, <3>2 DEF Unsaved
  <2>3. CASE Raise /\ UNCHANGED quiet
    BY <2>3, RaiseKeeps
  <2> QED BY <2>1, <2>2, <2>3
<1>1. TypeOK'
  <2>1. dir' \in [Files -> Absent .. Foreign]
    BY <1>0
  <2>2. saves' \in 0 .. MaxSaves /\ row' \in Absent .. MaxSaves /\ columns' \in Absent .. Foreign
    BY <1>0 DEF TypeOK, Counted
  <2>3. errors' \subseteq 1 .. saves'
    <3>1. saves \in Nat /\ saves' \in {saves, saves + 1} /\ errors \subseteq 1 .. saves
      BY <1>0 DEF TypeOK
    <3>2. errors' \subseteq errors \cup {saves'} /\ (saves' = saves => errors' = errors)
      BY <1>0, <3>1
    <3> QED BY <3>1, <3>2
  <2> QED BY <1>0, <2>1, <2>2, <2>3 DEF TypeOK
<1>2. Counted'
  <2>1. CASE saves' = saves + 1 /\ pc' \in {"correct", "list"} /\ row' = saves'
    <3>1. saves \in Nat /\ attempt \in 1 .. 2 /\ attempt' = attempt /\ vrow' = vrow
      BY <1>0 DEF TypeOK
    <3>2. saves < attempt /\ vrow <= saves /\ vrow \in Nat
      BY DEF Counted
    <3> QED BY <2>1, <3>1, <3>2 DEF Counted
  <2>2. CASE pc' \in {"correct", "raised"} /\ UNCHANGED <<saves, row>>
    BY <1>0, <2>2 DEF TypeOK, Counted
  <2> QED BY <1>0, <2>1, <2>2
<1>3. Bounded'
  BY <1>0 DEF Bounded, TypeOK
<1>4. Drafted'
  BY <1>0 DEF TypeOK, Counted, Drafted
<1>5. Complete'
  BY <1>0 DEF TypeOK, Counted, Drafted, Complete
<1>6. Read'
  BY <1>0 DEF TypeOK, Counted, Read, Complete
<1>7. Quiet'
  <2>1. CASE saves' = saves + 1
    <3>1. saves' # 0 /\ dir'[Results] = saves' /\ dir'[Log] = dir[Log]
      BY <1>0, <2>1 DEF TypeOK
    <3> QED BY <1>0, <2>1, <3>1 DEF TypeOK, Quiet
  <2>2. CASE UNCHANGED <<saves, quiet>>
    <3>1. ~quiet
      BY DEF Quiet
    <3> QED BY <1>0, <2>2, <3>1 DEF Quiet
  <2> QED BY <1>0, <2>1, <2>2
<1>8. Honest'
  BY DEF TypeOK, Quiet, Honest, Complete, Counted, Describes, Kept
<1> QED BY <1>1, <1>2, <1>3, <1>4, <1>5, <1>6, <1>7, <1>8

\* The invariant survives the listing of the files.
LEMMA ListInvariant == IInv /\ List => IInv'
<1> SUFFICES ASSUME IInv, List PROVE IInv'
  OBVIOUS
<1> USE DEF IInv, List
<1>1. TypeOK'
  <2>1. left' \subseteq Files
    BY AttestableFiles DEF Kept
  <2> QED BY <2>1 DEF TypeOK
<1>2. Counted'
  BY DEF TypeOK, Counted
<1>3. Bounded'
  <2>1. DOMAIN draft'.subjects = {}
    BY DEF Statement
  <2> QED BY <2>1 DEF Bounded
<1>4. Drafted'
  BY DEF TypeOK, Counted, Drafted, Statement
<1>5. Complete'
  BY DEF TypeOK, Counted, Drafted, Complete
<1>6. Read'
  BY DEF TypeOK, Counted, Read, Complete
<1>7. Quiet'
  <2> SUFFICES ASSUME quiet PROVE Quiet'
    BY DEF Quiet
  <2>1. /\ draft'.subjects = <<>> /\ draft'.task = task /\ draft'.git = GitState
        /\ draft'.record = saves
    BY DEF Statement, Quiet
  <2>2. Kept' = Kept /\ left' = Kept'
    BY AttestableFiles DEF Kept
  <2>3. draft'.subjects = [f \in Kept' \ left' |-> dir[f]]
    BY <2>1, <2>2
  <2>4. Describes(draft, left)'
    BY <2>1, <2>2, <2>3 DEF Describes
  <2> QED BY <2>2, <2>4 DEF Quiet
<1>8. Honest'
  BY DEF TypeOK, Quiet, Honest, Complete, Counted, Describes, Kept
<1> QED BY <1>1, <1>2, <1>3, <1>4, <1>5, <1>6, <1>7, <1>8

\* The invariant survives the hashing of a file.
LEMMA HashInvariant == IInv /\ Hash => IInv'
<1> SUFFICES ASSUME IInv, Hash PROVE IInv'
  OBVIOUS
<1> USE DEF IInv, Hash, Leave
<1>1. TypeOK'
  BY DEF TypeOK, Counted, Bounded
<1>2. Counted'
  BY DEF TypeOK, Counted
<1>3. Bounded'
  <2>1. DOMAIN draft'.subjects \subseteq Files
    <3>1. PICK f \in left :
             \/ draft' = [draft EXCEPT !.subjects = [g \in DOMAIN @ \cup {f} |->
                                                       IF g = f THEN dir[f] ELSE @[g]]]
             \/ draft' = Nothing
      OBVIOUS
    <3>2. CASE draft' = Nothing
      BY <3>2
    <3>3. CASE draft' = [draft EXCEPT !.subjects = [g \in DOMAIN @ \cup {f} |->
                                                       IF g = f THEN dir[f] ELSE @[g]]]
      <4>1. DOMAIN draft'.subjects = DOMAIN draft.subjects \cup {f}
        BY <3>3 DEF Drafted
      <4> QED BY <4>1 DEF Bounded, TypeOK
    <3> QED BY <3>1, <3>2, <3>3
  <2> QED BY <2>1 DEF Bounded
<1>4. Drafted'
  BY DEF TypeOK, Counted, Drafted
<1>5. Complete'
  BY DEF TypeOK, Counted, Drafted, Complete
<1>6. Read'
  BY DEF TypeOK, Counted, Read, Complete
<1>7. Quiet'
  BY DEF TypeOK, Counted, Drafted, Quiet, Describes, Kept
<1>8. Honest'
  BY DEF TypeOK, Quiet, Honest, Complete, Counted, Describes, Kept
<1> QED BY <1>1, <1>2, <1>3, <1>4, <1>5, <1>6, <1>7, <1>8

\* The invariant survives writing the statement.
LEMMA WriteStatementInvariant == IInv /\ WriteStatement => IInv'
<1> SUFFICES ASSUME IInv, WriteStatement PROVE IInv'
  OBVIOUS
<1> USE DEF IInv, WriteStatement, Goto
<1>1. TypeOK'
  BY DEF TypeOK, Counted, Bounded
<1>2. Counted'
  BY DEF TypeOK, Counted
<1>3. Bounded'
  BY DEF Bounded, TypeOK
<1>4. Drafted'
  BY DEF TypeOK, Counted, Drafted
<1>5. Complete'
  BY DEF TypeOK, Counted, Drafted, Complete
<1>6. Read'
  BY DEF TypeOK, Counted, Read, Complete
<1>7. Quiet'
  BY DEF TypeOK, Counted, Drafted, Quiet, Describes, Kept
<1>8. Honest'
  BY DEF TypeOK, Quiet, Honest, Complete, Counted, Describes, Kept
<1> QED BY <1>1, <1>2, <1>3, <1>4, <1>5, <1>6, <1>7, <1>8

\* The invariant survives writing the digest.
LEMMA WriteSidecarInvariant == IInv /\ WriteSidecar => IInv'
<1> SUFFICES ASSUME IInv, WriteSidecar PROVE IInv'
  OBVIOUS
<1> USE DEF IInv, WriteSidecar, Leave
<1>1. TypeOK'
  BY DEF TypeOK, Counted, Bounded
<1>2. Counted'
  BY DEF TypeOK, Counted
<1>3. Bounded'
  BY DEF Bounded, TypeOK
<1>4. Drafted'
  BY DEF TypeOK, Counted, Drafted
<1>5. Complete'
  BY DEF TypeOK, Counted, Drafted, Complete
<1>6. Read'
  BY DEF TypeOK, Counted, Read, Complete
<1>7. Quiet'
  BY DEF TypeOK, Counted, Drafted, Quiet, Describes, Kept
<1>8. Honest'
  BY DEF TypeOK, Quiet, Honest, Complete, Counted, Describes, Kept
<1> QED BY <1>1, <1>2, <1>3, <1>4, <1>5, <1>6, <1>7, <1>8

\* The invariant survives a failed attestation.
LEMMA AttestFailsInvariant == IInv /\ AttestFails => IInv'
<1> SUFFICES ASSUME IInv, AttestFails PROVE IInv'
  OBVIOUS
<1> USE DEF IInv, AttestFails, Leave
<1>1. TypeOK'
  BY DEF TypeOK, Counted, Bounded
<1>2. Counted'
  BY DEF TypeOK, Counted
<1>3. Bounded'
  BY DEF Bounded, TypeOK
<1>4. Drafted'
  BY DEF TypeOK, Counted, Drafted
<1>5. Complete'
  BY DEF TypeOK, Counted, Drafted, Complete
<1>6. Read'
  BY DEF TypeOK, Counted, Read, Complete
<1>7. Quiet'
  BY DEF TypeOK, Counted, Drafted, Quiet, Describes, Kept
<1>8. Honest'
  BY DEF TypeOK, Quiet, Honest, Complete, Counted, Describes, Kept
<1> QED BY <1>1, <1>2, <1>3, <1>4, <1>5, <1>6, <1>7, <1>8

\* The invariant survives the corrective save.
LEMMA CorrectInvariant == IInv /\ Correct => IInv'
<1> SUFFICES ASSUME IInv, Correct PROVE IInv'
  OBVIOUS
<1> USE DEF IInv, Correct, SaveAs, Goto, Leave, Quietly
<1>0. /\ dir' \in [Files -> Absent .. Foreign]
      /\ statement' \in {statement, Nothing} /\ sidecar' \in {sidecar, Nothing}
      /\ \/ /\ saves' = saves + 1 /\ row' = saves' /\ columns' = saves'
            /\ errors' \in {errors, errors \cup {saves'}}
            /\ pc' \in {"done"}
         \/ /\ UNCHANGED <<saves, row, columns, errors>>
            /\ pc' \in {"raised"}
      /\ draft' \in {draft, Nothing} /\ left' \in {left, {}} /\ UNCHANGED attempt
  <2>1. CASE SaveAs(TRUE) /\ Goto("done")
    <3>1. dir' \in [Files -> Absent .. Foreign]
      BY <2>1 DEF TypeOK, Counted
    <3> QED BY <2>1, <3>1
  <2>2. CASE Raise
    BY <2>2, RaiseKeeps
  <2> QED BY <2>1, <2>2
<1>1. TypeOK'
  <2>1. dir' \in [Files -> Absent .. Foreign]
    BY <1>0
  <2>2. saves' \in 0 .. MaxSaves /\ row' \in Absent .. MaxSaves /\ columns' \in Absent .. Foreign
    BY <1>0 DEF TypeOK, Counted
  <2>3. errors' \subseteq 1 .. saves'
    <3>1. saves \in Nat /\ saves' \in {saves, saves + 1} /\ errors \subseteq 1 .. saves
      BY <1>0 DEF TypeOK
    <3>2. errors' \subseteq errors \cup {saves'} /\ (saves' = saves => errors' = errors)
      BY <1>0, <3>1
    <3> QED BY <3>1, <3>2
  <2> QED BY <1>0, <2>1, <2>2, <2>3 DEF TypeOK
<1>2. Counted'
  <2>1. CASE saves' = saves + 1 /\ pc' = "done" /\ row' = saves'
    <3>1. saves \in Nat /\ attempt \in 1 .. 2 /\ attempt' = attempt /\ vrow' = vrow
      BY <1>0 DEF TypeOK
    <3>2. saves <= attempt /\ vrow <= saves /\ vrow \in Nat
      BY DEF Counted
    <3> QED BY <2>1, <3>1, <3>2 DEF Counted
  <2>2. CASE pc' = "raised" /\ UNCHANGED <<saves, row>>
    BY <1>0, <2>2 DEF TypeOK, Counted
  <2> QED BY <1>0, <2>1, <2>2
<1>3. Bounded'
  BY <1>0 DEF Bounded, TypeOK
<1>4. Drafted'
  BY <1>0 DEF TypeOK, Counted, Drafted
<1>5. Complete'
  BY <1>0 DEF TypeOK, Counted, Drafted, Complete
<1>6. Read'
  BY <1>0 DEF TypeOK, Counted, Read, Complete
<1>7. Quiet'
  BY <1>0 DEF TypeOK, Counted, Drafted, Quiet, Describes, Kept
<1>8. Honest'
  BY DEF TypeOK, Quiet, Honest, Complete, Counted, Describes, Kept
<1> QED BY <1>1, <1>2, <1>3, <1>4, <1>5, <1>6, <1>7, <1>8

\* The invariant survives a second attempt.
LEMMA AgainInvariant == IInv /\ Again => IInv'
<1> SUFFICES ASSUME IInv, Again PROVE IInv'
  OBVIOUS
<1> USE DEF IInv, Again, Quietly
<1>1. TypeOK'
  <2>1. attempt' \in 1 .. 2
    OBVIOUS
  <2> QED BY <2>1 DEF TypeOK
<1>2. Counted'
  BY DEF TypeOK, Counted
<1>3. Bounded'
  BY DEF Bounded, TypeOK
<1>4. Drafted'
  BY DEF TypeOK, Counted, Drafted
<1>5. Complete'
  BY DEF TypeOK, Counted, Drafted, Complete
<1>6. Read'
  BY DEF TypeOK, Counted, Read, Complete
<1>7. Quiet'
  BY DEF TypeOK, Counted, Drafted, Quiet, Describes, Kept
<1>8. Honest'
  BY DEF TypeOK, Quiet, Honest, Complete, Counted, Describes, Kept
<1> QED BY <1>1, <1>2, <1>3, <1>4, <1>5, <1>6, <1>7, <1>8

\* The invariant survives the end of the process.
LEMMA StopInvariant == IInv /\ Stop => IInv'
<1> SUFFICES ASSUME IInv, Stop PROVE IInv'
  OBVIOUS
<1> USE DEF IInv, Stop, Leave
<1>1. TypeOK'
  BY DEF TypeOK, Counted, Bounded
<1>2. Counted'
  BY DEF TypeOK, Counted
<1>3. Bounded'
  BY DEF Bounded, TypeOK
<1>4. Drafted'
  BY DEF TypeOK, Counted, Drafted
<1>5. Complete'
  BY DEF TypeOK, Counted, Drafted, Complete
<1>6. Read'
  BY DEF TypeOK, Counted, Read, Complete
<1>7. Quiet'
  BY DEF TypeOK, Counted, Drafted, Quiet, Describes, Kept
<1>8. Honest'
  BY DEF TypeOK, Quiet, Honest, Complete, Counted, Describes, Kept
<1> QED BY <1>1, <1>2, <1>3, <1>4, <1>5, <1>6, <1>7, <1>8

\* The invariant survives reading the record.
LEMMA LoadInvariant == IInv /\ Load => IInv'
<1> SUFFICES ASSUME IInv, Load PROVE IInv'
  OBVIOUS
<1> USE DEF IInv, Load, VGoto, Apart
<1>1. TypeOK'
  BY DEF TypeOK, Counted, Bounded
<1>2. Counted'
  BY DEF TypeOK, Counted
<1>3. Bounded'
  BY DEF Bounded, TypeOK
<1>4. Drafted'
  BY DEF TypeOK, Counted, Drafted
<1>5. Complete'
  BY DEF TypeOK, Counted, Drafted, Complete
<1>6. Read'
  BY DEF TypeOK, Counted, Read, Complete
<1>7. Quiet'
  BY DEF Quiet, Describes, Kept
<1>8. Honest'
  <2>1. Verifiable' = Verifiable
    BY SameFiles
  <2> QED BY <2>1 DEF Quiet, Honest, Projected
<1> QED BY <1>1, <1>2, <1>3, <1>4, <1>5, <1>6, <1>7, <1>8

\* The invariant survives reading the statement.
LEMMA ReadStatementInvariant == IInv /\ ReadStatement => IInv'
<1> SUFFICES ASSUME IInv, ReadStatement PROVE IInv'
  OBVIOUS
<1> USE DEF IInv, ReadStatement, VGoto, Apart
<1>1. TypeOK'
  BY DEF TypeOK, Counted, Bounded
<1>2. Counted'
  BY DEF TypeOK, Counted
<1>3. Bounded'
  BY DEF Bounded, TypeOK
<1>4. Drafted'
  BY DEF TypeOK, Counted, Drafted
<1>5. Complete'
  BY DEF TypeOK, Counted, Drafted, Complete
<1>6. Read'
  BY DEF TypeOK, Counted, Read, Complete
<1>7. Quiet'
  BY DEF Quiet, Describes, Kept
<1>8. Honest'
  <2> SUFFICES ASSUME honest PROVE Honest'
    BY DEF Honest
  <2>1. Verifiable' = Verifiable
    BY SameFiles
  <2>2. statement # Nothing /\ Listable(DOMAIN statement.subjects)
    BY HonestStatement DEF Honest
  <2> QED BY <2>1, <2>2, HonestStatement DEF Honest
<1> QED BY <1>1, <1>2, <1>3, <1>4, <1>5, <1>6, <1>7, <1>8

\* The invariant survives reading the digest.
LEMMA ReadSidecarInvariant == IInv /\ ReadSidecar => IInv'
<1> SUFFICES ASSUME IInv, ReadSidecar PROVE IInv'
  OBVIOUS
<1> USE DEF IInv, ReadSidecar, VGoto, Apart
<1>1. TypeOK'
  BY DEF TypeOK, Counted, Bounded
<1>2. Counted'
  BY DEF TypeOK, Counted
<1>3. Bounded'
  BY DEF Bounded, TypeOK
<1>4. Drafted'
  BY DEF TypeOK, Counted, Drafted
<1>5. Complete'
  BY DEF TypeOK, Counted, Drafted, Complete
<1>6. Read'
  BY DEF TypeOK, Counted, Read, Complete
<1>7. Quiet'
  BY DEF Quiet, Describes, Kept
<1>8. Honest'
  <2> SUFFICES ASSUME honest PROVE Honest'
    BY DEF Honest
  <2>1. Verifiable' = Verifiable
    BY SameFiles
  <2>2. sidecar = vstatement
    BY HonestStatement DEF Honest
  <2> QED BY <2>1, <2>2, HonestStatement DEF Honest
<1> QED BY <1>1, <1>2, <1>3, <1>4, <1>5, <1>6, <1>7, <1>8

\* The invariant survives the verification of a file.
LEMMA VerifySubjectInvariant == IInv /\ VerifySubject => IInv'
<1> SUFFICES ASSUME IInv, VerifySubject PROVE IInv'
  OBVIOUS
<1> USE DEF IInv, VerifySubject, VGoto, Apart
<1>1. TypeOK'
  BY DEF TypeOK, Counted, Bounded
<1>2. Counted'
  BY DEF TypeOK, Counted
<1>3. Bounded'
  BY DEF Bounded, TypeOK
<1>4. Drafted'
  BY DEF TypeOK, Counted, Drafted
<1>5. Complete'
  BY DEF TypeOK, Counted, Drafted, Complete
<1>6. Read'
  BY DEF TypeOK, Counted, Read, Complete
<1>7. Quiet'
  BY DEF Quiet, Describes, Kept
<1>8. Honest'
  <2> SUFFICES ASSUME honest PROVE Honest'
    BY DEF Honest
  <2>1. Verifiable' = Verifiable
    BY SameFiles
  <2>2. \A f \in vleft : dir[f] = vstatement.subjects[f]
    BY HonestStatement DEF Honest
  <2> QED BY <2>1, <2>2, HonestStatement DEF Honest
<1> QED BY <1>1, <1>2, <1>3, <1>4, <1>5, <1>6, <1>7, <1>8

\* The invariant survives the search for other files.
LEMMA ScanArtifactsInvariant == IInv /\ ScanArtifacts => IInv'
<1> SUFFICES ASSUME IInv, ScanArtifacts PROVE IInv'
  OBVIOUS
<1> USE DEF IInv, ScanArtifacts, VGoto, Apart
<1>1. TypeOK'
  BY DEF TypeOK, Counted, Bounded
<1>2. Counted'
  BY DEF TypeOK, Counted
<1>3. Bounded'
  BY DEF Bounded, TypeOK
<1>4. Drafted'
  BY DEF TypeOK, Counted, Drafted
<1>5. Complete'
  BY DEF TypeOK, Counted, Drafted, Complete
<1>6. Read'
  BY DEF TypeOK, Counted, Read, Complete
<1>7. Quiet'
  BY DEF Quiet, Describes, Kept
<1>8. Honest'
  <2> SUFFICES ASSUME honest PROVE Honest'
    BY DEF Honest
  <2>1. Verifiable' = Verifiable
    BY SameFiles
  <2>2. Unattested = {} /\ Tree \notin Unscannable
    BY HonestStatement DEF Honest, Unattested, Present, Tree, Own, Kept
  <2> QED BY <2>1, <2>2, HonestStatement DEF Honest
<1> QED BY <1>1, <1>2, <1>3, <1>4, <1>5, <1>6, <1>7, <1>8

\* The invariant survives the verification of the manifest.
LEMMA VerifyTaskInvariant == IInv /\ VerifyTask => IInv'
<1> SUFFICES ASSUME IInv, VerifyTask PROVE IInv'
  OBVIOUS
<1> USE DEF IInv, VerifyTask, VGoto, Apart
<1>1. TypeOK'
  BY DEF TypeOK, Counted, Bounded
<1>2. Counted'
  BY DEF TypeOK, Counted
<1>3. Bounded'
  BY DEF Bounded, TypeOK
<1>4. Drafted'
  BY DEF TypeOK, Counted, Drafted
<1>5. Complete'
  BY DEF TypeOK, Counted, Drafted, Complete
<1>6. Read'
  BY DEF TypeOK, Counted, Read, Complete
<1>7. Quiet'
  BY DEF Quiet, Describes, Kept
<1>8. Honest'
  <2> SUFFICES ASSUME honest PROVE Honest'
    BY DEF Honest
  <2>1. Verifiable' = Verifiable
    BY SameFiles
  <2>2. task.manifest = vstatement.task.manifest
    BY HonestStatement DEF Honest
  <2> QED BY <2>1, <2>2, HonestStatement DEF Honest
<1> QED BY <1>1, <1>2, <1>3, <1>4, <1>5, <1>6, <1>7, <1>8

\* The invariant survives the verification of a part of the task.
LEMMA ReadTreeInvariant == IInv /\ ReadTree => IInv'
<1> SUFFICES ASSUME IInv, ReadTree PROVE IInv'
  OBVIOUS
<1> USE DEF IInv, ReadTree, VGoto, Apart
<1>1. TypeOK'
  BY DEF TypeOK, Counted, Bounded
<1>2. Counted'
  BY DEF TypeOK, Counted
<1>3. Bounded'
  BY DEF Bounded, TypeOK
<1>4. Drafted'
  BY DEF TypeOK, Counted, Drafted
<1>5. Complete'
  BY DEF TypeOK, Counted, Drafted, Complete
<1>6. Read'
  BY DEF TypeOK, Counted, Read, Complete
<1>7. Quiet'
  BY DEF Quiet, Describes, Kept
<1>8. Honest'
  <2> SUFFICES ASSUME honest PROVE Honest'
    BY DEF Honest
  <2>1. Verifiable' = Verifiable
    BY SameFiles
  <2>2. \A part \in vleft : task[part] = vstatement.task[part]
    BY HonestStatement DEF Honest
  <2> QED BY <2>1, <2>2, HonestStatement DEF Honest
<1> QED BY <1>1, <1>2, <1>3, <1>4, <1>5, <1>6, <1>7, <1>8

\* The invariant survives the verification of the harness.
LEMMA VerifyHarnessInvariant == IInv /\ VerifyHarness => IInv'
<1> SUFFICES ASSUME IInv, VerifyHarness PROVE IInv'
  OBVIOUS
<1> USE DEF IInv, VerifyHarness, VGoto, Apart, AfterGit
<1>1. TypeOK'
  BY DEF TypeOK, Counted, Bounded
<1>2. Counted'
  BY DEF TypeOK, Counted
<1>3. Bounded'
  BY DEF Bounded, TypeOK
<1>4. Drafted'
  BY DEF TypeOK, Counted, Drafted
<1>5. Complete'
  BY DEF TypeOK, Counted, Drafted, Complete
<1>6. Read'
  BY DEF TypeOK, Counted, Read, Complete
<1>7. Quiet'
  BY DEF Quiet, Describes, Kept
<1>8. Honest'
  <2> SUFFICES ASSUME honest PROVE Honest'
    BY DEF Honest
  <2>1. Verifiable' = Verifiable
    BY SameFiles
  <2>2. GitState[vpc] = vstatement.git[vpc]
    BY HonestStatement DEF Honest
  <2> QED BY <2>1, <2>2, HonestStatement DEF Honest
<1> QED BY <1>1, <1>2, <1>3, <1>4, <1>5, <1>6, <1>7, <1>8

\* The invariant survives reading results.json.
LEMMA ReadResultsInvariant == IInv /\ ReadResults => IInv'
<1> SUFFICES ASSUME IInv, ReadResults PROVE IInv'
  OBVIOUS
<1> USE DEF IInv, ReadResults, VGoto, Apart, Bound
<1>1. TypeOK'
  BY DEF TypeOK, Counted, Bounded
<1>2. Counted'
  BY DEF TypeOK, Counted
<1>3. Bounded'
  BY DEF Bounded, TypeOK
<1>4. Drafted'
  BY DEF TypeOK, Counted, Drafted
<1>5. Complete'
  BY DEF TypeOK, Counted, Drafted, Complete
<1>6. Read'
  BY DEF TypeOK, Counted, Read, Complete
<1>7. Quiet'
  BY DEF Quiet, Describes, Kept
<1>8. Honest'
  <2> SUFFICES ASSUME honest PROVE Honest'
    BY DEF Honest
  <2>1. Verifiable' = Verifiable
    BY SameFiles
  <2>2. Readable(Results) /\ Bound(Results) /\ dir[Results] = vrow /\ vstatement.record = dir[Results] /\ vrow \notin errors
    BY HonestStatement DEF Honest
  <2> QED BY <2>1, <2>2, HonestStatement DEF Honest
<1> QED BY <1>1, <1>2, <1>3, <1>4, <1>5, <1>6, <1>7, <1>8

\* The invariant survives reading the other file.
LEMMA ReadLogInvariant == IInv /\ ReadLog => IInv'
<1> SUFFICES ASSUME IInv, ReadLog PROVE IInv'
  OBVIOUS
<1> USE DEF IInv, ReadLog, VGoto, Apart, Bound
<1>1. TypeOK'
  BY DEF TypeOK, Counted, Bounded
<1>2. Counted'
  BY DEF TypeOK, Counted
<1>3. Bounded'
  BY DEF Bounded, TypeOK
<1>4. Drafted'
  BY DEF TypeOK, Counted, Drafted
<1>5. Complete'
  BY DEF TypeOK, Counted, Drafted, Complete
<1>6. Read'
  BY DEF TypeOK, Counted, Read, Complete
<1>7. Quiet'
  BY DEF Quiet, Describes, Kept
<1>8. Honest'
  <2> SUFFICES ASSUME honest PROVE Honest'
    BY DEF Honest
  <2>1. Verifiable' = Verifiable
    BY SameFiles
  <2>2. Readable(Log) /\ Bound(Log)
    BY HonestStatement DEF Honest
  <2> QED BY <2>1, <2>2, HonestStatement DEF Honest
<1> QED BY <1>1, <1>2, <1>3, <1>4, <1>5, <1>6, <1>7, <1>8

\* The invariant survives a change by others.
LEMMA DisturbInvariant == IInv /\ Disturb => IInv'
<1> SUFFICES ASSUME IInv, Disturb PROVE IInv'
  OBVIOUS
<1> USE DEF IInv, Disturb, Quietly
<1>1. TypeOK'
  <2>1. dir' \in [Files -> Absent .. Foreign]
    BY DEF TypeOK
  <2>2. task' \in [manifest : 1 .. 2, rest : 1 .. 2] /\ DOMAIN task' = DOMAIN task
    BY DEF TypeOK
  <2>3. git' \in [head : 1 .. 2, index : 1 .. 2, files : 1 .. 2]
    BY DEF TypeOK
  <2>4. columns' \in Absent .. Foreign /\ changes' \in 0 .. Changes
    BY DEF TypeOK
  <2> QED BY <2>1, <2>2, <2>3, <2>4 DEF TypeOK
<1>2. Counted'
  BY DEF TypeOK, Counted
<1>3. Bounded'
  BY DEF Bounded, TypeOK
<1>4. Drafted'
  BY DEF TypeOK, Counted, Drafted
<1>5. Complete'
  BY DEF TypeOK, Counted, Drafted, Complete
<1>6. Read'
  BY DEF TypeOK, Counted, Read, Complete
<1>7. Quiet'
  BY DEF TypeOK, Counted, Drafted, Quiet, Describes, Kept
<1>8. Honest'
  BY DEF TypeOK, Quiet, Honest, Complete, Counted, Describes, Kept
<1> QED BY <1>1, <1>2, <1>3, <1>4, <1>5, <1>6, <1>7, <1>8

\* No step of the process, of verify-run or of others breaks the invariant.
LEMMA NextInvariant == IInv /\ Next => IInv'
BY CaptureGitInvariant, InspectInvariant, ContainInvariant, SaveInvariant, ListInvariant,
   HashInvariant, WriteStatementInvariant, WriteSidecarInvariant, AttestFailsInvariant,
   CorrectInvariant, AgainInvariant, StopInvariant, LoadInvariant, ReadStatementInvariant,
   ReadSidecarInvariant, VerifySubjectInvariant, ScanArtifactsInvariant,
   VerifyTaskInvariant, ReadTreeInvariant, VerifyHarnessInvariant, ReadResultsInvariant,
   ReadLogInvariant, DisturbInvariant
   DEF Next, Write, Verify

\* What the inspection has found matters to the types alone.
LEMMA InspectionInvariant ==
  ASSUME IInv, UNCHANGED <<world, changes, record, process, reader, history>>,
         inspection' \in {"none", "clean", "hit", "error"}
  PROVE  IInv'
<1> USE DEF IInv
<1>1. TypeOK'
  BY DEF TypeOK
<1>2. Counted' /\ Bounded' /\ Drafted'
  BY DEF Counted, Bounded, Drafted
<1>3. Complete' /\ Read'
  BY DEF Complete, Read
<1>4. Quiet'
  BY DEF Quiet, Describes, Kept
<1>5. Honest'
  <2>1. Verifiable' = Verifiable
    BY SameFiles
  <2> QED BY <2>1 DEF Honest
<1> QED BY <1>1, <1>2, <1>3, <1>4, <1>5

-----------------------------------------------------------------------------
(* Theorems *)

\* The inductive invariant holds in every state.
THEOREM Invariance == Spec => []IInv
<1>1. Init => IInv
  BY InitInvariant
<1>2. IInv /\ [Next]_vars => IInv'
  <2> SUFFICES ASSUME IInv, [Next]_vars PROVE IInv'
    OBVIOUS
  <2>1. CASE UNCHANGED vars
    <3>1. inspection' \in {"none", "clean", "hit", "error"}
      BY <2>1 DEF vars, IInv, TypeOK
    <3> QED BY <2>1, <3>1, InspectionInvariant DEF vars
  <2> QED BY <2>1, NextInvariant
<1> QED BY <1>1, <1>2, PTL DEF Spec

\* TypeOK: what the process, verify-run and others do keeps the types; a record is
\* saved at most three times, and errors are of records that were saved.
THEOREM TypeCorrect == Spec => []TypeOK
<1>1. IInv => TypeOK
  BY DEF IInv
<1> QED BY <1>1, Invariance, PTL

\* What an accepting verify-run has judged follows from what it has read so far.
LEMMA ReadIsJudged == IInv => JudgedAsAttested
BY DEF IInv, Read, JudgedAsAttested

\* A completed statement of a record without an error is the last one.
LEMMA CompleteIsAccepted == IInv => AcceptedIsComplete
BY DEF IInv, Complete, Read, AcceptedIsComplete

\* verify-run refuses nothing while nobody has touched anything.
LEMMA HonestIsVerified == IInv => HonestVerifies
BY DEF IInv, Honest, HonestVerifies

\* JudgedAsAttested: however often files, task, harness and columns are changed
\* between the reads of verify-run, what it has judged in the end is what the
\* statement binds, of the record in the database.
THEOREM JudgedAsAttestedAlways == Spec => []JudgedAsAttested
BY ReadIsJudged, Invariance, PTL

\* AcceptedIsComplete: verify-run accepts only what write_attestation has brought to
\* its end, of a record without an attestation error, whenever the process was
\* killed or started over.
THEOREM AcceptedIsCompleteAlways == Spec => []AcceptedIsComplete
BY CompleteIsAccepted, Invariance, PTL

\* HonestVerifies: verify-run accepts a run that was persisted without an error and
\* that nobody has touched, unless its workspace has a namesake of the statement.
THEOREM HonestVerifiesAlways == Spec => []HonestVerifies
BY HonestIsVerified, Invariance, PTL

-----------------------------------------------------------------------------
(* The composition of both *)

\* After the verdict was handed over nothing has been read, of no artifact.
LEMMA HandOverKeeps ==
  ASSUME HandOver
  PROVE  StreamInv'
<1> DEFINE x == [k \in 0 .. Rounds |-> <<>>]
<1>1. text' = <<>> /\ limit' = 0 /\ taken' = 0 /\ layers' = FreshLayers /\ verdict' = "none"
  BY DEF HandOver
<1>2. Chain(x, <<>>) /\ Represents(FreshLayers, x, 0) /\ FreshLayers.hit = FALSE
  BY FreshIsEmpty
<1> HIDE DEF x
<1>3. text' \in Bytes /\ Len(text') = 0
  BY <1>1 DEF Bytes
<1>4. SubSeq(text', 1, taken') = <<>>
  BY <1>1, <1>3, ReadAll
<1>5. Reading'
  <2>1. Chain(x, SubSeq(text', 1, taken')) /\ Represents(layers', x, 0)
    BY <1>1, <1>2, <1>4
  <2>2. taken' <= limit' /\ layers'.hit = FALSE
    BY <1>1, <1>2
  <2> QED BY <2>1, <2>2 DEF Reading
<1>6. layers' \in Layers
  BY <1>1, <1>2 DEF Represents
<1>7. StreamTypeOK'
  BY <1>1, <1>3, <1>6 DEF StreamTypeOK
<1>8. StreamIsExact'
  BY <1>1 DEF StreamIsExact
<1> QED BY <1>5, <1>7, <1>8 DEF StreamInv

\* Every step of the composition is one of the attestation, or one of the inspection,
\* whose verdict is handed over.
LEMMA EvidenceInvariance == EvidenceSpec => [](IInv /\ StreamInv)
<1>1. EvidenceInit => IInv /\ StreamInv
  BY InitInvariant, StreamInitially DEF EvidenceInit
<1>2. IInv /\ StreamInv /\ [EvidenceNext]_<<vars, stream>> => (IInv /\ StreamInv)'
  <2> SUFFICES ASSUME IInv, StreamInv, [EvidenceNext]_<<vars, stream>>
               PROVE  (IInv /\ StreamInv)'
    OBVIOUS
  <2>1. CASE UNCHANGED vars /\ (StreamNext \/ UNCHANGED stream)
    <3>1. inspection' \in {"none", "clean", "hit", "error"}
      BY <2>1 DEF vars, IInv, TypeOK
    <3>2. IInv'
      BY <2>1, <3>1, InspectionInvariant DEF vars
    <3>3. StreamInv'
      BY <2>1, ReadChunkKeeps, EndStreamKeeps, GrowKeeps, StreamStutters DEF StreamNext
    <3> QED BY <3>2, <3>3
  <2>2. CASE HandOver
    <3>1. inspection' \in {"none", "clean", "hit", "error"}
      BY <2>2 DEF HandOver, StreamInv, StreamTypeOK
    <3>2. IInv'
      BY <2>2, <3>1, InspectionInvariant DEF HandOver
    <3>3. StreamInv'
      BY <2>2, HandOverKeeps
    <3> QED BY <3>2, <3>3
  <2>3. CASE Next /\ UNCHANGED stream
    <3>1. StreamInv'
      BY <2>3, StreamStutters
    <3> QED BY <2>3, <3>1, NextInvariant
  <2> QED BY <2>1, <2>2, <2>3 DEF EvidenceNext, Next
<1> QED BY <1>1, <1>2, PTL DEF EvidenceSpec

\* StreamIsExact holds as well of the artifacts of a run that is persisted: what
\* decides how it is saved is the verdict on the whole of their bytes.
THEOREM EvidenceIsExact == EvidenceSpec => []StreamIsExact
<1>1. IInv /\ StreamInv => StreamIsExact
  BY DEF StreamInv
<1> QED BY <1>1, EvidenceInvariance, PTL

\* JudgedAsAttested, AcceptedIsComplete and HonestVerifies hold as well where the
\* first verdict on the artifacts comes from the inspection of their bytes.
THEOREM EvidenceAttested ==
  EvidenceSpec => [](JudgedAsAttested /\ AcceptedIsComplete /\ HonestVerifies)
BY ReadIsJudged, CompleteIsAccepted, HonestIsVerified, EvidenceInvariance, PTL
===============================================================================
