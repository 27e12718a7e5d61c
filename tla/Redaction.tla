-------------------------------- MODULE Redaction --------------------------------
(***************************************************************************)
(* The credential boundary (credentials.py): what is written is redacted   *)
(* as a whole, and every artifact of a run is inspected once more before   *)
(* the run is saved, as a stream that may be of any length.  A credential  *)
(* may be spelled with JSON escapes, and these may be nested.              *)
(*                                                                         *)
(* A byte is a letter.  A hexadecimal number has one digit instead of      *)
(* four, so that an escape has three bytes and a surrogate pair six.       *)
(***************************************************************************)
EXTENDS Integers, FiniteSets, SequencesExt

CONSTANTS Letters, \* the bytes there are
          Values,  \* the credentials
          Texts,   \* what is written
          Added,   \* bytes that others append to an artifact
          Most,    \* DIFF_MAX_BYTES
          Rounds   \* MAX_JSON_ESCAPE_DECODE_ROUNDS

\* Those that have a part in escapes, and what is put for a credential.
ASSUME LettersAssumption ==
  {"\\", "n", "s", "u", "5", "a", "D", "C", "t", "#"} \subseteq Letters
\* There is a credential, and none is empty (CredentialMaterial refuses both).
ASSUME ValuesAssumption ==
  IsFiniteSet(Values) /\ Values # {} /\ Values \subseteq Seq(Letters) \ {<<>>}
ASSUME TextsAssumption  == Texts \subseteq Seq(Letters) /\ Added \subseteq Letters
ASSUME BoundsAssumption == Most \in Nat /\ Rounds \in Nat

VARIABLES text,    \* the bytes of the artifact
          limit,   \* bytes that may be read
          taken,   \* bytes read so far
          layers,  \* matchers and decoders, one of each for a number of decodings
          verdict  \* none, hit, clean, or error

stream == <<text, limit, taken, layers, verdict>>

-----------------------------------------------------------------------------
(* JSON string escapes, within any bytes *)

Backslash == "\\"
Simple    == [b \in {Backslash, "n"} |-> IF b = "n" THEN "s" ELSE b]
Point     == [d \in {"5"} |-> "a"]
High      == "D"
Low       == "C"
Pair      == "t"
Hex       == DOMAIN Point \cup {High, Low}

\* json.dumps, which may leave characters outside of ASCII as they are.
Dump(value, ascii) ==
  FlattenSeq([i \in 1 .. Len(value) |->
                IF value[i] = "s" THEN <<Backslash, "n">>
                ELSE IF value[i] = Backslash THEN <<Backslash, Backslash>>
                ELSE IF value[i] = Pair /\ ascii
                     THEN <<Backslash, "u", High, Backslash, "u", Low>>
                ELSE <<value[i]>>])

\* What stands at position i: the bytes it takes, and what it is decoded to.  An
\* escape that is not valid, or a surrogate alone, stands for itself.
At(s, i) ==
  LET Here(n)     == i + n - 1 <= Len(s)
      Itself(n)   == [takes |-> n, out |-> SubSeq(s, i, i + n - 1), changed |-> FALSE]
      Escape(n, b) == [takes |-> n, out |-> <<b>>, changed |-> TRUE]
  IN IF s[i] # Backslash \/ ~Here(2) THEN Itself(1)
     ELSE IF s[i + 1] \in DOMAIN Simple THEN Escape(2, Simple[s[i + 1]])
     ELSE IF s[i + 1] # "u" \/ ~Here(3) THEN Itself(1)
     ELSE IF s[i + 2] \in DOMAIN Point THEN Escape(3, Point[s[i + 2]])
     ELSE IF s[i + 2] = High /\ Here(6) /\ SubSeq(s, i + 3, i + 5) = <<Backslash, "u", Low>>
          THEN Escape(6, Pair)
     ELSE IF s[i + 2] \in Hex THEN Itself(3) ELSE Itself(1)

\* Mutant: does not wait for the second half of a pair.
IncompleteHalf(s, i) ==
  LET rest == Len(s) - i + 1
  IN s[i] = Backslash /\ (rest < 2 \/ (s[i + 1] = "u" /\ rest < 3))

\* More bytes could make another escape of what stands at position i.
Incomplete(s, i) ==
  LET rest == Len(s) - i + 1
  IN /\ s[i] = Backslash
     /\ \/ rest < 2
        \/ s[i + 1] = "u" /\ rest < 3
        \/ s[i + 1] = "u" /\ s[i + 2] = High /\ rest < 6

\* One decoding; unless these are the last bytes, an incomplete escape is left.
Decoding(s, final) ==
  LET from[i \in 1 .. Len(s) + 1] ==
        IF i > Len(s) \/ (~final /\ Incomplete(s, i))
        THEN [out |-> <<>>, rest |-> SubSeq(s, i, Len(s)), changed |-> FALSE]
        ELSE LET here == At(s, i)
                 more == from[i + here.takes]
             IN [out |-> here.out \o more.out, rest |-> more.rest,
                 changed |-> here.changed \/ more.changed]
  IN from

Decode(s, final) == Decoding(s, final)[1]

-----------------------------------------------------------------------------
(* Patterns, and the redaction of a whole buffer *)

Patterns == UNION {{v, Dump(v, FALSE), Dump(v, TRUE)} : v \in Values}

PatternsAt(s, i) == {p \in Patterns : i + Len(p) - 1 <= Len(s) /\ SubSeq(s, i, i + Len(p) - 1) = p}
Occurs(s)        == \E i \in 1 .. Len(s) : PatternsAt(s, i) # {}

\* contains_bytes: the buffer, decoded any number of times up to the bound; to
\* be decodable beyond the bound is an error.
Decodings(s) ==
  LET layer[k \in 0 .. Rounds] == IF k = 0 THEN s ELSE Decode(layer[k - 1], TRUE).out
  IN layer

ContainsBytes(s) ==
  IF \E k \in 0 .. Rounds : Occurs(Decodings(s)[k]) THEN "hit"
  ELSE IF Decode(Decodings(s)[Rounds], TRUE).changed THEN "error" ELSE "clean"

Longest(ps) == CHOOSE n \in {Len(p) : p \in ps} : \A p \in ps : Len(p) <= n

\* redact_bytes: the first match, there the longest, and on behind it.
Redacting(s) ==
  LET from[i \in 1 .. Len(s) + 1] ==
        IF i > Len(s) THEN <<>>
        ELSE LET here == PatternsAt(s, i)
             IN IF here = {} THEN <<s[i]>> \o from[i + 1]
                ELSE <<"#">> \o from[i + Longest(here)]
  IN from

Redacted(s) == Redacting(s)[1]

-----------------------------------------------------------------------------
(* The inspection of a stream *)

\* What a matcher keeps of the bytes it has seen.
Overlap == Longest(Patterns) - 1

Retained(s) == SubSeq(s, IF Len(s) > Overlap THEN Len(s) - Overlap + 1 ELSE 1, Len(s))

FreshLayers == [tail    |-> [k \in 0 .. Rounds |-> <<>>],
                pending |-> [k \in 0 .. Rounds |-> <<>>],
                deep    |-> FALSE, hit |-> FALSE]

\* Bytes go through layer k: to its matcher, and decoded to the next layer.
Through(m, k, bytes) ==
  LET seen    == m.tail[k] \o bytes
      decoded == Decode(m.pending[k] \o bytes, FALSE)
  IN [to    |-> [tail    |-> [m.tail EXCEPT ![k] = Retained(seen)],
                 pending |-> [m.pending EXCEPT ![k] = decoded.rest],
                 deep    |-> m.deep \/ (k = Rounds /\ decoded.changed),
                 hit     |-> m.hit \/ (bytes # <<>> /\ Occurs(seen))],
      bytes |-> decoded.out]

Feeding(m, first, bytes) ==
  LET upto[k \in first .. Rounds + 1] ==
        IF k = first THEN [to |-> m, bytes |-> bytes]
        ELSE LET before == upto[k - 1] IN Through(before.to, k - 1, before.bytes)
  IN upto

Feed(m, first, bytes) == Feeding(m, first, bytes)[Rounds + 1].to

\* The end of the stream: what each decoder has kept goes to the layers below it.
Flushing(m) ==
  LET upto[k \in 0 .. Rounds] ==
        IF k = 0 THEN m
        ELSE LET before == upto[k - 1]
             IN Feed([before EXCEPT !.pending[k - 1] = <<>>], k,
                     Decode(before.pending[k - 1], TRUE).out)
  IN upto

Finished(m) ==
  LET all == Flushing(m)[Rounds]
  IN [all EXCEPT !.deep = @ \/ Decode(all.pending[Rounds], TRUE).changed]

\* An artifact may have no more bytes than when it was opened; the diff, before it
\* is sent to the judge, no more than any diff may have.
Limits(s) == {Len(s)} \cup (IF Len(s) <= Most THEN {Most} ELSE {})

\* An artifact as somebody else wrote it, or as the harness did, whose write
\* fails where redaction does not help.
StreamInit ==
  /\ \E raw \in Texts :
       \/ text = raw
       \/ text = Redacted(raw) /\ ContainsBytes(Redacted(raw)) = "clean"
  /\ limit \in Limits(text) /\ taken = 0 /\ layers = FreshLayers /\ verdict = "none"

\* A chunk; more bytes than allowed are an error.
ReadChunk ==
  /\ verdict = "none"
  /\ \E n \in taken + 1 .. Len(text) :
       /\ taken' = n
       /\ IF n > limit THEN verdict' = "error" /\ UNCHANGED layers
          ELSE /\ layers' = Feed(layers, 0, SubSeq(text, taken + 1, n))
               /\ verdict' = IF layers'.hit THEN "hit" ELSE "none"
  /\ UNCHANGED <<text, limit>>

EndStream ==
  /\ verdict = "none" /\ taken = Len(text)
  /\ layers' = Finished(layers)
  /\ verdict' = IF layers'.hit THEN "hit" ELSE IF layers'.deep THEN "error" ELSE "clean"
  /\ UNCHANGED <<text, limit, taken>>

\* Somebody appends to the file meanwhile.
Grow ==
  /\ verdict = "none" /\ Len(text) <= limit
  /\ \E b \in Added : text' = Append(text, b)
  /\ UNCHANGED <<limit, taken, layers, verdict>>

StreamNext == ReadChunk \/ EndStream \/ Grow
StreamSpec == StreamInit /\ [][StreamNext]_stream

-----------------------------------------------------------------------------
(* Properties *)

\* However the bytes are cut into chunks, between the bytes of a credential or
\* within an escape, the inspection of a stream comes to the same verdict as the
\* inspection of the whole; a file that outgrows its limit is never found clean by
\* what it had before.
StreamIsExact ==
  LET whole == ContainsBytes(IF Len(text) > limit THEN SubSeq(text, 1, limit) ELSE text)
  IN /\ verdict \in {"hit", "clean"} => verdict = whole
     /\ verdict = "error" => whole = "error" \/ Len(text) > limit
     /\ verdict = "clean" => Len(text) <= limit
===============================================================================
