------------------------------- MODULE MCEvidence -------------------------------
(***************************************************************************)
(* The evidence of a trial: an artifact is inspected for credentials as a  *)
(* stream (Redaction), and what that finds decides how the run is          *)
(* persisted and attested (Attestation).                                   *)
(***************************************************************************)
EXTENDS Attestation, Redaction

\* The letters of the secrets, of escapes, of what they stand for, and of redaction.
MCLetters == {"a", "b", "t", "\\", "n", "s", "u", "5", "D", "C", "#"}

\* A secret of plain letters, one with a letter that JSON writes as a pair of
\* surrogates, and one with a backslash.
MCValues == {<<"a", "b", "a">>, <<"t", "a">>, <<"\\", "b">>}

\* Letters, and escapes with their halves; a backslash before one nests it.
Tokens  == {<<"a">>, <<"b">>, <<"\\">>, <<"\\", "u", "5">>, <<"\\", "u", "D">>,
            <<"\\", "u", "C">>}
MCTexts == {FlattenSeq(w) : w \in BoundedSeq(Tokens, 4)}

\* Runs that the verification does not take, each for another of its limits: with
\* one file more than MaxSubjects; with the notes; with the program; with a record
\* that took two attempts.
MCLong        == {{Results, Log, "workspace/notes.md"}}
MCUnscannable == {{Results, Log, "workspace/app.py"}}
MCHeavy       == {<<Results, 2>>}

EvidenceInit == Init /\ StreamInit

\* The first inspection; it shares nothing else with the attestation, and so is
\* over before that begins.
HandOver ==
  /\ verdict # "none" /\ inspection' = verdict
  /\ text' = <<>> /\ limit' = 0 /\ taken' = 0 /\ layers' = FreshLayers /\ verdict' = "none"
  /\ UNCHANGED <<world, changes, record, process, reader, history>>

\* A second time it may come to any verdict.  What follows the verification is no
\* concern of it.
EvidenceNext ==
  \/ inspection = "none" /\ StreamNext /\ UNCHANGED vars
  \/ HandOver
  \/ /\ inspection # "none" /\ UNCHANGED stream
     /\ \/ Inspect /\ (attempt = 1 => inspection' = inspection)
        \/ (Write \/ Verify \/ Disturb) /\ vpc \notin {"accepted", "refused"}

EvidenceSpec == EvidenceInit /\ [][EvidenceNext]_<<vars, stream>>

\* For TLC, a namesake comes alone, and as the files of a workspace are alike to
\* others, these change one of them.
Plain  == Workspace \ Namesakes
MCInit == EvidenceInit /\ (Tree \cap Namesakes = {} \/ Tree \cap Plain = {})
MCNext == EvidenceNext /\ (changes' # changes => \A f \in Plain : dir'[f] = dir[f])
MCSpec == MCInit /\ [][MCNext]_<<vars, stream>>
===============================================================================
