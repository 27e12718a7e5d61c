------------------------------- MODULE Attestation -------------------------------
(***************************************************************************)
(* The provenance of a governed run.  The harness is described by what git *)
(* says of it; _persist_run saves the record and binds the run's           *)
(* directory, the task and the harness into a statement with its digest    *)
(* beside it (attestation.py), and verify-run reads all of that again      *)
(* later.  Nothing is locked: files, task and harness may be changed       *)
(* between any two of these reads, the process may end between any two of  *)
(* the writes, and an exception has the record completed a second time.    *)
(*                                                                         *)
(* A content is a number, a digest is represented by what it covers.       *)
(***************************************************************************)
EXTENDS Integers, FiniteSets

CONSTANTS Files,     \* paths in the run's directory
          Results,   \* results.json
          Log,       \* an artifact that may hold a credential, judged by verify-run
          Workspace, \* paths below workspace/
          Namesakes, \* those with the file name of the statement or the digest
          Changes,   \* bound: changes by others
          MaxSubjects, \* limits of the verification alone: files of a statement,
          Long,        \* the sets of files whose statement has too many bytes,
          Unscannable, \* those whose directories have too many entries, are too
                       \* deep, or are named as no artifact may be,
          Heavy        \* <<file, content>>: of too many bytes to be judged

ASSUME FilesAssumption ==
  /\ {Results, Log} \cup Workspace \subseteq Files /\ Namesakes \subseteq Workspace
  /\ Results # Log /\ {Results, Log} \cap Workspace = {}
  /\ {"attestation.json", "attestation.json.sha256"} \cap Files = {}
ASSUME ChangesAssumption == Changes \in Nat
ASSUME LimitsAssumption ==
  /\ MaxSubjects \in Nat /\ Long \cup Unscannable \subseteq SUBSET Files
  /\ \A pair \in Heavy : pair[1] \in {Results, Log} /\ pair[2] \in Nat

VARIABLES dir, row,           \* the run's directory, and its record in the database,
          columns,            \* and what the other columns of the row say of it
          task, git,          \* the task's files and the harness, as they are
          statement, sidecar, \* attestation.json and its digest
          changes,            \* made by others
          seen, captured,     \* what git has said so far, and what the record has of it
          saves, flawed,      \* the record: saved how often, with an error of the
          errors,             \* containment, and with any attestation_error
          completed,          \* history: statements whose creation has succeeded
          inspection,         \* of the artifacts: none, clean, hit or error
          pc, attempt,        \* the process that persists
          draft, left,        \* the statement in work, and files to be hashed
          vpc, vrow, vstatement, vleft, used, \* verify-run
          quiet, honest       \* history: nothing has changed since the save; and
                              \* that was so when verify-run began, and ever since

world   == <<dir, row, columns, task, git, statement, sidecar>>
record  == <<seen, captured, saves, flawed, errors, completed>>
process == <<pc, attempt, draft, left>>
reader  == <<vpc, vrow, vstatement, vleft, used>>
history == <<quiet, honest>>
vars    == <<world, changes, record, inspection, process, reader, history>>

Absent   == 0
MaxSaves == 3
Foreign  == MaxSaves + 1 \* a content that is nobody's
Nothing  == [subjects |-> <<>>]
Own      == {"attestation.json", "attestation.json.sha256"}
Judged   == {Results, Log}

\* The governed snapshot of the task, private to the run.
Snapshot == [manifest |-> 1, rest |-> 1]

\* What one git command after another says: the commit, then differences, and
\* what git does not know of.
Diff(a, b) == IF a = b THEN <<>> ELSE <<a, b>>
WorkTree   == Diff(git.index, git.files)
GitState   == [head     |-> <<git.head>>,
               staged   |-> Diff(git.head, git.index),
               unstaged |-> WorkTree]
Unknown    == [x \in {} |-> <<>>]
AfterGit(part, last) == CASE part = "head" -> "staged" [] part = "staged" -> "unstaged"
                          [] part = "unstaged" -> last

Init ==
  /\ dir \in [Files -> {Absent, 1}] /\ dir[Results] = Absent /\ dir[Log] = 1
  /\ row = Absent /\ columns = Absent /\ task = Snapshot /\ git = [head |-> 1, index |-> 1, files |-> 1]
  /\ statement = Nothing /\ sidecar = Nothing /\ changes = 0
  /\ seen = Unknown /\ captured = Unknown
  /\ saves = 0 /\ flawed = FALSE /\ errors = {} /\ completed = {}
  /\ inspection = "none" /\ pc = "head" /\ attempt = 1 /\ draft = Nothing /\ left = {}
  /\ vpc = "idle" /\ vrow = Absent /\ vstatement = Nothing /\ vleft = {}
  /\ used = [f \in Judged |-> Absent]
  /\ quiet = FALSE /\ honest = FALSE

Tree    == {f \in Files : dir[f] # Absent}
Present == Tree
             \cup (IF statement = Nothing THEN {} ELSE {"attestation.json"})
             \cup (IF sidecar = Nothing THEN {} ELSE {"attestation.json.sha256"})

Goto(l)  == pc' = l /\ UNCHANGED <<attempt, draft, left>>
Leave(l) == pc' = l /\ draft' = Nothing /\ left' = {} /\ UNCHANGED attempt \* locals are gone
Quietly  == quiet' = FALSE /\ honest' = FALSE

-----------------------------------------------------------------------------
(* _capture_provenance *)

\* If any command fails, the record keeps what it has.
CaptureGit ==
  /\ pc \in DOMAIN GitState
  /\ \/ /\ Goto(AfterGit(pc, "inspect"))
        /\ LET now == [part \in DOMAIN seen \cup {pc} |->
                         IF part = pc THEN GitState[pc] ELSE seen[part]]
           IN IF pc = "unstaged" THEN captured' = now /\ seen' = Unknown
              ELSE seen' = now /\ UNCHANGED captured
     \/ Goto("inspect") /\ seen' = Unknown /\ UNCHANGED captured
  /\ UNCHANGED <<world, changes, saves, flawed, errors, completed, inspection, reader, history>>

-----------------------------------------------------------------------------
(* _complete_record and _persist_run *)

\* The artifacts are read through once.
Inspect ==
  /\ pc = "inspect" /\ Goto("contain")
  /\ inspection' \in {"clean", "hit", "error"}
  /\ UNCHANGED <<world, changes, record, reader, history>>

\* What holds a credential is removed; where that cannot be told, everything is
\* but the workspace.
Purged(found) == CASE found = "hit" -> {Log} [] found = "error" -> Files \ Workspace
                    [] OTHER -> {}
Purge(found) ==
  /\ dir' = [f \in Files |-> IF f \in Purged(found) THEN Absent ELSE dir[f]]
  /\ IF found = "error" THEN statement' = Nothing /\ sidecar' = Nothing
     ELSE UNCHANGED <<statement, sidecar>>

\* _contain_durable_agent_artifacts.
Contain ==
  /\ pc = "contain" /\ inspection' = "clean"
  /\ \/ Purge(inspection) /\ Goto("save") /\ flawed' = (flawed \/ inspection # "clean")
     \/ Goto("raised") /\ UNCHANGED <<dir, statement, sidecar, flawed>>
  /\ UNCHANGED <<row, columns, task, git, changes, seen, captured, saves, errors, completed, reader, history>>

\* A record is saved; it says so if it has an error of its attestation.
SaveAs(error) ==
  /\ saves' = saves + 1
  /\ dir' = [dir EXCEPT ![Results] = saves'] /\ row' = saves' /\ columns' = saves'
  /\ errors' = IF error THEN errors \cup {saves'} ELSE errors
  /\ UNCHANGED <<statement, sidecar>>

\* Nothing is saved; what was found in the artifacts may be removed.
Unsaved(found) == Purge(found) /\ UNCHANGED <<saves, row, columns, errors>>

\* Where the record cannot be redacted, the artifacts are dropped.
Raise == Leave("raised") /\ \E found \in {"clean", "error"} : Unsaved(found)

\* _persist_run: the artifacts and the record are examined once more.  Without the
\* state of the harness nothing is attested.
Save ==
  /\ pc = "save" /\ honest' = FALSE
  /\ \/ /\ SaveAs(flawed) /\ Goto(IF captured = Unknown THEN "correct" ELSE "list")
        /\ quiet' = (captured = GitState /\ task = Snapshot /\ dir[Log] # Absent)
     \/ \E found \in {"clean", "hit", "error"} : Unsaved(found) /\ Goto("correct") /\ UNCHANGED quiet
     \/ Raise /\ UNCHANGED quiet
  /\ UNCHANGED <<task, git, changes, seen, captured, flawed, completed, inspection, reader>>

-----------------------------------------------------------------------------
(* create_attestation *)

\* The two files are passed over by their names, wherever they are.
Attestable == Present \ (Own \cup Namesakes)

\* The task is the snapshot, the harness is that of the record.
Statement == [subjects |-> <<>>, task |-> Snapshot, git |-> captured, record |-> saves]

List ==
  /\ pc = "list" /\ pc' = "hash" /\ UNCHANGED attempt
  /\ left' = Attestable /\ draft' = Statement
  /\ UNCHANGED <<world, changes, record, inspection, reader, history>>

\* One subject after another.
Hash ==
  /\ pc = "hash" /\ left # {}
  /\ \E f \in left :
       \/ /\ dir[f] # Absent /\ UNCHANGED <<pc, attempt>>
          /\ draft' = [draft EXCEPT !.subjects = [g \in DOMAIN @ \cup {f} |->
                                                    IF g = f THEN dir[f] ELSE @[g]]]
          /\ left' = left \ {f}
       \/ dir[f] = Absent /\ Leave("correct")
  /\ UNCHANGED <<world, changes, record, inspection, reader, history>>

\* write_attestation: two files, each replaced as a whole.
WriteStatement ==
  /\ pc = "hash" /\ left = {} /\ Goto("sidecar")
  /\ statement' = draft
  /\ UNCHANGED <<dir, row, columns, task, git, sidecar, changes, record, inspection, reader, history>>

WriteSidecar ==
  /\ pc = "sidecar" /\ Leave(IF flawed THEN "correct" ELSE "done")
  /\ sidecar' = draft /\ completed' = completed \cup {draft}
  /\ UNCHANGED <<dir, row, columns, task, git, statement, changes, seen, captured, saves, flawed, errors,
                 inspection, reader, history>>

\* Any of it may fail; the record then is saved once more, with the error.
AttestFails ==
  /\ pc \in {"hash", "sidecar"} /\ Leave("correct")
  /\ UNCHANGED <<world, changes, record, inspection, reader, history>>

Correct ==
  /\ pc = "correct" /\ Quietly
  /\ \/ SaveAs(TRUE) /\ Goto("done")
     \/ Raise
  /\ UNCHANGED <<task, git, changes, seen, captured, flawed, completed, inspection, reader>>

\* evaluation.failed: the harness is captured and the same record completed again.
Again ==
  /\ pc = "raised" /\ attempt = 1 /\ Quietly
  /\ attempt' = 2 /\ pc' = "head" /\ UNCHANGED <<draft, left>>
  /\ UNCHANGED <<world, changes, record, inspection, reader>>

\* The process is killed.
Stop ==
  /\ pc \notin DOMAIN GitState \cup {"inspect", "raised", "done", "stopped"} /\ Leave("stopped")
  /\ UNCHANGED <<world, changes, record, inspection, reader, history>>

-----------------------------------------------------------------------------
(* verify-run.  Failures are collected; the first one decides. *)

VGoto(ok, l) == vpc' = IF ok THEN l ELSE "refused"

Apart == <<world, changes, record, inspection, process>>

\* What queries see of a run is what its record says.
Projected == columns = row

\* Limits that the creation of a statement does not have.
Listable(subjects) == Cardinality(subjects) <= MaxSubjects /\ subjects \notin Long
Readable(f)        == <<f, dir[f]>> \notin Heavy

\* What verify-run accepts, if it finds it as it was attested.
Verifiable ==
  /\ Listable(Attestable) /\ Tree \notin Unscannable /\ \A f \in Judged : Readable(f)
  /\ Present \cap Namesakes = {}

\* The record is that of the database, in one read transaction.
Load ==
  /\ vpc = "idle" /\ row # Absent
  /\ vrow' = row /\ VGoto(Projected /\ statement # Nothing, "statement")
  /\ honest' = (quiet /\ pc = "done" /\ Verifiable)
  /\ UNCHANGED <<Apart, vstatement, vleft, used, quiet>>

ReadStatement ==
  /\ vpc = "statement"
  /\ vstatement' = statement
  /\ VGoto(statement # Nothing /\ Listable(DOMAIN statement.subjects), "sidecar")
  /\ UNCHANGED <<Apart, vrow, vleft, used, history>>

\* Mutant: a digest that is not there does not matter.
ReadSidecarIfAny ==
  /\ vpc = "sidecar"
  /\ VGoto(sidecar \in {vstatement, Nothing}, "subjects") /\ vleft' = DOMAIN vstatement.subjects
  /\ UNCHANGED <<Apart, vrow, vstatement, used, history>>

ReadSidecar ==
  /\ vpc = "sidecar"
  /\ VGoto(sidecar = vstatement, "subjects") /\ vleft' = DOMAIN vstatement.subjects
  /\ UNCHANGED <<Apart, vrow, vstatement, used, history>>

VerifySubject ==
  /\ vpc = "subjects" /\ vleft # {}
  /\ \E f \in vleft :
       /\ VGoto(dir[f] = vstatement.subjects[f], "subjects") /\ vleft' = vleft \ {f}
  /\ UNCHANGED <<Apart, vrow, vstatement, used, history>>

\* Mutant: the two files themselves are not attested.
UnattestedAtAll == Present \ DOMAIN vstatement.subjects

\* Here the two files are known by their paths.
Unattested == (Present \ Own) \ DOMAIN vstatement.subjects

ScanArtifacts ==
  /\ vpc = "subjects" /\ vleft = {}
  /\ VGoto(Unattested = {} /\ Tree \notin Unscannable, "task")
  /\ UNCHANGED <<Apart, vrow, vstatement, vleft, used, history>>

\* The task's manifest, and then the tree, file by file.
VerifyTask ==
  /\ vpc = "task"
  /\ VGoto(task.manifest = vstatement.task.manifest, "tree") /\ vleft' = DOMAIN task
  /\ UNCHANGED <<Apart, vrow, vstatement, used, history>>

ReadTree ==
  /\ vpc = "tree"
  /\ \E part \in vleft :
       /\ VGoto(task[part] = vstatement.task[part], IF vleft = {part} THEN "head" ELSE "tree")
       /\ vleft' = vleft \ {part}
  /\ UNCHANGED <<Apart, vrow, vstatement, used, history>>

VerifyHarness ==
  /\ vpc \in DOMAIN GitState
  /\ VGoto(GitState[vpc] = vstatement.git[vpc], AfterGit(vpc, "results"))
  /\ UNCHANGED <<Apart, vrow, vstatement, vleft, used, history>>

\* Mutant: the files have been verified a moment ago.
BoundBefore(f) == f \in DOMAIN vstatement.subjects /\ dir[f] # Absent

\* Whether the bytes just read are those of the statement.
Bound(f) == f \in DOMAIN vstatement.subjects /\ dir[f] = vstatement.subjects[f]

\* _verified_subject_snapshot: read anew.  results.json must be the record of the
\* database, and the statement must have been made of it.
ReadResults ==
  /\ vpc = "results"
  /\ used' = [used EXCEPT ![Results] = dir[Results]]
  /\ VGoto(/\ Readable(Results) /\ Bound(Results) /\ dir[Results] = vrow /\ vstatement.record = dir[Results]
           /\ vrow \notin errors, "log")
  /\ UNCHANGED <<Apart, vrow, vstatement, vleft, history>>

ReadLog ==
  /\ vpc = "log"
  /\ used' = [used EXCEPT ![Log] = dir[Log]]
  /\ VGoto(Readable(Log) /\ Bound(Log), "accepted")
  /\ UNCHANGED <<Apart, vrow, vstatement, vleft, history>>

-----------------------------------------------------------------------------
(* Others *)

\* A file is changed, removed, or restored to an earlier content; a task file is
\* edited; the harness is edited, its changes staged, or committed; a column is
\* set.
Disturb ==
  /\ changes < Changes /\ changes' = changes + 1 /\ Quietly
  /\ \/ \E f \in Files : \E c \in {Absent, Foreign} \cup (IF f = Results THEN 1 .. saves ELSE {1}) :
          c # dir[f] /\ dir' = [dir EXCEPT ![f] = c] /\ UNCHANGED <<columns, task, git>>
     \/ \E part \in {"manifest", "rest"} :
          task' = [task EXCEPT ![part] = 3 - @] /\ UNCHANGED <<dir, columns, git>>
     \/ /\ \/ git' = [git EXCEPT !.files = 3 - @]
           \/ git' = [git EXCEPT !.index = git.files]
           \/ git' = [git EXCEPT !.head = git.index]
        /\ UNCHANGED <<dir, columns, task>>
     \/ columns' = Foreign /\ row # Absent /\ UNCHANGED <<dir, task, git>>
  /\ UNCHANGED <<row, statement, sidecar, record, inspection, process, reader>>

Write == \/ CaptureGit \/ Contain \/ Save \/ List \/ Hash \/ WriteStatement \/ WriteSidecar
         \/ AttestFails \/ Correct \/ Again \/ Stop
Verify == \/ Load \/ ReadStatement \/ ReadSidecar \/ VerifySubject \/ ScanArtifacts
          \/ VerifyTask \/ ReadTree \/ VerifyHarness \/ ReadResults \/ ReadLog

Next == Inspect \/ Write \/ Verify \/ Disturb
Spec == Init /\ [][Next]_vars

-----------------------------------------------------------------------------
(* Properties *)

\* Variables keep their types.
TypeOK ==
  /\ dir \in [Files -> Absent .. Foreign] /\ row \in Absent .. MaxSaves /\ columns \in Absent .. Foreign
  /\ task \in [manifest : 1 .. 2, rest : 1 .. 2]
  /\ git \in [head : 1 .. 2, index : 1 .. 2, files : 1 .. 2]
  /\ changes \in 0 .. Changes /\ attempt \in 1 .. 2 /\ saves \in 0 .. MaxSaves
  /\ inspection \in {"none", "clean", "hit", "error"}
  /\ flawed \in BOOLEAN /\ errors \subseteq 1 .. saves
  /\ left \subseteq Files /\ vleft \subseteq Files \cup DOMAIN task
  /\ used \in [Judged -> Absent .. Foreign]
  /\ quiet \in BOOLEAN /\ honest \in BOOLEAN

\* Whatever is changed while verify-run is at work: what it has judged in the end
\* is what the statement binds, of the record that the database has.
JudgedAsAttested ==
  vpc = "accepted" =>
    /\ \A f \in Judged : used[f] = vstatement.subjects[f]
    /\ vrow = used[Results] /\ vrow = vstatement.record

\* Only what was attested to its end is accepted, not a mixture that two attempts
\* or a process killed on its way have left, and only without an error of the
\* attestation on record.
AcceptedIsComplete ==
  vpc = "accepted" => vstatement \in completed /\ vrow \notin errors /\ ~flawed

\* A run that has been persisted without an error, and that nobody has touched,
\* verifies, if it is within the limits of the verification and its workspace has
\* no file named as the statement is.
HonestVerifies == vpc = "refused" => ~honest
===============================================================================
