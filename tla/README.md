# agent-eval-k3s in TLA+

A verification project for the Python program under `src/`, an evaluation
harness for AI agents. A *trial* runs a coding agent in a pod of a small k3s
cluster, takes a snapshot of the workspace it leaves, evaluates it with hidden
tests, scanners and an optional model as judge, decides an outcome (`accepted`,
`rejected` or `infra_error`) and saves it in SQLite and `results.json`. A
*governed* trial is admitted by a policy, records a hash-chained audit trail and
is attested, so that `agent-eval verify-run` can check it later.

## 1. The system and its parts

| Part (`src/src/agent_eval/`) | State it keeps | Operations | What is hard | What makes it correct |
|---|---|---|---|---|
| Audit trail, `audit.py` | open file, final hash, event count, closed flag, a lock | `append`, `close`, `verify_audit_chain` | threads on one writer, failing writes, crash between write and fsync, damaged files | acknowledged events survive; a verified trail is exactly the acknowledged one |
| Run store, `metrics.py` | `runs` rows, one `results.json` per run, its backups | `save_run`, `load_run`, schema migration | two stores replaced together, exceptions of any kind, kill, power loss, several processes | row and file agree or can be made to; the record a row names is never lost |
| Trial resources, `kube.py` | Secret, proxy (config map, pod, service, policy), sandbox pod and policy | create, roll back, delete, exec, copy | a call that fails may have taken effect | running agent code is confined; nothing is left behind in silence |
| Trial lifecycle, `runner.py` | the record under construction, resource handles, the snapshot | `run_agent_trial`, `evaluate_workspace`, `_complete_record`, `_persist_run` | every step raises; a finally clause; completing a record twice; failures after the verdict | one verdict that trail, row and attestation agree on, and that is only ever withdrawn |
| Outcome, `outcome.py` | none | `evaluate_outcome` | many gates, in order | infrastructure errors are never scored |
| CLI, `cli.py` | none of its own | `run`, `evaluate`, `verify-run`, `audit verify`, ... | must agree with what the runner writes; stop of the governed trial loop | an honest accepted run verifies |
| Governance, `governance.py` | policy, registries, decision | `evaluate_admission`, `validate_execution_continuity` | decision before, execution after | nothing runs that was not admitted |
| Attestation, `attestation.py` | statement and its digest | `create_attestation`, `verify_attestation` | files change while they are hashed | a verified subject is what was attested |
| Credentials, `credentials.py` | material, redaction patterns | broker, `redact_*`, `contains_stream` | patterns across chunk borders, encodings | no secret in what is kept |
| State root, `state.py`, `paths.py` | the state directory | inspection and migration | crash while publishing, concurrent change of the source | whole old or whole new state |
| Evaluators, `evaluators/`, `assurance.py`, `scanner_runtime/` | none | tests, scanners, judge, challenges | hostile reports | evidence is complete or an error |
| Reviews, `external_review_eval.py`, `review_*.py`, `corpus.py` | trial results | cohort with retries, votes, comparison | retry against a late answer | an error is not a clean review |
| Black box, `blackbox/` | private run results | run, replay, inspect | partial results | scores are complete |
| Rest: `task.py`, `assessments.py`, `agent_comparison.py`, `agents/`, `observability.py`, `report.py`, `cluster.py`, `yaml_utils.py`, `limits.py` | none or external | parsing, derivation, export | - | - |

How they interact: the lifecycle calls everything else. It holds handles for
cluster resources and gives them back in a finally clause; it appends to the
audit trail through `_audit_event`, whose failure turns into an infrastructure
error of the record and stops the recording; it computes the outcome, seals the
trail's final hash and event count into the record, saves it, and attests the
files of the run. `verify-run` later reads only what is on disk. Outside the
repository stand the Kubernetes API server, SQLite, the file system and the
host; they are modelled from how the code uses them.

## 2. The modules

| Module | Models |
|---|---|
| `AppendLog` | abstract: a log that only grows and stops for good |
| `AuditChain` | `audit.py`: writer, file and verifier |
| `AuditChainProofs` | theorems about `AuditChain` |
| `RunStore` | `metrics.py`: `save_run` by several processes |
| `RunStoreProofs` | theorems about `RunStore` |
| `SchemaMigration` | `metrics.py`: `_connect` and its schema migrations by several processes |
| `SchemaMigrationProofs` | theorems about `SchemaMigration` |
| `StateMigration` | `state.py`: `migrate_legacy_state`, against writers of the source |
| `StateMigrationProofs` | theorems about `StateMigration` |
| `Retries` | the number of attempts at a deletion, shared by `TrialCluster` and `EvalPhase` |
| `TrialResources` | abstract: what a trial promises about resources it holds |
| `TrialCluster` | `kube.py`: the objects of one trial, call by call |
| `TrialLifecycle` | `runner.py`, `outcome.py`, and `verify-run` of `cli.py` as a predicate |
| `TrialLifecycleProofs` | theorems about `TrialLifecycle` |
| `EvalPhase` | `runner.py`, `kube.py`, `evaluators/tests.py`: `run_eval_phase`, its pods, link and results |
| `Governance` | `governance.py`: admission, continuity, evidence and replay, as operators |
| `GovernedRun` | `cli.py`, `runner.py`: a governed `run`, from its options to its last trial |
| `GovernedRunProofs` | theorems about `GovernedRun` |
| `Redaction` | `credentials.py`: JSON escapes, redaction, inspection of a stream |
| `Attestation` | `attestation.py`, `runner.py`, `cli.py`: persistence, statement and verification |
| `MCTrialPods` | composes `TrialCluster` and `EvalPhase`, one after the other |
| `TrialPodsProofs` | theorems about `TrialCluster`, and about `EvalPhase` behind it in `MCTrialPods` |
| `MCEvidence` | composes `Redaction` and `Attestation`: what is found decides what is persisted |
| `EvidenceProofs` | theorems about `Redaction`, `Attestation`, and `MCEvidence` |
| `MCAuditChain`, `MCTrialLifecycle`, `MCGoverned` | instances for TLC |

`AuditChain` and `TrialLifecycle` both implement `AppendLog`: the first shows
that the file with its faults is such a log, the second uses the trail as one.
In the same way `TrialCluster`, `EvalPhase` and `TrialLifecycle` implement
`TrialResources`: the first two at the level of single Kubernetes objects, of the
agent's phase and of the evaluation, the last at the level of the handles the
trial has.

### AuditChain
`file`, `finalHash`, `count`, `writer` and `lock` are the fields of `AuditChain`.
Each caller is at `idle`, `entered` (inside the lock) or `written` (after flush,
before fsync returns), so every exception of `append` has its own action:
`Refuse`, `WriteFails`, `SyncFails`. `Crash` leaves the last line torn, whole or
absent. `Damage` is one change to the finished file: a lost tail or line, a line
replaced, altered, or rewritten with a matching digest. The verifier
works on a snapshot line by line (`VerifyLine`, `RejectLine`, `VerifyEnd`). A
digest is represented by what it covers; this is the assumption that SHA-256 has
no collisions. Run and trace identifiers are one field. Malformed JSON is one
kind of a line that is not `whole`.

### RunStore
One process per run takes `save_run` step by step. `dir` is the run's directory
as everybody sees it, `possible` the set of directories that a power loss may
leave; `_fsync_directory` makes it a singleton. The old file goes in three steps, as
in the code: `Reserve` (`backup` names an empty file), `Clear` (that file is
unlinked), `MoveAway` (the rename); the new one comes in two, `Replace` and `Publish`
(`published = True`). `Raise` is any exception before
the commit, `Restore`, `RestoreFails` and `Reraise` the handler, `Interrupt` the
exception between COMMIT and `committed = True`. `mishaps` is history: what has gone
wrong, since the last commit, that no handler puts right. A record's content is the
number of its save, `Blank` is an empty file. File data is synchronised before its rename in the code, so
content itself is never lost.

### SchemaMigration
Each process takes `_apply_schema_migrations` statement by statement. `db` is the
committed database, `work` what the holder of the write lock sees. The sqlite3
module opens a transaction only before an INSERT, UPDATE or DELETE, so the first
`Insert` of a process is where its transaction begins, and every DDL statement
before that commits by itself (`Do`). A statement that SQLite cannot carry out, an
index or a DELETE on a table that is not there among them, raises (`Statement`), and
`Leave` is the rollback. `Stop` ends a process anywhere.
The three columns a legacy table may lack are one step, a table is its layout, its
indexes, and whether its rows are those of the records. Waiting for the lock longer
than the busy timeout is a `Stop`. `start`, `alone` and `disturbed` are history.

### StateMigration
`tree` and `stamp` are the source, written to by `save_run` (`MoveAway`, `Publish`,
`Commit`, `Undo`, or killed); the entry of a run stands for its whole directory.
Each migration goes through its passes entry by entry: `Scan`, `Database`,
`Validate`, `Rescan`, `Copy`, `Rescan` again, `Check`, `Install`, `Sync`. The passes
visit entries in any order, which includes that of the code. What a migration has
seen and copied is forgotten when it ends, for nothing reads it any more. `moment`
is history. Two assumptions on the file system: a changed entry has a new
fingerprint, and changes of directories become durable in the order they were made
(the code synchronises the parent of the root, not the directories inside).

### TrialCluster
`pc` names the next kubectl call. A call that fails may or may not have taken
effect (`ApplyFails`, `RemoveFails`). `held` are the handles in the trial's local
variables, `left` the resources `_delete_with_retries` has given up,
`snapshot` is `snapshot_available`. Optional resources are choices: the Secret and the
proxy. A KeyboardInterrupt in this phase is left to `TrialLifecycle`.

### EvalPhase
`mode` is cooperative (one pod) or isolated (two pods and a link of two policies).
`pc` names the next call, `After` is the order of the calls of the isolated
evaluation and `Then` leaves out those a cooperative one does not have. What a call
that fails has done is open, as in `TrialCluster`. The submission is an
adversary: `PodFails("submission")` after `Start`, and `Timeout`, need no fault of
anybody else. `fault` is history and says that cluster, host or evaluator have
failed; an output over its limit, a report that is missing, and an error of the
host's disk count among these. `ParseJunit` and `ParseCoverage` tell how each kind
of a bad file decides: a malformed report is an infrastructure error, malformed
coverage an integrity error, and only coverage may be missing. An exception that
nothing handles (`Interrupt`) runs the finally clause, but undoes no half-made pod;
at `check` it stands for `ensure_image` as well, which comes before. `sick` and `started`
are forgotten in the cleanup (`Settle`), where nothing reads them.

### Governance and GovernedRun
Documents are records of the fields the rules look at, glob patterns are sets of
what they match, digests are what they cover. `Denials` is the set of reasons of
`evaluate_admission`, one operator per group of rules; `EvaluateAdmission` is the
decision, `Continues` is `validate_execution_continuity`, `Replays` evaluates a
decision anew on what is observed now. In `GovernedRun`, `pc` walks through `run`:
`Load`, `Preflight`, `Validate`, `Snapshot`, `Decide`, `EnsureImage`, then per trial
`Validate`, `Snapshot`, `Evidence`, `EnsureImage`, `StartPod`, `RuntimeDigest`,
`Agent`, `Finish`, and, where scanners are due, `Scan` and `Rehash`: `run_scanners`
hashes them, lets them scan, and hashes them again. `Disturb` changes the task's directory, the scanners, or the
images of host and node between any two of these; a tree read while it is written
is found as no version (`Torn`). What the node says of an image may be unreadable
(`NodeManifest`); the identity of a running pod is that of its image only as long
as the reference stands for the same (`ManifestDigest`). `Verified` is the part of
`verify-run` that replays the admission from saved documents.

### Redaction
A byte is a letter and a hexadecimal number has one digit, so an escape has three
bytes and a surrogate pair six instead of twelve; nothing in the code depends on
the four. A backslash is escaped by itself; the newline stands for the other letters
with an escape of their own, quotes included. `Decode` decodes one layer, whole or as far as it cannot change with the
next bytes; `Through` is one layer of the inspection with its matcher and decoder,
`Feed` a chunk through all of them, `Finished` the end. `ReadChunk` takes chunks of
any size. `ContainsBytes` is the reference: the buffer decoded as a whole, always up
to the bound, where the code may stop early (`UnchangedEndsDecoding` shows that this is
the same). `Grow` is somebody who appends to the file meanwhile. `Limits` are the two
callers: the artifacts of a run, and the diff before it goes to the judge. The loops
over bytes and over layers are recursive functions (`Decoding`, `Decodings`,
`Redacting`, `Feeding`, `Flushing`), named so that a proof can speak of them.

### Attestation
Contents are numbers. `dir`, `row` and `columns` are the run's directory, its row,
and what queries see of it; `statement` and `sidecar` the two files of the
attestation, which `write_attestation` replaces one after the other. The writer
captures git (three commands, `CaptureGit`), inspects and contains the artifacts,
saves, lists and hashes the files one by one, and writes the two files; an exception
out of it leads to `evaluation.failed`, where all of it happens once more (`Again`);
`Stop` ends it anywhere. The reader is `verify-run`: `Load`, statement, digest,
subjects one by one, unattested files, task, tree, harness command by command, and
then the files it judges, read anew and compared again (`Bound`). What only the verification
limits are constants: `MaxSubjects` (10,000), `Long` (sets of files whose statement has
more than 16 MiB), `Unscannable` (those whose directories have more than 50,000
entries, are too deep, or have a name that is refused), and `Heavy` (what is judged and has
more than 16 MiB); the snapshot of a workspace may have 50,000 members and 512 MiB, and
nothing stops it from being attested. `_persist_run` examines the artifacts and the record
once more and may save nothing (`Save`), and an exception of the redaction drops the
artifacts (`Raise`). `Disturb` is
everybody else. `honest` is history: the writer has returned, and nothing has
changed since the save. `MCEvidence` extends both modules and lets `Redaction` find the
verdict of the first inspection, which `HandOver` passes on.

### TrialLifecycle
One trial. The `infra_error` text is the set of kinds of error it names, the
numbers of tests and measurements are bits, gates are one bit. `raising` means
that an exception is passing through the finally clause; `guarded` means that
`evaluate_workspace` was called inside the governed handler, so that any
exception, one out of `_complete_record` included, goes to `EvaluationFailed`.
`Throw` is the place where an exception arrives. A KeyboardInterrupt is not an
`Exception`, so even a guarded trial may end in `raised`, and inside the finally
clause it skips the deletions that are left (`InterruptCleanup`, ending in
`interrupted`). `Verifies` is the part
of `verify-run` that an accepted record has to pass.

## 3. The runs

| Run | Instance | Question |
|---|---|---|
| `audit_chain` | 2 callers, 2 runs, 1 fit and 1 unfit payload, at most 3 events | Do acknowledged events survive, and does verification accept just them? |
| `run_store` | 2 runs, 2 saves of each | Do row and file stay together whatever fails? |
| `run_store_interrupt` | the same | Violation: the committed row and the file disagree (see findings). |
| `schema_migration` | 2 processes, 5 earlier databases | Does the ledger tell the truth, are records kept, does the database stay usable? |
| `schema_race` | 2 processes, version 2 | Violation: a migrated table is replaced by an empty one (see findings). |
| `schema_stopped` | the same | Violation: a stopped rebuild is refused for good. |
| `state_migration` | 2 migrations, 1 run saved twice | Is what is published one moment of the source, for good, and over nobody's root? |
| `trial_cluster` | both phases, both modes, 3 attempts at a deletion, as in the code | Confinement, honest rollback, no silent leak, no result a submission can avoid, an end. |
| `governed_run` | 3 versions of a task, 5 policies and registries, 4 requests, 6 command lines, 3 changes | Does every agent run what was admitted, with spending stopped, and can it be verified later? |
| `evidence` | texts of up to 4 tokens, 2 decodings, 5 files, 3 subjects, 2 changes, 3 saves | Does the inspection find what is there, and does verification accept just what was attested? |
| `trial_lifecycle` | 4 kinds of trial | Do verdict, trail, row, attestation and resources agree? |
| `unsafe_is_rejected` | a governed trial without graders | Violation: an unsafe submission becomes an infrastructure error. |

Properties, by module:

* `AuditChain`: `AckedSurvives` (what `append` returned stays in the file, in
  order, with at most one remainder behind it), `VerifiedIsAcked` (whatever the
  damage), `HonestTrailVerifies` (an intact trail is not refused), `LockReleased`,
  `RefinesAppendLog`.
* `RunStore`: `RecordSurvives` (also after power loss), `FileMatchesRow` (between
  saves), `RowFollowsFile` (commit only after the file is durable), `LockFreed`.
* `SchemaMigration`: `LedgerTruthful` (a complete ledger is that of a current
  database with its rows), `RunsKept`, `SupportedStays` (no stop makes the next
  process refuse), `LockFreed`.
* `StateMigration`: `PublishedWhole`, `SuccessDurable` (also after power loss),
  `NeverReplaced`, `Terminates`.
* `TrialCluster`: `Confined`, `RollbackConfirmed`, `LeakReported`,
  `TrialResourcesPromise`; with `EvalPhase` `TrialEnds`.
* `EvalPhase`: `EvalConfined` (no pod without its policy, submitted code only behind
  the link), `NotManufactured` (an isolated submission cannot turn its own failure
  into an infrastructure error), `EvalResourcesPromise`.
* `GovernedRun`: `AdmittedOnly` (what an agent is given is approved and of one
  version), `UsageStops` (missing or excessive usage is the last of the run),
  `VerifiesLater` (the admission of every trial can be replayed from what is saved),
  `AcceptedAsAdmitted` (the scanners of an accepted trial are those of the policy, or were while they
  were hashed before and after).
* `Redaction`: `StreamIsExact` (chunks do not matter, and a file that outgrows its
  limit is never clean).
* `Attestation`: `JudgedAsAttested` (what an accepting `verify-run` has read is what
  the statement covers), `AcceptedIsComplete` (it accepts only what a completed
  creation has written), `HonestVerifies` (what nobody has changed verifies, if it is
  within the limits of the verification and has no namesake of the statement).
* `TrialLifecycle`: `LeakReported` (a leak is never scored), `VerdictOnTrail` (a
  saved result is the one the complete trail ends with), `AcceptedVerifies`
  (runner and `verify-run` agree), `NeverUpgraded` (a saved result is only ever
  withdrawn), `TrailIsLog`, `TrialResourcesPromise`, `Terminates`.

Bounds. Three events are the least with a first, an inner and a last line, which
is what the verifier and the damage tell apart; the identity of a caller matters
only against another one, so two are enough. Two saves are the least in which an
old record is replaced; two runs share only the write lock. Two processes show
every race of a schema migration, as each statement of one meets each of the
other's. A run and the database are the two entries whose disagreement matters in a
state migration; a run that appears, one that is replaced and one that is undone
all occur in two saves. More runs and migrations are the theorems' part. The lifecycle
has no counter but the trail, whose length the protocol bounds. Its four plans
differ in what the properties see: governed or not, credentials (which bring
the redactor with its failures), scanners, judge, and whether the policy requires
resolved tests. The
cluster resources are varied in `TrialCluster`. Four tokens hold a secret with one
escape in it and a neighbour, or one nested escape or pair; all of them occur, whole
and cut at every byte, and two decodings are the least with a layer that is neither
first nor last. `Most` is 6 bytes, so that texts fall below and above it. Two changes
by others are the least that change something and restore it, three (in
`governed_run`) the least that do so and change something else. Three saves are what
two attempts can make, a corrective one included. Besides results and log a run may
have two files of its workspace, alone or together, or a namesake: each limit of the
verification refuses one of these combinations, and heavy is the record of a second save.
As files of a workspace are alike to others, these change one of them (`MCSpec`); the
theorems have no such restriction. Two trials have a next one to be
stopped, three exceed the policy. The two phases of a trial, and inspection and
attestation, are composed in their order, for they share nothing but what the first
hands on: `snapshot`, whether there is a workspace to evaluate, which neither an
infrastructure error of the agent nor a failed cleanup rules out (`Evaluated`).

The type invariants of all modules are theorems and so not repeated in runs.

Deadlock is not checked: every model may stop. A writer is closed, a process
killed, a trial over.

Fairness. `AuditChain`, `RunStore`, `SchemaMigration` and `StateMigration`: a thread
inside `append`, a process inside `save_run`, `_connect` or `migrate_legacy_state` and a started verifier keep running; nobody has to call them. The only blocking
step of `save_run` and `_connect` is the busy timeout of SQLite, which ends. `TrialCluster`, `EvalPhase` and
`TrialLifecycle`: weak fairness of the whole next-state relation (of `EvalPhase`, but
for interrupts and failing pods), since every kubectl and subprocess call in them
carries a timeout. `GovernedRun`, `Redaction` and `Attestation` have no liveness
property and state no fairness. None assumes that a
retried call succeeds eventually.

## 4. Findings

* `run_store_interrupt`. `save_run` learns of its commit by the statement after
  it (`metrics.py:1116-1117`). An exception delivered between the two, as
  KeyboardInterrupt is, makes the handler restore the old `results.json` while
  the new row is committed. `metrics.py:1127` relies on the two agreeing.
* `schema_race`. The rebuild of a version 2 database (`metrics.py:636-650`) runs
  before any INSERT, so each of its statements commits by itself. A process that has
  passed the exactness check waits at its first DROP INDEX while another completes
  the migration; then it drops the migrated table, creates an empty one and fails
  with an IntegrityError. The ledger lists version 3, so nobody rebuilds the rows.
  `metrics.py:791` says every supported migration does.
* `schema_stopped`. A process stopped inside the same rebuild leaves its statements
  committed; the exactness check refuses the rest at every later start, so the
  database stays closed, although `metrics.py:434-435` calls version 2 a supported
  predecessor. Both exempt version 2 under disturbance from the passing run.
* Further exceptions of `run_store`, kept as named `mishaps` and exempt from its
  properties. An exception while `backup` names the empty file of `mkstemp` (`unlink`
  fails at `metrics.py:1111`, or a signal arrives before it) makes the handler put that
  empty file over the committed `results.json` (`metrics.py:1133-1134`): `emptied`. A
  signal between the rename of a first `results.json` and `published = True`
  (`metrics.py:1113-1114`) leaves a file without a row: `unnoted`. With `interrupted`
  (above) and `unrestored` (the handler itself fails) these are all the model finds.
* Restored scanners, the limit of `AcceptedAsAdmitted`. `run_scanners` hashes the
  executables and their environment before and after it runs them
  (`evaluators/scanners.py:1600-1657`). One replacement in between is noticed, at
  whatever moment; others put in and taken out again between the hashes scan unnoticed.
  The history `restored` names the trials in which that may have been.
* Interrupted cleanup, the limit of `TrialResourcesPromise`. `_delete_with_retries`
  catches `Exception` only (`runner.py:1785`), and so does the saving of the proxy's
  log; a KeyboardInterrupt in the finally clause (`runner.py:3414-3478`) skips the
  deletions behind it and leaves no record that says so. The trial never gets past
  "deleting"; nothing is scored, so `LeakReported` stands.
* `unsafe_is_rejected`. When the workspace archive of a governed agent is unsafe
  or has credentials in it, the trial writes a `TestResults` with the default mode
  (`runner.py:3480-3487`), and `_complete_record` takes the mode for missing
  evidence (`runner.py:1158`). The outcome is `infra_error`;
  `evaluators/tests.py:123-124` calls such a submission "a rejected result, not an
  infrastructure outage".

## 5. Proofs

Each proof module has its inductive invariant, one lemma per action that keeps
it, and theorems that draw the properties from it. The assumptions are those
named in the modules of the system; the runs evaluate them.

`AuditChainProofs`, for any callers, runs, payloads and number of events:
`TypeCorrect`, `AckedSurvivesAlways`, `VerifiedIsAckedAlways`,
`HonestTrailVerifiesAlways` and `Refinement`.
`AckedSurvives` is not inductive: it does not say why the next event lands right
behind the acknowledged ones, or what a failed append leaves. The invariant
adds: only the holder of the lock is inside `append`; an open writer's file is
exactly the acknowledged lines, plus the line in flight when its caller is at
`written`; the counter is their number and the final hash the digest of the last
of them. `Chain(h)` is the one sequence of lines whose last digest is `h`; the
writer keeps `acked = Chain(finalHash)`, the verifier `seen = Chain(vhash)`. So
`VerifiedIsAcked` follows: when the two digests agree, so do the sequences. For
`HonestTrailVerifies` it takes two facts more (`HonestInv`): the bodies below the
final hash are numbered from zero, and the verifier's digest on an undamaged
trail is a prefix of the writer's, so the next acknowledged line passes every
check of `LineOk`. The refinement maps the log to the first `count` lines of the
file, and after damage to the history of acknowledged events.

`RunStoreProofs`, for any runs and number of saves: `TypeCorrect`,
`RecordSurvivesAlways`, `FileMatchesRowAlways`, `RowFollowsFileAlways`.
The three properties speak of a directory and a row, but whether a step keeps
them depends on `save_run`'s local variables: the handler acts on `backup` and
`published` alone. The invariant (`Sound`, run by run) therefore says at each
label what they mean: before the old file is moved there is no backup, but for the
empty file of the reservation; while there is one, `results.json` is absent or the
new record; the new record's number
is above the row's until the commit (`Fresh`), so undoing it never removes the
row's record; every directory a power loss may leave holds the row's record, and
after the synchronisation there is only one (`Durable`); and the backup is the
row's record, until one of the four `mishaps` (`Matches`); for the record to be kept
two of them matter (`Kept`).

`TrialPodsProofs`, for any number of attempts. Of the agent's phase: `TypeCorrect`,
`ConfinedAlways`, `RollbackConfirmedAlways`, `LeakReportedAlways`, `Refinement`.
The invariant says which objects can exist at each call. `Handles`: handles come
in the order of creation, and a proxy that is being undone has none. `Creation`:
what exists while resources are made is known by a handle, but for the resource
in work. `Policies`: pods and the policies they are for. `ProxyDeleted`: with no
failure noted, the calls of `EgressProxy.delete` so far have removed what they are for.
`Deletion`: what the cleanup has passed is gone or in `left`, and what is left, or
known by no handle, is an error. The refinement maps every call to creating,
attempting, deleting or moving on with a whole resource.

In the same module, of the trial with its evaluation:
`EvalTypeCorrect`, `TrialConfined`, `EvalConfinedAlways`, `NotManufacturedAlways`,
`TrialRefinement`, `EvalRefinement`. The evaluation shares no object with the agent's
phase, and may begin while things of that phase are left, so the invariant above is
carried over as it is. The one of
the evaluation (`EInv`) has the same parts: `EvalHandles` (the order of the handles,
and that a cooperative evaluation has none but the evaluator's), `EvalCreation` (both
policies of the link are there before submitted code is started, and as long as it
runs), `EvalPolicies` and `EvalDeletion`. `NotManufactured` needs the history of what went
wrong: by `Excused` the evaluator is sick, and an isolated evaluation an
infrastructure error or without a result, only after a fault outside the submission.

`SchemaMigrationProofs`, for any set of processes: `TypeCorrect`,
`LedgerTruthfulAlways`, `RunsKeptAlways`, `SupportedStaysAlways`. Whether a committed
ledger is true is decided by what the process that writes it found at each of its
some twenty statements. `Place` says what the database looks like at a statement, and
`Undisturbed` that a process left to itself does find it so. One that has company may
find anything; of it only `Locks` speaks: it holds the lock from its first INSERT on,
its ledger is then ahead of the committed one, and before its last statement it has
rebuilt the rows, so that the exactness check that comes next makes its commit true.
`Situation` puts together what a statement can rely on in either case. `Layouts`: only
a version 2 database is rebuilt, for which the properties make their exception.
`Committed`: what any stop can leave is `Sound`, and a version 2 database is what its
release made of it until somebody begins to rebuild it. `Company` ties the two histories
to the processes.

`StateMigrationProofs`, for any runs, saves and migrations: `TypeCorrect`,
`PublishedWholeAlways`, `SuccessDurableAlways`, `NeverReplacedAlways`. The argument is a double
collect. Fingerprints only grow, so one that is still that of the first scan was
so when that scan was over (`Scanned`); an entry copied under it is therefore the
entry of that moment (`Copied`), and one that is still absent in the second scan was
absent then (`Absent`). `Rooted` carries both over to the root, and with `RootInv`
says when a power loss can undo it.

`TrialLifecycleProofs`, for any set of trials: `TypeCorrect`, `LeakReportedAlways`,
`VerdictOnTrailAlways`, `NeverUpgradedAlways`, `AcceptedVerifiesAlways`,
`ResourcesRefinement` (a trial that is over, be it by an exception, has given back or
noticed; one whose cleanup is interrupted is not over), `TrailRefinement`. The properties speak of the saved record;
what decides them happens at some twenty places before. `Leaks`: what exists has a
handle, or its failed creation is on record; what the cleanup has passed is gone or
in `cleanupErrors`. `Blamed`: a trail or attestation that failed is an error of the record.
`Settled`: the outcome is the verdict of the record as it stands, unless the trail has
just failed (the window between `RunCompleted` and `Seal`); in the end record, saved
record and attested record are one. `Withdrawn`: a record that is completed again
has lost its result, which makes every later save of it a downgrade. `Recorded`: the
closed trail ends with the outcome. `Evidenced`: what the check of the evidence found.
`Path`: an undisturbed trial has, at every place, exactly the expected events so far.
`AcceptedVerifies` follows from `Path` at the end: the trail is the eleven expected
events, each type occurs once (`OnceOnPath`), so every count, position and order that
`verify-run` asks for is known (`PlacesOnPath`), and the record agrees with them.

`GovernedRunProofs`, for any requests, policies, registries, options, settings and
usages, and any number of changes by others: `TypeCorrect`, `AdmittedOnlyAlways`, `UsageStopsAlways`,
`VerifiesLaterAlways`, `AcceptedAsAdmittedAlways`. The invariant says what a decision on
record is: `EvaluateAdmission` of something that was observed (`Preflighted`,
`Executed`), the second one continuing the first; `Decided` says when they were taken and
that the snapshot is of the tree decided about; `Moderate` that the usage of every
earlier trial passed the limits, which are the lowest of the thresholds
(`LowestThreshold`); `Scanned` that the scanners which looked at an accepted trial are those of
the decision: they were so at both hashes, so that they were replaced in between never
or more than once. `VerifiesLater` needs that what is observed, scanners apart,
depends on settings and options alone (`ObservedKept`), so that the replay from the
documents sees the same.

`EvidenceProofs`, of `Redaction`, for any alphabet, any credentials, any texts and any
number of decodings: `StreamTypesAlways`, `StreamIsExactAlways`, `MemoryIsBoundedAlways`,
`DecodeIsStreaming`, `RetainedIsEnough`, `UnchangedEndsDecoding`. The theorem is about
recursive functions over texts, so it starts with induction. The library's induction
theorems take a predicate; the first section has the same for sets instead, from the
fact that a set of intervals `0 .. n` has a least one (inclusion orders finite sets well).
From that, `Recursion`: a definition that goes to a point of smaller rank, or
stops, has a solution, so the CHOOSE behind each recursive function satisfies its
equation. The argument has three parts. The decoder: decoding the first bytes, and
then what was kept with the rest behind it, is decoding all of it (`DecodeIsStreaming`),
because where nothing is incomplete more bytes change nothing (`AtGrows`). The matcher:
the tail it keeps is one byte shorter than the longest pattern, and so holds all but the
last byte of any that is still to be found (`RetainedIsEnough`). The layers: a chunk goes
through them one after the other, and after layer j those up to j have seen it and those
below have not (`Below`, `Given`, `Reached`); the end does the same for what the
decoders have kept (`Flushed`). The inductive invariant, `Reading`, says that as long as
there is no verdict there is for each layer a text (`Chain`: the bytes read so far, and
what each layer is decoded to) of which its tail and its pending bytes are what a fresh
layer would have kept (`Represents`), and nothing was found in it. A hit stays one in
the whole since decodings of the first bytes are a beginning of those of the whole
(`FoundEarly`). That a decoder has no bytes left at the end, where `finish` would raise an
error, is `RestIsShort`, which also bounds what is kept between chunks.

In the same module, of `Attestation`, for any files, limits and number of changes: `TypeCorrect`,
`JudgedAsAttestedAlways`, `AcceptedIsCompleteAlways`, `HonestVerifiesAlways`. `Complete`: only a
statement brought to its end is in `sidecar`, and one of a record without an error
ends the process; `Read`: what `verify-run` has read so far agrees with the statement
whatever it is by now; `Quiet` and `Honest`: while nothing was changed, each half of the
statement describes what there is, so each check of `verify-run` succeeds where the run
is `Verifiable` (the limits are assumed in no other way, and may be any). Both
invariants hold in the composition, which the run checks: `EvidenceIsExact`,
`EvidenceAttested`.

Assumptions, beyond types of constants. `CasesAssumption`: limits are natural numbers (the
code parses them as such), and a registered execution specification is of one version of
a task, since it is made by hashing a task directory as it was; without the latter a
registry could approve the settings of one version with the files of another.
`UsagesAssumption`: a usage is a natural number or missing. `FilesAssumption`: results and
log are two of the files, and no member of `Files` has the name of the statement or of
its digest, which the model keeps apart; files of that *name* elsewhere are `Namesakes`.
`PlansAssumption`, `ChangesAssumption`, `TextsAssumption`, `BoundsAssumption`: types.
`ValuesAssumption`: there are finitely many credentials, at least one, and none is empty
(`CredentialMaterial` refuses both). `LettersAssumption`: the letters that escapes
are made of, and what they stand for, are letters. `LimitsAssumption`: types of the limits
of the verification.

Checked by TLC only. All liveness (`LockReleased`, `LockFreed`, `TrialEnds`, `Terminates`)
rests on fairness, and ENABLED is beyond the prover. Every invariant and every action
property that a passing run checks is a theorem.

## 6. Not modelled, and the plan

Next, most important first:

1. `ExternalReview`: attempts, retries and cohort summary; `ReviewExperiment`: votes
   and Pareto choice.
2. `BoundedCommand`: limit, deadline and end of a child process, and with it the
   credential broker with its timeout and group kill.
3. `BlackBox`: cases, trials and result storage.

Known limits of what is modelled:

* `_attestable_artifacts` passes over files by name anywhere in the run
  (`runner.py:924`), the verification over the two paths. A workspace that has a file
  named `attestation.json` therefore makes an honest run fail to verify.
  `HonestVerifies` exempts that (`Namesakes`).
* The verification refuses what the creation does not: more than 10,000 subjects
  (`attestation.py:1133`), a statement of more than 16 MiB (`attestation.py:236-269`), a
  directory with too many entries, too deep, or with an empty directory of a refused
  name (`attestation.py:808-867`), and `results.json` or a log of more than 16 MiB
  (`cli.py:1430`). A workspace may have 50,000 members (`kube.py:80`), so an untouched
  honest run can fail to verify. `HonestVerifies` exempts these too (`Verifiable`); each
  of them is reached by the run, which finds a violation if any one is not exempted.
* `capture_git_state` reads the commit before the differences
  (`attestation.py:546-575`), so that a commit in between yields a state that never
  was. The model has it; no property speaks of it, as no document does.
* `verify-run` loads the task before it verifies the task's files (`cli.py:1480`).
  In `GovernedRun!Verified` both are the same version.
* An I/O error of the verifier is not modelled (it refuses); nor are temporary files
  that a killed writer leaves in the run's directory, which make later verification
  refuse as unattested.
* State migration: entries of directories that are renamed are taken for durable in
  order, although only the parent is synchronised (`state.py:775`), and fingerprints
  for new after every change, although two within one tick of the clock and of the
  same size are not (`state.py:72`).
* Building of task images (never part of a governed run) and the no-op and oracle
  runs of `validate_task`.

Left out for good: text formats (YAML, JSON, the elements of a JUnit report,
transcripts, manifests), scanner and model output, statistics, the viewer,
deployment files: data without control, or programs outside this one.
