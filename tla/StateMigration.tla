---------------------------- MODULE StateMigration ----------------------------
(***************************************************************************)
(* `agent-eval state migrate' (state.py): a tree of earlier runs is copied *)
(* to the state root, while runs may still be saved in it, several people  *)
(* may migrate at once, and another command may create the root.           *)
(*                                                                         *)
(* An entry of the tree is the database or the directory of a run.  Every  *)
(* change of an entry gives it a new fingerprint; that the file system's   *)
(* time stamps are fine enough for this is an assumption, and so is that   *)
(* it makes changes of directories durable in the order they were made.    *)
(***************************************************************************)
EXTENDS Integers, FiniteSets

CONSTANTS Runs,       \* runs that the source may have
          Db,         \* metrics.db, the other entry of the source
          Migrators,  \* processes that migrate it
          NoOne, Other, \* the state root does not exist; somebody else made it
          MaxSaves    \* bound: saves of a run in the source

ASSUME DbAssumption    == Db \notin Runs
ASSUME RootAssumption  == {NoOne, Other} \cap Migrators = {} /\ NoOne # Other
ASSUME SavesAssumption == MaxSaves \in Nat

VARIABLES tree,    \* the source: results.json and row of every run
          stamp,   \* the fingerprint of every entry; 0 if it has never been there
          saves,   \* how many saves of a run have begun
          saving,  \* where its writer is in save_run
          pc,      \* where each process is in migrate_legacy_state
          seen,    \* fingerprints of its first scan
          todo,    \* entries that the current pass has still to visit
          copy,    \* its temporary tree
          root,    \* whose tree is the state root
          synced,  \* whether a power loss cannot undo that
          moment   \* history: the source when the first scan was over

source == <<tree, stamp, saves, saving>>
vars   == <<source, pc, seen, todo, copy, root, synced, moment>>

Entries == Runs \cup {Db}

NoDir     == 0    \* the run has no directory
NoResults == -1   \* a directory without results.json
Tree  == [file : [Runs -> NoResults .. MaxSaves], rows : [Runs -> 0 .. MaxSaves]]
WithFile(t, r, f) == [file |-> [t.file EXCEPT ![r] = f], rows |-> t.rows]
WithRows(t, rows) == [file |-> t.file, rows |-> rows]
Empty == [file |-> [r \in Runs |-> NoDir], rows |-> [r \in Runs |-> 0]]

Ended == {"idle", "done", "failed"}
Phase == {"scan", "database", "validate", "rescan", "copy", "final", "check",
          "install", "sync"}

\* Variables keep their types: no file or row is from a save that never began.
TypeOK ==
  /\ tree \in Tree
  /\ stamp \in [Entries -> Nat]
  /\ saves \in [Runs -> 0 .. MaxSaves]
  /\ saving \in [Runs -> {"no", "moved", "published"}]
  /\ pc \in [Migrators -> Phase \cup Ended]
  /\ seen \in [Migrators -> [Entries -> Nat]]
  /\ todo \in [Migrators -> SUBSET Entries]
  /\ copy \in [Migrators -> Tree] /\ moment \in [Migrators -> Tree]
  /\ root \in Migrators \cup {NoOne, Other} /\ synced \in BOOLEAN
  /\ \A r \in Runs : tree.rows[r] <= saves[r] /\ tree.file[r] <= saves[r]

Init ==
  /\ tree = Empty
  /\ stamp = [e \in Entries |-> IF e = Db THEN 1 ELSE 0]
  /\ saves = [r \in Runs |-> 0] /\ saving = [r \in Runs |-> "no"]
  /\ pc = [m \in Migrators |-> "idle"]
  /\ seen = [m \in Migrators |-> [e \in Entries |-> 0]]
  /\ todo = [m \in Migrators |-> {}]
  /\ copy = [m \in Migrators |-> Empty] /\ moment = [m \in Migrators |-> Empty]
  /\ root = NoOne /\ synced = TRUE

-----------------------------------------------------------------------------
(* A run is saved in the source: save_run, file by file *)

Touch(e) == stamp' = [stamp EXCEPT ![e] = @ + 1]
Elsewhere == UNCHANGED <<pc, seen, todo, copy, root, synced, moment>>

\* The directory is there, and results.json is not, or under its backup name.
MoveAway(r) ==
  /\ saving[r] = "no" /\ saves[r] < MaxSaves
  /\ saving' = [saving EXCEPT ![r] = "moved"]
  /\ saves' = [saves EXCEPT ![r] = @ + 1]
  /\ tree' = WithFile(tree, r, NoResults) /\ Touch(r)
  /\ Elsewhere

Publish(r) ==
  /\ saving[r] = "moved"
  /\ saving' = [saving EXCEPT ![r] = "published"]
  /\ tree' = WithFile(tree, r, saves[r]) /\ Touch(r)
  /\ UNCHANGED saves /\ Elsewhere

Commit(r) ==
  /\ saving[r] = "published"
  /\ saving' = [saving EXCEPT ![r] = "no"]
  /\ tree' = WithRows(tree, [tree.rows EXCEPT ![r] = saves[r]]) /\ Touch(Db)
  /\ UNCHANGED saves /\ Elsewhere

\* The exception handler puts the old file back, if there was one.
Undo(r) ==
  /\ saving[r] # "no"
  /\ saving' = [saving EXCEPT ![r] = "no"]
  /\ tree' = WithFile(tree, r, IF tree.rows[r] = 0 THEN NoResults ELSE tree.rows[r])
  /\ Touch(r) /\ UNCHANGED saves /\ Elsewhere

\* A writer is killed and leaves everything as it is.
WriterKilled(r) ==
  /\ saving[r] # "no"
  /\ saving' = [saving EXCEPT ![r] = "no"]
  /\ UNCHANGED <<tree, stamp, saves>> /\ Elsewhere

-----------------------------------------------------------------------------
(* migrate_legacy_state *)

Goto(m, l) == pc' = [pc EXCEPT ![m] = l]

\* The end of a migration, with or without its tree as the root.
Leave(m, end) ==
  /\ Goto(m, end)
  /\ seen' = [seen EXCEPT ![m] = [e \in Entries |-> 0]] /\ todo' = [todo EXCEPT ![m] = {}]
  /\ IF root = m THEN UNCHANGED <<copy, moment>>
     ELSE copy' = [copy EXCEPT ![m] = Empty] /\ moment' = [moment EXCEPT ![m] = Empty]

\* Any exception: the temporary tree is removed, if it is still there.
Raise(m) == Leave(m, "failed")

\* Mutant: compares names, not fingerprints.
UnchangedName(m, e) == (seen[m][e] = 0) = (stamp[e] = 0)

Unchanged(m, e) == seen[m][e] = stamp[e]

\* One entry of a pass, in any order.  After the last one comes the `next' phase,
\* with the entries `then' to visit.
Visit(m, e, next, then) ==
  IF todo[m] = {e}
  THEN todo' = [todo EXCEPT ![m] = then] /\ Goto(m, next)
  ELSE todo' = [todo EXCEPT ![m] = @ \ {e}] /\ UNCHANGED pc

Begin(m) ==
  /\ pc[m] = "idle"
  /\ IF root # NoOne THEN Raise(m)
     ELSE /\ Goto(m, "scan") /\ todo' = [todo EXCEPT ![m] = Entries]
          /\ UNCHANGED <<seen, copy, moment>>
  /\ UNCHANGED <<source, root, synced>>

\* _scan_source, the first time.
Scan(m) ==
  /\ pc[m] = "scan"
  /\ \E e \in todo[m] :
       /\ seen' = [seen EXCEPT ![m][e] = stamp[e]]
       /\ Visit(m, e, "database", {})
       /\ moment' = IF todo[m] = {e} THEN [moment EXCEPT ![m] = tree] ELSE moment
  /\ UNCHANGED <<source, copy, root, synced>>

\* _snapshot_run_rows: the rows, of a private copy that proves migratable.  They
\* are kept in `copy' until Copy replaces them.
Database(m) ==
  /\ pc[m] = "database"
  /\ IF ~Unchanged(m, Db) THEN Raise(m)
     ELSE /\ Goto(m, "validate") /\ todo' = [todo EXCEPT ![m] = Runs]
          /\ copy' = [copy EXCEPT ![m] = WithRows(@, tree.rows)]
          /\ UNCHANGED <<seen, moment>>
  /\ UNCHANGED <<source, root, synced>>

\* Mutant: a directory without a row is let through.
AgreesIgnoringOrphans(row, file) == row = 0 \/ file = row

\* Every row has its results.json, every directory its row.
Agrees(row, file) == file = (IF row = 0 THEN NoDir ELSE row)

\* _validate_run_tree.  A file is read only for a row.
Validate(m) ==
  /\ pc[m] = "validate"
  /\ \/ /\ todo[m] = {}
        /\ Goto(m, "rescan") /\ todo' = [todo EXCEPT ![m] = Entries]
        /\ UNCHANGED <<seen, copy, moment>>
     \/ \E r \in todo[m] :
          LET row  == copy[m].rows[r]
              file == IF seen[m][r] = 0 THEN NoDir
                      ELSE IF row = 0 THEN NoResults ELSE tree.file[r]
          IN  IF (row # 0 /\ ~Unchanged(m, r)) \/ ~Agrees(row, file)
              THEN Raise(m)
              ELSE /\ todo' = [todo EXCEPT ![m] = @ \ {r}]
                   /\ UNCHANGED <<pc, seen, copy, moment>>
  /\ UNCHANGED <<source, root, synced>>

\* Mutant: starts again, and compares with the same old scan.
RescanAgain(m) ==
  /\ \/ pc[m] = "rescan" \/ pc[m] = "final"
  /\ \E e \in todo[m] :
       IF ~Unchanged(m, e)
       THEN todo' = [todo EXCEPT ![m] = Entries] /\ UNCHANGED <<pc, seen, copy, moment>>
       ELSE Visit(m, e, IF pc[m] = "rescan" THEN "copy" ELSE "check",
                  IF pc[m] = "rescan" THEN Entries ELSE {})
            /\ UNCHANGED <<seen, copy, moment>>
  /\ UNCHANGED <<source, root, synced>>

\* _scan_source once more, before and after the copy: nothing may be different.
Rescan(m) ==
  /\ \/ pc[m] = "rescan" \/ pc[m] = "final"
  /\ \E e \in todo[m] :
       IF ~Unchanged(m, e) THEN Raise(m)
       ELSE Visit(m, e, IF pc[m] = "rescan" THEN "copy" ELSE "check",
                  IF pc[m] = "rescan" THEN Entries ELSE {})
            /\ UNCHANGED <<seen, copy, moment>>
  /\ UNCHANGED <<source, root, synced>>

\* _copy_file, for the entries that the scan has found.
Copy(m) ==
  /\ pc[m] = "copy"
  /\ \E e \in todo[m] :
       IF seen[m][e] # 0 /\ ~Unchanged(m, e) THEN Raise(m)
       ELSE /\ Visit(m, e, "final", Entries)
            /\ copy' = IF seen[m][e] = 0 THEN copy
                       ELSE IF e = Db THEN [copy EXCEPT ![m] = WithRows(@, tree.rows)]
                       ELSE [copy EXCEPT ![m] = WithFile(@, e, tree.file[e])]
            /\ UNCHANGED <<seen, moment>>
  /\ UNCHANGED <<source, root, synced>>

\* _upgrade_database, and _validated_entries of the temporary tree, which
\* nobody else changes.
Check(m) ==
  /\ pc[m] = "check"
  /\ IF \A r \in Runs : Agrees(copy[m].rows[r], copy[m].file[r])
     THEN Goto(m, "install") /\ UNCHANGED <<seen, todo, copy, moment>>
     ELSE Raise(m)
  /\ UNCHANGED <<source, root, synced>>

\* Mutant: a rename that replaces.
InstallReplacing(m) ==
  /\ pc[m] = "install"
  /\ root' = m /\ synced' = FALSE /\ Goto(m, "sync")
  /\ UNCHANGED <<source, seen, todo, copy, moment>>

\* _install_state: the rename that never replaces.
Install(m) ==
  /\ pc[m] = "install"
  /\ IF root # NoOne THEN Raise(m) /\ UNCHANGED <<root, synced>>
     ELSE /\ root' = m /\ synced' = FALSE /\ Goto(m, "sync")
          /\ UNCHANGED <<seen, todo, copy, moment>>
  /\ UNCHANGED source

\* Mutant: succeeds without the synchronisation.
SyncSkipped(m) ==
  /\ pc[m] = "sync" /\ Leave(m, "done")
  /\ UNCHANGED <<source, root, synced>>

Sync(m) ==
  /\ pc[m] = "sync"
  /\ synced' = TRUE /\ Leave(m, "done")
  /\ UNCHANGED <<source, root>>

\* An error, a signal, or the end of the process, which leaves the temporary
\* directory behind under a name that nothing reads.
Fails(m) ==
  /\ pc[m] \notin Ended /\ Raise(m)
  /\ UNCHANGED <<source, root, synced>>

\* Another command creates the state root.
OtherRoot ==
  /\ root = NoOne /\ root' = Other /\ synced' = TRUE
  /\ UNCHANGED <<source, pc, seen, todo, copy, moment>>

\* Everybody stops; a rename that is not synchronised may not have happened.
PowerLoss ==
  /\ pc' = [m \in Migrators |-> IF pc[m] \in Ended THEN pc[m] ELSE "failed"]
  /\ saving' = [r \in Runs |-> "no"]
  /\ root' \in IF synced THEN {root} ELSE {root, NoOne}
  /\ synced' = TRUE
  /\ seen' = [m \in Migrators |-> [e \in Entries |-> 0]]
  /\ todo' = [m \in Migrators |-> {}]
  /\ copy' = [m \in Migrators |-> IF m = root' THEN copy[m] ELSE Empty]
  /\ moment' = [m \in Migrators |-> IF m = root' THEN moment[m] ELSE Empty]
  /\ UNCHANGED <<tree, stamp, saves>>

Writer(r) == MoveAway(r) \/ Publish(r) \/ Commit(r) \/ Undo(r) \/ WriterKilled(r)
Step(m) ==
  \/ Begin(m) \/ Scan(m) \/ Database(m) \/ Validate(m) \/ Rescan(m) \/ Copy(m)
  \/ Check(m) \/ Install(m) \/ Sync(m)

Next ==
  \/ \E r \in Runs : Writer(r)
  \/ \E m \in Migrators : Step(m) \/ Fails(m)
  \/ OtherRoot \/ PowerLoss

\* A migration that has begun keeps running.
Spec == Init /\ [][Next]_vars /\ \A m \in Migrators : WF_vars(pc[m] # "idle" /\ Step(m))

-----------------------------------------------------------------------------
(* Properties *)

\* What a migration publishes is the source as it was at one moment while it ran,
\* all of it, and with a row for every directory and a results.json for every
\* row, however the source was written to meanwhile.
PublishedWhole ==
  root \in Migrators =>
    /\ copy[root] = moment[root]
    /\ \A r \in Runs : copy[root].file[r] =
                         IF copy[root].rows[r] = 0 THEN NoDir ELSE copy[root].rows[r]

\* A migration that has reported success has published its tree for good.
SuccessDurable == \A m \in Migrators : pc[m] = "done" => root = m

\* Nobody's state root is replaced; only a power loss undoes one, and only one
\* of a migration that has not reported success.
NeverReplaced ==
  [][root # NoOne /\ root' # root => root' = NoOne /\ root \in Migrators /\ pc[root] # "done"]_vars

\* A migration ends, whatever the writers of the source do.
Terminates == \A m \in Migrators : pc[m] \notin Ended ~> pc[m] \in Ended
===============================================================================
