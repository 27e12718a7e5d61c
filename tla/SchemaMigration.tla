---------------------------- MODULE SchemaMigration ----------------------------
(***************************************************************************)
(* Opening the run database (metrics.py): _connect, which every reader and *)
(* writer goes through, applies the schema migrations that the database's  *)
(* ledger does not list yet.  Several processes may open it at once; each  *)
(* can be stopped at every statement, by a signal, a full disk or a lock   *)
(* that is not free in time.                                               *)
(*                                                                         *)
(* SQLite is external.  The sqlite3 module opens a transaction only before *)
(* an INSERT, UPDATE or DELETE: a CREATE, ALTER or DROP outside of one is  *)
(* a transaction of its own, committed when the statement is over.  The    *)
(* first INSERT takes the write lock, which is kept until the end.         *)
(***************************************************************************)
EXTENDS Integers, FiniteSets

CONSTANTS Procs,     \* processes that open the database
          Starts,    \* what the database can be to begin with
          NoProc     \* the write lock is free

ASSUME NoProcAssumption == NoProc \notin Procs
ASSUME StartsAssumption == Starts \subseteq {"fresh", "legacy", "v1", "v2", "v3"}

VARIABLES db,        \* the committed database
          work,      \* the database as the holder of the write lock sees it
          lock,      \* the process inside a write transaction
          pc,        \* where each process is in _connect
          applied,   \* the ledger it has read
          todo,      \* indexes it has still to drop or to create again
          start,     \* history: the database before anybody opened it
          alone,     \* history: no other process has been opening it meanwhile
          disturbed  \* history: a process was stopped, or two were active

history == <<start, alone, disturbed>>
vars    == <<db, work, lock, pc, applied, todo, history>>

Base    == {"run", "source", "evaluator"}
Indexes == Base \cup {"dataset"}

\* An assessments table: its layout, its indexes, and whether its rows are
\* those of the records in runs.
Table    == [layout : {"none", "v2", "v3"}, idx : SUBSET Indexes, rows : BOOLEAN]
NoTable  == [layout |-> "none", idx |-> {}, rows |-> FALSE]
NewTable == [layout |-> "v3", idx |-> {}, rows |-> FALSE]

\* The ledger lists the versions up to a number.  runs lacks columns (narrow),
\* has them (wide), or is exactly what this release creates; `moved' stands for
\* the table _agent_eval_legacy_runs, `aside' is _agent_eval_v2_assessments.
Database == [ledger : 0 .. 3, runs : {"none", "narrow", "wide", "canonical"},
             moved : BOOLEAN, assessments : Table, aside : Table]

Fresh == [ledger |-> 0, runs |-> "none", moved |-> FALSE,
          assessments |-> NoTable, aside |-> NoTable]
AtStart(s) ==
  CASE s = "fresh"  -> Fresh
    [] s = "legacy" -> [Fresh EXCEPT !.runs = "narrow"]
    [] s = "v1"     -> [Fresh EXCEPT !.ledger = 1, !.runs = "canonical"]
    [] s = "v2"     -> [Fresh EXCEPT !.ledger = 2, !.runs = "canonical",
                          !.assessments = [layout |-> "v2", idx |-> Base, rows |-> FALSE]]
    [] s = "v3"     -> [Fresh EXCEPT !.ledger = 3, !.runs = "canonical",
                          !.assessments = [layout |-> "v3", idx |-> Indexes, rows |-> TRUE]]

Ended  == {"idle", "open", "failed", "refused"}
Labels == {"read", "createRuns", "addColumns", "insert1", "canonicalize", "moveRuns",
           "copyRuns", "createAssessments", "createIndexes", "insert2", "layout",
           "dropIndexes", "rename", "create", "dropOld", "reindex", "datasetIndex",
           "insert3", "project", "validate"}

\* Variables keep their types; an index bears one of the four names, which the
\* exactness check of _validate_current_schema relies on.
TypeOK ==
  /\ db \in Database /\ work \in Database
  /\ lock \in Procs \cup {NoProc}
  /\ pc \in [Procs -> Labels \cup Ended]
  /\ applied \in [Procs -> 0 .. 3]
  /\ todo \in [Procs -> SUBSET Base]
  /\ start \in Starts /\ alone \in [Procs -> BOOLEAN] /\ disturbed \in BOOLEAN

Init ==
  /\ start \in Starts
  /\ db = AtStart(start) /\ work = db /\ lock = NoProc
  /\ pc = [p \in Procs |-> "idle"]
  /\ applied = [p \in Procs |-> 0] /\ todo = [p \in Procs |-> {}]
  /\ alone = [p \in Procs |-> FALSE] /\ disturbed = FALSE

-----------------------------------------------------------------------------
(* Statements and transactions *)

Active(p)  == pc[p] \notin Ended
View(p)    == IF lock = p THEN work ELSE db
Goto(p, l) == pc' = [pc EXCEPT ![p] = l]

\* A statement that changes the database: inside the transaction, or at once.
Do(p, new) ==
  \/ lock = p /\ work' = new /\ UNCHANGED <<db, lock>>
  \/ lock = NoProc /\ db' = new /\ work' = new /\ UNCHANGED lock

\* Mutant: an exception leaves the transaction open.
LeaveOpen(p, end) == Goto(p, end) /\ UNCHANGED <<db, work, lock>>

\* `with conn' rolls back, if there is a transaction, and the connection closes.
Leave(p, end) ==
  /\ Goto(p, end)
  /\ IF lock = p THEN lock' = NoProc /\ work' = db ELSE UNCHANGED <<work, lock>>
  /\ UNCHANGED db

\* A statement that SQLite carries out only if it is `possible'.
Statement(p, possible, new, next) ==
  /\ lock \in {NoProc, p}
  /\ IF possible THEN Do(p, new) /\ Goto(p, next) ELSE Leave(p, "failed")

\* A statement IF NOT EXISTS: it needs no lock when there is nothing to do.
Ensure(p, missing, new, next) ==
  IF missing THEN Do(p, new) /\ Goto(p, next)
  ELSE UNCHANGED <<db, work, lock>> /\ Goto(p, next)

Names(d) == d.assessments.idx \cup d.aside.idx

Rest(p) == UNCHANGED <<applied, todo, history>>

-----------------------------------------------------------------------------
(* _connect and _apply_schema_migrations *)

\* A process opens the database, for the first time or again.
Begin(p) ==
  /\ ~Active(p)
  /\ Goto(p, "read")
  /\ LET others == {q \in Procs : Active(q)}
     IN  /\ alone' = [q \in Procs |-> IF q = p THEN others = {} ELSE alone[q] /\ q \notin others]
         /\ disturbed' = (disturbed \/ others # {})
  /\ UNCHANGED <<db, work, lock, applied, todo, start>>

\* The ledger table and what it lists.
ReadLedger(p) ==
  /\ pc[p] = "read"
  /\ applied' = [applied EXCEPT ![p] = db.ledger]
  /\ Goto(p, CASE db.ledger = 0 -> "createRuns" [] db.ledger = 1 -> "createAssessments"
               [] db.ledger = 2 -> "layout"     [] db.ledger = 3 -> "validate")
  /\ UNCHANGED <<db, work, lock, todo, history>>

\* Version 1.  The columns that a legacy table lacks stand for one.
CreateRuns(p) ==
  /\ pc[p] = "createRuns" /\ Rest(p)
  /\ Ensure(p, View(p).runs = "none", [View(p) EXCEPT !.runs = "canonical"], "addColumns")
AddColumns(p) ==
  /\ pc[p] = "addColumns" /\ Rest(p)
  /\ Ensure(p, View(p).runs = "narrow", [View(p) EXCEPT !.runs = "wide"], "insert1")

\* Mutant: writes the ledger without opening a transaction.
InsertAtOnce(p, v, from, next) ==
  /\ pc[p] = from /\ Rest(p) /\ lock \in {NoProc, p}
  /\ IF View(p).ledger >= v THEN Leave(p, "failed")
     ELSE Do(p, [View(p) EXCEPT !.ledger = v]) /\ Goto(p, next)

\* The INSERT that records a version opens the transaction.  A version that
\* another process has recorded meanwhile is an IntegrityError.
Insert(p, v, from, next) ==
  /\ pc[p] = from /\ Rest(p) /\ lock \in {NoProc, p}
  /\ IF View(p).ledger >= v THEN Leave(p, "failed")
     ELSE /\ lock' = p /\ work' = [View(p) EXCEPT !.ledger = v]
          /\ Goto(p, next) /\ UNCHANGED db

\* _canonicalize_legacy_runs_table
Canonicalize(p) ==
  /\ pc[p] = "canonicalize" /\ Rest(p)
  /\ LET d == View(p) IN
     IF d.runs # "canonical" /\ (d.moved \/ d.assessments # NoTable \/ d.aside # NoTable)
     THEN Leave(p, "refused")
     ELSE /\ Goto(p, IF d.runs = "canonical" THEN "createAssessments" ELSE "moveRuns")
          /\ UNCHANGED <<db, work, lock>>
MoveRuns(p) ==
  /\ pc[p] = "moveRuns" /\ Rest(p)
  /\ Statement(p, ~View(p).moved, [View(p) EXCEPT !.runs = "none", !.moved = TRUE], "copyRuns")
CopyRuns(p) ==
  /\ pc[p] = "copyRuns" /\ Rest(p)
  /\ Statement(p, View(p).moved, [View(p) EXCEPT !.runs = "canonical", !.moved = FALSE],
               "createAssessments")

\* Version 2, with the layout of this release.
CreateAssessments(p) ==
  /\ pc[p] = "createAssessments" /\ Rest(p)
  /\ Ensure(p, View(p).assessments = NoTable,
            [View(p) EXCEPT !.assessments = NewTable], "createIndexes")

\* Mutant: CREATE INDEX only if the table was new.
CreateIndexesOnce(p) ==
  /\ pc[p] = "createIndexes" /\ Rest(p)
  /\ Ensure(p, View(p).assessments.idx = {},
            [View(p) EXCEPT !.assessments.idx = {CHOOSE n \in Base : TRUE}], "insert2")

CreateIndexes(p) ==
  /\ pc[p] = "createIndexes" /\ Rest(p)
  /\ LET missing == {n \in Base : n \notin Names(View(p)) \/ View(p).assessments = NoTable} IN
     \/ missing = {} /\ Goto(p, "insert2") /\ UNCHANGED <<db, work, lock>>
     \/ \E n \in missing :
          Statement(p, View(p).assessments # NoTable,
                    [View(p) EXCEPT !.assessments.idx = @ \cup {n}], "createIndexes")

\* Version 3.  A table without dataset_id is rebuilt if it is exactly the one
\* of version 2.
Layout(p) ==
  /\ pc[p] = "layout"
  /\ LET d     == View(p)
         exact == /\ d.assessments.layout = "v2" /\ d.assessments.idx = Base
                  /\ d.aside = NoTable /\ ~d.moved
     IN  IF d.assessments.layout # "v3" /\ ~exact
         THEN Leave(p, "refused") /\ UNCHANGED todo
         ELSE /\ Goto(p, IF exact THEN "dropIndexes" ELSE "datasetIndex")
              /\ todo' = [todo EXCEPT ![p] = Base]
              /\ UNCHANGED <<db, work, lock>>
  /\ UNCHANGED <<applied, history>>

\* _rebuild_v2_assessments_table, statement by statement.
DropIndexes(p) ==
  /\ pc[p] = "dropIndexes" /\ UNCHANGED <<applied, history>>
  /\ \/ /\ todo[p] = {} /\ todo' = [todo EXCEPT ![p] = Base]
        /\ Goto(p, "rename") /\ UNCHANGED <<db, work, lock>>
     \/ \E n \in todo[p] :
          /\ todo' = [todo EXCEPT ![p] = @ \ {n}]
          /\ Statement(p, n \in Names(View(p)),
                       [View(p) EXCEPT !.assessments.idx = @ \ {n}, !.aside.idx = @ \ {n}],
                       "dropIndexes")
Rename(p) ==
  /\ pc[p] = "rename" /\ Rest(p)
  /\ Statement(p, View(p).assessments # NoTable /\ View(p).aside = NoTable,
               [View(p) EXCEPT !.aside = View(p).assessments, !.assessments = NoTable],
               "create")
Create(p) ==
  /\ pc[p] = "create" /\ Rest(p)
  /\ Ensure(p, View(p).assessments = NoTable,
            [View(p) EXCEPT !.assessments = NewTable], "dropOld")
DropOld(p) ==
  /\ pc[p] = "dropOld" /\ Rest(p)
  /\ Statement(p, View(p).aside # NoTable, [View(p) EXCEPT !.aside = NoTable], "reindex")
Reindex(p) ==
  /\ pc[p] = "reindex" /\ UNCHANGED <<applied, history>>
  /\ \/ /\ todo[p] = {} /\ UNCHANGED todo
        /\ Goto(p, "datasetIndex") /\ UNCHANGED <<db, work, lock>>
     \/ \E n \in todo[p] :
          /\ todo' = [todo EXCEPT ![p] = @ \ {n}]
          /\ Statement(p, n \notin Names(View(p)) /\ View(p).assessments # NoTable,
                       [View(p) EXCEPT !.assessments.idx = @ \cup {n}], "reindex")

DatasetIndex(p) ==
  /\ pc[p] = "datasetIndex" /\ Rest(p)
  /\ IF "dataset" \in Names(View(p)) /\ View(p).assessments # NoTable
     THEN Goto(p, "insert3") /\ UNCHANGED <<db, work, lock>>
     ELSE Statement(p, View(p).assessments # NoTable,
                    [View(p) EXCEPT !.assessments.idx = @ \cup {"dataset"}], "insert3")

\* Mutant: the rows are rebuilt only when the table was created.
ProjectNewOnly(p) ==
  /\ pc[p] = "project" /\ Rest(p)
  /\ Statement(p, View(p).assessments # NoTable,
               [View(p) EXCEPT !.assessments.rows = (applied[p] < 2)], "validate")

\* The rows are rebuilt from the records; without records there is no statement
\* that could miss the table.
Project(p) ==
  /\ pc[p] = "project" /\ Rest(p)
  /\ \/ Statement(p, View(p).assessments # NoTable,
                  [View(p) EXCEPT !.assessments.rows = TRUE], "validate")
     \/ /\ View(p).assessments = NoTable
        /\ Goto(p, "validate") /\ UNCHANGED <<db, work, lock>>

\* _validate_current_schema
Exact(d) ==
  /\ d.ledger = 3 /\ d.runs = "canonical" /\ ~d.moved /\ d.aside = NoTable
  /\ d.assessments.layout = "v3" /\ d.assessments.idx = Indexes

\* The end of the transaction, if there is one.
Validate(p) ==
  /\ pc[p] = "validate" /\ Rest(p)
  /\ IF ~Exact(View(p)) THEN Leave(p, "refused")
     ELSE /\ Goto(p, "open")
          /\ db' = View(p)
          /\ IF lock = p THEN lock' = NoProc /\ UNCHANGED work ELSE UNCHANGED <<work, lock>>

Step(p) ==
  \/ ReadLedger(p) \/ CreateRuns(p) \/ AddColumns(p)
  \/ Insert(p, 1, "insert1", "canonicalize") \/ Canonicalize(p) \/ MoveRuns(p) \/ CopyRuns(p)
  \/ CreateAssessments(p) \/ CreateIndexes(p) \/ Insert(p, 2, "insert2", "layout")
  \/ Layout(p) \/ DropIndexes(p) \/ Rename(p) \/ Create(p) \/ DropOld(p) \/ Reindex(p)
  \/ DatasetIndex(p) \/ Insert(p, 3, "insert3", "project") \/ Project(p) \/ Validate(p)

\* A signal, an error of the disk, an invalid record, or a busy timeout.
Stop(p) ==
  /\ Active(p)
  /\ Leave(p, "failed")
  /\ disturbed' = TRUE /\ UNCHANGED <<applied, todo, start, alone>>

Next == \E p \in Procs : Begin(p) \/ Step(p) \/ Stop(p)

\* A process that has begun keeps running, but may wait for the write lock.
Spec == Init /\ [][Next]_vars /\ \A p \in Procs : WF_vars(Step(p))

-----------------------------------------------------------------------------
(* Properties *)

\* The rebuild of version 2 runs outside of a transaction: these hold for a
\* version 2 database only as long as nobody disturbs the one who rebuilds it.
Exempt == start = "v2" /\ disturbed

\* A ledger that lists everything is the ledger of a current database, with
\* its rows rebuilt: nobody will migrate it again.
LedgerTruthful == ~Exempt /\ db.ledger = 3 => Exact(db) /\ db.assessments.rows

\* Whoever stops where, the records are never without their table.
RunsKept == start # "fresh" => db.runs # "none"

\* A supported database stays one: no stop makes the next process, left to
\* itself, refuse it.
SupportedStays == ~Exempt => \A p \in Procs : pc[p] = "refused" => ~alone[p]

\* Whoever opens the database gives its write lock back, whichever way it ends.
LockFreed == \A p \in Procs : lock = p ~> lock # p

\* "Every supported migration rebuilds scalar and normalized query projections
\* from that envelope" (metrics.py:791), so a ledger that lists all of them is
\* never that of a database whose rows are missing.
ProjectionsRebuilt == db.ledger = 3 => db.assessments.rows

\* Version 2 is a "supported predecessor" (metrics.py:435): the migration, left
\* to itself, does not refuse it, nor what a stopped migration has made of it.
PredecessorSupported == \A p \in Procs : pc[p] = "refused" => ~alone[p]
===============================================================================
