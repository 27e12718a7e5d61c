------------------------- MODULE SchemaMigrationProofs -------------------------
(***************************************************************************)
(* Theorems about SchemaMigration for every set of processes: its types,   *)
(* that a complete ledger is never a lie, that the records are never       *)
(* without their table, and that a supported database is never refused to  *)
(* a process left to itself.                                               *)
(***************************************************************************)
EXTENDS SchemaMigration, TLAPS

\* The statements of the three versions, and those after all of them.
Lead    == {"createRuns", "addColumns", "insert1"}
Legacy  == {"canonicalize", "moveRuns", "copyRuns"}
Second  == {"createAssessments", "createIndexes", "insert2"}
Rebuild == {"dropIndexes", "rename", "create", "dropOld", "reindex"}
Third   == {"layout", "datasetIndex", "insert3"} \cup Rebuild
Last    == {"project", "validate"}

\* Where a process that has read ledger a is before its first INSERT, and after.
Outside(a) == CASE a = 0 -> Lead [] a = 1 -> Second [] a = 2 -> Third [] a = 3 -> {"validate"}
Inside(a)  == CASE a = 0 -> Legacy \cup Second \cup Third \cup Last
                [] a = 1 -> Third \cup Last [] a = 2 -> Last [] a = 3 -> {}

\* A process that has read the ledger.
Under(p) == Active(p) /\ pc[p] # "read"

\* A database of a predecessor other than version 2, at whatever statement.
Current(d) == d.aside = NoTable /\ (d.assessments = NoTable \/ d.assessments.layout = "v3")

\* A committed database, at whatever statement.
Sound(d) ==
  /\ ~d.moved
  /\ d.ledger = 0 => d.assessments = NoTable
  /\ d.ledger >= 1 => d.runs = "canonical"
  /\ d.ledger = 3 => Exact(d) /\ d.assessments.rows

\* Its rows are those of the records, if it has a table for them.
Projected(d) == d.assessments.rows \/ d.assessments = NoTable

\* The database as a process left to itself sees it, which is at statement l,
\* has read ledger a and has the indexes t to do.
Place(l, a, t, d) ==
  /\ l \notin {"create", "dropOld"} => d.aside = NoTable
  /\ d.moved <=> l = "copyRuns"
  /\ l = "addColumns" => d.runs # "none"
  /\ l \in {"insert1", "canonicalize"} => d.runs \in {"wide", "canonical"}
  /\ l \in Legacy => d.assessments = NoTable
  /\ l \in Second \cup Third \cup Last => d.runs = "canonical"
  /\ l \in {"createIndexes", "insert2", "reindex", "datasetIndex", "insert3"} \cup Last =>
       d.assessments.layout = "v3"
  /\ l = "layout" => d.assessments.layout = IF a = 2 THEN "v2" ELSE "v3"
  /\ l \in {"insert2", "datasetIndex", "layout"} => Base \subseteq d.assessments.idx
  /\ l = "layout" /\ a = 2 => d.assessments.idx = Base
  /\ l \in {"insert3"} \cup Last => d.assessments.idx = Indexes
  /\ l = "dropIndexes" => d.assessments.layout = "v2" /\ d.assessments.idx = t
  /\ l = "rename" => d.assessments.layout = "v2" /\ d.assessments.idx = {}
  /\ l = "create" => d.assessments = NoTable
  /\ l = "dropOld" => d.assessments = NewTable
  /\ l \in {"create", "dropOld"} => d.aside # NoTable /\ d.aside.idx = {}
  /\ l \in {"rename", "create", "dropOld"} => t = Base
  /\ l = "reindex" => d.assessments.idx = Base \ t
  /\ l \in Last => d.ledger = 3

-----------------------------------------------------------------------------
(* The inductive invariant *)

\* The write lock is held from the first INSERT on, for a ledger that grows; a
\* transaction at its last statement has rebuilt the rows.
Locks ==
  /\ lock = NoProc => work = db
  /\ \A p \in Procs :
       /\ lock = p => Under(p) /\ db.ledger < work.ledger
       /\ Under(p) /\ lock = p => pc[p] \in Inside(applied[p])
       /\ Under(p) /\ lock # p => pc[p] \in Outside(applied[p])
       /\ Under(p) => applied[p] <= db.ledger
       /\ lock = p /\ pc[p] = "validate" => Projected(work)

\* Only a database of version 2 is ever rebuilt.
Layouts ==
  start # "v2" => /\ Current(db) /\ Current(work)
                  /\ \A p \in Procs : pc[p] \notin Rebuild /\ (Under(p) => applied[p] # 2)

\* A process left to itself is the only one, and undisturbed all are.
Company ==
  /\ \A p, q \in Procs : Active(p) /\ Active(q) /\ alone[p] => p = q
  /\ \A p \in Procs : Active(p) /\ ~disturbed => alone[p]

\* Nobody has begun to rebuild.
Untouched == \A p \in Procs : Active(p) => pc[p] \in {"read", "layout"}

\* The committed database: version 2 is as it was until somebody rebuilds it.
Committed ==
  ~Exempt =>
    /\ Sound(db)
    /\ IF start = "v2" THEN db.ledger >= 2 ELSE db.ledger # 2
    /\ start = "v2" /\ Untouched /\ db.ledger = 2 =>
         db.assessments.layout = "v2" /\ db.assessments.idx = Base /\ db.aside = NoTable

\* A process left to itself finds what its statements have made.
Undisturbed ==
  ~Exempt => \A p \in Procs : Under(p) /\ alone[p] =>
               db.ledger = applied[p] /\ Place(pc[p], applied[p], todo[p], View(p))

IInv == /\ TypeOK /\ Locks /\ Layouts /\ Company /\ Committed /\ Undisturbed
        /\ RunsKept /\ SupportedStays

\* The labels, the versions and the names of indexes are used by their values.
USE DEF Ended, Labels, Lead, Legacy, Second, Rebuild, Third, Last, Base, Indexes

-----------------------------------------------------------------------------
(* Every statement, whatever it does *)

\* What a process sees is a database.
LEMMA ViewType == ASSUME TypeOK, NEW p \in Procs PROVE View(p) \in Database
BY DEF TypeOK, View

\* What is done with the lock: p goes on to l, and sees the database as new.
Shift(p, l, t, new) ==
  /\ pc' = [pc EXCEPT ![p] = l] /\ todo' = [todo EXCEPT ![p] = t]
  /\ lock' = lock /\ UNCHANGED <<applied, history>>
  /\ IF lock = p THEN db' = db /\ work' = new
     ELSE /\ db' = new
          /\ (new = db /\ work' = work) \/ (lock = NoProc /\ work' = new)

\* What a statement owes to the others and to its process.
Proper(p, l, t, new) ==
  /\ Under(p) /\ l \in Labels \ {"read", "layout"}
  /\ l \in IF lock = p THEN Inside(applied[p]) ELSE Outside(applied[p])
  /\ t \subseteq Base /\ new \in Database /\ new.ledger = View(p).ledger
  /\ start # "v2" => Current(new) /\ l \notin Rebuild
  /\ lock = p /\ l = "validate" => Projected(new)
  /\ lock # p => /\ ~Exempt => Sound(new)
                 /\ start # "fresh" => new.runs # "none"
  /\ ~Exempt /\ alone[p] => Place(l, applied[p], t, new)

\* A statement that does what it owes preserves the invariant.
LEMMA ShiftInvariant ==
  ASSUME IInv, NEW p \in Procs, NEW l, NEW t, NEW new, Shift(p, l, t, new), Proper(p, l, t, new)
  PROVE  IInv'
<1> USE DEF IInv, Active
<1>1. TypeOK'
  BY DEF TypeOK, Shift, Proper, history
<1>a. /\ Exempt' = Exempt /\ start' = start /\ alone' = alone /\ disturbed' = disturbed
      /\ lock' = lock /\ applied' = applied
  BY DEF Shift, history, Exempt
<1>b. /\ pc'[p] = l /\ todo'[p] = t /\ Under(p) /\ Under(p)'
      /\ \A q \in Procs : q # p => pc'[q] = pc[q] /\ todo'[q] = todo[q]
  BY DEF TypeOK, Shift, Proper, Under
<1>c. db'.ledger = db.ledger /\ work'.ledger = work.ledger
  BY DEF Shift, Proper, View, Locks
<1>d. \A q \in Procs : (Under(q)' <=> Under(q)) /\ (Active(q)' <=> Active(q))
  BY <1>b DEF Under
<1>e. View(p)' = new
  BY DEF Shift, View
<1>2. Locks'
  <2>1. (lock = NoProc => work = db)'
    BY NoProcAssumption DEF Shift, Locks
  <2>2. ASSUME NEW q \in Procs
        PROVE  (/\ lock = q => Under(q) /\ db.ledger < work.ledger
                /\ Under(q) /\ lock = q => pc[q] \in Inside(applied[q])
                /\ Under(q) /\ lock # q => pc[q] \in Outside(applied[q])
                /\ Under(q) => applied[q] <= db.ledger
                /\ lock = q /\ pc[q] = "validate" => Projected(work))'
    <3>1. CASE q = p
      BY <3>1, <1>a, <1>b, <1>c DEF Locks, Proper, Shift
    <3>2. CASE q # p
      <4>1. lock = q => work' = work
        BY <3>2, NoProcAssumption DEF Shift
      <4> QED BY <3>2, <4>1, <1>a, <1>b, <1>c, <1>d DEF Locks
    <3> QED BY <3>1, <3>2
  <2> QED BY <2>1, <2>2 DEF Locks
<1>3. Layouts'
  <2>1. start # "v2" => Current(db)' /\ Current(work)'
    BY DEF Layouts, Shift, Proper, Current
  <2> QED BY <2>1, <1>a, <1>b, <1>d DEF Layouts, Proper
<1>4. Company'
  BY <1>a, <1>d DEF Company
<1>5. Committed'
  <2>1. ~Exempt => Sound(db)'
    <3>1. CASE lock = p
      BY <3>1 DEF Shift, Committed, Sound, Exact
    <3>2. CASE lock # p
      BY <3>2 DEF Shift, Proper, Sound, Exact
    <3> QED BY <3>1, <3>2
  <2>2. ~Untouched'
    BY <1>b, <1>d DEF Untouched, Proper, Under
  <2> QED BY <2>1, <2>2, <1>a, <1>c DEF Committed
<1>6. Undisturbed'
  <2> SUFFICES ASSUME ~Exempt, NEW q \in Procs, Under(q)', alone[q]
               PROVE  /\ (db.ledger = applied[q])'
                      /\ Place(pc[q], applied[q], todo[q], View(q))'
    BY <1>a DEF Undisturbed
  <2>1. q = p
    BY <1>b, <1>d DEF Company, Under
  <2>2. db.ledger = applied[p]
    BY <2>1, <1>b DEF Undisturbed
  <2>3. Place(l, applied[p], t, new)
    BY <2>1 DEF Proper
  <2> QED BY <2>1, <2>2, <2>3, <1>a, <1>b, <1>c, <1>e
<1>7. RunsKept'
  BY <1>a DEF RunsKept, Shift, Proper
<1>8. SupportedStays'
  BY <1>a, <1>b, <1>d DEF SupportedStays, Proper
<1> QED BY <1>1, <1>2, <1>3, <1>4, <1>5, <1>6, <1>7, <1>8

\* The end of a process that gives up, with its transaction rolled back: what
\* has been left of a rebuild is disturbed, and no supported database refused.
LEMMA LeaveInvariant ==
  ASSUME IInv, NEW p \in Procs, Active(p), NEW e \in {"failed", "refused"}, Leave(p, e),
         UNCHANGED <<applied, start, alone>>, todo' \in [Procs -> SUBSET Base],
         disturbed' \in BOOLEAN, disturbed => disturbed', start = "v2" => disturbed',
         e = "refused" /\ start # "v2" => ~alone[p]
  PROVE  IInv'
<1> USE DEF IInv, Active
<1>1. TypeOK'
  BY DEF TypeOK, Leave, Goto
<1>a. /\ Exempt' = (start = "v2") /\ db' = db /\ applied' = applied /\ start' = start
      /\ alone' = alone /\ (Exempt => start = "v2")
  BY DEF Leave, Exempt
<1>b. /\ pc'[p] = e /\ ~Active(p)' /\ ~Under(p)' /\ lock' # p
      /\ \A q \in Procs : q # p => pc'[q] = pc[q] /\ (Active(q)' <=> Active(q))
                                    /\ (Under(q)' <=> Under(q)) /\ (lock' = q <=> lock = q)
  BY NoProcAssumption DEF TypeOK, Leave, Goto, Under
<1>c. lock # p => work' = work /\ lock' = lock
  BY DEF Leave
<1>2. Locks'
  <2>1. (lock = NoProc => work = db)'
    BY DEF Leave, Locks
  <2>2. ASSUME NEW q \in Procs
        PROVE  (/\ lock = q => Under(q) /\ db.ledger < work.ledger
                /\ Under(q) /\ lock = q => pc[q] \in Inside(applied[q])
                /\ Under(q) /\ lock # q => pc[q] \in Outside(applied[q])
                /\ Under(q) => applied[q] <= db.ledger
                /\ lock = q /\ pc[q] = "validate" => Projected(work))'
    <3>1. CASE q = p
      BY <3>1, <1>b
    <3>2. CASE q # p
      BY <3>2, <1>a, <1>b, <1>c DEF Locks
    <3> QED BY <3>1, <3>2
  <2> QED BY <2>1, <2>2 DEF Locks
<1>3. Layouts'
  <2>1. start # "v2" => Current(db)' /\ Current(work)'
    BY DEF Layouts, Leave, Current
  <2> QED BY <2>1, <1>a, <1>b DEF Layouts
<1>4. Company'
  BY <1>a, <1>b DEF Company
<1>5. Committed'
  BY <1>a DEF Committed, Sound, Exact
<1>6. Undisturbed'
  <2> SUFFICES ASSUME start # "v2", NEW q \in Procs, Under(q)', alone[q] PROVE FALSE
    BY <1>a DEF Undisturbed
  <2> QED BY <1>b DEF Company, Under
<1>7. RunsKept'
  BY <1>a DEF RunsKept
<1>8. SupportedStays'
  BY <1>a, <1>b DEF SupportedStays
<1> QED BY <1>1, <1>2, <1>3, <1>4, <1>5, <1>6, <1>7, <1>8

-----------------------------------------------------------------------------
(* Opening, reading the ledger, recording a version, and the commit *)

\* The invariant holds before anybody opens the database.
LEMMA InitInvariant == Init => IInv
<1> SUFFICES ASSUME Init PROVE IInv
  OBVIOUS
<1> USE StartsAssumption DEF Init, AtStart, Fresh, NoTable
<1>1. TypeOK
  <2>1. db \in Database
    <3>1. db.ledger \in 0 .. 3
      OBVIOUS
    <3>2. db.runs \in {"none", "narrow", "wide", "canonical"} /\ db.moved \in BOOLEAN
      OBVIOUS
    <3>3. db.assessments \in Table
      BY DEF Table
    <3>4. db.aside \in Table
      BY DEF Table
    <3>5. db = [ledger |-> db.ledger, runs |-> db.runs, moved |-> db.moved,
                assessments |-> db.assessments, aside |-> db.aside]
      OBVIOUS
    <3> QED BY <3>1, <3>2, <3>3, <3>4, <3>5 DEF Database
  <2>2. start \in Starts /\ work = db /\ lock = NoProc
    OBVIOUS
  <2>3. pc \in [Procs -> Labels \cup Ended] /\ applied \in [Procs -> 0 .. 3]
    OBVIOUS
  <2>4. todo \in [Procs -> SUBSET Base] /\ alone \in [Procs -> BOOLEAN] /\ disturbed \in BOOLEAN
    OBVIOUS
  <2> QED BY ONLY <2>1, <2>2, <2>3, <2>4 DEF TypeOK
<1>2. \A p \in Procs : ~Active(p) /\ ~Under(p) /\ lock # p
  BY NoProcAssumption DEF Active, Under
<1>3. Locks
  BY <1>2 DEF Locks
<1>4. Layouts
  BY <1>2 DEF Layouts, Current
<1>5. Company
  BY <1>2 DEF Company
<1>6. Committed
  BY DEF Committed, Sound, Exact, Exempt
<1>7. Undisturbed
  BY <1>2 DEF Undisturbed
<1>8. RunsKept /\ SupportedStays
  BY DEF RunsKept, SupportedStays
<1> QED BY <1>1, <1>3, <1>4, <1>5, <1>6, <1>7, <1>8 DEF IInv

\* The invariant survives another process, and one that opens it again.
LEMMA BeginInvariant == ASSUME IInv, NEW p \in Procs, Begin(p) PROVE IInv'
<1> USE DEF IInv, Active
<1> DEFINE others == {q \in Procs : Active(q)}
<1>a. /\ db' = db /\ work' = work /\ lock' = lock /\ applied' = applied /\ todo' = todo
      /\ start' = start /\ disturbed' = (disturbed \/ others # {}) /\ ~Active(p)
      /\ alone' = [q \in Procs |-> IF q = p THEN others = {} ELSE alone[q] /\ q \notin others]
  BY DEF Begin
<1>b. /\ pc'[p] = "read" /\ ~Under(p)' /\ ~Under(p)
      /\ \A q \in Procs : q # p => pc'[q] = pc[q] /\ (Active(q)' <=> Active(q))
                                    /\ (Under(q)' <=> Under(q))
  BY DEF TypeOK, Begin, Goto, Under
<1>c. \A q \in Procs : q # p => (alone'[q] <=> alone[q] /\ ~Active(q))
  BY <1>a
<1>1. TypeOK'
  <2>1. pc' \in [Procs -> Labels \cup Ended]
    BY DEF TypeOK, Begin, Goto
  <2>2. alone' \in [Procs -> BOOLEAN] /\ disturbed' \in BOOLEAN
    BY <1>a DEF TypeOK
  <2> QED BY <1>a, <2>1, <2>2 DEF TypeOK
<1>e. Exempt' => start = "v2"
  BY <1>a DEF Exempt
<1>f. ~Exempt' => ~Exempt
  BY <1>a DEF Exempt
<1>2. Locks'
  BY <1>a, <1>b DEF Locks
<1>3. Layouts'
  BY <1>a, <1>b DEF Layouts, Current
<1>4. Company'
  <2>1. ASSUME NEW q \in Procs, NEW r \in Procs, Active(q)', Active(r)', alone'[q] PROVE q = r
    <3>1. q = p
      BY <2>1, <1>b, <1>c
    <3>2. others = {}
      BY <2>1, <3>1, <1>a
    <3>3. r # p => r \in others
      BY <2>1, <1>b
    <3> QED BY <3>1, <3>2, <3>3
  <2>2. ASSUME NEW q \in Procs, Active(q)', ~disturbed' PROVE alone'[q]
    <3>1. others = {}
      BY <2>2, <1>a
    <3>2. q = p
      BY <2>2, <3>1, <1>b
    <3> QED BY <3>1, <3>2, <1>a
  <2> QED BY <2>1, <2>2 DEF Company
<1>5. Committed'
  <2>1. Untouched' => Untouched
    BY <1>a, <1>b DEF Untouched
  <2> QED BY <2>1, <1>a, <1>f DEF Committed, Sound, Exact
<1>6. Undisturbed'
  BY <1>b, <1>c DEF Undisturbed, Under
<1>7. RunsKept'
  BY <1>a DEF RunsKept
<1>8. SupportedStays'
  BY <1>a, <1>b, <1>c, <1>f DEF SupportedStays
<1> QED BY <1>1, <1>2, <1>3, <1>4, <1>5, <1>6, <1>7, <1>8

\* The invariant survives the reading of the ledger: what a process left to
\* itself has found is the place it goes on from.
LEMMA ReadInvariant == ASSUME IInv, NEW p \in Procs, ReadLedger(p) PROVE IInv'
<1> USE DEF IInv, Active
<1> DEFINE l == CASE db.ledger = 0 -> "createRuns" [] db.ledger = 1 -> "createAssessments"
                  [] db.ledger = 2 -> "layout"     [] db.ledger = 3 -> "validate"
<1>0. db.ledger \in 0 .. 3
  BY DEF TypeOK, Database
<1>a. /\ db' = db /\ work' = work /\ lock' = lock /\ todo' = todo /\ start' = start
      /\ alone' = alone /\ disturbed' = disturbed /\ Exempt' = Exempt
      /\ pc[p] = "read" /\ Active(p) /\ ~Under(p)
  BY DEF ReadLedger, history, Exempt, Under
<1>b. /\ pc'[p] = l /\ applied'[p] = db.ledger /\ lock # p
      /\ \A q \in Procs : q # p => pc'[q] = pc[q] /\ applied'[q] = applied[q]
  BY <1>a DEF TypeOK, ReadLedger, Goto, Locks
<1>c. l \in Outside(db.ledger) /\ l \notin Rebuild /\ l \in Labels \ {"read"}
  BY <1>0 DEF Outside
<1>d. \A q \in Procs : /\ q # p => (Under(q)' <=> Under(q))
                       /\ Active(q)' <=> Active(q)
  BY <1>a, <1>b, <1>c DEF Under
<1>1. TypeOK'
  BY <1>0, <1>c DEF TypeOK, ReadLedger, Goto, history
<1>2. Locks'
  <2>1. ASSUME NEW q \in Procs
        PROVE  (/\ lock = q => Under(q) /\ db.ledger < work.ledger
                /\ Under(q) /\ lock = q => pc[q] \in Inside(applied[q])
                /\ Under(q) /\ lock # q => pc[q] \in Outside(applied[q])
                /\ Under(q) => applied[q] <= db.ledger
                /\ lock = q /\ pc[q] = "validate" => Projected(work))'
    <3>1. CASE q = p
      BY <3>1, <1>a, <1>b, <1>c, <1>0
    <3>2. CASE q # p
      BY <3>2, <1>a, <1>b, <1>d DEF Locks
    <3> QED BY <3>1, <3>2
  <2> QED BY <2>1, <1>a DEF Locks
<1>3. Layouts'
  <2>1. start # "v2" => db.ledger # 2
    BY DEF Committed, Exempt
  <2> QED BY <2>1, <1>a, <1>b, <1>c, <1>d DEF Layouts, Current
<1>4. Company'
  BY <1>a, <1>d DEF Company
<1>5. Committed'
  <2>1. Untouched' => Untouched
    BY <1>a, <1>b, <1>d DEF Untouched
  <2> QED BY <2>1, <1>a DEF Committed, Sound, Exact
<1>6. Undisturbed'
  <2> SUFFICES ASSUME ~Exempt, NEW q \in Procs, Under(q)', alone[q]
               PROVE  /\ (db.ledger = applied[q])'
                      /\ Place(pc[q], applied[q], todo[q], View(q))'
    BY <1>a DEF Undisturbed
  <2>1. q = p
    BY <1>a, <1>d DEF Company, Under
  <2>2. View(p)' = db
    BY <1>a, <1>b DEF View
  <2>3. Sound(db) /\ (start = "v2" => db.ledger >= 2) /\ (start # "v2" => db.ledger # 2)
    BY DEF Committed
  <2>4. Untouched
    BY <2>1, <1>a DEF Company, Untouched
  <2>5. Place(l, db.ledger, todo[p], db)
    <3>1. CASE db.ledger = 0
      BY <3>1, <2>3 DEF Place, Sound, Layouts, Current
    <3>2. CASE db.ledger = 1
      BY <3>2, <2>3 DEF Place, Sound, Layouts, Current
    <3>3. CASE db.ledger = 2
      <4>1. db.assessments.layout = "v2" /\ db.assessments.idx = Base /\ db.aside = NoTable
        BY <3>3, <2>3, <2>4 DEF Committed
      <4> QED BY <3>3, <2>3, <4>1 DEF Place, Sound
    <3>4. CASE db.ledger = 3
      BY <3>4, <2>3 DEF Place, Sound, Exact
    <3> QED BY <1>0, <3>1, <3>2, <3>3, <3>4
  <2> QED BY <2>1, <2>2, <2>5, <1>a, <1>b
<1>7. RunsKept'
  BY <1>a DEF RunsKept
<1>8. SupportedStays'
  BY <1>a, <1>b, <1>c DEF SupportedStays
<1> QED BY <1>1, <1>2, <1>3, <1>4, <1>5, <1>6, <1>7, <1>8

\* Where a process is that nobody has disturbed at a version 2 database.
LEMMA InPlace ==
  ASSUME IInv, NEW p \in Procs, Under(p), ~Exempt, start = "v2" \/ alone[p]
  PROVE  /\ db.ledger = applied[p] /\ Place(pc[p], applied[p], todo[p], View(p))
         /\ start = "v2" => applied[p] \in {2, 3}
<1>1. alone[p]
  BY DEF IInv, Company, Exempt, Under
<1>2. db.ledger = applied[p] /\ Place(pc[p], applied[p], todo[p], View(p))
  BY <1>1 DEF IInv, Undisturbed
<1>3. start = "v2" => db.ledger >= 2
  BY DEF IInv, Committed
<1> QED BY <1>2, <1>3 DEF IInv, TypeOK

\* The invariant survives the INSERT that records a version.
LEMMA InsertInvariant ==
  ASSUME IInv, NEW p \in Procs, NEW v, NEW from, NEW next,
         \/ v = 1 /\ from = "insert1" /\ next = "canonicalize"
         \/ v = 2 /\ from = "insert2" /\ next = "layout"
         \/ v = 3 /\ from = "insert3" /\ next = "project",
         Insert(p, v, from, next)
  PROVE  IInv'
<1> USE DEF IInv, Active
<1>a. /\ Under(p) /\ lock \in {NoProc, p} /\ pc[p] = from /\ View(p) \in Database
      /\ UNCHANGED <<applied, todo, start, alone, disturbed>> /\ v \in 1 .. 3
      /\ Exempt' = Exempt /\ pc[p] \notin {"read", "layout"}
  BY ViewType DEF Insert, Rest, history, Under, Exempt
<1>b. View(p).ledger \in 0 .. 3 /\ db.ledger \in 0 .. 3 /\ db.ledger <= View(p).ledger
  BY <1>a DEF Database, View, TypeOK, Locks
<1>c. IF lock = p THEN from \in Inside(applied[p]) ELSE from \in Outside(applied[p])
  BY <1>a DEF Locks
<1>d. applied[p] \in 0 .. 3 /\ applied[p] < v /\ (next = "layout" => applied[p] # 2)
  <2>1. applied[p] \in 0 .. 3
    BY DEF TypeOK
  <2> QED BY <2>1, <1>c DEF Inside, Outside
<1>1. CASE View(p).ledger >= v
  <2>1. Leave(p, "failed")
    BY <1>1 DEF Insert
  <2>2. start = "v2" => disturbed
    <3> SUFFICES ASSUME start = "v2", ~disturbed PROVE FALSE
      BY DEF TypeOK
    <3>1. db.ledger = applied[p] /\ applied[p] = 2
      BY <1>a, <1>b, <1>d, InPlace DEF Exempt
    <3>2. lock # p
      BY <3>1, <1>c, <1>d DEF Inside
    <3> QED BY <3>1, <3>2, <1>1, <1>b, <1>d DEF View
  <2>3. todo' \in [Procs -> SUBSET Base] /\ disturbed' \in BOOLEAN
    BY <1>a DEF TypeOK
  <2> QED BY <2>1, <2>2, <2>3, <1>a, LeaveInvariant
<1>2. CASE ~(View(p).ledger >= v)
  <2> DEFINE new == [View(p) EXCEPT !.ledger = v]
  <2>1. /\ lock' = p /\ work' = new /\ db' = db /\ pc' = [pc EXCEPT ![p] = next]
    BY <1>2 DEF Insert, Goto
  <2>2. /\ new \in Database /\ new.ledger = v /\ new.runs = View(p).runs
        /\ new.moved = View(p).moved /\ new.assessments = View(p).assessments
        /\ new.aside = View(p).aside
    BY <1>a DEF Database
  <2> HIDE DEF new
  <2>3. /\ pc'[p] = next /\ Under(p)' /\ View(p)' = new /\ next \in Labels \ {"read"}
        /\ next \notin Rebuild
        /\ \A q \in Procs : q # p => pc'[q] = pc[q]
    BY <2>1 DEF TypeOK, Under, View
  <2>4. \A q \in Procs : (Active(q)' <=> Active(q)) /\ (Under(q)' <=> Under(q))
    BY <2>3, <1>a DEF Under
  <2>5. TypeOK'
    BY <1>a, <2>1, <2>2, <2>3 DEF TypeOK
  <2>6. Locks'
    <3>1. next \in Inside(applied[p]) /\ next # "validate"
      BY <1>c, <1>d DEF Inside, Outside
    <3>2. db.ledger < v
      BY <1>2, <1>a, <1>b
    <3>3. \A q \in Procs : q # p => lock # q /\ lock' # q
      BY <1>a, <2>1, NoProcAssumption
    <3>4. p # NoProc
      BY NoProcAssumption
    <3> QED BY <3>1, <3>2, <3>3, <3>4, <2>1, <2>2, <2>3, <2>4, <1>a DEF Locks
  <2>7. Layouts'
    <3>1. start # "v2" => Current(new)
      BY <2>2 DEF Layouts, Current, View
    <3> QED BY <3>1, <1>a, <2>1, <2>3, <2>4 DEF Layouts, Current
  <2>8. Company'
    BY <1>a, <2>4 DEF Company
  <2>9. Committed'
    <3>1. ~Exempt /\ start = "v2" => ~Untouched'
      <4> SUFFICES ASSUME ~Exempt, start = "v2" PROVE ~Untouched'
        OBVIOUS
      <4>1. applied[p] \in {2, 3}
        BY <1>a, InPlace
      <4>2. next = "project"
        BY <4>1, <1>a, <1>d
      <4> QED BY <4>2, <2>3 DEF Untouched, Under
    <3> QED BY <3>1, <1>a, <2>1 DEF Committed, Sound, Exact
  <2>10. Undisturbed'
    <3> SUFFICES ASSUME ~Exempt, NEW q \in Procs, Under(q)', alone[q]
                 PROVE  /\ (db.ledger = applied[q])'
                        /\ Place(pc[q], applied[q], todo[q], View(q))'
      BY <1>a DEF Undisturbed
    <3>1. q = p
      BY <1>a, <2>4 DEF Company, Under
    <3>2. db.ledger = applied[p] /\ Place(from, applied[p], todo[p], View(p))
      BY <3>1, <1>a DEF Undisturbed
    <3>3. Place(next, applied[p], todo[p], new)
      <4>1. CASE next = "canonicalize" /\ from = "insert1" /\ v = 1
        <5>1. applied[p] = 0 /\ lock # p
          BY <4>1, <1>c, <1>d DEF Inside
        <5>2. View(p).assessments = NoTable
          BY <5>1, <3>2 DEF View, Committed, Sound
        <5> QED BY <4>1, <5>2, <3>2, <2>2 DEF Place
      <4>2. CASE next = "layout" /\ from = "insert2"
        BY <4>2, <3>2, <2>2, <1>d DEF Place
      <4>3. CASE next = "project" /\ from = "insert3" /\ v = 3
        BY <4>3, <3>2, <2>2 DEF Place
      <4> QED BY <4>1, <4>2, <4>3
    <3> QED BY <3>1, <3>2, <3>3, <1>a, <2>1, <2>3
  <2>11. RunsKept'
    BY <1>a, <2>1 DEF RunsKept
  <2>12. SupportedStays'
    BY <1>a, <2>3 DEF SupportedStays
  <2> QED BY <2>5, <2>6, <2>7, <2>8, <2>9, <2>10, <2>11, <2>12
<1> QED BY <1>1, <1>2

\* The invariant survives the commit.
LEMMA ValidateInvariant == ASSUME IInv, NEW p \in Procs, Validate(p) PROVE IInv'
<1> USE DEF IInv, Active
<1>a. /\ Under(p) /\ pc[p] = "validate" /\ View(p) \in Database
      /\ UNCHANGED <<applied, todo, start, alone, disturbed>> /\ Exempt' = Exempt
  BY ViewType DEF Validate, Rest, history, Under, Exempt
<1>1. CASE ~Exact(View(p))
  <2>1. Leave(p, "refused")
    BY <1>1 DEF Validate
  <2>2. Exempt \/ (start # "v2" /\ ~alone[p])
    <3> SUFFICES ASSUME ~Exempt, start = "v2" \/ alone[p] PROVE FALSE
      OBVIOUS
    <3>1. Place("validate", applied[p], todo[p], View(p))
      BY <1>a, InPlace
    <3> QED BY <3>1, <1>1 DEF Place, Exact
  <2>3. todo' \in [Procs -> SUBSET Base] /\ disturbed' \in BOOLEAN
    BY <1>a DEF TypeOK
  <2> QED BY <2>1, <2>2, <2>3, <1>a, LeaveInvariant DEF Exempt
<1>2. CASE Exact(View(p))
  <2>1. /\ pc' = [pc EXCEPT ![p] = "open"] /\ db' = View(p) /\ lock' # p
        /\ lock = p => lock' = NoProc /\ work' = work
        /\ lock # p => lock' = lock /\ work' = work
    BY <1>2, NoProcAssumption DEF Validate, Goto
  <2>2. /\ pc'[p] = "open" /\ ~Active(p)' /\ ~Under(p)'
        /\ \A q \in Procs : q # p => pc'[q] = pc[q] /\ (Active(q)' <=> Active(q))
                                      /\ (Under(q)' <=> Under(q)) /\ (lock' = q <=> lock = q)
    BY <2>1, NoProcAssumption DEF TypeOK, Under
  <2>3. Exact(db)' /\ db'.assessments.rows = View(p).assessments.rows
    BY <1>2, <2>1 DEF Exact
  <2>4. TypeOK'
    BY <1>a, <2>1 DEF TypeOK
  <2>5. Locks'
    <3>1. (lock = NoProc => work = db)'
      BY <2>1, NoProcAssumption DEF Locks, View
    <3>2. db.ledger <= db'.ledger /\ db.ledger \in 0 .. 3 /\ db'.ledger \in 0 .. 3
      BY <1>a, <2>1 DEF Locks, View, TypeOK, Database
    <3>3. ASSUME NEW q \in Procs
          PROVE  (/\ lock = q => Under(q) /\ db.ledger < work.ledger
                  /\ Under(q) /\ lock = q => pc[q] \in Inside(applied[q])
                  /\ Under(q) /\ lock # q => pc[q] \in Outside(applied[q])
                  /\ Under(q) => applied[q] <= db.ledger
                  /\ lock = q /\ pc[q] = "validate" => Projected(work))'
      <4>1. CASE q = p
        BY <4>1, <2>1, <2>2
      <4>2. CASE q # p
        <5>1. applied[q] \in 0 .. 3
          BY DEF TypeOK
        <5>2. lock = q => lock # p /\ db' = db /\ work' = work
          BY <4>2, <2>1 DEF View
        <5>3. Under(q) => applied[q] <= db'.ledger
          BY <3>2, <5>1 DEF Locks
        <5> QED BY <4>2, <5>2, <5>3, <1>a, <2>2 DEF Locks
      <4> QED BY <4>1, <4>2
    <3> QED BY <3>1, <3>3 DEF Locks
  <2>6. Layouts'
    <3>1. start # "v2" => Current(db)' /\ Current(work)'
      BY <2>1 DEF Layouts, Current, View
    <3> QED BY <3>1, <1>a, <2>2 DEF Layouts
  <2>7. Company'
    BY <1>a, <2>2 DEF Company
  <2>8. Committed'
    <3>1. ~Exempt => View(p).assessments.rows
      <4>1. CASE lock = p
        BY <4>1, <1>a, <1>2 DEF Locks, View, Projected, Exact, NoTable
      <4>2. CASE lock # p
        BY <4>2, <1>2 DEF Committed, Sound, Exact, View
      <4> QED BY <4>1, <4>2
    <3> QED BY <3>1, <1>a, <2>3 DEF Committed, Sound, Exact
  <2>9. Undisturbed'
    BY <1>a, <2>2 DEF Company, Undisturbed, Under
  <2>10. RunsKept'
    BY <2>3 DEF RunsKept, Exact
  <2>11. SupportedStays'
    BY <1>a, <2>2 DEF SupportedStays
  <2> QED BY <2>4, <2>5, <2>6, <2>7, <2>8, <2>9, <2>10, <2>11
<1> QED BY <1>1, <1>2

\* The invariant survives a stop.
LEMMA StopInvariant == ASSUME IInv, NEW p \in Procs, Stop(p) PROVE IInv'
<1>1. /\ Active(p) /\ Leave(p, "failed") /\ disturbed' = TRUE
      /\ UNCHANGED <<applied, todo, start, alone>>
  BY DEF Stop
<1>2. todo' \in [Procs -> SUBSET Base]
  BY <1>1 DEF IInv, TypeOK
<1> QED BY <1>1, <1>2, LeaveInvariant

-----------------------------------------------------------------------------
(* The statements of the three versions *)

\* What a process that sees the database as d can rely on.
Situated(p, d) ==
  /\ d \in Database /\ applied[p] \in 0 .. 3 /\ todo[p] \subseteq Base
  /\ pc[p] \in IF lock = p THEN Inside(applied[p]) ELSE Outside(applied[p])
  /\ start # "v2" => Current(d) /\ pc[p] \notin Rebuild /\ applied[p] # 2
  /\ lock # p => /\ applied[p] <= d.ledger
                 /\ ~Exempt => Sound(d)
                 /\ start # "fresh" => d.runs # "none"
  /\ ~Exempt /\ (start = "v2" \/ alone[p]) =>
       Place(pc[p], applied[p], todo[p], d) /\ (lock # p => d.ledger = applied[p])
  /\ ~Exempt /\ start = "v2" => applied[p] \in {2, 3}

\* A process that has read the ledger is situated.
LEMMA Situation == ASSUME IInv, NEW p \in Procs, Under(p) PROVE Situated(p, View(p))
<1> USE DEF IInv
<1>1. View(p) \in Database /\ applied[p] \in 0 .. 3 /\ todo[p] \subseteq Base
  BY ViewType DEF TypeOK
<1>2. pc[p] \in IF lock = p THEN Inside(applied[p]) ELSE Outside(applied[p])
  BY DEF Locks
<1>3. start # "v2" => Current(View(p)) /\ pc[p] \notin Rebuild /\ applied[p] # 2
  BY DEF Layouts, View
<1>4. lock # p => /\ applied[p] <= View(p).ledger
                  /\ ~Exempt => Sound(View(p))
                  /\ start # "fresh" => View(p).runs # "none"
  BY DEF Locks, Committed, RunsKept, View
<1>5. ~Exempt /\ (start = "v2" \/ alone[p]) =>
        Place(pc[p], applied[p], todo[p], View(p)) /\ (lock # p => View(p).ledger = applied[p])
  BY InPlace DEF View
<1>6. ~Exempt /\ start = "v2" => applied[p] \in {2, 3}
  BY InPlace
<1> QED BY <1>1, <1>2, <1>3, <1>4, <1>5, <1>6 DEF Situated

\* A statement that is carried out.
LEMMA Written ==
  ASSUME IInv, NEW p \in Procs, NEW l, NEW t, NEW new, Do(p, new), Goto(p, l),
         todo' = [todo EXCEPT ![p] = t], UNCHANGED <<applied, history>>, Proper(p, l, t, new)
  PROVE  IInv'
<1>1. Shift(p, l, t, new)
  BY NoProcAssumption DEF Shift, Do, Goto
<1> QED BY <1>1, ShiftInvariant

\* A step that only reads.
LEMMA Passed ==
  ASSUME IInv, NEW p \in Procs, NEW l, NEW t, UNCHANGED <<db, work, lock>>, Goto(p, l),
         todo' = [todo EXCEPT ![p] = t], UNCHANGED <<applied, history>>,
         Proper(p, l, t, View(p))
  PROVE  IInv'
<1>1. Shift(p, l, t, View(p))
  BY DEF Shift, Goto, View
<1> QED BY <1>1, ShiftInvariant

\* A statement that is not possible, or a layout that is refused.
LEMMA GivenUp ==
  ASSUME IInv, NEW p \in Procs, Under(p), NEW e \in {"failed", "refused"}, Leave(p, e),
         NEW t \in SUBSET Base, todo' = [todo EXCEPT ![p] = t], UNCHANGED <<applied, history>>,
         Exempt \/ (start # "v2" /\ (e = "refused" => ~alone[p]))
  PROVE  IInv'
<1>1. todo' \in [Procs -> SUBSET Base] /\ disturbed' \in BOOLEAN
  BY DEF IInv, TypeOK, history
<1>2. UNCHANGED <<start, alone, disturbed>>
  BY DEF history
<1>3. Active(p) /\ (start = "v2" => disturbed')
  BY <1>2 DEF Under, Exempt, IInv, TypeOK
<1>4. e = "refused" /\ start # "v2" => ~alone[p]
  BY DEF Exempt
<1>5. UNCHANGED applied /\ (disturbed => disturbed')
  BY <1>2
<1> QED BY <1>1, <1>2, <1>3, <1>4, <1>5, LeaveInvariant

\* A step that leaves the indexes to do as they are.
LEMMA Resting ==
  ASSUME IInv, NEW p \in Procs, Rest(p)
  PROVE  /\ todo' = [todo EXCEPT ![p] = todo[p]] /\ UNCHANGED <<applied, history>>
         /\ todo[p] \in SUBSET Base
BY DEF IInv, TypeOK, Rest, history

\* The table runs is created where there is none.
LEMMA CreateRunsInvariant == ASSUME IInv, NEW p \in Procs, CreateRuns(p) PROVE IInv'
<1> DEFINE d   == View(p)
           new == [d EXCEPT !.runs = "canonical"]
<1>1. pc[p] = "createRuns" /\ Under(p) /\ Situated(p, d)
  BY Situation DEF CreateRuns, Under, Active
<1>2. lock # p /\ applied[p] = 0
  BY <1>1 DEF Situated, Inside, Outside
<1>3. CASE d.runs = "none"
  <2>1. Do(p, new) /\ Goto(p, "addColumns") /\ Rest(p)
    BY <1>3 DEF CreateRuns, Ensure
  <2>2. /\ new \in Database /\ new.ledger = d.ledger /\ new.runs = "canonical"
        /\ new.moved = d.moved /\ new.assessments = d.assessments /\ new.aside = d.aside
    BY <1>1 DEF Situated, Database
  <2> HIDE DEF new
  <2>3. Proper(p, "addColumns", todo[p], new)
    BY <1>1, <1>2, <1>3, <2>2
       DEF Situated, Proper, Outside, Current, Sound, Exact, Place, Database
  <2> QED BY <2>1, <2>3, Written, Resting
<1>4. CASE d.runs # "none"
  <2>1. UNCHANGED <<db, work, lock>> /\ Goto(p, "addColumns") /\ Rest(p)
    BY <1>4 DEF CreateRuns, Ensure
  <2>2. Proper(p, "addColumns", todo[p], d)
    BY <1>1, <1>2, <1>4 DEF Situated, Proper, Outside, Place
  <2> QED BY <2>1, <2>2, Passed, Resting
<1> QED BY <1>3, <1>4

\* The columns of a legacy table are added.
LEMMA AddColumnsInvariant == ASSUME IInv, NEW p \in Procs, AddColumns(p) PROVE IInv'
<1> DEFINE d   == View(p)
           new == [d EXCEPT !.runs = "wide"]
<1>1. pc[p] = "addColumns" /\ Under(p) /\ Situated(p, d)
  BY Situation DEF AddColumns, Under, Active
<1>2. lock # p /\ applied[p] = 0
  BY <1>1 DEF Situated, Inside, Outside
<1>3. CASE d.runs = "narrow"
  <2>1. Do(p, new) /\ Goto(p, "insert1") /\ Rest(p)
    BY <1>3 DEF AddColumns, Ensure
  <2>2. /\ new \in Database /\ new.ledger = d.ledger /\ new.runs = "wide"
        /\ new.moved = d.moved /\ new.assessments = d.assessments /\ new.aside = d.aside
    BY <1>1 DEF Situated, Database
  <2> HIDE DEF new
  <2>3. Proper(p, "insert1", todo[p], new)
    BY <1>1, <1>2, <1>3, <2>2
       DEF Situated, Proper, Outside, Current, Sound, Exact, Place, Database
  <2> QED BY <2>1, <2>3, Written, Resting
<1>4. CASE d.runs # "narrow"
  <2>1. UNCHANGED <<db, work, lock>> /\ Goto(p, "insert1") /\ Rest(p)
    BY <1>4 DEF AddColumns, Ensure
  <2>2. Proper(p, "insert1", todo[p], d)
    BY <1>1, <1>2, <1>4 DEF Situated, Proper, Outside, Place, Database
  <2> QED BY <2>1, <2>2, Passed, Resting
<1> QED BY <1>3, <1>4

\* A table runs that is left of a legacy database is replaced, or refused if
\* it is not alone; a process left to itself finds it alone.
LEMMA CanonicalizeInvariant == ASSUME IInv, NEW p \in Procs, Canonicalize(p) PROVE IInv'
<1> DEFINE d == View(p)
           l == IF d.runs = "canonical" THEN "createAssessments" ELSE "moveRuns"
<1>1. pc[p] = "canonicalize" /\ Under(p) /\ Situated(p, d) /\ Rest(p)
  BY Situation DEF Canonicalize, Under, Active
<1>2. lock = p /\ applied[p] = 0
  BY <1>1 DEF Situated, Inside, Outside
<1>3. CASE d.runs # "canonical" /\ (d.moved \/ d.assessments # NoTable \/ d.aside # NoTable)
  <2>1. Leave(p, "refused")
    BY <1>3 DEF Canonicalize
  <2>2. Exempt \/ (start # "v2" /\ ~alone[p])
    BY <1>1, <1>2, <1>3 DEF Situated, Place
  <2> QED BY <1>1, <2>1, <2>2, GivenUp, Resting
<1>4. CASE ~(d.runs # "canonical" /\ (d.moved \/ d.assessments # NoTable \/ d.aside # NoTable))
  <2>1. UNCHANGED <<db, work, lock>> /\ Goto(p, l)
    BY <1>4 DEF Canonicalize
  <2>2. Proper(p, l, todo[p], d)
    BY <1>1, <1>2, <1>4 DEF Situated, Proper, Inside, Place
  <2> QED BY <1>1, <2>1, <2>2, Passed, Resting
<1> QED BY <1>3, <1>4

\* runs is moved aside, which nobody without the write lock sees.
LEMMA MoveRunsInvariant == ASSUME IInv, NEW p \in Procs, MoveRuns(p) PROVE IInv'
<1> DEFINE d   == View(p)
           new == [d EXCEPT !.runs = "none", !.moved = TRUE]
<1>1. pc[p] = "moveRuns" /\ Under(p) /\ Situated(p, d) /\ Rest(p)
  BY Situation DEF MoveRuns, Under, Active
<1>2. lock = p /\ applied[p] = 0
  BY <1>1 DEF Situated, Inside, Outside
<1>3. CASE ~d.moved
  <2>1. Do(p, new) /\ Goto(p, "copyRuns")
    BY <1>3 DEF MoveRuns, Statement
  <2>2. /\ new \in Database /\ new.ledger = d.ledger /\ new.runs = "none" /\ new.moved
        /\ new.assessments = d.assessments /\ new.aside = d.aside
    BY <1>1 DEF Situated, Database
  <2> HIDE DEF new
  <2>3. Proper(p, "copyRuns", todo[p], new)
    BY <1>1, <1>2, <2>2 DEF Situated, Proper, Inside, Current, Place
  <2> QED BY <1>1, <2>1, <2>3, Written, Resting
<1>4. CASE d.moved
  <2>1. Leave(p, "failed")
    BY <1>4 DEF MoveRuns, Statement
  <2>2. Exempt \/ start # "v2"
    BY <1>1, <1>2 DEF Situated
  <2> QED BY <1>1, <2>1, <2>2, GivenUp, Resting
<1> QED BY <1>3, <1>4

\* The records are copied back before anybody sees that they were gone.
LEMMA CopyRunsInvariant == ASSUME IInv, NEW p \in Procs, CopyRuns(p) PROVE IInv'
<1> DEFINE d   == View(p)
           new == [d EXCEPT !.runs = "canonical", !.moved = FALSE]
<1>1. pc[p] = "copyRuns" /\ Under(p) /\ Situated(p, d) /\ Rest(p)
  BY Situation DEF CopyRuns, Under, Active
<1>2. lock = p /\ applied[p] = 0
  BY <1>1 DEF Situated, Inside, Outside
<1>3. CASE d.moved
  <2>1. Do(p, new) /\ Goto(p, "createAssessments")
    BY <1>3 DEF CopyRuns, Statement
  <2>2. /\ new \in Database /\ new.ledger = d.ledger /\ new.runs = "canonical" /\ ~new.moved
        /\ new.assessments = d.assessments /\ new.aside = d.aside
    BY <1>1 DEF Situated, Database
  <2> HIDE DEF new
  <2>3. Proper(p, "createAssessments", todo[p], new)
    BY <1>1, <1>2, <2>2 DEF Situated, Proper, Inside, Current, Place
  <2> QED BY <1>1, <2>1, <2>3, Written, Resting
<1>4. CASE ~d.moved
  <2>1. Leave(p, "failed")
    BY <1>4 DEF CopyRuns, Statement
  <2>2. Exempt \/ start # "v2"
    BY <1>1, <1>2 DEF Situated
  <2> QED BY <1>1, <2>1, <2>2, GivenUp, Resting
<1> QED BY <1>3, <1>4

\* The table of assessments is created where there is none.
LEMMA CreateAssessmentsInvariant ==
  ASSUME IInv, NEW p \in Procs, CreateAssessments(p) PROVE IInv'
<1> DEFINE d   == View(p)
           new == [d EXCEPT !.assessments = NewTable]
<1>1. pc[p] = "createAssessments" /\ Under(p) /\ Situated(p, d) /\ Rest(p)
  BY Situation DEF CreateAssessments, Under, Active
<1>2. applied[p] \in {0, 1} /\ (lock # p => applied[p] = 1)
  BY <1>1 DEF Situated, Inside, Outside
<1>3. CASE d.assessments = NoTable
  <2>1. Do(p, new) /\ Goto(p, "createIndexes")
    BY <1>3 DEF CreateAssessments, Ensure
  <2>2. /\ new \in Database /\ new.ledger = d.ledger /\ new.runs = d.runs
        /\ new.moved = d.moved /\ new.assessments = NewTable /\ new.aside = d.aside
    BY <1>1 DEF Situated, Database, NewTable, Table
  <2>3. NewTable.layout = "v3" /\ NoTable.layout = "none"
    BY DEF NewTable, NoTable
  <2> HIDE DEF new
  <2>4. Proper(p, "createIndexes", todo[p], new)
    BY <1>1, <1>2, <1>3, <2>2, <2>3
       DEF Situated, Proper, Inside, Outside, Current, Sound, Exact, Place, Database
  <2> QED BY <1>1, <2>1, <2>4, Written, Resting
<1>4. CASE d.assessments # NoTable
  <2>1. UNCHANGED <<db, work, lock>> /\ Goto(p, "createIndexes")
    BY <1>4 DEF CreateAssessments, Ensure
  <2>2. Proper(p, "createIndexes", todo[p], d)
    BY <1>1, <1>2, <1>4 DEF Situated, Proper, Inside, Outside, Current, Place
  <2> QED BY <1>1, <2>1, <2>2, Passed, Resting
<1> QED BY <1>3, <1>4

\* Its indexes are created where there are none.
LEMMA CreateIndexesInvariant == ASSUME IInv, NEW p \in Procs, CreateIndexes(p) PROVE IInv'
<1> DEFINE d       == View(p)
           missing == {n \in Base : n \notin Names(d) \/ d.assessments = NoTable}
<1>1. pc[p] = "createIndexes" /\ Under(p) /\ Situated(p, d) /\ Rest(p)
  BY Situation DEF CreateIndexes, Under, Active
<1>2. applied[p] \in {0, 1} /\ (lock # p => applied[p] = 1)
  BY <1>1 DEF Situated, Inside, Outside
<1>3. d.aside = NoTable => Names(d) = d.assessments.idx
  BY DEF Names, NoTable
<1>4. CASE missing = {} /\ Goto(p, "insert2") /\ UNCHANGED <<db, work, lock>>
  <2>1. Proper(p, "insert2", todo[p], d)
    BY <1>1, <1>2, <1>3, <1>4 DEF Situated, Proper, Inside, Outside, Place
  <2> QED BY <1>1, <1>4, <2>1, Passed, Resting
<1>5. ASSUME NEW n \in missing,
             Statement(p, d.assessments # NoTable,
                       [d EXCEPT !.assessments.idx = @ \cup {n}], "createIndexes")
      PROVE  IInv'
  <2> DEFINE new == [d EXCEPT !.assessments.idx = @ \cup {n}]
  <2>1. CASE d.assessments # NoTable
    <3>1. Do(p, new) /\ Goto(p, "createIndexes")
      BY <1>5, <2>1 DEF Statement
    <3>2. /\ new \in Database /\ new.ledger = d.ledger /\ new.runs = d.runs
          /\ new.moved = d.moved /\ new.aside = d.aside
          /\ new.assessments.layout = d.assessments.layout
      BY <1>1 DEF Situated, Database, Table
    <3> HIDE DEF new
    <3>3. ~Exact(d)
      BY <2>1 DEF Exact, Names
    <3>4. Proper(p, "createIndexes", todo[p], new)
      BY <1>1, <1>2, <2>1, <3>2, <3>3
         DEF Situated, Proper, Inside, Outside, Current, Sound, Place, Database, NoTable
    <3> QED BY <1>1, <3>1, <3>4, Written, Resting
  <2>2. CASE d.assessments = NoTable
    <3>1. Leave(p, "failed")
      BY <1>5, <2>2 DEF Statement
    <3>2. Exempt \/ start # "v2"
      BY <1>1, <1>2 DEF Situated
    <3> QED BY <1>1, <3>1, <3>2, GivenUp, Resting
  <2> QED BY <2>1, <2>2
<1> QED BY <1>4, <1>5 DEF CreateIndexes

\* A table without the identity of the dataset is rebuilt if it is exactly that
\* of version 2, which a process left to itself finds.
LEMMA LayoutInvariant == ASSUME IInv, NEW p \in Procs, Layout(p) PROVE IInv'
<1> DEFINE d     == View(p)
           exact == /\ d.assessments.layout = "v2" /\ d.assessments.idx = Base
                    /\ d.aside = NoTable /\ ~d.moved
           l     == IF exact THEN "dropIndexes" ELSE "datasetIndex"
<1>1. pc[p] = "layout" /\ Under(p) /\ Situated(p, d) /\ UNCHANGED <<applied, history>>
  BY Situation DEF Layout, Under, Active
<1>2. applied[p] \in 0 .. 2 /\ (lock # p => applied[p] = 2)
  BY <1>1 DEF Situated, Inside, Outside
<1>3. CASE d.assessments.layout # "v3" /\ ~exact
  <2>1. Leave(p, "refused") /\ todo' = todo
    BY <1>3 DEF Layout
  <2>2. Exempt \/ (start # "v2" /\ ~alone[p])
    BY <1>1, <1>2, <1>3 DEF Situated, Place
  <2>3. todo' = [todo EXCEPT ![p] = todo[p]] /\ todo[p] \in SUBSET Base
    BY <2>1 DEF IInv, TypeOK
  <2> QED BY <1>1, <2>1, <2>2, <2>3, GivenUp
<1>4. CASE ~(d.assessments.layout # "v3" /\ ~exact)
  <2>1. UNCHANGED <<db, work, lock>> /\ Goto(p, l) /\ todo' = [todo EXCEPT ![p] = Base]
    BY <1>4 DEF Layout
  <2>2. exact => start = "v2"
    BY <1>1 DEF Situated, Current, NoTable
  <2>3. Proper(p, l, Base, d)
    BY <1>1, <1>2, <1>4, <2>2 DEF Situated, Proper, Inside, Outside, Place
  <2> QED BY <1>1, <2>1, <2>3, Passed
<1> QED BY <1>3, <1>4

\* Only version 2 is rebuilt, and by nobody who has not found it so.
LEMMA Rebuilding ==
  ASSUME IInv, NEW p \in Procs, Under(p), pc[p] \in Rebuild
  PROVE  /\ Situated(p, View(p)) /\ start = "v2" /\ applied[p] \in 0 .. 2
         /\ (lock # p => applied[p] = 2)
         /\ ~Exempt => /\ applied[p] = 2 /\ lock # p /\ View(p).ledger = 2
                       /\ Place(pc[p], 2, todo[p], View(p))
<1>1. Situated(p, View(p))
  BY Situation
<1>2. start = "v2" /\ applied[p] \in 0 .. 2 /\ (lock # p => applied[p] = 2)
  BY <1>1 DEF Situated, Inside, Outside
<1>3. ~Exempt => applied[p] = 2 /\ lock # p
  BY <1>1, <1>2 DEF Situated, Inside
<1> QED BY <1>1, <1>2, <1>3 DEF Situated

\* The indexes are dropped, each of which a process left to itself finds.
LEMMA DropIndexesInvariant == ASSUME IInv, NEW p \in Procs, DropIndexes(p) PROVE IInv'
<1> DEFINE d == View(p)
<1>1. pc[p] = "dropIndexes" /\ Under(p) /\ UNCHANGED <<applied, history>>
  BY DEF DropIndexes, Under, Active
<1>2. /\ Situated(p, d) /\ start = "v2" /\ applied[p] \in 0 .. 2 /\ (lock # p => applied[p] = 2)
      /\ ~Exempt => /\ applied[p] = 2 /\ lock # p /\ d.ledger = 2
                    /\ Place("dropIndexes", 2, todo[p], d)
  BY <1>1, Rebuilding
<1>3. CASE /\ todo[p] = {} /\ todo' = [todo EXCEPT ![p] = Base]
           /\ Goto(p, "rename") /\ UNCHANGED <<db, work, lock>>
  <2>1. Proper(p, "rename", Base, d)
    BY <1>1, <1>2, <1>3 DEF Situated, Proper, Inside, Outside, Place
  <2> QED BY <1>1, <1>3, <2>1, Passed
<1>4. ASSUME NEW n \in todo[p], todo' = [todo EXCEPT ![p] = @ \ {n}],
             Statement(p, n \in Names(d),
                       [d EXCEPT !.assessments.idx = @ \ {n}, !.aside.idx = @ \ {n}],
                       "dropIndexes")
      PROVE  IInv'
  <2> DEFINE new == [d EXCEPT !.assessments.idx = @ \ {n}, !.aside.idx = @ \ {n}]
             t   == todo[p] \ {n}
  <2>0. todo' = [todo EXCEPT ![p] = t] /\ t \in SUBSET Base
    BY <1>2, <1>4 DEF Situated
  <2>1. CASE n \in Names(d)
    <3>1. Do(p, new) /\ Goto(p, "dropIndexes")
      BY <1>4, <2>1 DEF Statement
    <3>2. /\ new \in Database /\ new.ledger = d.ledger /\ new.runs = d.runs
          /\ new.moved = d.moved
          /\ new.assessments.layout = d.assessments.layout
          /\ new.assessments.idx = d.assessments.idx \ {n}
          /\ new.aside = [d.aside EXCEPT !.idx = @ \ {n}]
      BY <1>2 DEF Situated, Database, Table
    <3>3. d.aside = NoTable => new.aside = NoTable
      BY <3>2 DEF NoTable
    <3> HIDE DEF new
    <3>4. Proper(p, "dropIndexes", t, new)
      BY <1>1, <1>2, <2>0, <3>2, <3>3
         DEF Situated, Proper, Inside, Outside, Sound, Place, Database
    <3> QED BY <1>1, <2>0, <3>1, <3>4, Written
  <2>2. CASE n \notin Names(d)
    <3>1. Leave(p, "failed")
      BY <1>4, <2>2 DEF Statement
    <3>2. Exempt
      BY <1>2, <1>4, <2>2 DEF Place, Names
    <3> QED BY <1>1, <2>0, <3>1, <3>2, GivenUp
  <2> QED BY <2>1, <2>2
<1> QED BY <1>3, <1>4 DEF DropIndexes

\* The table is moved aside.
LEMMA RenameInvariant == ASSUME IInv, NEW p \in Procs, Rename(p) PROVE IInv'
<1> DEFINE d   == View(p)
           new == [d EXCEPT !.aside = d.assessments, !.assessments = NoTable]
<1>1. pc[p] = "rename" /\ Under(p) /\ Rest(p)
  BY DEF Rename, Under, Active
<1>2. /\ Situated(p, d) /\ start = "v2" /\ applied[p] \in 0 .. 2 /\ (lock # p => applied[p] = 2)
      /\ ~Exempt => /\ applied[p] = 2 /\ lock # p /\ d.ledger = 2
                    /\ Place("rename", 2, todo[p], d)
  BY <1>1, Rebuilding
<1>3. CASE d.assessments # NoTable /\ d.aside = NoTable
  <2>1. Do(p, new) /\ Goto(p, "create")
    BY <1>3 DEF Rename, Statement
  <2>2. /\ new \in Database /\ new.ledger = d.ledger /\ new.runs = d.runs
        /\ new.moved = d.moved /\ new.assessments = NoTable /\ new.aside = d.assessments
    BY <1>2 DEF Situated, Database, NoTable, Table
  <2> HIDE DEF new
  <2>3. Proper(p, "create", todo[p], new)
    BY <1>1, <1>2, <1>3, <2>2
       DEF Situated, Proper, Inside, Outside, Sound, Place, Database
  <2> QED BY <1>1, <2>1, <2>3, Written, Resting
<1>4. CASE ~(d.assessments # NoTable /\ d.aside = NoTable)
  <2>1. Leave(p, "failed")
    BY <1>4 DEF Rename, Statement
  <2>2. Exempt
    BY <1>2, <1>4 DEF Place, NoTable
  <2> QED BY <1>1, <2>1, <2>2, GivenUp, Resting
<1> QED BY <1>3, <1>4

\* The table of this release is created.
LEMMA CreateInvariant == ASSUME IInv, NEW p \in Procs, Create(p) PROVE IInv'
<1> DEFINE d   == View(p)
           new == [d EXCEPT !.assessments = NewTable]
<1>1. pc[p] = "create" /\ Under(p) /\ Rest(p)
  BY DEF Create, Under, Active
<1>2. /\ Situated(p, d) /\ start = "v2" /\ applied[p] \in 0 .. 2 /\ (lock # p => applied[p] = 2)
      /\ ~Exempt => /\ applied[p] = 2 /\ lock # p /\ d.ledger = 2
                    /\ Place("create", 2, todo[p], d)
  BY <1>1, Rebuilding
<1>3. CASE d.assessments = NoTable
  <2>1. Do(p, new) /\ Goto(p, "dropOld")
    BY <1>3 DEF Create, Ensure
  <2>2. /\ new \in Database /\ new.ledger = d.ledger /\ new.runs = d.runs
        /\ new.moved = d.moved /\ new.assessments = NewTable /\ new.aside = d.aside
    BY <1>2 DEF Situated, Database, NewTable, Table
  <2> HIDE DEF new
  <2>3. Proper(p, "dropOld", todo[p], new)
    BY <1>1, <1>2, <1>3, <2>2
       DEF Situated, Proper, Inside, Outside, Sound, Place, Database
  <2> QED BY <1>1, <2>1, <2>3, Written, Resting
<1>4. CASE d.assessments # NoTable
  <2>1. UNCHANGED <<db, work, lock>> /\ Goto(p, "dropOld")
    BY <1>4 DEF Create, Ensure
  <2>2. Proper(p, "dropOld", todo[p], d)
    BY <1>1, <1>2, <1>4 DEF Situated, Proper, Inside, Outside, Place
  <2> QED BY <1>1, <2>1, <2>2, Passed, Resting
<1> QED BY <1>3, <1>4

\* The table that was moved aside is dropped.
LEMMA DropOldInvariant == ASSUME IInv, NEW p \in Procs, DropOld(p) PROVE IInv'
<1> DEFINE d   == View(p)
           new == [d EXCEPT !.aside = NoTable]
<1>1. pc[p] = "dropOld" /\ Under(p) /\ Rest(p)
  BY DEF DropOld, Under, Active
<1>2. /\ Situated(p, d) /\ start = "v2" /\ applied[p] \in 0 .. 2 /\ (lock # p => applied[p] = 2)
      /\ ~Exempt => /\ applied[p] = 2 /\ lock # p /\ d.ledger = 2
                    /\ Place("dropOld", 2, todo[p], d)
  BY <1>1, Rebuilding
<1>3. CASE d.aside # NoTable
  <2>1. Do(p, new) /\ Goto(p, "reindex")
    BY <1>3 DEF DropOld, Statement
  <2>2. /\ new \in Database /\ new.ledger = d.ledger /\ new.runs = d.runs
        /\ new.moved = d.moved /\ new.assessments = d.assessments /\ new.aside = NoTable
    BY <1>2 DEF Situated, Database, NoTable, Table
  <2> HIDE DEF new
  <2>3. Proper(p, "reindex", todo[p], new)
    BY <1>1, <1>2, <2>2
       DEF Situated, Proper, Inside, Outside, Sound, Place, Database, NewTable
  <2> QED BY <1>1, <2>1, <2>3, Written, Resting
<1>4. CASE d.aside = NoTable
  <2>1. Leave(p, "failed")
    BY <1>4 DEF DropOld, Statement
  <2>2. Exempt
    BY <1>2, <1>4 DEF Place
  <2> QED BY <1>1, <2>1, <2>2, GivenUp, Resting
<1> QED BY <1>3, <1>4

\* The indexes are created again, none of which a process left to itself finds.
LEMMA ReindexInvariant == ASSUME IInv, NEW p \in Procs, Reindex(p) PROVE IInv'
<1> DEFINE d == View(p)
<1>1. pc[p] = "reindex" /\ Under(p) /\ UNCHANGED <<applied, history>>
  BY DEF Reindex, Under, Active
<1>2. /\ Situated(p, d) /\ start = "v2" /\ applied[p] \in 0 .. 2 /\ (lock # p => applied[p] = 2)
      /\ ~Exempt => /\ applied[p] = 2 /\ lock # p /\ d.ledger = 2
                    /\ Place("reindex", 2, todo[p], d)
  BY <1>1, Rebuilding
<1>3. CASE /\ todo[p] = {} /\ UNCHANGED todo
           /\ Goto(p, "datasetIndex") /\ UNCHANGED <<db, work, lock>>
  <2>1. todo' = [todo EXCEPT ![p] = todo[p]]
    BY <1>3 DEF IInv, TypeOK
  <2>2. Proper(p, "datasetIndex", todo[p], d)
    BY <1>1, <1>2, <1>3 DEF Situated, Proper, Inside, Outside, Place
  <2> QED BY <1>1, <1>3, <2>1, <2>2, Passed
<1>4. ASSUME NEW n \in todo[p], todo' = [todo EXCEPT ![p] = @ \ {n}],
             Statement(p, n \notin Names(d) /\ d.assessments # NoTable,
                       [d EXCEPT !.assessments.idx = @ \cup {n}], "reindex")
      PROVE  IInv'
  <2> DEFINE new == [d EXCEPT !.assessments.idx = @ \cup {n}]
             t   == todo[p] \ {n}
  <2>0. todo' = [todo EXCEPT ![p] = t] /\ t \in SUBSET Base
    BY <1>2, <1>4 DEF Situated
  <2>1. CASE n \notin Names(d) /\ d.assessments # NoTable
    <3>1. Do(p, new) /\ Goto(p, "reindex")
      BY <1>4, <2>1 DEF Statement
    <3>2. /\ new \in Database /\ new.ledger = d.ledger /\ new.runs = d.runs
          /\ new.moved = d.moved /\ new.aside = d.aside
          /\ new.assessments.layout = d.assessments.layout
          /\ new.assessments.idx = d.assessments.idx \cup {n}
      BY <1>2, <1>4 DEF Situated, Database, Table
    <3> HIDE DEF new
    <3>3. n \in Base /\ (d.assessments.idx = Base \ todo[p] => new.assessments.idx = Base \ t)
      BY <1>2, <1>4, <3>2 DEF Situated
    <3>4. Proper(p, "reindex", t, new)
      BY <1>1, <1>2, <2>0, <3>2, <3>3
         DEF Situated, Proper, Inside, Outside, Sound, Place, Database
    <3> QED BY <1>1, <2>0, <3>1, <3>4, Written
  <2>2. CASE ~(n \notin Names(d) /\ d.assessments # NoTable)
    <3>1. Leave(p, "failed")
      BY <1>4, <2>2 DEF Statement
    <3>2. Exempt
      BY <1>2, <1>4, <2>2 DEF Place, Names, NoTable
    <3> QED BY <1>1, <2>0, <3>1, <3>2, GivenUp
  <2> QED BY <2>1, <2>2
<1> QED BY <1>3, <1>4 DEF Reindex

\* The index of this release is created where there is none.
LEMMA DatasetIndexInvariant == ASSUME IInv, NEW p \in Procs, DatasetIndex(p) PROVE IInv'
<1> DEFINE d   == View(p)
           new == [d EXCEPT !.assessments.idx = @ \cup {"dataset"}]
<1>1. pc[p] = "datasetIndex" /\ Under(p) /\ Situated(p, d) /\ Rest(p)
  BY Situation DEF DatasetIndex, Under, Active
<1>2. applied[p] \in 0 .. 2 /\ (lock # p => applied[p] = 2)
  BY <1>1 DEF Situated, Inside, Outside
<1>3. d.assessments.idx \subseteq Indexes
  BY <1>1 DEF Situated, Database, Table
<1>4. CASE "dataset" \in Names(d) /\ d.assessments # NoTable
  <2>1. UNCHANGED <<db, work, lock>> /\ Goto(p, "insert3")
    BY <1>4 DEF DatasetIndex
  <2>2. d.aside = NoTable /\ Base \subseteq d.assessments.idx => d.assessments.idx = Indexes
    BY <1>3, <1>4 DEF Names, NoTable
  <2>3. Proper(p, "insert3", todo[p], d)
    BY <1>1, <1>2, <2>2 DEF Situated, Proper, Inside, Outside, Place
  <2> QED BY <1>1, <2>1, <2>3, Passed, Resting
<1>5. CASE "dataset" \notin Names(d) /\ d.assessments # NoTable
  <2>1. Do(p, new) /\ Goto(p, "insert3")
    BY <1>5 DEF DatasetIndex, Statement
  <2>2. /\ new \in Database /\ new.ledger = d.ledger /\ new.runs = d.runs
        /\ new.moved = d.moved /\ new.aside = d.aside
        /\ new.assessments.layout = d.assessments.layout
        /\ new.assessments.idx = d.assessments.idx \cup {"dataset"}
    BY <1>1 DEF Situated, Database, Table
  <2> HIDE DEF new
  <2>3. Base \subseteq d.assessments.idx => new.assessments.idx = Indexes
    BY <1>3, <2>2
  <2>4. Proper(p, "insert3", todo[p], new)
    BY <1>1, <1>2, <1>5, <2>2, <2>3
       DEF Situated, Proper, Inside, Outside, Current, Sound, Place, Database, NoTable
  <2> QED BY <1>1, <2>1, <2>4, Written, Resting
<1>6. CASE d.assessments = NoTable
  <2>1. Leave(p, "failed")
    BY <1>6 DEF DatasetIndex, Statement
  <2>2. Exempt \/ start # "v2"
    BY <1>1, <1>6 DEF Situated, Place, NoTable
  <2> QED BY <1>1, <2>1, <2>2, GivenUp, Resting
<1> QED BY <1>4, <1>5, <1>6

\* The rows are rebuilt, for a table that a process left to itself finds.
LEMMA ProjectInvariant == ASSUME IInv, NEW p \in Procs, Project(p) PROVE IInv'
<1> DEFINE d   == View(p)
           new == [d EXCEPT !.assessments.rows = TRUE]
<1>1. pc[p] = "project" /\ Under(p) /\ Situated(p, d) /\ Rest(p)
  BY Situation DEF Project, Under, Active
<1>2. applied[p] \in 0 .. 2 /\ lock = p
  BY <1>1 DEF Situated, Inside, Outside
<1>3. CASE Do(p, new) /\ Goto(p, "validate") /\ d.assessments # NoTable
  <2>1. /\ new \in Database /\ new.ledger = d.ledger /\ new.runs = d.runs
        /\ new.moved = d.moved /\ new.aside = d.aside /\ new.assessments.rows
        /\ new.assessments.layout = d.assessments.layout
        /\ new.assessments.idx = d.assessments.idx
    BY <1>1 DEF Situated, Database, Table
  <2> HIDE DEF new
  <2>2. Proper(p, "validate", todo[p], new)
    BY <1>1, <1>2, <1>3, <2>1 DEF Situated, Proper, Inside, Current, Place, Projected
  <2> QED BY <1>1, <1>3, <2>2, Written, Resting
<1>4. CASE Leave(p, "failed") /\ d.assessments = NoTable
  <2>1. Exempt \/ start # "v2"
    BY <1>1, <1>4 DEF Situated, Place, NoTable
  <2> QED BY <1>1, <1>4, <2>1, GivenUp, Resting
<1>5. CASE /\ d.assessments = NoTable
           /\ Goto(p, "validate") /\ UNCHANGED <<db, work, lock>>
  <2>1. Proper(p, "validate", todo[p], d)
    BY <1>1, <1>2, <1>5 DEF Situated, Proper, Inside, Place, Projected, NoTable
  <2> QED BY <1>1, <1>5, <2>1, Passed, Resting
<1> QED BY <1>3, <1>4, <1>5 DEF Project, Statement

-----------------------------------------------------------------------------
(* The theorems *)

\* Every step preserves the invariant.
LEMMA NextInvariant == IInv /\ [Next]_vars => IInv'
<1> SUFFICES ASSUME IInv, [Next]_vars PROVE IInv'
  OBVIOUS
<1>1. ASSUME NEW p \in Procs, Step(p) PROVE IInv'
  <2>1. CASE ReadLedger(p)
    BY <2>1, ReadInvariant
  <2>2. CASE CreateRuns(p) \/ AddColumns(p)
    BY <2>2, CreateRunsInvariant, AddColumnsInvariant
  <2>3. CASE Insert(p, 1, "insert1", "canonicalize")
    BY <2>3, InsertInvariant
  <2>4. CASE Insert(p, 2, "insert2", "layout")
    BY <2>4, InsertInvariant
  <2>5. CASE Insert(p, 3, "insert3", "project")
    BY <2>5, InsertInvariant
  <2>6. CASE Canonicalize(p) \/ MoveRuns(p) \/ CopyRuns(p)
    BY <2>6, CanonicalizeInvariant, MoveRunsInvariant, CopyRunsInvariant
  <2>7. CASE CreateAssessments(p) \/ CreateIndexes(p)
    BY <2>7, CreateAssessmentsInvariant, CreateIndexesInvariant
  <2>8. CASE Layout(p) \/ DropIndexes(p) \/ Rename(p)
    BY <2>8, LayoutInvariant, DropIndexesInvariant, RenameInvariant
  <2>9. CASE Create(p) \/ DropOld(p) \/ Reindex(p)
    BY <2>9, CreateInvariant, DropOldInvariant, ReindexInvariant
  <2>10. CASE DatasetIndex(p) \/ Project(p) \/ Validate(p)
    BY <2>10, DatasetIndexInvariant, ProjectInvariant, ValidateInvariant
  <2> QED
    BY <1>1, <2>1, <2>2, <2>3, <2>4, <2>5, <2>6, <2>7, <2>8, <2>9, <2>10 DEF Step
<1>2. ASSUME NEW p \in Procs, Begin(p) \/ Stop(p) PROVE IInv'
  BY <1>2, BeginInvariant, StopInvariant
<1>3. CASE UNCHANGED vars
  BY <1>3 DEF vars, history, IInv, TypeOK, Locks, Layouts, Company, Committed, Undisturbed,
              Untouched, RunsKept, SupportedStays, Under, Active, View, Exempt
<1> QED BY <1>1, <1>2, <1>3 DEF Next

\* Whoever opens the database, and whoever is stopped where, the invariant holds.
THEOREM Invariance == Spec => []IInv
<1>1. Init => IInv
  BY InitInvariant
<1>2. IInv /\ [Next]_vars => IInv'
  BY NextInvariant
<1> QED BY <1>1, <1>2, PTL DEF Spec

\* Every variable keeps its type (_connect, metrics.py).
THEOREM TypeCorrect == Spec => []TypeOK
<1>1. IInv => TypeOK
  BY DEF IInv
<1> QED BY <1>1, Invariance, PTL

\* A ledger that lists all versions is that of a current database with rebuilt
\* rows, however many processes migrate it and are stopped (_apply_schema_migrations);
\* of a version 2 database, as long as nobody disturbs its rebuild.
THEOREM LedgerTruthfulAlways == Spec => []LedgerTruthful
<1>1. IInv => LedgerTruthful
  BY DEF IInv, Committed, Sound, LedgerTruthful
<1> QED BY <1>1, Invariance, PTL

\* The records of a database are never without their table, not even while
\* _canonicalize_legacy_runs_table replaces it.
THEOREM RunsKeptAlways == Spec => []RunsKept
<1>1. IInv => RunsKept
  BY DEF IInv
<1> QED BY <1>1, Invariance, PTL

\* No stop, and no other process before it, makes a process that is left to
\* itself refuse a supported database (_rebuild_v2_assessments_table,
\* _validate_current_schema).
THEOREM SupportedStaysAlways == Spec => []SupportedStays
<1>1. IInv => SupportedStays
  BY DEF IInv
<1> QED BY <1>1, Invariance, PTL
===============================================================================
