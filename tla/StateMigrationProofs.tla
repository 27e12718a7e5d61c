------------------------- MODULE StateMigrationProofs -------------------------
(***************************************************************************)
(* Theorems about StateMigration for any runs, any migrations and any      *)
(* number of saves: its types, that a published tree is the source of one  *)
(* moment, that success is for good, and that no root is replaced.         *)
(***************************************************************************)
EXTENDS StateMigration, TLAPS

Content(t, e) == IF e = Db THEN t.rows ELSE t.file[e]

\* Phases by what they know of the source.
Looked   == {"database", "validate", "rescan", "copy", "final", "check", "install", "sync"}
Compared == {"copy", "final", "check", "install", "sync"}
Taken    == {"final", "check", "install", "sync"}

Consistent(t) ==
  \A r \in Runs : t.file[r] = IF t.rows[r] = 0 THEN NoDir ELSE t.rows[r]

-----------------------------------------------------------------------------
(* The inductive invariant *)

\* The source has a database; what has never been there has no directory.
SourceInv ==
  /\ stamp[Db] # 0
  /\ \A r \in Runs : stamp[r] = 0 => tree.file[r] = NoDir

\* A fingerprint that is still the one of the first scan was so at its end.
Scanned(m) ==
  /\ \A e \in Entries : seen[m][e] <= stamp[e]
  /\ pc[m] = "scan" => Db \in todo[m] \/ seen[m][Db] # 0
  /\ pc[m] \in Looked =>
       /\ seen[m][Db] # 0
       /\ \A e \in Entries : seen[m][e] = stamp[e] => Content(tree, e) = Content(moment[m], e)

\* A run that the scan has not found was not there when the scan was over.
Absent(m) ==
  \A r \in Runs :
    /\ seen[m][r] = 0
    /\ pc[m] \in Compared \/ (pc[m] = "rescan" /\ r \notin todo[m])
    => moment[m].file[r] = NoDir

\* What has been copied is what the source was at that moment.
Copied(m) ==
  /\ pc[m] \in Phase \ Compared => copy[m].file = Empty.file
  /\ pc[m] = "copy" =>
       \A e \in Entries :
         IF e \in todo[m] \/ seen[m][e] = 0 THEN e # Db => copy[m].file[e] = NoDir
         ELSE Content(copy[m], e) = Content(moment[m], e)
  /\ pc[m] \in Taken => copy[m] = moment[m]
  /\ pc[m] \in {"install", "sync"} => Consistent(copy[m])

\* A state root is whole, and durable when that has been reported.
Rooted(m) ==
  /\ root = m => /\ pc[m] \in {"sync", "done", "failed"}
                 /\ copy[m] = moment[m] /\ Consistent(copy[m])
  /\ pc[m] = "sync" => root = m
  /\ pc[m] = "done" => root = m /\ synced
  /\ pc[m] = "idle" => copy[m] = Empty

\* Only a migration's own root can be undone.
RootInv == root \in Migrators \/ synced

Local(m) == Scanned(m) /\ Absent(m) /\ Copied(m) /\ Rooted(m)
Inv      == TypeOK /\ SourceInv /\ RootInv /\ \A m \in Migrators : Local(m)

-----------------------------------------------------------------------------
(* Types *)

\* The constants, as the proofs use them.
LEMMA Constants ==
  /\ Runs \subseteq Entries /\ Db \in Entries /\ Db \notin Runs
  /\ NoOne \notin Migrators /\ Other \notin Migrators /\ NoOne # Other
  /\ MaxSaves \in Nat /\ Empty \in Tree
BY DbAssumption, RootAssumption, SavesAssumption
   DEF Entries, Empty, Tree, NoDir, NoResults

\* The initial state has the types.
LEMMA InitTypes == Init => TypeOK
BY Constants DEF Init, TypeOK, Phase, Ended, Empty, NoDir, Entries

\* Saving a run in the source keeps the types.
LEMMA WriterTypes ==
  ASSUME TypeOK, NEW r \in Runs, Writer(r)
  PROVE  TypeOK'
<1>1. CASE MoveAway(r)
  <2>1. tree \in Tree /\ NoResults \in NoResults .. MaxSaves
    BY Constants DEF TypeOK, NoResults
  <2>2. tree' = WithFile(tree, r, NoResults)
    BY <1>1 DEF MoveAway
  <2>3. tree' \in Tree /\ tree'.rows = tree.rows
        /\ tree'.file = [tree.file EXCEPT ![r] = NoResults]
    BY <2>1, <2>2, Constants DEF Tree, WithFile, WithRows
  <2>4. \A x \in Runs : tree'.rows[x] <= saves'[x] /\ tree'.file[x] <= saves'[x]
    BY <1>1, <2>1, <2>3, Constants DEF MoveAway, TypeOK, Tree, NoResults
  <2> QED BY <1>1, <2>3, <2>4, Constants DEF MoveAway, Touch, Elsewhere, TypeOK
<1>2. CASE Publish(r)
  <2>1. tree \in Tree /\ saves[r] \in NoResults .. MaxSaves
    BY Constants DEF TypeOK, NoResults
  <2>2. tree' = WithFile(tree, r, saves[r])
    BY <1>2 DEF Publish
  <2>3. tree' \in Tree /\ tree'.rows = tree.rows
        /\ tree'.file = [tree.file EXCEPT ![r] = saves[r]]
    BY <2>1, <2>2, Constants DEF Tree, WithFile, WithRows
  <2>4. \A x \in Runs : tree'.rows[x] <= saves'[x] /\ tree'.file[x] <= saves'[x]
    BY <1>2, <2>1, <2>3, Constants DEF Publish, TypeOK, Tree, NoResults
  <2> QED BY <1>2, <2>3, <2>4, Constants DEF Publish, Touch, Elsewhere, TypeOK
<1>3. CASE Commit(r)
  <2>1. tree \in Tree /\ saves[r] \in 0 .. MaxSaves
    BY DEF TypeOK
  <2>2. tree' = WithRows(tree, [tree.rows EXCEPT ![r] = saves[r]])
    BY <1>3 DEF Commit
  <2>3. tree' \in Tree /\ tree'.file = tree.file
        /\ tree'.rows = [tree.rows EXCEPT ![r] = saves[r]]
    BY <2>1, <2>2, Constants DEF Tree, WithFile, WithRows
  <2>4. \A x \in Runs : tree'.rows[x] <= saves'[x] /\ tree'.file[x] <= saves'[x]
    <3>1. saves' = saves
      BY <1>3 DEF Commit
    <3> QED BY <2>1, <2>3, <3>1, Constants DEF TypeOK, Tree
  <2>5. stamp' = [stamp EXCEPT ![Db] = @ + 1] /\ saving' = [saving EXCEPT ![r] = "no"]
        /\ UNCHANGED <<saves, pc, seen, todo, copy, root, synced, moment>>
    BY <1>3 DEF Commit, Touch, Elsewhere
  <2> QED BY <2>3, <2>4, <2>5, Constants DEF TypeOK
<1>4. CASE Undo(r)
  <2> DEFINE old == IF tree.rows[r] = 0 THEN NoResults ELSE tree.rows[r]
  <2>1. tree \in Tree /\ old \in NoResults .. MaxSaves /\ old <= saves[r]
    BY Constants DEF TypeOK, Tree, NoResults
  <2>2. tree' = WithFile(tree, r, old)
    BY <1>4 DEF Undo
  <2> HIDE DEF old
  <2>3. tree' \in Tree /\ tree'.rows = tree.rows
        /\ tree'.file = [tree.file EXCEPT ![r] = old]
    BY <2>1, <2>2, Constants DEF Tree, WithFile, WithRows
  <2>4. \A x \in Runs : tree'.rows[x] <= saves'[x] /\ tree'.file[x] <= saves'[x]
    BY <1>4, <2>1, <2>3, Constants DEF Undo, TypeOK, Tree, NoResults
  <2> QED BY <1>4, <2>3, <2>4, Constants DEF Undo, Touch, Elsewhere, TypeOK
<1>5. CASE WriterKilled(r)
  BY <1>5 DEF WriterKilled, Elsewhere, TypeOK
<1> QED BY <1>1, <1>2, <1>3, <1>4, <1>5 DEF Writer

\* The end of a migration keeps the types.
LEMMA LeaveTypes ==
  ASSUME TypeOK, NEW m \in Migrators, NEW end \in Ended, Leave(m, end),
         UNCHANGED source, root' \in Migrators \cup {NoOne, Other}, synced' \in BOOLEAN
  PROVE  TypeOK'
<1>1. UNCHANGED <<tree, stamp, saves, saving>>
  BY DEF source
<1>2. pc' \in [Migrators -> Phase \cup Ended]
  <2>1. pc \in [Migrators -> Phase \cup Ended] /\ pc' = [pc EXCEPT ![m] = end]
    BY DEF TypeOK, Leave, Goto
  <2> QED BY <2>1
<1>3. seen' \in [Migrators -> [Entries -> Nat]]
  <2>1. seen \in [Migrators -> [Entries -> Nat]]
        /\ seen' = [seen EXCEPT ![m] = [e \in Entries |-> 0]]
    BY DEF TypeOK, Leave
  <2>2. [e \in Entries |-> 0] \in [Entries -> Nat]
    OBVIOUS
  <2> QED BY <2>1, <2>2
<1>4. todo' \in [Migrators -> SUBSET Entries]
  <2>1. todo \in [Migrators -> SUBSET Entries] /\ todo' = [todo EXCEPT ![m] = {}]
    BY DEF TypeOK, Leave
  <2> QED BY <2>1
<1>5. copy' \in [Migrators -> Tree] /\ moment' \in [Migrators -> Tree]
  <2>1. copy \in [Migrators -> Tree] /\ moment \in [Migrators -> Tree] /\ Empty \in Tree
    BY Constants DEF TypeOK
  <2>2. \/ UNCHANGED <<copy, moment>>
        \/ copy' = [copy EXCEPT ![m] = Empty] /\ moment' = [moment EXCEPT ![m] = Empty]
    BY DEF Leave
  <2> QED BY <2>1, <2>2
<1>6. tree \in Tree /\ \A r \in Runs : tree.rows[r] <= saves[r] /\ tree.file[r] <= saves[r]
  BY DEF TypeOK
<1> QED BY <1>1, <1>2, <1>3, <1>4, <1>5, <1>6 DEF TypeOK

\* A migration that copies one more entry has a tree.
LEMMA CopyTypes ==
  ASSUME TypeOK, NEW m \in Migrators
  PROVE  /\ [copy EXCEPT ![m] = WithRows(copy[m], tree.rows)] \in [Migrators -> Tree]
         /\ \A e \in Runs :
              [copy EXCEPT ![m] = WithFile(copy[m], e, tree.file[e])] \in [Migrators -> Tree]
BY DEF TypeOK, Tree, Entries, WithFile, WithRows

\* A pass keeps the types of its phase and of what it has to visit.
LEMMA VisitTypes ==
  ASSUME TypeOK, NEW m \in Migrators, NEW e, NEW next \in Phase, NEW then \in SUBSET Entries,
         Visit(m, e, next, then)
  PROVE  pc' \in [Migrators -> Phase \cup Ended] /\ todo' \in [Migrators -> SUBSET Entries]
<1>1. todo \in [Migrators -> SUBSET Entries] /\ pc \in [Migrators -> Phase \cup Ended]
  BY DEF TypeOK
<1> QED BY <1>1 DEF Visit, Goto

\* Every step of a migration keeps the types.
LEMMA StepTypes ==
  ASSUME TypeOK, NEW m \in Migrators, Step(m) \/ Fails(m)
  PROVE  TypeOK'
<1> USE Constants
<1>1. CASE Leave(m, "failed") /\ UNCHANGED <<source, root, synced>>
  <2>1. "failed" \in Ended /\ root' \in Migrators \cup {NoOne, Other} /\ synced' \in BOOLEAN
    BY <1>1 DEF Ended, TypeOK
  <2> QED BY <1>1, <2>1, LeaveTypes
<1>2. CASE Begin(m) /\ root = NoOne
  <2>1. pc' \in [Migrators -> Phase \cup Ended] /\ todo' \in [Migrators -> SUBSET Entries]
    BY <1>2 DEF Begin, Goto, TypeOK, Phase
  <2> QED BY <1>2, <2>1 DEF Begin, TypeOK, source
<1>3. CASE Scan(m)
  <2>1. PICK e \in todo[m] :
          /\ seen' = [seen EXCEPT ![m][e] = stamp[e]]
          /\ Visit(m, e, "database", {})
          /\ moment' = moment \/ moment' = [moment EXCEPT ![m] = tree]
          /\ UNCHANGED <<source, copy, root, synced>>
    BY <1>3 DEF Scan
  <2>2. e \in Entries /\ seen' \in [Migrators -> [Entries -> Nat]]
    BY <2>1 DEF TypeOK
  <2>3. pc' \in [Migrators -> Phase \cup Ended] /\ todo' \in [Migrators -> SUBSET Entries]
    <3>1. {} \in SUBSET Entries /\ Entries \in SUBSET Entries
          /\ {"database", "copy", "check", "final"} \subseteq Phase
      BY DEF Phase
    <3> QED BY <2>1, <3>1, VisitTypes
  <2> QED BY <2>1, <2>2, <2>3 DEF TypeOK, source
<1>4. CASE Database(m) /\ Unchanged(m, Db)
  <2>1. /\ pc' = [pc EXCEPT ![m] = "validate"] /\ todo' = [todo EXCEPT ![m] = Runs]
        /\ copy' = [copy EXCEPT ![m] = WithRows(copy[m], tree.rows)]
        /\ UNCHANGED <<source, seen, root, synced, moment>>
    BY <1>4 DEF Database, Goto
  <2>2. copy' \in [Migrators -> Tree]
    BY <2>1, CopyTypes
  <2> QED BY <2>1, <2>2 DEF TypeOK, Phase, source
<1>5. CASE Validate(m) /\ ~Raise(m)
  <2>1. /\ pc' = pc \/ pc' = [pc EXCEPT ![m] = "rescan"]
        /\ todo' = [todo EXCEPT ![m] = Entries] \/ \E r \in todo[m] : todo' = [todo EXCEPT ![m] = @ \ {r}]
        /\ UNCHANGED <<source, seen, copy, root, synced, moment>>
    BY <1>5 DEF Validate, Goto
  <2> QED BY <2>1 DEF TypeOK, Phase, source
<1>6. CASE Rescan(m) /\ ~Raise(m)
  <2>1. PICK e \in todo[m] :
          /\ Visit(m, e, IF pc[m] = "rescan" THEN "copy" ELSE "check",
                   IF pc[m] = "rescan" THEN Entries ELSE {})
          /\ UNCHANGED <<source, seen, copy, root, synced, moment>>
    BY <1>6 DEF Rescan
  <2>2. pc' \in [Migrators -> Phase \cup Ended] /\ todo' \in [Migrators -> SUBSET Entries]
    <3>1. {} \in SUBSET Entries /\ Entries \in SUBSET Entries
          /\ {"database", "copy", "check", "final"} \subseteq Phase
      BY DEF Phase
    <3> QED BY <2>1, <3>1, VisitTypes
  <2> QED BY <2>1, <2>2 DEF TypeOK, source
<1>7. CASE Copy(m) /\ ~Raise(m)
  <2>1. PICK e \in todo[m] :
          /\ Visit(m, e, "final", Entries)
          /\ copy' = IF seen[m][e] = 0 THEN copy
                     ELSE IF e = Db THEN [copy EXCEPT ![m] = WithRows(copy[m], tree.rows)]
                     ELSE [copy EXCEPT ![m] = WithFile(copy[m], e, tree.file[e])]
          /\ UNCHANGED <<seen, moment>>
    BY <1>7 DEF Copy
  <2>2. e \in Entries
    BY DEF TypeOK
  <2>3. copy' \in [Migrators -> Tree]
    BY <2>1, <2>2, CopyTypes DEF TypeOK, Entries
  <2>4. pc' \in [Migrators -> Phase \cup Ended] /\ todo' \in [Migrators -> SUBSET Entries]
    <3>1. {} \in SUBSET Entries /\ Entries \in SUBSET Entries
          /\ {"database", "copy", "check", "final"} \subseteq Phase
      BY DEF Phase
    <3> QED BY <2>1, <3>1, VisitTypes
  <2> QED BY <1>7, <2>1, <2>3, <2>4 DEF Copy, TypeOK, source
<1>8. CASE Check(m) /\ ~Raise(m)
  BY <1>8 DEF Check, Goto, TypeOK, Phase, source
<1>9. CASE Install(m) /\ root = NoOne
  BY <1>9 DEF Install, Goto, TypeOK, Phase, source
<1>10. CASE Sync(m)
  BY <1>10, LeaveTypes DEF Sync, Ended, TypeOK
<1>11. Fails(m) => Leave(m, "failed") /\ UNCHANGED <<source, root, synced>>
  BY DEF Fails, Raise
<1>12. /\ Begin(m) /\ root # NoOne => Leave(m, "failed") /\ UNCHANGED <<source, root, synced>>
       /\ Database(m) /\ ~Unchanged(m, Db)
            => Leave(m, "failed") /\ UNCHANGED <<source, root, synced>>
       /\ Install(m) /\ root # NoOne => Leave(m, "failed") /\ UNCHANGED <<source, root, synced>>
  BY DEF Begin, Database, Install, Raise
<1>13. /\ Validate(m) => UNCHANGED <<source, root, synced>>
       /\ Rescan(m) => UNCHANGED <<source, root, synced>>
       /\ Copy(m) => UNCHANGED <<source, root, synced>>
       /\ Check(m) => UNCHANGED <<source, root, synced>>
  BY DEF Validate, Rescan, Copy, Check
<1> QED BY <1>1, <1>2, <1>3, <1>4, <1>5, <1>6, <1>7, <1>8, <1>9, <1>10, <1>11, <1>12, <1>13
        DEF Step, Raise

\* Every step keeps the types.
LEMMA NextTypes == TypeOK /\ [Next]_vars => TypeOK'
<1> SUFFICES ASSUME TypeOK, [Next]_vars PROVE TypeOK' OBVIOUS
<1>1. CASE UNCHANGED vars BY <1>1 DEF vars, source, TypeOK
<1>2. CASE OtherRoot BY <1>2 DEF OtherRoot, TypeOK, source
<1>3. CASE PowerLoss
  BY <1>3, Constants DEF PowerLoss, TypeOK, Ended
<1> QED BY <1>1, <1>2, <1>3, WriterTypes, StepTypes DEF Next

\* Variables keep their types, for any runs, migrations and number of saves.
THEOREM TypeCorrect == Spec => []TypeOK
BY InitTypes, NextTypes, PTL DEF Spec

-----------------------------------------------------------------------------
(* The invariant is inductive *)

\* Nobody has begun.
LEMMA InitInv == Init => Inv
<1> SUFFICES ASSUME Init PROVE Inv OBVIOUS
<1>1. TypeOK
  BY InitTypes
<1>2. SourceInv /\ RootInv
  BY Constants DEF Init, SourceInv, RootInv, Empty, NoDir
<1>3. ASSUME NEW m \in Migrators PROVE Local(m)
  BY <1>1, Constants
     DEF Init, TypeOK, Local, Scanned, Absent, Copied, Rooted, Looked, Compared, Taken, Phase
<1> QED BY <1>1, <1>2, <1>3 DEF Inv

\* A change of one entry of the source, with a new fingerprint, keeps the
\* invariant: the entry is no longer the one that anybody has seen.
LEMMA SourceStep ==
  ASSUME Inv, TypeOK', NEW e \in Entries,
         stamp' = [stamp EXCEPT ![e] = @ + 1],
         \A x \in Entries \ {e} : Content(tree', x) = Content(tree, x),
         Elsewhere
  PROVE  Inv'
<1>1. /\ stamp \in [Entries -> Nat] /\ stamp'[e] = stamp[e] + 1
      /\ \A x \in Entries : stamp[x] \in Nat /\ stamp'[x] >= stamp[x]
      /\ \A x \in Entries \ {e} : stamp'[x] = stamp[x]
  BY DEF Inv, TypeOK
<1>2. SourceInv'
  <2>1. stamp'[Db] # 0
    BY <1>1, Constants DEF Inv, SourceInv
  <2>2. ASSUME NEW r \in Runs, stamp'[r] = 0 PROVE tree'.file[r] = NoDir
    <3>1. r # e /\ r \in Entries /\ r # Db /\ stamp[r] = 0
      BY <1>1, <2>2, Constants
    <3> QED BY <3>1 DEF Inv, SourceInv, Content
  <2> QED BY <2>1, <2>2 DEF SourceInv
<1>3. ASSUME NEW m \in Migrators PROVE Local(m)'
  <2>1. UNCHANGED <<pc, seen, todo, copy, root, synced, moment>>
    BY DEF Elsewhere
  <2>2. Local(m) /\ seen[m] \in [Entries -> Nat]
    BY DEF Inv, TypeOK
  <2>3. Scanned(m)'
    <3>1. ASSUME NEW x \in Entries PROVE seen'[m][x] <= stamp'[x]
      BY <1>1, <2>1, <2>2 DEF Local, Scanned
    <3>2. ASSUME pc'[m] \in Looked, NEW x \in Entries, seen'[m][x] = stamp'[x]
          PROVE  Content(tree', x) = Content(moment'[m], x)
      <4>1. x # e
        BY <1>1, <2>1, <2>2, <3>2 DEF Local, Scanned
      <4> QED BY <4>1, <1>1, <2>1, <2>2, <3>2 DEF Local, Scanned, Content
    <3> QED BY <3>1, <3>2, <2>1, <2>2 DEF Local, Scanned, Content
  <2>4. Absent(m)' /\ Copied(m)' /\ Rooted(m)'
    BY <2>1, <2>2 DEF Local, Absent, Copied, Rooted, Content, Consistent
  <2> QED BY <2>3, <2>4 DEF Local
<1>4. RootInv'
  BY DEF Inv, RootInv, Elsewhere
<1> QED BY <1>2, <1>3, <1>4 DEF Inv

\* Saving a run keeps the invariant.
LEMMA WriterInv ==
  ASSUME Inv, NEW r \in Runs, Writer(r)
  PROVE  Inv'
<1>1. TypeOK' /\ tree \in Tree
  BY WriterTypes DEF Inv, TypeOK
<1>2. ASSUME NEW f, tree' = WithFile(tree, r, f), Touch(r), Elsewhere PROVE Inv'
  <2>1. \A x \in Entries \ {r} : Content(tree', x) = Content(tree, x)
    BY <1>1, <1>2, Constants DEF Content, WithFile, Tree, Entries
  <2> QED BY <1>1, <1>2, <2>1, SourceStep, Constants DEF Touch
<1>3. ASSUME NEW rows, tree' = WithRows(tree, rows), Touch(Db), Elsewhere PROVE Inv'
  <2>1. \A x \in Entries \ {Db} : Content(tree', x) = Content(tree, x)
    BY <1>3 DEF Content, WithRows
  <2> QED BY <1>1, <1>3, <2>1, SourceStep, Constants DEF Touch
<1>4. CASE WriterKilled(r)
  <2>1. UNCHANGED <<tree, stamp, pc, seen, todo, copy, root, synced, moment>>
    BY <1>4 DEF WriterKilled, Elsewhere
  <2> QED BY <1>1, <2>1
          DEF Inv, SourceInv, RootInv, Local, Scanned, Absent, Copied, Rooted, Content, Consistent
<1> QED BY <1>2, <1>3, <1>4 DEF Writer, MoveAway, Publish, Commit, Undo

\* What does not concern a migration keeps its part of the invariant.
LEMMA Frame ==
  ASSUME NEW m \in Migrators, Local(m), UNCHANGED <<tree, stamp>>,
         pc'[m] = pc[m], seen'[m] = seen[m], todo'[m] = todo[m],
         copy'[m] = copy[m], moment'[m] = moment[m],
         root' = m <=> root = m, pc[m] = "done" => synced'
  PROVE  Local(m)'
BY DEF Local, Scanned, Absent, Copied, Rooted, Content, Consistent

\* A step of one migration leaves the variables of the others alone.
LEMMA Others ==
  ASSUME TypeOK, NEW m \in Migrators, Step(m) \/ Fails(m)
  PROVE  \A n \in Migrators \ {m} :
           /\ pc'[n] = pc[n] /\ seen'[n] = seen[n] /\ todo'[n] = todo[n]
           /\ copy'[n] = copy[n] /\ moment'[n] = moment[n]
BY DEF TypeOK, Step, Fails, Begin, Scan, Database, Validate, Rescan, Copy, Check, Install, Sync,
       Raise, Leave, Visit, Goto

\* So it is enough to look at the migration that takes the step.
LEMMA OwnStep ==
  ASSUME Inv, NEW m \in Migrators, Step(m) \/ Fails(m), UNCHANGED <<tree, stamp>>,
         root' = root \/ (root = NoOne /\ root' = m),
         synced' \/ synced' = synced \/ root' = m,
         Local(m)'
  PROVE  Inv'
<1>1. TypeOK'
  BY StepTypes DEF Inv
<1>2. SourceInv' /\ RootInv'
  BY DEF Inv, SourceInv, RootInv
<1>3. ASSUME NEW n \in Migrators, n # m PROVE Local(n)'
  <2>1. Local(n) /\ pc[n] = "done" => root = n /\ synced
    BY <1>3 DEF Inv, Local, Rooted
  <2>2. (root' = n <=> root = n) /\ (pc[n] = "done" => synced')
    BY <1>3, <2>1, Constants DEF Inv
  <2>3. /\ pc'[n] = pc[n] /\ seen'[n] = seen[n] /\ todo'[n] = todo[n]
        /\ copy'[n] = copy[n] /\ moment'[n] = moment[n]
    BY <1>3, Others DEF Inv
  <2> QED BY <1>3, <2>2, <2>3, Frame DEF Inv
<1> QED BY <1>1, <1>2, <1>3 DEF Inv

\* The end of a migration.
LEMMA LeaveLocal ==
  ASSUME Inv, NEW m \in Migrators, NEW end \in {"failed", "done"}, Leave(m, end),
         UNCHANGED <<source, root>>, pc[m] # "idle" \/ root # m,
         end = "done" => pc[m] = "sync" /\ synced'
  PROVE  Local(m)'
<1>1. /\ Local(m) /\ pc \in [Migrators -> Phase \cup Ended] /\ stamp \in [Entries -> Nat]
      /\ seen \in [Migrators -> [Entries -> Nat]]
      /\ copy \in [Migrators -> Tree] /\ moment \in [Migrators -> Tree]
  BY DEF Inv, TypeOK
<1>2. /\ pc'[m] = end /\ seen'[m] = [e \in Entries |-> 0] /\ root' = root /\ stamp' = stamp
      /\ root = m => copy'[m] = copy[m] /\ moment'[m] = moment[m]
  BY <1>1 DEF Leave, Goto, source
<1>3. Scanned(m)' /\ Absent(m)' /\ Copied(m)'
  BY <1>1, <1>2 DEF Scanned, Absent, Copied, Looked, Compared, Taken, Phase
<1>4. Rooted(m)'
  BY <1>1, <1>2 DEF Local, Rooted, Consistent
<1> QED BY <1>3, <1>4 DEF Local

\* So a migration that fails keeps the invariant.
LEMMA RaiseInv ==
  ASSUME Inv, NEW m \in Migrators, Step(m) \/ Fails(m), Raise(m),
         UNCHANGED <<source, root, synced>>, pc[m] # "idle" \/ root # NoOne
  PROVE  Inv'
<1>1. pc[m] # "idle" \/ root # m
  BY DEF Inv, Local, Rooted
<1>2. Local(m)'
  BY <1>1, LeaveLocal DEF Raise
<1> QED BY <1>2, OwnStep DEF source

\* The start of a migration.
LEMMA BeginInv ==
  ASSUME Inv, NEW m \in Migrators, Begin(m)
  PROVE  Inv'
<1>1. CASE root # NoOne
  BY <1>1, RaiseInv DEF Begin, Step
<1>2. CASE root = NoOne
  <2>1. /\ pc[m] = "idle" /\ pc'[m] = "scan" /\ todo'[m] = Entries
        /\ UNCHANGED <<source, seen, copy, moment, root, synced>>
    BY <1>2 DEF Begin, Goto, Inv, TypeOK
  <2>2. Local(m) /\ root # m
    BY <1>2, Constants DEF Inv
  <2>3. Local(m)'
    BY <2>1, <2>2, Constants
       DEF Local, Scanned, Absent, Copied, Rooted, Looked, Compared, Taken, Phase, source
  <2> QED BY <1>2, <2>1, <2>3, OwnStep DEF Step, source
<1> QED BY <1>1, <1>2

\* The first scan; when it is over, the source of that moment is noted.
LEMMA ScanInv ==
  ASSUME Inv, NEW m \in Migrators, Scan(m)
  PROVE  Inv'
<1>1. PICK e \in todo[m] :
        /\ seen' = [seen EXCEPT ![m][e] = stamp[e]]
        /\ Visit(m, e, "database", {})
        /\ moment' = IF todo[m] = {e} THEN [moment EXCEPT ![m] = tree] ELSE moment
  BY DEF Scan
<1>2. /\ pc[m] = "scan" /\ UNCHANGED <<source, copy, root, synced>>
      /\ Local(m) /\ SourceInv /\ e \in Entries /\ stamp \in [Entries -> Nat]
      /\ pc \in [Migrators -> Phase \cup Ended] /\ todo \in [Migrators -> SUBSET Entries]
      /\ seen \in [Migrators -> [Entries -> Nat]] /\ moment \in [Migrators -> Tree]
  BY DEF Scan, Inv, TypeOK
<1>3. /\ UNCHANGED <<tree, stamp>> /\ copy'[m] = copy[m] /\ root' = root
      /\ seen'[m][e] = stamp[e] /\ \A x \in Entries \ {e} : seen'[m][x] = seen[m][x]
  BY <1>1, <1>2 DEF source
<1>4. /\ todo[m] = {e} => pc'[m] = "database" /\ moment'[m] = tree
      /\ todo[m] # {e} => pc'[m] = "scan" /\ todo'[m] = todo[m] \ {e}
  BY <1>1, <1>2 DEF Visit, Goto
<1>5. Scanned(m)'
  <2>1. \A x \in Entries : seen'[m][x] <= stamp'[x]
    BY <1>2, <1>3 DEF Local, Scanned
  <2>2. Db \in todo'[m] \/ seen'[m][Db] # 0 \/ todo[m] = {e}
    BY <1>2, <1>3, <1>4, Constants DEF Local, Scanned, SourceInv
  <2>3. todo[m] = {e} => seen'[m][Db] # 0
    BY <1>2, <1>3, Constants DEF Local, Scanned, SourceInv
  <2> QED BY <1>3, <1>4, <2>1, <2>2, <2>3 DEF Scanned, Looked
<1>6. Absent(m)' /\ Copied(m)' /\ Rooted(m)'
  BY <1>2, <1>3, <1>4 DEF Local, Absent, Copied, Rooted, Compared, Taken, Phase
<1>7. Local(m)'
  BY <1>5, <1>6 DEF Local
<1> QED BY <1>2, <1>3, <1>7, OwnStep DEF Step

\* The private copy of the database replaces only rows.
LEMMA DatabaseInv ==
  ASSUME Inv, NEW m \in Migrators, Database(m)
  PROVE  Inv'
<1>1. CASE ~Unchanged(m, Db)
  BY <1>1, RaiseInv DEF Database, Step
<1>2. CASE Unchanged(m, Db)
  <2>1. /\ pc[m] = "database" /\ pc' = [pc EXCEPT ![m] = "validate"]
        /\ copy' = [copy EXCEPT ![m] = WithRows(copy[m], tree.rows)]
        /\ UNCHANGED <<source, seen, moment, root, synced>>
    BY <1>2 DEF Database, Goto
  <2>2. /\ pc'[m] = "validate" /\ copy'[m].file = copy[m].file
        /\ UNCHANGED <<tree, stamp>> /\ seen'[m] = seen[m] /\ moment'[m] = moment[m]
    BY <2>1 DEF Inv, TypeOK, WithRows, source
  <2>3. Local(m) /\ root # m
    BY <2>1 DEF Inv, Local, Rooted
  <2>4. Local(m)'
    BY <2>1, <2>2, <2>3
       DEF Local, Scanned, Absent, Copied, Rooted, Looked, Compared, Taken, Phase, Content
  <2> QED BY <2>1, <2>2, <2>4, OwnStep DEF Step
<1> QED BY <1>1, <1>2

\* Reading the records changes nothing.
LEMMA ValidateInv ==
  ASSUME Inv, NEW m \in Migrators, Validate(m)
  PROVE  Inv'
<1>1. CASE Raise(m)
  BY <1>1, RaiseInv DEF Validate, Step
<1>2. CASE ~Raise(m)
  <2>1. /\ pc[m] = "validate"
        /\ pc' = pc \/ (pc' = [pc EXCEPT ![m] = "rescan"] /\ todo' = [todo EXCEPT ![m] = Entries])
        /\ UNCHANGED <<source, seen, copy, root, synced, moment>>
    BY <1>2 DEF Validate, Goto
  <2>2. pc'[m] = "validate" \/ (pc'[m] = "rescan" /\ todo'[m] = Entries)
    BY <2>1 DEF Inv, TypeOK
  <2>3. Local(m)
    BY DEF Inv
  <2>4. Local(m)'
    BY <2>1, <2>2, <2>3, Constants
       DEF Local, Scanned, Absent, Copied, Rooted, Looked, Compared, Taken, Phase, Content, source
  <2> QED BY <2>1, <2>4, OwnStep DEF Step, source
<1> QED BY <1>1, <1>2

\* A comparison that finds an entry still absent has seen that it was absent
\* when the first scan was over.
LEMMA RescanInv ==
  ASSUME Inv, NEW m \in Migrators, Rescan(m)
  PROVE  Inv'
<1>1. CASE Raise(m)
  BY <1>1, RaiseInv DEF Rescan, Step
<1>2. CASE ~Raise(m)
  <2>1. PICK e \in todo[m] :
          /\ Unchanged(m, e)
          /\ Visit(m, e, IF pc[m] = "rescan" THEN "copy" ELSE "check",
                   IF pc[m] = "rescan" THEN Entries ELSE {})
          /\ UNCHANGED <<seen, copy, moment>>
    BY <1>2 DEF Rescan
  <2>2. /\ pc[m] \in {"rescan", "final"} /\ UNCHANGED <<source, root, synced>>
        /\ Local(m) /\ SourceInv /\ e \in Entries
        /\ pc \in [Migrators -> Phase \cup Ended] /\ todo \in [Migrators -> SUBSET Entries]
    BY DEF Rescan, Inv, TypeOK
  <2>3. /\ pc[m] = "final" => pc'[m] \in {"final", "check"}
        /\ pc[m] = "rescan" =>
             \/ pc'[m] = "rescan" /\ todo'[m] = todo[m] \ {e}
             \/ pc'[m] = "copy" /\ todo[m] = {e} /\ todo'[m] = Entries
    BY <2>1, <2>2 DEF Visit, Goto
  <2>4. UNCHANGED <<tree, stamp, seen, copy, moment>>
    BY <2>1, <2>2 DEF source
  <2>5. Scanned(m)'
    BY <2>2, <2>3, <2>4 DEF Local, Scanned, Looked, Content
  <2>6. seen[m][e] = 0 /\ e \in Runs => moment[m].file[e] = NoDir
    BY <2>1, <2>2, Constants DEF Unchanged, Local, Scanned, SourceInv, Looked, Content
  <2>7. Absent(m)'
    <3>1. ASSUME NEW r \in Runs, seen[m][r] = 0,
                 pc'[m] \in Compared \/ (pc'[m] = "rescan" /\ r \notin todo'[m])
          PROVE  moment[m].file[r] = NoDir
      <4>1. pc[m] \in Compared \/ r \notin todo[m] \/ r = e
        BY <2>2, <2>3, <3>1 DEF Compared
      <4> QED BY <2>2, <2>6, <3>1, <4>1 DEF Local, Absent, Compared
    <3> QED BY <2>4, <3>1 DEF Absent
  <2>8. Copied(m)'
    <3>1. pc[m] = "final" => Copied(m)'
      BY <2>2, <2>3, <2>4 DEF Local, Copied, Compared, Taken, Phase
    <3>2. pc[m] = "rescan" => copy[m].file = Empty.file
      BY <2>2 DEF Local, Copied, Compared, Phase
    <3>3. pc[m] = "rescan" => Copied(m)'
      BY <2>2, <2>3, <2>4, <3>2, Constants DEF Copied, Compared, Taken, Phase, Empty, Entries
    <3> QED BY <2>2, <3>1, <3>3
  <2>9. Rooted(m)'
    BY <2>2, <2>3, <2>4 DEF Local, Rooted
  <2>10. Local(m)'
    BY <2>5, <2>7, <2>8, <2>9 DEF Local
  <2> QED BY <2>2, <2>4, <2>10, OwnStep DEF Step
<1> QED BY <1>1, <1>2

\* Two trees with the same entries are the same tree.
LEMMA SameTree ==
  ASSUME NEW t \in Tree, NEW u \in Tree, \A e \in Entries : Content(t, e) = Content(u, e)
  PROVE  t = u
<1>1. t.rows = u.rows
  BY Constants DEF Content
<1>2. \A r \in Runs : t.file[r] = u.file[r]
  BY Constants DEF Content
<1>3. t.file = u.file
  BY <1>2 DEF Tree
<1> QED BY <1>1, <1>3 DEF Tree

\* An entry that is copied is the one of the first scan, so the one of the moment.
LEMMA CopyInv ==
  ASSUME Inv, NEW m \in Migrators, Copy(m)
  PROVE  Inv'
<1>1. CASE Raise(m)
  BY <1>1, RaiseInv DEF Copy, Step
<1>2. CASE ~Raise(m)
  <2>1. PICK e \in todo[m] :
          /\ seen[m][e] = 0 \/ Unchanged(m, e)
          /\ Visit(m, e, "final", Entries)
          /\ copy' = IF seen[m][e] = 0 THEN copy
                     ELSE IF e = Db THEN [copy EXCEPT ![m] = WithRows(copy[m], tree.rows)]
                     ELSE [copy EXCEPT ![m] = WithFile(copy[m], e, tree.file[e])]
          /\ UNCHANGED <<seen, moment>>
    BY <1>2 DEF Copy
  <2>2. /\ pc[m] = "copy" /\ UNCHANGED <<source, root, synced>>
        /\ Local(m) /\ SourceInv /\ e \in Entries
        /\ pc \in [Migrators -> Phase \cup Ended] /\ todo \in [Migrators -> SUBSET Entries]
        /\ copy \in [Migrators -> Tree] /\ moment \in [Migrators -> Tree]
        /\ copy[m] \in Tree /\ moment[m] \in Tree
    BY DEF Copy, Inv, TypeOK
  <2>3. \/ pc'[m] = "copy" /\ todo'[m] = todo[m] \ {e}
        \/ pc'[m] = "final" /\ todo[m] = {e}
    BY <2>1, <2>2 DEF Visit, Goto
  <2>4. UNCHANGED <<tree, stamp, seen, moment>> /\ root # m
    BY <2>1, <2>2 DEF source, Local, Rooted
  <2>5. Scanned(m)' /\ Absent(m)'
    BY <2>2, <2>3, <2>4 DEF Local, Scanned, Absent, Looked, Compared, Content
  <2>6. seen[m][e] # 0 => Content(tree, e) = Content(moment[m], e)
    BY <2>1, <2>2 DEF Local, Scanned, Looked, Unchanged
  <2>7. /\ \A x \in Entries \ {e} : Content(copy'[m], x) = Content(copy[m], x)
        /\ seen[m][e] = 0 => copy'[m] = copy[m]
        /\ seen[m][e] # 0 => Content(copy'[m], e) = Content(moment[m], e)
    <3>1. CASE seen[m][e] = 0
      BY <2>1, <3>1
    <3>2. CASE seen[m][e] # 0 /\ e = Db
      <4>1. copy'[m] = WithRows(copy[m], tree.rows)
        BY <2>1, <2>2, <3>2
      <4> QED BY <2>6, <3>2, <4>1 DEF Content, WithRows
    <3>3. CASE seen[m][e] # 0 /\ e # Db
      <4>1. copy'[m] = WithFile(copy[m], e, tree.file[e]) /\ e \in Runs
        BY <2>1, <2>2, <3>3 DEF Entries
      <4>2. copy[m].file \in [Runs -> NoResults .. MaxSaves]
        BY <2>2 DEF Tree
      <4>3. /\ copy'[m].rows = copy[m].rows /\ copy'[m].file[e] = tree.file[e]
            /\ \A x \in Runs \ {e} : copy'[m].file[x] = copy[m].file[x]
        BY <4>1, <4>2 DEF WithFile
      <4> QED BY <2>6, <3>3, <4>3 DEF Content, Entries
    <3> QED BY <3>1, <3>2, <3>3
  <2>8. ASSUME NEW x \in Entries, x \notin todo[m] \ {e}, seen[m][x] # 0
        PROVE  Content(copy'[m], x) = Content(moment[m], x)
    BY <2>2, <2>7, <2>8 DEF Local, Copied
  <2>9. ASSUME NEW x \in Entries, x \in todo[m] \ {e} \/ seen[m][x] = 0, x # Db
        PROVE  copy'[m].file[x] = NoDir
    <3>1. copy[m].file[x] = NoDir
      BY <2>2, <2>9 DEF Local, Copied
    <3>2. Content(copy'[m], x) = Content(copy[m], x)
      BY <2>7, <2>9
    <3> QED BY <2>9, <3>1, <3>2 DEF Content
  <2>10. pc'[m] = "final" => copy'[m] = moment'[m]
    <3>1. SUFFICES ASSUME pc'[m] = "final" PROVE copy'[m] = moment[m]
      BY <2>4
    <3>2. copy'[m] \in Tree
      BY StepTypes DEF Inv, TypeOK, Step
    <3>3. ASSUME NEW x \in Entries PROVE Content(copy'[m], x) = Content(moment[m], x)
      <4>1. CASE seen[m][x] # 0
        BY <2>3, <2>8, <3>1, <4>1
      <4>2. CASE seen[m][x] = 0
        <5>1. x # Db /\ x \in Runs
          BY <2>2, <4>2 DEF Local, Scanned, Looked, Entries
        <5>2. moment[m].file[x] = NoDir
          BY <2>2, <4>2, <5>1 DEF Local, Absent, Compared
        <5> QED BY <2>9, <4>2, <5>1, <5>2 DEF Content
      <4> QED BY <4>1, <4>2
    <3> QED BY <2>2, <3>2, <3>3, SameTree
  <2>11. Copied(m)'
    BY <2>3, <2>4, <2>8, <2>9, <2>10 DEF Copied, Compared, Taken, Phase
  <2>12. Rooted(m)'
    BY <2>2, <2>3, <2>4 DEF Local, Rooted
  <2>13. Local(m)'
    BY <2>5, <2>11, <2>12 DEF Local
  <2> QED BY <2>2, <2>4, <2>13, OwnStep DEF Step
<1> QED BY <1>1, <1>2

\* The temporary tree is found consistent.
LEMMA CheckInv ==
  ASSUME Inv, NEW m \in Migrators, Check(m)
  PROVE  Inv'
<1>1. CASE Raise(m)
  BY <1>1, RaiseInv DEF Check, Step
<1>2. CASE ~Raise(m)
  <2>1. /\ pc[m] = "check" /\ pc' = [pc EXCEPT ![m] = "install"] /\ Consistent(copy[m])
        /\ UNCHANGED <<source, seen, todo, copy, moment, root, synced>>
    BY <1>2 DEF Check, Goto, Consistent, Agrees
  <2>2. pc'[m] = "install" /\ Local(m) /\ root # m
    BY <2>1 DEF Inv, TypeOK, Local, Rooted
  <2>3. Local(m)'
    BY <2>1, <2>2 DEF Local, Scanned, Absent, Copied, Rooted, Looked, Compared, Taken, Phase,
                      Content, Consistent, source
  <2> QED BY <2>1, <2>3, OwnStep DEF Step, source
<1> QED BY <1>1, <1>2

\* The rename publishes a whole and consistent tree.
LEMMA InstallInv ==
  ASSUME Inv, NEW m \in Migrators, Install(m)
  PROVE  Inv'
<1>1. CASE root # NoOne
  BY <1>1, RaiseInv DEF Install, Step
<1>2. CASE root = NoOne
  <2>1. /\ pc[m] = "install" /\ pc' = [pc EXCEPT ![m] = "sync"] /\ root' = m
        /\ UNCHANGED <<source, seen, todo, copy, moment>>
    BY <1>2 DEF Install, Goto
  <2>2. pc'[m] = "sync" /\ Local(m)
    BY <2>1 DEF Inv, TypeOK
  <2>3. Local(m)'
    BY <2>1, <2>2 DEF Local, Scanned, Absent, Copied, Rooted, Looked, Compared, Taken, Phase,
                      Content, Consistent, source
  <2> QED BY <1>2, <2>1, <2>3, OwnStep DEF Step, source
<1> QED BY <1>1, <1>2

\* Success is reported for a durable root.
LEMMA SyncInv ==
  ASSUME Inv, NEW m \in Migrators, Sync(m)
  PROVE  Inv'
<1>1. pc[m] = "sync" /\ synced' /\ Leave(m, "done") /\ UNCHANGED <<source, root>>
  BY DEF Sync
<1>2. Local(m)'
  BY <1>1, LeaveLocal
<1> QED BY <1>1, <1>2, OwnStep DEF Step, source

\* A migration may fail anywhere.
LEMMA FailsInv ==
  ASSUME Inv, NEW m \in Migrators, Fails(m)
  PROVE  Inv'
<1>1. Raise(m) /\ UNCHANGED <<source, root, synced>> /\ pc[m] # "idle"
  BY DEF Fails, Ended
<1> QED BY <1>1, RaiseInv

\* Somebody else's root concerns no migration.
LEMMA OtherRootInv ==
  ASSUME Inv, OtherRoot
  PROVE  Inv'
<1>1. /\ root = NoOne /\ root' = Other /\ synced'
      /\ UNCHANGED <<tree, stamp, saves, saving, pc, seen, todo, copy, moment>>
  BY DEF OtherRoot, source
<1>2. TypeOK' /\ SourceInv' /\ RootInv'
  BY <1>1 DEF Inv, TypeOK, SourceInv, RootInv
<1>3. ASSUME NEW m \in Migrators PROVE Local(m)'
  BY <1>1, Frame, Constants DEF Inv
<1> QED BY <1>2, <1>3 DEF Inv

\* A power loss takes a root only from a migration that has not reported success.
LEMMA PowerLossInv ==
  ASSUME Inv, PowerLoss
  PROVE  Inv'
<1>1. TypeOK' /\ SourceInv' /\ RootInv'
  BY NextTypes DEF Inv, Next, SourceInv, RootInv, PowerLoss
<1>2. ASSUME NEW m \in Migrators PROVE Local(m)'
  <2>1. /\ Local(m) /\ stamp \in [Entries -> Nat] /\ pc[m] \in Phase \cup Ended
        /\ copy[m] \in Tree
    BY DEF Inv, TypeOK
  <2>2. /\ pc'[m] = IF pc[m] \in Ended THEN pc[m] ELSE "failed"
        /\ seen'[m] = [e \in Entries |-> 0] /\ stamp' = stamp /\ synced'
        /\ copy'[m] = IF m = root' THEN copy[m] ELSE Empty
        /\ moment'[m] = IF m = root' THEN moment[m] ELSE Empty
        /\ root' = root \/ (~synced /\ root' = NoOne)
    BY DEF PowerLoss
  <2>3. pc'[m] \in Ended
    BY <2>2 DEF Ended
  <2>4. Scanned(m)' /\ Absent(m)' /\ Copied(m)'
    BY <2>1, <2>2, <2>3
       DEF Scanned, Absent, Copied, Looked, Compared, Taken, Phase, Ended
  <2>5. Rooted(m)'
    BY <2>1, <2>2, <2>3, Constants DEF Local, Rooted, Consistent, Ended
  <2> QED BY <2>4, <2>5 DEF Local
<1> QED BY <1>1, <1>2 DEF Inv

\* Every step keeps the invariant.
LEMMA NextInv == Inv /\ [Next]_vars => Inv'
<1> SUFFICES ASSUME Inv, [Next]_vars PROVE Inv' OBVIOUS
<1>1. CASE UNCHANGED vars
  <2>1. \A m \in Migrators : Local(m)'
    BY <1>1, Frame DEF vars, source, Inv, Local, Rooted
  <2> QED BY <1>1, <2>1, NextTypes DEF vars, source, Inv, SourceInv, RootInv
<1> QED BY <1>1, WriterInv, BeginInv, ScanInv, DatabaseInv, ValidateInv, RescanInv, CopyInv,
           CheckInv, InstallInv, SyncInv, FailsInv, OtherRootInv, PowerLossInv
        DEF Next, Step

-----------------------------------------------------------------------------
(* The theorems *)

\* The inductive invariant: what the scans, the copy and the root of every
\* migration say of the source at the moment its first scan was over.
THEOREM Invariance == Spec => []Inv
BY InitInv, NextInv, PTL DEF Spec

\* For any runs, saves and migrations, what is published is the whole source of
\* one moment.
THEOREM PublishedWholeAlways == Spec => []PublishedWhole
<1>1. Inv => PublishedWhole
  BY DEF Inv, PublishedWhole, Local, Rooted, Consistent
<1> QED BY <1>1, Invariance, PTL

\* A migration that has reported success stays the one whose tree is the root.
THEOREM SuccessDurableAlways == Spec => []SuccessDurable
<1>1. Inv => SuccessDurable
  BY DEF Inv, SuccessDurable, Local, Rooted
<1> QED BY <1>1, Invariance, PTL

\* No step replaces a root; only a power loss takes one away.
THEOREM NeverReplacedAlways == Spec => NeverReplaced
<1>1. Inv /\ [Next]_vars =>
        [root # NoOne /\ root' # root => root' = NoOne /\ root \in Migrators /\ pc[root] # "done"]_vars
  <2> SUFFICES ASSUME Inv, Next, root # NoOne, root' # root
               PROVE  root' = NoOne /\ root \in Migrators /\ pc[root] # "done"
    OBVIOUS
  <2>1. ASSUME NEW r \in Runs, Writer(r) PROVE FALSE
    BY <2>1 DEF Writer, MoveAway, Publish, Commit, Undo, WriterKilled, Elsewhere
  <2>2. ASSUME NEW m \in Migrators, Step(m) \/ Fails(m) PROVE FALSE
    BY <2>2 DEF Step, Fails, Begin, Scan, Database, Validate, Rescan, Copy, Check, Install, Sync
  <2>3. PowerLoss /\ root # Other
    BY <2>1, <2>2, Constants DEF Next, OtherRoot, PowerLoss, Inv, RootInv
  <2> QED BY <2>3 DEF PowerLoss, Inv, TypeOK, Local, Rooted
<1> QED BY <1>1, Invariance, PTL DEF Spec, NeverReplaced

===============================================================================
