---------------------------- MODULE RunStoreProofs ----------------------------
(***************************************************************************)
(* Theorems about RunStore for any runs and any number of saves: the types *)
(* of its state, and that the record a row names is never lost, is the one *)
(* of results.json between saves, and was durable before its commit.       *)
(***************************************************************************)
EXTENDS RunStore, TLAPS

-----------------------------------------------------------------------------
(* The inductive invariant, run by run.  Its parameters are the entries of  *)
(* one run in the variables: the row v, the directory d and what a power    *)
(* loss may leave of it P, the label l, the target t, the backup b, the     *)
(* flag p and the mishaps m.                                                *)

AfterOut == {"moved", "replaced", "published", "synced", "committed", "failing"}
AfterIn  == {"published", "synced", "committed", "failing"}

\* The new record has a number of its own until it is committed.
Fresh(v, l, t, m) ==
  /\ v <= t
  /\ l \in Uncommitted \/ (l = "failing" /\ "interrupted" \notin m) => v < t

\* What save_run's local variables say of the directory.
Locals(v, d, l, t, b, p, m) ==
  /\ l \in {"staged", "begun", "cleared"} => b = 0
  /\ l \in {"staged", "begun", "named", "cleared", "moved", "replaced"} => ~p
  /\ l = "moved" => d.results = 0
  /\ b # 0 /\ l \in AfterOut /\ "emptied" \notin m => d.results \in {0, t}
  /\ p /\ l \in AfterIn => d.results = t
  /\ l \in {"replaced", "published", "synced", "committed"} => d.results = t
  /\ l \in {"published", "synced", "committed"} => p
  /\ l = "committed" => v = t

\* No exception has lost the record of the row.
Kept(m) == m \cap {"interrupted", "emptied"} = {}

\* The records that a power loss may leave.
Durable(v, d, P, l, m) ==
  /\ d \in P
  /\ l \in {"synced", "committed"} => P = {d}
  /\ v # 0 /\ Kept(m) => \A s \in P : Holds(s, v)

\* Where the record of the row is, as long as nothing went wrong for good.
Matches(v, d, l, b, p) ==
  /\ l \in {"idle", "staged", "begun", "named", "cleared", "restored", "committed"}
       => d.results = v
  /\ l \in {"moved", "failing"} /\ b # 0 => b = v
  /\ l \in {"replaced", "published", "synced"} => b = v
  /\ l = "moved" => b # 0
  /\ l = "failing" /\ b = 0 => IF p THEN v = 0 ELSE d.results = v

Sound(v, d, P, l, t, b, p, m) ==
  /\ Fresh(v, l, t, m)
  /\ Locals(v, d, l, t, b, p, m)
  /\ Durable(v, d, P, l, m)
  /\ m = {} => Matches(v, d, l, b, p)

RunInv(r) == Sound(row[r], dir[r], possible[r], pc[r], target[r], backup[r],
                   published[r], mishaps[r])

IInv == \A r \in Runs : RunInv(r)

-----------------------------------------------------------------------------
(* Types *)

\* The variables keep their types from Init on.
LEMMA TypeInit == Init => TypeOK
<1> SUFFICES ASSUME Init PROVE TypeOK
  OBVIOUS
<1>1. 0 \in Versions /\ 0 \in Contents /\ Empty \in Dir
  BY MaxSavesAssumption DEF Versions, Contents, Empty, Dir
<1> QED BY <1>1 DEF Init, TypeOK

\* A directory with its file or its backups exchanged is one.
LEMMA DirEdits ==
  ASSUME NEW d \in Dir, NEW v \in Contents, NEW B \in SUBSET (Contents \ {0})
  PROVE  /\ d.results \in Contents /\ d.backups \in SUBSET (Contents \ {0})
         /\ [d EXCEPT !.results = v] = [results |-> v, backups |-> d.backups]
         /\ [d EXCEPT !.backups = B] = [results |-> d.results, backups |-> B]
         /\ [results |-> v, backups |-> B] \in Dir
         /\ [d EXCEPT !.results = v] \in Dir /\ [d EXCEPT !.backups = B] \in Dir
BY DEF Dir

\* A new directory of one run.
LEMMA UpdateDirType ==
  ASSUME TypeOK, NEW r \in Runs, NEW d \in Dir, UpdateDir(r, d)
  PROVE  dir' \in [Runs -> Dir] /\ possible' \in [Runs -> SUBSET Dir]
BY DEF UpdateDir, TypeOK

\* The handler's directory.
LEMMA UndoneType ==
  ASSUME TypeOK, NEW r \in Runs
  PROVE  Undone(r) \in Dir
<1>1. dir[r] \in Dir /\ backup[r] \in Contents /\ 0 \in Contents
  BY MaxSavesAssumption DEF TypeOK, Versions, Contents
<1>2. dir[r].backups \ {backup[r]} \in SUBSET (Contents \ {0})
  BY <1>1, DirEdits
<1> QED BY <1>1, <1>2, DirEdits DEF Undone

\* Every step of a run keeps the types.
LEMMA TypeStep ==
  ASSUME TypeOK, NEW r \in Runs, Stage(r) \/ Step(r) \/ Kill(r)
  PROVE  TypeOK'
<1>1. /\ dir[r] \in Dir /\ target[r] \in Versions /\ target[r] \in Contents
      /\ backup[r] \in Contents
      /\ 0 \in Versions /\ 0 \in Contents /\ Blank \in Contents
  BY MaxSavesAssumption DEF TypeOK, Versions, Contents
<1>2. CASE Stage(r)
  <2>1. target[r] + 1 \in Versions
    BY <1>1, <1>2, MaxSavesAssumption DEF Stage, Versions
  <2> QED BY <1>1, <1>2, <2>1 DEF Stage, TypeOK
<1>3. CASE Begin(r) \/ Reserve(r) \/ Clear(r) \/ Publish(r) \/ Commit(r) \/ Kill(r)
  BY <1>1, <1>3 DEF Begin, Reserve, Clear, Publish, Commit, Kill, Unlock, Goto, TypeOK
<1>9. CASE Raise(r) \/ Interrupt(r) \/ RestoreFails(r)
  <2>1. Mishap(r) \in SUBSET Mishaps
    BY DEF Mishap, Mishaps
  <2>2. mishaps' \in [Runs -> SUBSET Mishaps]
    BY <1>9, <2>1 DEF Raise, Interrupt, RestoreFails, TypeOK, Mishaps
  <2> QED BY <1>9, <2>2 DEF Raise, Interrupt, RestoreFails, Unlock, Goto, TypeOK
<1>4. CASE SyncPublished(r) \/ Reraise(r)
  BY <1>1, <1>4 DEF SyncPublished, Reraise, SyncDir, Goto, TypeOK
<1>5. CASE MoveAway(r)
  <2>1. dir[r].results \in Contents /\ dir[r].results # 0
    BY <1>1, <1>5, DirEdits DEF MoveAway
  <2>2. dir[r].backups \cup {dir[r].results} \in SUBSET (Contents \ {0})
    BY <1>1, <2>1, DirEdits
  <2>3. [results |-> 0, backups |-> dir[r].backups \cup {dir[r].results}] \in Dir
    BY <1>1, <2>2 DEF Dir
  <2> QED BY <1>5, <2>1, <2>3, UpdateDirType DEF MoveAway, Goto, TypeOK
<1>6. CASE Replace(r)
  <2>1. [dir[r] EXCEPT !.results = target[r]] \in Dir
    BY <1>1, DirEdits
  <2> QED BY <1>6, <2>1, UpdateDirType DEF Replace, Goto, TypeOK
<1>7. CASE Finish(r)
  <2>1. dir[r].backups \ {backup[r]} \in SUBSET (Contents \ {0})
    BY <1>1, DirEdits
  <2>2. [dir[r] EXCEPT !.backups = dir[r].backups \ {backup[r]}] \in Dir
    BY <1>1, <2>1, DirEdits
  <2> QED BY <1>7, <2>2, UpdateDirType DEF Finish, Goto, TypeOK
<1>8. CASE Restore(r)
  BY <1>8, UndoneType, UpdateDirType DEF Restore, Goto, TypeOK
<1> QED BY <1>2, <1>3, <1>4, <1>5, <1>6, <1>7, <1>8, <1>9 DEF Step

\* So does the loss of power.
LEMMA TypePowerLoss == TypeOK /\ PowerLoss => TypeOK'
<1> SUFFICES ASSUME TypeOK, PowerLoss PROVE TypeOK'
  OBVIOUS
<1>1. dir' \in [Runs -> Dir]
  BY DEF PowerLoss, TypeOK
<1>2. possible' \in [Runs -> SUBSET Dir]
  BY <1>1 DEF PowerLoss
<1> QED BY <1>1, <1>2 DEF PowerLoss, TypeOK

\* TypeOK: the variables of RunStore keep their types.
THEOREM TypeCorrect == Spec => []TypeOK
<1>1. TypeOK /\ [Next]_vars => TypeOK'
  <2> SUFFICES ASSUME TypeOK, [Next]_vars PROVE TypeOK'
    OBVIOUS
  <2>1. CASE UNCHANGED vars
    BY <2>1 DEF vars, TypeOK
  <2>2. CASE Next
    BY <2>2, TypeStep, TypePowerLoss DEF Next
  <2> QED BY <2>1, <2>2
<1> QED BY <1>1, TypeInit, PTL DEF Spec

-----------------------------------------------------------------------------
(* Every step preserves the invariant *)

\* A run that takes no step keeps its entries.
Idles(q) ==
  /\ row'[q] = row[q] /\ dir'[q] = dir[q] /\ possible'[q] = possible[q]
  /\ pc'[q] = pc[q] /\ target'[q] = target[q] /\ backup'[q] = backup[q]
  /\ published'[q] = published[q] /\ mishaps'[q] = mishaps[q]

\* So a step has to be looked at for its own run only.
LEMMA OtherRuns ==
  ASSUME TypeOK, IInv, NEW r \in Runs, Stage(r) \/ Step(r) \/ Kill(r), RunInv(r)'
  PROVE  IInv'
<1>1. ASSUME NEW q \in Runs, q # r PROVE Idles(q)
  BY <1>1 DEF Step, Stage, Begin, Reserve, Clear, MoveAway, Replace, Publish,
     SyncPublished, Commit, Finish, Raise, Interrupt, Restore, RestoreFails, Reraise,
     Kill, Goto, UpdateDir, SyncDir, TypeOK,
     Idles
<1>2. ASSUME NEW q \in Runs, q # r PROVE RunInv(q)'
  BY <1>1, <1>2 DEF IInv, RunInv, Idles
<1> QED BY <1>2 DEF IInv

\* What a new directory means for its run.
LEMMA UpdateDirEntry ==
  ASSUME TypeOK, NEW r \in Runs, NEW d, UpdateDir(r, d)
  PROVE  dir'[r] = d /\ possible'[r] = possible[r] \cup {d}
BY DEF UpdateDir, TypeOK

\* Staging touches nothing but the target, the backup and the flag.
LEMMA StageInvariant ==
  ASSUME TypeOK, IInv, NEW r \in Runs, Stage(r)
  PROVE  RunInv(r)'
<1>1. /\ row'[r] = row[r] /\ dir'[r] = dir[r] /\ possible'[r] = possible[r]
      /\ target'[r] = target[r] + 1 /\ backup'[r] = 0 /\ published'[r] = FALSE
      /\ mishaps'[r] = mishaps[r]
      /\ pc[r] = "idle" /\ pc'[r] \in {"idle", "staged"}
  BY DEF Stage, TypeOK
<1>2. row[r] \in Nat /\ target[r] \in Nat
  BY DEF TypeOK, Versions
<1> QED BY <1>1, <1>2 DEF IInv, RunInv, Sound, Fresh, Locals, Durable, Matches,
           Uncommitted, AfterOut, AfterIn

\* The write lock is all that changes.
LEMMA BeginInvariant ==
  ASSUME TypeOK, IInv, NEW r \in Runs, Begin(r)
  PROVE  RunInv(r)'
<1>1. /\ row' = row /\ dir' = dir /\ possible' = possible /\ target' = target
      /\ backup' = backup /\ published' = published /\ mishaps' = mishaps
      /\ pc[r] = "staged" /\ pc'[r] = "begun"
  BY DEF Begin, Goto, TypeOK
<1> QED BY <1>1 DEF IInv, RunInv, Sound, Fresh, Locals, Durable, Matches,
           Uncommitted, AfterOut, AfterIn

\* Nor does taking a name for the backup touch the record.
LEMMA ReserveInvariant ==
  ASSUME TypeOK, IInv, NEW r \in Runs, Reserve(r)
  PROVE  RunInv(r)'
<1>1. /\ row' = row /\ dir' = dir /\ possible' = possible /\ target' = target
      /\ published' = published /\ mishaps' = mishaps
      /\ pc[r] = "begun" /\ pc'[r] = "named"
  BY DEF Reserve, Goto, TypeOK
<1> QED BY <1>1 DEF IInv, RunInv, Sound, Fresh, Locals, Durable, Matches,
           Uncommitted, AfterOut, AfterIn

\* `backup' names no file again.
LEMMA ClearInvariant ==
  ASSUME TypeOK, IInv, NEW r \in Runs, Clear(r)
  PROVE  RunInv(r)'
<1>1. /\ row' = row /\ dir' = dir /\ possible' = possible /\ target' = target
      /\ published' = published /\ mishaps' = mishaps /\ backup'[r] = 0
      /\ pc[r] = "named" /\ pc'[r] = "cleared"
  BY DEF Clear, Goto, TypeOK
<1> QED BY <1>1 DEF IInv, RunInv, Sound, Fresh, Locals, Durable, Matches,
           Uncommitted, AfterOut, AfterIn

\* The record that is moved away can still be had.
LEMMA MoveAwayInvariant ==
  ASSUME TypeOK, IInv, NEW r \in Runs, MoveAway(r)
  PROVE  RunInv(r)'
<1> DEFINE old == dir[r]
           new == [results |-> 0, backups |-> old.backups \cup {old.results}]
<1>1. dir'[r] = new /\ possible'[r] = possible[r] \cup {new}
  BY UpdateDirEntry DEF MoveAway
<1>2. /\ row' = row /\ target' = target /\ published' = published /\ mishaps' = mishaps
      /\ backup'[r] = old.results /\ old.results # 0
      /\ pc[r] = "cleared" /\ pc'[r] = "moved"
  BY DEF MoveAway, Goto, TypeOK
<1>3. new.results = 0 /\ new.backups = old.backups \cup {old.results}
  OBVIOUS
<1>4. \A v : Holds(old, v) => Holds(new, v)
  BY <1>3 DEF Holds
<1> HIDE DEF old, new
<1>5. RunInv(r)
  BY DEF IInv
<1>6. Fresh(row'[r], pc'[r], target'[r], mishaps'[r])
  BY <1>2, <1>5 DEF RunInv, Sound, Fresh, Uncommitted
<1>7. Locals(row'[r], dir'[r], pc'[r], target'[r], backup'[r], published'[r],
             mishaps'[r])
  BY <1>1, <1>2, <1>3, <1>5 DEF RunInv, Sound, Locals, AfterOut, AfterIn
<1>8. Durable(row'[r], dir'[r], possible'[r], pc'[r], mishaps'[r])
  BY <1>1, <1>2, <1>4, <1>5 DEF RunInv, Sound, Durable, old
<1>9. mishaps'[r] = {} =>
        Matches(row'[r], dir'[r], pc'[r], backup'[r], published'[r])
  BY <1>1, <1>2, <1>3, <1>5 DEF RunInv, Sound, Matches, old
<1> QED BY <1>6, <1>7, <1>8, <1>9 DEF RunInv, Sound

\* The new file does not hide the record of the row.
LEMMA ReplaceInvariant ==
  ASSUME TypeOK, IInv, NEW r \in Runs, Replace(r)
  PROVE  RunInv(r)'
<1> DEFINE old == dir[r]
           new == [old EXCEPT !.results = target[r]]
<1>1. dir'[r] = new /\ possible'[r] = possible[r] \cup {new}
  BY UpdateDirEntry DEF Replace
<1>2. /\ row' = row /\ target' = target /\ backup' = backup /\ mishaps' = mishaps
      /\ published' = published /\ pc'[r] = "replaced"
      /\ pc[r] = "moved" \/ (pc[r] = "begun" /\ old.results = 0)
  BY DEF Replace, Goto, TypeOK
<1>3. new.results = target[r] /\ new.backups = old.backups
  BY DEF TypeOK, Dir
<1> HIDE DEF new
<1>4. RunInv(r)
  BY DEF IInv
<1>5. old.results = 0
  BY <1>2, <1>4 DEF RunInv, Sound, Locals
<1>6. \A v : v # 0 /\ Holds(old, v) => Holds(new, v)
  BY <1>3, <1>5 DEF Holds
<1>7. Fresh(row'[r], pc'[r], target'[r], mishaps'[r])
  BY <1>2, <1>4 DEF RunInv, Sound, Fresh, Uncommitted
<1>8. Locals(row'[r], dir'[r], pc'[r], target'[r], backup'[r], published'[r],
             mishaps'[r])
  BY <1>1, <1>2, <1>3, <1>4 DEF RunInv, Sound, Locals, AfterOut, AfterIn
<1>9. Durable(row'[r], dir'[r], possible'[r], pc'[r], mishaps'[r])
  BY <1>1, <1>2, <1>4, <1>6 DEF RunInv, Sound, Durable
<1>10. mishaps'[r] = {} =>
         Matches(row'[r], dir'[r], pc'[r], backup'[r], published'[r])
  BY <1>1, <1>2, <1>3, <1>4 DEF RunInv, Sound, Matches, Locals
<1> QED BY <1>7, <1>8, <1>9, <1>10 DEF RunInv, Sound

\* The flag tells what is true already.
LEMMA PublishInvariant ==
  ASSUME TypeOK, IInv, NEW r \in Runs, Publish(r)
  PROVE  RunInv(r)'
<1>1. /\ row' = row /\ dir' = dir /\ possible' = possible /\ target' = target
      /\ backup' = backup /\ published'[r] = TRUE /\ mishaps' = mishaps
      /\ pc[r] = "replaced" /\ pc'[r] = "published"
  BY DEF Publish, Goto, TypeOK
<1> QED BY <1>1 DEF IInv, RunInv, Sound, Fresh, Locals, Durable, Matches,
           Uncommitted, AfterOut, AfterIn

\* From here on no power loss takes the new file back.
LEMMA SyncPublishedInvariant ==
  ASSUME TypeOK, IInv, NEW r \in Runs, SyncPublished(r)
  PROVE  RunInv(r)'
<1>1. /\ row' = row /\ dir' = dir /\ possible'[r] = {dir[r]} /\ target' = target
      /\ backup' = backup /\ published' = published /\ mishaps' = mishaps
      /\ pc[r] = "published" /\ pc'[r] = "synced"
  BY DEF SyncPublished, SyncDir, Goto, TypeOK
<1> QED BY <1>1 DEF IInv, RunInv, Sound, Fresh, Locals, Durable, Matches,
           Uncommitted, AfterOut, AfterIn

\* The row follows the file.
LEMMA CommitInvariant ==
  ASSUME TypeOK, IInv, NEW r \in Runs, Commit(r)
  PROVE  RunInv(r)'
<1>1. /\ row'[r] = target[r] /\ dir' = dir /\ possible' = possible /\ target' = target
      /\ backup' = backup /\ published' = published /\ mishaps'[r] = {}
      /\ pc[r] = "synced" /\ pc'[r] = "committed"
  BY DEF Commit, Goto, TypeOK
<1>2. target[r] \in Nat
  BY DEF TypeOK, Versions
<1> QED BY <1>1, <1>2 DEF IInv, RunInv, Sound, Fresh, Locals, Durable, Matches,
           Uncommitted, AfterOut, AfterIn, Holds, Kept

\* The backup that goes does not hold the record of the row.
LEMMA FinishInvariant ==
  ASSUME TypeOK, IInv, NEW r \in Runs, Finish(r)
  PROVE  RunInv(r)'
<1> DEFINE old == dir[r]
           new == [old EXCEPT !.backups = old.backups \ {backup[r]}]
<1>1. \/ dir'[r] = new /\ possible'[r] = possible[r] \cup {new}
      \/ dir'[r] = old /\ possible'[r] = possible[r]
  BY UpdateDirEntry DEF Finish
<1>2. /\ row' = row /\ target' = target /\ backup' = backup /\ published' = published
      /\ mishaps' = mishaps
      /\ pc[r] = "committed" /\ pc'[r] = "idle"
  BY DEF Finish, Goto, TypeOK
<1>3. new.results = old.results
  BY DEF TypeOK, Dir
<1> HIDE DEF new
<1>4. RunInv(r)
  BY DEF IInv
<1>5. old.results = row[r]
  BY <1>2, <1>4 DEF RunInv, Sound, Locals
<1>6. Fresh(row'[r], pc'[r], target'[r], mishaps'[r])
  BY <1>2, <1>4 DEF RunInv, Sound, Fresh, Uncommitted
<1>7. Locals(row'[r], dir'[r], pc'[r], target'[r], backup'[r], published'[r],
             mishaps'[r])
  BY <1>2 DEF Locals, AfterOut, AfterIn
<1>8. Durable(row'[r], dir'[r], possible'[r], pc'[r], mishaps'[r])
  BY <1>1, <1>2, <1>3, <1>4, <1>5 DEF RunInv, Sound, Durable, Holds
<1>9. Matches(row'[r], dir'[r], pc'[r], backup'[r], published'[r])
  BY <1>1, <1>2, <1>3, <1>5 DEF Matches
<1> QED BY <1>6, <1>7, <1>8, <1>9 DEF RunInv, Sound

\* What was true while saving is what the handler needs.
LEMMA RaiseInvariant ==
  ASSUME TypeOK, IInv, NEW r \in Runs, Raise(r)
  PROVE  RunInv(r)'
<1>1. /\ row' = row /\ dir' = dir /\ possible' = possible /\ target' = target
      /\ backup' = backup /\ published' = published
      /\ mishaps'[r] = mishaps[r] \cup Mishap(r)
      /\ pc[r] \in Uncommitted /\ pc'[r] = "failing"
  BY DEF Raise, Goto, TypeOK, Uncommitted
<1>2. /\ "interrupted" \notin Mishap(r)
      /\ pc[r] = "named" => "emptied" \in Mishap(r)
      /\ pc[r] = "replaced" /\ backup[r] = 0 => "unnoted" \in Mishap(r)
  BY DEF Mishap
<1>3. RunInv(r)
  BY DEF IInv
<1>4. Fresh(row'[r], pc'[r], target'[r], mishaps'[r])
  BY <1>1, <1>2, <1>3 DEF RunInv, Sound, Fresh
<1>5. Locals(row'[r], dir'[r], pc'[r], target'[r], backup'[r], published'[r],
             mishaps'[r])
  BY <1>1, <1>2, <1>3 DEF RunInv, Sound, Locals, Uncommitted, AfterOut, AfterIn
<1>6. Durable(row'[r], dir'[r], possible'[r], pc'[r], mishaps'[r])
  BY <1>1, <1>3 DEF RunInv, Sound, Durable, Kept
<1>7. mishaps'[r] = {} =>
        Matches(row'[r], dir'[r], pc'[r], backup'[r], published'[r])
  <2> SUFFICES ASSUME mishaps'[r] = {}
               PROVE  Matches(row'[r], dir'[r], pc'[r], backup'[r], published'[r])
    OBVIOUS
  <2>1. mishaps[r] = {} /\ Mishap(r) = {}
    BY <1>1
  <2>2. pc[r] # "named" /\ ~(pc[r] = "replaced" /\ backup[r] = 0)
    BY <1>2, <2>1
  <2> QED BY <1>1, <1>3, <2>1, <2>2 DEF RunInv, Sound, Locals, Matches, Uncommitted
<1> QED BY <1>4, <1>5, <1>6, <1>7 DEF RunInv, Sound

\* The interruption after the commit, which only the flag remembers.
LEMMA InterruptInvariant ==
  ASSUME TypeOK, IInv, NEW r \in Runs, Interrupt(r)
  PROVE  RunInv(r)'
<1>1. /\ row' = row /\ dir' = dir /\ possible' = possible /\ target' = target
      /\ backup' = backup /\ published' = published
      /\ mishaps'[r] = mishaps[r] \cup {"interrupted"}
      /\ pc[r] = "committed" /\ pc'[r] = "failing"
  BY DEF Interrupt, Goto, TypeOK
<1> QED BY <1>1 DEF IInv, RunInv, Sound, Fresh, Locals, Durable, Matches,
           Uncommitted, AfterOut, AfterIn, Kept

\* The handler gives up the record that was not committed, and no other.
LEMMA RestoreInvariant ==
  ASSUME TypeOK, IInv, NEW r \in Runs, Restore(r)
  PROVE  RunInv(r)'
<1> DEFINE old == dir[r]
           new == Undone(r)
<1>1. dir'[r] = new /\ possible'[r] = possible[r] \cup {new}
  BY UpdateDirEntry DEF Restore
<1>2. /\ row' = row /\ target' = target /\ backup' = backup /\ published' = published
      /\ mishaps' = mishaps
      /\ pc[r] = "failing" /\ pc'[r] = "restored"
  BY DEF Restore, Goto, TypeOK
<1>3. CASE backup[r] # 0
  <2>1. new.results = backup[r] /\ new.backups = old.backups \ {backup[r]}
    BY <1>3 DEF Undone
  <2>2. RunInv(r)
    BY DEF IInv
  <2> HIDE DEF new
  <2>3. Fresh(row'[r], pc'[r], target'[r], mishaps'[r])
    BY <1>2, <2>2 DEF RunInv, Sound, Fresh, Uncommitted
  <2>4. Locals(row'[r], dir'[r], pc'[r], target'[r], backup'[r], published'[r],
             mishaps'[r])
    BY <1>2 DEF Locals, AfterOut, AfterIn
  <2>5. row[r] # 0 /\ Kept(mishaps[r]) => row[r] \in old.backups
    <3>1. Kept(mishaps[r]) => old.results \in {0, target[r]}
      BY <1>2, <1>3, <2>2 DEF RunInv, Sound, Locals, AfterOut, Kept
    <3>2. row[r] \in Nat /\ target[r] \in Nat
      BY DEF TypeOK, Versions
    <3>3. Kept(mishaps[r]) => row[r] # target[r]
      BY <1>2, <2>2, <3>2 DEF RunInv, Sound, Fresh, Kept
    <3>4. row[r] # 0 /\ Kept(mishaps[r]) => Holds(old, row[r])
      BY <2>2 DEF RunInv, Sound, Durable
    <3> QED BY <3>1, <3>3, <3>4 DEF Holds
  <2>6. row[r] # 0 /\ Kept(mishaps[r]) => Holds(new, row[r])
    BY <2>1, <2>5 DEF Holds
  <2>7. Durable(row'[r], dir'[r], possible'[r], pc'[r], mishaps'[r])
    BY <1>1, <1>2, <2>2, <2>6 DEF RunInv, Sound, Durable
  <2>8. mishaps'[r] = {} =>
          Matches(row'[r], dir'[r], pc'[r], backup'[r], published'[r])
    BY <1>1, <1>2, <1>3, <2>1, <2>2 DEF RunInv, Sound, Matches
  <2> QED BY <2>3, <2>4, <2>7, <2>8 DEF RunInv, Sound
<1>4. CASE backup[r] = 0 /\ published[r]
  <2>1. new.results = 0 /\ new.backups = old.backups
    BY <1>4 DEF Undone, TypeOK, Dir
  <2> HIDE DEF new
  <2> QED BY <1>1, <1>2, <1>4, <2>1
        DEF IInv, RunInv, Sound, Fresh, Locals, Durable, Matches,
           Uncommitted, AfterOut, AfterIn, Holds, Kept, TypeOK, Versions
<1>5. CASE backup[r] = 0 /\ ~published[r]
  <2>1. new = old
    BY <1>5 DEF Undone
  <2> HIDE DEF new
  <2> QED BY <1>1, <1>2, <1>5, <2>1
        DEF IInv, RunInv, Sound, Fresh, Locals, Durable, Matches,
           Uncommitted, AfterOut, AfterIn
<1> QED BY <1>3, <1>4, <1>5 DEF TypeOK

\* A handler that fails, which only the flag remembers.
LEMMA RestoreFailsInvariant ==
  ASSUME TypeOK, IInv, NEW r \in Runs, RestoreFails(r)
  PROVE  RunInv(r)'
<1>1. /\ row' = row /\ dir' = dir /\ possible' = possible /\ target' = target
      /\ backup' = backup /\ published' = published
      /\ mishaps'[r] = mishaps[r] \cup {"unrestored"}
      /\ pc[r] = "failing" /\ pc'[r] = "idle"
  BY DEF RestoreFails, Goto, TypeOK
<1> QED BY <1>1 DEF IInv, RunInv, Sound, Fresh, Locals, Durable, Matches,
           Uncommitted, AfterOut, AfterIn, Kept

\* Synchronising the directory loses no record that a power loss kept.
LEMMA ReraiseInvariant ==
  ASSUME TypeOK, IInv, NEW r \in Runs, Reraise(r)
  PROVE  RunInv(r)'
<1>1. /\ row' = row /\ dir' = dir /\ target' = target
      /\ backup' = backup /\ published' = published /\ mishaps' = mishaps
      /\ pc[r] = "restored" /\ pc'[r] = "idle"
      /\ possible'[r] = {dir[r]} \/ possible' = possible
  BY DEF Reraise, SyncDir, Goto, TypeOK
<1> QED BY <1>1 DEF IInv, RunInv, Sound, Fresh, Locals, Durable, Matches,
           Uncommitted, AfterOut, AfterIn

\* A killed process changes nothing on disk.
LEMMA KillInvariant ==
  ASSUME TypeOK, IInv, NEW r \in Runs, Kill(r)
  PROVE  RunInv(r)'
<1>1. /\ row' = row /\ dir' = dir /\ possible' = possible /\ target' = target
      /\ backup' = backup /\ published' = published /\ mishaps' = mishaps
      /\ pc'[r] = "dead"
  BY DEF Kill, Goto, TypeOK
<1> QED BY <1>1 DEF IInv, RunInv, Sound, Fresh, Locals, Durable, Matches,
           Uncommitted, AfterOut, AfterIn

\* After a loss of power every run is in one of the directories it could be in.
LEMMA PowerLossInvariant ==
  ASSUME TypeOK, IInv, PowerLoss
  PROVE  IInv'
<1> SUFFICES ASSUME NEW r \in Runs PROVE RunInv(r)'
  BY DEF IInv
<1>1. /\ row' = row /\ target' = target /\ backup' = backup /\ published' = published
      /\ mishaps' = mishaps
      /\ dir'[r] \in possible[r] /\ possible'[r] = {dir'[r]} /\ pc'[r] = "dead"
  BY DEF PowerLoss
<1> QED BY <1>1 DEF IInv, RunInv, Sound, Fresh, Locals, Durable, Matches,
           Uncommitted, AfterOut, AfterIn

-----------------------------------------------------------------------------
(* Theorems *)

\* The inductive invariant holds in every state.
THEOREM Invariance == Spec => [](TypeOK /\ IInv)
<1>1. Init => IInv
  <2> SUFFICES ASSUME Init, NEW r \in Runs PROVE RunInv(r)
    BY DEF IInv
  <2> QED BY DEF Init, Empty, RunInv, Sound, Fresh, Locals, Durable, Matches,
           Uncommitted, AfterOut, AfterIn
<1>2. TypeOK /\ IInv /\ [Next]_vars => IInv'
  <2> SUFFICES ASSUME TypeOK, IInv, [Next]_vars PROVE IInv'
    OBVIOUS
  <2>1. CASE UNCHANGED vars
    BY <2>1 DEF vars, IInv, RunInv
  <2>2. CASE PowerLoss
    BY <2>2, PowerLossInvariant
  <2>3. ASSUME NEW r \in Runs, Stage(r) \/ Step(r) \/ Kill(r) PROVE IInv'
    BY <2>3, OtherRuns, StageInvariant, BeginInvariant, ReserveInvariant,
       ClearInvariant, MoveAwayInvariant, ReplaceInvariant, PublishInvariant,
       SyncPublishedInvariant, CommitInvariant, FinishInvariant,
       RaiseInvariant, InterruptInvariant, RestoreInvariant, RestoreFailsInvariant,
       ReraiseInvariant, KillInvariant DEF Step
  <2> QED BY <2>1, <2>2, <2>3 DEF Next
<1> QED BY <1>1, <1>2, TypeCorrect, PTL DEF Spec

\* RecordSurvives: exceptions, kills and power loss, in any order and number,
\* leave the record that the row names in the run's directory, but for the two
\* exceptions that RecordSurvives names.
THEOREM RecordSurvivesAlways == Spec => []RecordSurvives
<1>1. IInv => RecordSurvives
  BY DEF IInv, RunInv, Sound, Durable, Kept, RecordSurvives
<1> QED BY <1>1, Invariance, PTL

\* FileMatchesRow: a save that returned or raised leaves results.json and the
\* row with the same record, unless one of the named mishaps came between.
THEOREM FileMatchesRowAlways == Spec => []FileMatchesRow
<1>1. IInv => FileMatchesRow
  BY DEF IInv, RunInv, Sound, Matches, FileMatchesRow
<1> QED BY <1>1, Invariance, PTL

\* RowFollowsFile: what is committed was durable in results.json before.
THEOREM RowFollowsFileAlways == Spec => RowFollowsFile
<1> DEFINE Follows == \A r \in Runs : row'[r] # row[r] =>
                        \A d \in possible[r] : d.results = row'[r]
<1>1. TypeOK /\ IInv /\ [Next]_vars => [Follows]_vars
  <2> SUFFICES ASSUME TypeOK, IInv, Next, NEW r \in Runs, row'[r] # row[r],
                      NEW d \in possible[r]
               PROVE  d.results = row'[r]
    OBVIOUS
  <2>1. Commit(r)
    BY DEF Next, PowerLoss, Stage, Step, Begin, Reserve, Clear, MoveAway, Replace,
           Publish, SyncPublished, Commit,
           Finish, Raise, Interrupt, Restore, RestoreFails, Reraise, Kill, TypeOK
  <2>2. pc[r] = "synced" /\ row'[r] = target[r]
    BY <2>1 DEF Commit, TypeOK
  <2> QED BY <2>2 DEF IInv, RunInv, Sound, Durable, Locals
<1> QED BY <1>1, Invariance, PTL DEF Spec, RowFollowsFile

===============================================================================
