---------------------------- MODULE WriterProofs ----------------------------
(***************************************************************************)
(* What each writer of files keeps true from one system call to the next,  *)
(* for any number of failures and of changes by another process: where it  *)
(* is, and what it has left on disk there. OutputsProofs draws the         *)
(* theorems from it.                                                       *)
(***************************************************************************)
EXTENDS OutputPair, RunStore, FileOutput, KnowledgeUpdate, FiniteSetTheorems, WellFoundedInduction, TLAPS

-----------------------------------------------------------------------------
(* The pair of inventory files *)

\* What another process can have put where nothing was.
Strayed(c) == c = "stray" /\ edits > 0

\* The old file i, if any, is at its name f, and nothing was moved aside.
AsFound(i, f, backup) ==
  /\ i \notin had /\ dir[backup] = "none"
  /\ dir[f] = before[f] \/ (before[f] = "none" /\ Strayed(dir[f]))

\* The old file i, if any, is at its backup name.
Aside(i, f, backup) ==
  /\ i \in had <=> dir[backup] # "none"
  /\ dir[backup] = before[f] \/ (before[f] = "none" /\ Strayed(dir[backup]))

\* Its name is free, or taken by another process.
Vacant(f) == dir[f] = "none" \/ Strayed(dir[f])

Temps(a, b) == dir["firstTemp"] = a /\ dir["secondTemp"] = b

BothNew == dir["first"] = "new" /\ dir["second"] = "new"

BothAside == Aside(1, "first", "firstBackup") /\ Aside(2, "second", "secondBackup")

Safe(f, backup) == before[f] = "old" => dir[f] = "old" \/ dir[backup] = "old"

BothSafe == Safe("first", "firstBackup") /\ Safe("second", "secondBackup")

Restored(f, backup) == dir[f] = before[f] /\ dir[backup] = "none"

BothRestored == Restored("first", "firstBackup") /\ Restored("second", "secondBackup")

\* What excuses an error that changed the directory.
Excused == faults > 1 \/ edits > 0

\* A failure leads here, so that a second one is one too many.
Failed ==
  /\ faults > 0
  /\ Excused \/ (dir["firstTemp"] \in {"none", "new"} /\ dir["secondTemp"] \in {"none", "new"})

\* Where the two files are before each system call.
Found(a, b) == /\ AsFound(1, "first", "firstBackup") /\ AsFound(2, "second", "secondBackup")
               /\ Temps(a, b)

FirstAside == /\ Aside(1, "first", "firstBackup") /\ Vacant("first")
              /\ AsFound(2, "second", "secondBackup") /\ Temps("new", "new")

Emptied == BothAside /\ Vacant("first") /\ Vacant("second") /\ Temps("new", "new")

FirstIn == BothAside /\ dir["first"] = "new" /\ Vacant("second") /\ Temps("none", "new")

BothIn == BothNew /\ BothAside /\ Temps("none", "none")

FirstDropped == /\ BothNew /\ Aside(2, "second", "secondBackup") /\ Temps("none", "none")
                /\ faults = 0 => dir["firstBackup"] = "none"

BothDropped == /\ BothNew /\ Temps("none", "none")
               /\ faults = 0 => dir["firstBackup"] = "none" /\ dir["secondBackup"] = "none"

Undo1 == Failed /\ BothAside

Undo2 == Undo1 /\ (Excused \/ dir["first"] = "none")

Undo3 == Undo2 /\ (Excused \/ dir["second"] = "none")

Undo4 == /\ Failed /\ Safe("first", "firstBackup") /\ Aside(2, "second", "secondBackup")
         /\ Excused \/ (Restored("first", "firstBackup") /\ dir["second"] = "none")

Undone == Failed /\ BothSafe /\ (Excused \/ BothRestored)

Undone1 == Undone /\ (Excused \/ dir["firstTemp"] = "none")

Undone2 == Undone1 /\ (Excused \/ dir["secondTemp"] = "none")

EndsBadly == BothNew \/ (BothSafe /\ (Excused \/ (BothRestored /\ Temps("none", "none"))))

Lasting == BothNew \/ BothSafe

PairPCs == {"pairCheck", "pairTemp1", "pairTemp2", "pairMove1", "pairMove2", "pairBack1",
            "pairPlace1", "pairPlace2", "pairDrop1", "pairDrop2", "pairSync", "pairUndo1",
            "pairUndo2", "pairUndo3", "pairUndo4", "pairErr", "pairErr2", "pairFail",
            "done", "dead"}

PairAt ==
  /\ pc \in PairPCs
  /\ pc # "done" => result = "none"
  /\ pc \in {"pairCheck", "pairTemp1"} => Found("none", "none")
  /\ pc = "pairTemp2" => Found("new", "none")
  /\ pc = "pairMove1" => Found("new", "new")
  /\ pc \in {"pairMove2", "pairBack1"} => FirstAside
  /\ pc = "pairBack1" => Failed
  /\ pc = "pairPlace1" => Emptied
  /\ pc = "pairPlace2" => FirstIn
  /\ pc = "pairDrop1" => BothIn
  /\ pc = "pairDrop2" => FirstDropped
  /\ pc = "pairSync" => BothDropped
  /\ pc = "pairUndo1" => Undo1
  /\ pc = "pairUndo2" => Undo2
  /\ pc = "pairUndo3" => Undo3
  /\ pc = "pairUndo4" => Undo4
  /\ pc = "pairErr" => Undone
  /\ pc = "pairErr2" => Undone1
  /\ pc = "pairFail" => Undone2
  /\ pc = "done" => (result = "ok" /\ BothDropped) \/ (result = "err" /\ EndsBadly)
  /\ pc = "dead" => Lasting

PairHeld == {"none", "old", "odd", "new", "part", "stray"}

PairType ==
  /\ faults \in Nat /\ edits \in Nat
  /\ dir \in [PairNames -> PairHeld] /\ before \in [PairNames -> PairHeld]
  /\ before["firstTemp"] = "none" /\ before["secondTemp"] = "none"
  /\ before["firstBackup"] = "none" /\ before["secondBackup"] = "none"

\* The names of the six files.
LEMMA PairIndices ==
  /\ Base[1] = "first" /\ Temp[1] = "firstTemp" /\ Backup[1] = "firstBackup"
  /\ Base[2] = "second" /\ Temp[2] = "secondTemp" /\ Backup[2] = "secondBackup"
  /\ 1..2 = {1, 2}
  BY DEF Base, Temp, Backup

\* Every system call leaves the files where the next one expects them.
LEMMA PairStep ==
  ASSUME PairType, PairAt, WriteOutputPair, ~Stray
  PROVE  PairAt'
<1> USE DEF AsFound, Aside, BothAside, Strayed, Vacant, Temps, BothNew, Safe, BothSafe,
            Restored, BothRestored, Excused, Failed
<1>t. /\ faults \in Nat /\ edits \in Nat
      /\ dir \in [PairNames -> PairHeld] /\ DOMAIN dir = PairNames
  BY DEF PairType
<1>1. CASE WriteTempAt(1, "pairTemp1", "pairTemp2", "pairErr")
  <2>1. pc = "pairTemp1" /\ pc' \in {"pairTemp2", "pairErr"} /\ result' = result
    BY <1>1, Zenon DEF WriteTempAt, Works, Fails, Go
  <2>2. Found("none", "none") /\ result = "none"
    BY <2>1, Zenon DEF PairAt
  <2>3. pc' = "pairTemp2" => Found("new", "none")'
    BY <1>t, <1>1, <2>1, <2>2, PairIndices DEF WriteTempAt, Works, Fails, Go, PairNames, PairHeld, Found
  <2>4. pc' = "pairErr" => Undone'
    BY <1>t, <1>1, <2>1, <2>2, PairIndices DEF WriteTempAt, Works, Fails, Go, PairNames, PairHeld, Found,
       Undone
  <2> QED
    BY <2>1, <2>2, <2>3, <2>4, Zenon DEF PairAt, PairPCs
<1>2. CASE WriteTempAt(2, "pairTemp2", "pairMove1", "pairErr")
  <2>1. pc = "pairTemp2" /\ pc' \in {"pairMove1", "pairErr"} /\ result' = result
    BY <1>2, Zenon DEF WriteTempAt, Works, Fails, Go
  <2>2. Found("new", "none") /\ result = "none"
    BY <2>1, Zenon DEF PairAt
  <2>3. pc' = "pairMove1" => Found("new", "new")'
    BY <1>t, <1>2, <2>1, <2>2, PairIndices DEF WriteTempAt, Works, Fails, Go, PairNames, PairHeld, Found
  <2>4. pc' = "pairErr" => Undone'
    BY <1>t, <1>2, <2>1, <2>2, PairIndices DEF WriteTempAt, Works, Fails, Go, PairNames, PairHeld, Found,
       Undone
  <2> QED
    BY <2>1, <2>2, <2>3, <2>4, Zenon DEF PairAt, PairPCs
<1>3. CASE MoveExistingAt(1, "pairMove1", "pairMove2", "pairErr")
  <2>1. pc = "pairMove1" /\ pc' \in {"pairMove2", "pairErr"} /\ result' = result
    BY <1>3, Zenon DEF MoveExistingAt, Rename, Works, Fails, Go
  <2>2. Found("new", "new") /\ result = "none"
    BY <2>1, Zenon DEF PairAt
  <2>3. pc' = "pairMove2" => FirstAside'
    BY <1>t, <1>3, <2>1, <2>2, PairIndices DEF MoveExistingAt, Rename, Works, Fails, Go, PairNames,
       PairHeld, Found, FirstAside
  <2>4. pc' = "pairErr" => Undone'
    BY <1>t, <1>3, <2>1, <2>2, PairIndices DEF MoveExistingAt, Rename, Works, Fails, Go, PairNames,
       PairHeld, Found, Undone
  <2> QED
    BY <2>1, <2>2, <2>3, <2>4, Zenon DEF PairAt, PairPCs
<1>4. CASE MoveExistingAt(2, "pairMove2", "pairPlace1", "pairBack1")
  <2>1. pc = "pairMove2" /\ pc' \in {"pairPlace1", "pairBack1"} /\ result' = result
    BY <1>4, Zenon DEF MoveExistingAt, Rename, Works, Fails, Go
  <2>2. FirstAside /\ result = "none"
    BY <2>1, Zenon DEF PairAt
  <2>3. pc' = "pairPlace1" => Emptied'
    BY <1>t, <1>4, <2>1, <2>2, PairIndices DEF MoveExistingAt, Rename, Works, Fails, Go, PairNames,
       PairHeld, FirstAside, Emptied
  <2>4. pc' = "pairBack1" => (FirstAside /\ Failed)'
    BY <1>t, <1>4, <2>1, <2>2, PairIndices DEF MoveExistingAt, Rename, Works, Fails, Go, PairNames,
       PairHeld, FirstAside
  <2> QED
    BY <2>1, <2>2, <2>3, <2>4, Zenon DEF PairAt, PairPCs
<1>5. CASE PutBack(1, "pairBack1", "pairErr")
  <2>1. pc = "pairBack1" /\ pc' = "pairErr" /\ result' = result
    BY <1>5, Zenon DEF PutBack, Rename, Ignored, Works, Fails, Go
  <2>2. FirstAside /\ Failed /\ result = "none"
    BY <2>1, Zenon DEF PairAt
  <2>3. Undone'
    BY <1>t, <1>5, <2>1, <2>2, PairIndices DEF PutBack, Rename, Ignored, Works, Fails, Go, PairNames,
       PairHeld, FirstAside, Undone
  <2> QED
    BY <2>1, <2>2, <2>3, Zenon DEF PairAt, PairPCs
<1>6. CASE Place(1, "pairPlace1", "pairPlace2")
  <2>1. pc = "pairPlace1" /\ pc' \in {"pairPlace2", "pairUndo1"} /\ result' = result
    BY <1>6, Zenon DEF Place, Rename, Works, Fails, Go
  <2>2. Emptied /\ result = "none"
    BY <2>1, Zenon DEF PairAt
  <2>3. pc' = "pairPlace2" => FirstIn'
    BY <1>t, <1>6, <2>1, <2>2, PairIndices DEF Place, Rename, Works, Fails, Go, PairNames, PairHeld,
       Emptied, FirstIn
  <2>4. pc' = "pairUndo1" => Undo1'
    BY <1>t, <1>6, <2>1, <2>2, PairIndices DEF Place, Rename, Works, Fails, Go, PairNames, PairHeld,
       Emptied, Undo1
  <2> QED
    BY <2>1, <2>2, <2>3, <2>4, Zenon DEF PairAt, PairPCs
<1>7. CASE Place(2, "pairPlace2", "pairDrop1")
  <2>1. pc = "pairPlace2" /\ pc' \in {"pairDrop1", "pairUndo1"} /\ result' = result
    BY <1>7, Zenon DEF Place, Rename, Works, Fails, Go
  <2>2. FirstIn /\ result = "none"
    BY <2>1, Zenon DEF PairAt
  <2>3. pc' = "pairDrop1" => BothIn'
    BY <1>t, <1>7, <2>1, <2>2, PairIndices DEF Place, Rename, Works, Fails, Go, PairNames, PairHeld,
       FirstIn, BothIn
  <2>4. pc' = "pairUndo1" => Undo1'
    BY <1>t, <1>7, <2>1, <2>2, PairIndices DEF Place, Rename, Works, Fails, Go, PairNames, PairHeld,
       FirstIn, Undo1
  <2> QED
    BY <2>1, <2>2, <2>3, <2>4, Zenon DEF PairAt, PairPCs
<1>8. CASE Ignored("pairUndo1", "pairUndo2", dir["first"] # "none", Unlink("first"))
  <2>1. pc = "pairUndo1" /\ pc' = "pairUndo2" /\ result' = result
    BY <1>8, Zenon DEF Unlink, Ignored, Works, Fails, Go
  <2>2. Undo1 /\ result = "none"
    BY <2>1, Zenon DEF PairAt
  <2>3. Undo2'
    BY <1>t, <1>8, <2>1, <2>2, PairIndices DEF Unlink, Ignored, Works, Fails, Go, PairNames, PairHeld,
       Undo1, Undo2
  <2> QED
    BY <2>1, <2>2, <2>3, Zenon DEF PairAt, PairPCs
<1>9. CASE Ignored("pairUndo2", "pairUndo3", dir["second"] # "none", Unlink("second"))
  <2>1. pc = "pairUndo2" /\ pc' = "pairUndo3" /\ result' = result
    BY <1>9, Zenon DEF Unlink, Ignored, Works, Fails, Go
  <2>2. Undo2 /\ result = "none"
    BY <2>1, Zenon DEF PairAt
  <2>3. Undo3'
    BY <1>t, <1>9, <2>1, <2>2, PairIndices DEF Unlink, Ignored, Works, Fails, Go, PairNames, PairHeld,
       Undo2, Undo1, Undo3
  <2> QED
    BY <2>1, <2>2, <2>3, Zenon DEF PairAt, PairPCs
<1>10. CASE PutBack(1, "pairUndo3", "pairUndo4")
  <2>1. pc = "pairUndo3" /\ pc' = "pairUndo4" /\ result' = result
    BY <1>10, Zenon DEF PutBack, Rename, Ignored, Works, Fails, Go
  <2>2. Undo3 /\ result = "none"
    BY <2>1, Zenon DEF PairAt
  <2>3. Undo4'
    BY <1>t, <1>10, <2>1, <2>2, PairIndices DEF PutBack, Rename, Ignored, Works, Fails, Go, PairNames,
       PairHeld, Undo3, Undo2, Undo1, Undo4
  <2> QED
    BY <2>1, <2>2, <2>3, Zenon DEF PairAt, PairPCs
<1>11. CASE PutBack(2, "pairUndo4", "pairErr")
  <2>1. pc = "pairUndo4" /\ pc' = "pairErr" /\ result' = result
    BY <1>11, Zenon DEF PutBack, Rename, Ignored, Works, Fails, Go
  <2>2. Undo4 /\ result = "none"
    BY <2>1, Zenon DEF PairAt
  <2>3. Undone'
    BY <1>t, <1>11, <2>1, <2>2, PairIndices DEF PutBack, Rename, Ignored, Works, Fails, Go, PairNames,
       PairHeld, Undo4, Undone
  <2> QED
    BY <2>1, <2>2, <2>3, Zenon DEF PairAt, PairPCs
<1>12. CASE DropMoved(1, "pairDrop1", "pairDrop2")
  <2>1. pc = "pairDrop1" /\ pc' = "pairDrop2" /\ result' = result
    BY <1>12, Zenon DEF DropMoved, Unlink, Ignored, Works, Fails, Go
  <2>2. BothIn /\ result = "none"
    BY <2>1, Zenon DEF PairAt
  <2>3. FirstDropped'
    BY <1>t, <1>12, <2>1, <2>2, PairIndices DEF DropMoved, Unlink, Ignored, Works, Fails, Go, PairNames,
       PairHeld, BothIn, FirstDropped
  <2> QED
    BY <2>1, <2>2, <2>3, Zenon DEF PairAt, PairPCs
<1>13. CASE DropMoved(2, "pairDrop2", "pairSync")
  <2>1. pc = "pairDrop2" /\ pc' = "pairSync" /\ result' = result
    BY <1>13, Zenon DEF DropMoved, Unlink, Ignored, Works, Fails, Go
  <2>2. FirstDropped /\ result = "none"
    BY <2>1, Zenon DEF PairAt
  <2>3. BothDropped'
    BY <1>t, <1>13, <2>1, <2>2, PairIndices DEF DropMoved, Unlink, Ignored, Works, Fails, Go, PairNames,
       PairHeld, FirstDropped, BothDropped
  <2> QED
    BY <2>1, <2>2, <2>3, Zenon DEF PairAt, PairPCs
<1>14. CASE Deferred("pairErr", "pairErr2", 1)
  <2>1. pc = "pairErr" /\ pc' = "pairErr2" /\ result' = result
    BY <1>14, Zenon DEF Deferred, Unlink, Ignored, Works, Fails, Go
  <2>2. Undone /\ result = "none"
    BY <2>1, Zenon DEF PairAt
  <2>3. Undone1'
    BY <1>t, <1>14, <2>1, <2>2, PairIndices DEF Deferred, Unlink, Ignored, Works, Fails, Go, PairNames,
       PairHeld, Undone, Undone1
  <2> QED
    BY <2>1, <2>2, <2>3, Zenon DEF PairAt, PairPCs
<1>15. CASE Deferred("pairErr2", "pairFail", 2)
  <2>1. pc = "pairErr2" /\ pc' = "pairFail" /\ result' = result
    BY <1>15, Zenon DEF Deferred, Unlink, Ignored, Works, Fails, Go
  <2>2. Undone1 /\ result = "none"
    BY <2>1, Zenon DEF PairAt
  <2>3. Undone2'
    BY <1>t, <1>15, <2>1, <2>2, PairIndices DEF Deferred, Unlink, Ignored, Works, Fails, Go, PairNames,
       PairHeld, Undone1, Undone, Undone2
  <2> QED
    BY <2>1, <2>2, <2>3, Zenon DEF PairAt, PairPCs
<1>16. CASE ValidateExistingAt \/ PairSync \/ (pc = "pairFail" /\ Works /\ UNCHANGED pairVars /\ Return("err"))
  <2>1. /\ UNCHANGED <<dir, had, before, edits>>
        /\ \/ pc = "pairCheck" /\ pc' = "pairTemp1" /\ UNCHANGED <<result, faults>>
           \/ pc = "pairCheck" /\ pc' = "done" /\ result' = "err" /\ UNCHANGED faults
           \/ pc = "pairSync" /\ pc' = "done" /\ result' = "ok" /\ UNCHANGED faults
           \/ pc = "pairSync" /\ pc' = "done" /\ result' = "err" /\ faults' = faults + 1
           \/ pc = "pairFail" /\ pc' = "done" /\ result' = "err" /\ UNCHANGED faults
    BY <1>16 DEF ValidateExistingAt, PairSync, pairVars, Works, Fails, Go, Return
  <2>2. CASE pc = "pairCheck"
    <3>1. Found("none", "none") /\ result = "none"
      BY <2>2, Zenon DEF PairAt
    <3>2. pc' = "pairTemp1" => Found("none", "none")'
      BY <2>1, <2>2, <3>1 DEF Found
    <3>3. pc' = "done" => EndsBadly'
      BY <1>t, <2>1, <2>2, <3>1 DEF Found, EndsBadly
    <3> QED
      BY <2>1, <2>2, <3>1, <3>2, <3>3, Zenon DEF PairAt, PairPCs
  <2>3. CASE pc = "pairSync"
    <3>1. BothDropped
      BY <2>3, Zenon DEF PairAt
    <3>2. (result' = "ok" => BothDropped') /\ EndsBadly'
      BY <2>1, <2>3, <3>1 DEF BothDropped, EndsBadly
    <3> QED
      BY <2>1, <2>3, <3>2, Zenon DEF PairAt, PairPCs
  <2>4. CASE pc = "pairFail"
    <3>1. Undone2
      BY <2>4, Zenon DEF PairAt
    <3>2. EndsBadly'
      BY <2>1, <2>4, <3>1 DEF Undone2, Undone1, Undone, EndsBadly
    <3> QED
      BY <2>1, <2>4, <3>2, Zenon DEF PairAt, PairPCs
  <2> QED
    BY <2>1, <2>2, <2>3, <2>4
<1> QED
  BY <1>1, <1>2, <1>3, <1>4, <1>5, <1>6, <1>7, <1>8, <1>9, <1>10, <1>11, <1>12, <1>13, <1>14, <1>15, <1>16,
     Zenon DEF WriteOutputPair, Restore

\* Nothing happens, or another process puts a file at a free name.
PairQuiet ==
  /\ UNCHANGED <<pc, result, faults, had, before>> /\ edits' \in Nat /\ edits' >= edits
  /\ \A n \in PairNames :
       dir'[n] = dir[n] \/ (n \in {"first", "second"} /\ dir[n] = "none" /\ dir'[n] = "stray" /\ edits' > 0)

\* That disturbs none of it.
LEMMA PairUndisturbed ==
  ASSUME PairType, PairAt, PairQuiet
  PROVE  PairAt'
<1>1. edits \in Nat /\ PairQuiet
  BY DEF PairType
<1> USE DEF AsFound, Aside, BothAside, Strayed, Vacant, Temps, BothNew, Safe, BothSafe,
            Restored, BothRestored, Excused, Failed
<1>2. Found("none", "none") => Found("none", "none")'
  BY <1>1 DEF Found, PairNames, PairQuiet
<1>3. Found("new", "none") => Found("new", "none")'
  BY <1>1 DEF Found, PairNames, PairQuiet
<1>4. Found("new", "new") => Found("new", "new")'
  BY <1>1 DEF Found, PairNames, PairQuiet
<1>5. FirstAside => FirstAside'
  BY <1>1 DEF FirstAside, PairNames, PairQuiet
<1>6. Failed => Failed'
  BY <1>1 DEF PairNames, PairQuiet
<1>7. Emptied => Emptied'
  BY <1>1 DEF Emptied, PairNames, PairQuiet
<1>8. FirstIn => FirstIn'
  BY <1>1 DEF FirstIn, PairNames, PairQuiet
<1>9. BothIn => BothIn'
  BY <1>1 DEF BothIn, PairNames, PairQuiet
<1>10. FirstDropped => FirstDropped'
  BY <1>1 DEF FirstDropped, PairNames, PairQuiet
<1>11. BothDropped => BothDropped'
  BY <1>1 DEF BothDropped, PairNames, PairQuiet
<1>12. Undo1 => Undo1'
  BY <1>1 DEF Undo1, PairNames, PairQuiet
<1>13. Undo2 => Undo2'
  BY <1>1 DEF Undo1, Undo2, PairNames, PairQuiet
<1>14. Undo3 => Undo3'
  BY <1>1 DEF Undo1, Undo2, Undo3, PairNames, PairQuiet
<1>15. Undo4 => Undo4'
  BY <1>1 DEF Undo4, PairNames, PairQuiet
<1>16. Undone => Undone'
  BY <1>1 DEF Undone, PairNames, PairQuiet
<1>17. Undone1 => Undone1'
  BY <1>1 DEF Undone, Undone1, PairNames, PairQuiet
<1>18. Undone2 => Undone2'
  BY <1>1 DEF Undone, Undone1, Undone2, PairNames, PairQuiet
<1>19. EndsBadly => EndsBadly'
  BY <1>1 DEF EndsBadly, PairNames, PairQuiet
<1>20. Lasting => Lasting'
  BY <1>1 DEF Lasting, PairNames, PairQuiet
<1> HIDE DEF AsFound, Aside, BothAside, Strayed, Vacant, Temps, BothNew, Safe, BothSafe,
             Restored, BothRestored, Excused, Failed
<1> QED
  BY <1>1, <1>2, <1>3, <1>4, <1>5, <1>6, <1>7, <1>8, <1>9, <1>10, <1>11, <1>12, <1>13, <1>14, <1>15, <1>16,
     <1>17, <1>18, <1>19, <1>20 DEF PairAt, PairQuiet

\* Wherever the call is killed, both new files are in place or every old
\* file can still be found.
LEMMA PairLasts ==
  ASSUME PairType, PairAt
  PROVE  Lasting
<1> USE DEF AsFound, Aside, BothAside, Strayed, Safe, BothSafe, Lasting
<1>1. CASE pc \in {"pairCheck", "pairTemp1", "pairTemp2", "pairMove1"}
  <2>1. Found("none", "none") \/ Found("new", "none") \/ Found("new", "new")
    BY <1>1, Zenon DEF PairAt
  <2> QED
    BY <2>1 DEF Found
<1>2. CASE pc \in {"pairMove2", "pairBack1"}
  <2>1. FirstAside
    BY <1>2, Zenon DEF PairAt
  <2> QED
    BY <2>1 DEF FirstAside
<1>3. CASE pc \in {"pairPlace1", "pairPlace2", "pairUndo1", "pairUndo2", "pairUndo3"}
  <2>1. Emptied \/ FirstIn \/ Undo1 \/ Undo2 \/ Undo3
    BY <1>3, Zenon DEF PairAt
  <2>2. BothAside
    BY <2>1, Zenon DEF Emptied, FirstIn, Undo1, Undo2, Undo3
  <2> QED
    BY <2>2
<1>4. CASE pc \in {"pairDrop1", "pairDrop2", "pairSync"}
  <2>1. BothIn \/ FirstDropped \/ BothDropped
    BY <1>4, Zenon DEF PairAt
  <2> QED
    BY <2>1, Zenon DEF BothIn, FirstDropped, BothDropped
<1>5. CASE pc = "pairUndo4"
  <2>1. Undo4
    BY <1>5, Zenon DEF PairAt
  <2> QED
    BY <2>1 DEF Undo4
<1>6. CASE pc \in {"pairErr", "pairErr2", "pairFail"}
  <2>1. Undone \/ Undone1 \/ Undone2
    BY <1>6, Zenon DEF PairAt
  <2> QED
    BY <2>1, Zenon DEF Undone, Undone1, Undone2
<1>7. CASE pc \in {"done", "dead"}
  <2>1. BothDropped \/ EndsBadly \/ Lasting
    BY <1>7, Zenon DEF PairAt
  <2> QED
    BY <2>1, Zenon DEF BothDropped, EndsBadly
<1> QED
  BY <1>1, <1>2, <1>3, <1>4, <1>5, <1>6, <1>7, Zenon DEF PairAt, PairPCs

\* The directory has six names throughout.
LEMMA PairTypes ==
  ASSUME PairType, WriteOutputPair
  PROVE  PairType'
<1>1. before' = before
  BY Zenon DEF WriteOutputPair, Stray, ValidateExistingAt, WriteTempAt, MoveExistingAt, PutBack,
     Ignored, Place, Restore, DropMoved, PairSync, Deferred, pairVars
<1>2. faults' \in Nat /\ edits' \in Nat
  <2>1. \/ Works \/ Fails \/ faults' = faults + 2 \/ Edit
    BY Zenon DEF WriteOutputPair, Stray, ValidateExistingAt, WriteTempAt, MoveExistingAt, PutBack,
       Ignored, Place, Restore, DropMoved, PairSync, Deferred
  <2>2. edits' = edits \/ Edit
    BY Zenon DEF WriteOutputPair, Stray, ValidateExistingAt, WriteTempAt, MoveExistingAt, PutBack,
       Ignored, Place, Restore, DropMoved, PairSync, Deferred, Go, Return
  <2> QED
    BY <2>1, <2>2 DEF Works, Fails, Edit, PairType
<1>3. ASSUME NEW n \in PairNames, NEW c \in PairHeld
      PROVE  [dir EXCEPT ![n] = c] \in [PairNames -> PairHeld]
  BY <1>3 DEF PairType
<1>4. ASSUME NEW a \in PairNames, NEW b \in PairNames
      PROVE  [dir EXCEPT ![b] = dir[a], ![a] = "none"] \in [PairNames -> PairHeld]
  BY <1>4 DEF PairType, PairHeld
<1>5. dir' \in [PairNames -> PairHeld]
  <2>1. dir \in [PairNames -> PairHeld]
    BY DEF PairType
  <2>2. /\ "none" \in PairHeld /\ "new" \in PairHeld /\ "part" \in PairHeld /\ "stray" \in PairHeld
        /\ "first" \in PairNames /\ "second" \in PairNames
        /\ \A i \in 1..2 : Base[i] \in PairNames /\ Temp[i] \in PairNames /\ Backup[i] \in PairNames
        /\ 1 \in 1..2 /\ 2 \in 1..2
    BY PairIndices DEF PairHeld, PairNames
  <2>3. ASSUME NEW i \in 1..2, NEW here, NEW next, NEW failed,
               \/ WriteTempAt(i, here, next, failed) \/ MoveExistingAt(i, here, next, failed)
               \/ Place(i, here, next) \/ PutBack(i, here, next) \/ DropMoved(i, here, next)
               \/ Deferred(here, next, i)
        PROVE  dir' \in [PairNames -> PairHeld]
    BY <1>3, <1>4, <2>1, <2>2, <2>3, ZenonT(60)
       DEF WriteTempAt, MoveExistingAt, Place, PutBack, DropMoved, Deferred, Ignored, Unlink, Rename
  <2>4. ASSUME NEW here, NEW next, NEW wanted, NEW n \in PairNames, Ignored(here, next, wanted, Unlink(n))
        PROVE  dir' \in [PairNames -> PairHeld]
    BY <1>3, <2>1, <2>2, <2>4, Zenon DEF Ignored, Unlink
  <2>5. ASSUME Stray \/ ValidateExistingAt \/ PairSync \/ UNCHANGED pairVars
        PROVE  dir' \in [PairNames -> PairHeld]
    BY <1>3, <2>1, <2>2, <2>5, Zenon DEF Stray, ValidateExistingAt, PairSync, pairVars
  <2> QED
    BY <2>2, <2>3, <2>4, <2>5, Zenon DEF WriteOutputPair, Restore
<1> QED
  BY <1>1, <1>2, <1>5, Zenon DEF PairType

\* It holds before the first system call,
LEMMA PairBegins ==
  ASSUME PairInit, pc = "pairCheck", result = "none", faults = 0, edits = 0
  PROVE  PairType /\ PairAt
<1>1. PairType
  BY PairIndices DEF PairInit, PairType, PairNames, PairHeld
<1>2. Found("none", "none")
  BY PairIndices DEF PairInit, Found, AsFound, Temps, PairNames
<1> QED
  BY <1>1, <1>2, Zenon DEF PairAt, PairPCs

\* and through every step.
LEMMA PairKept ==
  ASSUME PairType, PairAt,
         WriteOutputPair \/ (Kill /\ UNCHANGED pairVars) \/ UNCHANGED <<writerVars, pairVars>>
  PROVE  PairType' /\ PairAt'
<1>1. CASE WriteOutputPair
  <2>1. Stray => PairQuiet
    BY PairIndices DEF Stray, Edit, PairType, PairNames, PairQuiet
  <2> QED
    BY <1>1, <2>1, PairStep, PairUndisturbed, PairTypes, Zenon
<1>2. CASE Kill /\ UNCHANGED pairVars
  <2>1. PairType' /\ Lasting'
    BY <1>2, PairLasts DEF PairType, Lasting, BothNew, BothSafe, Safe, Kill, pairVars
  <2>2. pc' = "dead" /\ pc # "done" /\ result' = result
    BY <1>2, Zenon DEF Kill
  <2> QED
    BY <2>1, <2>2, Zenon DEF PairAt, PairPCs
<1>3. CASE UNCHANGED <<writerVars, pairVars>>
  <2>1. PairQuiet
    BY <1>3 DEF PairType, PairQuiet, writerVars, pairVars
  <2>2. PairType'
    BY <1>3 DEF PairType, writerVars, pairVars
  <2> QED
    BY <2>1, <2>2, PairUndisturbed
<1> QED
  BY <1>1, <1>2, <1>3, Zenon

\* What it says when the call returns.
LEMMA PairPromise ==
  ASSUME PairType, PairAt
  PROVE  /\ result = "ok" => Replaced /\ (faults = 0 => Clean)
         /\ result = "err" => Replaced \/ faults > 1 \/ edits > 0 \/ dir = before
         /\ Replaced \/ (Kept(1) /\ Kept(2))
<1>1. Lasting
  BY PairLasts
<1>2. /\ result = "ok" => BothDropped
      /\ result = "err" => EndsBadly
  BY Zenon DEF PairAt
<1>3. /\ Replaced <=> BothNew
      /\ Clean <=> /\ Temps("none", "none")
                  /\ dir["firstBackup"] = "none" /\ dir["secondBackup"] = "none"
      /\ Kept(1) <=> Safe("first", "firstBackup")
      /\ Kept(2) <=> Safe("second", "secondBackup")
  BY PairIndices DEF Replaced, Clean, Kept, BothNew, Temps, Safe
<1>4. BothRestored /\ Temps("none", "none") => dir = before
  BY DEF PairType, BothRestored, Restored, Temps, PairNames
<1> QED
  BY <1>1, <1>2, <1>3, <1>4, Zenon DEF Lasting, BothDropped, EndsBadly, BothSafe, Excused

-----------------------------------------------------------------------------
(* The run store *)

RunHeld == {"none", "good", "part", "other"}

RunType ==
  /\ faults \in Nat /\ edits \in Nat
  /\ stage \in [Names -> RunHeld] /\ public \in [Names -> RunHeld]
  /\ batch \in [open : BOOLEAN, files : SUBSET Artifacts, api : {"batch", "write"}]
  /\ created \subseteq Artifacts
  /\ reply \in {"none", "err", "aborted", "ok", "unclean", "closed"}

\* A set of artifacts that Commit or Write may publish.
Profile(files) ==
  IF batch.api = "write"
    THEN files \in Reports
    ELSE Cardinality(files) >= MinRunArtifacts /\ ValidateRunProfile(files)

Quiet == edits = 0

\* The staged files are the ones of the batch, unless somebody interfered.
Staged == Quiet => \A n \in batch.files : stage[n] = "good"

\* Nothing was published yet.
Unpublished == /\ final \notin {"ours", "bare"} /\ created = {} /\ ~late /\ (Quiet => parentOK)
               /\ \A n \in Names : public[n] = "none"

\* The recorded files are there; every other entry is somebody else's, or one
\* of ours that was cut short.
Recorded(cut) ==
  \A n \in Names : public[n] \in (IF n \in created THEN {"good"} ELSE {"none"} \cup cut) \cup {"other"}

Copying ==
  /\ created \subseteq batch.files /\ Profile(batch.files) /\ Staged /\ ~late
  /\ Recorded({}) /\ final # "bare"
  /\ Quiet => final = "ours" /\ parentOK /\ \A n \in Names : public[n] # "other"

\* A cleanup has a reason.
Cleaning == Recorded({"part"}) /\ (faults > 0 \/ ~Quiet) /\ final # "bare"

Unlinking ==
  /\ Cleaning /\ owned \subseteq created
  /\ \A n \in created \ owned : public[n] = "other"
  /\ ~late => \A n \in owned : public[n] = "good"

Stranger == \E n \in Names : public[n] \in {"part", "other"}

Amends == /\ final = "ours" => Stranger \/ faults > 1 \/ (faults > 0 /\ ~Quiet)
          /\ final # "bare"

Closing ==
  /\ Profile(created) /\ Recorded({}) /\ final # "bare"
  /\ ~late => final = "ours" /\ \A n \in Names : public[n] # "other"

\* A name that was reserved and not opened is bare.
Bare == final = "bare" => faults > 0 /\ created = {}

\* What may stand at the public name after an error.
Excusable == /\ final = "ours" => Complete \/ Stranger \/ faults > 1 \/ (faults > 0 /\ ~Quiet)
             /\ Bare

\* The stage is cleaned up last, and the reply is settled.
Ending ==
  /\ Excusable /\ reply # "none" /\ (reply \in {"ok", "aborted"} => final # "bare")
  /\ reply = "ok" /\ ~late => final = "ours" /\ Complete

RunLeft ==
  /\ result = "ok" /\ ~late => final = "ours" /\ Complete
  /\ result \in {"err", "exists", "aborted"} => Excusable
  /\ final = "bare" => result = "err"
  /\ stageName = "ours" => result # "ok" /\ faults > 0

RunAt ==
  /\ pc \in {"prepare", "stage", "commit", "reserve", "copy", "close", "finish", "clean", "unlink",
             "aborting", "empty", "rmstage", "reclose", "done", "dead"}
  /\ pc = "prepare" => Unpublished /\ Staged /\ stageName = "none"
  /\ pc = "stage" => Unpublished /\ Staged
  /\ pc \in {"prepare", "stage"} => batch.api = "batch"
  /\ pc \in {"commit", "reserve"} => Unpublished /\ Staged /\ Profile(batch.files)
  /\ pc = "copy" => Copying
  /\ pc \in {"close", "finish"} => Closing
  /\ pc = "clean" => Cleaning /\ ~late
  /\ pc = "unlink" => Unlinking
  /\ pc = "aborting" => Amends
  /\ pc \in {"empty", "rmstage", "reclose"} => Ending
  /\ pc = "rmstage" /\ stageName = "ours" => bound
  /\ pc = "reclose" => reply = "err"
  /\ pc # "done" => result = "none"
  /\ pc = "done" => RunLeft

\* The artifacts have an order, so that one of those left is the next.
LEMMA NextArtifact ==
  ASSUME NEW S \in SUBSET Artifacts, S # {}
  PROVE  (CHOOSE m \in S : \A k \in S : m <= k) \in S
<1>1. S \subseteq Nat
  BY RunAssumption
<1>2. PICK x \in S : \A y \in S : <<y, x>> \notin OpToRel(<, Nat)
  BY <1>1, NatLessThanWellFounded, WFMin, Zenon
<1>3. \A y \in S : ~(y < x)
  BY <1>1, <1>2, Zenon DEF OpToRel
<1>4. \A y \in S : x <= y
  BY <1>1, <1>3
<1> QED
  BY <1>2, <1>4, Zenon

\* A complete run is one in which nobody interfered after the last check.
LEMMA ClosingComplete ==
  ASSUME Closing, \A n \in Names : public[n] # "other", created \subseteq Artifacts
  PROVE  Complete
<1>1. \A n \in Names : public[n] # "none" <=> n \in created
  BY DEF Closing, Recorded
<1>2. Present(public) = created
  BY <1>1 DEF Present, Names
<1>3. \A n \in created : public[n] = "good"
  BY DEF Closing, Recorded, Names
<1> QED
  BY <1>2, <1>3, Zenon DEF Complete, Closing, Profile

\* A call that is to end in an error leaves what is excused.
LEMMA RunAborted ==
  ASSUME RunType, NEW why \in {"err", "aborted"}, AbortBatch(why), faults' \in {faults, faults + 1},
         \/ final' = final /\ Excusable /\ (why = "aborted" => final # "bare")
         \/ final' = "bare" /\ created = {} /\ faults' = faults + 1 /\ why = "err",
         result = "none"
  PROVE  RunType' /\ RunAt'
<1>1. /\ pc' = "empty" /\ reply' = why /\ batch' = [batch EXCEPT !.open = FALSE, !.files = {}]
      /\ UNCHANGED <<result, edits, stage, stageName, public, parentOK, created, owned, late, bound>>
  BY Zenon DEF AbortBatch
<1>2. /\ batch' \in [open : BOOLEAN, files : SUBSET Artifacts, api : {"batch", "write"}]
      /\ batch'.api = batch.api
  BY <1>1, Zenon DEF RunType
<1>3. faults' \in Nat /\ faults' >= faults /\ (faults' = faults + 1 => faults' > 0)
  BY DEF RunType
<1>4. RunType'
  BY <1>1, <1>2, <1>3, Zenon DEF RunType
<1>5. Complete' <=> Complete
  BY <1>1, <1>2, Zenon DEF Complete, Present
<1>6. Bare'
  BY <1>1, <1>3 DEF Bare, Excusable, RunType
<1>7. Excusable'
  BY <1>1, <1>3, <1>5, <1>6 DEF Excusable, Stranger, Quiet, RunType
<1>8. Ending'
  BY <1>1, <1>7, Zenon DEF Ending
<1> QED
  BY <1>1, <1>4, <1>8, Zenon DEF RunAt

\* The same for a call that is refused or meets a failure.
LEMMA RunStopped ==
  ASSUME RunType, Excusable, result = "none", Refused \/ Broken
  PROVE  RunType' /\ RunAt'
<1>1. /\ AbortBatch("err") /\ final' = final /\ faults' \in {faults, faults + 1}
  BY Zenon DEF Refused, Broken, AbortWithError, Works, Fails
<1>2. "err" \in {"err", "aborted"} /\ "err" # "aborted"
  OBVIOUS
<1> QED
  BY <1>1, <1>2, RunAborted, Zenon

\* Before the name is reserved there is nothing to excuse.
LEMMA UnpublishedExcused ==
  Unpublished => Excusable
BY DEF Unpublished, Excusable, Bare

\* What the other process does.
LEMMA RunDisturbed ==
  ASSUME RunType, RunAt, Disturb
  PROVE  RunType' /\ RunAt'
<1>1. /\ UNCHANGED <<batch, created, owned, pc, result, faults, reply, bound>>
      /\ pc \notin {"done", "dead"} /\ edits' = edits + 1
      /\ late' = (late \/ pc \in {"close", "finish", "unlink", "empty", "rmstage", "reclose"})
  BY Zenon DEF Disturb, Edit
<1>2. /\ stage' = stage \/ \E n \in Names : stage' = [stage EXCEPT ![n] = "other"]
      /\ public' = public \/ (final = "ours" /\ \E n \in Names : public' = [public EXCEPT ![n] = "other"])
      /\ final' = final \/ final' = "other"
      /\ stageName' = stageName \/ (stageName = "ours" /\ stageName' = "other")
  BY Zenon DEF Disturb
<1>3. edits' \in Nat /\ ~Quiet'
  BY <1>1 DEF RunType, Quiet
<1>4. stage' \in [Names -> RunHeld] /\ public' \in [Names -> RunHeld]
  BY <1>2 DEF RunType, RunHeld
<1>5. RunType'
  BY <1>1, <1>3, <1>4 DEF RunType
<1>6. \A n \in Names : public'[n] \in {public[n], "other"}
  BY <1>2 DEF RunType
<1>7. Staged'
  BY <1>3, Zenon DEF Staged
<1>8. Unpublished => Unpublished' \/ late'
  BY <1>1, <1>2, <1>3 DEF Unpublished
<1>9. \A cut : Recorded(cut) => Recorded(cut)'
  BY <1>1, <1>6 DEF Recorded
<1>10. \A files : Profile(files) => Profile(files)'
  BY <1>1, Zenon DEF Profile
<1>11. Copying => Copying' \/ late'
  BY <1>1, <1>2, <1>3, <1>7, <1>9, <1>10 DEF Copying
<1>12. Cleaning => Cleaning'
  BY <1>1, <1>2, <1>3, <1>9, Zenon DEF Cleaning
<1>13. Closing /\ pc \in {"close", "finish"} => Closing'
  BY <1>1, <1>2, <1>9, <1>10, Zenon DEF Closing
<1>14. created \subseteq Names
  BY DEF RunType, Names
<1>15. Unlinking /\ pc = "unlink" => Unlinking'
  BY <1>1, <1>6, <1>12, <1>14, Zenon DEF Unlinking
<1>16. Stranger => Stranger'
  BY <1>6 DEF Stranger
<1>17. Amends => Amends'
  BY <1>1, <1>2, <1>3, <1>16 DEF Amends
<1>18. late' => late \/ pc \in {"close", "finish", "unlink", "empty", "rmstage", "reclose"}
  BY <1>1, Zenon
<1>19. ~(pc = "copy" /\ late) /\ ~(pc = "clean" /\ late)
       /\ ~(pc \in {"prepare", "stage", "commit", "reserve"} /\ late)
  BY Zenon DEF RunAt, Copying, Unpublished
<1>20. \/ pc \in {"prepare", "stage", "commit", "reserve"} /\ Unpublished' /\ Staged'
       \/ pc \notin {"prepare", "stage", "commit", "reserve"}
  BY <1>7, <1>8, <1>18, <1>19 DEF RunAt
<1>21. pc \in {"commit", "reserve"} => Profile(batch.files)'
  BY <1>1, <1>10 DEF RunAt
<1>22. pc = "copy" => Copying'
  BY <1>11, <1>18, <1>19 DEF RunAt
<1>23. pc = "clean" => Cleaning' /\ ~late'
  BY <1>12, <1>18, <1>19 DEF RunAt
<1>24. /\ pc \in {"close", "finish"} => Closing'
       /\ pc = "unlink" => Unlinking'
       /\ pc = "aborting" => Amends'
  BY <1>13, <1>15, <1>17 DEF RunAt
<1>25. Excusable => Excusable'
  <2>1. Bare => Bare'
    BY <1>1, <1>2 DEF Bare
  <2>2. CASE public' = public
    <3>1. Complete => Complete'
      BY <1>1, <2>2, Zenon DEF Complete, Present
    <3> QED
      BY <1>1, <1>2, <1>3, <1>16, <2>1, <3>1, Zenon DEF Excusable
  <2>3. CASE public' # public
    <3>1. Stranger'
      BY <1>2, <2>3 DEF Stranger, RunType
    <3> QED
      BY <2>1, <3>1, Zenon DEF Excusable
  <2> QED
    BY <2>2, <2>3, Zenon
<1>26. pc \in {"empty", "rmstage", "reclose"} => Ending'
  BY <1>1, <1>2, <1>25, Zenon DEF RunAt, Ending
<1>29. pc \in {"prepare", "stage"} => batch'.api = "batch"
  BY <1>1, Zenon DEF RunAt
<1>27. /\ pc = "rmstage" /\ stageName' = "ours" => bound'
       /\ pc = "prepare" => stageName' = "none"
       /\ pc = "reclose" => reply' = "err"
  BY <1>1, <1>2, Zenon DEF RunAt
<1>28. pc' \in {"prepare", "stage", "commit", "reserve", "copy", "close", "finish", "clean", "unlink",
               "aborting", "empty", "rmstage", "reclose"} /\ result' = "none"
  BY <1>1, Zenon DEF RunAt
<1> QED
  BY <1>1, <1>5, <1>20, <1>21, <1>22, <1>23, <1>24, <1>26, <1>27, <1>28, <1>29 DEF RunAt

\* Preparing the stage and putting files into it.
LEMMA RunStages ==
  ASSUME RunType, RunAt,
         PrepareOutputRoot \/ BeginBatch \/ StageRefused \/ Abort \/ Commit \/ CommitStage
           \/ (\E n \in Artifacts : Stage(n)) \/ (\E r \in Reports : WriteBundle(r))
  PROVE  RunType' /\ RunAt'
<1>0. pc \in {"prepare", "stage", "commit"} /\ Unpublished /\ Excusable /\ Staged
  <2>1. pc \in {"prepare", "stage", "commit"}
    BY Zenon DEF PrepareOutputRoot, BeginBatch, StageRefused, Abort, Commit, CommitStage, Stage, WriteBundle
  <2>2. Unpublished /\ Staged
    BY <2>1 DEF RunAt
  <2> QED
    BY <2>1, <2>2, UnpublishedExcused, Zenon
<1>1. ASSUME Refused \/ Broken
      PROVE  RunType' /\ RunAt'
  BY <1>0, <1>1, RunStopped, Zenon DEF RunAt
<1>2. ASSUME UNCHANGED <<faults, edits, result, final, public, created, late, parentOK, reply>>,
             stage' \in [Names -> RunHeld], Staged',
             batch' \in [open : BOOLEAN, files : SUBSET Artifacts, api : {"batch", "write"}],
             \/ pc' = "stage" /\ result = "none" /\ batch'.api = "batch"
             \/ pc' \in {"commit", "reserve"} /\ result = "none" /\ Profile(batch.files)'
      PROVE  RunType' /\ RunAt'
  <2>1. RunType'
    BY <1>2, Zenon DEF RunType
  <2>2. Unpublished'
    BY <1>0, <1>2, Zenon DEF Unpublished, Quiet
  <2> QED
    BY <1>2, <2>1, <2>2, Zenon DEF RunAt
<1>3. result = "none"
  BY <1>0, Zenon DEF RunAt
<1>4. CASE PrepareOutputRoot
  <2>1. /\ UNCHANGED <<stage, final, public, parentOK, batch, created, owned, late, edits, reply>>
        /\ \/ pc' = "stage" /\ UNCHANGED <<result, faults>>
           \/ /\ pc' = "done" /\ result' \in {"exists", "err"}
              /\ faults' \in {faults, faults + 1, faults + 2}
              /\ stageName' = stageName \/ faults' = faults + 2
    BY <1>4, Zenon DEF PrepareOutputRoot, Works, Fails, Go, Return
  <2>2. Staged' /\ RunType'
    BY <1>0, <2>1 DEF Staged, Quiet, RunType
  <2>5. stageName = "none"
    BY <1>4, Zenon DEF PrepareOutputRoot, RunAt
  <2>6. stageName' = stageName \/ pc' = "stage" \/ faults' > 0
    BY <2>1 DEF RunType
  <2>7. batch.api = "batch"
    BY <1>4, Zenon DEF PrepareOutputRoot, RunAt
  <2>3. CASE pc' = "stage"
    BY <1>2, <1>3, <2>1, <2>2, <2>3, <2>7, Zenon DEF RunType
  <2>4. CASE pc' = "done"
    <3>1. Excusable' /\ final' # "bare"
      BY <1>0, <2>1, Zenon DEF Excusable, Unpublished, Bare
    <3>2. RunLeft'
      BY <2>1, <2>4, <2>5, <2>6, <3>1, Zenon DEF RunLeft
    <3> QED
      BY <2>1, <2>2, <2>4, <3>2, Zenon DEF RunAt
  <2> QED
    BY <2>1, <2>3, <2>4, Zenon
<1>5. CASE BeginBatch
  <2>1. /\ UNCHANGED <<faults, edits, result, stage, final, public, created, late, parentOK, reply>> /\ pc' = "stage"
        /\ batch' = [batch EXCEPT !.open = TRUE, !.files = {}] /\ batch.api = "batch"
    BY <1>5, Zenon DEF BeginBatch, Works, Go, Nowhere
  <2>2. /\ batch' \in [open : BOOLEAN, files : SUBSET Artifacts, api : {"batch", "write"}]
        /\ batch'.files = {} /\ batch'.api = "batch"
    BY <2>1, Zenon DEF RunType
  <2>3. Staged'
    BY <2>2 DEF Staged
  <2> QED
    BY <1>2, <1>3, <2>1, <2>2, <2>3, Zenon DEF RunType
<1>6. CASE \E n \in Artifacts : Stage(n)
  <2>1. PICK n \in Artifacts : Stage(n)
    BY <1>6, Zenon
  <2>2. CASE Refused \/ Broken
    BY <1>1, <2>2, Zenon
  <2>3. CASE ~(Refused \/ Broken)
    <3>1. /\ UNCHANGED <<faults, edits, result, final, public, created, late, parentOK, reply>> /\ pc' = "stage"
          /\ stage' = [stage EXCEPT ![n] = "good"]
          /\ batch' = [batch EXCEPT !.open = TRUE, !.files = @ \cup {n}] /\ batch.api = "batch"
      BY <2>1, <2>3, Zenon DEF Stage, Works, Go
    <3>2. /\ batch' \in [open : BOOLEAN, files : SUBSET Artifacts, api : {"batch", "write"}]
          /\ batch'.files = batch.files \cup {n} /\ batch'.api = "batch"
      BY <3>1, Zenon DEF RunType
    <3>3. n \in Names /\ batch.files \subseteq Names
      BY Zenon DEF RunType, Names
    <3>4. stage' \in [Names -> RunHeld] /\ stage'[n] = "good"
          /\ \A m \in Names : m # n => stage'[m] = stage[m]
      BY <3>1, <3>3 DEF RunType, RunHeld
    <3>5. Staged'
      BY <1>0, <3>1, <3>2, <3>3, <3>4, Zenon DEF Staged, Quiet
    <3> QED
      BY <1>2, <1>3, <3>1, <3>2, <3>4, <3>5, Zenon
  <2> QED
    BY <2>2, <2>3, Zenon
<1>7. CASE \E r \in Reports : WriteBundle(r)
  <2>1. PICK r \in Reports : WriteBundle(r)
    BY <1>7, Zenon
  <2>2. CASE Refused \/ Broken
    BY <1>1, <2>2, Zenon
  <2>3. CASE ~(Refused \/ Broken)
    <3>1. /\ UNCHANGED <<faults, edits, result, final, public, created, late, parentOK, reply>> /\ pc' = "commit"
          /\ stage' = [n \in Names |-> IF n \in r THEN "good" ELSE stage[n]]
          /\ batch' = [open |-> FALSE, files |-> r, api |-> "write"]
      BY <2>1, <2>3, Zenon DEF WriteBundle, Works, Go
    <3>2. r \in SUBSET Artifacts /\ r \subseteq Names
      BY RunAssumption, Zenon DEF Names
    <3>3. /\ batch' \in [open : BOOLEAN, files : SUBSET Artifacts, api : {"batch", "write"}]
          /\ batch'.files = r /\ batch'.api = "write"
      BY <3>1, <3>2, Zenon
    <3>4. stage' \in [Names -> RunHeld] /\ \A n \in r : stage'[n] = "good"
      BY <3>1, <3>2, Zenon DEF RunType, RunHeld
    <3>5. Staged' /\ Profile(batch.files)'
      BY <3>3, <3>4, Zenon DEF Staged, Profile
    <3> QED
      BY <1>2, <1>3, <3>1, <3>3, <3>4, <3>5, Zenon
  <2> QED
    BY <2>2, <2>3, Zenon
<1>8. CASE StageRefused
  BY <1>1, <1>8, Zenon DEF StageRefused
<1>9. CASE Abort
  <2>1. AbortBatch("aborted") /\ final' = final /\ faults' \in {faults, faults + 1} /\ final # "bare"
    BY <1>0, <1>9, Zenon DEF Abort, Works, Unpublished
  <2>2. "aborted" \in {"err", "aborted"}
    OBVIOUS
  <2> QED
    BY <1>0, <1>3, <2>1, <2>2, RunAborted, Zenon
<1>10. CASE Commit
  <2>1. CASE Refused
    BY <1>1, <2>1, Zenon
  <2>2. CASE ~Refused
    <3>1. /\ UNCHANGED <<faults, edits, result, stage, final, public, created, late, parentOK, batch, reply>>
          /\ pc' = "commit"
          /\ Cardinality(batch.files) >= MinRunArtifacts /\ ValidateRunProfile(batch.files)
          /\ pc = "stage"
      BY <1>10, <2>2, Zenon DEF Commit, Works, Go, Nowhere
    <3>3. batch.api = "batch"
      BY <3>1, Zenon DEF RunAt
    <3>2. Staged' /\ Profile(batch.files)'
      BY <1>0, <3>1, <3>3, Zenon DEF Staged, Profile, Quiet
    <3> QED
      BY <1>2, <1>3, <3>1, <3>2, Zenon DEF RunType
  <2> QED
    BY <2>1, <2>2, Zenon
<1>11. CASE CommitStage
  <2>1. CASE Refused \/ Broken
    BY <1>1, <2>1, Zenon
  <2>2. CASE ~(Refused \/ Broken)
    <3>1. /\ UNCHANGED <<faults, edits, result, stage, final, public, created, late, parentOK, batch, reply>>
          /\ pc = "commit" /\ pc' = "reserve"
      BY <1>11, <2>2, Zenon DEF CommitStage, Works, Go, Nowhere
    <3>2. Profile(batch.files)
      BY <3>1, Zenon DEF RunAt
    <3>3. Staged' /\ Profile(batch.files)'
      BY <1>0, <3>1, <3>2, Zenon DEF Staged, Profile, Quiet
    <3> QED
      BY <1>2, <1>3, <3>1, <3>3, Zenon DEF RunType
  <2> QED
    BY <2>1, <2>2, Zenon
<1> QED
  BY <1>4, <1>5, <1>6, <1>7, <1>8, <1>9, <1>10, <1>11, Zenon

\* Reserving the name, copying and checking the copy.
LEMMA RunPublishes ==
  ASSUME RunType, RunAt, Reserve \/ CopyPublishedArtifact \/ Verify
  PROVE  RunType' /\ RunAt'
<1>1. created \subseteq Names /\ batch.files \subseteq Names
  BY Zenon DEF RunType, Names
<1>2. CASE Reserve
  <2>1. pc = "reserve" /\ Unpublished /\ Staged /\ Profile(batch.files) /\ result = "none"
    BY <1>2, Zenon DEF Reserve, RunAt
  <2>2. CASE Refused \/ Broken
    BY <2>1, <2>2, UnpublishedExcused, RunStopped, Zenon
  <2>4. CASE Fails /\ final' = "bare" /\ AbortWithError
    <3>1. AbortBatch("err") /\ created = {} /\ faults' = faults + 1 /\ final' = "bare"
      BY <2>1, <2>4, Zenon DEF AbortWithError, Fails, Unpublished
    <3> QED
      BY <2>1, <3>1, RunAborted, Zenon
  <2>3. CASE ~(Refused \/ Broken) /\ ~(Fails /\ final' = "bare" /\ AbortWithError)
    <3>1. /\ UNCHANGED <<faults, edits, result, stage, public, parentOK, batch, created, owned, late, reply>>
          /\ pc' = "copy" /\ final' = "ours"
      BY <1>2, <2>3, Zenon DEF Reserve, Works, Go
    <3>2. created = {} /\ (\A n \in Names : public[n] = "none") /\ ~late /\ (Quiet => parentOK)
      BY <2>1, Zenon DEF Unpublished
    <3>3. Recorded({})'
      BY <3>1, <3>2, Zenon DEF Recorded
    <3>4. Staged' /\ Profile(batch.files)' /\ (Quiet' <=> Quiet)
      BY <2>1, <3>1, Zenon DEF Staged, Profile, Quiet
    <3>5. Copying'
      BY <3>1, <3>2, <3>3, <3>4, Zenon DEF Copying
    <3>6. RunType'
      BY <3>1, Zenon DEF RunType
    <3> QED
      BY <2>1, <3>1, <3>5, <3>6, Zenon DEF RunAt
  <2> QED
    BY <2>2, <2>3, <2>4, Zenon
<1>3. CASE CopyPublishedArtifact
  <2>1. pc = "copy" /\ Uncopied # {} /\ Copying /\ result = "none"
    BY <1>3, Zenon DEF CopyPublishedArtifact, RunAt
  <2> DEFINE n == CHOOSE m \in Uncopied : \A k \in Uncopied : m <= k
  <2>2. Uncopied \in SUBSET Artifacts
    BY Zenon DEF Uncopied, RunType
  <2>3. n \in Uncopied
    BY <2>1, <2>2, NextArtifact, Zenon
  <2>4. /\ UNCHANGED <<edits, result, stage, final, parentOK, batch, owned, late, reply>>
        /\ \/ /\ stage[n] = "good" /\ public[n] = "none" /\ pc' = "copy" /\ UNCHANGED faults
              /\ public' = [public EXCEPT ![n] = "good"] /\ created' = created \cup {n}
           \/ /\ stage[n] # "good" \/ public[n] # "none"
              /\ pc' = "clean" /\ UNCHANGED <<faults, public, created>>
           \/ /\ pc' = "clean" /\ faults' = faults + 1
              /\ public[n] = "none" /\ public' \in {public, [public EXCEPT ![n] = "part"]} /\ UNCHANGED created
    BY <1>3, Zenon DEF CopyPublishedArtifact, Works, Fails, Go
  <2> HIDE DEF n
  <2>5. n \in batch.files /\ n \notin created /\ n \in Names /\ n \in Artifacts
    BY <1>1, <2>2, <2>3, Zenon DEF Uncopied
  <2>6. RunType'
    <3>1. public' \in [Names -> RunHeld]
      BY <2>4, <2>5, Zenon DEF RunType, RunHeld
    <3>2. faults' \in Nat /\ created' \subseteq Artifacts
      BY <2>4, <2>5 DEF RunType
    <3> QED
      BY <2>4, <3>1, <3>2, Zenon DEF RunType
  <2>7. CASE pc' = "copy"
    <3>1. /\ stage[n] = "good" /\ public[n] = "none" /\ UNCHANGED faults
          /\ public' = [public EXCEPT ![n] = "good"] /\ created' = created \cup {n}
      BY <2>4, <2>7, Zenon
    <3>2. public'[n] = "good" /\ \A m \in Names : m # n => public'[m] = public[m]
      BY <2>5, <3>1, Zenon DEF RunType
    <3>3. Recorded({})'
      BY <2>1, <3>1, <3>2 DEF Recorded, Copying
    <3>4. Staged' /\ Profile(batch.files)' /\ (Quiet' <=> Quiet)
      BY <2>1, <2>4, Zenon DEF Staged, Profile, Quiet, Copying
    <3>5. created' \subseteq batch'.files /\ ~late' /\ final' # "bare"
      BY <2>1, <2>4, <2>5, <3>1, Zenon DEF Copying
    <3>6. Quiet' => final' = "ours" /\ parentOK' /\ \A m \in Names : public'[m] # "other"
      BY <2>1, <2>4, <3>2, <3>4, Zenon DEF Copying
    <3>7. Copying'
      BY <3>3, <3>4, <3>5, <3>6, Zenon DEF Copying
    <3> QED
      BY <2>1, <2>4, <2>6, <2>7, <3>7, Zenon DEF RunAt
  <2>8. CASE pc' = "clean"
    <3>1. Quiet => stage[n] = "good" /\ public[n] = "none"
      BY <2>1, <2>5, Zenon DEF Copying, Staged, Recorded
    <3>2. faults' > 0 \/ ~Quiet'
      BY <2>4, <2>8, <3>1 DEF Quiet, RunType
    <3>3. \A m \in Names : public'[m] = public[m] \/ (m \notin created' /\ public'[m] = "part")
      BY <2>4, <2>5, <2>8 DEF RunType
    <3>4. UNCHANGED <<created, late>>
      BY <2>4, <2>8, Zenon
    <3>5. Recorded({"part"})'
      BY <2>1, <3>3, <3>4, Zenon DEF Copying, Recorded
    <3>6. ~late'
      BY <2>1, <3>4, Zenon DEF Copying
    <3>8. final' # "bare"
      BY <2>1, <2>4, Zenon DEF Copying
    <3>7. Cleaning'
      BY <3>2, <3>5, <3>8, Zenon DEF Cleaning
    <3> QED
      BY <2>1, <2>4, <2>6, <2>8, <3>6, <3>7, Zenon DEF RunAt
  <2> QED
    BY <2>4, <2>7, <2>8, Zenon
<1>4. CASE Verify
  <2>1. /\ pc = "copy" /\ Uncopied = {} /\ UNCHANGED <<edits, result, stage, final, public, parentOK, batch, created, late, reply>>
        /\ \/ pc' = "close" /\ UNCHANGED faults /\ ValidatePublishedArtifacts /\ final = "ours"
           \/ pc' = "clean" /\ UNCHANGED faults /\ ~(ValidatePublishedArtifacts /\ parentOK /\ final = "ours")
           \/ pc' = "clean" /\ faults' = faults + 1
    BY <1>4, Zenon DEF Verify, Nowhere, Works, Fails, Go
  <2>2. Copying /\ result = "none"
    BY <2>1, Zenon DEF RunAt
  <2>3. created = batch.files
    BY <2>1, <2>2, Zenon DEF Copying, Uncopied
  <2>4. RunType'
    BY <2>1 DEF RunType
  <2>5. CASE pc' = "close"
    <3>1. Present(public) = batch.files /\ \A m \in batch.files : public[m] = "good"
      BY <2>1, <2>5, Zenon DEF ValidatePublishedArtifacts
    <3>2. \A m \in Names : public[m] # "other"
      BY <3>1 DEF Present
    <3>3. Recorded({})' /\ Profile(created)'
      BY <2>1, <2>2, <2>3, Zenon DEF Recorded, Profile, Copying
    <3>4. Closing'
      BY <2>1, <2>2, <2>5, <3>2, <3>3, Zenon DEF Closing, Copying
    <3> QED
      BY <2>1, <2>2, <2>4, <2>5, <3>4, Zenon DEF RunAt
  <2>6. CASE pc' = "clean"
    <3>1. ASSUME Quiet
          PROVE  ValidatePublishedArtifacts /\ parentOK /\ final = "ours"
      <4>1. parentOK /\ final = "ours" /\ \A m \in Names : public[m] # "other"
        BY <2>2, <3>1, Zenon DEF Copying
      <4>2. \A m \in Names : public[m] = (IF m \in created THEN "good" ELSE "none")
        BY <2>2, <4>1, Zenon DEF Copying, Recorded
      <4>3. Present(public) = created
        BY <1>1, <4>2, Zenon DEF Present
      <4> QED
        BY <1>1, <2>3, <4>1, <4>2, <4>3, Zenon DEF ValidatePublishedArtifacts
    <3>2. faults' > 0 \/ ~Quiet'
      BY <2>1, <2>6, <3>1 DEF Quiet, RunType
    <3>3. Recorded({"part"})' /\ ~late' /\ final' # "bare"
      BY <2>1, <2>2, Zenon DEF Recorded, Copying
    <3>4. Cleaning'
      BY <3>2, <3>3, Zenon DEF Cleaning
    <3> QED
      BY <2>1, <2>2, <2>4, <2>6, <3>3, <3>4, Zenon DEF RunAt
  <2> QED
    BY <2>1, <2>5, <2>6, Zenon
<1> QED
  BY <1>2, <1>3, <1>4, Zenon

\* After the last check, and the cleanup of a publication that failed.
LEMMA RunCloses ==
  ASSUME RunType, RunAt,
         CloseFinal \/ CheckOwned \/ CleanupPublishedDirectory \/ AbortCommit \/ FinishCommit
  PROVE  RunType' /\ RunAt'
<1>1. created \subseteq Names
  BY Zenon DEF RunType, Names
<1>2. ASSUME Closing PROVE Excusable
  <2>1. CASE \A n \in Names : public[n] # "other"
    BY <1>2, <2>1, ClosingComplete, Zenon DEF Excusable, RunType, Bare, Closing
  <2>2. CASE \E n \in Names : public[n] = "other"
    BY <1>2, <2>2, Zenon DEF Excusable, Stranger, Bare, Closing
  <2> QED
    BY <2>1, <2>2, Zenon
<1>3. CASE CloseFinal
  <2>1. pc = "close" /\ Closing /\ result = "none"
    BY <1>3, Zenon DEF CloseFinal, RunAt
  <2>2. CASE Broken
    BY <1>2, <2>1, <2>2, RunStopped, Zenon
  <2>3. CASE ~Broken
    <3>1. /\ UNCHANGED <<faults, edits, result, stage, final, public, batch, created, late, reply>>
          /\ pc' = "finish"
      BY <1>3, <2>3, Zenon DEF CloseFinal, Works, Go, Nowhere
    <3>2. Closing' /\ RunType'
      BY <2>1, <3>1, Zenon DEF Closing, Recorded, Profile, RunType
    <3> QED
      BY <2>1, <3>1, <3>2, Zenon DEF RunAt
  <2> QED
    BY <2>2, <2>3, Zenon
<1>4. CASE CheckOwned
  <2>1. /\ UNCHANGED <<faults, edits, result, stage, final, public, batch, created, late, reply>>
        /\ pc = "clean" /\ pc' = "unlink" /\ owned' = {n \in created : public[n] = "good"}
    BY <1>4, Zenon DEF CheckOwned, Works, Go, Nowhere
  <2>2. Cleaning /\ result = "none"
    BY <2>1, Zenon DEF RunAt
  <2>3. Cleaning' /\ RunType'
    BY <2>1, <2>2, Zenon DEF Cleaning, Recorded, RunType, Quiet
  <2>4. \A n \in created : public[n] \in {"good", "other"}
    BY <1>1, <2>2, Zenon DEF Cleaning, Recorded
  <2>5. Unlinking'
    BY <2>1, <2>3, <2>4, Zenon DEF Unlinking
  <2> QED
    BY <2>1, <2>2, <2>3, <2>5, Zenon DEF RunAt
<1>5. CASE CleanupPublishedDirectory
  <2>1. /\ UNCHANGED <<edits, result, stage, batch, created, late, reply>>
        /\ pc = "unlink" /\ pc' = "aborting"
        /\ \/ /\ UNCHANGED faults /\ public' = RemoveOwned
              /\ final' = IF final = "ours" /\ Present(RemoveOwned) = {} THEN "none" ELSE final
           \/ faults' = faults + 1 /\ public' \in {public, RemoveOwned} /\ UNCHANGED final
    BY <1>5, Zenon DEF CleanupPublishedDirectory, Works, Fails, Go
  <2>2. Unlinking /\ result = "none"
    BY <2>1, Zenon DEF RunAt
  <2>3. /\ RemoveOwned \in [Names -> RunHeld]
        /\ \A n \in Names : RemoveOwned[n] = (IF n \in owned THEN "none" ELSE public[n])
    BY Zenon DEF RemoveOwned, RunHeld, RunType
  <2>4. RunType'
    BY <2>1, <2>3 DEF RunType
  <2>5. Amends'
    <3>0. final' # "bare"
      BY <2>1, <2>2, Zenon DEF Unlinking, Cleaning
    <3>1. CASE faults' = faults + 1
      <4>1. faults > 0 \/ ~Quiet
        BY <2>2, Zenon DEF Unlinking, Cleaning
      <4> QED
        BY <2>1, <3>0, <3>1, <4>1 DEF Amends, Quiet, RunType
    <3>2. CASE /\ public' = RemoveOwned
               /\ final' = IF final = "ours" /\ Present(RemoveOwned) = {} THEN "none" ELSE final
      <4> SUFFICES ASSUME final' = "ours" PROVE Stranger'
        BY <3>0, Zenon DEF Amends
      <4>1. Present(RemoveOwned) # {}
        BY <3>2, Zenon
      <4>2. PICK n \in Names : RemoveOwned[n] # "none"
        BY <4>1, Zenon DEF Present
      <4>3. n \notin owned /\ RemoveOwned[n] = public[n]
        BY <2>3, <4>2, Zenon
      <4>4. public[n] \in {"part", "other"}
        BY <2>2, <4>2, <4>3, Zenon DEF Unlinking, Cleaning, Recorded
      <4> QED
        BY <3>2, <4>3, <4>4, Zenon DEF Stranger
    <3> QED
      BY <2>1, <3>1, <3>2, Zenon
  <2> QED
    BY <2>1, <2>2, <2>4, <2>5, Zenon DEF RunAt
<1>6. CASE AbortCommit
  <2>1. Refused /\ Amends /\ result = "none"
    BY <1>6, Zenon DEF AbortCommit, RunAt
  <2>2. Excusable
    BY <2>1, Zenon DEF Amends, Excusable, Bare
  <2> QED
    BY <2>1, <2>2, RunStopped, Zenon
<1>7. CASE FinishCommit
  <2>1. /\ UNCHANGED <<faults, edits, stage, stageName, final, public, batch, created, late, result>>
        /\ pc = "finish" /\ pc' = "empty" /\ reply' = "ok"
    BY <1>7, Zenon DEF FinishCommit, Works, Go
  <2>2. Closing /\ result = "none"
    BY <2>1, Zenon DEF RunAt
  <2>3. RunType'
    BY <2>1, Zenon DEF RunType
  <2>4. Complete' <=> Complete
    BY <2>1, Zenon DEF Complete, Present
  <2>5. Excusable'
    BY <1>2, <2>1, <2>2, <2>4, Zenon DEF Excusable, Stranger, Quiet, Bare
  <2>6. ~late => final = "ours" /\ Complete
    BY <2>2, ClosingComplete, Zenon DEF Closing, RunType
  <2>7. Ending'
    BY <2>1, <2>2, <2>4, <2>5, <2>6, Zenon DEF Ending, Closing
  <2> QED
    BY <2>1, <2>2, <2>3, <2>7, Zenon DEF RunAt
<1> QED
  BY <1>3, <1>4, <1>5, <1>6, <1>7, Zenon

\* The stage is cleaned up; what is published stays.
LEMMA RunCleansUp ==
  ASSUME RunType, RunAt, EmptyStage \/ RemoveStage \/ CloseRoot
  PROVE  RunType' /\ RunAt'
<1>1. /\ UNCHANGED <<edits, final, public, batch, created, late>> /\ faults' \in {faults, faults + 1}
      /\ pc \in {"empty", "rmstage", "reclose"} /\ (stage' = stage \/ stage' = [n \in Names |-> "none"])
      /\ stageName' = stageName \/ (pc = "rmstage" /\ stageName' = "none")
  BY Zenon DEF EmptyStage, RemoveStage, CloseRoot, Works, Fails, Go, Return
<1>2. Ending /\ result = "none"
  BY <1>1, Zenon DEF RunAt
<1>3. faults' \in Nat /\ faults' >= faults /\ (faults' = faults + 1 => faults' > 0)
  BY <1>1 DEF RunType
<1>4. stage' \in [Names -> RunHeld]
  BY <1>1, Zenon DEF RunType, RunHeld
<1>5. Complete' <=> Complete
  BY <1>1, Zenon DEF Complete, Present
<1>6. Excusable'
  BY <1>1, <1>2, <1>3, <1>5 DEF Excusable, Stranger, Quiet, Bare, Ending, RunType
<1>7. CASE EmptyStage
  <2>1. /\ pc' = "rmstage" /\ bound' = (stageName = "ours") /\ UNCHANGED <<result, stageName>>
        /\ reply' = reply \/ (reply = "ok" /\ reply' = "unclean")
    BY <1>7, Zenon DEF EmptyStage, Go
  <2>2. RunType'
    BY <1>1, <1>3, <1>4, <2>1, Zenon DEF RunType
  <2>3. Ending'
    BY <1>1, <1>2, <1>5, <1>6, <2>1, Zenon DEF Ending
  <2> QED
    BY <1>2, <2>1, <2>2, <2>3, Zenon DEF RunAt
<1>8. CASE CloseRoot
  <2>1. pc = "reclose" /\ pc' = "rmstage" /\ bound' = (stageName = "ours") /\ reply' = "closed"
        /\ UNCHANGED <<result, stageName>>
    BY <1>8, Zenon DEF CloseRoot, Go
  <2>2. RunType'
    BY <1>1, <1>3, <1>4, <2>1, Zenon DEF RunType
  <2>3. Ending'
    BY <1>6, <2>1, Zenon DEF Ending
  <2> QED
    BY <1>2, <2>1, <2>2, <2>3, Zenon DEF RunAt
<1>9. CASE RemoveStage
  <2>1. /\ pc = "rmstage" /\ UNCHANGED reply
        /\ \/ /\ pc' = "done" /\ result' = (IF reply \in {"unclean", "closed"} THEN "err" ELSE reply)
              /\ stageName' = IF bound THEN "none" ELSE stageName
           \/ /\ faults' = faults + 1
              /\ \/ pc' = "done" /\ result' = (IF reply = "aborted" THEN reply ELSE "err")
                 \/ reply = "err" /\ pc' = "reclose" /\ UNCHANGED result
    BY <1>9, Zenon DEF RemoveStage, Works, Fails, Go, Return
  <2>2. RunType'
    BY <1>1, <1>3, <1>4, <2>1, Zenon DEF RunType
  <2>3. CASE pc' = "reclose"
    <3>1. Ending'
      BY <1>1, <1>2, <1>5, <1>6, <2>1, <2>3, Zenon DEF Ending
    <3> QED
      BY <1>2, <2>1, <2>2, <2>3, <3>1, Zenon DEF RunAt
  <2>4. CASE pc' = "done"
    <3>1. /\ result' = "ok" => reply = "ok" /\ (stageName' = "ours" => ~bound)
          /\ result' \in {"ok", "err", "aborted"}
          /\ result' # "err" => reply \in {"ok", "aborted"}
          /\ stageName' = "ours" => faults' = faults + 1 \/ ~bound
      BY <1>2, <2>1, <2>4 DEF Ending, RunType
    <3>2. stageName' = "ours" => stageName = "ours" /\ bound
      BY <1>1, <2>1, Zenon DEF RunAt
    <3>3. result' = "ok" /\ ~late' => final' = "ours" /\ Complete'
      BY <1>1, <1>2, <1>5, <3>1, Zenon DEF Ending
    <3>4. final' = "bare" => result' = "err"
      BY <1>1, <1>2, <3>1, Zenon DEF Ending
    <3>5. stageName' = "ours" => result' # "ok" /\ faults' > 0
      BY <1>3, <3>1, <3>2, Zenon
    <3>6. RunLeft'
      BY <1>6, <3>3, <3>4, <3>5, Zenon DEF RunLeft
    <3> QED
      BY <2>2, <2>4, <3>6, Zenon DEF RunAt
  <2> QED
    BY <2>1, <2>3, <2>4, Zenon
<1> QED
  BY <1>7, <1>8, <1>9, Zenon

\* What the run store does to what somebody else put there.
LEMMA RunForeign ==
  ASSUME RunType, RunAt, RunSteps
  PROVE  /\ final = "other" => final' = "other"
         /\ stageName = "other" => stageName' = "other" \/ (pc = "rmstage" /\ bound)
         /\ \A n \in Names : public[n] = "other" /\ ~late => public'[n] = "other"
<1>1. ASSUME Refused \/ Broken \/ Abort
      PROVE  UNCHANGED <<final, public, stageName>>
  BY <1>1, Zenon DEF Refused, Broken, Abort, AbortWithError, AbortBatch
<1>2. final = "other" => final' = "other"
  BY <1>1, Zenon DEF RunSteps, PrepareOutputRoot, BeginBatch, Stage, WriteBundle, StageRefused, Commit,
     CommitStage,
              Reserve, CopyPublishedArtifact, Verify, CloseFinal, CheckOwned, CleanupPublishedDirectory,
              AbortCommit, FinishCommit, EmptyStage, RemoveStage, CloseRoot, Disturb, Nowhere
<1>3. stageName = "other" => stageName' = "other" \/ (pc = "rmstage" /\ bound)
  <2>1. CASE PrepareOutputRoot
    BY <2>1, Zenon DEF PrepareOutputRoot, RunAt
  <2>3. CASE RemoveStage
    BY <2>3, Zenon DEF RemoveStage
  <2>4. CASE Reserve
    BY <1>1, <2>4, Zenon DEF Reserve, AbortWithError, AbortBatch
  <2>2. CASE ~PrepareOutputRoot /\ ~RemoveStage /\ ~Reserve
    BY <1>1, <2>2, Zenon
         DEF RunSteps, BeginBatch, Stage, WriteBundle, StageRefused, Commit, CommitStage,
             CopyPublishedArtifact, Verify, CloseFinal, CheckOwned, CleanupPublishedDirectory,
             AbortCommit, FinishCommit, EmptyStage, CloseRoot, Disturb, Nowhere
  <2> QED
    BY <2>1, <2>2, <2>3, <2>4, Zenon
<1>4. ASSUME NEW n \in Names, public[n] = "other", ~late
      PROVE  public'[n] = "other"
  <2>1. CASE CopyPublishedArtifact
    <3>1. \/ UNCHANGED public
          \/ \E m : public[m] = "none" /\ \E v \in {"good", "part"} : public' = [public EXCEPT ![m] = v]
      BY <2>1, Zenon DEF CopyPublishedArtifact
    <3> QED
      BY <1>4, <3>1, Zenon DEF RunType
  <2>2. CASE CleanupPublishedDirectory
    <3>1. pc = "unlink" /\ public' \in {public, RemoveOwned}
      BY <2>2, Zenon DEF CleanupPublishedDirectory
    <3>2. n \notin owned
      BY <1>4, <3>1, Zenon DEF RunAt, Unlinking
    <3> QED
      BY <1>4, <3>1, <3>2, Zenon DEF RemoveOwned
  <2>3. CASE Disturb
    <3>1. UNCHANGED public \/ \E m \in Names : public' = [public EXCEPT ![m] = "other"]
      BY <2>3, Zenon DEF Disturb
    <3> QED
      BY <1>4, <3>1, Zenon DEF RunType
  <2>4. CASE ~(CopyPublishedArtifact \/ CleanupPublishedDirectory \/ Disturb)
    <3>1. UNCHANGED public
      BY <1>1, <2>4, Zenon
           DEF RunSteps, PrepareOutputRoot, BeginBatch, Stage, WriteBundle, StageRefused, Commit, CommitStage,
               Reserve, AbortWithError, AbortBatch, Verify, CloseFinal, CheckOwned, AbortCommit, FinishCommit,
               EmptyStage, RemoveStage, CloseRoot, Nowhere
    <3> QED
      BY <1>4, <3>1, Zenon
  <2> QED
    BY <2>1, <2>2, <2>3, <2>4, Zenon
<1> QED
  BY <1>2, <1>3, <1>4, Zenon

\* It holds before the first system call,
LEMMA RunBegins ==
  ASSUME RunInit, pc = "prepare", result = "none", faults = 0, edits = 0
  PROVE  RunType /\ RunAt
<1>1. RunType
  BY Zenon DEF RunInit, RunType, RunHeld
<1>2. Unpublished /\ Staged /\ stageName = "none" /\ batch.api = "batch"
  BY Zenon DEF RunInit, Unpublished, Staged
<1> QED
  BY <1>1, <1>2, Zenon DEF RunAt

\* and through every step.
LEMMA RunKept ==
  ASSUME RunType, RunAt, RunSteps \/ (Kill /\ UNCHANGED runVars) \/ UNCHANGED <<writerVars, runVars>>
  PROVE  RunType' /\ RunAt'
<1>1. CASE RunSteps
  BY <1>1, RunStages, RunPublishes, RunCloses, RunCleansUp, RunDisturbed, Zenon DEF RunSteps
<1>2. CASE Kill /\ UNCHANGED runVars
  <2>1. /\ pc' = "dead" /\ pc # "done" /\ UNCHANGED <<result, faults, edits, stage, public, batch, created, reply>>
    BY <1>2, Zenon DEF Kill, runVars
  <2> QED
    BY <2>1, Zenon DEF RunAt, RunType
<1>3. CASE UNCHANGED <<writerVars, runVars>>
  <2>1. UNCHANGED <<pc, result, faults, edits, stage, stageName, final, public, parentOK, batch, created, owned, late,
                   reply, bound>>
    BY <1>3, Zenon DEF writerVars, runVars
  <2>2. RunType' /\ (Unpublished => Unpublished') /\ (Staged => Staged')
    BY <2>1, Zenon DEF RunType, Unpublished, Staged, Quiet
  <2>3. (\A files : Profile(files) => Profile(files)') /\ (\A cut : Recorded(cut) => Recorded(cut)')
    BY <2>1, Zenon DEF Profile, Recorded
  <2>4. (Copying => Copying') /\ (Cleaning => Cleaning') /\ (Closing => Closing')
    BY <2>1, <2>2, <2>3, Zenon DEF Copying, Cleaning, Closing, Quiet
  <2>5. Unlinking => Unlinking'
    BY <2>1, <2>4, Zenon DEF Unlinking
  <2>6. (Amends => Amends') /\ (Excusable => Excusable') /\ (Complete => Complete')
    BY <2>1, Zenon DEF Amends, Excusable, Stranger, Quiet, Bare, Complete, Present
  <2>7. (RunLeft => RunLeft') /\ (Ending => Ending')
    BY <2>1, <2>6, Zenon DEF RunLeft, Ending
  <2>8. (pc = "rmstage" /\ stageName = "ours" => bound) => (pc' = "rmstage" /\ stageName' = "ours" => bound')
    BY <2>1, Zenon
  <2> QED
    BY <2>1, <2>2, <2>3, <2>4, <2>5, <2>6, <2>7, <2>8, ZenonT(60) DEF RunAt
<1> QED
  BY <1>1, <1>2, <1>3, Zenon

\* What it says when the call returns.
LEMMA RunPromise ==
  ASSUME RunType, RunAt
  PROVE  /\ result = "ok" /\ ~late => final = "ours" /\ Complete
         /\ result \in {"err", "exists", "aborted"} /\ final = "ours" =>
              \/ Complete \/ (\E n \in Names : public[n] \in {"part", "other"})
              \/ faults > 1 \/ (faults > 0 /\ edits > 0)
         /\ result # "none" /\ final = "bare" => result = "err" /\ faults > 0 /\ created = {}
         /\ result # "none" /\ stageName = "ours" => result # "ok" /\ faults > 0
<1>1. result # "none" => RunLeft
  BY Zenon DEF RunAt
<1>2. ~Quiet => edits > 0
  BY DEF Quiet, RunType
<1> QED
  BY <1>1, <1>2, Zenon DEF RunLeft, Excusable, Stranger, Bare

-----------------------------------------------------------------------------
(* One file *)

\* What a writer that has returned leaves at its two names.
FileLeft ==
  /\ result = "ok" => temp = "none" /\ (file = "new" \/ (file = "old" /\ edits > 0))
  /\ file = "part" => way = "keep" \/ faults > 1
  /\ temp # "none" => faults > 1 \/ (faults > 0 /\ way = "publish" /\ file # "none")

\* The file of the writer is at its name, unless another process took it.
Placed(kinds) == file \in kinds \/ (file = "old" /\ edits > 0)

\* Only a writer that created its file goes on to fill, keep or remove it.
FileAt ==
  /\ faults \in Nat /\ edits \in Nat
  /\ pc # "done" => result = "none"
  /\ pc = "file" => temp = "none" /\ file \in {"none", "old"}
  /\ pc \in {"publish", "rename"} => temp = "new" /\ file \in {"none", "old"}
  /\ pc = "publish" => way = "publish"
  /\ pc = "rename" => way = "replace"
  /\ pc \in {"syncParent", "syncCreate"} => temp = "none" /\ Placed({"new"})
  /\ pc \in {"fill", "syncCreate", "uncreate"} => way \in {"create", "keep"}
  /\ pc \in {"syncCreate", "uncreate"} => way = "create"
  /\ pc = "fill" => temp = "none" /\ Placed({"part"})
  /\ pc = "uncreate" => temp = "none" /\ (file = "part" => faults > 0)
  /\ pc = "done" => FileLeft

\* Every step of the writer of one file keeps it, and what was there before is
\* kept, or replaced by the writer that is to replace it, or removed by the
\* undo of a create.
LEMMA FileStep ==
  ASSUME FileAt, FileSteps
  PROVE  /\ FileAt'
         /\ file = "old" => \/ file' = "old" \/ (way = "replace" /\ file' = "new")
                             \/ (pc = "uncreate" /\ way = "create")
<1>1. CASE PublishExclusiveCanonicalFile \/ Replace
  <2>1. /\ way' = way /\ edits' = edits
        /\ \/ /\ pc = "file" /\ file' = file /\ temp' = "new" /\ result' = result /\ faults' = faults
              /\ \/ pc' = "publish" /\ way = "publish"
                 \/ pc' = "rename" /\ way = "replace"
           \/ /\ pc \in {"publish", "rename"} /\ (pc = "publish" => file = "none")
              /\ file' = temp /\ temp' = "none"
              /\ pc' = "syncParent" /\ result' = result /\ faults' = faults
           \/ pc \in {"file", "publish", "rename"} /\ Drop(faults + 1)
           \/ pc = "publish" /\ file # "none" /\ Drop(faults)
    BY <1>1, Zenon DEF PublishExclusiveCanonicalFile, Replace, Fill, Drop, Works, Go, Return
  <2>2. ASSUME NEW spent, Drop(spent)
        PROVE  /\ file' = file /\ pc' = "done" /\ result' = "err"
               /\ \/ faults' = spent /\ temp' = "none"
                  \/ faults' = spent + 1 /\ temp' # "none"
    BY <2>2 DEF Drop, Return
  <2>3. CASE pc \in {"file", "publish", "rename"} /\ Drop(faults + 1)
    BY <2>1, <2>2, <2>3 DEF FileAt, FileLeft
  <2>4. CASE pc = "publish" /\ file # "none" /\ Drop(faults)
    BY <2>1, <2>2, <2>4 DEF FileAt, FileLeft
  <2>5. CASE ~(pc \in {"file", "publish", "rename"} /\ Drop(faults + 1)) 
             /\ ~(pc = "publish" /\ file # "none" /\ Drop(faults))
    BY <2>1, <2>5 DEF FileAt, FileLeft, Placed
  <2> QED
    BY <2>1, <2>3, <2>4, <2>5, Zenon
<1>2. CASE SyncParent \/ SyncCreate
  <2>1. /\ UNCHANGED fileVars /\ edits' = edits
        /\ \/ pc \in {"syncParent", "syncCreate"} /\ pc' = "done" /\ result' = "ok" /\ faults' = faults
           \/ pc = "syncParent" /\ pc' = "done" /\ result' = "err" /\ faults' = faults + 1
           \/ pc = "syncCreate" /\ pc' = "uncreate" /\ result' = result /\ faults' = faults /\ file = "old"
           \/ pc = "syncCreate" /\ pc' = "uncreate" /\ result' = result /\ faults' = faults + 1
    BY <1>2, Zenon DEF SyncParent, SyncCreate, Works, Fails, Go, Return
  <2> QED
    BY <2>1 DEF FileAt, FileLeft, Placed, fileVars
<1>3. CASE OpenExclusive
  <2>1. /\ pc = "file" /\ way \in {"create", "keep"} /\ way' = way /\ temp' = temp /\ edits' = edits
        /\ \/ file = "none" /\ file' = "part" /\ pc' = "fill" /\ result' = result /\ faults' = faults
           \/ file' = file /\ pc' = "done" /\ result' = "err" /\ faults' \in {faults, faults + 1}
    BY <1>3, Zenon DEF OpenExclusive, Works, Fails, Go, Return
  <2> QED
    BY <2>1 DEF FileAt, FileLeft, Placed
<1>4. CASE FillExclusive
  <2>1. /\ pc = "fill" /\ way' = way /\ temp' = temp /\ edits' = edits
        /\ \/ /\ file' = (IF file = "old" THEN file ELSE "new") /\ result' = result /\ faults' = faults
              /\ pc' = "syncParent" \/ (pc' = "syncCreate" /\ way = "create")
           \/ /\ file = "old" /\ file' = file /\ pc' = "uncreate" /\ way = "create"
              /\ result' = result /\ faults' = faults
           \/ file' = file /\ pc' = "uncreate" /\ way = "create" /\ result' = result /\ faults' = faults + 1
           \/ file' = file /\ pc' = "done" /\ result' = "err" /\ way # "create" /\ faults' = faults + 1
    BY <1>4 DEF FillExclusive, Works, Fails, Go, Return
  <2> QED
    BY <2>1 DEF FileAt, FileLeft, Placed
<1>5. CASE Uncreate
  <2>1. /\ pc = "uncreate" /\ way' = way /\ temp' = temp /\ pc' = "done" /\ result' = "err" /\ edits' = edits
        /\ \/ file' = "none" /\ faults' = faults
           \/ file' = file /\ faults' = faults + 1
    BY <1>5, Zenon DEF Uncreate, Works, Fails, Return
  <2> QED
    BY <2>1 DEF FileAt, FileLeft
<1>6. CASE Preempt
  <2>1. /\ UNCHANGED <<pc, result, faults, way, temp>> /\ pc # "done" /\ file' = "old" /\ edits' = edits + 1
    BY <1>6, Zenon DEF Preempt, Edit
  <2> QED
    BY <2>1 DEF FileAt, Placed
<1> QED
  BY <1>1, <1>2, <1>3, <1>4, <1>5, <1>6, Zenon DEF FileSteps, CreateFile

\* It holds from before the first system call on.
LEMMA FileKept ==
  /\ FileInit /\ pc = "file" /\ result = "none" /\ faults = 0 /\ edits = 0 => FileAt
  /\ FileAt /\ (FileSteps \/ (Kill /\ UNCHANGED fileVars) \/ UNCHANGED <<writerVars, fileVars>>) => FileAt'
<1>1. FileInit /\ pc = "file" /\ result = "none" /\ faults = 0 /\ edits = 0 => FileAt
  BY DEF FileInit, FileAt
<1>2. FileAt /\ FileSteps => FileAt'
  BY FileStep
<1>3. FileAt /\ Kill /\ UNCHANGED fileVars => FileAt'
  BY Zenon DEF FileAt, Kill, fileVars
<1>4. FileAt /\ UNCHANGED <<writerVars, fileVars>> => FileAt'
  BY Zenon DEF FileAt, FileLeft, Placed, writerVars, fileVars
<1> QED
  BY <1>1, <1>2, <1>3, <1>4, Zenon

-----------------------------------------------------------------------------
(* A tree of files *)

Written == {"good", "altered", "replaced"}

TreeHeld == Written \cup {"none", "part"}

\* A finished receipt stands beside all the other files, unless its removal
\* was tried and failed.
ReceiptLast ==
  tree[TreeFiles] = "good" =>
    \/ \A i \in 1..TreeFiles : tree[i] \notin {"none", "part"}
    \/ TreeFiles \notin held /\ faults > 0 /\ result \in {"none", "INCOMPLETE"}

\* What the cleanup of a file leaves: nothing, somebody else's file, or, when
\* the removal failed, the file as it was.
TakenBack(i) == tree[i] \in {"none", "replaced"} \/ (tree[i] \in TreeHeld /\ faults > 0)

\* The files recorded for the cleanup are the first k: all but the last of
\* them were finished, the ones above were never created or were cleaned up.
TreeUpTo(k) ==
  /\ held = 1..k
  /\ \A i \in 1..TreeFiles : i < k => tree[i] \in Written
  /\ \A i \in 1..TreeFiles : i = k => tree[i] \in Written \/ (tree[i] = "part" /\ pc # "files")
  /\ \A i \in 1..TreeFiles : i > k => tree[i] = "none" \/ (TakenBack(i) /\ pc \in {"undoFiles", "undoDirs"})
  /\ pc \in {"tree", "mkdir", "undoDirs"} => k = 0
  /\ pc = "write" => k > 0

TreeLeft ==
  /\ result = "ok" => made = 3 /\ \A i \in 1..TreeFiles : tree[i] = "good"
  /\ result = "COMPLETE" => /\ \A i \in 1..TreeFiles : tree[i] = "none"
                            /\ made = 0 \/ (made = 1 /\ dirs = 0)

TreeAt ==
  /\ tree \in [1..TreeFiles -> TreeHeld] /\ dirs \in 0..3 /\ faults \in Nat
  /\ pc \notin {"done", "dead"} => \E k \in 0..TreeFiles : TreeUpTo(k)
  /\ pc # "done" => result = "none"
  /\ pc = "tree" => dirs = 0
  /\ pc = "mkdir" => made = dirs
  /\ pc \in {"files", "write"} => made = 3 /\ dirs = 3
  /\ pc \in {"undoFiles", "undoDirs"} /\ dirs = 0 =>
       made \in {0, 1} /\ \A i \in 1..TreeFiles : tree[i] = "none"
  /\ pc = "done" => TreeLeft
  /\ pc \in {"done", "dead"} => ReceiptLast

\* The first k files are recorded: the last of them, and the next one.
LEMMA TreeChoices ==
  ASSUME NEW k \in 0..TreeFiles, held = 1..k
  PROVE  /\ k > 0 => Writing = k
         /\ k < TreeFiles => NextFile = k + 1
<1>1. ASSUME k > 0 PROVE Writing = k
  <2>1. k \in held /\ \A j \in held : j <= k
    BY <1>1, TreeAssumption
  <2>2. \A i \in held : (\A j \in held : j <= i) => i = k
    BY <2>1, TreeAssumption
  <2> QED
    BY <2>1, <2>2 DEF Writing
<1>2. ASSUME k < TreeFiles PROVE NextFile = k + 1
  <2> DEFINE Q(i) == i \notin held /\ \A j \in 1..TreeFiles : j < i => j \in held
  <2>1. k + 1 \in 1..TreeFiles /\ Q(k + 1)
    BY <1>2, TreeAssumption
  <2>2. \A i \in 1..TreeFiles : Q(i) => i = k + 1
    BY <1>2, <2>1, TreeAssumption
  <2> HIDE DEF Q
  <2>3. NextFile = CHOOSE i \in 1..TreeFiles : Q(i)
    BY DEF NextFile, Q
  <2> QED
    BY <2>1, <2>2, <2>3
<1> QED
  BY <1>1, <1>2

\* So the receipt is last while the call runs.
LEMMA TreeReceipt == TreeAt => ReceiptLast
<1> SUFFICES ASSUME TreeAt, pc \notin {"done", "dead"} PROVE ReceiptLast
  BY DEF TreeAt
<1>1. PICK k \in 0..TreeFiles : TreeUpTo(k)
  BY DEF TreeAt
<1>2. TreeFiles \in 1..TreeFiles
  BY TreeAssumption
<1>3. ASSUME tree[TreeFiles] = "good", k # TreeFiles
      PROVE  TreeFiles \notin held /\ faults > 0 /\ result = "none"
  BY <1>1, <1>2, <1>3, TreeAssumption DEF TreeUpTo, TakenBack, TreeAt
<1>4. ASSUME tree[TreeFiles] = "good", k = TreeFiles
      PROVE  \A i \in 1..TreeFiles : tree[i] \notin {"none", "part"}
  BY <1>1, <1>2, <1>4, TreeAssumption DEF TreeUpTo, Written
<1> QED
  BY <1>3, <1>4 DEF ReceiptLast

\* Every step of the writer of a tree keeps it.
LEMMA TreeStep ==
  ASSUME TreeAt, TreeSteps
  PROVE  TreeAt'
<1>0. pc \notin {"done", "dead"}
  BY Zenon DEF TreeSteps, EnsureAbsent, MakeDirectory, CreateBoundFile, WriteBoundFile, SyncTree,
     UndoFile, UndoneFiles, UndoDirs, Meddle, Edit
<1>k. PICK k \in 0..TreeFiles : TreeUpTo(k)
  BY <1>0 DEF TreeAt
<1>t. /\ tree \in [1..TreeFiles -> TreeHeld] /\ dirs \in 0..3 /\ result = "none"
      /\ TreeFiles \in Nat /\ TreeFiles > 0 /\ ReceiptLast
  BY <1>0, TreeAssumption, TreeReceipt DEF TreeAt
<1>f. faults' \in Nat /\ faults' >= faults /\ (faults' = faults + 1 => faults' > 0)
  <2>1. faults' \in {faults, faults + 1}
    BY Zenon DEF TreeSteps, EnsureAbsent, MakeDirectory, CreateBoundFile, WriteBoundFile, SyncTree,
       UndoFile, UndoneFiles, UndoDirs, Meddle, Edit, Works, Fails
  <2> QED
    BY <2>1 DEF TreeAt
<1>u. \A i \in 1..TreeFiles : TakenBack(i) /\ tree'[i] = tree[i] => TakenBack(i)'
  BY <1>f DEF TakenBack, TreeAt
<1>1. CASE EnsureAbsent \/ MakeDirectory
  <2>1. /\ pc \in {"tree", "mkdir"} /\ UNCHANGED <<tree, held>> /\ dirs' \in 0..3
        /\ \/ pc' = "mkdir" /\ made' = dirs' /\ UNCHANGED result
           \/ pc' = "done" /\ result' = "rejected"
           \/ pc' = "undoFiles" /\ (dirs' = 0 => made' \in {0, 1}) /\ UNCHANGED result
           \/ pc' = "files" /\ made' = 3 /\ dirs' = 3 /\ UNCHANGED result
    BY <1>1, <1>t, <1>f DEF EnsureAbsent, MakeDirectory, treeVars, Works, Fails, Go, Return, TreeAt
  <2>2. /\ k = 0 /\ \A i \in 1..TreeFiles : tree[i] = "none"
    BY <1>k, <1>u, <1>t, <2>1 DEF TreeUpTo
  <2>3. pc' # "done" => TreeUpTo(0)'
    BY <1>k, <1>u, <1>t, <2>1, <2>2 DEF TreeUpTo
  <2>4. 0 \in 0..TreeFiles /\ TreeFiles \in 1..TreeFiles
    BY <1>t
  <2>5. ReceiptLast'
    BY <2>1, <2>2, <2>4 DEF ReceiptLast
  <2> QED
    BY <1>t, <1>f, <2>1, <2>2, <2>3, <2>4, <2>5, ZenonT(30) DEF TreeAt, TreeLeft
<1>2. CASE Meddle
  <2>1. /\ UNCHANGED <<pc, result, made, dirs, held>>
        /\ tree' \in [1..TreeFiles -> TreeHeld]
        /\ \A i \in 1..TreeFiles : tree'[i] = tree[i] \/ (i \in held /\ tree'[i] \in {"altered", "replaced"})
    BY <1>2, <1>k, <1>u, <1>t, Zenon DEF Meddle, Edit, TreeUpTo, TreeHeld, Written
  <2>2. TreeUpTo(k)'
    BY <1>k, <1>u, <1>t, <2>1 DEF TreeUpTo, Written
  <2>3. ASSUME pc \in {"undoFiles", "undoDirs"}, dirs = 0
        PROVE  \A i \in 1..TreeFiles : tree'[i] = "none"
    BY <1>k, <1>t, <1>f, <2>1, <2>3 DEF TreeAt, TreeUpTo, Written
  <2> QED
    BY <1>0, <1>t, <1>f, <2>1, <2>2, <2>3 DEF TreeAt
<1>3. CASE CreateBoundFile
  <2>1. /\ pc = "files" /\ UNCHANGED <<made, dirs, result>> /\ held # 1..TreeFiles
        /\ \/ UNCHANGED <<tree, held>> /\ pc' = "undoFiles"
           \/ /\ held' = held \cup {NextFile} /\ tree' = [tree EXCEPT ![NextFile] = "part"]
              /\ pc' = "write"
    BY <1>3 DEF CreateBoundFile, Works, Fails, Go
  <2>2. /\ made = 3 /\ dirs = 3 /\ k < TreeFiles /\ NextFile = k + 1 /\ k + 1 \in 1..TreeFiles
    BY <1>k, <1>t, <1>f, <2>1, TreeChoices DEF TreeAt, TreeUpTo
  <2>3. CASE pc' = "undoFiles"
    <3>1. TreeUpTo(k)' /\ tree' = tree
      BY <1>k, <1>u, <2>1, <2>3 DEF TreeUpTo
    <3> QED
      BY <1>t, <1>f, <2>1, <2>2, <2>3, <3>1 DEF TreeAt
  <2>4. CASE pc' = "write"
    <3>0. held' = held \cup {k + 1} /\ tree' = [tree EXCEPT ![k + 1] = "part"]
      BY <2>1, <2>2, <2>4
    <3>1. /\ held' = 1..(k + 1) /\ tree' \in [1..TreeFiles -> TreeHeld]
          /\ \A i \in 1..TreeFiles : tree'[i] = IF i = k + 1 THEN "part" ELSE tree[i]
      <4>1. held = 1..k
        BY <1>k, <1>u DEF TreeUpTo
      <4>2. held' = 1..(k + 1)
        BY <3>0, <4>1, <1>t
      <4>3. "part" \in TreeHeld
        BY DEF TreeHeld
      <4> QED
        BY <1>t, <2>2, <3>0, <4>2, <4>3
    <3>2. TreeUpTo(k + 1)'
      BY <1>k, <1>u, <1>t, <2>1, <2>2, <2>4, <3>1 DEF TreeUpTo
    <3>3. k + 1 \in 0..TreeFiles
      BY <2>2, <1>t
    <3> QED
      BY <1>t, <1>f, <2>1, <2>2, <2>4, <3>1, <3>2, <3>3 DEF TreeAt
  <2> QED
    BY <2>1, <2>3, <2>4
<1>4. CASE WriteBoundFile
  <2>1. /\ pc = "write" /\ UNCHANGED <<made, dirs, held, result>>
        /\ \/ tree[Writing] = "part" /\ tree' = [tree EXCEPT ![Writing] = "good"] /\ pc' = "files"
           \/ UNCHANGED tree /\ pc' = "undoFiles"
    BY <1>4, Zenon DEF WriteBoundFile, Works, Fails, Go
  <2>2. made = 3 /\ dirs = 3 /\ k > 0 /\ Writing = k /\ k \in 1..TreeFiles
    BY <1>k, <1>t, <1>f, <2>1, TreeChoices DEF TreeAt, TreeUpTo
  <2>3. /\ tree' \in [1..TreeFiles -> TreeHeld]
        /\ \A i \in 1..TreeFiles : tree'[i] = IF i = k /\ pc' = "files" THEN "good" ELSE tree[i]
    BY <1>t, <2>1, <2>2 DEF TreeHeld, Written
  <2>4. TreeUpTo(k)'
    BY <1>k, <1>u, <1>t, <2>1, <2>2, <2>3 DEF TreeUpTo, Written
  <2> QED
    BY <1>t, <1>f, <2>1, <2>2, <2>3, <2>4 DEF TreeAt
<1>5. CASE SyncTree
  <2>1. /\ pc = "files" /\ UNCHANGED treeVars
        /\ \/ Intact /\ held = 1..TreeFiles /\ pc' = "done" /\ result' = "ok"
           \/ pc' = "undoFiles" /\ result' = result
    BY <1>5, Zenon DEF SyncTree, Works, Fails, Go, Return
  <2>2. made = 3 /\ dirs = 3
    BY <2>1 DEF TreeAt
  <2>3. pc' = "done" => TreeLeft' /\ ReceiptLast'
    BY <1>t, <2>1, <2>2 DEF TreeLeft, ReceiptLast, Intact, treeVars
  <2>4. TreeUpTo(k)'
    BY <1>k, <1>u, <2>1 DEF TreeUpTo, treeVars
  <2> QED
    BY <1>t, <1>f, <2>1, <2>2, <2>3, <2>4 DEF TreeAt, treeVars
<1>6. CASE UndoFile
  <2>1. /\ pc = "undoFiles" /\ held # {} /\ held' = held \ {Writing} /\ UNCHANGED <<pc, made, dirs, result>>
        /\ \/ tree' = [tree EXCEPT ![Writing] = IF @ = "replaced" THEN @ ELSE "none"]
           \/ UNCHANGED tree /\ faults' = faults + 1
    BY <1>6 DEF UndoFile, Works, Fails, Go
  <2>2. k > 0 /\ Writing = k /\ k \in 1..TreeFiles /\ k - 1 \in 0..TreeFiles
    BY <1>k, <1>u, <1>t, <2>1, TreeChoices DEF TreeUpTo
  <2>3. /\ tree' \in [1..TreeFiles -> TreeHeld] /\ held' = 1..(k - 1)
        /\ TakenBack(k)' /\ \A i \in 1..TreeFiles : i # k => tree'[i] = tree[i]
    BY <1>k, <1>u, <1>t, <1>f, <2>1, <2>2 DEF TreeUpTo, TreeHeld, TakenBack
  <2>4. TreeUpTo(k - 1)'
    BY <1>k, <1>t, <1>u, <2>1, <2>2, <2>3 DEF TreeUpTo
  <2>5. dirs # 0
    BY <1>k, <1>t, <1>f, <2>1, <2>2, Zenon DEF TreeAt, TreeUpTo, Written
  <2> QED
    BY <1>t, <1>f, <2>1, <2>2, <2>3, <2>4, <2>5 DEF TreeAt
<1>7. CASE UndoneFiles
  <2>1. pc = "undoFiles" /\ held = {} /\ pc' = "undoDirs" /\ UNCHANGED <<treeVars, result>>
    BY <1>7, Zenon DEF UndoneFiles, Works, Go
  <2>2. TreeUpTo(k)'
    BY <1>k, <1>u, <1>t, <2>1 DEF TreeUpTo, treeVars
  <2> QED
    BY <1>t, <1>f, <2>1, <2>2 DEF TreeAt, treeVars
<1>8. CASE UndoDirs
  <2>1. /\ pc = "undoDirs" /\ UNCHANGED <<tree, dirs, held>> /\ pc' = "done"
        /\ \/ Removable /\ made' = 0 /\ result' = "COMPLETE"
           \/ dirs = 0 /\ made' = made /\ result' = "COMPLETE"
           \/ made' = made /\ result' = "INCOMPLETE"
    BY <1>8, Zenon DEF UndoDirs, Works, Fails, Return
  <2>3. result' = "COMPLETE" => \A i \in 1..TreeFiles : tree[i] = "none"
    BY <2>1, Zenon DEF Removable, TreeAt
  <2>4. TreeLeft'
    BY <1>t, <2>1, <2>3, Zenon DEF TreeLeft, TreeAt
  <2>5. ReceiptLast'
    BY <1>t, <1>f, <2>1, <2>3 DEF ReceiptLast, TreeAt
  <2>2. TreeLeft' /\ ReceiptLast'
    BY <2>4, <2>5
  <2> QED
    BY <1>t, <1>f, <2>1, <2>2, Zenon DEF TreeAt
<1> QED
  BY <1>1, <1>2, <1>3, <1>4, <1>5, <1>6, <1>7, <1>8, Zenon DEF TreeSteps

\* No file is there before the first system call.
LEMMA TreeBegins ==
  ASSUME TreeInit
  PROVE  /\ \A i \in 1..TreeFiles : tree[i] = "none"
         /\ pc = "tree" /\ result = "none" /\ faults = 0 => TreeAt
<1>1. /\ tree \in [1..TreeFiles -> TreeHeld] /\ \A i \in 1..TreeFiles : tree[i] = "none"
      /\ dirs = 0 /\ held = {} /\ 0 \in 0..TreeFiles
  BY TreeAssumption DEF TreeInit, TreeHeld
<1>2. pc = "tree" => TreeUpTo(0)
  BY <1>1, TreeAssumption DEF TreeUpTo
<1> QED
  BY <1>1, <1>2 DEF TreeAt

\* Every step keeps the promise about a tree.
LEMMA TreeKept ==
  ASSUME TreeAt, TreeSteps \/ (Kill /\ UNCHANGED treeVars) \/ UNCHANGED <<writerVars, treeVars>>
  PROVE  TreeAt'
<1>1. CASE TreeSteps
  BY <1>1, TreeStep, Zenon
<1>2. CASE Kill /\ UNCHANGED treeVars
  <2>1. ReceiptLast'
    BY <1>2, TreeReceipt DEF ReceiptLast, Kill, treeVars
  <2> QED
    BY <1>2, <2>1, Zenon DEF TreeAt, Kill, treeVars
<1>3. CASE UNCHANGED <<writerVars, treeVars>>
  <2>1. \A k \in 0..TreeFiles : TreeUpTo(k) => TreeUpTo(k)'
    BY <1>3 DEF TreeUpTo, TakenBack, writerVars, treeVars
  <2>2. (TreeLeft => TreeLeft') /\ (ReceiptLast => ReceiptLast')
    BY <1>3 DEF TreeLeft, ReceiptLast, writerVars, treeVars
  <2> QED
    BY <1>3, <2>1, <2>2 DEF TreeAt, writerVars, treeVars
<1> QED
  BY <1>1, <1>2, <1>3, Zenon

\* What it says of a tree that nobody writes.
LEMMA NoTree ==
  ASSUME \A i \in 1..TreeFiles : tree[i] = "none"
  PROVE  ReceiptLast
  BY TreeAssumption DEF ReceiptLast

-----------------------------------------------------------------------------
(* db update *)

\* Recoverable, of the update alone.
Backed ==
  store # "before" =>
    /\ request.place.spelled = "outside" /\ request.place.physical = "outside"
    /\ edits = 0 => download = "durable"

\* The output holds c, unless another process touched it.
Fresh(c) == /\ download \in {c, "altered", "none", "other"}
            /\ edits = 0 => download = c

Retained == "retained" \in report

Secured == known /\ Fresh("durable") /\ Retained

Untouched == store = "before" /\ ~Retained

Apart == request.place.spelled = "outside" /\ request.place.physical = "outside"

UpdateLeft ==
  /\ result = "ok" => store = "selected" /\ Retained
  /\ Retained => download = "durable"
  /\ store # "before" => Retained \/ edits > 0
  /\ result = "failed" /\ ~Retained /\ edits = 0 => ~Ours
  /\ result = "failed" /\ faults = 0 /\ edits = 0 => store # "selected"

\* What is on disk and what the store did before each call.
UpdateAt ==
  /\ edits \in Nat /\ faults \in Nat /\ request \in Requests
  /\ pc \in {"request", "identify", "alias", "fetch", "write", "sync", "syncDir"} => Untouched
  /\ pc \in {"identify", "alias"} => ReserveKnowledgeDownload(request.place)
  /\ pc \in {"fetch", "write", "sync", "syncDir", "match", "import"} => Apart
  /\ pc \in {"identify", "alias", "fetch", "write"} => Fresh("empty")
  /\ pc = "sync" => Fresh("whole")
  /\ pc = "syncDir" => Fresh("synced")
  /\ pc \in {"alias", "fetch", "write", "sync", "syncDir"} => known
  /\ pc \in {"match", "import", "select", "imported"} => Secured
  /\ pc \in {"match", "import"} => store = "before"
  /\ pc = "select" => store = "trust"
  /\ pc = "imported" => store = "selected"
  /\ pc = "finish" => store # "selected" /\ (IF Retained THEN Secured ELSE store = "before")
  /\ pc = "remove" => Untouched
  /\ pc = "done" => UpdateLeft
  /\ Backed

\* A place that both checks let pass is outside the store.
LEMMA PlacesApart ==
  ASSUME NEW r \in Requests, ReserveKnowledgeDownload(r.place), r.place.physical # "same"
  PROVE  r.place.spelled = "outside" /\ r.place.physical = "outside"
<1>1. \A p \in Places : [Source EXCEPT !.place = p].place = p
  BY DEF Source
<1>2. \A p \in Plans : [Planned EXCEPT !.plan = p].place = GoodPlace
  BY DEF Planned, Source
<1> DEFINE Fixed ==
      {Source, Planned, [Source EXCEPT !.args = "bad"], [Source EXCEPT !.url = "http"],
       [Source EXCEPT !.profile = "other"], [Source EXCEPT !.revision = "bad"],
       [Source EXCEPT !.bundle = "bad"], [Source EXCEPT !.bootstrap = "mismatched"],
       [Source EXCEPT !.bootstrap = "matching"], [Source EXCEPT !.from = "both"]}
<1>3. \A x \in Fixed : x.place = GoodPlace
  BY DEF Source, Planned
<1>4. Requests = Fixed \cup {[Planned EXCEPT !.plan = p] : p \in Plans}
                       \cup {[Source EXCEPT !.place = p] : p \in Places}
  BY DEF Requests
<1> HIDE DEF Fixed
<1>5. r.place \in Places \cup {GoodPlace}
  <2>1. \/ r \in Fixed
        \/ \E p \in Plans : r = [Planned EXCEPT !.plan = p]
        \/ \E p \in Places : r = [Source EXCEPT !.place = p]
    BY <1>4
  <2> QED
    BY <1>1, <1>2, <1>3, <2>1, Zenon
<1>6. /\ GoodPlace.physical = "outside"
      /\ [GoodPlace EXCEPT !.spelled = "inside"].physical = "outside"
      /\ ~ReserveKnowledgeDownload([GoodPlace EXCEPT !.physical = "inside"])
      /\ [GoodPlace EXCEPT !.store = "file"].physical = "outside"
      /\ [GoodPlace EXCEPT !.private = FALSE].physical = "outside"
      /\ [GoodPlace EXCEPT !.store = "absent"].physical = "outside"
      /\ [GoodPlace EXCEPT !.store = "absent", !.physical = "same"].physical = "same"
  BY DEF GoodPlace, ReserveKnowledgeDownload
<1>7. \A p \in Places \cup {GoodPlace} :
        ReserveKnowledgeDownload(p) /\ p.physical # "same" => p.physical = "outside"
  BY <1>6, Zenon DEF Places
<1> QED
  BY <1>5, <1>7, Zenon DEF ReserveKnowledgeDownload

\* Every step of the command, of another process and of the power keeps it.
LEMMA UpdateStep ==
  ASSUME UpdateAt, UpdateSteps
  PROVE  UpdateAt'
<1>0. edits \in Nat /\ faults \in Nat /\ request \in Requests
  BY DEF UpdateAt
<1>1. CASE ReserveOutput
  <2>1. /\ pc = "request" /\ UNCHANGED <<request, known, answer, store, report, edits, faults>>
        /\ \/ /\ ReserveKnowledgeDownload(request.place) /\ download' = "empty"
              /\ pc' = "identify" /\ result' = result
           \/ download' = download /\ pc' = "done" /\ result' = "usage"
    BY <1>1 DEF ReserveOutput, Works, Go, Return
  <2> QED
    BY <2>1, Zenon DEF UpdateAt, UpdateLeft, Untouched, Retained, Fresh, Backed
<1>2. CASE Identify \/ Alias
  <2>1. /\ UNCHANGED <<request, download, answer, store, report, edits, result>> /\ faults' \in Nat
        /\ \/ pc = "identify" /\ known' = TRUE /\ pc' = "alias"
           \/ pc = "alias" /\ known' = known /\ request.place.physical # "same" /\ pc' = "fetch"
           \/ pc \in {"identify", "alias"} /\ pc' = "finish"
    BY <1>2, <1>0 DEF Identify, Alias, Works, Fails, Go
  <2>2. pc' = "fetch" => Apart
    BY <1>0, <2>1, PlacesApart, Zenon DEF UpdateAt, Apart
  <2>3. /\ Untouched => Untouched'
        /\ Apart => Apart'
        /\ Fresh("empty") => Fresh("empty")'
        /\ Retained' = Retained
        /\ Backed => Backed'
    BY <2>1, Zenon DEF Untouched, Apart, Fresh, Retained, Backed
  <2> QED
    BY <2>1, <2>2, <2>3 DEF UpdateAt, Untouched
<1>3. CASE Fetch
  <2>1. /\ pc = "fetch" /\ UNCHANGED <<request, download, known, store, edits, faults, result>>
        /\ Retained' = Retained /\ pc' \in {"write", "finish"}
    BY <1>3 DEF Fetch, Report, Works, Go, Retained
  <2> QED
    BY <2>1, Zenon DEF UpdateAt, Untouched, Retained, Fresh, Backed, Apart
<1>4. CASE WritePackage
  <2>1. /\ pc = "write" /\ UNCHANGED <<request, known, answer, store, report, edits, result>> /\ faults' \in Nat
        /\ \/ Store("whole") /\ pc' = "sync"
           \/ pc' = "finish"
    BY <1>4, <1>0 DEF WritePackage, Works, Fails, Go
  <2>2. pc' = "sync" => Fresh("whole")'
    BY <2>1 DEF UpdateAt, Fresh, Store, Ours
  <2> QED
    BY <2>1, <2>2, Zenon DEF UpdateAt, Untouched, Retained, Backed, Apart
<1>5. CASE SyncPackage
  <2>1. /\ pc = "sync" /\ UNCHANGED <<request, known, answer, store, report, edits, result>> /\ faults' \in Nat
        /\ \/ Store(IF download = "whole" THEN "synced" ELSE download) /\ pc' = "syncDir"
           \/ pc' = "finish"
    BY <1>5, <1>0 DEF SyncPackage, Works, Fails, Go
  <2>2. pc' = "syncDir" => Fresh("synced")'
    BY <2>1 DEF UpdateAt, Fresh, Store, Ours
  <2> QED
    BY <2>1, <2>2, Zenon DEF UpdateAt, Untouched, Retained, Backed, Apart
<1>6. CASE SyncDirectory
  <2>1. /\ pc = "syncDir" /\ UNCHANGED <<request, known, answer, store, edits, result>> /\ faults' \in Nat
        /\ \/ Store(IF download = "synced" THEN "durable" ELSE download) /\ Retained' /\ pc' = "match"
           \/ report' = report /\ pc' = "finish"
    BY <1>6, <1>0 DEF SyncDirectory, Report, Works, Fails, Go, Retained
  <2>2. pc' = "match" => Fresh("durable")'
    BY <2>1, Zenon DEF UpdateAt, Fresh, Store, Ours
  <2> QED
    BY <2>1, <2>2, Zenon DEF UpdateAt, Untouched, Retained, Backed, Apart, Secured
<1>7. CASE Match
  <2>1. /\ pc = "match" /\ UNCHANGED <<updateVars, edits, faults, result>> /\ pc' \in {"import", "finish"}
    BY <1>7 DEF Match, Works, Go
  <2> QED
    BY <2>1, Zenon DEF UpdateAt, Retained, Backed, Apart, Secured, Fresh, updateVars
<1>8. CASE ImportPackage
  <2>1. /\ UNCHANGED <<request, download, known, report, edits, faults, result>>
        /\ \/ pc = "import" /\ store' = "trust" /\ pc' = "select"
           \/ pc = "select" /\ store' = "selected" /\ pc' = "imported"
           \/ pc \in {"import", "select"} /\ store' = store /\ pc' = "finish"
    BY <1>8, Zenon DEF ImportPackage, Works, Go
  <2> QED
    BY <2>1, Zenon DEF UpdateAt, Retained, Backed, Apart, Secured, Fresh
<1>9. CASE FinishPartial
  <2>1. /\ UNCHANGED <<request, known, store, edits>> /\ faults' \in Nat /\ pc \in {"finish", "remove"}
        /\ ~Retained /\ ~Retained'
        /\ \/ download' = download /\ result' = "integrity" /\ pc' = "done"
           \/ download' = download /\ result' = result /\ pc' = "remove"
           \/ download' = "none" /\ result' = "failed" /\ pc' = "done"
    BY <1>9, <1>0 DEF FinishPartial, Report, Works, Fails, Go, Return, Retained, UpdateAt, Untouched
  <2> QED
    BY <2>1, Zenon DEF UpdateAt, Untouched, Backed, UpdateLeft, Ours, Retained
<1>10. CASE FinishRetained
  <2>1. /\ pc \in {"finish", "imported"} /\ Retained /\ UNCHANGED <<request, download, known, store, edits>>
        /\ Retained' <=> RetainedKnowledgeDownloadMatches
        /\ pc' = "done"
        /\ \/ /\ pc = "imported" /\ RetainedKnowledgeDownloadMatches /\ faults' = faults
              /\ result' = "ok"
           \/ /\ pc = "finish" \/ ~RetainedKnowledgeDownloadMatches
              /\ faults' = faults /\ result' = "failed"
           \/ faults' = faults + 1 /\ result' = "failed"
    BY <1>10 DEF FinishRetained, Works, Fails, Return, Retained
  <2>2. /\ Secured
        /\ pc = "imported" => store = "selected"
        /\ pc = "finish" => store # "selected"
    BY <2>1 DEF UpdateAt
  <2>3. UpdateLeft'
    BY <1>0, <2>1, <2>2 DEF UpdateLeft, Secured, Fresh, RetainedKnowledgeDownloadMatches, Exact
  <2>4. Backed' /\ request' \in Requests /\ edits' \in Nat /\ faults' \in Nat
    BY <1>0, <2>1 DEF UpdateAt, Backed
  <2> QED
    BY <2>1, <2>3, <2>4, Zenon DEF UpdateAt
<1>11. CASE Tamper
  <2>1. /\ UNCHANGED <<request, known, store, report, pc, result, faults>> /\ pc # "done"
        /\ edits' = edits + 1 /\ download' \in {"none", "other", "altered"}
    BY <1>11, Zenon DEF Tamper, Edit
  <2>2. edits' \in Nat /\ edits' # 0
    BY <1>0, <2>1
  <2>3. /\ Untouched => Untouched'
        /\ Apart => Apart'
        /\ \A c : Fresh(c) => Fresh(c)'
        /\ Secured => Secured'
        /\ Retained' = Retained
        /\ Backed => Backed'
    BY <2>1, <2>2, Zenon DEF Untouched, Apart, Fresh, Secured, Retained, Backed
  <2> QED
    BY <2>1, <2>2, <2>3, Zenon DEF UpdateAt
<1>12. CASE PowerLoss
  <2>1. /\ UNCHANGED <<request, known, store, report, edits, result, faults>> /\ pc' = "dead"
        /\ download = "durable" => download' = "durable"
    BY <1>12 DEF PowerLoss
  <2> QED
    BY <2>1, Zenon DEF UpdateAt, Backed
<1> QED
  BY <1>1, <1>2, <1>3, <1>4, <1>5, <1>6, <1>7, <1>8, <1>9, <1>10, <1>11, <1>12, Zenon
     DEF UpdateSteps, DatabaseUpdate

\* It holds from the request on.
LEMMA UpdateKept ==
  /\ UpdateInit /\ pc = "request" /\ faults = 0 /\ edits = 0 => UpdateAt
  /\ UpdateAt /\ (UpdateSteps \/ (Kill /\ UNCHANGED updateVars) \/ UNCHANGED <<writerVars, updateVars>>)
       => UpdateAt'
<1>1. UpdateInit /\ pc = "request" /\ faults = 0 /\ edits = 0 => UpdateAt
  BY DEF UpdateInit, UpdateAt, Untouched, Retained, Backed
<1>2. UpdateAt /\ UpdateSteps => UpdateAt'
  BY UpdateStep
<1>3. UpdateAt /\ Kill /\ UNCHANGED updateVars => UpdateAt'
  BY Zenon DEF UpdateAt, Backed, Kill, updateVars
<1>4. ASSUME UpdateAt, UNCHANGED <<writerVars, updateVars>> PROVE UpdateAt'
  <2>1. /\ Untouched => Untouched'
        /\ Apart => Apart'
        /\ \A c : Fresh(c) => Fresh(c)'
        /\ Secured => Secured'
        /\ Retained' = Retained
        /\ Backed => Backed'
    BY <1>4, Zenon DEF Untouched, Apart, Fresh, Secured, Retained, Backed, writerVars, updateVars
  <2>2. UpdateLeft => UpdateLeft'
    BY <1>4 DEF UpdateLeft, Retained, Ours, writerVars, updateVars
  <2> QED
    BY <1>4, <2>1, <2>2, Zenon DEF UpdateAt, writerVars, updateVars
<1> QED
  BY <1>1, <1>2, <1>3, <1>4, Zenon
=============================================================================
