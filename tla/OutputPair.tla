----------------------------- MODULE OutputPair -----------------------------
(***************************************************************************)
(* writeOutputPair of the maintainer tool: two files of one directory are  *)
(* replaced together by moving the old ones aside and the new ones in,     *)
(* with a restore when a move fails.  One action per system call.          *)
(***************************************************************************)
EXTENDS Writer

VARIABLES dir,     \* what each name of the output directory holds
          had,     \* firstHad, secondHad: which old files were moved aside
          before   \* the directory when the call began

pairVars == <<dir, had, before>>

Base == <<"first", "second">>
Temp == <<"firstTemp", "secondTemp">>
Backup == <<"firstBackup", "secondBackup">>
PairNames == {"first", "second", "firstTemp", "secondTemp", "firstBackup", "secondBackup"}

\* "odd" is a directory, a link or a file of several links.
PairInit ==
  /\ dir \in [PairNames -> {"none", "old", "odd"}]
  /\ \A i \in 1..2 : dir[Temp[i]] = "none" /\ dir[Backup[i]] = "none"
  /\ had = {} /\ before = dir

Unlink(n) == dir' = [dir EXCEPT ![n] = "none"]
Rename(a, b) == dir[a] # "none" /\ dir' = [dir EXCEPT ![b] = dir[a], ![a] = "none"]

\* Another process creates a file at a name that is free.
Stray == /\ Edit /\ UNCHANGED <<had, before>>
         /\ \E i \in 1..2 : dir[Base[i]] = "none" /\ dir' = [dir EXCEPT ![Base[i]] = "stray"]

ValidateExistingAt ==
  /\ pc = "pairCheck" /\ Works /\ UNCHANGED pairVars
  /\ IF \A i \in 1..2 : dir[Base[i]] # "odd" THEN Go("pairTemp1") ELSE Return("err")

\* A temporary that cannot be finished is unlinked; only a second failure
\* leaves it.
WriteTempAt(i, here, next, failed) ==
  /\ pc = here /\ UNCHANGED <<had, before>>
  /\ \/ Works /\ dir' = [dir EXCEPT ![Temp[i]] = "new"] /\ Go(next)
     \/ Fails /\ UNCHANGED dir /\ Go(failed)
     \/ faults + 2 <= MaxFaults /\ faults' = faults + 2 /\ dir' = [dir EXCEPT ![Temp[i]] = "part"] /\ Go(failed)

MoveExistingAt(i, here, next, failed) ==
  /\ pc = here /\ UNCHANGED before
  /\ \/ /\ Works /\ Rename(Base[i], Backup[i])
        /\ had' = had \cup {i} /\ Go(next)
     \/ dir[Base[i]] = "none" /\ Works /\ UNCHANGED <<dir, had>> /\ Go(next)
     \/ Fails /\ UNCHANGED <<dir, had>> /\ Go(failed)

Place(i, here, next) ==
  /\ pc = here /\ UNCHANGED <<had, before>>
  /\ \/ Works /\ Rename(Temp[i], Base[i]) /\ Go(next)
     \/ Fails /\ UNCHANGED dir /\ Go("pairUndo1")

\* A call whose error is ignored: it changes the directory or fails.
Ignored(here, next, wanted, A) ==
  /\ pc = here /\ Go(next) /\ UNCHANGED <<had, before>>
  /\ \/ wanted /\ Works /\ A
     \/ wanted /\ Fails /\ UNCHANGED dir
     \/ ~wanted /\ Works /\ UNCHANGED dir

DropMoved(i, here, next) == Ignored(here, next, i \in had, Unlink(Backup[i]))
PutBack(i, here, next) == Ignored(here, next, i \in had /\ dir[Backup[i]] # "none", Rename(Backup[i], Base[i]))

\* A restore that forgets the second file.
RestoreFirstOnly ==
  \/ Ignored("pairUndo1", "pairUndo2", dir["first"] # "none", Unlink("first"))
  \/ Ignored("pairUndo2", "pairUndo3", dir["second"] # "none", Unlink("second"))
  \/ PutBack(1, "pairUndo3", "pairErr")

Restore ==
  \/ Ignored("pairUndo1", "pairUndo2", dir["first"] # "none", Unlink("first"))
  \/ Ignored("pairUndo2", "pairUndo3", dir["second"] # "none", Unlink("second"))
  \/ PutBack(1, "pairUndo3", "pairUndo4")
  \/ PutBack(2, "pairUndo4", "pairErr")

\* The deferred unlinks of the temporaries that were not moved in.
Deferred(here, next, i) == Ignored(here, next, dir[Temp[i]] = "new", Unlink(Temp[i]))

PairSync ==
  /\ pc = "pairSync" /\ UNCHANGED pairVars
  /\ (Works /\ Return("ok")) \/ (Fails /\ Return("err"))

WriteOutputPair ==
  \/ Stray \/ ValidateExistingAt
  \/ WriteTempAt(1, "pairTemp1", "pairTemp2", "pairErr")
  \/ WriteTempAt(2, "pairTemp2", "pairMove1", "pairErr")
  \/ MoveExistingAt(1, "pairMove1", "pairMove2", "pairErr")
  \/ MoveExistingAt(2, "pairMove2", "pairPlace1", "pairBack1")
  \/ PutBack(1, "pairBack1", "pairErr")
  \/ Place(1, "pairPlace1", "pairPlace2")
  \/ Place(2, "pairPlace2", "pairDrop1")
  \/ Restore
  \/ DropMoved(1, "pairDrop1", "pairDrop2")
  \/ DropMoved(2, "pairDrop2", "pairSync")
  \/ PairSync
  \/ Deferred("pairErr", "pairErr2", 1)
  \/ Deferred("pairErr2", "pairFail", 2)
  \/ pc = "pairFail" /\ Works /\ UNCHANGED pairVars /\ Return("err")

-----------------------------------------------------------------------------
Replaced == \A i \in 1..2 : dir[Base[i]] = "new"
Clean == \A i \in 1..2 : dir[Temp[i]] = "none" /\ dir[Backup[i]] = "none"

\* The old content of file i, if it had any, can still be found.
Kept(i) == before[Base[i]] = "old" => "old" \in {dir[Base[i]], dir[Backup[i]]}
=============================================================================
