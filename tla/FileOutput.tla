----------------------------- MODULE FileOutput -----------------------------
(***************************************************************************)
(* The four ways the program writes one file: through a temporary that may *)
(* not replace (publish) or may replace (replace), and directly with an    *)
(* exclusive create whose failure is undone (create) or kept (keep). Then  *)
(* the writer of a tree of files.                                          *)
(***************************************************************************)
EXTENDS Writer

VARIABLES way,    \* which of the four
          file,   \* what the name holds
          temp    \* what the temporary holds

fileVars == <<way, file, temp>>

Ways == {"publish", "replace", "create", "keep"}
FileInit == way \in Ways /\ file \in {"none", "old"} /\ temp = "none"

\* Another process creates the name first, or puts a file of its own in the
\* place of ours.
Preempt == Edit /\ file # "old" /\ file' = "old" /\ UNCHANGED <<way, temp>>

\* What a failure leaves of the temporary is undone by an unlink whose own
\* failure is ignored.
Drop(spent) ==
  /\ UNCHANGED file /\ Return("err")
  /\ \/ spent <= MaxFaults /\ faults' = spent /\ temp' = "none"
     \/ spent < MaxFaults /\ faults' = spent + 1 /\ temp' = (IF temp = "none" THEN "part" ELSE temp)

\* The temporary is created, written and synced.
Fill(next) ==
  \/ Works /\ temp' = "new" /\ UNCHANGED file /\ Go(next)
  \/ Drop(faults + 1)

\* PublishExclusiveCanonicalFile
PublishExclusiveCanonicalFile ==
  \/ /\ pc = "file" /\ way = "publish" /\ UNCHANGED way /\ Fill("publish")
  \/ /\ pc = "publish" /\ UNCHANGED way
     /\ \/ file = "none" /\ Works /\ file' = temp /\ temp' = "none" /\ Go("syncParent")
        \/ file # "none" /\ Drop(faults)
        \/ Drop(faults + 1)

\* replace of the release output directory, writeNewOrReplace of the importer
Replace ==
  \/ /\ pc = "file" /\ way = "replace" /\ UNCHANGED way /\ Fill("rename")
  \/ /\ pc = "rename" /\ UNCHANGED way
     /\ \/ Works /\ file' = temp /\ temp' = "none" /\ Go("syncParent")
        \/ Drop(faults + 1)

\* The sync of the directory is the last call; a failure leaves the new file.
SyncParent ==
  /\ pc = "syncParent" /\ UNCHANGED fileVars
  /\ (Works /\ Return("ok")) \/ (Fails /\ Return("err"))

OpenExclusive ==
  /\ pc = "file" /\ way \in {"create", "keep"} /\ UNCHANGED <<way, temp>>
  /\ \/ file = "none" /\ Works /\ file' = "part" /\ Go("fill")
     \/ file # "none" /\ Works /\ UNCHANGED file /\ Return("err")
     \/ Fails /\ UNCHANGED file /\ Return("err")

\* The bytes go through the descriptor, so they miss a file put in the place
\* of ours; only WriteNewPrivateFile looks at the name again.
FillExclusive ==
  /\ pc = "fill" /\ UNCHANGED <<way, temp>>
  /\ \/ /\ Works /\ file' = (IF file = "old" THEN file ELSE "new")
        /\ Go(IF way = "create" THEN "syncCreate" ELSE "syncParent")
     \/ file = "old" /\ way = "create" /\ Works /\ UNCHANGED file /\ Go("uncreate")
     \/ Fails /\ UNCHANGED file /\ (IF way = "create" THEN Go("uncreate") ELSE Return("err"))

SyncCreate ==
  /\ pc = "syncCreate" /\ UNCHANGED fileVars
  /\ \/ Works /\ Return("ok")
     \/ file = "old" /\ Works /\ Go("uncreate")
     \/ Fails /\ Go("uncreate")

\* The undo removes what the name leads to, without a look.
Uncreate ==
  /\ pc = "uncreate" /\ UNCHANGED <<way, temp>> /\ Return("err")
  /\ (Works /\ file' = "none") \/ (Fails /\ UNCHANGED file)

\* create and WriteNewPrivateFile, and WriteExclusive, which never undoes
CreateFile == OpenExclusive \/ FillExclusive \/ SyncCreate \/ Uncreate

FileSteps == PublishExclusiveCanonicalFile \/ Replace \/ SyncParent \/ CreateFile \/ Preempt

-----------------------------------------------------------------------------
(* writeTree of internal/maintainer/sourcecorpus: three directories, the     *)
(* objects in order, then the files with the receipt last, everything        *)
(* looked at again before each file, and a cleanup that says whether it      *)
(* removed all of it.                                                        *)

CONSTANT TreeFiles  \* how many files the tree has; the last is the receipt

ASSUME TreeAssumption == TreeFiles \in Nat \ {0}

VARIABLES tree,     \* what each file of the tree holds
          made,     \* how many of the three directories exist
          dirs,     \* how many of them are recorded for the cleanup
          held,     \* the files recorded for the cleanup
          alien     \* another process put a file of its own into the tree

treeVars == <<tree, made, dirs, held, alien>>

TreeInit == /\ tree = [i \in 1..TreeFiles |-> "none"] /\ made \in {0, 4}
            /\ dirs = 0 /\ held = {} /\ alien = FALSE

\* made = 4 stands for a destination that is there before the call.
EnsureAbsent ==
  /\ pc = "tree" /\ Works /\ UNCHANGED treeVars
  /\ IF made = 0 THEN Go("mkdir") ELSE Return("rejected")

MakeDirectory ==
  /\ pc = "mkdir" /\ UNCHANGED <<tree, held, alien>>
  /\ \/ /\ dirs < 3 /\ Works /\ made' = dirs + 1 /\ dirs' = dirs + 1 /\ Go("mkdir")
     \/ /\ dirs < 3 /\ Fails /\ made' \in {dirs, dirs + 1} /\ dirs' \in {dirs, made'}
        /\ Go("undoFiles")
     \/ dirs = 3 /\ Works /\ UNCHANGED <<made, dirs>> /\ Go("files")

\* Another process rewrites a file in place, replaces it, or adds one.
Meddle ==
  /\ Edit /\ made \in 1..3 /\ UNCHANGED <<made, dirs, held>>
  /\ \/ /\ \E i \in held, how \in {"altered", "replaced"} :
             tree[i] \in {"part", "good"} /\ tree' = [tree EXCEPT ![i] = how]
        /\ UNCHANGED alien
     \/ alien' = TRUE /\ UNCHANGED tree

Intact == \A i \in held : tree[i] = "good"

NextFile == CHOOSE i \in 1..TreeFiles : i \notin held /\ \A j \in 1..TreeFiles : j < i => j \in held

CreateBoundFile ==
  /\ pc = "files" /\ held # 1..TreeFiles /\ UNCHANGED <<made, dirs, alien>>
  /\ IF Intact
       THEN \/ /\ Works /\ held' = held \cup {NextFile} /\ tree' = [tree EXCEPT ![NextFile] = "part"]
               /\ Go("write")
            \/ Fails /\ UNCHANGED <<tree, held>> /\ Go("undoFiles")
       ELSE Works /\ UNCHANGED <<tree, held>> /\ Go("undoFiles")

Writing == CHOOSE i \in held : \A j \in held : j <= i

WriteBoundFile ==
  /\ pc = "write" /\ UNCHANGED <<made, dirs, held, alien>>
  /\ \/ tree[Writing] = "part" /\ Works /\ tree' = [tree EXCEPT ![Writing] = "good"] /\ Go("files")
     \/ tree[Writing] # "part" /\ Works /\ UNCHANGED tree /\ Go("undoFiles")
     \/ Fails /\ UNCHANGED tree /\ Go("undoFiles")

SyncTree ==
  /\ pc = "files" /\ held = 1..TreeFiles /\ UNCHANGED treeVars
  /\ \/ Intact /\ Works /\ Return("ok")
     \/ ~Intact /\ Works /\ Go("undoFiles")
     \/ Fails /\ Go("undoFiles")

\* A cleanup that starts with the first file.
First == CHOOSE i \in held : \A j \in held : i <= j
UndoFirstFile ==
  /\ pc = "undoFiles" /\ held # {} /\ held' = held \ {First} /\ UNCHANGED <<made, dirs, alien>>
  /\ Go("undoFiles")
  /\ \/ Works /\ tree' = [tree EXCEPT ![First] = IF @ = "replaced" THEN @ ELSE "none"]
     \/ Fails /\ UNCHANGED tree

\* The last file first.  A held file that still has one link is removed by
\* its name; a replaced one is left, and so is one whose removal fails, while
\* the files before it are removed all the same.
UndoFile ==
  /\ pc = "undoFiles" /\ held # {} /\ held' = held \ {Writing} /\ UNCHANGED <<made, dirs, alien>>
  /\ Go("undoFiles")
  /\ \/ Works /\ tree' = [tree EXCEPT ![Writing] = IF @ = "replaced" THEN @ ELSE "none"]
     \/ Fails /\ UNCHANGED tree
UndoneFiles == pc = "undoFiles" /\ held = {} /\ Works /\ UNCHANGED treeVars /\ Go("undoDirs")

\* A directory that is not empty cannot be removed.
Removable == made = dirs /\ ~alien /\ \A i \in 1..TreeFiles : tree[i] = "none"
UndoDirs ==
  /\ pc = "undoDirs" /\ UNCHANGED <<tree, dirs, held, alien>>
  /\ \/ Works /\ Removable /\ made' = 0 /\ Return("COMPLETE")
     \/ Works /\ ~Removable /\ dirs = 0 /\ UNCHANGED made /\ Return("COMPLETE")
     \/ Works /\ ~Removable /\ dirs > 0 /\ UNCHANGED made /\ Return("INCOMPLETE")
     \/ Fails /\ dirs > 0 /\ UNCHANGED made /\ Return("INCOMPLETE")

TreeSteps == \/ EnsureAbsent \/ MakeDirectory \/ CreateBoundFile \/ WriteBoundFile \/ SyncTree
             \/ UndoFile \/ UndoneFiles \/ UndoDirs \/ Meddle
=============================================================================
