---------------------------- MODULE OutputsProofs ---------------------------
(***************************************************************************)
(* Theorems about the commands that write, for any number of failed system *)
(* calls and of changes by another process, any artifacts, platforms,      *)
(* commits and files: the invariants of WriterProofs and CommandProofs     *)
(* hold of the one command that runs, and the others do not act.           *)
(***************************************************************************)
EXTENDS Outputs, WriterProofs, CommandProofs

\* The writer of a behaviour is chosen once, and the others do not act.
LEMMA OnePart ==
  ASSUME [Next]_vars
  PROVE  /\ part' = part
         /\ part # "pair" => UNCHANGED pairVars
         /\ part # "run" => UNCHANGED runVars
         /\ part # "file" => UNCHANGED fileVars
         /\ part # "tree" => UNCHANGED treeVars
         /\ part # "update" => UNCHANGED updateVars
         /\ part # "gate" => UNCHANGED gateVars
         /\ part # "import" => UNCHANGED importVars
         /\ part # "release" => UNCHANGED releaseVars
         /\ part # "publish" => UNCHANGED publishVars
  BY Zenon DEF Next, Pair, Run, File, Tree, Update, Gate, Release, Publish, Importing, Killed, vars

\* A step of a behaviour is one of its writer, a kill, or none.
LEMMA PartSteps ==
  ASSUME [Next]_vars
  PROVE  /\ part = "pair" => WriteOutputPair \/ (Kill /\ UNCHANGED pairVars) \/ UNCHANGED <<writerVars, pairVars>>
         /\ part = "run" => RunSteps \/ (Kill /\ UNCHANGED runVars) \/ UNCHANGED <<writerVars, runVars>>
         /\ part = "file" => FileSteps \/ (Kill /\ UNCHANGED fileVars) \/ UNCHANGED <<writerVars, fileVars>>
         /\ part = "tree" => TreeSteps \/ (Kill /\ UNCHANGED treeVars) \/ UNCHANGED <<writerVars, treeVars>>
         /\ part = "update" => UpdateSteps \/ (Kill /\ UNCHANGED updateVars) \/ UNCHANGED <<writerVars, updateVars>>
         /\ part = "gate" => GateSteps \/ (Kill /\ UNCHANGED gateVars) \/ UNCHANGED <<writerVars, gateVars>>
         /\ part = "import" => ImportSteps \/ (Kill /\ UNCHANGED importVars) \/ UNCHANGED <<writerVars, importVars>>
         /\ part = "release" => ReleaseSteps \/ UNCHANGED <<writerVars, releaseVars>>
  BY Zenon DEF Next, Pair, Run, File, Tree, Update, Gate, Release, Publish, Importing, Killed, vars

PairInv == part = "pair" => PairType /\ PairAt

\* The promise about the pair, from the first system call on.
LEMMA PairSafe == Spec => []PairInv
<1>1. Init => PairInv
  <2>1. Start["pair"] = "pairCheck"
    BY Zenon DEF Start
  <2>2. Init /\ part = "pair" => PairInit /\ pc = "pairCheck" /\ result = "none" /\ faults = 0 /\ edits = 0
    BY <2>1, Zenon DEF Init, WriterInit
  <2> QED
    BY <2>2, PairBegins, Zenon DEF PairInv
<1>2. PairInv /\ [Next]_vars => PairInv'
  BY OnePart, PartSteps, PairKept, Zenon DEF PairInv
<1> QED
  BY <1>1, <1>2, PTL DEF Spec

\* PairAllOrNothing for any number of failures and of changes by another
\* process: writeOutputPair reports success only with both new files in place,
\* reports an error only with both new files or with the directory as it
\* found it, unless two calls failed or another process interfered, and keeps
\* every old file within reach through a kill at any point.
THEOREM PairAlwaysAllOrNothing == Spec => []PairAllOrNothing
<1>1. PairInv => PairAllOrNothing
  BY PairPromise, Zenon DEF PairInv, PairAllOrNothing
<1> QED
  BY <1>1, PairSafe, PTL

RunInv == part = "run" => RunType /\ RunAt

\* The promise about a run, from the first system call on.
LEMMA RunSafe == Spec => []RunInv
<1>1. Init => RunInv
  <2>1. Start["run"] = "prepare"
    BY Zenon DEF Start
  <2>2. Init /\ part = "run" => RunInit /\ pc = "prepare" /\ result = "none" /\ faults = 0 /\ edits = 0
    BY <2>1, Zenon DEF Init, WriterInit
  <2> QED
    BY <2>2, RunBegins, Zenon DEF RunInv
<1>2. RunInv /\ [Next]_vars => RunInv'
  BY OnePart, PartSteps, RunKept, Zenon DEF RunInv
<1> QED
  BY <1>1, <1>2, PTL DEF Spec

\* RunAllOrNothing for any set of artifacts, any number of failures and any
\* number of changes by another process: what RunStore's Commit, Write and
\* Abort leave at the public name and at the stage name, the reserved name
\* that could not be opened included.
THEOREM RunAlwaysAllOrNothing == Spec => []RunAllOrNothing
<1>1. RunInv => RunAllOrNothing
  BY RunPromise, Zenon DEF RunInv, RunAllOrNothing
<1> QED
  BY <1>1, RunSafe, PTL

FileInv == part = "file" => FileAt

\* The promise about one file, from the first system call on.
LEMMA FileSafe == Spec => []FileInv
<1>1. Init => FileInv
  <2>1. Start["file"] = "file"
    BY Zenon DEF Start
  <2>2. Init /\ part = "file" => FileInit /\ pc = "file" /\ result = "none" /\ faults = 0 /\ edits = 0
    BY <2>1, Zenon DEF Init, WriterInit
  <2> QED
    BY <2>2, FileKept, Zenon DEF FileInv
<1>2. FileInv /\ [Next]_vars => FileInv'
  BY OnePart, PartSteps, FileKept, Zenon DEF FileInv
<1> QED
  BY <1>1, <1>2, PTL DEF Spec

\* ForeignUntouched for every instance: no writer removes or replaces a
\* directory, a stage name or a file of somebody else, and a cleanup leaves
\* every entry that had been replaced before it looked. What it does not
\* cover are the three steps the property names: the writer that replaces,
\* the unlink by name that undoes a create, and what was put at the stage
\* name after cleanupStage looked at it for the last time.
THEOREM ForeignAlwaysUntouched == Spec => ForeignUntouched
<1> DEFINE Leaves ==
      /\ final = "other" => final' = "other"
      /\ stageName = "other" => stageName' = "other" \/ (pc = "rmstage" /\ bound)
      /\ file = "old" => \/ file' = "old" \/ (way = "replace" /\ file' = "new")
                          \/ (pc = "uncreate" /\ way = "create")
      /\ \A n \in Names : public[n] = "other" /\ ~late => public'[n] = "other"
<1>1. ASSUME RunInv, FileInv, [Next]_vars PROVE Leaves
  <2>1. UNCHANGED runVars => UNCHANGED <<final, stageName, public>>
    BY Zenon DEF runVars
  <2>2. UNCHANGED fileVars => UNCHANGED file
    BY Zenon DEF fileVars
  <2>3. CASE part = "run"
    <3>1. RunSteps \/ UNCHANGED runVars
      BY <1>1, <2>3, PartSteps, Zenon DEF runVars
    <3>2. UNCHANGED file
      BY <1>1, <2>2, <2>3, OnePart, Zenon
    <3>3. RunType /\ RunAt
      BY <1>1, <2>3, Zenon DEF RunInv
    <3> QED
      BY <2>1, <3>1, <3>2, <3>3, RunForeign, Zenon
  <2>4. CASE part # "run"
    <3>1. UNCHANGED <<final, stageName, public>>
      BY <1>1, <2>1, <2>4, OnePart, Zenon
    <3>2. UNCHANGED file \/ (FileAt /\ FileSteps)
      BY <1>1, <2>2, OnePart, PartSteps, Zenon DEF FileInv, fileVars
    <3> QED
      BY <3>1, <3>2, FileStep, Zenon
  <2> QED
    BY <2>3, <2>4, Zenon
<1>2. RunInv /\ FileInv /\ [Next]_vars => [Leaves]_vars
  BY <1>1, Zenon
<1> QED
  BY <1>2, RunSafe, FileSafe, PTL DEF Spec, ForeignUntouched

TreeInv == IF part = "tree" THEN TreeAt ELSE \A i \in 1..TreeFiles : tree[i] = "none"

\* The promise about a tree, from the first system call on.
LEMMA TreeSafe == Spec => []TreeInv
<1>1. Init => TreeInv
  <2>1. Start["tree"] = "tree"
    BY Zenon DEF Start
  <2>2. Init => TreeInit /\ (part = "tree" => pc = "tree" /\ result = "none" /\ faults = 0)
    BY <2>1, Zenon DEF Init, WriterInit
  <2> QED
    BY <2>2, TreeBegins, Zenon DEF TreeInv
<1>2. TreeInv /\ [Next]_vars => TreeInv'
  <2> SUFFICES ASSUME TreeInv, [Next]_vars PROVE TreeInv'
    BY Zenon
  <2>1. part' = part /\ (part # "tree" => tree' = tree)
    BY OnePart, Zenon DEF treeVars
  <2> QED
    BY <2>1, PartSteps, TreeKept, Zenon DEF TreeInv
<1> QED
  BY <1>1, <1>2, PTL DEF Spec

\* FileAndTreeWhole for any number of files, of failures and of changes by
\* another process: no name is left half written by a call that reports, a
\* capture tree is whole or gone when writeTree says so, and at every moment
\* its receipt stands beside all the files it lists, unless its own removal
\* failed, and then the cleanup is not reported as complete.
THEOREM AlwaysFileAndTreeWhole == Spec => []FileAndTreeWhole
<1>1. ASSUME FileInv, TreeInv PROVE FileAndTreeWhole
  <2>1. ReceiptLast
    BY <1>1, TreeReceipt, NoTree, Zenon DEF TreeInv
  <2>2. part = "file" /\ pc = "done" => FileLeft
    BY <1>1, Zenon DEF FileInv, FileAt
  <2>3. part = "tree" => TreeLeft
    BY <1>1 DEF TreeInv, TreeAt, TreeLeft
  <2> QED
    BY <2>1, <2>2, <2>3, Zenon DEF FileAndTreeWhole, ReceiptLast, FileLeft, TreeLeft
<1> QED
  BY <1>1, FileSafe, TreeSafe, PTL

UpdateInv == part = "update" => UpdateAt

\* The promise of db update, from the request on.
LEMMA UpdateSafe == Spec => []UpdateInv
<1>1. Init => UpdateInv
  <2>1. Start["update"] = "request"
    BY Zenon DEF Start
  <2>2. Init /\ part = "update" => UpdateInit /\ pc = "request" /\ faults = 0 /\ edits = 0
    BY <2>1, Zenon DEF Init, WriterInit
  <2> QED
    BY <2>2, UpdateKept, Zenon DEF UpdateInv
<1>2. UpdateInv /\ [Next]_vars => UpdateInv'
  BY OnePart, PartSteps, UpdateKept, Zenon DEF UpdateInv
<1> QED
  BY <1>1, <1>2, PTL DEF Spec

\* UpdateTruthful for any number of failures and of changes by another
\* process: db update reports success only for a selected package that is
\* retained, reports as retained only a durable one, and the store never runs
\* ahead of the package on disk, through a power loss at any moment.
THEOREM UpdateAlwaysTruthful == Spec => []UpdateTruthful
<1>1. UpdateInv => UpdateTruthful
  <2> SUFFICES ASSUME UpdateInv, part = "update" PROVE Backed /\ (pc = "done" => UpdateLeft)
    BY Zenon DEF UpdateTruthful, UpdateLeft, Retained, Recoverable, Backed
  <2> QED
    BY Zenon DEF UpdateInv, UpdateAt
<1> QED
  BY <1>1, UpdateSafe, PTL

\* Another writer leaves the stage alone.
GateInv == IF part = "gate" THEN GateAt ELSE staged = Nothing

\* The promise of the gate, from the start.
LEMMA GateSafe == Spec => []GateInv
<1>1. Init => GateInv
  <2>1. Start["gate"] = "policy"
    BY Zenon DEF Start
  <2>2. Init => GateInit /\ (part = "gate" => pc = "policy")
    BY <2>1, Zenon DEF Init, WriterInit
  <2> QED
    BY <2>2, GateBegins, Zenon DEF GateInv
<1>2. GateInv /\ [Next]_vars => GateInv'
  <2> SUFFICES ASSUME GateInv, [Next]_vars PROVE GateInv'
    BY Zenon
  <2>1. part' = part /\ (part # "gate" => staged' = staged)
    BY OnePart, Zenon DEF gateVars
  <2> QED
    BY <2>1, PartSteps, GateKept, Zenon DEF GateInv
<1> QED
  BY <1>1, <1>2, PTL DEF Spec

\* StagedAsBound for any number of edits of the tree: what the release gate
\* stages is the manifest, has a test and, under a policy of the second schema,
\* holds that policy with the vendor tree and the module sums it names.
THEOREM AlwaysStagedAsBound == Spec => []StagedAsBound
<1>1. GateInv => StagedAsBound
  BY Zenon DEF GateInv, GateAt, BoundStage, StagedAsBound
<1> QED
  BY <1>1, GateSafe, PTL

ReleaseInv == IF part = "release" THEN ReleaseHolds ELSE out = [a \in Entries |-> Absent]

\* The promise of the release commands, from an empty directory on.
LEMMA ReleaseSafe == Spec => []ReleaseInv
<1>1. Init => ReleaseInv
  <2>1. Start["release"] = "idle"
    BY Zenon DEF Start
  <2>2. Init => ReleaseInit /\ out = [a \in Entries |-> Absent] /\ (part = "release" => pc = "idle")
    BY <2>1, Zenon DEF Init, WriterInit, ReleaseInit
  <2> QED
    BY <2>2, ReleaseStart, Zenon DEF ReleaseInv
<1>2. ReleaseInv /\ [Next]_vars => ReleaseInv'
  <2> SUFFICES ASSUME ReleaseInv, [Next]_vars PROVE ReleaseInv'
    BY Zenon
  <2>1. part' = part /\ (part # "release" => out' = out)
    BY OnePart, Zenon DEF releaseVars
  <2> QED
    BY <2>1, PartSteps, ReleaseKept, Zenon DEF ReleaseInv
<1> QED
  BY <1>1, <1>2, PTL DEF Spec

\* SignedDerives for any platforms, commits and number of moves of the
\* checkout: whatever was run, killed or failed before, the sums of the output
\* directory are right, and what a statement that verifies says of a checkout
\* that did not move is true of the files beside it.
THEOREM SignedAlwaysDerives == Spec => []SignedDerives
<1>1. ReleaseInv => ReleaseHolds \/ out = [a \in Entries |-> Absent]
  BY Zenon DEF ReleaseInv
<1>2. ReleaseInv => SignedDerives
  BY <1>1, ReleasePromise, Zenon DEF SignedDerives, SumsMatch, SumsRight
<1> QED
  BY <1>2, ReleaseSafe, PTL

ImportInv == part = "import" => ImportType /\ Stamped /\ ImportAt

\* The promise of the import, from the first look on.
LEMMA ImportSafe == Spec => []ImportInv
<1>1. Init => ImportInv
  <2>1. Start["import"] = "import"
    BY Zenon DEF Start
  <2>2. Init /\ part = "import" => ImportInit /\ pc = "import" /\ result = "none" /\ edits = 0
    BY <2>1, Zenon DEF Init, WriterInit
  <2> QED
    BY <2>2, ImportBegins, Zenon DEF ImportInv
<1>2. ImportInv /\ [Next]_vars => ImportInv'
  BY OnePart, PartSteps, ImportKept, Zenon DEF ImportInv
<1> QED
  BY <1>1, <1>2, PTL DEF Spec

\* ImportStable for any number of changes by another process and whatever the
\* limit on entries: Import succeeds only on a directory that was the same at
\* both looks, with the bytes its two manifests list.
THEOREM ImportAlwaysStable == Spec => []ImportStable
<1>1. ASSUME ImportInv PROVE ImportStable
  <2> SUFFICES ASSUME part = "import", result = "ok" PROVE Settled /\ shifted = {}
    BY Zenon DEF ImportStable, Settled, AllRead, Cached, Covered, Digested
  <2> QED
    BY <1>1, Zenon DEF ImportInv, ImportAt
<1> QED
  BY <1>1, ImportSafe, PTL
=============================================================================
