------------------------------ MODULE Outputs -------------------------------
(* The commands that write output files, one of which runs in each          *)
(* behaviour.                                                               *)
EXTENDS OutputPair, RunStore, FileOutput, KnowledgeUpdate, ReleaseGate, ReleaseWorkflow, Publisher,
        ObservationImport

VARIABLE part  \* which writer runs

vars == <<part, writerVars, pairVars, runVars, fileVars, treeVars, updateVars, gateVars,
          releaseVars, publishVars, importVars>>

Start == [pair |-> "pairCheck", run |-> "prepare", file |-> "file", tree |-> "tree", update |-> "request",
          gate |-> "policy", release |-> "idle", publish |-> "init",
          import |-> "import"]
Parts == DOMAIN Start

\* The state of the writers that do not run is fixed.
Init == /\ part \in Parts /\ WriterInit(Start[part])
        /\ PairInit /\ (part # "pair" => \A n \in PairNames : dir[n] = "none")
        /\ RunInit /\ (part # "run" => final = "none")
        /\ FileInit /\ (part # "file" => way = "publish" /\ file = "none")
        /\ TreeInit /\ (part # "tree" => made = 0)
        /\ UpdateInit /\ (part # "update" => request = Source /\ download = "none")
        /\ GateInit /\ (part # "gate" => source = [f \in Files |-> "a"])
        /\ ReleaseInit /\ (part # "release" => head = CHOOSE r \in Revisions : TRUE)
        /\ PublishInit
        /\ ImportInit /\ (part # "import" => disk = Collected("a"))

Pair == /\ part = "pair" /\ WriteOutputPair
        /\ UNCHANGED <<part, runVars, fileVars, treeVars, updateVars, gateVars, releaseVars, publishVars, importVars>>
Run == /\ part = "run" /\ RunSteps
       /\ UNCHANGED <<part, pairVars, fileVars, treeVars, updateVars, gateVars, releaseVars, publishVars, importVars>>
File == /\ part = "file" /\ FileSteps
        /\ UNCHANGED <<part, pairVars, runVars, treeVars, updateVars, gateVars, releaseVars, publishVars, importVars>>
Tree == /\ part = "tree" /\ TreeSteps
        /\ UNCHANGED <<part, pairVars, runVars, fileVars, updateVars, gateVars, releaseVars, publishVars, importVars>>
Update == /\ part = "update" /\ UpdateSteps
          /\ UNCHANGED <<part, pairVars, runVars, fileVars, treeVars, gateVars, releaseVars, publishVars, importVars>>
Gate == /\ part = "gate" /\ GateSteps
        /\ UNCHANGED <<part, pairVars, runVars, fileVars, treeVars, updateVars, releaseVars, publishVars, importVars>>
Release == /\ part = "release" /\ ReleaseSteps
           /\ UNCHANGED <<part, pairVars, runVars, fileVars, treeVars, updateVars, gateVars, publishVars, importVars>>
Publish == /\ part = "publish" /\ PublishSteps
           /\ UNCHANGED <<part, pairVars, runVars, fileVars, treeVars, updateVars, gateVars, releaseVars, importVars>>
Importing == /\ part = "import" /\ ImportSteps
             /\ UNCHANGED <<part, pairVars, runVars, fileVars, treeVars, updateVars, gateVars, releaseVars,
                            publishVars>>
\* A killed release command leaves a directory for the next one: KillCommand.
\* The calls of a ceremony are separate processes: a kill is a call not made.
Killed == /\ part # "release" /\ pc # "ceremony" /\ Kill
          /\ UNCHANGED <<part, pairVars, runVars, fileVars, treeVars, updateVars, gateVars, releaseVars, publishVars, importVars>>

Next == Pair \/ Run \/ File \/ Tree \/ Update \/ Gate \/ Release \/ Publish \/ Importing \/ Killed
Spec == Init /\ [][Next]_vars

-----------------------------------------------------------------------------
(* The pair of inventory files. A success leaves both new files; an error   *)
(* leaves both new files, or exactly the directory the call found unless a  *)
(* second system call failed or another process wrote to a name; and        *)
(* whenever not both new files are in place, even after a kill, each old    *)
(* file is at its name or at its backup name.                               *)
PairAllOrNothing ==
  part = "pair" =>
    /\ result = "ok" => Replaced /\ (faults = 0 => Clean)
    /\ result = "err" => Replaced \/ faults > 1 \/ edits > 0 \/ dir = before
    /\ Replaced \/ (Kept(1) /\ Kept(2))

(* What a finished run store call leaves. A success is a complete run,      *)
(* verified after the last file was copied, and no stage. An error leaves   *)
(* the public name to nobody or to somebody else, or leaves a complete run, *)
(* with three exceptions: a copy was cut short or the other process put     *)
(* entries of its own into the directory; the cleanup met a failure of its  *)
(* own; or the name was reserved and could not be opened, and stays bare.   *)
(* A stage is left only by a call that met a failure and says so.           *)
RunAllOrNothing ==
  part = "run" =>
    /\ result = "ok" /\ ~late => final = "ours" /\ Complete
    /\ result \in {"err", "exists", "aborted"} /\ final = "ours" =>
         \/ Complete \/ (\E n \in Names : public[n] \in {"part", "other"})
         \/ faults > 1 \/ (faults > 0 /\ edits > 0)
    /\ result # "none" /\ final = "bare" => result = "err" /\ faults > 0 /\ created = {}
    /\ result # "none" /\ stageName = "ours" => result # "ok" /\ faults > 0

(* A single file is never left half written under its name by a call that   *)
(* reports, except by the writer that keeps it for inspection, unless the   *)
(* unlink failed too, and a success never leaves less than a whole file     *)
(* there. A capture tree is whole after a success and gone after a failure  *)
(* whose cleanup says COMPLETE, except for a directory that was made but    *)
(* could not be opened, which WriteFailure does not count; and its receipt  *)
(* is the completion marker: at every moment, through a cleanup and a kill, *)
(* a finished receipt stands beside all the other files, unless its own     *)
(* removal was tried and failed, which is never reported as COMPLETE.       *)
FileAndTreeWhole ==
  /\ tree[TreeFiles] = "good" =>
       \/ \A i \in 1..TreeFiles : tree[i] \notin {"none", "part"}
       \/ TreeFiles \notin held /\ faults > 0 /\ result \in {"none", "INCOMPLETE"}
  /\ part = "file" /\ pc = "done" =>
       /\ result = "ok" => temp = "none" /\ (file = "new" \/ (file = "old" /\ edits > 0))
       /\ file = "part" => way = "keep" \/ faults > 1
       /\ temp # "none" => faults > 1 \/ (faults > 0 /\ way = "publish" /\ file # "none")
  /\ part = "tree" =>
       /\ result = "ok" => made = 3 /\ \A i \in 1..TreeFiles : tree[i] = "good"
       /\ result = "COMPLETE" => /\ \A i \in 1..TreeFiles : tree[i] = "none"
                                 /\ made = 0 \/ (made = 1 /\ dirs = 0)

(* What somebody else put at a name the writers use stays there: a public   *)
(* directory, a stage name and a file that were not ours are never removed  *)
(* or replaced, and a cleanup leaves every entry that had been replaced     *)
(* before it looked. Three steps are left out, each of them exactly: the    *)
(* writer that is to replace a file; the undo of an exclusive create, which *)
(* unlinks by name without a look; and the removal of the stage, which      *)
(* takes what was put at its name after the last look.                      *)
ForeignUntouched ==
  [][/\ final = "other" => final' = "other"
     /\ stageName = "other" => stageName' = "other" \/ (pc = "rmstage" /\ bound)
     /\ file = "old" => \/ file' = "old" \/ (way = "replace" /\ file' = "new")
                         \/ (pc = "uncreate" /\ way = "create")
     /\ \A n \in Names : public[n] = "other" /\ ~late => public'[n] = "other"]_vars

(* Once the import has changed the knowledge store, the package that did it *)
(* is on disk at the output path, through a power loss at any moment, unless *)
(* another process touched it; and that path is not inside or the same file *)
(* as the store, whichever of the two checks found out.                      *)
Recoverable ==
  store # "before" =>
    /\ request.place.spelled = "outside" /\ request.place.physical = "outside"
    /\ edits = 0 => download = "durable"

(* What db update reports. An exit of success means the package was          *)
(* selected and is retained; a package reported as retained is whole and     *)
(* durable, whatever another process did before the last look; a report that *)
(* claims neither retention nor a cleanup to do leaves nothing of ours       *)
(* behind; and the store changes only when the package was retained. Before  *)
(* the report too, the store never runs ahead of the package on disk.        *)
UpdateTruthful ==
  part = "update" =>
    /\ Recoverable
    /\ pc = "done" =>
       /\ result = "ok" => store = "selected" /\ "retained" \in report
       /\ "retained" \in report => download = "durable"
       /\ store # "before" => "retained" \in report \/ edits > 0
       /\ result = "failed" /\ "retained" \notin report /\ edits = 0 => ~Ours
       /\ result = "failed" /\ faults = 0 /\ edits = 0 => store # "selected"

(* What the release gate stages while somebody edits the tree: exactly the   *)
(* files of the manifest and, under a policy of the second schema, the       *)
(* policy that was validated with the vendor tree and the module sums that   *)
(* it names, though the tree was checked before the files were read.         *)
StagedAsBound ==
  staged # Nothing => /\ staged = manifest.files /\ staged["test"] # "none"
                      /\ SchemaV2(manifest.policy) => /\ staged["policy"] = manifest.policy
                                                     /\ Vendored(staged["policy"], staged["vendor"], staged["sums"])

(* Whatever commands ran on the output directory, failed or were killed:     *)
(* finished sums are the sums of the files beside them. finalize writes them *)
(* last, and no command replaces a summed file once they are there.          *)
SumsMatch == out["sums"] \notin {Absent, Partial} => VerifySums

(* The sums of a release directory are always right, and one that verifies   *)
(* as signed derives from its commit: for a sign whose checkout did not      *)
(* move: the sums hold, the source archive, the manifest and the revision    *)
(* are those of the signed commit, the SBOM is the one of that commit and    *)
(* of these archives, and the archives carry the time of that commit.        *)
SignedDerives ==
  /\ SumsMatch
  /\ VerifyDirectory /\ out["statement"][4] =>
       LET r == out["statement"][1] IN
       /\ VerifySums /\ out["revision"] = <<r>>
       /\ \A a \in {"manifest", "tree", "source"} : out[a] = <<r>>
       /\ out["sbom"] = WriteSBOM(r, r)
       /\ \A t \in Targets : out[t] # Partial /\ Epoch[out[t][1]] = Epoch[r]

(* What the signing guide says of the same directory: an output that does    *)
(* not derive from the exact checkout cannot be signed. Every archive was    *)
(* built from the signed commit.                                             *)
ArchivesOfRevision ==
  VerifyDirectory /\ out["statement"][4] => \A t \in Targets : out[t][1] = out["statement"][1]

(* Over every set of files a ceremony can leave, from whichever sessions,    *)
(* bundles, signers and roots: what the publisher checks itself before it    *)
(* issues a package admits exactly what the consumer's verifier accepts from *)
(* the initial root, with the successor roots it was given, while nothing    *)
(* has expired. A finished ceremony is not refused at its last call, and     *)
(* what the consumer would refuse is refused before the package is staged.   *)
PublisherAgrees ==
  (\A r \in Roles : Filed(signed[r])) =>
    \A i \in roots : \A m \in Members(i) : Admits(i, m) <=> ConsumerAccepts(i, m, {})

(* What an import that succeeds was made from, while somebody changes the   *)
(* directory: every entry, the root included, was the same entry from the   *)
(* first look at it to the last, and the bytes used are all the files of    *)
(* the directory, as its two manifests list them.                           *)
ImportStable ==
  part = "import" /\ result = "ok" =>
    /\ shifted = {} /\ {f \in ObservedFiles : cache[f] # "none"} = Inventoried
    /\ Inventoried = RootListed \cup {"manifest", "contextManifest"}
    /\ \A m \in {"manifest", "contextManifest"} : \A f \in ElementsOf(Listed(m, cache[m])) :
         cache[f] = DigestOf(cache[m], f)

(* What the comment on NewRunStore says: the public root does not exist     *)
(* until Commit succeeds. Taken at the moment Commit has failed, and        *)
(* leaving a complete run aside: an incomplete root of ours is not there.   *)
NoIncompleteRoot ==
  part = "run" /\ result = "err" /\ final \in {"ours", "bare"} /\ edits = 0 => Complete
=============================================================================
