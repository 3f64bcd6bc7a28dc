------------------------------ MODULE RunStore ------------------------------
(***************************************************************************)
(* The run store of internal/validation: artifacts are staged in a private *)
(* directory and published by reserving the public name with mkdir and     *)
(* copying the files into it, all through retained descriptors, while      *)
(* another process of the same user may change either directory.           *)
(***************************************************************************)
EXTENDS Writer, FiniteSets

CONSTANTS Artifacts,   \* the allow-listed artifact names, numbered in order
          Workflow,    \* the exact set of a workflow run
          Marked,      \* the artifacts that make a run a workflow run
          DecisionReport, DecisionRun,  \* the artifact that makes it a decision run, and its set
          DemoBoundary,                 \* the one artifact a decision run may have besides
          Reports,     \* the bundles of Write and WriteIncompleteReport
          MinRunArtifacts, MaxRunArtifacts

ASSUME RunAssumption ==
  /\ Artifacts \subseteq Nat /\ Workflow \subseteq Artifacts /\ Marked \subseteq Workflow
  /\ DecisionRun \subseteq Artifacts /\ DecisionReport \in DecisionRun /\ DemoBoundary \in Artifacts
  /\ Reports \subseteq SUBSET Artifacts /\ {} \notin Reports
  /\ MinRunArtifacts \in Nat /\ MaxRunArtifacts \in Nat

VARIABLES stage,      \* what each name in the retained stage directory holds
          stageName,  \* what the stage name names in the parent directory
          final,      \* what the public name names in the parent directory
          public,     \* what each name in our public directory holds
          parentOK,   \* the parent path still leads to the retained parent
          batch,      \* batchFiles and batchStarted
          created,    \* the published files whose inode is recorded
          owned,      \* the recorded files a cleanup found to be still ours
          late,       \* the other process acted after the last check
          reply,     \* what the call will return once the stage is cleaned up
          bound       \* the last look found our directory at the stage name

runVars == <<stage, stageName, final, public, parentOK, batch, created, owned, late, reply, bound>>

Rogue == 0  \* a name no artifact has
Names == Artifacts \cup {Rogue}
Present(d) == {n \in Names : d[n] # "none"}

RunInit ==
  /\ stage = [n \in Names |-> "none"] /\ public = [n \in Names |-> "none"]
  /\ stageName = "none" /\ final \in {"none", "other"} /\ parentOK = TRUE
  /\ batch = [open |-> FALSE, files |-> {}, api |-> "batch"] /\ created = {}
  /\ owned = {} /\ late = FALSE /\ reply = "none" /\ bound = FALSE

Nowhere == UNCHANGED <<stage, stageName, final, public, parentOK, reply, bound>>

-----------------------------------------------------------------------------
(* The other process.  It may add or alter entries of the two directories,  *)
(* and put directories of its own, with content, at the three names.        *)
Disturb ==
  /\ Edit /\ UNCHANGED <<batch, created, owned, reply, bound>>
  /\ late' = (late \/ pc \in {"close", "finish", "unlink", "empty", "rmstage", "reclose"})
  /\ \/ \E n \in Names : stage' = [stage EXCEPT ![n] = "other"]
        /\ stageName = "ours" /\ UNCHANGED <<stageName, final, public, parentOK>>
     \/ \E n \in Names : public' = [public EXCEPT ![n] = "other"]
        /\ final = "ours" /\ UNCHANGED <<stage, stageName, final, parentOK>>
     \/ stageName = "ours" /\ stageName' = "other" /\ UNCHANGED <<stage, final, public, parentOK>>
     \/ final # "other" /\ final' = "other" /\ UNCHANGED <<stage, stageName, public, parentOK>>
     \/ parentOK' = FALSE /\ UNCHANGED <<stage, stageName, final, public>>

-----------------------------------------------------------------------------
(* cleanupStage, with which every call ends that has a stage.  The retained  *)
(* directory is emptied through its descriptor; then comes the last look at  *)
(* the stage name.                                                           *)
EmptyStage ==
  /\ pc = "empty" /\ Go("rmstage") /\ bound' = (stageName = "ours")
  /\ \/ Works /\ stage' = [n \in Names |-> "none"] /\ UNCHANGED reply
     \/ /\ Fails /\ stage' \in {stage, [n \in Names |-> "none"]}
        /\ reply' = IF reply = "ok" THEN "unclean" ELSE reply
  /\ UNCHANGED <<stageName, final, public, parentOK, batch, created, owned, late>>

\* A name that was ours is opened again, what is in the directory it leads to
\* is removed, and the name.  A name that was not ours is left.
RemoveStage ==
  /\ pc = "rmstage" /\ UNCHANGED <<final, public, parentOK, batch, created, owned, late, reply, bound>>
  /\ \/ /\ Works /\ Return(IF reply \in {"unclean", "closed"} THEN "err" ELSE reply)
        /\ stageName' = IF bound THEN "none" ELSE stageName
        /\ stage' = IF bound /\ stageName = "ours" THEN [n \in Names |-> "none"] ELSE stage
     \/ /\ Fails /\ UNCHANGED stage /\ stageName' \in {stageName} \cup (IF bound THEN {"none"} ELSE {})
        /\ \/ Return(IF reply = "aborted" THEN reply ELSE "err")
           \/ reply = "err" /\ Go("reclose")

\* Close after a call whose cleanup failed: cleanupStage once more.
CloseRoot ==
  /\ pc = "reclose" /\ Works /\ Go("rmstage") /\ reply' = "closed" /\ bound' = (stageName = "ours")
  /\ UNCHANGED <<stage, stageName, final, public, parentOK, batch, created, owned, late>>

AbortBatch(why) ==
  /\ pc' = "empty" /\ reply' = why /\ batch' = [batch EXCEPT !.open = FALSE, !.files = {}]
  /\ UNCHANGED <<result, edits, stage, stageName, public, parentOK, created, owned, late, bound>>

\* The call failed for a reason of its own, or because a system call failed.
AbortWithError == AbortBatch("err")
Refused == Works /\ AbortWithError /\ UNCHANGED final
Broken == Fails /\ AbortWithError /\ UNCHANGED final

PrepareOutputRoot ==
  /\ pc = "prepare" /\ UNCHANGED <<stage, final, public, parentOK, batch, created, owned, late, reply, bound>>
  /\ \/ final = "none" /\ Works /\ stageName' = "ours" /\ Go("stage")
     \/ final # "none" /\ Works /\ UNCHANGED stageName /\ Return("exists")
     \/ final = "none" /\ Fails /\ UNCHANGED stageName /\ Return("err")
     \/ /\ final = "none" /\ faults + 2 <= MaxFaults /\ faults' = faults + 2  \* and its removal fails
        /\ stageName' = "ours" /\ Return("err")

BeginBatch ==
  /\ pc = "stage" /\ ~batch.open /\ batch.api = "batch" /\ Works /\ Go("stage")
  /\ batch' = [batch EXCEPT !.open = TRUE, !.files = {}] /\ Nowhere /\ UNCHANGED <<created, owned, late>>

\* A file that cannot be written is removed with the whole stage.
Stage(n) ==
  /\ pc = "stage" /\ batch.api = "batch"
  /\ IF n \notin batch.files /\ Cardinality(batch.files) < MaxRunArtifacts /\ stage[n] = "none"
       THEN \/ /\ Works /\ Go("stage") /\ stage' = [stage EXCEPT ![n] = "good"]
               /\ batch' = [batch EXCEPT !.open = TRUE, !.files = @ \cup {n}]
               /\ UNCHANGED <<stageName, final, public, parentOK, created, owned, late, reply, bound>>
            \/ Broken
       ELSE Refused

StageRefused == pc = "stage" /\ batch.api = "batch" /\ Refused

\* Write and WriteIncompleteReport: they stage and commit without the batch
\* checks.
WriteBundle(files) ==
  /\ pc = "stage" /\ ~batch.open /\ batch.api = "batch"
  /\ \/ /\ \A n \in files : stage[n] = "none"
        /\ Works /\ Go("commit") /\ stage' = [n \in Names |-> IF n \in files THEN "good" ELSE stage[n]]
        /\ batch' = [open |-> FALSE, files |-> files, api |-> "write"]
        /\ UNCHANGED <<stageName, final, public, parentOK, created, owned, late, reply, bound>>
     \/ (\E n \in files : stage[n] # "none") /\ Refused
     \/ Broken

ValidateRunProfile(files) ==
  IF DecisionReport \in files
    THEN files \in {DecisionRun, DecisionRun \cup {DemoBoundary}}
    ELSE Marked \cap files # {} => files = Workflow

ValidateStagedBatch ==
  /\ Present(stage) = batch.files \/ stageName = "other"
  /\ \A n \in batch.files : stage[n] = "good"

Commit ==
  /\ pc = "stage" /\ batch.open
  /\ IF /\ Cardinality(batch.files) >= MinRunArtifacts
        /\ ValidateRunProfile(batch.files)
        /\ ValidateStagedBatch
       THEN Works /\ Go("commit") /\ Nowhere /\ UNCHANGED <<batch, created, owned, late>>
       ELSE Refused

StageBindingMatches == stageName = "ours"

CommitStage ==
  /\ pc = "commit"
  /\ \/ StageBindingMatches /\ Works /\ Go("reserve") /\ Nowhere /\ UNCHANGED <<batch, created, owned, late>>
     \/ ~StageBindingMatches /\ Refused
     \/ Broken

\* A name that was reserved and cannot be opened is left as it is: bare.
Reserve ==
  /\ pc = "reserve"
  /\ \/ /\ parentOK /\ final = "none" /\ Works /\ Go("copy") /\ final' = "ours"
        /\ UNCHANGED <<stage, stageName, public, parentOK, batch, created, owned, late, reply, bound>>
     \/ ~(parentOK /\ final = "none") /\ Refused
     \/ Broken
     \/ parentOK /\ final = "none" /\ Fails /\ final' = "bare" /\ AbortWithError

-----------------------------------------------------------------------------
(* Copying.  The next file in order is read back from the stage, created    *)
(* exclusively, written, synced and read again.  A file that was created    *)
(* but not finished is not among the recorded ones.                         *)
Uncopied == batch.files \ created

CopyPublishedArtifact ==
  /\ pc = "copy" /\ Uncopied # {}
  /\ UNCHANGED <<stage, stageName, final, parentOK, batch, owned, late, reply, bound>>
  /\ LET n == CHOOSE m \in Uncopied : \A k \in Uncopied : m <= k IN
     \/ /\ stage[n] = "good" /\ public[n] = "none" /\ Works /\ Go("copy")
        /\ public' = [public EXCEPT ![n] = "good"] /\ created' = created \cup {n}
     \/ /\ stage[n] # "good" \/ public[n] # "none"
        /\ Works /\ Go("clean") /\ UNCHANGED <<public, created>>
     \/ /\ stage[n] = "good" /\ public[n] = "none" /\ Fails /\ Go("clean")
        /\ public' \in {public, [public EXCEPT ![n] = "part"]} /\ UNCHANGED created

\* A verification that compares the names and not the bytes.
PublishedNamesOnly == Present(public) = batch.files

ValidatePublishedArtifacts ==
  /\ Present(public) = batch.files
  /\ \A n \in batch.files : public[n] = "good"

Verify ==
  /\ pc = "copy" /\ Uncopied = {} /\ Nowhere /\ UNCHANGED <<batch, created, owned, late>>
  /\ \/ /\ Works
        /\ Go(IF ValidatePublishedArtifacts /\ parentOK /\ final = "ours" THEN "close" ELSE "clean")
     \/ Fails /\ Go("clean")

\* A failed close leaves the finished directory where it is.
CloseFinal ==
  /\ pc = "close"
  /\ \/ Works /\ Go("finish") /\ Nowhere /\ UNCHANGED <<batch, created, owned, late>>
     \/ Broken

\* cleanupPublishedDirectory looks at each recorded file and unlinks the ones
\* that are still ours by name; it removes the public name only if the
\* directory is empty and ours.
\* A cleanup that trusts its record and not the inodes.
CheckNothing ==
  /\ pc = "clean" /\ Works /\ Go("unlink") /\ Nowhere /\ UNCHANGED <<batch, created, late>>
  /\ owned' = created

CheckOwned ==
  /\ pc = "clean" /\ Works /\ Go("unlink") /\ Nowhere /\ UNCHANGED <<batch, created, late>>
  /\ owned' = {n \in created : public[n] = "good"}

RemoveOwned == [n \in Names |-> IF n \in owned THEN "none" ELSE public[n]]

CleanupPublishedDirectory ==
  /\ pc = "unlink" /\ UNCHANGED <<stage, stageName, parentOK, batch, created, owned, late, reply, bound>>
  /\ Go("aborting")
  /\ \/ /\ Works /\ public' = RemoveOwned
        /\ final' = IF final = "ours" /\ Present(RemoveOwned) = {} THEN "none" ELSE final
     \/ Fails /\ public' \in {public, RemoveOwned} /\ UNCHANGED final

AbortCommit == pc = "aborting" /\ Refused

\* The run is visible; from here on an error only says that the stage could
\* not be cleaned up or the parent not synced.
FinishCommit ==
  /\ pc = "finish" /\ Works /\ Go("empty") /\ reply' = "ok"
  /\ UNCHANGED <<stage, stageName, final, public, parentOK, batch, created, owned, late, bound>>

Abort == pc = "stage" /\ Works /\ AbortBatch("aborted") /\ UNCHANGED final

RunSteps ==
  \/ PrepareOutputRoot \/ BeginBatch \/ (\E n \in Artifacts : Stage(n)) \/ (\E r \in Reports : WriteBundle(r))
  \/ StageRefused \/ Abort \/ Commit
  \/ CommitStage \/ Reserve \/ CopyPublishedArtifact \/ Verify \/ CloseFinal
  \/ CheckOwned \/ CleanupPublishedDirectory \/ AbortCommit \/ FinishCommit
  \/ EmptyStage \/ RemoveStage \/ CloseRoot
  \/ Disturb

-----------------------------------------------------------------------------
\* The public directory holds a run that Commit or Write may publish.
Complete ==
  /\ Present(public) = created /\ \A n \in created : public[n] = "good"
  /\ IF batch.api = "write"
       THEN created \in Reports
       ELSE Cardinality(created) >= MinRunArtifacts /\ ValidateRunProfile(created)
=============================================================================
