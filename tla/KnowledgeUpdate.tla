-------------------------- MODULE KnowledgeUpdate ---------------------------
(***************************************************************************)
(* prufyx db update: reserve a new file, fetch one package into it, make   *)
(* it durable, import it by its path, and report. Other than a process     *)
(* kill, a power loss may undo what was not synced.                        *)
(***************************************************************************)
EXTENDS Writer, Sequences

VARIABLES request,   \* what the operator asked for
          download,  \* what the output name holds
          known,     \* whether the identity of the created file was read
          answer,    \* what the fetch returned
          store,     \* what the import did to the knowledge store
          report     \* the flags of the report

updateVars == <<request, download, known, answer, store, report>>

-----------------------------------------------------------------------------
(* The release plan: routing and assertions, no authority.                  *)

GoodPlan == [raw |-> "canonical", profile |-> "cncf", mode |-> "single", url |-> "https",
             target |-> "constraints", purpose |-> "operator", initial |-> 1,
             history |-> <<[version |-> 1, digest |-> 1]>>, root |-> [version |-> 1, digest |-> 1],
             lowest |-> 1, expires |-> "utc", revision |-> "good", bundle |-> "good", digest |-> "this"]

Plans ==
  LET Entry(v, d) == [version |-> v, digest |-> d]
  IN  {GoodPlan} \cup {[GoodPlan EXCEPT !.raw = r] : r \in {"reordered", "nested", "empty", "irregular"}}
      \cup {[GoodPlan EXCEPT !.profile = "cert-manager"], [GoodPlan EXCEPT !.mode = "rotated"],
            [GoodPlan EXCEPT !.url = "http"], [GoodPlan EXCEPT !.target = "bundle"],
            [GoodPlan EXCEPT !.purpose = "synthetic"], [GoodPlan EXCEPT !.initial = 2],
            [GoodPlan EXCEPT !.lowest = 0], [GoodPlan EXCEPT !.expires = "local"],
            [GoodPlan EXCEPT !.revision = "none"], [GoodPlan EXCEPT !.bundle = "bad"],
            [GoodPlan EXCEPT !.digest = "none"], [GoodPlan EXCEPT !.digest = "another"]}
      \cup {[GoodPlan EXCEPT !.history = h] :
              h \in {<<>>, <<Entry(1, 1), Entry(2, 2)>>, <<Entry(2, 1)>>, <<Entry(1, 2)>>}}

\* ValidateSource: one absolute https address without a query
ValidateSource(url) == url = "https"

\* Assertions beside a verification must be complete; each one is well formed.
ValidateImportAssertions(verification, revision, bundle, digest, bootstrap) ==
  /\ verification => digest # "none" /\ revision # "none" /\ bundle # "none"
  /\ revision # "bad" /\ bundle # "bad" /\ digest # "bad"
  /\ bootstrap \in {"none", "matching"}

\* validate: a single root that the history, the root role and the initial
\* digest all name.
ValidatePlan(p) ==
  /\ p.profile = "cncf" /\ p.mode = "single" /\ ValidateSource(p.url)
  /\ p.target = "constraints" /\ p.purpose = "operator" /\ Len(p.history) = 1
  /\ p.history[1].digest = p.initial /\ p.history[1] = p.root
  /\ p.lowest >= 1 /\ p.expires = "utc"
  /\ ValidateImportAssertions(TRUE, p.revision, p.bundle, p.digest, "none")

\* validateJSON and consume: one value, no repeated key, of bounded depth and size
ValidateJSON(raw) == raw \notin {"empty", "nested"}

\* Read and Parse: a regular file that is exactly the encoding of its content
ReadPlan(p) == /\ p.raw # "irregular" /\ ValidateJSON(p.raw)
               /\ p.raw # "reordered" /\ ValidatePlan(p)

-----------------------------------------------------------------------------
(* The request and where its package goes.                                  *)

\* An output path as its spelling and as the file system see it against the
\* store, and its directory.
GoodPlace == [spelled |-> "outside", physical |-> "outside", store |-> "dir", private |-> TRUE]
Places == {GoodPlace, [GoodPlace EXCEPT !.spelled = "inside"], [GoodPlace EXCEPT !.physical = "inside"],
           [GoodPlace EXCEPT !.store = "file"], [GoodPlace EXCEPT !.private = FALSE],
           [GoodPlace EXCEPT !.store = "absent"],
           [GoodPlace EXCEPT !.store = "absent", !.physical = "same"]}

\* reserveKnowledgeDownload: what it can see before the file exists
ReserveKnowledgeDownload(p) ==
  /\ p.spelled = "outside" /\ p.store # "file"
  /\ p.store = "dir" => p.physical = "outside"
  /\ p.private

Source == [args |-> "good", from |-> "source", url |-> "https", profile |-> "cncf", revision |-> "none",
           bundle |-> "none", bootstrap |-> "none", plan |-> GoodPlan, place |-> GoodPlace]
Planned == [Source EXCEPT !.from = "plan"]
Requests ==
  {Source, Planned, [Source EXCEPT !.args = "bad"], [Source EXCEPT !.url = "http"],
   [Source EXCEPT !.profile = "other"], [Source EXCEPT !.revision = "bad"],
   [Source EXCEPT !.bundle = "bad"], [Source EXCEPT !.bootstrap = "mismatched"],
   [Source EXCEPT !.bootstrap = "matching"], [Source EXCEPT !.from = "both"]}
  \cup {[Planned EXCEPT !.plan = p] : p \in Plans}
  \cup {[Source EXCEPT !.place = p] : p \in Places}

\* The arguments, the plan and the assertions it fills in, before anything is
\* written.
Admitted(r) ==
  /\ r.args = "good" /\ r.from # "both"
  /\ r.from = "source" => /\ ValidateSource(r.url) /\ r.profile # "other"
                          /\ ValidateImportAssertions(FALSE, r.revision, r.bundle, "none", r.bootstrap)
  /\ r.from = "plan" => ReadPlan(r.plan) /\ r.bootstrap # "mismatched"

\* The digest the import is told to expect: the plan's, or the downloaded one.
ExpectedPackageDigest(r) == IF r.from = "plan" THEN r.plan.digest ELSE "this"

UpdateInit ==
  /\ request \in Requests /\ download \in {"none", "other"} /\ known = FALSE
  /\ answer = "none" /\ store = "before" /\ report = {}

-----------------------------------------------------------------------------
(* The command.                                                             *)

Report(flags) == report' = report \cup flags

ReserveOutput ==
  /\ pc = "request" /\ Works /\ UNCHANGED <<request, known, answer, store, report>>
  /\ IF Admitted(request) /\ ReserveKnowledgeDownload(request.place) /\ download = "none"
     THEN download' = "empty" /\ Go("identify")
     ELSE UNCHANGED download /\ Return("usage")

\* Stat and chmod of the new file; without an identity nothing can be removed
\* later.
Identify ==
  /\ pc = "identify" /\ UNCHANGED <<request, download, answer, store, report>>
  /\ \/ Works /\ known' = TRUE /\ Go("alias")
     \/ Fails /\ known' \in BOOLEAN /\ Go("finish")

\* The created file is the store path itself on some file systems.
Alias ==
  /\ pc = "alias" /\ Works /\ UNCHANGED <<request, download, known, answer, store, report>>
  /\ Go(IF request.place.physical = "same" THEN "finish" ELSE "fetch")

\* fetchWithClient: one answer of status 200, not encoded, within the bound
\* and before the deadline.
Responses == {"body", "status", "encoded", "long", "endless", "cut", "late"}
FetchWithClient(response) ==
  CASE response = "body" -> "package" [] response \in {"long", "endless"} -> "oversized"
    [] OTHER -> "transfer"

Fetch ==
  /\ pc = "fetch" /\ Works /\ UNCHANGED <<request, download, known, store>>
  /\ \E response \in Responses : answer' = FetchWithClient(response)
  /\ Report({"network"} \cup (IF answer' = "package" THEN {"transfer"} ELSE {}))
  /\ Go(IF answer' = "package" THEN "write" ELSE "finish")

\* A write through the descriptor reaches the file only while it has its name.
Ours == download \notin {"none", "other"}
Store(content) == download' \in IF Ours THEN {content} \cup ({download} \cap {"altered"}) ELSE {download}

WritePackage ==
  /\ pc = "write" /\ UNCHANGED <<request, known, answer, store, report>>
  /\ \/ Works /\ Store("whole") /\ Go("sync")
     \/ Fails /\ Store("part") /\ Go("finish")

\* A package that is not synced.
SyncSkipped == pc = "sync" /\ UNCHANGED updateVars /\ Works /\ Go("syncDir")

SyncPackage ==
  /\ pc = "sync" /\ UNCHANGED <<request, known, answer, store, report>>
  /\ \/ Works /\ Store(IF download = "whole" THEN "synced" ELSE download) /\ Go("syncDir")
     \/ Fails /\ UNCHANGED download /\ Go("finish")

SyncDirectory ==
  /\ pc = "syncDir" /\ UNCHANGED <<request, known, answer, store>>
  /\ \/ Works /\ Store(IF download = "synced" THEN "durable" ELSE download)
        /\ Report({"retained"}) /\ Go("match")
     \/ Fails /\ UNCHANGED <<download, report>> /\ Go("finish")

\* retainedKnowledgeDownloadMatches: the same private file, these bytes
Exact == {"whole", "synced", "durable"}
RetainedKnowledgeDownloadMatches == known /\ download \in Exact

Match ==
  /\ pc = "match" /\ Works /\ UNCHANGED updateVars
  /\ Go(IF RetainedKnowledgeDownloadMatches THEN "import" ELSE "finish")

\* The import, a transaction of the knowledge store: it reads the file by its
\* path and refuses another digest; it may refuse the package before or after
\* the new trust state is durable, or end undecided.
ImportPackage ==
  \/ /\ pc = "import" /\ Works /\ UNCHANGED <<request, download, known, answer, report>>
     /\ \/ /\ download \in Exact /\ ExpectedPackageDigest(request) = "this"
           /\ store' = "trust" /\ Go("select")
        \/ UNCHANGED store /\ Go("finish")
  \/ /\ pc = "select" /\ Works /\ UNCHANGED <<request, download, known, answer, report>>
     /\ \/ store' = "selected" /\ Go("imported")
        \/ UNCHANGED store /\ Go("finish")

\* finish, package not retained: the file is removed if it is still the one
\* that was created, in two system calls.
FinishPartial ==
  \/ /\ pc = "finish" /\ "retained" \notin report /\ UNCHANGED <<request, download, known, answer, store>>
     /\ \/ /\ Works /\ download # "none" /\ (download = "other" \/ ~known)
           /\ Report({"cleanup"}) /\ Return("integrity")
        \/ Works /\ download # "none" /\ download # "other" /\ known /\ UNCHANGED report /\ Go("remove")
        \/ Works /\ download = "none" /\ UNCHANGED report /\ Return("failed")
        \/ Fails /\ Report({"cleanup"}) /\ Return("integrity")
  \/ /\ pc = "remove" /\ UNCHANGED <<request, known, answer, store>>
     /\ \/ Works /\ download' = "none" /\ UNCHANGED report /\ Return("failed")
        \/ Fails /\ UNCHANGED download /\ Report({"cleanup"}) /\ Return("integrity")

\* finish, package retained: the file is checked once more, then the report
\* is written.
FinishRetained ==
  /\ pc \in {"finish", "imported"} /\ "retained" \in report
  /\ UNCHANGED <<request, download, known, answer, store>>
  /\ report' = IF RetainedKnowledgeDownloadMatches THEN report ELSE report \ {"retained"}
  /\ \/ Works /\ Return(IF pc = "imported" /\ RetainedKnowledgeDownloadMatches THEN "ok" ELSE "failed")
     \/ Fails /\ Return("failed")

\* databaseUpdateWithFetch
DatabaseUpdate == ReserveOutput \/ Identify \/ Alias \/ Fetch \/ WritePackage \/ SyncPackage
                  \/ SyncDirectory \/ Match \/ ImportPackage \/ FinishPartial \/ FinishRetained

\* Another process replaces, removes or rewrites the file.
Tamper ==
  /\ Edit /\ UNCHANGED <<request, known, answer, store, report>>
  /\ \/ download' \in {"none", "other"} /\ download' # download
     \/ Ours /\ download' = "altered"

\* What was not synced may be lost, all of it or in part.
PowerLoss ==
  /\ pc # "dead" /\ pc' = "dead" /\ UNCHANGED <<result, faults, edits>>
  /\ UNCHANGED <<request, known, answer, store, report>>
  /\ download' \in CASE download = "whole" -> {"none", "empty", "part", "whole"}
                     [] download \in {"empty", "part", "synced"} -> {"none", download}
                     [] OTHER -> {download}

UpdateSteps == DatabaseUpdate \/ Tamper \/ PowerLoss
=============================================================================
