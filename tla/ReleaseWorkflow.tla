-------------------------- MODULE ReleaseWorkflow ---------------------------
(***************************************************************************)
(* The release commands binary, source, finalize, verify and sign, in any  *)
(* order and any number of times on one output directory, with failures    *)
(* and kills in between, and with a checkout that may move at any moment.  *)
(* A file content is what it was derived from: builds are reproducible.    *)
(***************************************************************************)
EXTENDS Writer, Sequences, FiniteSets

CONSTANTS Targets,    \* the platforms of the binary archives
          Revisions,  \* the commits
          Epoch,      \* their commit times
          Legal       \* the licence texts of a commit

\* No archive has the name of another asset or of a command.
ASSUME ReleaseAssumption ==
  Targets \cap {"source", "manifest", "revision", "tree", "legal", "sbom", "sums", "statement", "envelope",
                "temp", "none", "test", "finalize", "verify", "sign"} = {}

VARIABLES head,   \* the commit that is checked out
          work,   \* the commit the working tree is equal to, or "edited"
          out,    \* the output directory: name -> content
          cmd,    \* the running command; a target stands for binary
          rev,    \* the revision the command read
          got,    \* the tree the command staged
          snap,   \* what the command read to write it later
          moved   \* whether the checkout moved since the command began

releaseVars == <<head, work, out, cmd, rev, got, snap, moved>>

Absent == <<>>
Partial == <<"partial", "partial", "partial">>

Archives == Targets \cup {"source"}
\* releaseAssets; signedCoveredAssets adds the sums
ReleaseAssets == Archives \cup {"manifest", "revision", "tree", "legal", "sbom"}
SignedCoveredAssets == ReleaseAssets \cup {"sums"}
Entries == SignedCoveredAssets \cup {"statement", "envelope", "temp"}

ReleaseInit ==
  /\ head \in Revisions /\ work = head /\ out = [a \in Entries |-> Absent]
  /\ cmd = "none" /\ rev = head /\ got = head /\ snap = <<>> /\ moved = FALSE

\* Another commit is checked out, or the tree is edited.
Move ==
  /\ edits < MaxEdits /\ edits' = edits + 1 /\ UNCHANGED <<pc, result, faults>>
  /\ UNCHANGED <<out, cmd, rev, got, snap>> /\ moved' = (cmd # "none")
  /\ \/ \E r \in Revisions : head' = r /\ work' = r /\ <<r, r>> # <<head, work>>
     \/ UNCHANGED head /\ work' = "edited" /\ work # "edited"

-----------------------------------------------------------------------------
(* Steps that several commands share.                                       *)

Done(r) == pc' = "idle" /\ result' = r /\ cmd' = "none" /\ moved' = FALSE /\ UNCHANGED edits
           /\ UNCHANGED <<head, work, rev, got, snap>>
Stop == Works /\ Done("err") /\ UNCHANGED out
Failure == Fails /\ Done("err") /\ UNCHANGED out
Proceed(next) == Works /\ Go(next) /\ UNCHANGED <<head, work, cmd, moved>>
Holds(a) == out[a] # Absent

\* checkout: a clean tree at an exact commit
Checkout == work = head

\* preflight: the archive must be new. preflightExact: nothing but the release
\* assets, all there but the ones to be generated, and no sums yet.
Preflight(c) ==
  CASE c \in Archives -> ~Holds(c)
    [] c = "finalize" -> /\ \A a \in ReleaseAssets \ {"legal", "sbom"} : Holds(a)
                         /\ \A a \in Entries \ ReleaseAssets : ~Holds(a)
    [] OTHER -> TRUE

FirstStep(c) == CASE c \in Archives \cup {"test"} -> "generate" [] c = "finalize" -> "gather" [] OTHER -> "names"

Begin(c) ==
  /\ pc = "idle" /\ Checkout /\ Preflight(c) /\ Works /\ Go(FirstStep(c))
  /\ cmd' = c /\ rev' = head /\ moved' = FALSE /\ UNCHANGED <<head, work, out, got, snap>>

\* stage: the manifest of the tree, then the tree, which must still match it
Staging ==
  \/ /\ pc \in {"generate", "regenerate"} /\ UNCHANGED <<out, rev, snap>>
     /\ got' = work /\ Proceed(IF pc = "generate" THEN "stage" ELSE "restage")
  \/ /\ pc \in {"stage", "restage"}
     /\ IF work # got THEN Stop
        ELSE /\ Proceed(CASE pc = "restage" -> "artifacts" [] cmd = "source" -> "create"
                          [] cmd \in Targets \cup {"test"} -> "build" [] OTHER -> "compare")
             /\ UNCHANGED <<out, rev, got, snap>>

\* binary builds the package and asks the built program for its identity and
\* its demonstration; test runs the tests of the staged tree.
Build ==
  /\ pc = "build"
  /\ \/ cmd = "test" /\ Works /\ Done("ok") /\ UNCHANGED out
     \/ cmd # "test" /\ Proceed("create") /\ UNCHANGED <<out, rev, got, snap>>
     \/ Failure

\* create: an exclusive file whose failure is undone. With one command at a
\* time the name is still free, as the preflight saw it.
Asset == IF cmd \in Archives THEN cmd ELSE "sums"
Product == IF cmd \in Targets THEN <<rev, got>> ELSE IF cmd = "source" THEN <<got>> ELSE snap
Create ==
  \/ /\ pc = "create" /\ ~Holds(Asset) /\ UNCHANGED <<rev, got, snap>>
     /\ out' = [out EXCEPT ![Asset] = Partial] /\ Proceed("fill")
  \/ /\ pc = "fill"
     /\ \/ /\ out' = [out EXCEPT ![Asset] = Product] /\ UNCHANGED <<rev, got, snap>>
           /\ Proceed("sync")
        \/ Fails /\ Done("err") /\ out' = [out EXCEPT ![Asset] = Absent]
  \/ /\ pc = "sync"
     /\ \/ cmd = "source" /\ Proceed("manifest") /\ UNCHANGED <<out, rev, got, snap>>
        \/ cmd # "source" /\ Works /\ Done("ok") /\ UNCHANGED out
        \/ Fails /\ Done("err") /\ out' = [out EXCEPT ![Asset] = Absent]

\* replace: through a temporary; a failed sync leaves the new file
ReplaceAsset(a, content, next) ==
  \/ /\ out' = [out EXCEPT ![a] = content] /\ UNCHANGED <<rev, got, snap>> /\ Proceed(next)
  \/ Failure
  \/ Fails /\ Done("err") /\ out' = [out EXCEPT ![a] = content]

-----------------------------------------------------------------------------
(* source and finalize after their first file.                              *)

SourceAssets ==
  \/ pc = "manifest" /\ ReplaceAsset("manifest", <<got>>, "revision")
  \/ pc = "revision" /\ ReplaceAsset("revision", <<rev>>, "tree")
  \/ pc = "tree" /\ ReplaceAsset("tree", <<got>>, "bound")
  \/ pc = "bound" /\ Works /\ Done("ok") /\ UNCHANGED out

\* WriteSBOM: the revision, the shipping policy and the archives as they are
WriteSBOM(r, policy) == <<r, policy>> \o <<[a \in Archives |-> out[a]]>> \o <<"sbom">>

\* finalize reads the legal texts and the archives, writes the generated
\* assets, then the sums of everything, last.
Finalize ==
  \/ /\ pc = "gather" /\ snap' = <<<<Legal[work]>>, WriteSBOM(rev, work)>>
     /\ Proceed("legal") /\ UNCHANGED <<out, rev, got>>
  \/ pc = "legal" /\ ReplaceAsset("legal", snap[1], "sbom")
  \/ pc = "sbom" /\ ReplaceAsset("sbom", snap[2], "digest")
  \/ /\ pc = "digest" /\ snap' = <<[a \in ReleaseAssets |-> out[a]]>>
     /\ Proceed("create") /\ UNCHANGED <<out, rev, got>>

-----------------------------------------------------------------------------
(* verify and sign.                                                         *)

\* The exact set of names, signed or not, and the revision asset.
ExactNames == /\ \A a \in SignedCoveredAssets : Holds(a)
         /\ ~Holds("temp") /\ out["revision"] = <<rev>>

\* VerifyArchive: a well formed package whose members carry the commit time
\* and the legal texts of the checkout. What was built is not looked at.
VerifyArchive(content) ==
  /\ content # Partial /\ Epoch[content[1]] = Epoch[rev] /\ Legal[content[2]] = Legal[work]

VerifySums == out["sums"] # Partial /\ out["sums"] = <<[a \in ReleaseAssets |-> out[a]]>>

\* A verify that trusts the sums for everything but the source.
SumsOnly(tree) == out["tree"] = <<tree>> /\ out["manifest"] = <<tree>> /\ out["source"] = <<tree>>

\* Source assets against the staged tree, the SBOM against the archives, the
\* archives, the sums.
DerivesFrom(tree) ==
  /\ out["tree"] = <<tree>> /\ out["manifest"] = <<tree>>
  /\ out["source"] # Partial /\ out["source"] = <<tree>>
  /\ out["sbom"] = WriteSBOM(rev, work)
  /\ \A t \in Targets : VerifyArchive(out[t])

Matches == DerivesFrom(got) /\ VerifySums

VerifyRelease ==
  \/ /\ pc = "names"
     /\ IF ExactNames THEN Proceed("generate") /\ UNCHANGED <<out, rev, got, snap>> ELSE Stop
  \/ /\ pc = "compare"
     /\ IF ~Matches THEN Stop
        ELSE \/ cmd = "verify" /\ Works /\ Done("ok") /\ UNCHANGED out
             \/ cmd = "sign" /\ Proceed("identity") /\ UNCHANGED <<out, rev, got, snap>>

\* releaseIdentity: the checkout is read once more.
ReleaseIdentity ==
  /\ pc = "identity"
  /\ IF Checkout THEN rev' = head /\ Proceed("regenerate") /\ UNCHANGED <<out, got, snap>> ELSE Stop

\* DirectoryArtifacts, BuildStatement and Sign: the statement binds every
\* covered asset and what the checkout said.
SignStatement ==
  /\ pc = "artifacts"
  /\ \/ /\ \A a \in SignedCoveredAssets : Holds(a)
        /\ snap' = <<rev, got, [a \in SignedCoveredAssets |-> out[a]], ~moved>>
        /\ Proceed("statement") /\ UNCHANGED <<out, rev, got>>
     \/ Failure

\* writeNewRelease: an exclusive file that a failure leaves as it is
WriteNewRelease(step, fill, a, content, next) ==
  \/ /\ pc = step /\ ~Holds(a) /\ UNCHANGED <<rev, got, snap>>
     /\ out' = [out EXCEPT ![a] = Partial] /\ Proceed(fill)
  \/ /\ pc = fill
     /\ \/ /\ out' = [out EXCEPT ![a] = content] /\ Proceed(next)
           /\ UNCHANGED <<rev, got, snap>>
        \/ Failure

\* VerifyDirectory: the envelope covers the statement, the statement covers
\* the files, and there is no other entry.
VerifyDirectory ==
  /\ Holds("statement") /\ Holds("envelope") /\ ~Holds("temp")
  /\ out["statement"] # Partial /\ out["envelope"] = <<out["statement"]>>
  /\ out["statement"][3] = [a \in SignedCoveredAssets |-> out[a]]

SignRelease ==
  \/ ReleaseIdentity \/ SignStatement
  \/ pc = "statement" /\ Holds("statement") /\ Stop
  \/ WriteNewRelease("statement", "statementFill", "statement", snap, "envelope")
  \/ WriteNewRelease("envelope", "envelopeFill", "envelope", <<snap>>, "confirm")
  \/ pc = "confirm" /\ Works /\ Done(IF VerifyDirectory THEN "ok" ELSE "err") /\ UNCHANGED out

\* A kill leaves what is on disk; a replace may leave its temporary.
KillCommand ==
  /\ pc # "idle" /\ pc' = "idle" /\ cmd' = "none" /\ moved' = FALSE
  /\ UNCHANGED <<result, faults, edits, head, work, rev, got, snap>>
  /\ out' \in {out} \cup (IF pc \in {"manifest", "revision", "tree", "legal", "sbom"}
                          THEN {[out EXCEPT !["temp"] = Partial]} ELSE {})

ReleaseSteps ==
  \/ \E c \in Archives \cup {"test", "finalize", "verify", "sign"} : Begin(c)
  \/ Staging \/ Build \/ Create \/ SourceAssets \/ Finalize \/ VerifyRelease \/ SignRelease
  \/ KillCommand \/ Move
=============================================================================
