---------------------------- MODULE CommandProofs ---------------------------
(***************************************************************************)
(* What the release gate, the release commands and the observation import  *)
(* keep true from one step to the next, for any number of failures and of  *)
(* changes of the files they read. OutputsProofs draws the theorems from   *)
(* it.                                                                     *)
(***************************************************************************)
EXTENDS ReleaseGate, ReleaseWorkflow, ObservationImport, FiniteSetTheorems, WellFoundedInduction, TLAPS

-----------------------------------------------------------------------------
(* The staged source *)

\* StagedAsBound, of the gate alone.
BoundStage ==
  staged # Nothing => /\ staged = manifest.files /\ staged["test"] # "none"
                      /\ SchemaV2(manifest.policy) => /\ staged["policy"] = manifest.policy
                                                     /\ Vendored(staged["policy"], staged["vendor"], staged["sums"])

GateHeld == Contents \cup {PolicyV1, "none"}

\* The captured bytes have a test and, under the second schema, the validated
\* policy with what it names.
BoundBlobs == /\ blobs["test"] # "none"
              /\ SchemaV2(policy) => /\ blobs["policy"] = policy
                                     /\ Vendored(blobs["policy"], blobs["vendor"], blobs["sums"])

\* A test file that is there when the files are listed can be rewritten and
\* not removed, so that it is read or still to be read.
GateAt ==
  /\ source \in [Files -> GateHeld] /\ blobs \in [Files -> GateHeld] /\ unread \subseteq Files
  /\ pc = "read" => source["test"] # "none" /\ ("test" \in unread \/ blobs["test"] # "none")
  /\ pc = "captured" => blobs["test"] # "none"
  /\ pc \in {"manifest", "stage"} => BoundBlobs
  /\ pc = "stage" => manifest = Derivation
  /\ pc \notin {"native", "done", "dead"} => staged = Nothing
  /\ BoundStage

\* Every step of the gate keeps it.
LEMMA GateStep ==
  ASSUME GateAt, GateSteps
  PROVE  GateAt'
<1>1. CASE ValidatePolicy \/ ValidateV2 \/ ValidateVendorTree
  <2>1. /\ pc \in {"policy", "modules", "vendorTree"} /\ pc' \in {"modules", "vendorTree", "collect", "done"}
        /\ UNCHANGED <<source, blobs, unread, manifest, staged>>
    BY <1>1, Zenon DEF ValidatePolicy, ValidateV2, ValidateVendorTree, Derived, Rejected, Go, Return, gateVars
  <2> QED
    BY <2>1 DEF GateAt, BoundStage
<1>2. CASE Collect
  <2>1. /\ pc = "collect" /\ UNCHANGED <<source, manifest, staged>>
        /\ unread' = {f \in Files : source[f] # "none"} /\ blobs' = Nothing
        /\ pc' = "done" \/ (pc' = "read" /\ source["test"] # "none")
    BY <1>2, Zenon DEF Collect, Derived, Rejected, Go, Return
  <2>2. Nothing \in [Files -> GateHeld] /\ "test" \in Files
    BY DEF Nothing, GateHeld, Files
  <2>3. pc' = "read" => "test" \in unread'
    BY <2>1, <2>2, Zenon
  <2> QED
    BY <2>1, <2>2, <2>3 DEF GateAt, BoundStage
<1>3. CASE StableRead
  <2>1. pc = "read" /\ UNCHANGED <<source, manifest, staged>>
    BY <1>3, Zenon DEF StableRead
  <2>2. CASE pc' = "done" /\ UNCHANGED <<unread, blobs>>
    BY <2>1, <2>2 DEF GateAt, BoundStage
  <2>3. ASSUME NEW f \in unread, blobs' = [blobs EXCEPT ![f] = source[f]], unread' = unread \ {f},
               pc' = (IF unread = {f} THEN "captured" ELSE "read")
        PROVE  GateAt'
    <3>1. blobs' \in [Files -> GateHeld]
      BY <2>3 DEF GateAt
    <3>2. "test" \in unread' \/ blobs'["test"] # "none"
      BY <2>1, <2>3 DEF GateAt, Files
    <3>3. pc' = "captured" => unread' = {}
      BY <2>3
    <3> QED
      BY <2>1, <2>3, <3>1, <3>2, <3>3 DEF GateAt, BoundStage
  <2> QED
    BY <1>3, <2>1, <2>2, <2>3 DEF StableRead, Derived, Go, Return
<1>4. CASE ValidateCapturedBindings
  <2>1. /\ pc = "captured" /\ UNCHANGED <<source, blobs, unread, manifest, staged>>
        /\ UNCHANGED policy
        /\ \/ pc' = "done"
           \/ /\ pc' = "manifest"
              /\ SchemaV2(policy) => /\ blobs["policy"] = policy
                                     /\ Vendored(blobs["policy"], blobs["vendor"], blobs["sums"])
    BY <1>4, Zenon DEF ValidateCapturedBindings, Derived, Rejected, Go, Return, gateVars
  <2> QED
    BY <2>1 DEF GateAt, BoundStage, BoundBlobs
<1>5. CASE Generate \/ StageSource \/ RunNativeChecks
  <2>1. /\ UNCHANGED <<source, blobs, unread, policy>>
        /\ \/ pc = "manifest" /\ pc' \in {"policy", "done"} /\ UNCHANGED staged
           \/ pc = "manifest" /\ pc' \in {"stage", "done"} /\ UNCHANGED <<staged, manifest>> /\ (pc' = "stage" => manifest = Derivation)
           \/ pc = "stage" /\ pc' = "native" /\ staged' = blobs /\ UNCHANGED manifest
           \/ pc \in {"stage", "native"} /\ pc' = "done" /\ UNCHANGED <<staged, manifest>>
           \/ pc = "native" /\ pc' = "done" /\ staged' = Nothing /\ UNCHANGED manifest
    BY <1>5, Zenon DEF Generate, StageSource, RunNativeChecks, Derived, Rejected, Go, Return, gateVars
  <2> QED
    BY <2>1 DEF GateAt, BoundStage, BoundBlobs, Derivation, SchemaV2
<1>6. CASE EditSource
  <2>1. /\ UNCHANGED <<pc, policy, blobs, unread, manifest, staged>>
        /\ \E f \in Files, c \in Contents \cup {PolicyV1} : source' = [source EXCEPT ![f] = c]
    BY <1>6, Zenon DEF EditSource
  <2>2. /\ source' \in [Files -> GateHeld]
        /\ source["test"] # "none" => source'["test"] # "none"
    BY <2>1 DEF GateAt, GateHeld, Contents, PolicyV1, Files
  <2> QED
    BY <2>1, <2>2 DEF GateAt, BoundStage, BoundBlobs, Derivation
<1> QED
  BY <1>1, <1>2, <1>3, <1>4, <1>5, <1>6, Zenon DEF GateSteps

\* It holds from the start.
LEMMA GateBegins ==
  ASSUME GateInit
  PROVE  staged = Nothing /\ (pc = "policy" => GateAt)
<1>1. /\ source \in {[f \in Files |-> "a"], [[f \in Files |-> "a"] EXCEPT !["vendor"] = "b"],
                     [[f \in Files |-> "a"] EXCEPT !["test"] = "none"], [[f \in Files |-> "a"] EXCEPT !["policy"] = PolicyV1]}
      /\ unread = {} /\ blobs = Nothing /\ staged = Nothing
  BY Zenon DEF GateInit
<1>2. source \in [Files -> GateHeld] /\ Nothing \in [Files -> GateHeld]
  BY <1>1 DEF Files, GateHeld, Contents, PolicyV1, Nothing
<1> QED
  BY <1>1, <1>2 DEF GateAt, BoundStage

\* A kill and a step of somebody else keep it too.
LEMMA GateKept ==
  ASSUME GateAt, GateSteps \/ (Kill /\ UNCHANGED gateVars) \/ UNCHANGED <<writerVars, gateVars>>
  PROVE  GateAt'
<1>1. CASE GateSteps
  BY <1>1, GateStep, Zenon
<1>2. CASE Kill /\ UNCHANGED gateVars
  BY <1>2 DEF GateAt, BoundStage, Kill, gateVars
<1>3. CASE UNCHANGED <<writerVars, gateVars>>
  BY <1>3 DEF GateAt, BoundStage, BoundBlobs, Derivation, writerVars, gateVars
<1> QED
  BY <1>1, <1>2, <1>3, Zenon

-----------------------------------------------------------------------------
(* The release commands *)

\* SumsMatch, of the release commands alone.
SumsRight == out["sums"] \notin {Absent, Partial} => VerifySums

OutDirectory == out = [a \in Entries |-> out[a]]

\* Which command is at which step.
Phases ==
  /\ pc = "idle" <=> cmd = "none"
  /\ pc \in {"generate", "stage"} => cmd \in Archives \cup {"test", "verify", "sign"}
  /\ pc = "build" => cmd \in Targets \cup {"test"}
  /\ pc \in {"create", "fill", "sync"} => cmd \in Archives \cup {"finalize"}
  /\ pc \in {"manifest", "revision", "tree", "bound"} => cmd = "source"
  /\ pc \in {"gather", "legal", "sbom", "digest"} => cmd = "finalize"
  /\ pc \in {"names", "compare"} => cmd \in {"verify", "sign"}
  /\ pc \in {"identity", "regenerate", "restage", "artifacts", "statement", "statementFill",
             "envelope", "envelopeFill", "confirm"} => cmd = "sign"

\* Sums are made of archives that are all there, by a command that runs alone.
ArchivesThere == \A a \in Archives : Holds(a)

SumOf(m) == <<[a \in ReleaseAssets |-> m[a]]>>

Summed ==
  /\ Holds("sums") \/ cmd = "finalize" => ArchivesThere
  /\ cmd \in Archives \/ pc \in {"gather", "legal", "sbom", "digest"} => ~Holds("sums")
  /\ pc \in {"create", "fill"} /\ cmd = "finalize" => snap = SumOf(out)
  /\ SumsRight

\* What a signed statement says of the files it covers.
Derives(r, m) ==
  /\ m["sums"] # Partial /\ m["sums"] = SumOf(m) /\ m["revision"] = <<r>>
  /\ \A a \in {"manifest", "tree", "source"} : m[a] = <<r>>
  /\ m["sbom"] = <<r, r>> \o <<[a \in Archives |-> m[a]]>> \o <<"sbom">>
  /\ \A t \in Targets : m[t] # Partial /\ Epoch[m[t][1]] = Epoch[r]

Attested(statement) == statement[4] => Derives(statement[1], statement[3])

Attests ==
  /\ moved \in BOOLEAN
  /\ pc # "idle" /\ ~moved => work = head /\ rev = head
  /\ pc \in {"stage", "compare", "restage", "artifacts"} /\ ~moved => got = head
  /\ pc \in {"generate", "stage", "compare"} /\ cmd \in {"verify", "sign"} /\ ~moved => out["revision"] = <<rev>>
  /\ pc \in {"identity", "regenerate", "restage", "artifacts"} /\ ~moved => Derives(rev, out)
  /\ pc \in {"statement", "statementFill", "envelope", "envelopeFill", "confirm"} => Attested(snap)
  /\ out["statement"] \notin {Absent, Partial} => Attested(out["statement"])

ReleaseHolds == OutDirectory /\ Phases /\ Summed /\ Attests

\* A command ends, or goes on with its next step.
Ended == pc' = "idle" /\ cmd' = "none" /\ moved' = FALSE /\ UNCHANGED <<head, work, rev, got, snap>>

Onward(next) == pc' = next /\ UNCHANGED <<head, work, cmd, moved>>

\* The names of the assets are different, and none of them is a command.
LEMMA AssetNames ==
  /\ "sums" \notin ReleaseAssets /\ "statement" \notin ReleaseAssets /\ "envelope" \notin ReleaseAssets
  /\ "temp" \notin ReleaseAssets
  /\ Archives \subseteq ReleaseAssets /\ ReleaseAssets \subseteq SignedCoveredAssets
  /\ SignedCoveredAssets \subseteq Entries /\ Targets \subseteq Archives /\ "source" \in Archives
  /\ {"manifest", "revision", "tree", "legal", "sbom"} \subseteq ReleaseAssets /\ "sums" \in SignedCoveredAssets
  /\ {"statement", "envelope", "temp", "sums"} \subseteq Entries
  /\ {"manifest", "revision", "tree", "legal", "sbom", "none", "test", "finalize", "verify", "sign"} \cap Archives = {}
  BY ReleaseAssumption DEF Archives, ReleaseAssets, SignedCoveredAssets, Entries

\* One file of the output directory is written.
LEMMA OneWritten ==
  ASSUME OutDirectory, NEW a \in Entries, NEW v, out' = [out EXCEPT ![a] = v]
  PROVE  OutDirectory' /\ out'[a] = v /\ \A b \in Entries : b # a => out'[b] = out[b]
<1>1. out' = [b \in Entries |-> IF b = a THEN v ELSE out[b]]
  BY DEF OutDirectory
<1> QED
  BY <1>1 DEF OutDirectory

\* What the statements say depends on the covered files alone.
LEMMA DerivesCovered ==
  ASSUME NEW r, NEW m, m = [a \in SignedCoveredAssets |-> out[a]]
  PROVE  Derives(r, m) <=> Derives(r, out)
<1>1. \A a \in SignedCoveredAssets : m[a] = out[a]
  OBVIOUS
<1>2. [a \in ReleaseAssets |-> m[a]] = [a \in ReleaseAssets |-> out[a]]
  BY <1>1, AssetNames
<1>3. [a \in Archives |-> m[a]] = [a \in Archives |-> out[a]]
  BY <1>1, AssetNames
<1>4. \A a \in {"sums", "revision", "manifest", "tree", "source", "sbom"} \cup Targets : m[a] = out[a]
  BY <1>1, AssetNames
<1>5. SumOf(m) = SumOf(out)
  BY <1>2, Zenon DEF SumOf
<1>6. m["sums"] = out["sums"] /\ m["revision"] = out["revision"] /\ m["sbom"] = out["sbom"]
  BY <1>4, Zenon
<1>7. (\A a \in {"manifest", "tree", "source"} : m[a] = <<r>>)
        <=> (\A a \in {"manifest", "tree", "source"} : out[a] = <<r>>)
  BY <1>4, Zenon
<1>8. (\A t \in Targets : m[t] # Partial /\ Epoch[m[t][1]] = Epoch[r])
        <=> (\A t \in Targets : out[t] # Partial /\ Epoch[out[t][1]] = Epoch[r])
  BY <1>4, Zenon
<1> QED
  BY <1>3, <1>5, <1>6, <1>7, <1>8, Zenon DEF Derives

\* A step that leaves the sums and the files they cover.
LEMMA SumsUntouched ==
  ASSUME Summed, \A b \in ReleaseAssets \cup {"sums"} : out'[b] = out[b],
         cmd' \in {cmd, "none"},
         pc' \in {"gather", "legal", "sbom", "digest"} => pc \in {"gather", "legal", "sbom", "digest"},
         pc' \in {"create", "fill"} /\ cmd' = "finalize" => snap' = snap /\ pc \in {"create", "fill"}
  PROVE  Summed'
<1>1. [b \in ReleaseAssets |-> out'[b]] = [b \in ReleaseAssets |-> out[b]]
  OBVIOUS
<1>2. SumOf(out') = SumOf(out) /\ out'["sums"] = out["sums"]
  BY <1>1, Zenon DEF SumOf
<1>3. ArchivesThere' <=> ArchivesThere
  BY AssetNames DEF ArchivesThere, Holds
<1>4. SumsRight'
  BY <1>2, Zenon DEF Summed, SumsRight, VerifySums, SumOf
<1> QED
  BY <1>2, <1>3, <1>4, AssetNames DEF Summed, Holds

\* A step without sums.
LEMMA WithoutSums ==
  ASSUME ~Holds("sums"), out'["sums"] = out["sums"], cmd' = "finalize" => ArchivesThere',
         ~(pc' \in {"create", "fill"} /\ cmd' = "finalize")
  PROVE  Summed'
  BY Zenon DEF Summed, Holds, SumsRight

\* A step of a command that signs nothing.
LEMMA AttestsAside ==
  ASSUME Attests, out'["statement"] = out["statement"], moved' \in BOOLEAN,
         pc' \notin {"stage", "compare", "restage", "artifacts", "identity", "regenerate", "statement",
                     "statementFill", "envelope", "envelopeFill", "confirm"},
         pc' = "generate" => cmd' \notin {"verify", "sign"},
         pc' # "idle" /\ ~moved' => work' = head' /\ rev' = head'
  PROVE  Attests'
<1>1. Attested(out["statement"])' <=> Attested(out["statement"])
  BY Zenon DEF Attested, Derives, SumOf
<1> QED
  BY <1>1, Zenon DEF Attests

\* A command ends and leaves the sums, what they cover and the statement.
LEMMA ReleaseEnded ==
  ASSUME ReleaseHolds, Ended, OutDirectory', \A b \in ReleaseAssets \cup {"sums", "statement"} : out'[b] = out[b]
  PROVE  ReleaseHolds'
<1>1. pc' = "idle" /\ cmd' = "none" /\ moved' = FALSE
  BY Zenon DEF Ended
<1>2. Phases'
  BY <1>1, AssetNames DEF Phases
<1>3. Summed'
  BY <1>1, SumsUntouched DEF ReleaseHolds
<1>4. Attests'
  BY <1>1, AttestsAside, Zenon DEF ReleaseHolds
<1> QED
  BY <1>2, <1>3, <1>4, Zenon DEF ReleaseHolds

\* The same when nothing was written.
LEMMA ReleaseStops ==
  ASSUME ReleaseHolds, Stop \/ Failure \/ (\E r : Works /\ Done(r) /\ UNCHANGED out)
  PROVE  ReleaseHolds'
<1>1. Ended /\ UNCHANGED out
  BY Zenon DEF Stop, Failure, Done, Ended
<1>2. OutDirectory'
  BY <1>1, Zenon DEF ReleaseHolds, OutDirectory
<1> QED
  BY <1>1, <1>2, ReleaseEnded, Zenon

\* A command begins: no sums are there for one that makes an archive, and all
\* the archives for one that makes the sums.
LEMMA ReleaseBegins ==
  ASSUME ReleaseHolds, NEW c \in Archives \cup {"test", "finalize", "verify", "sign"}, Begin(c)
  PROVE  ReleaseHolds'
<1>1. /\ pc = "idle" /\ work = head /\ Preflight(c) /\ pc' = FirstStep(c)
      /\ cmd' = c /\ rev' = head /\ moved' = FALSE /\ UNCHANGED <<head, work, out, got, snap>>
  BY Zenon DEF Begin, Checkout, Go
<1>2. /\ c \in Archives \cup {"test"} => pc' = "generate"
      /\ c = "finalize" => pc' = "gather"
      /\ c \in {"verify", "sign"} => pc' = "names"
  <2>1. c \in {"verify", "sign"} => c \notin Archives \cup {"test"} /\ c # "finalize"
    BY AssetNames
  <2>2. c = "finalize" => c \notin Archives \cup {"test"}
    BY AssetNames
  <2> QED
    BY <1>1, <2>1, <2>2 DEF FirstStep
<1>3. OutDirectory'
  BY <1>1, Zenon DEF ReleaseHolds, OutDirectory
<1>4. c # "none" /\ (c \in Archives => c \notin {"test", "finalize", "verify", "sign"})
  BY AssetNames
<1>5. Phases'
  BY <1>1, <1>2, <1>4 DEF Phases
<1>6. Attests'
  <2>1. c \in Archives \cup {"test"} => cmd' \notin {"verify", "sign"}
    BY <1>1, <1>4, Zenon
  <2> QED
    BY <1>1, <1>2, <2>1, AttestsAside, Zenon DEF ReleaseHolds
<1>7. CASE c \in Archives
  <2>1. ~Holds(c)
    BY <1>1, <1>4, <1>7 DEF Preflight
  <2>2. ~Holds("sums")
    BY <1>7, <2>1 DEF ReleaseHolds, Summed, ArchivesThere
  <2>3. Summed'
    BY <1>1, <1>4, <1>7, <2>2, WithoutSums, Zenon
  <2> QED
    BY <1>3, <1>5, <1>6, <2>3, Zenon DEF ReleaseHolds
<1>8. CASE c = "finalize"
  <2>1. c \notin Archives
    BY <1>8, AssetNames
  <2>2. (\A a \in ReleaseAssets \ {"legal", "sbom"} : Holds(a)) /\ (\A a \in Entries \ ReleaseAssets : ~Holds(a))
    BY <1>1, <1>8, <2>1 DEF Preflight
  <2>3. ~Holds("sums") /\ ArchivesThere
    BY <2>2, AssetNames, Zenon DEF ArchivesThere
  <2>4. ArchivesThere'
    BY <1>1, <2>3, Zenon DEF ArchivesThere, Holds
  <2>5. Summed'
    BY <1>1, <1>2, <1>8, <2>3, <2>4, WithoutSums, Zenon
  <2> QED
    BY <1>3, <1>5, <1>6, <2>5, Zenon DEF ReleaseHolds
<1>9. CASE c \in {"test", "verify", "sign"}
  <2>1. Summed /\ cmd' \notin Archives /\ cmd' # "finalize" /\ pc' \notin {"gather", "legal", "sbom", "digest"}
    BY <1>1, <1>2, <1>9, AssetNames, Zenon DEF ReleaseHolds
  <2>2. (ArchivesThere' <=> ArchivesThere) /\ (SumsRight' <=> SumsRight)
    BY <1>1, Zenon DEF ArchivesThere, Holds, SumsRight, VerifySums
  <2>3. Summed'
    BY <1>1, <2>1, <2>2, Zenon DEF Summed, Holds
  <2> QED
    BY <1>3, <1>5, <1>6, <2>3, Zenon DEF ReleaseHolds
<1> QED
  BY <1>7, <1>8, <1>9

\* A step that writes nothing.
LEMMA ReleaseReads ==
  ASSUME ReleaseHolds, NEW next, Onward(next), UNCHANGED out, Phases', Attests',
         next \notin {"gather", "legal", "sbom", "digest", "fill"}, ~(next = "create" /\ cmd = "finalize")
  PROVE  ReleaseHolds'
<1>1. OutDirectory'
  BY Zenon DEF ReleaseHolds, OutDirectory
<1>2. Summed'
  BY SumsUntouched, Zenon DEF ReleaseHolds, Onward
<1> QED
  BY <1>1, <1>2, Zenon DEF ReleaseHolds

\* Staging the tree, building, and what a release is checked for.
LEMMA ReleaseChecks ==
  ASSUME ReleaseHolds, Staging \/ Build \/ VerifyRelease \/ ReleaseIdentity \/ SignStatement
  PROVE  ReleaseHolds'
<1>0. Phases /\ Attests /\ Summed
  BY Zenon DEF ReleaseHolds
<1>1. ASSUME Stop \/ Failure \/ \E r : Works /\ Done(r) /\ UNCHANGED out
      PROVE  ReleaseHolds'
  BY <1>1, ReleaseStops, Zenon
<1>2. CASE Staging
  <2>1. CASE Stop
    BY <1>1, <2>1, Zenon
  <2>2. CASE ~Stop
    <3>1. /\ UNCHANGED <<out, rev, snap>>
          /\ \/ pc = "generate" /\ got' = work /\ Onward("stage")
             \/ pc = "regenerate" /\ got' = work /\ Onward("restage")
             \/ pc = "restage" /\ UNCHANGED got /\ Onward("artifacts")
             \/ pc = "stage" /\ cmd = "source" /\ UNCHANGED got /\ Onward("create")
             \/ pc = "stage" /\ cmd \in Targets \cup {"test"} /\ UNCHANGED got /\ Onward("build")
             \/ pc = "stage" /\ cmd # "source" /\ cmd \notin Targets \cup {"test"} /\ UNCHANGED got /\ Onward("compare")
      <4>1. CASE pc \in {"generate", "regenerate"}
        <5>1. /\ UNCHANGED <<out, rev, snap>> /\ got' = work
              /\ Proceed(IF pc = "generate" THEN "stage" ELSE "restage")
          BY <1>2, <4>1 DEF Staging
        <5>2. Onward(IF pc = "generate" THEN "stage" ELSE "restage")
          BY <5>1, Zenon DEF Proceed, Go, Onward
        <5> QED
          BY <4>1, <5>1, <5>2, Zenon
      <4>2. CASE pc \in {"stage", "restage"}
        <5> DEFINE next == CASE pc = "restage" -> "artifacts" [] cmd = "source" -> "create"
                             [] cmd \in Targets \cup {"test"} -> "build" [] OTHER -> "compare"
        <5>1. UNCHANGED <<out, rev, got, snap>> /\ Proceed(next)
          BY <1>2, <2>2, <4>2 DEF Staging
        <5> HIDE DEF next
        <5>2. Onward(next)
          BY <5>1, Zenon DEF Proceed, Go, Onward
        <5>3. "source" \notin Targets \cup {"test"}
          BY ReleaseAssumption, Zenon
        <5>4. \/ pc = "restage" /\ next = "artifacts"
              \/ pc = "stage" /\ cmd = "source" /\ next = "create"
              \/ pc = "stage" /\ cmd \in Targets \cup {"test"} /\ next = "build"
              \/ pc = "stage" /\ cmd # "source" /\ cmd \notin Targets \cup {"test"} /\ next = "compare"
          <6>1. pc = "restage" => next = "artifacts"
            <7>1. pc = "restage" /\ cmd = "source" => FALSE
              BY DEF Phases, ReleaseHolds
            <7>2. pc = "restage" /\ cmd \in Targets \cup {"test"} => FALSE
              BY ReleaseAssumption, Zenon DEF Phases, ReleaseHolds
            <7> QED
              BY <7>1, <7>2, Zenon DEF next
          <6>2. pc = "stage" => pc # "restage"
            OBVIOUS
          <6>3. pc # "restage" /\ cmd = "source" => next = "create"
            <7>1. cmd = "source" => cmd \notin Targets \cup {"test"}
              BY <5>3, Zenon
            <7> QED
              BY <7>1, Zenon DEF next
          <6>4. pc # "restage" /\ cmd \in Targets \cup {"test"} => next = "build"
            <7>1. cmd \in Targets \cup {"test"} => cmd # "source"
              BY <5>3, Zenon
            <7> QED
              BY <7>1, Zenon DEF next
          <6>5. pc # "restage" /\ cmd # "source" /\ cmd \notin Targets \cup {"test"} => next = "compare"
            BY Zenon DEF next
          <6> QED
            BY <4>2, <6>1, <6>2, <6>3, <6>4, <6>5, Zenon
        <5> QED
          BY <5>1, <5>2, <5>4, Zenon
      <4> QED
        BY <1>2, <4>1, <4>2, Zenon DEF Staging
    <3>2. PICK next : Onward(next)
      BY <3>1, Zenon
    <3>3. Phases'
      BY <1>0, <3>1, AssetNames, Zenon DEF Phases, Onward, Archives
    <3>4. /\ UNCHANGED <<head, work, cmd, moved>>
          /\ \/ pc = "generate" /\ pc' = "stage" /\ got' = work
             \/ pc = "regenerate" /\ pc' = "restage" /\ got' = work
             \/ pc = "restage" /\ pc' = "artifacts" /\ UNCHANGED got
             \/ pc = "stage" /\ pc' \in {"create", "build"}
             \/ pc = "stage" /\ pc' = "compare" /\ UNCHANGED got
      BY <3>1, Zenon DEF Onward
    <3>5. Attests'
      BY <1>0, <3>1, <3>4, Zenon DEF Attests, Attested
    <3>6. pc' = next /\ next \notin {"gather", "legal", "sbom", "digest", "fill"} /\ ~(next = "create" /\ cmd = "finalize")
      BY <3>1, <3>2, Zenon DEF Onward
    <3> QED
      BY <3>1, <3>2, <3>3, <3>5, <3>6, ReleaseReads, Zenon
  <2> QED
    BY <2>1, <2>2, Zenon
<1>3. CASE Build
  <2>1. CASE Failure \/ \E r : Works /\ Done(r) /\ UNCHANGED out
    BY <1>1, <2>1, Zenon
  <2>2. CASE ~(Failure \/ \E r : Works /\ Done(r) /\ UNCHANGED out)
    <3>1. pc = "build" /\ cmd # "test" /\ Onward("create") /\ UNCHANGED <<out, rev, got, snap>>
      BY <1>3, <2>2, Zenon DEF Build, Proceed, Go, Onward
    <3>2. cmd \in Archives /\ cmd # "finalize" /\ Phases'
      BY <1>0, <3>1, AssetNames, Zenon DEF Phases, Onward, Archives
    <3>3. pc' = "create" /\ UNCHANGED <<head, work, cmd, moved>>
      BY <3>1, Zenon DEF Onward
    <3>4. Attests'
      BY <1>0, <3>1, <3>3, Zenon DEF Attests, Attested
    <3> QED
      BY <3>1, <3>2, <3>4, ReleaseReads, Zenon
  <2> QED
    BY <2>1, <2>2, Zenon
<1>4. CASE VerifyRelease
  <2>1. CASE Stop \/ \E r : Works /\ Done(r) /\ UNCHANGED out
    BY <1>1, <2>1, Zenon
  <2>2. CASE ~(Stop \/ \E r : Works /\ Done(r) /\ UNCHANGED out)
    <3>1. /\ UNCHANGED <<out, rev, got, snap>>
          /\ \/ pc = "names" /\ ExactNames /\ Onward("generate")
             \/ pc = "compare" /\ Matches /\ cmd = "sign" /\ Onward("identity")
      BY <1>4, <2>2, Zenon DEF VerifyRelease, Proceed, Go, Onward
    <3>2. Phases'
      BY <1>0, <3>1, AssetNames, Zenon DEF Phases, Onward
    <3>3. CASE pc = "names"
      <4>1. pc' = "generate" /\ UNCHANGED <<head, work, cmd, moved>> /\ out["revision"] = <<rev>> /\ Onward("generate")
        BY <3>1, <3>3, Zenon DEF Onward, ExactNames
      <4>2. Attests'
        BY <1>0, <3>1, <3>3, <4>1, Zenon DEF Attests, Attested
      <4> QED
        BY <3>1, <3>2, <4>1, <4>2, ReleaseReads, Zenon
    <3>4. CASE pc = "compare"
      <4>1. pc' = "identity" /\ UNCHANGED <<head, work, cmd, moved>> /\ cmd = "sign" /\ Matches /\ Onward("identity")
        BY <3>1, <3>4, Zenon DEF Onward
      <4>2. ASSUME ~moved PROVE Derives(rev, out)
        <5>1. work = rev /\ got = rev /\ out["revision"] = <<rev>>
          BY <1>0, <3>4, <4>1, <4>2, Zenon DEF Attests
        <5>2. DerivesFrom(rev) /\ VerifySums
          BY <4>1, <5>1, Zenon DEF Matches
        <5>3. out["sbom"] = <<rev, rev>> \o <<[a \in Archives |-> out[a]]>> \o <<"sbom">>
          BY <5>1, <5>2, Zenon DEF DerivesFrom, WriteSBOM
        <5>4. \A t \in Targets : out[t] # Partial /\ Epoch[out[t][1]] = Epoch[rev]
          BY <5>2, Zenon DEF DerivesFrom, VerifyArchive
        <5>5. out["manifest"] = <<rev>> /\ out["tree"] = <<rev>> /\ out["source"] = <<rev>>
          BY <5>2, Zenon DEF DerivesFrom
        <5>6. out["sums"] # Partial /\ out["sums"] = SumOf(out)
          BY <5>2, Zenon DEF VerifySums, SumOf
        <5> QED
          BY <5>1, <5>3, <5>4, <5>5, <5>6, Zenon DEF Derives
      <4>3. Attests'
        BY <1>0, <3>1, <3>4, <4>1, <4>2, Zenon DEF Attests, Attested
      <4> QED
        BY <3>1, <3>2, <4>1, <4>3, ReleaseReads
    <3> QED
      BY <3>1, <3>3, <3>4, Zenon
  <2> QED
    BY <2>1, <2>2, Zenon
<1>5. CASE ReleaseIdentity
  <2>1. CASE Stop
    BY <1>1, <2>1, Zenon
  <2>2. CASE ~Stop
    <3>1. pc = "identity" /\ work = head /\ rev' = head /\ Onward("regenerate") /\ UNCHANGED <<out, got, snap>>
      BY <1>5, <2>2, Zenon DEF ReleaseIdentity, Checkout, Proceed, Go, Onward
    <3>2. Phases'
      BY <1>0, <3>1, AssetNames, Zenon DEF Phases, Onward
    <3>3. pc' = "regenerate" /\ UNCHANGED <<head, work, cmd, moved>>
      BY <3>1, Zenon DEF Onward
    <3>4. ~moved => rev' = rev
      BY <1>0, <3>1, Zenon DEF Attests
    <3>5. Attests'
      BY <1>0, <3>1, <3>3, <3>4, Zenon DEF Attests, Attested
    <3> QED
      BY <3>1, <3>2, <3>5, ReleaseReads
  <2> QED
    BY <2>1, <2>2, Zenon
<1>6. CASE SignStatement
  <2>1. CASE Failure
    BY <1>1, <2>1, Zenon
  <2>2. CASE ~Failure
    <3>1. /\ pc = "artifacts" /\ Onward("statement") /\ UNCHANGED <<out, rev, got>>
          /\ snap' = <<rev, got, [a \in SignedCoveredAssets |-> out[a]], ~moved>>
      BY <1>6, <2>2, Zenon DEF SignStatement, Proceed, Go, Onward
    <3>2. Phases'
      BY <1>0, <3>1, AssetNames, Zenon DEF Phases, Onward
    <3>3. pc' = "statement" /\ UNCHANGED <<head, work, cmd, moved>>
      BY <3>1, Zenon DEF Onward
    <3>4. Attested(snap')
      <4>1. snap'[1] = rev /\ snap'[3] = [a \in SignedCoveredAssets |-> out[a]] /\ snap'[4] = ~moved
        BY <3>1
      <4>2. ~moved => Derives(rev, out)
        BY <1>0, <3>1, Zenon DEF Attests
      <4> QED
        BY <4>1, <4>2, DerivesCovered, Zenon DEF Attested
    <3>5. Attests'
      BY <1>0, <3>1, <3>3, <3>4, Zenon DEF Attests, Attested
    <3> QED
      BY <3>1, <3>2, <3>5, ReleaseReads, Zenon
  <2> QED
    BY <2>1, <2>2, Zenon
<1> QED
  BY <1>2, <1>3, <1>4, <1>5, <1>6, Zenon

\* While there are no sums, a command writes an archive or a generated asset.
LEMMA ReleaseWrites ==
  ASSUME ReleaseHolds, NEW a \in ReleaseAssets, NEW v, out' = [out EXCEPT ![a] = v], ~Holds("sums"),
         cmd = "finalize" => a \notin Archives, Phases',
         \/ Ended
         \/ \E next \in {"fill", "sync", "revision", "tree", "bound", "sbom", "digest"} :
               Onward(next) /\ UNCHANGED rev /\ ~(next = "fill" /\ cmd = "finalize")
  PROVE  ReleaseHolds'
<1>1. OutDirectory' /\ \A b \in Entries : b # a => out'[b] = out[b]
  BY OneWritten, AssetNames, Zenon DEF ReleaseHolds
<1>2. out'["sums"] = out["sums"] /\ out'["statement"] = out["statement"]
  BY <1>1, AssetNames, Zenon
<1>3. /\ \/ pc' = "idle" /\ cmd' = "none" /\ moved' = FALSE
         \/ cmd' = cmd /\ moved' = moved /\ work' = head' /\ rev' = head'
         \/ cmd' = cmd /\ moved' = moved /\ moved
      /\ pc' \in {"idle", "fill", "sync", "revision", "tree", "bound", "sbom", "digest"}
      /\ ~(pc' = "fill" /\ cmd' = "finalize")
  <2>1. CASE Ended
    BY <2>1, Zenon DEF Ended
  <2>2. CASE ~Ended
    <3>1. PICK next \in {"fill", "sync", "revision", "tree", "bound", "sbom", "digest"} :
             Onward(next) /\ UNCHANGED rev /\ ~(next = "fill" /\ cmd = "finalize")
      BY <2>2, Zenon
    <3>2. pc' = next /\ UNCHANGED <<head, work, cmd, moved, rev>>
      BY <3>1, Zenon DEF Onward
    <3>3. pc # "idle"
      BY <3>1, <3>2, Zenon DEF ReleaseHolds, Phases
    <3>4. ~moved => work = head /\ rev = head
      BY <3>3, Zenon DEF ReleaseHolds, Attests
    <3> QED
      BY <3>1, <3>2, <3>4, Zenon
  <2> QED
    BY <2>1, <2>2, Zenon
<1>4. Attests'
  <2>1. moved' \in BOOLEAN /\ Attests
    BY <1>3, Zenon DEF ReleaseHolds, Attests
  <2> QED
    BY <1>2, <1>3, <2>1, AttestsAside, Zenon
<1>5. cmd' = "finalize" => ArchivesThere'
  <2> SUFFICES ASSUME cmd' = "finalize" PROVE ArchivesThere'
    OBVIOUS
  <2>1. cmd = "finalize" /\ a \notin Archives /\ ArchivesThere
    BY <1>3, Zenon DEF ReleaseHolds, Summed
  <2> QED
    BY <1>1, <2>1, AssetNames, Zenon DEF ArchivesThere, Holds
<1>6. Summed'
  BY <1>2, <1>3, <1>5, WithoutSums, Zenon
<1> QED
  BY <1>1, <1>4, <1>6, Zenon DEF ReleaseHolds

\* finalize writes the sums it computed, or removes them again.
LEMMA ReleaseSums ==
  ASSUME ReleaseHolds, cmd = "finalize", NEW v, out' = [out EXCEPT !["sums"] = v], Phases',
         \/ Ended /\ v = Absent
         \/ pc = "create" /\ v = Partial /\ Onward("fill") /\ UNCHANGED <<rev, snap>>
         \/ pc = "fill" /\ v = snap /\ Onward("sync") /\ UNCHANGED <<rev, snap>>
  PROVE  ReleaseHolds'
<1>1. OutDirectory' /\ out'["sums"] = v /\ \A b \in Entries : b # "sums" => out'[b] = out[b]
  BY OneWritten, AssetNames, Zenon DEF ReleaseHolds
<1>2. out'["statement"] = out["statement"] /\ (ArchivesThere' <=> ArchivesThere)
  BY <1>1, AssetNames, Zenon DEF ArchivesThere, Holds
<1>3. SumOf(out') = SumOf(out)
  <2>1. \A b \in ReleaseAssets : out'[b] = out[b]
    BY <1>1, AssetNames, Zenon
  <2>2. [b \in ReleaseAssets |-> out'[b]] = [b \in ReleaseAssets |-> out[b]]
    BY <2>1, Zenon
  <2> QED
    BY <2>2, Zenon DEF SumOf
<1>4. Summed /\ Attests /\ Phases /\ cmd \notin Archives
  BY AssetNames, Zenon DEF ReleaseHolds
<1>5. CASE Ended /\ v = Absent
  <2>1. pc' = "idle" /\ cmd' = "none" /\ moved' = FALSE /\ out'["sums"] = Absent
    BY <1>1, <1>5, Zenon DEF Ended
  <2>2. "none" \notin Archives
    BY AssetNames, Zenon
  <2>3. Summed'
    BY <2>1, <2>2, Zenon DEF Summed, Holds, SumsRight
  <2>4. Attests'
    BY <1>2, <1>4, <2>1, AttestsAside, Zenon
  <2> QED
    BY <1>1, <2>3, <2>4, Zenon DEF ReleaseHolds
<1>6. CASE ~(Ended /\ v = Absent)
  <2>1. /\ UNCHANGED <<head, work, cmd, moved, rev, snap>>
        /\ \/ pc = "create" /\ v = Partial /\ pc' = "fill"
           \/ pc = "fill" /\ v = snap /\ pc' = "sync"
    BY <1>6, Zenon DEF Onward
  <2>2. ArchivesThere' /\ snap = SumOf(out')
    BY <1>2, <1>3, <1>4, <2>1, Zenon DEF Summed
  <2>3. SumsRight'
    <3>1. out'["sums"] \in {Partial, SumOf(out')}
      BY <1>1, <2>1, <2>2, Zenon
    <3> QED
      BY <3>1, Zenon DEF SumsRight, VerifySums, SumOf
  <2>4. Summed'
    BY <1>4, <2>1, <2>2, <2>3, Zenon DEF Summed
  <2>5. pc' # "idle" /\ ~moved' => work' = head' /\ rev' = head'
    BY <1>4, <2>1, Zenon DEF Attests
  <2>6. moved' \in BOOLEAN
    BY <1>4, <2>1, Zenon DEF Attests
  <2>7. Attests'
    BY <1>2, <1>4, <2>1, <2>5, <2>6, AttestsAside, Zenon
  <2> QED
    BY <1>1, <2>4, <2>7, Zenon DEF ReleaseHolds
<1> QED
  BY <1>5, <1>6, Zenon

\* An ended command is at no step.
LEMMA EndedPhases ==
  ASSUME Ended PROVE Phases'
<1>1. pc' = "idle" /\ cmd' = "none"
  BY Zenon DEF Ended
<1> QED
  BY <1>1, Zenon DEF Phases

\* The exclusive first file of a command.
LEMMA ReleaseCreates ==
  ASSUME ReleaseHolds, Create
  PROVE  ReleaseHolds'
<1>0. Phases /\ Attests /\ Summed
  BY Zenon DEF ReleaseHolds
<1>1. \/ \E r : Works /\ Done(r) /\ UNCHANGED out
      \/ pc = "sync" /\ cmd = "source" /\ Onward("manifest") /\ UNCHANGED <<out, rev, got, snap>>
      \/ pc \in {"fill", "sync"} /\ Ended /\ out' = [out EXCEPT ![Asset] = Absent]
      \/ pc = "create" /\ Onward("fill") /\ UNCHANGED <<rev, snap>> /\ out' = [out EXCEPT ![Asset] = Partial]
      \/ pc = "fill" /\ Onward("sync") /\ UNCHANGED <<rev, snap>> /\ out' = [out EXCEPT ![Asset] = Product]
  BY Zenon DEF Create, Proceed, Go, Onward, Done, Ended
<1>2. CASE \E r : Works /\ Done(r) /\ UNCHANGED out
  BY <1>2, ReleaseStops, Zenon
<1>3. CASE pc = "sync" /\ cmd = "source" /\ Onward("manifest") /\ UNCHANGED <<out, rev, got, snap>>
  <2>1. pc' = "manifest" /\ cmd' = "source" /\ UNCHANGED <<head, work, moved, out, rev>>
    BY <1>3, Zenon DEF Onward
  <2>2. Phases'
    BY <2>1, AssetNames, Zenon DEF Phases
  <2>3. ~moved => work = head /\ rev = head
    BY <1>0, <1>3, Zenon DEF Attests
  <2>4. moved' \in BOOLEAN
    BY <1>0, <2>1, Zenon DEF Attests
  <2>5. Attests'
    BY <1>0, <2>1, <2>3, <2>4, AttestsAside, Zenon
  <2> QED
    BY <1>3, <2>2, <2>5, ReleaseReads, Zenon
<1>4. ASSUME NEW v, out' = [out EXCEPT ![Asset] = v],
             \/ pc \in {"fill", "sync"} /\ Ended /\ v = Absent
             \/ pc = "create" /\ Onward("fill") /\ UNCHANGED <<rev, snap>> /\ v = Partial
             \/ pc = "fill" /\ Onward("sync") /\ UNCHANGED <<rev, snap>> /\ v = Product
      PROVE  ReleaseHolds'
  <2>1. cmd \in Archives \cup {"finalize"}
    BY <1>0, <1>4, Zenon DEF Phases
  <2>2. Phases'
    <3>1. CASE Ended
      BY <3>1, EndedPhases, Zenon
    <3>2. CASE ~Ended
      <4>1. pc' \in {"fill", "sync"} /\ cmd' = cmd
        BY <1>4, <3>2, Zenon DEF Onward
      <4>2. cmd # "none"
        BY <2>1, AssetNames, Zenon
      <4> QED
        BY <2>1, <4>1, <4>2, Zenon DEF Phases
    <3> QED
      BY <3>1, <3>2, Zenon
  <2>3. CASE cmd \in Archives
    <3>1. Asset = cmd /\ cmd \in ReleaseAssets /\ cmd # "finalize" /\ ~Holds("sums")
      BY <1>0, <2>3, AssetNames, Zenon DEF Asset, Summed
    <3>2. Ended \/ ((Onward("fill") \/ Onward("sync")) /\ UNCHANGED rev)
      BY <1>4, Zenon
    <3> QED
      BY <1>4, <2>2, <3>1, <3>2, ReleaseWrites, Zenon
  <2>4. CASE cmd = "finalize"
    <3>1. Asset = "sums" /\ Product = snap
      BY <2>4, AssetNames, Zenon DEF Asset, Product
    <3> QED
      BY <1>4, <2>2, <2>4, <3>1, ReleaseSums, Zenon
  <2> QED
    BY <2>1, <2>3, <2>4, Zenon
<1> QED
  BY <1>1, <1>2, <1>3, <1>4, Zenon

\* A file written through a temporary.
LEMMA AssetReplaced ==
  ASSUME ReleaseHolds, NEW a \in ReleaseAssets \ Archives, NEW content,
         NEW next \in {"revision", "tree", "bound", "sbom", "digest"},
         ReplaceAsset(a, content, next), ~Holds("sums"), Onward(next) => Phases'
  PROVE  ReleaseHolds'
<1>1. \/ Failure
      \/ Ended /\ out' = [out EXCEPT ![a] = content]
      \/ Onward(next) /\ UNCHANGED rev /\ out' = [out EXCEPT ![a] = content]
  BY Zenon DEF ReplaceAsset, Proceed, Go, Onward, Done, Ended
<1>2. CASE Failure
  BY <1>2, ReleaseStops, Zenon
<1>3. CASE Ended /\ out' = [out EXCEPT ![a] = content]
  BY <1>3, EndedPhases, ReleaseWrites, Zenon
<1>4. CASE Onward(next) /\ UNCHANGED rev /\ out' = [out EXCEPT ![a] = content]
  BY <1>4, ReleaseWrites, Zenon
<1> QED
  BY <1>1, <1>2, <1>3, <1>4, Zenon

\* source and finalize after their first file.
LEMMA ReleaseAssetsWritten ==
  ASSUME ReleaseHolds, SourceAssets \/ Finalize
  PROVE  ReleaseHolds'
<1>0. Phases /\ Attests /\ Summed
  BY Zenon DEF ReleaseHolds
<1>1. CASE SourceAssets
  <2>1. CASE pc = "bound"
    <3>1. \E r : Works /\ Done(r) /\ UNCHANGED out
      BY <1>1, <2>1, Zenon DEF SourceAssets
    <3> QED
      BY <3>1, ReleaseStops, Zenon
  <2>2. CASE pc # "bound"
    <3>1. \/ pc = "manifest" /\ ReplaceAsset("manifest", <<got>>, "revision")
          \/ pc = "revision" /\ ReplaceAsset("revision", <<rev>>, "tree")
          \/ pc = "tree" /\ ReplaceAsset("tree", <<got>>, "bound")
      BY <1>1, <2>2, Zenon DEF SourceAssets
    <3>2. cmd = "source" /\ ~Holds("sums")
      BY <1>0, <3>1, AssetNames, Zenon DEF Phases, Summed
    <3>3. \A next \in {"revision", "tree", "bound"} : Onward(next) => Phases'
      BY <3>2, AssetNames, Zenon DEF Phases, Onward
    <3>4. {"manifest", "revision", "tree"} \subseteq ReleaseAssets \ Archives
      BY AssetNames, Zenon
    <3> QED
      BY <3>1, <3>2, <3>3, <3>4, AssetReplaced, Zenon
  <2> QED
    BY <2>1, <2>2, Zenon
<1>2. CASE Finalize
  <2>1. \/ pc = "gather" /\ Onward("legal") /\ UNCHANGED <<out, rev, got>>
        \/ pc = "legal" /\ ReplaceAsset("legal", snap[1], "sbom")
        \/ pc = "sbom" /\ ReplaceAsset("sbom", snap[2], "digest")
        \/ pc = "digest" /\ Onward("create") /\ UNCHANGED <<out, rev, got>> /\ snap' = SumOf(out)
    BY <1>2, Zenon DEF Finalize, Proceed, Go, Onward, SumOf
  <2>2. cmd = "finalize" /\ ~Holds("sums") /\ ArchivesThere
    BY <1>0, <2>1, Zenon DEF Phases, Summed
  <2>3. \A next \in {"legal", "sbom", "digest", "create"} : Onward(next) => Phases'
    BY <2>2, Zenon DEF Phases, Onward
  <2>4. CASE pc \in {"legal", "sbom"}
    <3>1. {"legal", "sbom"} \subseteq ReleaseAssets \ Archives
      BY AssetNames, Zenon
    <3> QED
      BY <2>1, <2>2, <2>3, <2>4, <3>1, AssetReplaced, Zenon
  <2>5. CASE pc \in {"gather", "digest"}
    <3>1. /\ UNCHANGED <<head, work, cmd, moved, out, rev>>
          /\ pc' = "legal" \/ (pc' = "create" /\ snap' = SumOf(out))
      BY <2>1, <2>5, Zenon DEF Onward
    <3>2. OutDirectory' /\ Phases'
      BY <2>1, <2>3, <2>5, <3>1, Zenon DEF ReleaseHolds, OutDirectory
    <3>3. ~moved => work = head /\ rev = head
      BY <1>0, <2>5, Zenon DEF Attests
    <3>4. moved' \in BOOLEAN
      BY <1>0, <3>1, Zenon DEF Attests
    <3>5. Attests'
      BY <1>0, <3>1, <3>3, <3>4, AttestsAside, Zenon
    <3>6. ArchivesThere' /\ ~Holds("sums")' /\ SumsRight' /\ SumOf(out') = SumOf(out)
      BY <2>2, <3>1, Zenon DEF ArchivesThere, Holds, SumsRight
    <3>7. cmd' \notin Archives
      BY <2>2, <3>1, AssetNames, Zenon
    <3>8. Summed'
      BY <3>1, <3>6, <3>7, Zenon DEF Summed
    <3> QED
      BY <3>2, <3>5, <3>8, Zenon DEF ReleaseHolds
  <2> QED
    BY <2>1, <2>4, <2>5, Zenon
<1> QED
  BY <1>1, <1>2, Zenon

\* sign writes the statement and its envelope.
LEMMA ReleaseSigns ==
  ASSUME ReleaseHolds, NEW a \in {"statement", "envelope"}, NEW v, out' = [out EXCEPT ![a] = v],
         pc \in {"statement", "statementFill", "envelope", "envelopeFill"},
         NEW next \in {"statementFill", "envelope", "envelopeFill", "confirm"},
         Onward(next), UNCHANGED <<rev, got, snap>>, a = "statement" => v \in {Partial, snap}
  PROVE  ReleaseHolds'
<1>0. Phases /\ Attests /\ Summed
  BY Zenon DEF ReleaseHolds
<1>1. /\ OutDirectory' /\ out'[a] = v
      /\ \A b \in Entries : b # a => out'[b] = out[b]
  BY OneWritten, AssetNames, Zenon DEF ReleaseHolds
<1>2. pc' = next /\ UNCHANGED <<head, work, cmd, moved, rev, snap>>
  BY Zenon DEF Onward
<1>3. \A b \in ReleaseAssets \cup {"sums"} : out'[b] = out[b]
  BY <1>1, AssetNames, Zenon
<1>4. Summed'
  BY <1>0, <1>2, <1>3, SumsUntouched, Zenon
<1>5. Phases'
  BY <1>0, <1>2, Zenon DEF Phases
<1>6. Attested(snap) /\ (out["statement"] \notin {Absent, Partial} => Attested(out["statement"]))
  BY <1>0, Zenon DEF Attests
<1>7. out'["statement"] \in {Partial, snap, out["statement"]}
  BY <1>1, AssetNames, Zenon
<1>8. out'["statement"] \notin {Absent, Partial} => Attested(out'["statement"])
  BY <1>6, <1>7, Zenon
<1>9. Attested(snap)'
  BY <1>2, <1>6, Zenon DEF Attested, Derives, SumOf
<1>10. Attested(out["statement"])' <=> Attested(out'["statement"])
  BY Zenon DEF Attested, Derives, SumOf
<1>11. moved' \in BOOLEAN /\ (~moved' => work' = head' /\ rev' = head')
  BY <1>0, <1>2, Zenon DEF Attests
<1>12. Attests'
  BY <1>2, <1>8, <1>9, <1>10, <1>11, Zenon DEF Attests
<1> QED
  BY <1>1, <1>4, <1>5, <1>12, Zenon DEF ReleaseHolds

\* The steps of sign after its verify.
LEMMA ReleaseSigned ==
  ASSUME ReleaseHolds, SignRelease
  PROVE  ReleaseHolds'
<1>1. CASE ReleaseIdentity \/ SignStatement
  BY <1>1, ReleaseChecks, Zenon
<1>2. CASE Stop \/ Failure \/ \E r : Works /\ Done(r) /\ UNCHANGED out
  BY <1>2, ReleaseStops, Zenon
<1>3. CASE WriteNewRelease("statement", "statementFill", "statement", snap, "envelope") /\ ~Failure
  <2>1. /\ UNCHANGED <<rev, got, snap>>
        /\ \/ pc = "statement" /\ out' = [out EXCEPT !["statement"] = Partial] /\ Onward("statementFill")
           \/ pc = "statementFill" /\ out' = [out EXCEPT !["statement"] = snap] /\ Onward("envelope")
    BY <1>3, Zenon DEF WriteNewRelease, Proceed, Go, Onward
  <2>2. CASE pc = "statement"
    BY <2>1, <2>2, ReleaseSigns, Zenon
  <2>3. CASE pc = "statementFill"
    BY <2>1, <2>3, ReleaseSigns, Zenon
  <2> QED
    BY <2>1, <2>2, <2>3, Zenon
<1>4. CASE WriteNewRelease("envelope", "envelopeFill", "envelope", <<snap>>, "confirm") /\ ~Failure
  <2>1. /\ UNCHANGED <<rev, got, snap>>
        /\ \/ pc = "envelope" /\ out' = [out EXCEPT !["envelope"] = Partial] /\ Onward("envelopeFill")
           \/ pc = "envelopeFill" /\ out' = [out EXCEPT !["envelope"] = <<snap>>] /\ Onward("confirm")
    BY <1>4, Zenon DEF WriteNewRelease, Proceed, Go, Onward
  <2>2. CASE pc = "envelope"
    BY <2>1, <2>2, ReleaseSigns, Zenon
  <2>3. CASE pc = "envelopeFill"
    BY <2>1, <2>3, ReleaseSigns, Zenon
  <2> QED
    BY <2>1, <2>2, <2>3, Zenon
<1> QED
  BY <1>1, <1>2, <1>3, <1>4, Zenon DEF SignRelease

\* A kill, and a checkout that moves.
LEMMA ReleaseDisturbed ==
  ASSUME ReleaseHolds, KillCommand \/ Move
  PROVE  ReleaseHolds'
<1>0. Phases /\ Attests /\ Summed
  BY Zenon DEF ReleaseHolds
<1>1. CASE KillCommand
  <2>1. Ended /\ (out' = out \/ out' = [out EXCEPT !["temp"] = Partial])
    <3>1. Ended /\ out' \in {out} \cup (IF pc \in {"manifest", "revision", "tree", "legal", "sbom"}
                                        THEN {[out EXCEPT !["temp"] = Partial]} ELSE {})
      BY <1>1, Zenon DEF KillCommand, Ended
    <3> QED
      BY <3>1, Zenon
  <2>2. CASE out' = out
    <3>1. OutDirectory'
      BY <2>2, Zenon DEF ReleaseHolds, OutDirectory
    <3> QED
      BY <2>1, <2>2, <3>1, ReleaseEnded, Zenon
  <2>3. CASE out' = [out EXCEPT !["temp"] = Partial]
    <3>1. OutDirectory' /\ \A b \in Entries : b # "temp" => out'[b] = out[b]
      BY <2>3, OneWritten, AssetNames, Zenon DEF ReleaseHolds
    <3>2. \A b \in ReleaseAssets \cup {"sums", "statement"} : out'[b] = out[b]
      BY <3>1, AssetNames, Zenon
    <3> QED
      BY <2>1, <3>1, <3>2, ReleaseEnded, Zenon
  <2> QED
    BY <2>1, <2>2, <2>3, Zenon
<1>2. CASE Move
  <2>1. UNCHANGED <<pc, out, cmd, rev, got, snap>> /\ moved' = (cmd # "none")
    BY <1>2, Zenon DEF Move
  <2>2. OutDirectory' /\ Phases'
    BY <2>1, Zenon DEF ReleaseHolds, OutDirectory, Phases
  <2>3. Summed'
    BY <2>1, Zenon DEF ReleaseHolds, Summed, ArchivesThere, Holds, SumsRight, VerifySums, SumOf
  <2>4. /\ pc \in {"statement", "statementFill", "envelope", "envelopeFill", "confirm"} => Attested(snap)'
        /\ out'["statement"] \notin {Absent, Partial} => Attested(out["statement"])'
    BY <1>0, <2>1, Zenon DEF Attests, Attested, Derives, SumOf
  <2>5. moved' \in BOOLEAN /\ (pc # "idle" => moved')
    BY <1>0, <2>1, Zenon DEF Phases
  <2>6. Attests'
    BY <2>1, <2>4, <2>5, Zenon DEF Attests
  <2> QED
    BY <2>2, <2>3, <2>6, Zenon DEF ReleaseHolds
<1> QED
  BY <1>1, <1>2, Zenon

\* It holds of an empty directory,
LEMMA ReleaseStart ==
  ASSUME ReleaseInit, pc = "idle"
  PROVE  ReleaseHolds
<1>1. out = [a \in Entries |-> Absent] /\ cmd = "none" /\ moved = FALSE
  BY Zenon DEF ReleaseInit
<1>2. \A a \in Entries : out[a] = Absent
  BY <1>1, Zenon
<1>3. out["sums"] = Absent /\ out["statement"] = Absent
  BY <1>2, AssetNames, Zenon
<1>4. OutDirectory
  BY <1>1, <1>2, Zenon DEF OutDirectory
<1>5. Phases
  BY <1>1, Zenon DEF Phases
<1>6. "none" \notin Archives
  BY AssetNames, Zenon
<1>7. Summed
  BY <1>1, <1>3, <1>6, Zenon DEF Summed, Holds, SumsRight
<1>8. Attests
  BY <1>1, <1>3, Zenon DEF Attests
<1> QED
  BY <1>4, <1>5, <1>7, <1>8, Zenon DEF ReleaseHolds

\* and every step of every command keeps it.
LEMMA ReleaseKept ==
  ASSUME ReleaseHolds, ReleaseSteps \/ UNCHANGED <<writerVars, releaseVars>>
  PROVE  ReleaseHolds'
<1>1. CASE ReleaseSteps
  BY <1>1, ReleaseBegins, ReleaseChecks, ReleaseCreates, ReleaseAssetsWritten, ReleaseSigned,
     ReleaseDisturbed, Zenon DEF ReleaseSteps
<1>2. CASE UNCHANGED <<writerVars, releaseVars>>
  <2>1. UNCHANGED <<pc, head, work, out, cmd, rev, got, snap, moved>>
    BY <1>2, Zenon DEF writerVars, releaseVars
  <2>2. OutDirectory' /\ Phases'
    BY <2>1, Zenon DEF ReleaseHolds, OutDirectory, Phases
  <2>3. Summed'
    BY <2>1, Zenon DEF ReleaseHolds, Summed, ArchivesThere, Holds, SumsRight, VerifySums, SumOf
  <2>4. Attests'
    BY <2>1, Zenon DEF ReleaseHolds, Attests, Attested, Derives, SumOf
  <2> QED
    BY <2>2, <2>3, <2>4, Zenon DEF ReleaseHolds
<1> QED
  BY <1>1, <1>2, Zenon

\* What it says of a directory that verifies, or that nobody writes.
LEMMA ReleasePromise ==
  ASSUME ReleaseHolds \/ out = [a \in Entries |-> Absent]
  PROVE  /\ SumsRight
         /\ VerifyDirectory /\ out["statement"][4] =>
              LET r == out["statement"][1] IN
              /\ VerifySums /\ out["revision"] = <<r>>
              /\ \A a \in {"manifest", "tree", "source"} : out[a] = <<r>>
              /\ out["sbom"] = WriteSBOM(r, r)
              /\ \A t \in Targets : out[t] # Partial /\ Epoch[out[t][1]] = Epoch[r]
<1>1. CASE ReleaseHolds
  <2>1. SumsRight /\ Attests
    BY <1>1, Zenon DEF ReleaseHolds, Summed
  <2>2. ASSUME VerifyDirectory, out["statement"][4]
        PROVE  Derives(out["statement"][1], out)
    <3>1. /\ out["statement"] \notin {Absent, Partial}
          /\ out["statement"][3] = [a \in SignedCoveredAssets |-> out[a]]
      BY <2>2, Zenon DEF VerifyDirectory, Holds
    <3>2. Derives(out["statement"][1], out["statement"][3])
      BY <2>1, <2>2, <3>1, Zenon DEF Attests, Attested
    <3> QED
      BY <3>1, <3>2, DerivesCovered, Zenon
  <2> QED
    BY <2>1, <2>2, Zenon DEF Derives, SumOf, VerifySums, WriteSBOM
<1>2. CASE out = [a \in Entries |-> Absent]
  <2>1. out["sums"] = Absent /\ out["statement"] = Absent
    BY <1>2, AssetNames, Zenon
  <2> QED
    BY <2>1, Zenon DEF SumsRight, VerifyDirectory, Holds
<1> QED
  BY <1>1, <1>2, Zenon

-----------------------------------------------------------------------------
(* The observation import *)

Bytes == {"none", "a", "b", "big"}

Looked == ObservedEntries \cup {Top}

Payload == {"extra", "server", "index"}

ImportType ==
  /\ edits \in Nat
  /\ disk \in [ObservedEntries -> Bytes] /\ cache \in [ObservedFiles -> Bytes]
  /\ stamp \in [Looked -> Nat] /\ noted \in [Looked -> Nat] /\ first \in [Looked -> Nat]
  /\ listing \in [root : SUBSET (RootFiles \cup {"context"}), context : SUBSET ContextFiles]
  /\ queue \in Seq(Payload) /\ shifted \subseteq Looked

\* A change gives an entry an identity that it never had.
Stamped == \A e \in Looked : /\ 0 < stamp[e] /\ stamp[e] < edits + 2
                             /\ noted[e] <= stamp[e] /\ first[e] <= stamp[e]

Inventories == {"list", "walk", "open", "listContext", "walkContext"}

Reads == {"read", "data", "verify", "context", "project", "again"}

Unnoted(entries) == \A e \in entries : noted[e] = 0

\* One inventory looks at every entry once.
Walking ==
  /\ noted[Top] # 0 /\ Unnoted(listing.root) /\ Unnoted(listing.context)
  /\ pc = "list" => Unnoted(ObservedEntries)
  /\ pc \in {"list", "walk", "listContext"} => listing.context = {}
  /\ pc = "listContext" => noted["context"] # 0 /\ Unnoted(ContextFiles)
  /\ noted["context"] = 0 => Unnoted(ContextFiles) /\ listing.context = {}
  /\ pc = "open" => \/ looking[1] \in listing.root /\ listing.context = {}
                    \/ looking[1] \in listing.context

\* What was changed between two looks has, at the second, another identity.
Shifts ==
  /\ first = NotSeen => \A e \in shifted : noted[e] # 0 /\ noted[e] < stamp[e]
  /\ first # NotSeen =>
       \A e \in shifted : /\ first[e] # 0 /\ first[e] < stamp[e]
                          /\ pc \in Inventories => noted[e] = 0 \/ noted[e] > first[e]

Cached == {f \in ObservedFiles : cache[f] # "none"}

Covered == Inventoried = RootListed \cup {"manifest", "contextManifest"}

Digested(m) == \A f \in ElementsOf(Listed(m, cache[m])) : cache[f] = DigestOf(cache[m], f)

\* Which files were read so far.
ReadingManifest == looking[1] = "manifest" /\ \A f \in ObservedFiles \ {"manifest"} : cache[f] = "none"

ReadingListed ==
  /\ looking[1] \in Payload /\ cache["manifest"] # "none"
  /\ RootListed \cup {"manifest"} = Cached \cup {looking[1]} \cup ElementsOf(queue)
  /\ \A f \in Cached \ {"manifest", looking[1]} : cache[f] = DigestOf(cache["manifest"], f)

ReadingContext ==
  /\ looking[1] = "contextManifest" /\ Covered /\ Digested("manifest")
  /\ Cached \ {"contextManifest"} = RootListed \cup {"manifest"}

Reading ==
  /\ ReadingManifest \/ ReadingListed \/ ReadingContext
  /\ stamp[looking[1]] = first[looking[1]] =>
       /\ pc = "data" => disk[looking[1]] # "none"
       /\ pc = "verify" => cache[looking[1]] # "none"

RootRead == Digested("manifest") /\ Cached = RootListed \cup {"manifest"}

AllRead == Digested("manifest") /\ Covered /\ Cached = Inventoried

Settled == AllRead /\ Digested("contextManifest")

ImportAt ==
  /\ pc \in {"import", "done", "dead"} \cup Inventories \cup Reads
  /\ pc = "import" => first = NotSeen /\ noted = NotSeen /\ cache = Blank
  /\ pc \in {"import"} \cup Reads => listing.context = {}
  /\ pc \in Reads => first # NotSeen
  /\ pc \in Inventories => Walking /\ (IF first = NotSeen THEN cache = Blank ELSE Settled)
  /\ pc \in {"read", "data", "verify"} => Reading
  /\ pc = "context" => RootRead
  /\ pc = "project" => AllRead
  /\ pc = "again" => Settled
  /\ pc # "done" => Shifts /\ result = "none"
  /\ pc = "done" => result \in {"ok", "err"} /\ (result = "ok" => Settled /\ shifted = {})

\* The files a manifest lists.
LEMMA ListedFiles ==
  ASSUME NEW m, NEW c
  PROVE  /\ Listed(m, c) \in Seq(Payload) /\ Listed(m, c) # << >>
         /\ ElementsOf(Listed(m, c)) \subseteq Payload
<1> DEFINE pre == IF c = "b" THEN <<"extra">> ELSE << >>
           post == IF m = "manifest" THEN <<"index">> ELSE << >>
<1>1. Listed(m, c) = pre \o <<"server">> \o post
  BY Zenon DEF Listed
<1>2. Listed(m, c) \in Seq(Payload) /\ Listed(m, c) # << >>
  <2>1. /\ pre \in Seq(Payload) /\ <<"server">> \in Seq(Payload) /\ post \in Seq(Payload)
        /\ Len(<<"server">>) = 1
    <3>1. /\ <<"extra">> \in Seq(Payload) /\ <<"server">> \in Seq(Payload) /\ <<"index">> \in Seq(Payload)
          /\ << >> \in Seq(Payload) /\ Len(<<"server">>) = 1
      BY DEF Payload
    <3> QED
      BY <3>1
  <2> HIDE DEF pre, post
  <2>2. /\ pre \o <<"server">> \in Seq(Payload)
        /\ Len(pre \o <<"server">>) = Len(pre) + 1
    BY <2>1
  <2>3. /\ Listed(m, c) \in Seq(Payload)
        /\ Len(Listed(m, c)) = Len(pre) + 1 + Len(post) /\ Len(pre) \in Nat /\ Len(post) \in Nat
    BY <1>1, <2>1, <2>2
  <2> QED
    BY <2>3
<1>3. \A i \in 1..Len(Listed(m, c)) : Listed(m, c)[i] \in Payload
  BY <1>2
<1> QED
  BY <1>2, <1>3, Zenon DEF ElementsOf

\* The files of a queue.
LEMMA Queued ==
  ASSUME NEW s \in Seq(Payload)
  PROVE  /\ s = << >> => ElementsOf(s) = {}
         /\ s # << >> => /\ Head(s) \in Payload /\ Tail(s) \in Seq(Payload)
                         /\ ElementsOf(s) = {Head(s)} \cup ElementsOf(Tail(s))
<1>1. s = << >> => ElementsOf(s) = {}
  BY DEF ElementsOf
<1>2. ASSUME s # << >>
      PROVE  /\ Head(s) \in Payload /\ Tail(s) \in Seq(Payload) /\ Head(s) = s[1]
             /\ Len(s) \in Nat /\ Len(s) > 0 /\ Len(Tail(s)) = Len(s) - 1
             /\ \A i \in 1..Len(Tail(s)) : Tail(s)[i] = s[i + 1]
  BY <1>2
<1>3. ASSUME s # << >> PROVE ElementsOf(s) \subseteq {Head(s)} \cup ElementsOf(Tail(s))
  <2> SUFFICES ASSUME NEW i \in 1..Len(s) PROVE s[i] \in {Head(s)} \cup ElementsOf(Tail(s))
    BY Zenon DEF ElementsOf
  <2>1. CASE i = 1
    BY <1>2, <1>3, <2>1
  <2>2. CASE i # 1
    <3>1. i - 1 \in 1..Len(Tail(s)) /\ Tail(s)[i - 1] = s[i]
      BY <1>2, <1>3, <2>2
    <3> QED
      BY <3>1, Zenon DEF ElementsOf
  <2> QED
    BY <2>1, <2>2, Zenon
<1>4. ASSUME s # << >> PROVE {Head(s)} \cup ElementsOf(Tail(s)) \subseteq ElementsOf(s)
  <2>1. Head(s) \in ElementsOf(s)
    <3>1. 1 \in 1..Len(s) /\ Head(s) = s[1]
      BY <1>2, <1>4
    <3> QED
      BY <3>1, Zenon DEF ElementsOf
  <2>2. ASSUME NEW i \in 1..Len(Tail(s)) PROVE Tail(s)[i] \in ElementsOf(s)
    <3>1. i + 1 \in 1..Len(s) /\ Tail(s)[i] = s[i + 1]
      BY <1>2, <1>4
    <3> QED
      BY <3>1, Zenon DEF ElementsOf
  <2>3. ElementsOf(Tail(s)) \subseteq ElementsOf(s)
    BY <2>2, Zenon DEF ElementsOf
  <2> QED
    BY <2>1, <2>3
<1> QED
  BY <1>1, <1>2, <1>3, <1>4

\* Which entries there are.
LEMMA EntryNames ==
  /\ ObservedFiles \subseteq ObservedEntries /\ ObservedEntries \subseteq Looked
  /\ Top \in Looked /\ Top \notin ObservedEntries /\ "context" \in ObservedEntries
  /\ RootFiles \cup {"context"} \subseteq ObservedEntries /\ ContextFiles \subseteq ObservedEntries
  /\ Payload \subseteq ObservedFiles /\ "manifest" \in ObservedFiles /\ "contextManifest" \in ObservedFiles
  /\ "manifest" \notin Payload /\ "contextManifest" \notin Payload
  /\ \A e \in Looked : NotSeen[e] = 0
  /\ NotSeen \in [Looked -> Nat] /\ Blank \in [ObservedFiles -> Bytes]
  /\ \A f \in ObservedFiles : Blank[f] = "none"
  /\ IsFiniteSet(ObservedFiles)
<1>1. \A S, x : IsFiniteSet(S) => IsFiniteSet(S \cup {x})
  BY FS_AddElement, Zenon
<1>2. ObservedFiles = {} \cup {"manifest"} \cup {"index"} \cup {"stray"} \cup {"contextManifest"}
                        \cup {"server"} \cup {"extra"}
  BY DEF ObservedFiles, RootFiles, ContextFiles
<1>3. IsFiniteSet(ObservedFiles)
  BY <1>1, <1>2, FS_EmptySet, Zenon
<1>4. /\ \A e \in Looked : NotSeen[e] = 0
      /\ NotSeen \in [Looked -> Nat] /\ Blank \in [ObservedFiles -> Bytes]
      /\ \A f \in ObservedFiles : Blank[f] = "none"
  BY DEF NotSeen, Blank, Looked, Bytes
<1> QED
  BY <1>3, <1>4 DEF ObservedFiles, ObservedEntries, RootFiles, ContextFiles, Looked, Top, Payload

\* What is known of the bytes read does not depend on the directory.
LEMMA CacheKept ==
  ASSUME UNCHANGED <<cache, first>>
  PROVE  /\ (RootRead => RootRead') /\ (AllRead => AllRead') /\ (Settled => Settled')
         /\ Covered' = Covered /\ Cached' = Cached /\ Digested("manifest")' = Digested("manifest")
  BY Zenon DEF RootRead, AllRead, Settled, Covered, Cached, Digested, Inventoried, RootListed

\* A refusal and a failure end the import.
LEMMA ImportRefused ==
  ASSUME ImportType, Stamped, pc' = "done", result' = "err", UNCHANGED <<edits, importVars>>
  PROVE  ImportType' /\ Stamped' /\ ImportAt'
<1>1. UNCHANGED <<edits, disk, stamp, listing, looking, noted, first, cache, queue, shifted>>
  BY Zenon DEF importVars
<1>2. ImportType' /\ Stamped'
  BY <1>1 DEF ImportType, Stamped
<1> QED
  BY <1>2 DEF ImportAt, Inventories, Reads

\* What another process does during the import.
LEMMA ImportMeddled ==
  ASSUME ImportType, Stamped, ImportAt, Meddling
  PROVE  ImportType' /\ Stamped' /\ ImportAt'
<1>1. PICK es \in SUBSET Looked :
        Changes(es) /\ \E e \in es \cap ObservedEntries, v \in Bytes : disk' = [disk EXCEPT ![e] = v]
  <2>1. CASE \E w \in Rewritten : \E replaced \in SUBSET {ParentOf(w[1])} :
               disk' = [disk EXCEPT ![w[1]] = w[2]] /\ Changes({w[1]} \cup replaced)
    <3>0. PICK w \in Rewritten : \E replaced \in SUBSET {ParentOf(w[1])} :
            disk' = [disk EXCEPT ![w[1]] = w[2]] /\ Changes({w[1]} \cup replaced)
      BY <2>1, Zenon
    <3>1. PICK replaced \in SUBSET {ParentOf(w[1])} :
            disk' = [disk EXCEPT ![w[1]] = w[2]] /\ Changes({w[1]} \cup replaced)
      BY <3>0, Zenon
    <3>2. w[1] \in ContextFiles /\ w[2] \in Bytes
      BY DEF Rewritten, ContextFiles, Bytes
    <3>3. ParentOf(w[1]) = "context"
      BY <3>2, Zenon DEF ParentOf
    <3>4. w[1] \in ({w[1]} \cup replaced) \cap ObservedEntries /\ {w[1]} \cup replaced \in SUBSET Looked
      BY <3>2, <3>3, EntryNames
    <3> QED
      BY <3>1, <3>2, <3>4, Zenon
  <2>2. CASE \E e \in {"extra", "stray", "context"} :
               /\ disk' = [disk EXCEPT ![e] = IF @ = "none" THEN "a" ELSE "none"]
               /\ Changes({e, ParentOf(e)})
    <3>1. PICK e \in {"extra", "stray", "context"} :
               /\ disk' = [disk EXCEPT ![e] = IF disk[e] = "none" THEN "a" ELSE "none"]
               /\ Changes({e, ParentOf(e)})
      BY <2>2, Zenon
    <3>2. e \in ObservedEntries /\ "a" \in Bytes /\ "none" \in Bytes
      BY DEF ObservedEntries, ObservedFiles, RootFiles, ContextFiles, Bytes
    <3>3. ParentOf(e) \in {"context", Top}
      BY Zenon DEF ParentOf
    <3>4. e \in {e, ParentOf(e)} \cap ObservedEntries /\ {e, ParentOf(e)} \in SUBSET Looked
      BY <3>2, <3>3, EntryNames, Zenon
    <3> QED
      BY <3>1, <3>2, <3>4, Zenon
  <2> QED
    BY <2>1, <2>2, Zenon DEF Meddling
<1>2. /\ pc \notin {"done", "dead"} /\ edits' = edits + 1
      /\ UNCHANGED <<pc, result, faults, listing, looking, noted, first, cache, queue>>
      /\ stamp' = [e \in DOMAIN stamp |-> IF e \in es THEN edits + 2 ELSE stamp[e]]
      /\ shifted' = shifted \cup {e \in es : Between(e)}
  BY <1>1, Zenon DEF Changes, Edit
<1>3. /\ disk' \in [ObservedEntries -> Bytes]
      /\ \A e \in ObservedEntries : e \notin es => disk'[e] = disk[e]
  BY <1>1 DEF ImportType
<1>4. /\ stamp' \in [Looked -> Nat] /\ edits' \in Nat
      /\ \A e \in Looked : stamp'[e] = IF e \in es THEN edits + 2 ELSE stamp[e]
  BY <1>2 DEF ImportType
<1>5. Stamped'
  BY <1>2, <1>4 DEF Stamped, ImportType
<1>6. ImportType'
  BY <1>1, <1>2, <1>3, <1>4, Zenon DEF ImportType
<1>7. \A e \in Looked : /\ stamp'[e] \in Nat /\ stamp[e] \in Nat /\ stamp'[e] >= stamp[e]
                        /\ noted[e] \in Nat /\ first[e] \in Nat
                        /\ e \in es => noted[e] < stamp'[e] /\ first[e] < stamp'[e]
  BY <1>4 DEF Stamped, ImportType
<1>8. Shifts'
  <2>1. Shifts
    BY <1>2, Zenon DEF ImportAt
  <2>2. ASSUME first = NotSeen, NEW e \in shifted' PROVE noted[e] # 0 /\ noted[e] < stamp'[e]
    <3>1. CASE e \in shifted
      BY <1>7, <2>1, <2>2, <3>1 DEF Shifts, ImportType
    <3>2. CASE e \in es /\ Between(e)
      BY <1>7, <2>2, <3>2, Zenon DEF Between
    <3> QED
      BY <1>2, <3>1, <3>2, Zenon
  <2>3. ASSUME first # NotSeen, NEW e \in shifted'
        PROVE  /\ first[e] # 0 /\ first[e] < stamp'[e]
               /\ pc \in Inventories => noted[e] = 0 \/ noted[e] > first[e]
    <3>1. CASE e \in shifted
      BY <1>7, <2>1, <2>3, <3>1 DEF Shifts, ImportType
    <3>2. CASE e \in es /\ Between(e)
      BY <1>7, <2>3, <3>2, Zenon DEF Between, Inventories
    <3> QED
      BY <1>2, <3>1, <3>2, Zenon
  <2> QED
    BY <1>2, <2>2, <2>3, Zenon DEF Shifts
<1>9. pc \in Inventories => Walking'
  BY <1>2, Zenon DEF ImportAt, Walking, Unnoted
<1>10. pc \in {"read", "data", "verify"} => Reading'
  <2> SUFFICES ASSUME pc \in {"read", "data", "verify"} PROVE Reading'
    OBVIOUS
  <2>1. Reading
    BY Zenon DEF ImportAt
  <2>2. (ReadingManifest \/ ReadingListed \/ ReadingContext)'
    BY <1>2, <2>1, CacheKept, Zenon DEF Reading, ReadingManifest, ReadingListed, ReadingContext, RootListed
  <2>3. looking[1] \in ObservedFiles
    BY <2>1, EntryNames, Zenon DEF Reading, ReadingManifest, ReadingListed, ReadingContext
  <2>4. looking[1] \in Looked /\ looking[1] \in ObservedEntries
    BY <2>3, EntryNames, Zenon
  <2>5. stamp'[looking[1]] = first[looking[1]] =>
          stamp[looking[1]] = first[looking[1]] /\ looking[1] \notin es
    BY <1>4, <1>7, <2>4
  <2>6. looking[1] \notin es => disk'[looking[1]] = disk[looking[1]]
    BY <1>3, <2>4, Zenon
  <2> QED
    BY <1>2, <2>1, <2>2, <2>5, <2>6, Zenon DEF Reading
<1>11. (RootRead => RootRead') /\ (AllRead => AllRead') /\ (Settled => Settled')
  BY <1>2, CacheKept, Zenon
<1> QED
  BY <1>2, <1>5, <1>6, <1>8, <1>9, <1>10, <1>11, Zenon DEF ImportAt, Inventories, Reads

\* A step of an inventory that leaves what was read alone.
LEMMA ImportLooks ==
  ASSUME ImportType, Stamped, ImportAt, pc' \in Inventories, result = "none",
         UNCHANGED <<edits, result, disk, stamp, first, cache, queue, shifted>>,
         listing' \in [root : SUBSET (RootFiles \cup {"context"}), context : SUBSET ContextFiles],
         noted' \in [Looked -> Nat], \A e \in Looked : noted'[e] \in {0, noted[e], stamp[e]},
         Walking', Shifts', IF first = NotSeen THEN cache = Blank ELSE Settled
  PROVE  ImportType' /\ Stamped' /\ ImportAt'
<1>1. ImportType'
  BY Zenon DEF ImportType
<1>2. Stamped'
  <2> SUFFICES ASSUME NEW e \in Looked
               PROVE  /\ 0 < stamp[e] /\ stamp[e] < edits + 2
                      /\ noted'[e] <= stamp[e] /\ first[e] <= stamp[e]
    BY Zenon DEF Stamped
  <2>1. stamp[e] \in Nat /\ noted'[e] \in {0, noted[e], stamp[e]}
    BY Zenon DEF ImportType
  <2>2. /\ 0 < stamp[e] /\ stamp[e] < edits + 2
        /\ noted[e] <= stamp[e] /\ first[e] <= stamp[e]
    BY Zenon DEF Stamped
  <2> QED
    BY <2>1, <2>2
<1>3. IF first' = NotSeen THEN cache' = Blank ELSE Settled'
  BY CacheKept, Zenon
<1>4. pc' \notin {"import", "done"} \cup Reads
  BY Zenon DEF Inventories, Reads
<1> QED
  BY <1>1, <1>2, <1>3, <1>4, Zenon DEF ImportAt, Inventories, Reads

\* The two inventories.
LEMMA ImportInventories ==
  ASSUME ImportType, Stamped, ImportAt, OwnedSnapshot \/ ListDirectory \/ StatEntry \/ OpenEntry \/ LeaveDirectory
  PROVE  ImportType' /\ Stamped' /\ ImportAt'
<1>1. ASSUME Refuse \/ \E at : Failing(at)
      PROVE  ImportType' /\ Stamped' /\ ImportAt'
  <2>1. pc' = "done" /\ result' = "err" /\ UNCHANGED <<edits, importVars>>
    BY <1>1, Zenon DEF Refuse, Failing, Return
  <2> QED
    BY <2>1, ImportRefused, Zenon
<1>2. CASE OwnedSnapshot
  <2>1. CASE \E at : Failing(at)
    BY <1>1, <2>1, Zenon
  <2>2. CASE ~\E at : Failing(at)
    <3>1. /\ pc \in {"import", "again"} /\ pc' = "list" /\ noted' = [NotSeen EXCEPT ![Top] = stamp[Top]]
          /\ UNCHANGED <<edits, result, disk, stamp, first, cache, queue, shifted, listing, looking>>
      BY <1>2, <2>2, Zenon DEF OwnedSnapshot, Works, Go, Unread
    <3>2. /\ noted' \in [Looked -> Nat] /\ noted'[Top] = stamp[Top] /\ \A e \in ObservedEntries : noted'[e] = 0
          /\ \A e \in Looked : e # Top => noted'[e] = 0
      BY <3>1, EntryNames, Zenon DEF ImportType
    <3>3. noted'[Top] # 0
      BY <3>2, EntryNames DEF Stamped
    <3>4. listing.context = {} /\ result = "none" /\ Shifts
      BY <3>1, Zenon DEF ImportAt, Reads
    <3>5. listing.root \subseteq ObservedEntries /\ ContextFiles \subseteq ObservedEntries /\ "context" \in ObservedEntries
      BY EntryNames, Zenon DEF ImportType
    <3>6. Walking'
      BY <3>1, <3>2, <3>3, <3>4, <3>5, Zenon DEF Walking, Unnoted
    <3>7. Shifts'
      <4>1. CASE pc = "import"
        <5>1. first = NotSeen /\ noted = NotSeen
          BY <4>1, Zenon DEF ImportAt
        <5>2. shifted = {}
          BY <3>4, <5>1, EntryNames, Zenon DEF Shifts, ImportType
        <5> QED
          BY <3>1, <5>2, Zenon DEF Shifts
      <4>2. CASE pc = "again"
        <5>1. first # NotSeen
          BY <4>2, Zenon DEF ImportAt, Reads
        <5>2. \A e \in shifted : e \in Looked /\ first[e] # 0 /\ first[e] < stamp[e]
          BY <3>4, <5>1, Zenon DEF Shifts, ImportType
        <5>3. \A e \in shifted : noted'[e] = 0 \/ noted'[e] > first[e]
          BY <3>2, <5>2, Zenon DEF ImportType
        <5> QED
          BY <3>1, <5>1, <5>2, <5>3, Zenon DEF Shifts
      <4> QED
        BY <3>1, <4>1, <4>2, Zenon
    <3>8. IF first = NotSeen THEN cache = Blank ELSE Settled
      BY <3>1, Zenon DEF ImportAt, Reads
    <3>9. /\ pc' \in Inventories
          /\ listing' \in [root : SUBSET (RootFiles \cup {"context"}), context : SUBSET ContextFiles]
          /\ \A e \in Looked : noted'[e] \in {0, noted[e], stamp[e]}
      BY <3>1, <3>2, Zenon DEF Inventories, ImportType
    <3> QED
      BY <3>1, <3>2, <3>4, <3>6, <3>7, <3>8, <3>9, ImportLooks, Zenon
  <2> QED
    BY <2>1, <2>2, Zenon
<1>3. ASSUME pc \in Inventories
      PROVE  result = "none" /\ Shifts /\ Walking /\ (IF first = NotSeen THEN cache = Blank ELSE Settled)
  BY <1>3, Zenon DEF ImportAt, Inventories
<1>4. ASSUME pc \in Inventories, pc' \in Inventories, UNCHANGED <<first, noted, shifted, stamp>>
      PROVE  Shifts'
  BY <1>3, <1>4, Zenon DEF Shifts
<1>5. CASE ListDirectory
  <2>1. CASE \E at : Failing(at)
    BY <1>1, <2>1, Zenon
  <2>2. CASE ~\E at : Failing(at)
    <3>1. /\ UNCHANGED <<edits, result, disk, stamp, first, cache, queue, shifted, looking, noted>>
          /\ \/ /\ pc = "list" /\ pc' = "walk"
                /\ listing' = [listing EXCEPT !.root = {e \in RootFiles \cup {"context"} : disk[e] # "none"}]
             \/ /\ pc = "listContext" /\ pc' = "walkContext"
                /\ listing' = [listing EXCEPT !.context = {e \in ContextFiles : disk[e] # "none"}]
      BY <1>5, <2>2, Zenon DEF ListDirectory, Works, Go, Unread
    <3>2. pc \in Inventories /\ pc' \in Inventories
      BY <3>1 DEF Inventories
    <3>3. Walking /\ Shifts' /\ result = "none" /\ (IF first = NotSeen THEN cache = Blank ELSE Settled)
      BY <1>3, <1>4, <3>1, <3>2, Zenon
    <3>4. /\ listing' \in [root : SUBSET (RootFiles \cup {"context"}), context : SUBSET ContextFiles]
          /\ pc = "list" => listing'.context = listing.context
          /\ pc = "listContext" => listing'.root = listing.root
      BY <3>1 DEF ImportType
    <3>5. listing'.root \subseteq ObservedEntries /\ listing'.context \subseteq ContextFiles
      BY <3>4, EntryNames, Zenon
    <3>6. Walking'
      BY <3>1, <3>3, <3>4, <3>5, Zenon DEF Walking, Unnoted
    <3>7. noted' \in [Looked -> Nat] /\ \A e \in Looked : noted'[e] \in {0, noted[e], stamp[e]}
      BY <3>1 DEF ImportType
    <3> QED
      BY <3>1, <3>2, <3>3, <3>4, <3>6, <3>7, ImportLooks, Zenon
  <2> QED
    BY <2>1, <2>2, Zenon
<1>6. CASE StatEntry
  <2>1. CASE Refuse
    BY <1>1, <2>1, Zenon
  <2>2. CASE ~Refuse
    <3>1. /\ pc \in {"walk", "walkContext"} /\ pc' = "open" /\ looking'[1] \in ToVisit
          /\ UNCHANGED <<edits, result, disk, stamp, first, cache, queue, shifted, listing, noted>>
      <4>1. pc \in {"walk", "walkContext"} /\ \E e \in ToVisit :
              /\ looking' = <<e, stamp[e]>> /\ pc' = "open"
              /\ UNCHANGED <<edits, result, disk, stamp, first, cache, queue, shifted, listing, noted>>
        BY <1>6, <2>2, Zenon DEF StatEntry, Works, Go, Unread
      <4> QED
        BY <4>1
    <3>2. pc \in Inventories /\ pc' \in Inventories
      BY <3>1, Zenon DEF Inventories
    <3>3. Walking /\ Shifts' /\ result = "none" /\ (IF first = NotSeen THEN cache = Blank ELSE Settled)
      BY <1>3, <1>4, <3>1, <3>2, Zenon
    <3>4. Walking'
      BY <3>1, <3>3, Zenon DEF Walking, Unnoted, ToVisit
    <3>5. /\ noted' \in [Looked -> Nat] /\ \A e \in Looked : noted'[e] \in {0, noted[e], stamp[e]}
          /\ listing' \in [root : SUBSET (RootFiles \cup {"context"}), context : SUBSET ContextFiles]
      BY <3>1, Zenon DEF ImportType
    <3> QED
      BY <3>1, <3>2, <3>3, <3>4, <3>5, ImportLooks, Zenon
  <2> QED
    BY <2>1, <2>2, Zenon
<1>7. CASE OpenEntry
  <2>1. CASE Refuse
    BY <1>1, <2>1, Zenon
  <2>2. CASE ~Refuse
    <3> DEFINE e == looking[1]
    <3>1. /\ pc = "open" /\ noted' = [noted EXCEPT ![e] = stamp[e]]
          /\ listing' = [root |-> listing.root \ {e}, context |-> listing.context \ {e}]
          /\ pc' = (IF e = "context" THEN "listContext" ELSE IF e \in RootFiles THEN "walk" ELSE "walkContext")
          /\ UNCHANGED <<edits, result, disk, stamp, first, cache, queue, shifted, looking>>
      BY <1>7, <2>2, Zenon DEF OpenEntry, Works, Go, Unread
    <3>2. pc \in Inventories /\ pc' \in Inventories
      BY <3>1, Zenon DEF Inventories
    <3>3. /\ Walking /\ Shifts /\ result = "none" /\ (IF first = NotSeen THEN cache = Blank ELSE Settled)
          /\ (e \in listing.root /\ listing.context = {}) \/ e \in listing.context
      BY <1>3, <3>1, <3>2, Zenon DEF Walking
    <3> HIDE DEF e
    <3>4. /\ listing.root \subseteq RootFiles \cup {"context"} /\ listing.context \subseteq ContextFiles
          /\ e \in ObservedEntries /\ e # Top /\ e \in Looked /\ noted[e] = 0
          /\ e \in listing.context => e # "context" /\ e \notin RootFiles /\ noted["context"] # 0
      <4>1. listing.root \subseteq RootFiles \cup {"context"} /\ listing.context \subseteq ContextFiles
        BY Zenon DEF ImportType
      <4>2. \A x \in ContextFiles : x # "context" /\ x \notin RootFiles
        BY DEF ContextFiles, RootFiles
      <4> QED
        BY <3>3, <4>1, <4>2, EntryNames, Zenon DEF Walking, Unnoted
    <3>5. /\ noted' \in [Looked -> Nat] /\ noted'[e] = stamp[e] /\ stamp[e] # 0
          /\ \A x \in Looked : x # e => noted'[x] = noted[x]
      BY <3>1, <3>4 DEF ImportType, Stamped
    <3>6. /\ listing' \in [root : SUBSET (RootFiles \cup {"context"}), context : SUBSET ContextFiles]
          /\ listing'.root = listing.root \ {e} /\ listing'.context = listing.context \ {e}
      BY <3>1, <3>4, Zenon
    <3>7. Walking'
      <4>1. \A x \in ObservedEntries \cup {Top} : x # e => noted'[x] = noted[x]
        BY <3>5, EntryNames, Zenon
      <4>2. noted'[Top] # 0 /\ Unnoted(listing.root)' /\ Unnoted(listing.context)'
        BY <3>3, <3>4, <3>6, <4>1, EntryNames, Zenon DEF Walking, Unnoted
      <4>3. CASE e \in listing.context
        <5>1. noted'["context"] # 0 /\ pc' = "walkContext"
          BY <3>1, <3>4, <4>1, <4>3, EntryNames, Zenon
        <5> QED
          BY <4>2, <5>1, Zenon DEF Walking
      <4>4. CASE e \in RootFiles /\ e # "context" /\ listing.context = {}
        <5>1. noted'["context"] = noted["context"] /\ \A x \in ContextFiles : noted'[x] = noted[x]
          <6>1. e \notin ContextFiles
            BY <4>4, Zenon DEF RootFiles, ContextFiles
          <6> QED
            BY <4>1, <4>4, <6>1, EntryNames, Zenon
        <5>2. pc' = "walk" /\ listing'.context = {}
          BY <3>1, <3>6, <4>4, Zenon
        <5> QED
          BY <3>3, <4>2, <5>1, <5>2, Zenon DEF Walking, Unnoted
      <4>5. CASE e = "context" /\ listing.context = {}
        <5>1. noted'["context"] # 0 /\ \A x \in ContextFiles : noted'[x] = noted[x]
          <6>1. "context" \notin ContextFiles
            BY DEF ContextFiles
          <6> QED
            BY <3>5, <4>1, <4>5, <6>1, EntryNames, Zenon
        <5>2. pc' = "listContext" /\ listing'.context = {}
          BY <3>1, <3>6, <4>5, Zenon
        <5>3. Unnoted(ContextFiles)
          BY <3>3, <3>4, <4>5, Zenon DEF Walking
        <5> QED
          BY <4>2, <5>1, <5>2, <5>3, Zenon DEF Walking, Unnoted
      <4> QED
        BY <3>3, <3>4, <4>3, <4>4, <4>5, Zenon
    <3>8. Shifts'
      <4>1. CASE first = NotSeen
        <5>1. \A x \in shifted : x \in Looked /\ x # e /\ noted[x] # 0 /\ noted[x] < stamp[x]
          BY <3>3, <3>4, <4>1, Zenon DEF Shifts, ImportType
        <5> QED
          BY <3>1, <3>5, <4>1, <5>1, Zenon DEF Shifts
      <4>2. CASE first # NotSeen
        <5>1. \A x \in shifted : x \in Looked /\ first[x] # 0 /\ first[x] < stamp[x]
                                 /\ (noted[x] = 0 \/ noted[x] > first[x])
          BY <3>2, <3>3, <4>2, Zenon DEF Shifts, ImportType
        <5>2. \A x \in shifted : noted'[x] = 0 \/ noted'[x] > first[x]
          BY <3>5, <5>1, Zenon DEF ImportType
        <5> QED
          BY <3>1, <4>2, <5>1, <5>2, Zenon DEF Shifts
      <4> QED
        BY <4>1, <4>2, Zenon
    <3>9. \A x \in Looked : noted'[x] \in {0, noted[x], stamp[x]}
      BY <3>5, Zenon
    <3> QED
      BY <3>1, <3>2, <3>3, <3>5, <3>6, <3>7, <3>8, <3>9, ImportLooks, Zenon
  <2> QED
    BY <2>1, <2>2, Zenon
<1>8. CASE LeaveDirectory
  <2>1. CASE Refuse
    BY <1>1, <2>1, Zenon
  <2>2. CASE ~Refuse
    <3>1. /\ pc = "walkContext" /\ pc' = "walk" /\ listing.context = {}
          /\ UNCHANGED <<edits, result, disk, stamp, first, cache, queue, shifted, listing, looking, noted>>
      BY <1>8, <2>2, Zenon DEF LeaveDirectory, Works, Go, importVars
    <3>2. pc \in Inventories /\ pc' \in Inventories
      BY <3>1, Zenon DEF Inventories
    <3>3. Walking /\ Shifts' /\ result = "none" /\ (IF first = NotSeen THEN cache = Blank ELSE Settled)
      BY <1>3, <1>4, <3>1, <3>2, Zenon
    <3>4. Walking'
      BY <3>1, <3>3, Zenon DEF Walking, Unnoted
    <3>5. /\ noted' \in [Looked -> Nat] /\ \A e \in Looked : noted'[e] \in {0, noted[e], stamp[e]}
          /\ listing' \in [root : SUBSET (RootFiles \cup {"context"}), context : SUBSET ContextFiles]
      BY <3>1, Zenon DEF ImportType
    <3> QED
      BY <3>1, <3>2, <3>3, <3>4, <3>5, ImportLooks, Zenon
  <2> QED
    BY <2>1, <2>2, Zenon
<1> QED
  BY <1>2, <1>5, <1>6, <1>7, <1>8, Zenon

\* What an import that ends well was made from.
LEMMA ImportEnds ==
  ASSUME ImportType, Stamped, ImportAt, EndInventory \/ EndSecondInventory
  PROVE  ImportType' /\ Stamped' /\ ImportAt'
<1>1. ASSUME Refuse
      PROVE  ImportType' /\ Stamped' /\ ImportAt'
  <2>1. pc' = "done" /\ result' = "err" /\ UNCHANGED <<edits, importVars>>
    BY <1>1, Zenon DEF Refuse, Return
  <2> QED
    BY <2>1, ImportRefused, Zenon
<1>2. pc = "walk"
  BY Zenon DEF EndInventory, EndSecondInventory
<1>3. /\ result = "none" /\ Shifts /\ Walking /\ listing.context = {}
      /\ IF first = NotSeen THEN cache = Blank ELSE Settled
  BY <1>2, Zenon DEF ImportAt, Inventories, Walking
<1>4. CASE EndInventory
  <2>1. CASE Refuse
    BY <1>1, <2>1, Zenon
  <2>2. CASE ~Refuse
    <3>1. /\ first = NotSeen /\ first' = noted /\ looking' = <<"manifest", 0>> /\ pc' = "read"
          /\ UNCHANGED <<edits, result, disk, stamp, listing, noted, cache, queue, shifted>>
      BY <1>4, <2>2, Zenon DEF EndInventory, Works, Go
    <3>2. first' # NotSeen
      BY <1>3, <3>1, EntryNames, Zenon DEF Walking
    <3>3. ImportType' /\ Stamped'
      BY <3>1, Zenon DEF ImportType, Stamped
    <3>4. Shifts'
      <4>1. pc' \notin Inventories
        BY <3>1, Zenon DEF Inventories
      <4> QED
        BY <1>3, <3>1, <3>2, <4>1, Zenon DEF Shifts
    <3>5. Reading'
      <4>1. looking'[1] = "manifest"
        BY <3>1, Zenon
      <4>2. ReadingManifest'
        BY <1>3, <3>1, <4>1, EntryNames, Zenon DEF ReadingManifest
      <4> QED
        BY <3>1, <4>2, Zenon DEF Reading
    <3> QED
      BY <1>3, <3>1, <3>2, <3>3, <3>4, <3>5, Zenon DEF ImportAt, Inventories, Reads
  <2> QED
    BY <2>1, <2>2, Zenon
<1>5. CASE EndSecondInventory
  <2>1. CASE Refuse
    BY <1>1, <2>1, Zenon
  <2>2. CASE ~Refuse
    <3>1. /\ first # NotSeen /\ noted = first /\ pc' = "done" /\ result' = "ok"
          /\ UNCHANGED <<edits, disk, stamp, listing, looking, noted, first, cache, queue, shifted>>
      BY <1>5, <2>2, Zenon DEF EndSecondInventory, SameInventory, Works, Return, importVars
    <3>2. pc \in Inventories
      BY <1>2 DEF Inventories
    <3>3. \A e \in shifted : first[e] \in Nat /\ first[e] # 0 /\ (first[e] = 0 \/ first[e] > first[e])
      BY <1>3, <3>1, <3>2, Zenon DEF Shifts, ImportType
    <3>4. shifted' = {}
      BY <3>1, <3>3
    <3>5. Settled'
      BY <1>3, <3>1, CacheKept, Zenon
    <3>6. ImportType' /\ Stamped'
      BY <3>1, Zenon DEF ImportType, Stamped
    <3> QED
      BY <3>1, <3>4, <3>5, <3>6, Zenon DEF ImportAt, Inventories, Reads
  <2> QED
    BY <2>1, <2>2, Zenon
<1> QED
  BY <1>4, <1>5, Zenon

\* A step of the reading that leaves the inventories alone.
LEMMA ImportGoesOn ==
  ASSUME ImportType, Stamped, ImportAt, pc \in Reads, pc' \in Reads,
         UNCHANGED <<edits, result, disk, stamp, listing, noted, first, shifted>>,
         cache' \in [ObservedFiles -> Bytes], queue' \in Seq(Payload),
         pc' \in {"read", "data", "verify"} => Reading',
         pc' = "context" => RootRead', pc' = "project" => AllRead', pc' = "again" => Settled'
  PROVE  ImportType' /\ Stamped' /\ ImportAt'
<1>1. ImportType' /\ Stamped'
  BY Zenon DEF ImportType, Stamped
<1>2. pc' \notin Inventories /\ pc' \notin {"import", "done"} /\ pc # "done"
  BY Zenon DEF Reads, Inventories
<1>3. Shifts /\ result = "none" /\ listing.context = {} /\ first # NotSeen
  BY <1>2, Zenon DEF ImportAt
<1>4. Shifts'
  BY <1>2, <1>3, Zenon DEF Shifts
<1> QED
  BY <1>1, <1>2, <1>3, <1>4, Zenon DEF ImportAt

\* Reading through the two manifests.
LEMMA ImportReads ==
  ASSUME ImportType, Stamped, ImportAt, Read \/ ReadBytes \/ VerifyRead \/ OpenIndex \/ ReadContext
  PROVE  ImportType' /\ Stamped' /\ ImportAt'
<1>1. ASSUME Refuse \/ \E at : Failing(at)
      PROVE  ImportType' /\ Stamped' /\ ImportAt'
  <2>1. pc' = "done" /\ result' = "err" /\ UNCHANGED <<edits, importVars>>
    BY <1>1, Zenon DEF Refuse, Failing, Return
  <2> QED
    BY <2>1, ImportRefused, Zenon
<1>2. ASSUME pc \in {"read", "data", "verify"} PROVE Reading
  BY <1>2, Zenon DEF ImportAt
<1>3. cache \in [ObservedFiles -> Bytes] /\ queue \in Seq(Payload) /\ disk \in [ObservedEntries -> Bytes]
  BY Zenon DEF ImportType
<1>4. RootListed \subseteq Payload
  BY ListedFiles, Zenon DEF RootListed
<1> DEFINE f == looking[1]
<1>5. ASSUME Reading PROVE f \in ObservedFiles /\ f \in ObservedEntries
  BY <1>5, EntryNames, Zenon DEF Reading, ReadingManifest, ReadingListed, ReadingContext
<1>6. CASE Read
  <2>1. CASE Refuse
    BY <1>1, <2>1, Zenon
  <2>2. CASE ~Refuse
    <3>1. /\ pc = "read" /\ pc' = "data" /\ AsInventoried(f)
          /\ UNCHANGED <<edits, result, disk, stamp, listing, looking, noted, first, cache, queue, shifted>>
      BY <1>6, <2>2, Zenon DEF Read, Works, Go, importVars
    <3>2. disk[f] # "none" /\ Reading
      BY <1>2, <3>1, Zenon DEF AsInventoried
    <3>3. (ReadingManifest \/ ReadingListed \/ ReadingContext)'
      BY <3>1, <3>2, CacheKept, Zenon DEF Reading, ReadingManifest, ReadingListed, ReadingContext, RootListed
    <3>4. Reading'
      BY <3>1, <3>2, <3>3, Zenon DEF Reading
    <3>5. pc \in Reads /\ pc' \in Reads
      BY <3>1, Zenon DEF Reads
    <3> QED
      BY <1>3, <3>1, <3>4, <3>5, ImportGoesOn, Zenon
  <2> QED
    BY <2>1, <2>2, Zenon
<1>7. CASE ReadBytes
  <2>1. CASE \E at : Failing(at)
    BY <1>1, <2>1, Zenon
  <2>2. CASE ~\E at : Failing(at)
    <3>1. /\ pc = "data" /\ pc' = "verify" /\ cache' = [cache EXCEPT ![f] = disk[f]]
          /\ UNCHANGED <<edits, result, disk, stamp, listing, looking, noted, first, queue, shifted>>
      BY <1>7, <2>2, Zenon DEF ReadBytes, Works, Go
    <3>2. Reading /\ f \in ObservedFiles /\ f \in ObservedEntries
      BY <1>2, <1>5, <3>1, Zenon
    <3> HIDE DEF f
    <3>3. /\ cache' \in [ObservedFiles -> Bytes] /\ cache'[f] = disk[f]
          /\ \A g \in ObservedFiles : g # f => cache'[g] = cache[g]
      BY <1>3, <3>1, <3>2, Zenon
    <3>4. Cached' \ {f} = Cached \ {f}
      BY <3>3, Zenon DEF Cached
    <3>5. ASSUME ReadingManifest PROVE ReadingManifest'
      BY <3>1, <3>3, <3>5, Zenon DEF ReadingManifest, f
    <3>6. ASSUME ReadingListed PROVE ReadingListed'
      <4>1. f \in Payload /\ cache'["manifest"] = cache["manifest"]
        BY <3>3, <3>6, EntryNames, Zenon DEF ReadingListed, f
      <4>2. RootListed' = RootListed
        BY <4>1, Zenon DEF RootListed
      <4>3. RootListed' \cup {"manifest"} = Cached' \cup {f} \cup ElementsOf(queue)
        BY <3>4, <3>6, <4>2, Zenon DEF ReadingListed, f
      <4>4. \A g \in Cached' \ {"manifest", f} : cache'[g] = DigestOf(cache'["manifest"], g)
        BY <3>3, <3>4, <3>6, <4>1, Zenon DEF ReadingListed, f, Cached
      <4> QED
        BY <3>1, <3>6, <4>1, <4>3, <4>4, Zenon DEF ReadingListed, f
    <3>7. ASSUME ReadingContext PROVE ReadingContext'
      <4>1. f = "contextManifest" /\ cache'["manifest"] = cache["manifest"]
        BY <3>3, <3>7, EntryNames, Zenon DEF ReadingContext, f
      <4>2. RootListed' = RootListed
        BY <4>1, Zenon DEF RootListed
      <4>3. \A g \in Payload : cache'[g] = cache[g]
        BY <3>3, <4>1, EntryNames, Zenon
      <4>4. Digested("manifest")'
        BY <1>4, <3>7, <4>1, <4>3, Zenon DEF ReadingContext, Digested, RootListed
      <4>5. Covered'
        BY <3>1, <3>7, <4>2, Zenon DEF ReadingContext, Covered, Inventoried
      <4>6. Cached' \ {"contextManifest"} = RootListed' \cup {"manifest"}
        BY <3>4, <3>7, <4>1, <4>2, Zenon DEF ReadingContext
      <4> QED
        BY <3>1, <4>1, <4>4, <4>5, <4>6, Zenon DEF ReadingContext, f
    <3>8. (ReadingManifest \/ ReadingListed \/ ReadingContext)'
      BY <3>2, <3>5, <3>6, <3>7, Zenon DEF Reading
    <3>9. Reading'
      BY <3>1, <3>2, <3>3, <3>8, Zenon DEF Reading, f
    <3>10. pc \in Reads /\ pc' \in Reads
      BY <3>1, Zenon DEF Reads
    <3> QED
      BY <1>3, <3>1, <3>3, <3>9, <3>10, ImportGoesOn, Zenon
  <2> QED
    BY <2>1, <2>2, Zenon
<1>8. CASE VerifyRead
  <2>1. CASE Refuse
    BY <1>1, <2>1, Zenon
  <2>2. CASE ~Refuse
    <3> DEFINE left == IF f = "manifest" THEN Listed(f, cache[f]) ELSE queue
    <3>1. /\ pc = "verify" /\ AsInventoried(f)
          /\ f \in Payload => cache[f] = DigestOf(cache["manifest"], f)
          /\ UNCHANGED <<edits, result, disk, stamp, listing, noted, first, cache, shifted>>
          /\ IF f # "contextManifest" /\ left # << >>
               THEN looking' = <<Head(left), 0>> /\ queue' = Tail(left) /\ pc' = "read"
               ELSE /\ UNCHANGED queue
                    /\ pc' = (IF f = "contextManifest" THEN "project" ELSE "context")
      BY <1>8, <2>2, Zenon DEF VerifyRead, Works, Go, Payload
    <3>2. Reading /\ f \in ObservedFiles
      BY <1>2, <1>5, <3>1, Zenon
    <3>3. stamp[f] = first[f]
      BY <3>1, Zenon DEF AsInventoried
    <3>4. cache[f] # "none" /\ f \in Cached
      BY <3>1, <3>2, <3>3, Zenon DEF Reading, Cached
    <3>5. Cached' = Cached /\ RootListed' = RootListed
      BY <3>1, CacheKept, Zenon DEF RootListed
    <3>6. pc \in Reads /\ pc' \in Reads
      BY <3>1, Zenon DEF Reads
    <3> HIDE DEF f
    <3>7. CASE ReadingManifest
      <4>1. f = "manifest" /\ Cached = {"manifest"}
        BY <3>4, <3>7, Zenon DEF ReadingManifest, f, Cached
      <4>2. left = Listed("manifest", cache["manifest"])
        BY <4>1, Zenon
      <4>3. /\ left \in Seq(Payload) /\ left # << >> /\ RootListed = ElementsOf(left)
        BY <4>2, ListedFiles, Zenon DEF RootListed
      <4> HIDE DEF left
      <4>4. /\ Head(left) \in Payload /\ Tail(left) \in Seq(Payload)
            /\ ElementsOf(left) = {Head(left)} \cup ElementsOf(Tail(left))
        BY <4>3, Queued, Zenon
      <4>5. looking' = <<Head(left), 0>> /\ queue' = Tail(left) /\ pc' = "read"
        BY <3>1, <4>1, <4>3, Zenon
      <4>6. looking'[1] = Head(left)
        BY <4>5, Zenon
      <4>7. ReadingListed'
        BY <3>1, <3>4, <3>5, <4>1, <4>3, <4>4, <4>5, <4>6, Zenon DEF ReadingListed
      <4>8. Reading'
        BY <4>5, <4>7, Zenon DEF Reading
      <4> QED
        BY <1>3, <3>1, <3>6, <4>4, <4>5, <4>8, ImportGoesOn, Zenon
    <3>8. CASE ReadingListed
      <4>1. /\ f \in Payload /\ left = queue /\ f # "manifest" /\ f # "contextManifest"
            /\ cache["manifest"] # "none"
        BY <3>8, EntryNames, Zenon DEF ReadingListed, f
      <4> HIDE DEF left
      <4>2. \A g \in Cached \ {"manifest"} : cache[g] = DigestOf(cache["manifest"], g)
        BY <3>1, <3>8, <4>1, Zenon DEF ReadingListed, f
      <4>3. RootListed \cup {"manifest"} = Cached \cup ElementsOf(left)
        BY <3>4, <3>8, <4>1, Zenon DEF ReadingListed, f
      <4>4. CASE left # << >>
        <5>1. /\ Head(left) \in Payload /\ Tail(left) \in Seq(Payload)
              /\ ElementsOf(left) = {Head(left)} \cup ElementsOf(Tail(left))
          BY <1>3, <4>1, <4>4, Queued, Zenon
        <5>2. looking' = <<Head(left), 0>> /\ queue' = Tail(left) /\ pc' = "read"
          BY <3>1, <4>1, <4>4, Zenon
        <5>3. looking'[1] = Head(left)
          BY <5>2
        <5>4. RootListed' \cup {"manifest"} = Cached' \cup {looking'[1]} \cup ElementsOf(queue')
          BY <3>5, <4>3, <5>1, <5>2, <5>3, Zenon
        <5>5. ReadingListed'
          BY <3>1, <3>5, <4>1, <4>2, <5>1, <5>3, <5>4, Zenon DEF ReadingListed
        <5>6. Reading'
          BY <5>2, <5>5, Zenon DEF Reading
        <5> QED
          BY <1>3, <3>1, <3>6, <5>1, <5>2, <5>6, ImportGoesOn
      <4>5. CASE left = << >>
        <5>1. pc' = "context" /\ UNCHANGED queue
          BY <3>1, <4>1, <4>5, Zenon
        <5>2. RootListed \cup {"manifest"} = Cached
          BY <1>3, <4>1, <4>3, <4>5, Queued, Zenon
        <5>3. \A g \in RootListed : cache[g] = DigestOf(cache["manifest"], g)
          BY <1>4, <4>2, <5>2, EntryNames, Zenon
        <5>4. RootRead
          BY <5>2, <5>3, Zenon DEF RootRead, Digested, RootListed
        <5>5. RootRead'
          BY <3>1, <5>4, CacheKept, Zenon
        <5> QED
          BY <1>3, <3>1, <3>6, <5>1, <5>5, ImportGoesOn, Zenon
      <4> QED
        BY <4>4, <4>5, Zenon
    <3>9. CASE ReadingContext
      <4>1. f = "contextManifest" /\ pc' = "project" /\ UNCHANGED queue
        BY <3>1, <3>9, Zenon DEF ReadingContext, f
      <4>2. Cached = RootListed \cup {"manifest", "contextManifest"}
        BY <3>4, <3>9, <4>1, Zenon DEF ReadingContext
      <4>3. AllRead
        BY <3>9, <4>2, Zenon DEF ReadingContext, AllRead, Covered
      <4>4. AllRead'
        BY <3>1, <4>3, CacheKept, Zenon
      <4> QED
        BY <1>3, <3>1, <3>6, <4>1, <4>4, ImportGoesOn, Zenon
    <3> QED
      BY <3>2, <3>7, <3>8, <3>9, Zenon DEF Reading
  <2> QED
    BY <2>1, <2>2, Zenon
<1>9. CASE OpenIndex
  <2>1. CASE Refuse
    BY <1>1, <2>1, Zenon
  <2>2. CASE ~Refuse
    <3>1. /\ pc = "context" /\ pc' = "read" /\ looking' = <<"contextManifest", 0>>
          /\ ExactFileSet(Inventoried, RootListed, {"manifest", "contextManifest"})
          /\ UNCHANGED <<edits, result, disk, stamp, listing, noted, first, cache, queue, shifted>>
      BY <1>9, <2>2, Zenon DEF OpenIndex, Works, Go
    <3>2. RootRead
      BY <3>1, Zenon DEF ImportAt
    <3>3. Covered
      <4> DEFINE S == RootListed \cup {"manifest", "contextManifest"}
      <4>1. Inventoried \subseteq S /\ Cardinality(S) = Cardinality(Inventoried)
        BY <3>1, Zenon DEF ExactFileSet
      <4>2. S \subseteq ObservedFiles
        BY <1>4, EntryNames, Zenon
      <4> HIDE DEF S
      <4>3. IsFiniteSet(S)
        BY <4>2, EntryNames, FS_Subset, Zenon
      <4>4. S = Inventoried
        BY <4>1, <4>3, FS_Subset, Zenon
      <4> QED
        BY <4>4, Zenon DEF Covered, S
    <3>4. looking'[1] = "contextManifest"
      BY <3>1, Zenon
    <3>5. /\ Cached' = Cached /\ RootListed' = RootListed /\ Covered'
          /\ Digested("manifest") /\ Digested("manifest")'
      BY <3>1, <3>2, <3>3, CacheKept, Zenon DEF RootListed, RootRead
    <3>6. Cached' \ {"contextManifest"} = RootListed' \cup {"manifest"}
      BY <1>4, <3>2, <3>5, EntryNames, Zenon DEF RootRead
    <3>7. ReadingContext'
      BY <3>4, <3>5, <3>6, Zenon DEF ReadingContext
    <3>8. Reading'
      BY <3>1, <3>7, Zenon DEF Reading
    <3>9. pc \in Reads /\ pc' \in Reads
      BY <3>1, Zenon DEF Reads
    <3> QED
      BY <1>3, <3>1, <3>8, <3>9, ImportGoesOn, Zenon
  <2> QED
    BY <2>1, <2>2, Zenon
<1>10. CASE ReadContext
  <2>1. CASE Refuse
    BY <1>1, <2>1, Zenon
  <2>2. CASE ~Refuse
    <3>1. /\ pc = "project" /\ pc' = "again"
          /\ \A g \in ElementsOf(Listed("contextManifest", cache["contextManifest"])) :
               cache[g] = DigestOf(cache["contextManifest"], g)
          /\ UNCHANGED <<edits, result, disk, stamp, listing, looking, noted, first, cache, queue, shifted>>
      BY <1>10, <2>2, Zenon DEF ReadContext, Works, Go, importVars
    <3>2. AllRead
      BY <3>1, Zenon DEF ImportAt
    <3>3. Settled
      BY <3>1, <3>2, Zenon DEF Settled, Digested
    <3>4. Settled'
      BY <3>1, <3>3, CacheKept, Zenon
    <3>5. pc \in Reads /\ pc' \in Reads
      BY <3>1, Zenon DEF Reads
    <3> QED
      BY <1>3, <3>1, <3>4, <3>5, ImportGoesOn, Zenon
  <2> QED
    BY <2>1, <2>2, Zenon
<1> QED
  BY <1>6, <1>7, <1>8, <1>9, <1>10, Zenon

\* It holds before the first look,
LEMMA ImportBegins ==
  ASSUME ImportInit, pc = "import", result = "none", edits = 0
  PROVE  ImportType /\ Stamped /\ ImportAt
<1>1. /\ disk \in ImportTrees /\ stamp = [e \in Looked |-> 1]
      /\ listing = [root |-> {}, context |-> {}]
      /\ noted = NotSeen /\ first = NotSeen /\ cache = Blank /\ queue = << >> /\ shifted = {}
  BY Zenon DEF ImportInit, Looked
<1>2. disk \in [ObservedEntries -> Bytes]
  <2>1. \A c \in {"a", "b"} : Collected(c) \in [ObservedEntries -> Bytes]
    BY DEF Collected, Bytes
  <2>2. "a" \in Bytes /\ "b" \in Bytes
    BY Zenon DEF Bytes
  <2> QED
    BY <1>1, <2>1, <2>2, Zenon DEF ImportTrees
<1>3. ImportType
  BY <1>1, <1>2, EntryNames DEF ImportType
<1>4. Stamped
  BY <1>1, EntryNames DEF Stamped
<1>5. ImportAt
  BY <1>1, Zenon DEF ImportAt, Inventories, Reads, Shifts
<1> QED
  BY <1>3, <1>4, <1>5, Zenon

\* and through every step.
LEMMA ImportKept ==
  ASSUME ImportType, Stamped, ImportAt,
         ImportSteps \/ (Kill /\ UNCHANGED importVars) \/ UNCHANGED <<writerVars, importVars>>
  PROVE  ImportType' /\ Stamped' /\ ImportAt'
<1>1. CASE ImportSteps
  BY <1>1, ImportInventories, ImportEnds, ImportReads, ImportMeddled, Zenon DEF ImportSteps
<1>2. CASE Kill /\ UNCHANGED importVars
  <2>1. /\ pc' = "dead" /\ pc # "done" /\ UNCHANGED <<result, edits>>
        /\ UNCHANGED <<disk, stamp, listing, looking, noted, first, cache, queue, shifted>>
    BY <1>2, Zenon DEF Kill, importVars
  <2>2. ImportType' /\ Stamped'
    BY <2>1, Zenon DEF ImportType, Stamped
  <2>3. Shifts' /\ result' = "none"
    <3>1. pc' \notin Inventories
      BY <2>1, Zenon DEF Inventories
    <3> QED
      BY <2>1, <3>1, Zenon DEF Shifts, ImportAt
  <2> QED
    BY <2>1, <2>2, <2>3, Zenon DEF ImportAt, Inventories, Reads
<1>3. CASE UNCHANGED <<writerVars, importVars>>
  <2>1. /\ UNCHANGED <<pc, result, edits>>
        /\ UNCHANGED <<disk, stamp, listing, looking, noted, first, cache, queue, shifted>>
    BY <1>3, Zenon DEF writerVars, importVars
  <2>2. ImportType' /\ Stamped'
    BY <2>1, Zenon DEF ImportType, Stamped
  <2>3. (Shifts => Shifts') /\ (Walking => Walking')
    BY <2>1, Zenon DEF Shifts, Walking, Unnoted
  <2>4. (RootRead => RootRead') /\ (AllRead => AllRead') /\ (Settled => Settled')
    BY <2>1, CacheKept, Zenon
  <2>5. Reading => Reading'
    BY <2>1, CacheKept, Zenon DEF Reading, ReadingManifest, ReadingListed, ReadingContext, RootListed
  <2> QED
    BY <2>1, <2>2, <2>3, <2>4, <2>5, Zenon DEF ImportAt
<1> QED
  BY <1>1, <1>2, <1>3, Zenon
=============================================================================
