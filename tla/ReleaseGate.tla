---------------------------- MODULE ReleaseGate -----------------------------
(***************************************************************************)
(* The release gate: derive a manifest from the source tree (Generate),    *)
(* derive it again and write the captured bytes as the staged source       *)
(* (Stage). The tree is a working copy that may change between two reads.  *)
(***************************************************************************)
EXTENDS Writer

CONSTANT MaxSourceEdits  \* changes to the tree in one behaviour

VARIABLES source,    \* the working copy: path -> content
          pass,      \* 1 for Generate, 2 for Stage
          policy,    \* the policy bytes that were validated
          unread,    \* the selected files still to be read
          blobs,     \* the bytes captured in this pass
          manifest,  \* what Generate wrote: the files and the policy's digest
          staged     \* the staged source tree

gateVars == <<source, pass, policy, unread, blobs, manifest, staged>>

Files == {"policy", "vendor", "sums", "notice", "code", "test"}
Contents == {"a", "b"}
\* A policy of the first schema has no vendored modules, and binds nothing.
PolicyV1 == "v1"
SchemaV2(p) == p # PolicyV1
Nothing == [f \in Files |-> "none"]

GateInit ==
  /\ source \in {[f \in Files |-> "a"], [[f \in Files |-> "a"] EXCEPT !["vendor"] = "b"],
                 [[f \in Files |-> "a"] EXCEPT !["test"] = "none"], [[f \in Files |-> "a"] EXCEPT !["policy"] = PolicyV1]}
  /\ pass = 1 /\ policy = "none" /\ unread = {} /\ blobs = Nothing
  /\ manifest = [files |-> Nothing, policy |-> "none"] /\ staged = Nothing

\* Somebody works on the tree.
EditSource ==
  /\ pc \notin {"done", "dead"} /\ edits < MaxSourceEdits /\ edits' = edits + 1
  /\ UNCHANGED <<pc, result, faults, pass, policy, unread, blobs, manifest, staged>>
  /\ \E f \in Files, c \in Contents \cup {PolicyV1} : (c = PolicyV1 => f = "policy") /\ source[f] # c /\ source' = [source EXCEPT ![f] = c]

Rejected == Works /\ Return("rejected")
Derived(next) == Works /\ Go(next)

\* stableRead and decodeStrict of the policy, then validatePolicy: a closed
\* schema of either version, the fixed targets and the required paths.
ValidatePolicy ==
  /\ pc = "policy" /\ UNCHANGED <<source, pass, unread, blobs, manifest, staged>>
  /\ \/ policy' = source["policy"] /\ Derived(IF SchemaV2(policy') THEN "modules" ELSE "collect")
     \/ UNCHANGED policy /\ Fails /\ Return("rejected")

\* validateV2: the external modules, sorted and each with a notice of its own,
\* and the binary resources.
ValidateV2 ==
  /\ pc = "modules" /\ UNCHANGED gateVars
  /\ \/ Derived("vendorTree")
     \/ Fails /\ Return("rejected")

\* A policy names the digests of one vendor tree and one set of module sums.
Vendored(p, vendor, sums) == vendor = p /\ sums = p

\* validateVendorTree and validateModuleSums on the tree, before the
\* collection: every vendored file, the binary resources, each notice equal to
\* its distributed copy.
ValidateVendorTree ==
  /\ pc = "vendorTree" /\ UNCHANGED gateVars
  /\ IF Vendored(policy, source["vendor"], source["sums"]) /\ source["notice"] = source["vendor"]
     THEN Derived("collect") ELSE Rejected

\* collect: the files of the packages for every target, their tests, the test
\* data, the required paths and the module files; a production package without
\* a direct test is refused.
Collect ==
  /\ pc = "collect" /\ UNCHANGED <<source, pass, policy, manifest, staged>>
  /\ unread' = {f \in Files : source[f] # "none"} /\ blobs' = Nothing
  /\ \/ source["test"] # "none" /\ Derived("read")
     \/ source["test"] = "none" /\ Rejected
     \/ Fails /\ Return("rejected")

\* stableRead of one selected file: whole, or refused when it changed under
\* the read.
StableRead ==
  /\ pc = "read" /\ UNCHANGED <<source, pass, policy, manifest, staged>>
  /\ \/ \E f \in unread :
          /\ blobs' = [blobs EXCEPT ![f] = source[f]] /\ unread' = unread \ {f}
          /\ Derived(IF unread = {f} THEN "captured" ELSE "read")
     \/ Fails /\ UNCHANGED <<unread, blobs>> /\ Return("rejected")

\* Captured bytes that are not compared with what was validated.
CaptureUnbound == pc = "captured" /\ UNCHANGED gateVars /\ Derived("manifest")

\* validateCapturedV2Bindings: the captured policy is the validated one, and
\* the captured vendor tree, module list and sums are the ones it names. Under
\* the first schema nothing is compared.
ValidateCapturedBindings ==
  /\ pc = "captured" /\ UNCHANGED gateVars
  /\ IF SchemaV2(policy) => blobs["policy"] = policy /\ Vendored(policy, blobs["vendor"], blobs["sums"])
     THEN Derived("manifest") ELSE Rejected

\* The manifest of this pass.
Derivation == [files |-> blobs, policy |-> policy]

\* Generate writes the manifest to a new file outside the source tree.
Generate ==
  /\ pc = "manifest" /\ pass = 1 /\ UNCHANGED <<source, policy, unread, blobs, staged>>
  /\ \/ manifest' = Derivation /\ pass' = 2 /\ Derived("policy")
     \/ Fails /\ UNCHANGED <<manifest, pass>> /\ Return("rejected")

\* Stage goes on only with the manifest it derives itself; a stage that is not
\* complete is removed.
StageSource ==
  \/ /\ pc = "manifest" /\ pass = 2 /\ UNCHANGED gateVars
     /\ IF manifest = Derivation THEN Derived("stage") ELSE Rejected
  \/ /\ pc = "stage" /\ UNCHANGED <<source, pass, policy, unread, blobs, manifest>>
     /\ \/ staged' = blobs /\ Derived("native")
        \/ Fails /\ UNCHANGED staged /\ Return("rejected")

\* RunNativeChecks: vet, the tests and the cross builds of the staged tree.
RunNativeChecks ==
  /\ pc = "native" /\ UNCHANGED <<source, pass, policy, unread, blobs, manifest>>
  /\ \/ Works /\ UNCHANGED staged /\ Return("staged")
     \/ Fails /\ staged' = Nothing /\ Return("rejected")

GateSteps == ValidatePolicy \/ ValidateV2 \/ ValidateVendorTree \/ Collect \/ StableRead \/ ValidateCapturedBindings
             \/ Generate \/ StageSource \/ RunNativeChecks \/ EditSource
=============================================================================
