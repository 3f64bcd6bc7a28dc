----------------------------- MODULE Publisher ------------------------------
(***************************************************************************)
(* The offline publication of a knowledge package: keys and a first root,  *)
(* root transitions, the three roles prepared, signed and finalized one    *)
(* after the other in separate calls over files that an operator carries,  *)
(* and the package. A reference by digest is the referenced document.      *)
(***************************************************************************)
EXTENDS Writer, FiniteSets

CONSTANTS Keys,            \* the signing keys
          Templates,       \* the key sets and thresholds a root may give
          Bundles,         \* the constraint bundles to publish
          MaxRootVersion,  \* root transitions stop here
          MaxPrepares      \* roles prepared in one behaviour

VARIABLES keyFiles,  \* files in the key directory: four keys, then the root
          roots,     \* the finalized roots
          target,    \* the bundle that is being published
          unsigned,   \* the unsigned role that was prepared last
          envelope,  \* the signatures that came back last
          signed,    \* the finalized roles
          prepares   \* roles prepared so far

publishVars == <<keyFiles, roots, target, unsigned, envelope, signed, prepares>>

Roles == {"targets", "snapshot", "timestamp"}
\* The client follows as many root versions as FinalizeRotatedPackage admits.
MaxSuccessorRoots == 8
Consumer == INSTANCE TUFRefresh WITH MaxRootRotations <- 8

NoDoc == [v |-> 0]
Filed(d) == d.v > 0

PublishInit ==
  /\ keyFiles = 0 /\ roots = {}
  /\ target = CHOOSE b \in Bundles : TRUE
  /\ unsigned = NoDoc /\ envelope = NoDoc /\ signed = [r \in Roles |-> NoDoc]
  /\ prepares = 0

-----------------------------------------------------------------------------
(* Roots.                                                                   *)

\* go-tuf VerifyDelegate: distinct authorized keys with a valid signature
VerifyDelegate(root, role, by) == Cardinality(by \cap root.keys[role]) >= root.need[role]

RootPolicy(t) == \A r \in Roles \cup {"root"} : t.need[r] \in 1..Cardinality(t.keys[r])
AdmitRoot(root) == RootPolicy(root) /\ VerifyDelegate(root, "root", root.by)

\* A root of version v with the keys of a template, signed by some keys.
Root(v, t, by) == [v |-> v, keys |-> t.keys, need |-> t.need, by |-> by]

\* Init: one key per role, each file created and synced, the root file last.
InitTemplate == CHOOSE t \in Templates : \A r \in DOMAIN t.need : t.need[r] = 1
InitKeys ==
  /\ pc = "init" /\ UNCHANGED <<target, unsigned, envelope, signed, prepares>>
  /\ \/ /\ keyFiles' = keyFiles + 1 /\ Works
        /\ IF keyFiles = 4
           THEN /\ roots' = {Root(1, InitTemplate, InitTemplate.keys["root"])}
                /\ Go("ceremony")
           ELSE UNCHANGED roots /\ Go("init")
     \/ Fails /\ Return("err") /\ UNCHANGED <<keyFiles, roots>>

\* prepareRootTransition: the template as the next version, unsigned. It reads
\* no other state, so who prepared it when does not matter.
PrepareRootTransition(old, t) == Root(old.v + 1, t, {})

\* SignRootTransition: a key of the authority it is to sign for
SignRootTransition(old, new, k) == k \in old.keys["root"] \/ k \in new.keys["root"]

\* validateRootContributions: only keys of the two authorities, and enough of
\* each.
ValidateRootContributions(old, new, by) ==
  /\ \A k \in by : SignRootTransition(old, new, k)
  /\ VerifyDelegate(old, "root", by) /\ VerifyDelegate(new, "root", by)

\* go-tuf UpdateRoot
UpdateRoot(old, new) ==
  /\ new.v = old.v + 1
  /\ VerifyDelegate(old, "root", new.by) /\ VerifyDelegate(new, "root", new.by)

\* FinalizeRootTransition, with whichever signatures came back
FinalizeRootTransition ==
  /\ pc = "ceremony" /\ Go("ceremony") /\ Works
  /\ \E old \in roots, t \in Templates, by \in SUBSET Keys :
       /\ old.v < MaxRootVersion /\ AdmitRoot(old) /\ RootPolicy(t)
       /\ ValidateRootContributions(old, PrepareRootTransition(old, t), by)
       /\ \E new \in {[PrepareRootTransition(old, t) EXCEPT !.by = by]} :
            UpdateRoot(old, new) /\ AdmitRoot(new) /\ roots' = roots \cup {new}
  /\ UNCHANGED <<keyFiles, target, unsigned, envelope, signed, prepares>>

-----------------------------------------------------------------------------
(* Roles.                                                                   *)

\* The operator goes on with another bundle.
ChangeTarget ==
  /\ pc = "ceremony" /\ edits < MaxEdits /\ edits' = edits + 1 /\ UNCHANGED <<pc, result, faults>>
  /\ target' \in Bundles \ {target}
  /\ UNCHANGED <<keyFiles, roots, unsigned, envelope, signed, prepares>>

\* A snapshot of which only the shape is checked.
SnapshotUnpinned(d, targets) == Filed(d)

\* validateTargets, validateSnapshot, validateTimestamp: the one reference is
\* the file itself.
ValidateTargets(d, bundle) == d.pin = bundle
ValidateSnapshot(d, targets) == d.pin = targets
ValidateTimestamp(d, snapshot) == d.pin = snapshot

AdmitTargets(root, targets, bundle) ==
  Filed(targets) /\ VerifyDelegate(root, "targets", targets.by) /\ ValidateTargets(targets, bundle)
AdmitTargetsSnapshot(root, targets, snapshot, bundle) ==
  /\ AdmitTargets(root, targets, bundle)
  /\ Filed(snapshot) /\ VerifyDelegate(root, "snapshot", snapshot.by)

\* prepare: the unsigned role and its request, under a version not used before
Prepare(role, pin) ==
  /\ unsigned' = [role |-> role, v |-> prepares + 1, pin |-> pin]
  /\ prepares < MaxPrepares /\ prepares' = prepares + 1
  /\ pc = "ceremony" /\ Go("ceremony") /\ Works
  /\ UNCHANGED <<keyFiles, roots, target, envelope, signed>>

PrepareTargets(root) == AdmitRoot(root) /\ Prepare("targets", target)
PrepareSnapshot(root) ==
  /\ AdmitRoot(root) /\ AdmitTargets(root, signed["targets"], target)
  /\ Prepare("snapshot", signed["targets"])
PrepareTimestamp(root) ==
  /\ AdmitRoot(root)
  /\ AdmitTargetsSnapshot(root, signed["targets"], signed["snapshot"], target)
  /\ ValidateSnapshot(signed["snapshot"], signed["targets"])
  /\ Prepare("timestamp", signed["snapshot"])

\* FinalizeRole: the envelope is of this role and this payload, and its
\* signatures reach the threshold.
Finalizes(root, doc, of, by) ==
  AdmitRoot(root) /\ of.role = doc.role /\ of = doc /\ VerifyDelegate(root, doc.role, by)

\* SignRole: the envelope of one key, if the publisher would finalize it
SignRole ==
  /\ pc = "ceremony" /\ Go("ceremony") /\ Works /\ Filed(unsigned)
  /\ \E root \in roots, k \in Keys :
       Finalizes(root, unsigned, unsigned, {k}) /\ envelope' = [v |-> 1, of |-> unsigned, by |-> {k}]
  /\ UNCHANGED <<keyFiles, roots, target, unsigned, signed, prepares>>

\* Signers elsewhere answer the request with several keys.
ExternalSignatures ==
  /\ pc = "ceremony" /\ Go("ceremony") /\ Works /\ Filed(unsigned)
  /\ \E by \in SUBSET Keys : by # {} /\ envelope' = [v |-> 1, of |-> unsigned, by |-> by]
  /\ UNCHANGED <<keyFiles, roots, target, unsigned, signed, prepares>>

FinalizeRole ==
  /\ pc = "ceremony" /\ Go("ceremony") /\ Works /\ Filed(unsigned) /\ Filed(envelope)
  /\ \E root \in roots : Finalizes(root, unsigned, envelope.of, envelope.by)
  /\ signed' = [signed EXCEPT ![unsigned.role] = [v |-> unsigned.v, pin |-> unsigned.pin, by |-> envelope.by]]
  /\ UNCHANGED <<keyFiles, roots, target, unsigned, envelope, prepares>>

-----------------------------------------------------------------------------
(* The package.                                                             *)

\* One file per version, none of them the initial one.
Members(initial) ==
  {m \in SUBSET roots : \A r \in m, x \in m \cup {initial} : r.v = x.v => r = x /\ x # initial}
Newest(initial, members) == CHOOSE r \in members \cup {initial} : \A x \in members : x.v <= r.v

\* admitSuccessorRoots: consecutive, each accepted after the one before it
AdmitSuccessorRoots(initial, members) ==
  \A r \in members : AdmitRoot(r) /\ \E old \in members \cup {initial} : UpdateRoot(old, r)

\* What finalizeAdmittedPackage checks itself, under the newest root.
Admits(initial, members) ==
  /\ AdmitRoot(initial) /\ Cardinality(members) <= MaxSuccessorRoots /\ AdmitSuccessorRoots(initial, members)
  /\ \E root \in {Newest(initial, members)} :
       /\ AdmitTargetsSnapshot(root, signed["targets"], signed["snapshot"], target)
       /\ ValidateSnapshot(signed["snapshot"], signed["targets"])
       /\ Filed(signed["timestamp"]) /\ VerifyDelegate(root, "timestamp", signed["timestamp"].by)
       /\ ValidateTimestamp(signed["timestamp"], signed["snapshot"])

\* The same documents as the consumer reads them: a role has the key of the
\* newest root when enough of the keys that root names signed it.
KeyOf(root, role, d) == IF VerifyDelegate(root, role, d.by) THEN "authorized" ELSE "other"
Life(role, late) == IF role \in late THEN 0 ELSE 1
ReadRoot(r, linked) == [v |-> r.v, exp |-> 1, uk |-> "authorized", tk |-> "authorized", linked |-> linked]
ReadTargets(root, d, late) ==
  [v |-> d.v, exp |-> Life("targets", late), by |-> d.by, key |-> KeyOf(root, "targets", d), bundle |-> d.pin]
ReadSnapshot(root, d, late) ==
  [v |-> d.v, exp |-> Life("snapshot", late), by |-> d.by, key |-> KeyOf(root, "snapshot", d),
   tg |-> ReadTargets(root, d.pin, late)]
ReadTimestamp(root, d, late) ==
  [v |-> d.v, exp |-> Life("timestamp", late), by |-> d.by, key |-> KeyOf(root, "timestamp", d),
   sn |-> ReadSnapshot(root, d.pin, late)]

\* PackageDirectory: the members of the repository
PackageDirectory(initial, members, late) ==
  LET root == Newest(initial, members) IN
  [roots |-> {ReadRoot(r, \E old \in members \cup {initial} : UpdateRoot(old, r)) : r \in members},
   ts |-> ReadTimestamp(root, signed["timestamp"], late), sn |-> ReadSnapshot(root, signed["snapshot"], late),
   tg |-> ReadTargets(root, signed["targets"], late), bundle |-> target]

\* VerifyConstraints from the initial root, without a store
ConsumerAccepts(initial, members, late) ==
  \E pkg \in {PackageDirectory(initial, members, late)}, boot \in {ReadRoot(initial, TRUE)} :
    \E got \in {Consumer!VerifyPackage(Consumer!None, pkg, boot, 1)} :
      got.refresh = "none" /\ ~got.lost /\ Consumer!AllMembersUsed(Consumer!None, pkg, boot, got.state)

\* FinalizePackage and FinalizeRotatedPackage: some roles may have expired by
\* then, which only the consumer's verification looks at.
FinalizePackage ==
  /\ pc = "ceremony" /\ Works /\ Return("issued") /\ UNCHANGED publishVars
  /\ \E initial \in roots, late \in SUBSET Roles : \E members \in Members(initial) :
       Admits(initial, members) /\ ConsumerAccepts(initial, members, late)

PublishSteps ==
  \/ InitKeys \/ FinalizeRootTransition \/ ChangeTarget
  \/ \E root \in roots : PrepareTargets(root) \/ PrepareSnapshot(root) \/ PrepareTimestamp(root)
  \/ SignRole \/ ExternalSignatures \/ FinalizeRole \/ FinalizePackage
=============================================================================
