-------------------------- MODULE PrepareWorkloads --------------------------
(***************************************************************************)
(* What the adapters of internal/cncfprepare and internal/projectprepare   *)
(* produce from one document and the operator's declarations: facts, each  *)
(* declared with a value, missing or unsupported, and whether the input    *)
(* counts as prepared.  A document is the record of what the adapter reads *)
(* in it; each reading is a value, "absent", or "odd" for anything of the  *)
(* wrong type, duplicated, misspelt or unresolved.  Reason codes and       *)
(* omission lists are wording and are left out.                            *)
(*                                                                         *)
(* This module holds what all the adapters share and the Kyverno, Argo CD, *)
(* distribution, CNI, buildpacks, Cilium, Cloud Custodian, CloudNativePG   *)
(* and containerd adapters.                                                *)
(***************************************************************************)
EXTENDS Naturals, Sequences, FiniteSets

Rejected == [ok |-> FALSE, prepared |-> FALSE, facts |-> <<>>]
Prepared(when, facts) == [ok |-> TRUE, prepared |-> when, facts |-> facts]

Declared(v) == [state |-> "declared", value |-> v]
MissingFact == [state |-> "missing", value |-> ""]
UnsupportedFact == [state |-> "unsupported", value |-> ""]

IsDeclared(f) == f.state = "declared"
YesNo(b) == IF b THEN "true" ELSE "false"
DeclaredIf(known, v) == IF known THEN Declared(v) ELSE UnsupportedFact
DeclaredOrMissing(known, v) == IF known THEN Declared(v) ELSE MissingFact

\* An operator's declaration: "" when the flag was not given.
Flag(v) == DeclaredOrMissing(v # "", v)
Guard(b) == DeclaredIf(b, "true")

\* A key that must hold the text true or false if it is there.
BooleanKey(r) == IF r = "absent" THEN MissingFact ELSE DeclaredIf(r \in {"true", "false"}, r)

\* The one-or-nothing answer of an inspection: {} when it could not decide.
Observed(found) == IF found = {} THEN UnsupportedFact ELSE Declared(CHOOSE v \in found : TRUE)
ObservedWhen(c, found) == Observed(IF c THEN found ELSE {})
\* Nothing the adapter read in the document was odd.
Whole(d) == \A k \in DOMAIN d : d[k] # "odd"
OnlyFact(found) == Prepared(found # {}, <<Observed(found)>>)

-----------------------------------------------------------------------------
(* Kyverno: the flag of one named container of a Pod or a Deployment.       *)

\* A container with a field of the wrong type or one nobody reviewed is odd.
ParseContainer(c) == IF Whole(c) /\ c.name # "absent" THEN c.name ELSE "odd"

\* The container may be named once, and not among the init containers; the
\* first odd container, or the second of that name, ends the search.
SelectContainer(wanted, init, names) ==
  LET found == {i \in DOMAIN names : names[i] = wanted}
      odd == {i \in DOMAIN names : names[i] = "odd"}
      Before(s, t) == \E i \in s : \A j \in t : i < j
      again == {i \in found : \E j \in found : j < i}
  IN CASE wanted \in init -> "ambiguous"
       [] odd # {} /\ (again = {} \/ Before(odd, again)) -> "rejected"
       [] again # {} -> "ambiguous"
       [] found = {} -> "missing"
       [] OTHER -> "ready"

\* Every argument is the flag with a number, attached or as the next argument.
InspectReportsControllerArguments(args) ==
  LET ends == Len(args) + 1
      ok[i \in 1..ends] ==
        IF i = ends THEN TRUE
        ELSE IF args[i] = "flag=number" THEN ok[i + 1]
        ELSE args[i] = "flag" /\ i < Len(args) /\ args[i + 1] = "number" /\ ok[i + 2]
  IN IF ok[1] THEN {YesNo(args # <<>>)} ELSE {}

PrepareKyvernoScoped(d, init, names, args, pair, dist) ==
  LET selected == SelectContainer("c", init, names) IN
  IF d.shape = "odd" \/ selected = "rejected" THEN Rejected ELSE
  LET scoped == dist = "official_upstream" /\ pair
      surface == scoped /\ selected = "ready" /\ d.command = "reports-controller"
      flag == IF surface THEN InspectReportsControllerArguments(args) ELSE {}
      Unread == IF scoped /\ selected # "ready" THEN MissingFact ELSE UnsupportedFact
  IN Prepared(flag # {}, <<Flag(dist),
       IF surface THEN Declared("reports_controller") ELSE Unread,
       IF flag # {} THEN Observed(flag) ELSE Unread>>)

-----------------------------------------------------------------------------
(* Argo CD: RBAC inheritance, a plain-HTTP OCI repository, resource         *)
(* exclusions.                                                              *)
InspectArgoCDInheritance(d) ==
  IF d.data = "absent" THEN MissingFact ELSE IF d.data = "odd" THEN UnsupportedFact ELSE BooleanKey(d.key)

PrepareArgoCD(d, pair, intent) ==
  IF d.shape = "odd" THEN Rejected ELSE
  LET config == IF pair THEN InspectArgoCDInheritance(d) ELSE UnsupportedFact
  IN Prepared(IsDeclared(config) /\ intent # "", <<config, Flag(intent)>>)

\* An absent switch reads as false.
ArgoCDSecretBool(r) == IF r = "absent" THEN {"false"} ELSE {r} \cap {"true", "false"}
InspectArgoCDLatestRepository(d) ==
  LET force == ArgoCDSecretBool(d.forceHTTP)
      insecure == ArgoCDSecretBool(d.insecure)
  IN IF /\ d.shape = "ok" /\ d.type = "helm" /\ ArgoCDSecretBool(d.enableOCI) = {"true"}
        /\ d.url = "ok" /\ force # {} /\ insecure # {}
       THEN {YesNo(force = {"false"} \/ insecure = {"true"})} ELSE {}

PrepareArgoCDLatestRepository(d, pair, dist, resolved, plainHTTP) ==
  LET blocked == IF pair THEN InspectArgoCDLatestRepository(d) ELSE {}
  IN Prepared(blocked # {} /\ dist = "official_upstream" /\ resolved = "true" /\ plainHTTP = "true",
       <<Flag(dist), DeclaredIf(blocked # {}, "repository_secret"), Observed(blocked),
         Flag(resolved), Flag(plainHTTP)>>)

\* A key is found only if it is spelt exactly and once; one that differs in
\* case or spaces only makes the field unreadable.
ArgoCDExactField(exact, near) ==
  IF near > 0 \/ exact > 1 THEN "odd" ELSE IF exact = 0 THEN "absent" ELSE "found"

\* An absent key, or data, selects no exclusions; of a list that is given only
\* the empty one and the reviewed default are understood.
ArgoCDResourceExclusionsSelection(d) ==
  IF d.shape = "odd" \/ d.data = "odd" THEN {}
  ELSE IF d.data = "absent" \/ d.key = "absent" THEN {"absent"}
  ELSE {d.key} \cap {"empty", "default"}

PrepareArgoCDResourceExclusions(d, pair, complete, precedence, preserve) ==
  LET selected == ArgoCDResourceExclusionsSelection(d)
      fact == DeclaredIf(pair /\ complete /\ precedence /\ selected # {}, YesNo(selected = {"default"}))
  IN Prepared(IsDeclared(fact) /\ preserve = "true", <<DeclaredIf(preserve # "", preserve), fact>>)

-----------------------------------------------------------------------------
(* Image manifests and CNI configurations are classified by their shape; a  *)
(* manifest that mixes the keys of two generations is of neither.           *)
DistributionManifestFormat(d) ==
  CASE d.version = "1" /\ d.modern = "absent" /\ d.legacy = "ok" /\ d.media \in {"absent", "docker1"} -> {"docker_schema1"}
    [] d.version = "2" /\ d.modern = "ok" /\ d.legacy = "absent" /\ d.media = "docker2" -> {"docker_schema2"}
    [] d.version = "2" /\ d.modern = "ok" /\ d.legacy = "absent" /\ d.media = "oci" -> {"oci_image_manifest"}
    [] OTHER -> {}
PrepareDistributionManifest(d) ==
  IF d.json = "odd" THEN Rejected ELSE OnlyFact(DistributionManifestFormat(d))

CNISpecConfiguration(d) ==
  IF d.name = "odd" \/ d.version \notin {"0.4.0", "1.0.0"} \/ (d.type = "absent" <=> d.plugins = "absent") THEN {}
  ELSE IF d.type # "absent" THEN (IF d.type = "ok" THEN {"single_plugin"} ELSE {})
  ELSE IF d.plugins = "ok" /\ d.disableCheck # "odd" THEN {"plugin_list"} ELSE {}
PrepareCNISpecConfiguration(d, migration) ==
  IF d.json = "odd" THEN Rejected ELSE
  LET shape == CNISpecConfiguration(d)
  IN Prepared(shape # {} /\ migration, <<Observed(shape), Guard(migration), DeclaredIf(shape # {}, d.version)>>)

-----------------------------------------------------------------------------
(* Buildpacks: the platform APIs a lifecycle image says it supports.        *)
KnownSelectedPlatformAPI(api, current) == api \in (IF current THEN {"0.11"} ELSE {"0.12", "0.13"})

InspectLifecycleConfig(d, supported, deprecated, api) ==
  IF /\ d.version = "same" /\ d.metadata \in {"absent", "same"} /\ d.apis = "ok"
     /\ supported # {} /\ deprecated \subseteq supported
    THEN {YesNo(api \in supported)} ELSE {}

BuildpacksFacts(support, api, known) == <<ObservedWhen(known, support), DeclaredIf(known, api)>>

PrepareBuildpacksLifecycle(cur, prop, curAPI, propAPI) ==
  LET curKnown == KnownSelectedPlatformAPI(curAPI, TRUE)
      propKnown == KnownSelectedPlatformAPI(propAPI, FALSE)
  IN Prepared(cur # {} /\ prop # {} /\ curKnown /\ propKnown,
       BuildpacksFacts(cur, curAPI, curKnown) \o BuildpacksFacts(prop, propAPI, propKnown))

-----------------------------------------------------------------------------
(* Cilium: one non-empty requires field is a witness whatever else the      *)
(* document holds; that there is none needs a whole, well-formed, complete  *)
(* set.                                                                     *)
CiliumListPartial(d) ==
  [malformed |-> d.continue = "odd" \/ d.remaining = "odd",
   partial |-> d.continue = "more" \/ d.remaining = "more"]

CiliumRule(fields) == [witness |-> "nonempty" \in fields, malformed |-> "odd" \in fields]
\* Only a generic list may hold objects of other kinds, which say nothing.
CiliumPolicy(p, generic) ==
  CASE p.type = "policy" -> CiliumRule(p.fields)
    [] p.type = "other" /\ generic -> [witness |-> FALSE, malformed |-> FALSE]
    [] OTHER -> [witness |-> FALSE, malformed |-> TRUE]

CiliumDocument(d, items) ==
  LET list == d.kind \in {"List", "PolicyList"}
      parts == {CiliumPolicy(p, d.kind = "List") : p \in items}
      page == CiliumListPartial(d)
  IN IF d.kind = "odd" THEN [witness |-> FALSE, malformed |-> TRUE, partial |-> FALSE] ELSE
     [witness |-> \E p \in parts : p.witness,
      malformed |-> (\E p \in parts : p.malformed) \/ (list /\ page.malformed),
      partial |-> list /\ ~page.malformed /\ page.partial]

PrepareCilium(d, items, pair, complete) ==
  LET seen == CiliumDocument(d, items)
      found == CASE ~pair -> {}
                 [] seen.witness -> {"true"}
                 [] seen.malformed \/ seen.partial \/ complete # "true" -> {}
                 [] OTHER -> {"false"}
  IN Prepared(found # {}, <<IF found = {} THEN MissingFact ELSE Observed(found)>>)

\* The cluster name of a ConfigMap, spelt in no second way in its binary data.
CiliumConfigMapClusterName(d) ==
  IF d.shape = "ok" /\ d.data = "ok" /\ d.binary \in {"absent", "ok"} /\ d.name \in {"valid", "invalid"}
    THEN {YesNo(d.name = "invalid")} ELSE {}
PrepareCiliumClusterName(d, dist, complete, precedence) ==
  OnlyFact(IF dist = "official_upstream" /\ complete /\ precedence THEN CiliumConfigMapClusterName(d) ELSE {})

-----------------------------------------------------------------------------
(* Cloud Custodian: one policy on IAM access keys with no filter, or with   *)
(* the one json-diff filter.  CloudNativePG: the cluster reference of one   *)
(* resource before and after.  containerd: the runtime of one handler.      *)
CloudCustodianPolicy(d) == d.policies = "one" /\ d.name = "ok" /\ d.resource = "iam-access-key" /\ d.vars = "absent"
CloudCustodianJsonDiff(f) ==
  /\ f.type = "json-diff" /\ f.selector \in {"previous", "date", "locked"} /\ f.extra = "absent"
  /\ f.value # "absent" => f.selector = "date" /\ f.value = "ok"
PrepareCloudCustodian(d, filters, pair) ==
  IF d.json = "odd" THEN Rejected ELSE
  OnlyFact(CASE ~pair \/ ~CloudCustodianPolicy(d) \/ d.filters # "list" -> {}
             [] filters = <<>> -> {"false"}
             [] Len(filters) = 1 /\ CloudCustodianJsonDiff(filters[1]) -> {"true"}
             [] OTHER -> {})

CNPGObject(o) == o.kind = "ok" /\ o.id # "odd" /\ o.cluster # "odd"
SameCNPGIdentity(a, b) == a.id = b.id
PrepareCloudNativePG(envelope, cur, prop) ==
  IF envelope = "odd" THEN Rejected ELSE
  OnlyFact(IF CNPGObject(cur) /\ CNPGObject(prop) /\ SameCNPGIdentity(cur, prop)
             THEN {YesNo(cur.cluster # prop.cluster)} ELSE {})

\* The handler must not also be defined for the plugin of the other version.
ContainerdPluginDefinesHandler(d) == d.other = "defined"
ParseContainerdSelectedRuntime(d) ==
  IF /\ d.imports = "absent" /\ d.version = "ok" /\ ~ContainerdPluginDefinesHandler(d)
     /\ d.handler = "ok" /\ d.path = "absent"
    THEN CASE d.runtime \in {"v1.linux", "runc.v1"} -> {"true"} [] d.runtime = "runc.v2" -> {"false"} [] OTHER -> {}
    ELSE {}
PrepareContainerdConfig(d, complete, precedence, official, bundled) ==
  IF d.toml = "odd" THEN Rejected ELSE
  LET removed == IF complete /\ precedence /\ official /\ bundled THEN ParseContainerdSelectedRuntime(d) ELSE {}
  IN Prepared(removed # {}, <<Guard(bundled), Guard(official), Observed(removed)>>)

-----------------------------------------------------------------------------
(* Declared command lines, for the adapters that look for removed options.  *)
CONSTANT MaxDeclaredArgvTokens
DeclaredArgvTokens(items) ==
  Len(items) \in 1..MaxDeclaredArgvTokens /\ \A i \in DOMAIN items : items[i] \notin {"", "odd"}

\* A scan that takes a clustered short option for a harmless one.
ScanIgnoringClusters(tokens) ==
  LET kinds == {tokens[i] : i \in DOMAIN tokens}
  IN IF kinds \cap {"-", "--"} # {} THEN {} ELSE {YesNo(kinds \cap {"removed", "--removed=value"} # {})}
\* Every token is looked at.  A bare dash or a clustered short option may hide
\* a removed spelling: then nothing is concluded.
ScanRemovedArgvSpellings(tokens) ==
  LET kinds == {tokens[i] : i \in DOMAIN tokens}
  IN IF kinds \cap {"-", "--", "-cluster"} # {} THEN {}
     ELSE {YesNo(kinds \cap {"removed", "--removed=value"} # {})}
ArgvExecutableMatches(token) == token \in {"name", "path/name"}
ArgvRenderingUnresolved(marker) == marker
=============================================================================
