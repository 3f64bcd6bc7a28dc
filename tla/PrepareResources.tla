-------------------------- MODULE PrepareResources --------------------------
(* Adapters that read Kubernetes resources or lists of them, and the rest of *)
(* the command lines and configuration files: Alertmanager, Prometheus       *)
(* scrape jobs, Strimzi, Crossplane, Velero, Kubernetes flow control, Flux,  *)
(* Cortex, SPIRE, OpenFGA, CRI-O, Tekton, Kubeflow, Linkerd.                 *)
EXTENDS PrepareServices

-----------------------------------------------------------------------------
(* A List is read when it names its items and is not one page of several.   *)
KubernetesListPagination(d) == IF d.page = "odd" THEN "odd" ELSE IF d.page = "more" THEN "paginated" ELSE "ok"
KubernetesGVK(root) == root = "ok"
\* The gate the adapters below share; "ok" means every document can be looked at.
KubernetesDocuments(d, items) ==
  IF d.templated = "odd" \/ d.json = "odd" \/ ~KubernetesGVK(d.root) THEN "odd"
  ELSE IF d.kind = "single" THEN "ok"
  ELSE IF items = <<>> THEN "odd" ELSE KubernetesListPagination(d)
\* The documents up to the first that the adapter does not understand.
FirstOutside(items, understood) == SelectInSeq(items, LAMBDA x : x \notin understood)

InspectStrimziKafkaResources(d, items) ==
  LET stop == FirstOutside(items, {"v1beta2", "v1"})
  IN IF KubernetesDocuments(d, items) # "ok" THEN [surface |-> "", present |-> {}]
     ELSE IF stop # 0 THEN [surface |-> IF items[stop] = "other" THEN "other" ELSE "", present |-> {}]
     ELSE [surface |-> "kafka", present |-> {YesNo(Contains(items, "v1beta2"))}]
PrepareStrimziKafkaResource(d, items, pair, dist, admission) ==
  LET known == dist \in {"official_upstream", "custom_build"}
      seen == InspectStrimziKafkaResources(d, items)
      read == pair /\ known
  IN Prepared(read /\ seen.present # {},
       <<DeclaredOrMissing(known, dist), DeclaredIf(read /\ seen.surface # "", seen.surface),
         ObservedWhen(read, seen.present), Declared(YesNo(admission))>>)

InspectCrossplaneCompositions(d, items) ==
  IF KubernetesDocuments(d, items) = "ok" /\ FirstOutside(items, {"Resources", "Pipeline"}) = 0
    THEN {IF Contains(items, "Resources") THEN "resources" ELSE "pipeline"} ELSE {}
PrepareCrossplaneComposition(d, items, pair, dist, required) ==
  LET known == dist \in {"official_upstream", "custom_build"}
      mode == IF pair /\ known THEN InspectCrossplaneCompositions(d, items) ELSE {}
  IN Prepared(mode # {}, <<Observed(mode), DeclaredOrMissing(known, dist), Declared(YesNo(required))>>)

\* Velero: every CRD of its group comes before its one server.
InspectVeleroUpgradePlan(d, items) ==
  LET servers == {i \in DOMAIN items : items[i] = "server"}
      crds == {i \in DOMAIN items : items[i] = "crd"}
  IN IF /\ KubernetesDocuments(d, items) = "ok" /\ ~Contains(items, "odd")
        /\ Cardinality(servers) = 1 /\ crds # {}
       THEN {YesNo(\A c \in crds, s \in servers : c < s)} ELSE {}
PrepareVeleroUpgradePlan(d, items, pair, ordered) ==
  OnlyFact(IF pair /\ ordered THEN InspectVeleroUpgradePlan(d, items) ELSE {})

\* Kubernetes flow control: documents of other kinds say nothing; an API of the
\* group that nobody reviewed leaves the whole set unread.
InspectKubernetesFlowControl(d, items, complete) ==
  IF /\ complete /\ KubernetesDocuments(d, items) = "ok"
     /\ FirstOutside(items, {"v1beta3", "v1", "other"}) = 0
    THEN {YesNo(Contains(items, "v1beta3"))} ELSE {}
PrepareKubernetesFlowControl(d, items, dist, required, complete) ==
  IF ~required \/ dist # "official_upstream" THEN OnlyFact({})
  ELSE IF d.templated # "odd" /\ d.json = "odd" THEN Rejected
  ELSE OnlyFact(InspectKubernetesFlowControl(d, items, complete))

\* Flux: a removed API is a witness even in one page of a list; that there is
\* none needs the whole declared set.
FluxListPaginated(d) == d.page # "whole"
FluxResourceAPIFor(item, latest) ==
  CASE item \in {"removed", "other"} -> {YesNo(item = "removed")}
    [] item = "removed_latest" -> {YesNo(latest)}
    [] item = "served" -> {"false"}
    [] item = "unserved" /\ ~latest -> {"false"}
    [] OTHER -> {}
FluxRemovedAPIFor(d, items, latest) ==
  LET read == [i \in DOMAIN items |-> FluxResourceAPIFor(items[i], latest)]
      shape == d.root = "ok" /\ items # <<>> /\ (\A i \in DOMAIN items : read[i] # {})
  IN [shape |-> shape, removed |-> shape /\ (\E i \in DOMAIN items : read[i] = {"true"}),
      paginated |-> d.kind = "List" /\ FluxListPaginated(d)]
PrepareFlux(d, items, complete, latest, origin) ==
  IF d.json = "odd" THEN Rejected ELSE
  LET seen == FluxRemovedAPIFor(d, items, latest)
  IN OnlyFact(CASE latest /\ ~origin -> {}
                [] seen.removed -> {"true"}
                [] seen.shape /\ complete /\ ~seen.paginated -> {"false"}
                [] OTHER -> {})

-----------------------------------------------------------------------------
(* YAML configurations: one spelling of each key, nothing nested or dotted. *)
PrometheusAlertmanagerAPISelection(d) ==
  IF d.yaml = "ok" /\ d.wrapper = "absent" /\ d.nested = "absent" /\ d.version # "odd"
     /\ (d.version # "absent" \/ d.selected = "ok")
    THEN {IF d.version = "absent" THEN "default_v2" ELSE d.version} ELSE {}
PreparePrometheusAlertmanagerConfig(d, pair, complete, precedence) ==
  OnlyFact(IF pair /\ complete /\ precedence THEN PrometheusAlertmanagerAPISelection(d) ELSE {})

PrometheusScrapeKey(d) ==
  IF d.yaml = "ok" /\ d.nested = "absent" /\ d.job = "selected" /\ d.old # "odd" /\ d.new # "odd"
     /\ (d.old = "absent" <=> d.new # "absent")
    THEN {IF d.old # "absent" THEN "old_key" ELSE "new_key"} ELSE {}
PreparePrometheusScrapeConfig(d, pair, complete, precedence) ==
  OnlyFact(IF pair /\ complete /\ precedence THEN PrometheusScrapeKey(d) ELSE {})

\* Tekton: an absent protocol is not prometheus; another one is not concluded on.
InspectTektonConfigObservability(d) ==
  IF d.shape = "odd" \/ d.namespace # "bound" \/ d.binary = "odd" \/ d.data = "odd" THEN [bound |-> FALSE, found |-> {}]
  ELSE [bound |-> TRUE,
        found |-> CASE d.data = "absent" \/ d.protocol = "absent" -> {"false"}
                    [] d.protocol = "prometheus" -> {"true"}
                    [] OTHER -> {}]
PrepareTektonConfigObservability(d, pair, dist, named, complete, retain) ==
  LET guarded == pair /\ dist # "" /\ named /\ complete # "" /\ retain # ""
      seen == IF guarded THEN InspectTektonConfigObservability(d) ELSE [bound |-> FALSE, found |-> {}]
  IN Prepared(seen.found # {},
       <<Guard(seen.bound), Flag(dist), Flag(complete), Observed(seen.found), Flag(retain)>>)

\* OpenFGA: a relevant key in two spellings is never resolved.
OpenFGAFields(d) ==
  IF d.authn # "ok" \/ d.method # "oidc" \/ "odd" \in {d.oidc, d.issuer, d.audience} THEN {}
  ELSE {YesNo(d.oidc = "absent" \/ d.issuer # "set" \/ d.audience # "set")}
PrepareOpenFGAOIDC(d, complete) ==
  IF d.json = "odd" THEN Rejected
  ELSE OnlyFact(IF complete = "true" /\ d.keys # "odd" THEN OpenFGAFields(d) ELSE {})

\* CRI-O: a tagged reference is a short name or one with a registry.
ClassifyCRIOReference(ref) == IF ref \in {"short", "qualified"} THEN {YesNo(ref = "short")} ELSE {}
PrepareCRIOArtifactName(d, planned) ==
  IF d.json = "odd" THEN Rejected ELSE
  LET short == IF d.keys = "odd" THEN {} ELSE ClassifyCRIOReference(d.ref)
  IN Prepared(short # {}, <<Guard(planned), Observed(short)>>)

-----------------------------------------------------------------------------
(* Command lines and sources.                                               *)
CortexLiteralAtModifierFlag(args) ==
  IF \A i \in DOMAIN args : args[i] \in {"removed", "-x=1"} THEN {YesNo(Contains(args, "removed"))} ELSE {}
\* The one container called cortex, of the reviewed image.
CortexRemovedFlagFact(d, names, args) ==
  IF /\ d.shape = "ok" /\ Contains(names, "cortex") /\ ~Contains(names, "odd")
     /\ Cardinality(ToSet(names)) = Len(names)
     /\ d.args = "list" /\ d.image = "ok" /\ d.command \in {"absent", "ok"}
    THEN CortexLiteralAtModifierFlag(args) ELSE {}
PrepareCortex(d, names, args, pair) ==
  IF d.json = "odd" THEN Rejected ELSE
  LET found == IF pair THEN CortexRemovedFlagFact(d, names, args) ELSE {}
  IN Prepared(found # {}, <<DeclaredIf(found # {}, "official_upstream"), DeclaredIf(found # {}, "cortex"), Observed(found)>>)

\* SPIRE options are whole words, so only a bare dash can hide the removed one.
ScanSpireRemovedTTLSpellings(tokens) ==
  IF Contains(tokens, "-") \/ Contains(tokens, "--") THEN {}
  ELSE {YesNo(Contains(tokens, "removed") \/ Contains(tokens, "--removed=value"))}
SpireEntryCreateSurface(argv) ==
  Len(argv) >= 3 /\ ArgvExecutableMatches(argv[1]) /\ argv[2] = "entry" /\ argv[3] = "create"
InspectSpireEntryCreateArgv(argv, templated, json) ==
  IF ArgvRenderingUnresolved(templated) \/ json = "odd" \/ ~DeclaredArgvTokens(argv)
    THEN [surface |-> "", present |-> {}]
  ELSE IF ~SpireEntryCreateSurface(argv) THEN [surface |-> "other", present |-> {}]
  ELSE [surface |-> "entry_create", present |-> ScanSpireRemovedTTLSpellings(SubSeq(argv, 4, Len(argv)))]
PrepareSpireEntryCreateArgv(argv, templated, json, pair, dist) ==
  ArgvFacts(dist \in {"official_upstream", "custom_build"}, dist, InspectSpireEntryCreateArgv(argv, templated, json), pair)

\* Kubeflow: the import binds the decorator that the one definition uses, and
\* nothing in its parameters or body touches the binding.
KubeflowDecoratorMatches(d) == d.decorator = d.import
KubeflowParametersAdmitted(params) == params \in {"none", "distinct"}
KubeflowSimpleExpression(line) == line = "return simple"
InspectKubeflowKFP(d, body) ==
  IF /\ d.strings = "ok" /\ d.import \in {"legacy", "modern"} /\ KubeflowDecoratorMatches(d)
     /\ d.definition = "ok" /\ KubeflowParametersAdmitted(d.params) /\ body # <<>>
     /\ \A i \in DOMAIN body : body[i] = "pass" \/ KubeflowSimpleExpression(body[i])
    THEN {d.import} ELSE {}
PrepareKubeflowKFP(d, body) == IF d.lexed = "odd" THEN Rejected ELSE OnlyFact(InspectKubeflowKFP(d, body))

\* Linkerd: one of the two selectors; both at once is a conflict.
LinkerdSelector(d) ==
  CASE d.identities # "absent" /\ d.refs # "absent" -> [state |-> "conflict", value |-> ""]
    [] d.identities # "absent" -> Declared(YesNo(d.identities = "empty"))
    [] d.refs # "absent" -> Declared(YesNo(d.refs = "empty"))
    [] OTHER -> MissingFact
PrepareLinkerd(d, pair, dist, schema) ==
  IF ~Whole(d) THEN Rejected ELSE
  LET selector == IF pair THEN LinkerdSelector(d) ELSE UnsupportedFact
  IN Prepared(IsDeclared(selector) /\ dist # "" /\ schema # "",
       <<Flag(dist), Declared("policy"), selector, DeclaredOrMissing(schema # "", YesNo(schema = "required"))>>)
=============================================================================
