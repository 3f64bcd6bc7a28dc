-------------------------- MODULE PreparePrograms ---------------------------
(* Adapters that follow a program's own reading order: Python sources (TUF), *)
(* flag parsers (Thanos, KubeEdge, etcd), KEDA triggers, FluentD literals,   *)
(* the Kubernetes API removals, and the OpenTelemetry collector.             *)
EXTENDS PrepareResources

-----------------------------------------------------------------------------
(* The Python source reader keeps code and drops strings and comments.  A   *)
(* source is a sequence of characters: brackets, "'" for a quote, "'''" for *)
(* three, "#", "\\", "f" for a letter, " " and "nl" for the end of a line.   *)
LexicalMatchingDelimiter(open, close) == <<open, close>> \in {<<"(", ")">>, <<"[", "]">>}
LexicalStart == [quote |-> "", comment |-> FALSE, last |-> " ", stack |-> <<>>, dynamic |-> FALSE, ok |-> TRUE]
LexicalStep(s, c) ==
  CASE c = "nl" -> [s EXCEPT !.comment = FALSE, !.last = " ", !.ok = @ /\ s.quote # "'"]
    [] c # "nl" /\ s.comment -> s
    [] c # "nl" /\ ~s.comment /\ s.quote # "" ->
         [s EXCEPT !.dynamic = @ \/ c = "\\", !.last = c, !.quote = IF c = @ THEN "" ELSE @]
    [] OTHER ->
         CASE c = "#" -> [s EXCEPT !.comment = TRUE]
           [] c \in {"'", "'''"} -> [s EXCEPT !.quote = c, !.dynamic = @ \/ s.last = "f", !.last = c]
           [] c \in {"(", "["} -> [s EXCEPT !.stack = Append(@, c), !.last = c]
           [] c \in {")", "]"} ->
                IF s.stack # <<>> /\ LexicalMatchingDelimiter(Last(s.stack), c)
                  THEN [s EXCEPT !.stack = Front(@), !.last = c] ELSE [s EXCEPT !.ok = FALSE]
           [] OTHER -> [s EXCEPT !.last = c]
LexicalPythonLines(source) ==
  LET end == FoldLeft(LexicalStep, LexicalStart, Append(source, "nl"))
  IN [ok |-> end.ok /\ end.quote = "" /\ end.stack = <<>>, dynamic |-> end.dynamic]

\* The arguments of the one Updater call, bound as Python would bind them; an
\* argument is [kind, name, value].
TUFShared == <<"metadata_dir", "metadata_base_url", "target_dir", "target_base_url", "fetcher", "config">>
TUFInspectArguments(args) ==
  LET keywords == {i \in DOMAIN args : args[i].kind = "keyword"}
      given == {args[i].name : i \in keywords}
      positions == DOMAIN args \ keywords
      bound == given \cup {TUFShared[i] : i \in 1..Cardinality(positions)}
  IN IF /\ \A i \in DOMAIN args : args[i].kind \in {"keyword", "positional"} /\ args[i].value = "simple"
        /\ \A i \in positions, k \in keywords : i < k
        /\ Cardinality(positions) <= Len(TUFShared)
        /\ given \subseteq ToSet(TUFShared) \cup {"bootstrap"}
        /\ Cardinality(bound) = Len(args)
        /\ {"metadata_dir", "metadata_base_url"} \subseteq bound
       THEN {YesNo("bootstrap" \in bound)} ELSE {}
TUFInspectDirectCall(d, args) == IF d.call = "one" THEN TUFInspectArguments(args) ELSE {}
InspectTUFUpdater(d, args, dynamic) ==
  IF dynamic \/ d.import \notin {"from", "module"} \/ d.rebound = "odd" THEN {} ELSE TUFInspectDirectCall(d, args)
PrepareTUFUpdater(d, args, source) ==
  LET lexed == LexicalPythonLines(source)
  IN IF ~lexed.ok THEN Rejected ELSE OnlyFact(InspectTUFUpdater(d, args, lexed.dynamic))

-----------------------------------------------------------------------------
(* Thanos: the flag either is one of the words, or every other word shows   *)
(* that it cannot swallow it.                                               *)
LiteralFlagPresent(words) == Contains(words, "removed")
ThanosLatestLiteralFlagFact(words) ==
  IF \A i \in DOMAIN words : words[i] \in {"removed", "-x=1"} THEN {YesNo(LiteralFlagPresent(words))} ELSE {}
ThanosCommand(command, grammar) ==
  \/ grammar = "entrypoint" /\ command = "absent"
  \/ command = (IF grammar = "explicit" THEN "thanos" ELSE "/bin/thanos")
ThanosRemovedFlagFact(d, names, words, grammar) ==
  IF /\ d.shape = "ok" /\ Contains(names, "thanos") /\ ~Contains(names, "odd")
     /\ Cardinality(ToSet(names)) = Len(names)
     /\ d.image = "ok" /\ d.role \in {"receive", "store"} /\ ThanosCommand(d.command, grammar)
     /\ ~Contains(words, "odd") /\ ~Contains(words, "--")
    THEN IF grammar = "entrypoint" THEN ThanosLatestLiteralFlagFact(words) ELSE {YesNo(LiteralFlagPresent(words))}
    ELSE {}
\* grammar is what thanosReviewedTransition finds for the pair, "" for none.
PrepareThanos(d, names, words, grammar) ==
  IF d.json = "odd" THEN Rejected
  ELSE OnlyFact(IF grammar = "" THEN {} ELSE ThanosRemovedFlagFact(d, names, words, grammar))

\* KEDA: items are the triggers of all selected objects.
InspectKEDAScaledObjects(d, items) ==
  IF KubernetesDocuments(d, items) = "ok"
     /\ FirstOutside(items, {"plain", "external", "external_auth", "external_cert"}) = 0
    THEN {ToSet(items) \ {"plain"}} ELSE {}
KEDALegacyTransportFact(externals, declaration) ==
  IF externals \cap {"external_auth", "external_cert"} = {}
    THEN IF declaration = "required" THEN {} ELSE {"false"}
    ELSE IF declaration = "" THEN {} ELSE {YesNo(declaration = "required")}
PrepareKEDAScaledObject(d, items, pair, declaration, complete) ==
  LET seen == IF pair /\ complete THEN InspectKEDAScaledObjects(d, items) ELSE {}
      external == {YesNo(x # {}) : x \in seen}
      legacy == UNION {KEDALegacyTransportFact(x, declaration) : x \in seen \ {{}}}
  IN Prepared(legacy # {}, <<Observed(external), Observed(legacy)>>)

-----------------------------------------------------------------------------
(* FluentD: either the Ruby of the target, or one quoted literal.           *)
PrepareFluentDRubyTarget(d) ==
  IF d.root # "ok" \/ "odd" \in {d.distribution, d.ruby} \/ d.current # "absent" THEN Rejected ELSE
  LET known == d.distribution \in {"official", "custom"}
  IN Prepared(known /\ d.ruby = "valid", <<DeclaredIf(known, d.distribution)>>)
\* How many embedded expressions a JSON literal holds; {} when it is no such literal.
FluentDLiteralMarker(literal) == CASE literal = "plain" -> {0} [] literal = "marked" -> {1} [] OTHER -> {}
PrepareFluentDLiteral(d, pair, complete, default, preserve) ==
  IF d.root # "ok" \/ "absent" \in {d.current, d.proposed} \/ d.distribution # "absent" \/ d.ruby # "absent" THEN Rejected ELSE
  LET markers == FluentDLiteralMarker(d.current)
      ready == /\ complete /\ default /\ preserve /\ pair /\ markers # {}
               /\ d.proposed \in {"quoted", "same"}
      risk == ready /\ markers = {1} /\ d.proposed # "quoted"
  IN Prepared(ready, <<DeclaredIf(ready, YesNo(risk)), Guard(ready), Guard(ready), Guard(ready)>>)
PrepareFluentD(d, pair, complete, default, preserve) ==
  IF d.root # "ok" THEN Rejected
  ELSE IF d.current = "absent" /\ d.proposed = "absent" /\ (d.distribution # "absent" \/ d.ruby # "absent")
    THEN PrepareFluentDRubyTarget(d) ELSE PrepareFluentDLiteral(d, pair, complete, default, preserve)

-----------------------------------------------------------------------------
(* KubeEdge: an option given without "=" takes the next token, whatever it  *)
(* is.  want is the option whose value comes next.                          *)
KeadmValue(want, v) ==
  CASE want = "profile" -> IF v = "version=" THEN "legacy" ELSE "external"
    [] OTHER -> IF v = "target" THEN "flag" ELSE "unsupported"
KeadmStep(s, token) ==
  CASE s.want # "" -> [s EXCEPT !.want = "", !.seen = @ \cup {KeadmValue(s.want, token)}]
    [] s.want = "" /\ token \in {"-", "--", "-x"} -> [s EXCEPT !.ok = FALSE]
    [] s.want = "" /\ token \in {"--profile", "--kubeedge-version"} ->
         [s EXCEPT !.want = IF token = "--profile" THEN "profile" ELSE "version"]
    [] s.want = "" /\ token = "--profile=version=" -> [s EXCEPT !.seen = @ \cup {"legacy"}]
    [] s.want = "" /\ token = "--kubeedge-version=target" -> [s EXCEPT !.seen = @ \cup {"flag"}]
    [] OTHER -> s
ScanKeadmInitVersionSelectors(tokens) ==
  LET end == FoldLeft(KeadmStep, [want |-> "", seen |-> {}, ok |-> TRUE], tokens)
  IN CASE ~end.ok \/ end.want # "" -> "unresolved"
       [] end.ok /\ end.want = "" /\ "legacy" \in end.seen ->
            IF end.seen \cap {"flag", "unsupported"} # {} THEN "both"
            ELSE IF "external" \in end.seen THEN "unsupported" ELSE "legacy"
       [] OTHER -> IF end.seen \cap {"external", "unsupported"} # {} THEN "unsupported"
                   ELSE IF "flag" \in end.seen THEN "version" ELSE "neither"
KeadmInitSurface(argv) == Len(argv) >= 2 /\ ArgvExecutableMatches(argv[1]) /\ argv[2] = "init"
InspectKeadmInitArgv(argv, templated, json) ==
  CASE ArgvRenderingUnresolved(templated) \/ json = "odd" \/ ~DeclaredArgvTokens(argv) -> [surface |-> "", selector |-> ""]
    [] OTHER -> IF KeadmInitSurface(argv)
                  THEN [surface |-> "init", selector |-> ScanKeadmInitVersionSelectors(SubSeq(argv, 3, Len(argv)))]
                  ELSE [surface |-> "other", selector |-> ""]
PrepareKubeEdgeInitArgv(argv, templated, json, pair, dist, complete) ==
  LET read == pair /\ dist # "" /\ complete # ""
      seen == IF read THEN InspectKeadmInitArgv(argv, templated, json) ELSE [surface |-> "", selector |-> ""]
      selected == seen.selector \in {"legacy", "version"}
  IN Prepared(selected,
       <<Flag(dist), Flag(complete), DeclaredIf(seen.surface # "", seen.surface),
         CASE selected -> Declared(seen.selector)
           [] seen.selector = "both" -> [state |-> "conflict", value |-> ""]
           [] seen.selector = "neither" -> MissingFact
           [] OTHER -> UnsupportedFact>>)

-----------------------------------------------------------------------------
(* etcd: an argument is <<flag, value>>; every one must be understood.      *)
EtcdKnownFlags == {"data-dir"}
EtcdRemovedFlags == {"enable-v2", "proxy"}
EtcdTargetRemovedExperimentalFlags == {"experimental-corrupt-check-time"}
EtcdLatestKnownFlags == {"data-dir", "corrupt-check-time"}
ValidEtcdRemovedValue(name, value) ==
  CASE name = "enable-v2" -> value \in {"true", "false"}
    [] OTHER -> value \in {"off", "readonly", "on"}
\* The removed flags may not repeat; others may.
InspectEtcdArgv(argv) ==
  LET removed == {i \in DOMAIN argv : argv[i][1] \in EtcdRemovedFlags}
  IN [valid |-> /\ \A i \in DOMAIN argv : argv[i][1] \in EtcdKnownFlags \cup EtcdRemovedFlags /\ argv[i][2] # ""
                /\ \A i \in removed : ValidEtcdRemovedValue(argv[i][1], argv[i][2])
                /\ \A i, j \in removed : argv[i][1] = argv[j][1] => i = j,
      found |-> removed # {}]
InspectEtcdLatestArgv(argv) ==
  [valid |-> /\ \A i \in DOMAIN argv :
                  argv[i][1] \in EtcdTargetRemovedExperimentalFlags \cup EtcdLatestKnownFlags /\ argv[i][2] # ""
             /\ \A i, j \in DOMAIN argv : argv[i][1] = argv[j][1] => i = j,
   found |-> \E i \in DOMAIN argv : argv[i][1] \in EtcdTargetRemovedExperimentalFlags]
\* pair is "first", "latest" or "other".  The first pair only ever yields the
\* positive witness.
PrepareEtcd(d, argv, pair) ==
  IF "odd" \in {d.json, d.shape, d.declared} THEN Rejected
  ELSE OnlyFact(
    CASE d.declared # "true" -> {}
      [] d.declared = "true" /\ pair = "first" ->
           LET seen == InspectEtcdArgv(argv) IN IF seen.valid /\ seen.found THEN {"true"} ELSE {}
      [] d.declared = "true" /\ pair = "latest" ->
           LET seen == InspectEtcdLatestArgv(argv) IN IF seen.valid THEN {YesNo(seen.found)} ELSE {}
      [] OTHER -> {})

-----------------------------------------------------------------------------
(* Kubernetes: what each minor line removed, and which versions of the same *)
(* kinds were reviewed as still served.                                     *)
Removal(group, kinds, removed, served) == [group |-> group, kinds |-> kinds, removed |-> removed, served |-> served]
KubernetesRemovalsByTargetMinor ==
  (25 :> {Removal("policy", {"PodDisruptionBudget"}, "v1beta1", {"v1"}),
          Removal("policy", {"PodSecurityPolicy"}, "v1beta1", {}),
          Removal("autoscaling", {"HorizontalPodAutoscaler"}, "v2beta1", {"v2"})})
  @@ (26 :> {Removal("flowcontrol", {"FlowSchema", "PriorityLevelConfiguration"}, "v1beta1", {"v1beta2", "v1beta3"}),
             Removal("autoscaling", {"HorizontalPodAutoscaler"}, "v2beta2", {"v2"})})
  @@ (29 :> {Removal("flowcontrol", {"FlowSchema", "PriorityLevelConfiguration"}, "v1beta2", {"v1", "v1beta3"})})
\* Versions are <<major, minor, patch>>: exactly one minor line is crossed.
KubernetesCrossedMinorLine(from, to) == IF from[1] = to[1] /\ from[2] + 1 = to[2] THEN {to[2]} ELSE {}
KubernetesRemovalsForCrossedMinorLine(from, to) ==
  KubernetesCrossedMinorLine(from, to) \cap DOMAIN KubernetesRemovalsByTargetMinor
\* A document is [group, kind, version].
ClassifyKubernetesRemoval(documents, removal) ==
  LET versions == {x.version : x \in {y \in ToSet(documents) : y.kind \in removal.kinds /\ y.group = removal.group}}
  IN [present |-> removal.removed \in versions, unreviewed |-> ~(versions \subseteq removal.served \cup {removal.removed})]
KubernetesApplySetDocuments(d, documents) ==
  CASE d.templated = "odd" \/ d.root # "ok" -> "odd"
    [] d.templated # "odd" /\ d.root = "ok" /\ d.kind = "single" -> "ok"
    [] OTHER -> IF documents = <<>> \/ (\E i \in DOMAIN documents : documents[i].kind = "odd") THEN "odd"
                ELSE KubernetesListPagination(d)
PrepareKubernetesRemovedAPIs(d, documents, from, to, dist, required, complete) ==
  LET lines == KubernetesRemovalsForCrossedMinorLine(from, to)
      removals == UNION {KubernetesRemovalsByTargetMinor[m] : m \in lines}
      guarded == required /\ dist = "official_upstream"
      read == guarded /\ complete /\ KubernetesApplySetDocuments(d, documents) = "ok"
      class == [r \in removals |-> IF read THEN ClassifyKubernetesRemoval(documents, r) ELSE [present |-> FALSE, unreviewed |-> TRUE]]
  IN IF guarded /\ d.templated # "odd" /\ d.json = "odd" THEN Rejected
     ELSE Prepared(\A r \in removals : ~class[r].unreviewed,
            [r \in removals |-> DeclaredIf(~class[r].unreviewed, YesNo(class[r].present))])

-----------------------------------------------------------------------------
(* OpenTelemetry: component names are read exactly; a name that only looks  *)
(* like the removed exporter, or a section key in another spelling, leaves  *)
(* the configuration unread.                                                *)
OTelSafeYAMLNode(d) == d.yaml = "ok"
OTelReservedVariant(d) == d.keys = "odd"
ParseOTelComponentMap(ids) == ids # {} /\ ids \cap {"odd", "Logging"} = {}
ParseOTelService(d) == d.service # "odd" /\ d.metrics # "oddKey"
ValidateOTelPipelineRefs(refs, exporters) ==
  refs # <<>> /\ ToSet(refs) \subseteq exporters /\ Cardinality(ToSet(refs)) = Len(refs)
ParseOTelRoot(d, exporters, connectors, refs) ==
  IF /\ ~OTelReservedVariant(d) /\ ParseOTelComponentMap(exporters)
     /\ (d.connectors = "absent" \/ (ParseOTelComponentMap(connectors) /\ connectors \cap exporters = {}))
     /\ ParseOTelService(d)
     /\ (d.service = "ok" => ValidateOTelPipelineRefs(refs, exporters))
    THEN {YesNo("logging" \in exporters)} ELSE {}
ParseOpenTelemetryConfig(d, exporters, connectors, refs) ==
  IF OTelSafeYAMLNode(d) THEN ParseOTelRoot(d, exporters, connectors, refs) ELSE {}
PrepareOpenTelemetryCollector(d, exporters, connectors, refs, pair, dist, complete, precedence) ==
  LET found == IF pair /\ dist = "official" /\ complete /\ precedence
                 THEN ParseOpenTelemetryConfig(d, exporters, connectors, refs) ELSE {}
  IN Prepared(found # {}, <<DeclaredIf(dist # "", dist), Observed(found)>>)
\* Whether the default of the internal metrics is in force; {} when that is unclear.
ParseOpenTelemetryMetricsDefaultConfig(d, exporters, connectors, refs) ==
  CASE ParseOpenTelemetryConfig(d, exporters, connectors, refs) = {} -> {}
    [] OTHER -> IF d.service = "absent" THEN {"true"}
                ELSE IF d.metrics = "odd" THEN {} ELSE {YesNo(d.metrics = "absent")}
PrepareOpenTelemetryInternalMetrics(d, exporters, connectors, refs, pair, dist, gate, remote, complete, precedence) ==
  LET absent == IF pair /\ dist = "official" THEN ParseOpenTelemetryMetricsDefaultConfig(d, exporters, connectors, refs) ELSE {}
      read == absent # {}
      known == gate # "" /\ remote # ""
  IN Prepared(known /\ complete /\ precedence /\ absent = {"true"},
       <<DeclaredIf(read /\ known, YesNo(gate = "true" /\ remote = "true")), Observed(absent),
         DeclaredIf(read, YesNo(complete)), DeclaredIf(read, YesNo(precedence)),
         DeclaredIf(read /\ gate # "", gate), DeclaredIf(read /\ remote # "", remote), DeclaredIf(dist # "", dist)>>)
=============================================================================
