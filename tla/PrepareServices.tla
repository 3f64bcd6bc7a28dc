--------------------------- MODULE PrepareServices ---------------------------
(* The in-toto, Jaeger, Falco, Kuma, KubeVirt, Harbor, Prometheus remote     *)
(* write, Knative, MetalLB, Contour, Karmada, NATS, Envoy, CubeFS, CoreDNS,  *)
(* Emissary and OpenCost adapters.                                           *)
EXTENDS PrepareWorkloads, SequencesExt

-----------------------------------------------------------------------------
(* Command lines.                                                           *)

\* in-toto-run: one literal spelling of the whole invocation.
InTotoOptionValue(v) == v = "value"
InspectInTotoRunArgv(argv) ==
  IF /\ Len(argv) >= 7 /\ argv[1] = "in-toto-run" /\ argv[2] = "--step-name"
     /\ InTotoOptionValue(argv[3]) /\ argv[4] \in {"--key", "--signing-key"}
     /\ InTotoOptionValue(argv[5]) /\ argv[6] = "--" /\ argv[7] # ""
    THEN {IF argv[4] = "--key" THEN "legacy_key" ELSE "signing_key"} ELSE {}
InTotoStringArray(argv) == argv # <<>> /\ \A i \in DOMAIN argv : argv[i] # "odd"
PrepareInTotoRun(json, argv) ==
  IF json = "odd" THEN Rejected
  ELSE OnlyFact(IF InTotoStringArray(argv) THEN InspectInTotoRunArgv(argv) ELSE {})

\* Jaeger: one literal --config of a direct invocation is a witness; nothing
\* else says anything.
JaegerSingletonLiteral(d, argv) == d.authority = "direct" /\ argv = <<"--config=literal">>
PrepareJaeger(d, argv, pair, nonMemory, official) ==
  IF d.shape = "odd" THEN Rejected ELSE
  LET witness == pair /\ JaegerSingletonLiteral(d, argv)
  IN Prepared(witness, <<DeclaredOrMissing(witness, "true"), Flag(nonMemory), Flag(official)>>)

\* Falco and Kuma: removed options of one executable, or of one subcommand.
InspectFalcoArgv(argv, templated, json) ==
  IF ArgvRenderingUnresolved(templated) \/ json = "odd" \/ ~DeclaredArgvTokens(argv)
    THEN [surface |-> "", present |-> {}]
  ELSE IF ~ArgvExecutableMatches(argv[1]) THEN [surface |-> "other", present |-> {}]
  ELSE [surface |-> "falco", present |-> ScanRemovedArgvSpellings(Tail(argv))]
KumaInstallTransparentProxySurface(argv) ==
  Len(argv) >= 3 /\ ArgvExecutableMatches(argv[1]) /\ argv[2] = "install" /\ argv[3] = "transparent-proxy"
InspectKumaArgv(argv, templated, json) ==
  IF ArgvRenderingUnresolved(templated) \/ json = "odd" \/ ~DeclaredArgvTokens(argv)
    THEN [surface |-> "", present |-> {}]
  ELSE IF ~KumaInstallTransparentProxySurface(argv) THEN [surface |-> "other", present |-> {}]
  ELSE [surface |-> "proxy", present |-> ScanRemovedArgvSpellings(SubSeq(argv, 4, Len(argv)))]

ArgvFacts(known, dist, seen, pair) ==
  LET read == pair /\ known
      present == IF read THEN seen.present ELSE {}
  IN Prepared(present # {}, <<DeclaredOrMissing(known, dist), DeclaredIf(read /\ seen.surface # "", seen.surface),
                              Observed(present)>>)
PrepareFalcoArgv(argv, templated, json, pair, dist) ==
  ArgvFacts(dist \in {"official_upstream", "custom_build"}, dist, InspectFalcoArgv(argv, templated, json), pair)
PrepareKumaInstallTransparentProxyArgv(argv, templated, json, pair, dist) ==
  ArgvFacts(dist \in {"official_upstream", "custom_build"}, dist, InspectKumaArgv(argv, templated, json), pair)

\* Harbor's installer takes a few switches, each at most once; two of them only
\* the older target still has.
InspectHarborArgv(argv, older) ==
  LET allowed == {"with-trivy", "with-chartmuseum"} \cup (IF older THEN {"with-notary"} ELSE {})
  IN IF Range(argv) \subseteq allowed /\ Len(argv) = Cardinality(Range(argv))
       THEN {YesNo("with-chartmuseum" \in Range(argv))} ELSE {}
PrepareHarbor(d, argv, pair, older) ==
  IF d.shape = "odd" \/ d.declared = "odd" THEN Rejected
  ELSE OnlyFact(IF d.declared = "true" /\ pair THEN InspectHarborArgv(argv, older) ELSE {})

\* Emissary: options are walked with their values; the removed one ends the walk
\* as a witness, a double dash ends it without.
InspectEmissaryArgv(argv) ==
  LET n == Len(argv)
      walk[i \in 1..(n + 1), positionals \in 0..n] ==
        IF i > n THEN {"false"} ELSE
        LET hasNext == i < n /\ argv[i + 1] # "" IN
        CASE argv[i] = "--" -> {"false"}
          [] argv[i] = "--metrics-endpoint=" -> {"true"}
          [] argv[i] = "--metrics-endpoint" ->
               IF hasNext /\ argv[i + 1] \in {"word", "7"} THEN {"true"} ELSE {}
          [] argv[i] = "--host" -> IF hasNext THEN walk[i + 2, positionals] ELSE {}
          [] argv[i] = "--port" -> IF hasNext /\ argv[i + 1] = "7" THEN walk[i + 2, positionals] ELSE {}
          [] argv[i] \in {"--debug", "--host=x", "--port=7"} -> walk[i + 1, positionals]
          [] argv[i] \in {"word", "7"} /\ positionals < 3 -> walk[i + 1, positionals + 1]
          [] OTHER -> {}
  IN IF argv[1] = "diagd" THEN walk[2, 0] ELSE {}
PrepareEmissary(json, argv, pair) ==
  IF json = "odd" THEN Rejected ELSE
  LET ok == pair /\ argv # <<>> /\ \A i \in DOMAIN argv : argv[i] \notin {"", "odd"}
      found == IF ok THEN InspectEmissaryArgv(argv) ELSE {}
  IN Prepared(found # {}, <<IF found = {} THEN MissingFact ELSE Observed(found)>>)

-----------------------------------------------------------------------------
(* Kubernetes objects.                                                      *)

\* KubeVirt: each interface has exactly one of its five bindings.
KubeVirtInterfaceBindingCount(iface) == Cardinality({b \in DOMAIN iface : iface[b] = "set"})
KubeVirtBindingFact(d, interfaces) ==
  IF d.shape = "ok" /\ d.interfaces = "list" /\ \A i \in interfaces : Whole(i)
    THEN {YesNo(\E i \in interfaces : KubeVirtInterfaceBindingCount(i) # 1)} ELSE {}
PrepareKubeVirt(d, interfaces) ==
  IF d.json = "odd" THEN Rejected ELSE OnlyFact(KubeVirtBindingFact(d, interfaces))

\* Knative: one container, one port, and the port its startup probe names.
InspectKnativeServingStartupPort(d) ==
  IF /\ d.containers = "one" /\ d.port \in {"http1", "h2c"} /\ d.number = "ok" /\ d.protocol \in {"absent", "TCP"}
     /\ d.handlers = "httpGet" /\ d.probe \in {"http1", "h2c"}
    THEN {YesNo(d.probe # d.port)} ELSE {}
PrepareKnativeServing(d) ==
  IF d.json = "odd" THEN Rejected ELSE OnlyFact(InspectKnativeServingStartupPort(d))

\* MetalLB and Contour: the old and the new kind of the same thing.
MetalLBFact(d) ==
  CASE d.metadata = "ok" /\ d.kind = "ConfigMap" /\ d.body = "ok" -> {"true"}
    [] d.metadata = "ok" /\ d.kind = "IPAddressPool" /\ d.body = "ok" -> {"false"}
    [] OTHER -> {}
ContourFact(d) ==
  IF d.kind \notin {"GatewayClass", "Gateway"} \/ d.metadata # "ok"
     \/ (d.kind = "GatewayClass" /\ d.namespace # "absent") \/ (d.kind = "Gateway" /\ d.namespace # "ok") THEN {}
  ELSE CASE d.api = "x-v1alpha1" -> {"true"} [] d.api = "v1alpha2" -> {"false"} [] OTHER -> {}
PrepareNativeMigration(d, project) ==
  IF d.json = "odd" \/ project \notin {"metallb", "contour"} THEN Rejected
  ELSE OnlyFact(IF project = "metallb" THEN MetalLBFact(d) ELSE ContourFact(d))

\* Karmada: the path to purgeMode may be missing or unreadable at each step,
\* and only the two removed modes are witnesses.
InspectKarmadaPurgeMode(d) ==
  CASE d.failover = "absent" \/ (d.failover = "ok" /\ d.application = "absent") -> <<MissingFact, MissingFact>>
    [] d.failover = "odd" \/ d.application = "odd" -> <<UnsupportedFact, UnsupportedFact>>
    [] d.mode = "absent" -> <<Declared("policy"), MissingFact>>
    [] d.mode \in {"Immediately", "Graciously"} -> <<Declared("policy"), Declared("true")>>
    [] OTHER -> <<Declared("policy"), UnsupportedFact>>
PrepareKarmada(d, pair, dist, admission) ==
  IF d.shape = "odd" THEN Rejected ELSE
  LET path == IF pair THEN InspectKarmadaPurgeMode(d) ELSE <<UnsupportedFact, UnsupportedFact>>
  IN Prepared(IsDeclared(path[2]) /\ dist # "" /\ admission # "",
       <<Flag(dist), path[1], path[2],
         DeclaredOrMissing(admission # "", YesNo(admission = "required"))>>)

-----------------------------------------------------------------------------
(* Configuration files: Prometheus remote write, NATS, Envoy, CubeFS,       *)
(* CoreDNS, OpenCost.                                                       *)

\* The one entry of that name, and its own switch; a nested one is not resolved.
PrometheusRemoteWriteHTTP2(d, entries) ==
  LET mine == {i \in DOMAIN entries : entries[i].name = "n"}
      odd == \E i \in DOMAIN entries : entries[i].name = "odd" \/ entries[i].direct = "odd"
      nested == \E i \in mine : entries[i].nested
  IN IF d.yaml = "odd" \/ d.list # "ok" \/ odd \/ nested \/ Cardinality(mine) # 1 THEN {}
     ELSE {entries[i].direct : i \in mine}
PreparePrometheusRemoteWriteConfig(d, entries, pair, complete, precedence, required) ==
  LET value == IF pair /\ complete /\ precedence /\ required # "" THEN PrometheusRemoteWriteHTTP2(d, entries) ELSE {}
  IN Prepared(value # {}, <<Observed(value), DeclaredIf(value # {}, YesNo(required = "true" /\ value # {"true"}))>>)

\* NATS: the names that are set, each in one spelling and without variables.
NatsSelectedNameSpace(d, names) ==
  LET set == {k \in DOMAIN names : names[k] # "absent"}
  IN IF d.root = "odd" \/ set = {} \/ (\E k \in set : names[k] = "odd") THEN {}
     ELSE {YesNo(\E k \in set : names[k] = "space")}
PrepareNATS(d, names) ==
  IF d.escapes = "ok" /\ d.json = "odd" THEN Rejected
  ELSE OnlyFact(IF d.escapes = "ok" THEN NatsSelectedNameSpace(d, names) ELSE {})

\* Envoy: a v2 transport that is written out is a witness; nothing clears one.
EnvoyADSDirectV2(d) == d.ads = "V2"
EnvoyConfigSourceDirectV2(source) == source = "V2"
EnvoyDirectV2Transport(d) ==
  d.dynamic = "ok" /\ (EnvoyADSDirectV2(d) \/ EnvoyConfigSourceDirectV2(d.lds) \/ EnvoyConfigSourceDirectV2(d.cds))
PrepareEnvoyBootstrap(d, pair, selected) ==
  IF d.json = "odd" THEN Rejected
  ELSE OnlyFact(IF pair /\ selected /\ d.json = "object" /\ EnvoyDirectV2Transport(d) THEN {"v2"} ELSE {})

\* CubeFS: a missing guard is a known, non-zero one.
PrepareCubeFSMetaNode(d, phase) ==
  IF d.json = "odd" THEN Rejected ELSE
  LET zero == IF d.keys = "odd" \/ d.role # "metanode" \/ d.guard = "odd" THEN {}
              ELSE {YesNo(d.guard = "0")}
  IN Prepared(zero # {}, <<Observed(zero), Guard(phase)>>)

\* CoreDNS: the Corefile line by line; only a directive of a server block
\* counts, and a snippet, an import, an environment variable or unbalanced
\* braces leave it unread.
CONSTANT CoreDNSMaxNesting
CoreDNSStep(s, line) ==
  CASE ~s.ok \/ line = "blank" -> s
    [] line \in {"unsafe", "import"} -> [s EXCEPT !.ok = FALSE]
    [] s.depth = 0 -> IF line \in {"open", "federation{"} THEN [s EXCEPT !.depth = 1, !.blocks = TRUE]
                      ELSE [s EXCEPT !.ok = FALSE]
    [] line = "}" -> [s EXCEPT !.depth = @ - 1]
    [] line \in {"{", "a } b"} -> [s EXCEPT !.ok = FALSE]
    [] OTHER ->
       LET opens == line \in {"open", "federation{"}
       IN [s EXCEPT !.ok = ~opens \/ s.depth < CoreDNSMaxNesting,
                    !.federation = @ \/ (s.depth = 1 /\ line \in {"federation", "federation{"}),
                    !.depth = IF opens /\ s.depth < CoreDNSMaxNesting THEN @ + 1 ELSE @]
CoreDNSDirectFederation(lines) ==
  LET end == FoldLeft(CoreDNSStep, [ok |-> TRUE, depth |-> 0, blocks |-> FALSE, federation |-> FALSE], lines)
  IN IF end.ok /\ end.depth = 0 /\ end.blocks THEN {YesNo(end.federation)} ELSE {}
PrepareCoreDNSCorefile(lines, pair, dist, complete) ==
  LET known == dist \in {"official", "custom"}
      found == IF pair /\ complete /\ dist = "official" THEN CoreDNSDirectFederation(lines) ELSE {}
  IN Prepared(found # {}, <<DeclaredOrMissing(known, dist), Observed(found)>>)

\* OpenCost: the selected cost source before and after.  A side that leaves a
\* switch out is not read; one of the wrong type ends everything.
OpenCostSideError(s) ==
  s # {} /\ \E x \in s : x.shape = "odd" \/ x.enabled = "odd" \/ x.complete = "odd"
                         \/ (x.enabled # "absent" /\ x.complete # "absent" /\ "odd" \in {x.source, x.config})
OpenCostSideOK(s, proposed) ==
  \E x \in s : /\ x.enabled # "absent" /\ x.complete # "absent"
               /\ x.complete = "true" =>
                    /\ x.source \in {"provider_derived", "cloud_integration"}
                    /\ proposed => x.config \in {"present", "absent_text"}
                                   /\ ~(x.source = "provider_derived" /\ x.config = "present")
OpenCostTargetReady(x) == YesNo(x.source = "cloud_integration" /\ x.config = "present")
PrepareOpenCostCloudSource(d, cur, prop) ==
  IF d.shape = "odd" \/ OpenCostSideError(cur) \/ OpenCostSideError(prop) THEN Rejected ELSE
  LET curOK == OpenCostSideOK(cur, FALSE)
      propOK == OpenCostSideOK(prop, TRUE)
      Of(s, ok, F(_)) == Observed(IF ok THEN {F(x) : x \in s} ELSE {})
      Enabled(x) == x.enabled
      Complete(x) == x.complete
      Reliance(x) == YesNo(x.source = "provider_derived")
      curWhole == curOK /\ \A x \in cur : x.complete = "true"
      propWhole == propOK /\ \A x \in prop : x.complete = "true"
  IN Prepared(curWhole /\ propWhole,
       <<Of(cur, curOK, Enabled), Of(cur, curWhole, Reliance), Of(cur, curOK, Complete),
         Of(prop, propOK, Enabled), Of(prop, propOK, Complete), Of(prop, propWhole, OpenCostTargetReady)>>)
=============================================================================
