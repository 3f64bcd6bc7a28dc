---------------------------- MODULE PrepareCases ----------------------------
(***************************************************************************)
(* Bounded documents, command lines and declarations for the adapters of    *)
(* the Prepare modules, from PrepareWorkloads to PrepareProjects. Each case *)
(* records beside the adapter's answer what the input really holds: whether *)
(* it shows that the removed or renamed thing is there, and whether it is   *)
(* whole and shows that it is not.                                          *)
(***************************************************************************)
EXTENDS PrepareProjects, Cases

\* The answer of an adapter; main is the index of the fact that the upgrade
\* turns on, and clear are its harmless values.
Preparing(name, in, r, main, clear, absent, present) ==
  Case(name, in, [prepared |-> r.prepared,
                  fact |-> IF r.ok THEN r.facts[main] ELSE UnsupportedFact,
                  clear |-> clear, absent |-> absent, present |-> present])
PrepareOps == {"kyverno", "argocd", "argocd_latest", "argocd_exclusions", "distribution", "cni", "buildpacks",
  "cilium", "cilium_name", "cloudcustodian", "cnpg", "containerd", "intoto", "jaeger", "falco", "kuma", "harbor",
  "emissary", "kubevirt", "knative", "metallb", "contour", "karmada", "prometheus_write", "nats", "envoy", "cubefs",
  "coredns", "opencost", "strimzi", "crossplane", "velero", "flowcontrol", "flux", "alertmanager", "scrape",
  "tekton", "openfga", "crio", "cortex", "spire", "kubeflow", "linkerd", "tuf", "thanos", "keda", "fluentd",
  "kubeedge", "etcd", "removed_apis", "otel", "otel_metrics", "lexed", "fluentbit", "fluentbit_target", "mariadb", "grafana",
  "loki", "loki_schema", "mariadb_operator", "ceph", "argo_workflows", "kibana_json", "kibana_yaml", "kibana_status"}

OK == {"ok", "odd"}
TF == {"true", "false", "absent", "odd"}
\* n declarations, all given or one of them withheld.
AllButOne(n) == {g \in [1..n -> BOOLEAN] : Cardinality({i \in 1..n : ~g[i]}) <= 1}
All(g) == \A i \in DOMAIN g : g[i]
Upstream(b) == IF b THEN "official_upstream" ELSE ""
Text(b) == IF b THEN "true" ELSE ""
Words(set, n) == UNION {[1..k -> set] : k \in 0..n}
Without(seq, set) == \A i \in DOMAIN seq : seq[i] \notin set

Containers == {<<>>, <<[name |-> "c", fields |-> "ok"]>>, <<[name |-> "c", fields |-> "odd"]>>,
  <<[name |-> "x", fields |-> "ok"], [name |-> "c", fields |-> "ok"]>>,
  <<[name |-> "c", fields |-> "ok"], [name |-> "c", fields |-> "ok"]>>}
KyvernoCase ==
  \E d \in [shape : OK, command : {"reports-controller", "other"}], init \in {{}, {"c"}}, cs \in Containers,
     args \in Words({"flag=number", "flag", "number"}, 2), g \in AllButOne(2) :
  \E names \in {[i \in DOMAIN cs |-> ParseContainer(cs[i])]} :
  \E r \in {PrepareKyvernoScoped(d, init, names, args, g[1], Upstream(g[2]))} :
    Preparing("kyverno", <<d, init, cs, args, g>>, r, 3, {"false"},
      Whole(d) /\ All(g) /\ Len(names) \in 1..2 /\ init = {} /\ args = <<>>, ~Without(args, {"flag", "flag=number"}))

ArgoCDCases ==
  \/ \E d \in [shape : OK, data : {"ok", "absent", "odd"}, key : TF], g \in AllButOne(2) :
     \E r \in {PrepareArgoCD(d, g[1], Text(g[2]))} :
       Preparing("argocd", <<d, g>>, r, 1, {"false"}, Whole(d) /\ All(g) /\ d.data = "ok" /\ d.key = "false", d.key = "true")
  \/ \E d \in [shape : OK, type : {"helm", "git"}, enableOCI : TF, url : OK, forceHTTP : TF, insecure : TF], g \in AllButOne(4) :
     \E r \in {PrepareArgoCDLatestRepository(d, g[1], Upstream(g[2]), Text(g[3]), Text(g[4]))} :
       Preparing("argocd_latest", <<d, g>>, r, 3, {"false"},
         Whole(d) /\ All(g) /\ d.forceHTTP = "true" /\ d.insecure # "true",
         d.enableOCI = "true" /\ (d.forceHTTP # "true" \/ d.insecure = "true"))
  \/ \E d \in [shape : OK, data : {"ok", "absent", "odd"}], exact \in 0..2, near \in 0..1, v \in {"empty", "default", "other"}, g \in AllButOne(4) :
     \E key \in {IF ArgoCDExactField(exact, near) = "found" THEN v ELSE ArgoCDExactField(exact, near)} :
     \E r \in {PrepareArgoCDResourceExclusions([shape |-> d.shape, data |-> d.data, key |-> key], g[1], g[2], g[3], Text(g[4]))} :
       Preparing("argocd_exclusions", <<d, exact, near, v, g>>, r, 2, {"false"},
         Whole(d) /\ All(g) /\ (d.data = "absent" \/ (near = 0 /\ (exact = 0 \/ (exact = 1 /\ v = "empty")))), exact = 1 /\ v = "default")

FormatCases ==
  \/ \E d \in [json : OK, version : {"1", "2", "odd"}, modern : {"ok", "absent", "odd"}, legacy : {"ok", "absent", "odd"},
               media : {"absent", "docker1", "docker2", "oci"}] :
     \E r \in {PrepareDistributionManifest(d)} :
       Preparing("distribution", d, r, 1, {"docker_schema2", "oci_image_manifest"},
         Whole(d) /\ d.version = "2" /\ d.legacy = "absent", d.version = "1" /\ d.modern = "absent")
  \/ \E d \in [json : OK, name : OK, version : {"0.4.0", "1.0.0", "9"}, type : {"ok", "absent", "odd"},
               plugins : {"ok", "absent", "odd"}, disableCheck : OK], g \in BOOLEAN :
     \E r \in {PrepareCNISpecConfiguration(d, g)} :
       Preparing("cni", <<d, g>>, r, 1, {"plugin_list"}, Whole(d) /\ g /\ d.plugins = "ok" /\ d.type = "absent",
         g /\ d.type = "ok" /\ d.plugins = "absent")

BuildpacksCase ==
  \E d \in [version : {"same", "odd"}, metadata : {"absent", "same", "odd"}, apis : OK],
     supported \in SUBSET {"0.11", "0.12"}, deprecated \in SUBSET {"0.11", "0.12"}, api \in {"0.12", "0.9"} :
  \E cur \in {InspectLifecycleConfig([d EXCEPT !.metadata = "absent"], supported \cup {"0.11"}, {}, "0.11")},
     prop \in {InspectLifecycleConfig(d, supported, deprecated, api)} :
  \E r \in {PrepareBuildpacksLifecycle(cur, prop, "0.11", api)} :
    Preparing("buildpacks", <<d, supported, deprecated, api>>, r, 3, {"true"},
      Whole(d) /\ api \in supported /\ deprecated \subseteq supported, Whole(d) /\ api \notin supported)

CiliumCases ==
  \/ \E d \in [kind : {"policy", "List", "PolicyList", "odd"}, continue : {"absent", "more", "odd"}, remaining : {"absent", "more", "odd"}],
        items \in {s \in SUBSET [type : {"policy", "other"}, fields : {{}, {"nonempty"}, {"odd"}, {"nonempty", "odd"}}] : Cardinality(s) <= 2},
        g \in AllButOne(2) :
     \E r \in {PrepareCilium(d, items, g[1], Text(g[2]))} :
       Preparing("cilium", <<d, items, g>>, r, 1, {"false"},
         /\ All(g) /\ d.kind # "odd" /\ \A p \in items : p.type = "policy" => p.fields = {}
         /\ (d.kind = "policy" \/ (d.continue = "absent" /\ d.remaining = "absent")),
         \E p \in items : "nonempty" \in p.fields)
  \/ \E d \in [shape : OK, data : OK, binary : {"absent", "ok", "odd"}, name : {"valid", "invalid", "odd"}], g \in AllButOne(3) :
     \E r \in {PrepareCiliumClusterName(d, Upstream(g[1]), g[2], g[3])} :
       Preparing("cilium_name", <<d, g>>, r, 1, {"false"}, Whole(d) /\ All(g) /\ d.name = "valid", d.name = "invalid")

ObjectCases ==
  \/ \E d \in [json : OK, policies : {"one", "odd"}, name : OK, resource : {"iam-access-key", "other"}, vars : {"absent", "odd"}, filters : {"list", "odd"}],
        filters \in {<<>>} \cup {<<f>> : f \in [type : {"json-diff", "value"}, selector : {"previous", "date", "odd"},
                                             extra : {"absent", "odd"}, value : {"absent", "ok", "odd"}]}, g \in BOOLEAN :
     \E r \in {PrepareCloudCustodian(d, filters, g)} :
       Preparing("cloudcustodian", <<d, filters, g>>, r, 1, {"false"}, Whole(d) /\ g /\ filters = <<>>,
         \E i \in DOMAIN filters : filters[i].type = "json-diff")
  \/ \E e \in OK, cur, prop \in [kind : OK, id : {"a", "b", "odd"}, cluster : {"x", "y", "odd"}] :
     \E r \in {PrepareCloudNativePG(e, cur, prop)} :
       Preparing("cnpg", <<e, cur, prop>>, r, 1, {"false"}, e = "ok" /\ Whole(cur) /\ Whole(prop) /\ cur = prop,
         cur.id = prop.id /\ cur.cluster # prop.cluster)
  \/ \E d \in [toml : OK, imports : {"absent", "odd"}, version : OK, other : {"absent", "defined"}, handler : OK,
               path : {"absent", "odd"}, runtime : {"v1.linux", "runc.v1", "runc.v2", "odd"}], g \in AllButOne(4) :
     \E r \in {PrepareContainerdConfig(d, g[1], g[2], g[3], g[4])} :
       Preparing("containerd", <<d, g>>, r, 3, {"false"}, Whole(d) /\ All(g) /\ d.other = "absent" /\ d.runtime = "runc.v2",
         d.runtime \in {"v1.linux", "runc.v1"})

WorkloadCases == KyvernoCase \/ ArgoCDCases \/ FormatCases \/ BuildpacksCase \/ CiliumCases \/ ObjectCases

Tokens == {"removed", "--removed=value", "-", "-cluster", "word", "odd"}
\* Everything but a word or a removed option may hide a removed option.
Legible(argv) == Without(argv, {"-", "--", "-cluster", "odd"})
RemovedIn(argv) == ~Without(argv, {"removed", "--removed=value"})

ArgvCases ==
  \/ \E json \in OK, key \in {"--key", "--signing-key", "--other"}, v \in {"value", "odd"}, tail \in {<<>>, <<"--">>, <<"--", "cmd">>} :
     \E r \in {PrepareInTotoRun(json, <<"in-toto-run", "--step-name", "value", key, v>> \o tail)} :
       Preparing("intoto", <<json, key, v, tail>>, r, 1, {"signing_key"},
         json = "ok" /\ v = "value" /\ Len(tail) = 2 /\ key = "--signing-key", key = "--key")
  \/ \E d \in [shape : OK, authority : {"direct", "wrapper"}], argv \in Words({"--config=literal", "--config", "word"}, 2), g \in BOOLEAN :
     \E r \in {PrepareJaeger(d, argv, g, "true", "true")} :
       Preparing("jaeger", <<d, argv, g>>, r, 1, {}, FALSE, argv = <<"--config=literal">>)
  \/ \E t \in BOOLEAN, json \in OK, exe \in {"name", "path/name", "other"}, args \in Words(Tokens, 2), g \in AllButOne(2) :
     \E r \in {PrepareFalcoArgv(<<exe>> \o args, t, json, g[1], Upstream(g[2]))} :
       Preparing("falco", <<t, json, exe, args, g>>, r, 3, {"false"},
         ~t /\ json = "ok" /\ All(g) /\ Legible(args) /\ ~RemovedIn(args), RemovedIn(args))
  \/ \E t \in BOOLEAN, sub \in {"transparent-proxy", "other"}, args \in Words(Tokens, 2), g \in AllButOne(2) :
     \E r \in {PrepareKumaInstallTransparentProxyArgv(<<"name", "install", sub>> \o args, t, "ok", g[1], Upstream(g[2]))} :
       Preparing("kuma", <<t, sub, args, g>>, r, 3, {"false"},
         ~t /\ All(g) /\ Legible(args) /\ ~RemovedIn(args), RemovedIn(args))
  \/ \E d \in [shape : OK, declared : TF], argv \in Words({"with-trivy", "with-chartmuseum", "with-notary"}, 2), g, older \in BOOLEAN :
     \E r \in {PrepareHarbor(d, argv, g, older)} :
       Preparing("harbor", <<d, argv, g, older>>, r, 1, {"false"},
         Whole(d) /\ g /\ Without(argv, {"with-chartmuseum"}), ~Without(argv, {"with-chartmuseum"}))
  \/ \E json \in OK, args \in Words({"--metrics-endpoint=", "--metrics-endpoint", "--host", "--port=7", "word", "--", "odd"}, 3), g \in BOOLEAN :
     \E r \in {PrepareEmissary(json, <<"diagd">> \o args, g)} :
       Preparing("emissary", <<json, args, g>>, r, 1, {"false"},
         \* what follows a double dash, or is the value of --host, is not an option
         /\ json = "ok" /\ g /\ Without(args, {"odd"})
         /\ \A i \in DOMAIN args : args[i] \in {"--metrics-endpoint=", "--metrics-endpoint"} =>
              \E j \in 1..(i - 1) : args[j] = "--" \/ (j = i - 1 /\ args[j] = "--host"),
         ~Without(args, {"--metrics-endpoint=", "--metrics-endpoint"}))

Binding3 == {"absent", "set", "odd"}
ManifestCases ==
  \/ \E d \in [json : OK, shape : OK, interfaces : {"list", "odd"}], is \in {s \in SUBSET [bridge : Binding3, sriov : Binding3] : Cardinality(s) <= 2} :
     \E r \in {PrepareKubeVirt(d, is)} :
       Preparing("kubevirt", <<d, is>>, r, 1, {"false"},
         Whole(d) /\ \A i \in is : {i.bridge, i.sriov} = {"set", "absent"}, \E i \in is : i.bridge = i.sriov)
  \/ \E d \in [json : OK, containers : {"one", "odd"}, port : {"http1", "h2c", "odd"}, number : OK, protocol : {"absent", "TCP", "odd"},
               handlers : {"httpGet", "odd"}, probe : {"http1", "h2c", "odd"}] :
     \E r \in {PrepareKnativeServing(d)} :
       Preparing("knative", d, r, 1, {"false"}, Whole(d) /\ d.port = d.probe, d.port # d.probe)
  \/ \E d \in [json : OK, metadata : OK, kind : {"ConfigMap", "IPAddressPool", "GatewayClass", "Gateway"}, body : OK,
               namespace : {"ok", "absent"}, api : {"x-v1alpha1", "v1alpha2", "odd"}], p \in {"metallb", "contour"} :
     \E r \in {PrepareNativeMigration(d, p)} :
       Preparing(p, <<d, p>>, r, 1, {"false"},
         d.json = "ok" /\ d.metadata = "ok" /\ IF p = "metallb" THEN d.kind = "IPAddressPool" /\ d.body = "ok" ELSE d.api = "v1alpha2",
         IF p = "metallb" THEN d.kind = "ConfigMap" ELSE d.api = "x-v1alpha1")
  \/ \E d \in [shape : OK, failover : {"ok", "absent", "odd"}, application : {"ok", "absent", "odd"},
               mode : {"absent", "Immediately", "Graciously", "Never", "odd"}], g \in AllButOne(3) :
     \E r \in {PrepareKarmada(d, g[1], Upstream(g[2]), IF g[3] THEN "required" ELSE "")} :
       Preparing("karmada", <<d, g>>, r, 3, {}, FALSE, d.mode \in {"Immediately", "Graciously"})

Entry == [name : {"n", "m", "odd"}, direct : {"true", "false", "absent", "odd"}, nested : BOOLEAN]
Corefile == {"open", "federation{", "federation", "}", "import", "word"}
ConfigCases ==
  \/ \E d \in [yaml : OK, list : OK], es \in {<<a>> : a \in Entry} \cup {<<a, b>> : a, b \in {x \in Entry : ~x.nested}}, g \in AllButOne(4) :
     \E r \in {PreparePrometheusRemoteWriteConfig(d, es, g[1], g[2], g[3], Text(g[4]))} :
       Preparing("prometheus_write", <<d, es, g>>, r, 1, {"true"},
         Whole(d) /\ All(g) /\ \E i \in DOMAIN es : es[i].name = "n" /\ es[i].direct = "true",
         \E i \in DOMAIN es : es[i].name = "n" /\ es[i].direct # "true")
  \/ \E d \in [root : OK, escapes : OK, json : OK], names \in [{"server", "cluster"} -> {"absent", "plain", "space", "odd"}] :
     \E r \in {PrepareNATS(d, names)} :
       Preparing("nats", <<d, names>>, r, 1, {"false"},
         Whole(d) /\ \A k \in DOMAIN names : names[k] \in {"absent", "plain"}, \E k \in DOMAIN names : names[k] = "space")
  \/ \E d \in [json : {"object", "yaml", "odd"}, dynamic : OK, ads : {"absent", "V2", "V3"}, lds : {"absent", "V2", "V3"}, cds : {"absent", "V2"}],
        g \in AllButOne(2) :
     \E r \in {PrepareEnvoyBootstrap(d, g[1], g[2])} :
       Preparing("envoy", <<d, g>>, r, 1, {}, FALSE, "V2" \in {d.ads, d.lds, d.cds})
  \* here it is the guard's absence that does harm, and its presence that is shown
  \/ \E d \in [json : OK, keys : OK, role : {"metanode", "other"}, guard : {"absent", "0", "1", "odd"}], g \in BOOLEAN :
     \E r \in {PrepareCubeFSMetaNode(d, g)} :
       Preparing("cubefs", <<d, g>>, r, 1, {"true"}, Whole(d) /\ d.role = "metanode" /\ d.guard = "0", d.guard \in {"absent", "1"})
  \/ \E lines \in Words(Corefile, 4), g \in AllButOne(2) :
     \E r \in {PrepareCoreDNSCorefile(lines, g[1], "official", g[2])} :
       Preparing("coredns", <<lines, g>>, r, 2, {"false"},
         \* a plugin that opens a nested block or is inside one is not a directive of the server
         All(g) /\ Without(lines, {"import"}) /\ \A i \in DOMAIN lines : lines[i] \in {"federation", "federation{"} =>
             i = 1 \/ lines[i - 1] = "}" \/ Cardinality({j \in 1..(i - 1) : lines[j] \in {"open", "federation{"}}) >= 2,
         ~Without(lines, {"federation", "federation{"}))
  \/ \E shape \in OK, cur \in {{}} \cup {{x} : x \in [shape : {"ok"}, enabled : {"true", "absent"}, complete : {"true", "false", "odd"},
                                                  source : {"provider_derived", "cloud_integration"}, config : {"absent_text"}]},
        prop \in {{}} \cup {{x} : x \in [shape : OK, enabled : {"true", "absent"}, complete : {"true", "false", "odd"},
                                        source : {"provider_derived", "cloud_integration", "odd"}, config : {"present", "absent_text", "odd"}]} :
     \E r \in {PrepareOpenCostCloudSource([shape |-> shape], cur, prop)} :
       Preparing("opencost", <<shape, cur, prop>>, r, 6, {"true"},
         shape = "ok" /\ \A x \in prop : Whole(x) /\ x.source = "cloud_integration" /\ x.config = "present",
         \E x \in prop : x.config # "present")
ServiceCases == ArgvCases \/ ManifestCases \/ ConfigCases

ListDoc == [templated : OK, json : OK, root : OK, kind : {"List"}, page : {"whole", "more", "odd"}]
           \cup [templated : OK, json : OK, root : OK, kind : {"single"}, page : {"whole"}]
\* A document that is no list is its own single item.
ItemsOf(d, words) == IF d.kind = "single" THEN {<<w>> : w \in words} ELSE Words(words, 2)
WholeList(d, items) == Whole(d) /\ items # <<>> /\ d.page = "whole"

ResourceCases ==
  \/ \E d \in ListDoc : \E items \in ItemsOf(d, {"v1beta2", "v1", "other", "odd"}), g \in AllButOne(2) :
     \E r \in {PrepareStrimziKafkaResource(d, items, g[1], Upstream(g[2]), TRUE)} :
       Preparing("strimzi", <<d, items, g>>, r, 3, {"false"},
         Whole(d) /\ All(g) /\ d.page = "whole" /\ Without(items, {"v1beta2", "odd", "other"}), ~Without(items, {"v1beta2"}))
  \/ \E d \in ListDoc : \E items \in ItemsOf(d, {"Resources", "Pipeline", "odd"}), g \in AllButOne(2) :
     \E r \in {PrepareCrossplaneComposition(d, items, g[1], Upstream(g[2]), TRUE)} :
       Preparing("crossplane", <<d, items, g>>, r, 1, {"pipeline"},
         Whole(d) /\ All(g) /\ d.page = "whole" /\ Without(items, {"Resources", "odd"}), ~Without(items, {"Resources"}))
  \/ \E d \in {x \in ListDoc : x.kind = "List"}, items \in Words({"crd", "server", "other", "odd"}, 3), g \in AllButOne(2) :
     \E r \in {PrepareVeleroUpgradePlan(d, items, g[1], g[2])} :
       Preparing("velero", <<d, items, g>>, r, 1, {"true"},
         WholeList(d, items) /\ All(g) /\ \E s \in DOMAIN items : items[s] = "server" /\ \A i \in DOMAIN items : i > s => items[i] \notin {"crd", "odd"},
         \E s, i \in DOMAIN items : s < i /\ items[s] = "server" /\ items[i] = "crd")
  \/ \E d \in ListDoc : \E items \in ItemsOf(d, {"v1beta3", "v1", "other", "unreviewed"}), g \in AllButOne(3) :
     \E r \in {PrepareKubernetesFlowControl(d, items, Upstream(g[1]), g[2], g[3])} :
       Preparing("flowcontrol", <<d, items, g>>, r, 1, {"false"},
         Whole(d) /\ All(g) /\ d.page = "whole" /\ Without(items, {"v1beta3", "unreviewed"}), ~Without(items, {"v1beta3"}))
  \/ \E d \in ListDoc : \E items \in ItemsOf(d, {"removed", "removed_latest", "served", "unserved", "other", "odd"}), g \in AllButOne(3) :
     \E r \in {PrepareFlux(d, items, g[1], g[2], g[3])} :
       Preparing("flux", <<d, items, g>>, r, 1, {"false"},
         d.json = "ok" /\ d.root = "ok" /\ g[1] /\ items # <<>> /\ d.page = "whole"
           /\ Without(items, {"removed", "odd"} \cup (IF g[2] THEN {"removed_latest", "unserved"} ELSE {})),
         ~Without(items, {"removed"} \cup (IF g[2] THEN {"removed_latest"} ELSE {})))

YAMLCases ==
  \/ \E d \in [yaml : OK, wrapper : {"absent", "odd"}, nested : {"absent", "odd"}, version : {"absent", "v1", "v2", "odd"}, selected : OK], g \in AllButOne(3) :
     \E r \in {PreparePrometheusAlertmanagerConfig(d, g[1], g[2], g[3])} :
       Preparing("alertmanager", <<d, g>>, r, 1, {"v2", "default_v2"},
         All(g) /\ d.yaml = "ok" /\ d.nested = "absent" /\ d.version \in {"v2", "absent"}, d.version = "v1")
  \/ \E d \in [yaml : OK, nested : {"absent", "odd"}, job : {"selected", "odd"}, old : {"absent", "ok", "odd"}, new : {"absent", "ok", "odd"}], g \in AllButOne(3) :
     \E r \in {PreparePrometheusScrapeConfig(d, g[1], g[2], g[3])} :
       Preparing("scrape", <<d, g>>, r, 1, {"new_key"}, Whole(d) /\ All(g) /\ d.old = "absent" /\ d.new = "ok", d.old = "ok")
  \/ \E d \in [shape : OK, namespace : {"bound", "other"}, binary : {"absent", "odd"}, data : {"absent", "ok", "odd"},
               protocol : {"absent", "prometheus", "none", "odd"}], g \in AllButOne(5) :
     \E r \in {PrepareTektonConfigObservability(d, g[1], Upstream(g[2]), g[3], Text(g[4]), Text(g[5]))} :
       Preparing("tekton", <<d, g>>, r, 4, {"false"},
         All(g) /\ d.shape = "ok" /\ d.data # "odd" /\ d.binary # "odd" /\ (d.data = "absent" \/ d.protocol = "absent"), d.protocol = "prometheus")
  \/ \E d \in [json : OK, keys : OK, authn : OK, method : {"oidc", "none"}, oidc : {"ok", "absent", "odd"},
               issuer : {"set", "empty", "odd"}, audience : {"set", "empty", "odd"}], c \in {"", "true", "false"} :
     \E r \in {PrepareOpenFGAOIDC(d, c)} :
       Preparing("openfga", <<d, c>>, r, 1, {"false"}, Whole(d) /\ c = "true" /\ d.issuer = "set" /\ d.audience = "set",
         d.oidc = "absent" \/ "empty" \in {d.issuer, d.audience})
  \/ \E d \in [json : OK, keys : OK, ref : {"short", "qualified", "odd"}], g \in BOOLEAN :
     \E r \in {PrepareCRIOArtifactName(d, g)} :
       Preparing("crio", <<d, g>>, r, 2, {"false"}, Whole(d) /\ d.ref = "qualified", d.ref = "short")
  \/ \E d \in [shape : OK, identities : {"absent", "empty", "some", "odd"}, refs : {"absent", "empty", "some"}], g \in AllButOne(3) :
     \E r \in {PrepareLinkerd(d, g[1], Upstream(g[2]), IF g[3] THEN "required" ELSE "")} :
       Preparing("linkerd", <<d, g>>, r, 3, {"false"},
         Whole(d) /\ All(g) /\ {d.identities, d.refs} = {"absent", "some"}, "empty" \in {d.identities, d.refs})

Named == {<<"n">>, <<"n", "n">>, <<"x", "n">>, <<"n", "odd">>, <<"x">>}
As(seq, name) == [i \in DOMAIN seq |-> IF seq[i] = "n" THEN name ELSE seq[i]]
FlagWords == Words({"removed", "-x=1", "word", "--", "odd"}, 2)
ProgramCases ==
  \/ \E d \in [json : OK, shape : OK, args : {"list", "odd"}, image : OK, command : {"absent", "ok", "odd"}], names \in Named,
        args \in Words({"removed", "-x=1", "word"}, 2), g \in BOOLEAN :
     \E r \in {PrepareCortex(d, As(names, "cortex"), args, g)} :
       Preparing("cortex", <<d, names, args, g>>, r, 3, {"false"}, Whole(d) /\ g /\ Without(args, {"removed", "word"}), ~Without(args, {"removed"}))
  \/ \E d \in [json : OK, shape : OK, image : OK, role : {"receive", "store", "query"}, command : {"absent", "thanos", "/bin/thanos", "odd"}],
        names \in Named, words \in FlagWords, gr \in {"", "explicit", "entrypoint"} :
     \E r \in {PrepareThanos(d, As(names, "thanos"), words, gr)} :
       Preparing("thanos", <<d, names, words, gr>>, r, 1, {"false"},
         Whole(d) /\ Without(words, {"removed", "--", "odd"} \cup (IF gr = "entrypoint" THEN {"word"} ELSE {})), ~Without(words, {"removed"}))
  \/ \E t \in BOOLEAN, sub \in {"create", "show"}, args \in Words(Tokens, 2), g \in AllButOne(2) :
     \E r \in {PrepareSpireEntryCreateArgv(<<"name", "entry", sub>> \o args, t, "ok", g[1], Upstream(g[2]))} :
       Preparing("spire", <<t, sub, args, g>>, r, 3, {"false"},
         ~t /\ All(g) /\ Without(args, {"-", "--", "odd"}) /\ ~RemovedIn(args), RemovedIn(args))
  \/ \E d \in [lexed : OK, strings : OK, import : {"legacy", "modern", "odd"}, decorator : {"legacy", "modern"}, definition : OK, params : {"none", "distinct", "odd"}],
        body \in Words({"pass", "return simple", "odd"}, 2) :
     \E r \in {PrepareKubeflowKFP(d, body)} :
       Preparing("kubeflow", <<d, body>>, r, 1, {"modern"}, Whole(d) /\ d.import = "modern" /\ d.decorator = "modern" /\ Without(body, {"odd"}),
         d.import = "legacy" /\ d.decorator = "legacy")
  \/ \E d \in [json : OK, templated : OK, root : OK, kind : {"List"}, page : {"whole", "more"}],
        items \in Words({"plain", "external", "external_auth", "external_cert", "odd"}, 2), decl \in {"", "required", "not_required"}, g \in AllButOne(2) :
     \E r \in {PrepareKEDAScaledObject(d, items, g[1], decl, g[2])} :
       Preparing("keda", <<d, items, decl, g>>, r, 2, {"false"},
         WholeList(d, items) /\ All(g) /\ Without(items, {"odd"}) /\ (decl = "not_required" \/ Without(items, {"external_auth", "external_cert"})),
         decl = "required" /\ ~Without(items, {"external_auth", "external_cert"}))
  \/ \E t \in BOOLEAN, args \in Words({"--profile", "--profile=version=", "version=", "--kubeedge-version", "--kubeedge-version=target", "target", "-x"}, 3), g \in AllButOne(3) :
     \E r \in {PrepareKubeEdgeInitArgv(<<"name", "init">> \o args, t, "ok", g[1], Upstream(g[2]), Text(g[3]))} :
       Preparing("kubeedge", <<t, args, g>>, r, 4, {"version"},
         ~t /\ All(g) /\ \A i \in DOMAIN args : args[i] = "--profile=version=" => i > 1 /\ args[i - 1] \in {"--profile", "--kubeedge-version"},
         \E i \in DOMAIN args : args[i] = "--profile=version=" \/ (args[i] = "version=" /\ i > 1))

Argument == [kind : {"positional"}, name : {""}, value : {"simple", "odd"}]
            \cup [kind : {"keyword"}, name : {"metadata_dir", "metadata_base_url", "bootstrap", "other"}, value : {"simple"}]
            \cup [kind : {"star"}, name : {""}, value : {"simple"}]
PythonSource == Words({"(", ")", "]", "[", "'", "f", "\\", "#", "nl"}, 3)
Balanced(s) == LET n(c) == Cardinality({i \in DOMAIN s : s[i] = c}) IN n("(") = n(")") /\ n("[") = n("]")
PlainSource == <<"f", "(", ")">>
LanguageCases ==
  \/ \E d \in [import : {"from", "module", "odd"}, rebound : {"no", "odd"}, call : {"one", "odd"}], args \in UNION {[1..k -> Argument] : k \in 2..3} :
     \E r \in {PrepareTUFUpdater(d, args, PlainSource)} :
       Preparing("tuf", <<d, args>>, r, 1, {"true"}, Whole(d) /\ \E i \in DOMAIN args : args[i].name = "bootstrap",
         \A i \in DOMAIN args : args[i].name # "bootstrap" /\ args[i].kind # "star")
  \/ \E s \in PythonSource :
     \* what is accepted as code without strings and comments has matching brackets
     \E r \in {LexicalPythonLines(s)} :
       Case("lexed", s, [prepared |-> r.ok /\ ~r.dynamic, fact |-> Declared("code"), clear |-> {"code"},
         absent |-> Without(s, {"'", "#"}) => Balanced(s), present |-> FALSE])
  \/ \E d \in [root : OK, current : {"absent", "plain", "marked", "odd"}, proposed : {"absent", "quoted", "same", "odd"},
               distribution : {"absent"}, ruby : {"absent"}], g \in AllButOne(4) :
     \E r \in {PrepareFluentD(d, g[1], g[2], g[3], g[4])} :
       Preparing("fluentd", <<d, g>>, r, 1, {"false"}, Whole(d) /\ All(g) /\ (d.current = "plain" \/ d.proposed = "quoted"),
         d.current = "marked" /\ d.proposed = "same")
  \/ \E d \in [root : OK, current : {"absent", "plain"}, proposed : {"absent"}, distribution : {"absent", "official", "custom", "odd"},
               ruby : {"absent", "valid", "bad", "odd"}] :
     \E r \in {PrepareFluentD(d, TRUE, TRUE, TRUE, TRUE)} :
       Preparing("fluentd", d, r, 1, {"official", "custom"}, Whole(d) /\ d.distribution # "absent" /\ d.ruby = "valid", FALSE)

EtcdArgument == {<<"data-dir", "x">>, <<"enable-v2", "true">>, <<"enable-v2", "odd">>, <<"proxy", "on">>, <<"config-file", "x">>,
                 <<"experimental-corrupt-check-time", "1">>, <<"corrupt-check-time", "1">>, <<"data-dir", "">>}
Document == [group : {"flowcontrol"}, kind : {"FlowSchema"}, version : {"v1beta1", "v1beta2", "v1beta3", "v1"}]
            \cup [group : {"autoscaling"}, kind : {"HorizontalPodAutoscaler"}, version : {"v2beta2", "v2"}]
            \cup [group : {"other"}, kind : {"FlowSchema", "odd"}, version : {"v1beta1"}]
DocumentOf(m, x) == \E r \in KubernetesRemovalsByTargetMinor[m] : r.group = x.group /\ x.kind \in r.kinds /\ x.version = r.removed
Unknown(m, x) == \E r \in KubernetesRemovalsByTargetMinor[m] :
                   r.group = x.group /\ x.kind \in r.kinds /\ x.version \notin r.served \cup {r.removed}
\* One answer for all the removals of the line: the worst of its facts.
WorstFact(r) ==
  IF \E k \in DOMAIN r.facts : r.facts[k] = Declared("true") THEN Declared("true")
  ELSE IF \A k \in DOMAIN r.facts : r.facts[k] = Declared("false") THEN Declared("false") ELSE UnsupportedFact
PlatformCases ==
  \/ \E d \in [json : OK, shape : OK, declared : TF], argv \in Words(EtcdArgument, 2), p \in {"first", "latest", "other"} :
     \E r \in {PrepareEtcd(d, argv, p)} :
       Preparing("etcd", <<d, argv, p>>, r, 1, {"false"},
         Whole(d) /\ p = "latest" /\ Without(argv, EtcdArgument \ {<<"data-dir", "x">>, <<"corrupt-check-time", "1">>}),
         \E i \in DOMAIN argv : argv[i][1] \in EtcdRemovedFlags \cup EtcdTargetRemovedExperimentalFlags)
  \/ \E d \in ListDoc : \E docs \in {<<a>> : a \in Document} \cup (IF d.kind = "List" THEN {<<a, b>> : a, b \in Document} ELSE {}),
        v \in {<<<<1, 25, 0>>, <<1, 26, 0>>>>, <<<<1, 28, 3>>, <<1, 29, 1>>>>}, g \in AllButOne(3) :
     \E m \in KubernetesRemovalsForCrossedMinorLine(v[1], v[2]) :
     \E r \in {PrepareKubernetesRemovedAPIs(d, docs, v[1], v[2], Upstream(g[1]), g[2], g[3])} :
       Preparing("removed_apis", <<d, docs, v, g>>, IF r.ok THEN [r EXCEPT !.facts = <<WorstFact(r)>>] ELSE r, 1, {"false"},
         Whole(d) /\ All(g) /\ d.page = "whole"
           /\ \A i \in DOMAIN docs : ~DocumentOf(m, docs[i]) /\ ~Unknown(m, docs[i]),
         \E i \in DOMAIN docs : DocumentOf(m, docs[i]))
  \/ \E d \in [yaml : OK, keys : OK, connectors : {"absent", "ok"}, service : {"absent", "ok", "odd"}, metrics : {"absent", "set", "odd"}],
        ex \in (SUBSET {"logging", "otlp", "Logging"}) \ {{}}, cn \in SUBSET {"otlp", "c"}, refs \in Words({"logging", "otlp"}, 2), g \in AllButOne(4) :
     \/ \E r \in {PrepareOpenTelemetryCollector(d, ex, cn, refs, g[1], IF g[2] THEN "official" ELSE "", g[3], g[4])} :
          Preparing("otel", <<d, ex, cn, refs, g>>, r, 2, {"false"},
            d.yaml = "ok" /\ d.keys = "ok" /\ d.service # "odd" /\ All(g) /\ ex \cap {"logging", "Logging"} = {}, "logging" \in ex)
     \/ \E r \in {PrepareOpenTelemetryInternalMetrics(d, ex, cn, refs, g[1], IF g[2] THEN "official" ELSE "", "true", YesNo(g[3]), TRUE, g[4])} :
          Preparing("otel_metrics", <<d, ex, cn, refs, g>>, r, 1, {"false"},
            d.yaml = "ok" /\ d.keys = "ok" /\ (d.service = "absent" \/ d.metrics = "absent") /\ ~g[3], g[3] /\ (d.service = "absent" \/ d.metrics = "absent"))

\* The files of the projects outside cncfprepare, line by line.
Line(kind, indent, key, value) == [kind |-> kind, indent |-> indent, key |-> key, value |-> value]
\* A file that opens the right section and goes on in any way, or a short one.
Opening(line, lines) == {<<line>> \o w : w \in Words(lines, 3)} \cup Words(lines, 2)
FluentBitLines == {Line("blank", 0, "", ""), Line("odd", 2, "", ""), Line("group", 0, "OUTPUT", ""), Line("group", 0, "other", ""),
  Line("property", 2, "Name", "opentelemetry"), Line("property", 2, "http2", "on"), Line("property", 4, "http2", "off"), Line("property", 2, "HTTP2", "on"),
  Line("property", 2, "http2", "off"), Line("property", 2, "grpc", "auto"), Line("property", 0, "http2", "on"), Line("property", 2, "#", "")}
FluentBitCases ==
  \E lines \in Opening(Line("group", 0, "OUTPUT", ""), FluentBitLines), g \in AllButOne(4) :
  \E on \in {\E i \in DOMAIN lines : lines[i].key = "http2" /\ lines[i].value = "on"},
     legible \in {\A i \in DOMAIN lines : lines[i].kind # "odd" /\ lines[i].key \notin {"other", "HTTP2", "grpc"} /\ lines[i].indent < 4} :
    \/ \E r \in {PrepareFluentBit(lines, IF g[4] THEN "pair" ELSE "other", g[1], g[2], g[3])} :
         Preparing("fluentbit", <<lines, g>>, r, 1, {"false"}, All(g) /\ legible /\ ~on, All(g) /\ legible /\ on)
    \/ \E r \in {PrepareFluentBitHTTP2Target(lines, IF g[4] THEN "pair" ELSE "odd", g[1], g[2])} :
         g[3] /\ Preparing("fluentbit_target", <<lines, g>>, r, 1, {"false"}, All(g) /\ legible /\ ~on, All(g) /\ legible /\ on)

MariaDBLines == {Line("odd", 0, "", ""), Line("group", 0, "mysqld", ""), Line("group", 0, "client", ""), Line("group", 0, "unclosed", ""), Line("group", 0, "other", ""),
  Line("option", 0, "innodb_defragment", "none"), Line("option", 0, "innodb_defragment", "maybe"), Line("option", 0, "innodb-defragment", "ON"), Line("option", 0, "x", "spaced")}
\* The group a line belongs to.
GroupOf(lines, i) ==
  LET before == {j \in 1..i : lines[j].kind = "group"} IN IF before = {} THEN "" ELSE lines[CHOOSE j \in before : \A k \in before : k <= j].key
GrafanaLines == {Line("group", 0, "alerting", ""), Line("group", 0, "Alerting", ""), Line("group", 0, "unclosed", ""), Line("group", 0, "other", ""),
  Line("option", 0, "enabled", "true"), Line("option", 0, "enabled", "false"), Line("option", 0, "enabled", "empty"), Line("option", 0, "enabled", "yes"),
  Line("option", 0, "Enabled", "true"), Line("option", 0, "other", "none"), Line("option", 0, "other", "v")}
SectionCases ==
  \/ \E lines \in Opening(Line("group", 0, "mysqld", ""), MariaDBLines), g \in AllButOne(4), need \in BOOLEAN :
     \E r \in {PrepareMariaDBEffectiveConfig(lines, IF g[4] THEN "pair" ELSE "other", g[1], TRUE, g[2], g[3], need)},
        legible \in {/\ \A i \in DOMAIN lines : lines[i].kind # "odd" /\ lines[i].key \notin {"other", "unclosed"}
                     /\ \A i \in DOMAIN lines : GroupOf(lines, i) = "mysqld" => lines[i].key # "innodb-defragment" /\ lines[i].value \notin {"maybe", "spaced"}
                     /\ \E i \in DOMAIN lines : lines[i].key = "mysqld"} :
       Preparing("mariadb", <<lines, g, need>>, r, 1, {"false"}, All(g) /\ legible /\ ~need, All(g) /\ legible /\ need)
  \/ \E lines \in Opening(Line("group", 0, "alerting", ""), GrafanaLines), v \in {"pair", "unreviewed", "odd"}, g \in AllButOne(2) :
     \E r \in {PrepareEffectiveConfig("grafana", v, GrafanaLegacyAlerting(lines), lines, g[1], g[2])},
        on \in {\E i \in DOMAIN lines : lines[i].key = "enabled" /\ lines[i].value = "true" /\ GroupOf(lines, i) = "alerting"} :
       Preparing("grafana", <<lines, v, g>>, r, 1, {"false"},
         All(g) /\ v = "pair" /\ ~on /\ \A i \in DOMAIN lines : lines[i].key \notin {"Alerting", "unclosed"}, All(g) /\ v = "pair" /\ on)
  \/ \E lines \in Words(MariaDBLines, 2), g \in AllButOne(2) :
     \* the generic entry never prepares MariaDB
     \E r \in {PrepareEffectiveConfig("mariadb", "pair", {}, lines, g[1], g[2])} : Preparing("mariadb", <<lines, g>>, r, 1, {}, FALSE, FALSE)

Node(in, name, form, mark, value) == [in |-> in, name |-> name, form |-> form, mark |-> mark, value |-> value]
LokiNodes == {Node("root", "compactor", "exact", "plain", "map"), Node("root", "compactor", "case", "plain", "map"), Node("root", "compactor", "exact", "plain", "str"),
  Node("compactor", "shared_store", "exact", "plain", "str"), Node("compactor", "shared_store", "case", "plain", "str"), Node("compactor", "shared_store", "exact", "plain", "map"),
  Node("below", "shared_store", "case", "plain", "str"), Node("compactor", "x", "exact", "plain", "template"), Node("compactor", "x", "exact", "key", "str"),
  Node("compactor", "x", "exact", "value", "map")}
Stray == {Node("other", "x", "exact", "plain", "str"), Node("other", "x", "exact", "key", "str"), Node("other", "x", "exact", "plain", "template"),
  Node("other", "store", "case", "plain", "str"), Node("limits", "allow_structured_metadata", "case", "plain", "str"), Node("root", "include", "exact", "plain", "str")}
LokiCases ==
  \/ \E doc \in {"mapping", "odd"}, es \in Words(LokiNodes, 3), g \in AllButOne(2) :
     \E r \in {PrepareEffectiveConfig("loki", "pair", LokiCompactorLegacySharedStore(doc, es), <<>>, g[1], g[2])},
        legible \in {doc = "mapping" /\ All(g) /\ \A i \in DOMAIN es : es[i].mark = "plain" /\ es[i].form = "exact" /\ es[i].value # "template"},
        stored \in {\E i \in DOMAIN es : es[i].name = "shared_store"} :
       Preparing("loki", <<doc, es, g>>, r, 1, {"false"}, legible /\ ~stored, legible /\ stored)
  \/ \E d \in [yaml : {"mapping", "odd"}, limits : {"map", "odd"}, schema : {"map", "absent"}, configs : {"one", "many"}, from : {"date", "odd"},
               allow : TF, store : {"tsdb", "boltdb-shipper", "odd"}, version : {"v12", "v13", "odd"}], strays \in Words(Stray, 1), g \in AllButOne(4) :
     \E r \in {PrepareLokiStructuredMetadata(d, strays, IF g[1] THEN "pair" ELSE "other", g[2], g[3], g[4])},
        allowed \in {d.allow = "true" \/ (d.allow = "absent" /\ g[4])} :
       Preparing("loki_schema", <<d, strays, g>>, r, 1, {"false"},
         Whole(d) /\ (allowed => d.version = "v13" /\ d.store = "tsdb") /\ \A i \in DOMAIN strays : strays[i].name = "x" /\ strays[i].mark = "plain",
         Whole(d) /\ allowed /\ (d.version # "v13" \/ d.store # "tsdb"))

JSONText == {"object", "other", "malformed", "duplicate"}
Env == {"absent", "empty", "set", "odd"}
ArgoArgs == {"server", "--basehref", "--basehref=v", "--base-href=v", "--x=v", "-x", "word", "odd"}
ObjectFileCases ==
  \/ \E d \in [json : JSONText, shape : OK, galera : TF, replication : TF, autoUpdate : TF], g \in AllButOne(3) :
     \E r \in {PrepareMariaDBOperatorResource(d, IF g[1] THEN "pair" ELSE "other", g[2], g[3])} :
       Preparing("mariadb_operator", <<d, g>>, r, 1, {"true"},
         Whole(d) /\ All(g) /\ d.galera = "true" /\ d.replication # "true" /\ d.autoUpdate = "true", All(g) /\ d.galera = "true" /\ d.autoUpdate = "false")
  \/ \E d \in [json : JSONText, id : {"selected", "other", "odd"}, store : {"filestore", "bluestore", "memstore", "absent", "odd"}], v \in {"pair", "odd"}, g \in BOOLEAN :
     \E r \in {PrepareSelectedOSDMetadata(d, v, g)} :
       Preparing("ceph", <<d, v, g>>, r, 1, {"false"}, g /\ d.id = "selected" /\ d.store = "bluestore", g /\ d.id = "selected" /\ d.store = "filestore")
  \/ \E d \in [json : {"object", "duplicate"}, shape : OK, image : {"target", "other"}, command : {"absent", "argo", "odd"}, env : Env, envFrom : {"absent", "set"}],
        names \in Named, args \in {<<"server">> \o w : w \in Words(ArgoArgs, 3)} \cup Words(ArgoArgs, 1), g \in AllButOne(2) :
     \* one departure from a deployable workload at a time
     /\ Cardinality({k \in DOMAIN d : d[k] \in {"odd", "duplicate", "other", "set"}}) + (IF names = <<"n">> THEN 0 ELSE 1) + (IF All(g) THEN 0 ELSE 1) <= 1
     /\ \E r \in {PrepareWorkload(d, As(names, "argo-server"), args, IF g[1] THEN "pair" ELSE "other", g[2])} :
          Preparing("argo_workflows", <<d, names, args, g>>, r, 1, {"false"},
            Whole(d) /\ All(g) /\ {d.env, d.envFrom} \subseteq {"absent", "empty"} /\ Without(args, {"--basehref", "--basehref=v", "-x", "odd"}),
            Whole(d) /\ All(g) /\ ~Without(args, {"--basehref", "--basehref=v"}))

One(n) == <<KibanaSelected[n]>>
KibanaPaths == {<<KibanaSelected>>, <<One(1), One(2), One(3), One(4)>>, <<One(1), One(2), One(3), One(4), <<"x">>>>, <<One(1), One(2)>>, <<One(1), <<"x">>>>, <<<<"x">>>>,
  <<SubSeq(KibanaSelected, 1, 3), One(4)>>, <<One(1), SubSeq(KibanaSelected, 2, 4)>>, <<<<"XPACK">>, One(2)>>, <<KibanaSelected \o <<"x">>>>,
  <<One(1), One(2), One(3), <<"allow", "x">>>>, <<One(1), <<"x", "y">>>>}
Selects(path) == IsPrefix(KibanaSelected, KibanaLower(KibanaNames(path)))
KibanaLines == {Line("odd", 0, <<"x">>, ""), Line("item", 0, <<"x">>, ""), Line("item", 1, <<"x">>, ""), Line("item", 2, <<"x">>, "")}
  \cup {Line("key", i, k, "") : i \in 0..2, k \in {One(1), One(4), <<"x">>, SubSeq(KibanaSelected, 2, 3), SubSeq(KibanaSelected, 1, 3)}}
  \cup {Line("key", 0, KibanaSelected, "v"), Line("key", 1, One(4), "v"), Line("key", 1, <<"x">>, "brace"), Line("key", 1, SubSeq(KibanaSelected, 1, 3), "brace"),
        Line("key", 0, <<"XPACK">>, ""), Line("key", 0, KibanaSelected \o <<"x">>, "v")}
\* The full name of a key: those of the lines it is nested in, read backwards.
Parent(lines, i, d) == {j \in 1..(i - 1) : /\ lines[j].kind = "key" /\ lines[j].indent = d
                                           /\ \A k \in (j + 1)..(i - 1) : lines[k].kind = "key" => lines[k].indent > d}
FullName(lines, i) ==
  KibanaNames([d \in 1..lines[i].indent |-> LET p == Parent(lines, i, d - 1) IN IF p = {} THEN <<"?">> ELSE lines[CHOOSE j \in p : TRUE].key]) \o lines[i].key
KibanaCases ==
  \/ \E json \in JSONText, paths \in {s \in SUBSET KibanaPaths : Cardinality(s) <= 2}, g \in AllButOne(2) :
     \E r \in {PrepareEffectiveConfig("kibana", "pair", KibanaReportingRolesAllow([json |-> json], paths, <<>>), <<>>, g[1], g[2])},
        set \in {\E p \in paths : Selects(p)} :
       Preparing("kibana_json", <<json, paths, g>>, r, 1, {"false"}, json = "object" /\ All(g) /\ ~set, json = "object" /\ All(g) /\ set)
  \/ \E lines \in Words(KibanaLines, 3), v \in {"pair", "latest"} :
     \E r \in {PrepareEffectiveConfig("kibana", v, KibanaReportingRolesAllow([json |-> "yaml"], {}, lines), <<>>, TRUE, TRUE)},
        set \in {\E i \in DOMAIN lines : lines[i].kind = "key" /\ IsPrefix(KibanaSelected, FullName(lines, i))} :
       Preparing("kibana_yaml", <<lines, v>>, r, 1, {"false"},
         v = "pair" /\ ~set /\ \A i \in DOMAIN lines : lines[i].kind # "odd" /\ lines[i].key # <<"XPACK">>, v = "pair" /\ set)
  \/ \E d \in [lines : OK, yaml : OK, other : {"absent", "odd"}, bypass : TF, anonymous : TF], g \in AllButOne(4), need \in BOOLEAN :
     \E r \in {PrepareKibanaStatusPage(d, IF g[4] THEN "latest" ELSE "pair", g[1], g[2], g[3], need)} :
       Preparing("kibana_status", <<d, g, need>>, r, 3, {"true"}, Whole(d) /\ All(g) /\ d.bypass = "true", Whole(d) /\ All(g) /\ d.bypass # "true")

PrepareSteps ==
  op = "start" /\ (WorkloadCases \/ ServiceCases \/ ResourceCases \/ YAMLCases \/ ProgramCases \/ LanguageCases \/ PlatformCases
                    \/ FluentBitCases \/ SectionCases \/ LokiCases \/ ObjectFileCases \/ KibanaCases)

\* The adapters of cncfprepare and projectprepare answer only what their input shows: an input
\* counts as prepared with the harmless value only if all of it was legible, the
\* declarations its completeness rests on were given, and the removed thing is
\* not in it; and with the harmful value only if the removed thing is in it.
PreparationFailsClosed ==
  op \in PrepareOps /\ output.prepared =>
    /\ output.fact.state = "declared"
    /\ IF output.fact.value \in output.clear THEN output.absent ELSE output.present
=============================================================================
