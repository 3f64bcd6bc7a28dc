-------------------------- MODULE CollectorSurfaces -------------------------
(* Bounded inputs for Projections and ComponentSurface: one step projects   *)
(* one answer, or builds the component surface of one context.              *)
EXTENDS ComponentSurface, Cases

CONSTANTS Empty, MaxItems, MaxCount

P == INSTANCE Projections

\* Items that deviate from a good one in at most one field.
Near(good, values) ==
  {good} \cup {[good EXCEPT ![f] = v] : f \in DOMAIN good, v \in values}
Odd == {Nil, Bad, Empty}
Lists(items) == {Bad} \cup BoundedSeq(items, 2)

-----------------------------------------------------------------------------
(* Answers of the base queries *)

Rule == [apiGroups |-> <<"g">>, apiVersions |-> <<"v1">>,
         operations |-> <<"CREATE">>, resources |-> <<"r">>]
Hook == [versions |-> <<"v1">>, rules |-> <<Rule>>, failurePolicy |-> "Fail",
         service |-> [name |-> "cert-manager-webhook", ns |-> Nil], url |-> Nil]
Hooks == Near(Hook, {Nil, Bad}) \cup {[Hook EXCEPT !.rules = <<r>>] :
                                       r \in Near(Rule, {Nil, Bad})}
Binding == [match |-> "m", param |-> "p", actions |-> <<"Deny">>]
Group == [name |-> "n", preferred |-> "v1", versions |-> <<"v1", "v2">>]
Answers ==
  [server |-> Near([gitVersion |-> "v1", platform |-> "p"], Odd),
   nodes |-> Lists(Near([kubeletVersion |-> "v1", osImage |-> "o",
                         architecture |-> "a", providerID |-> "gce"], Odd)),
   aggregated |-> Lists(Near([name |-> "n", version |-> "v", group |-> "g",
                              service |-> "s",
                              conditions |-> <<[type |-> "Other", status |-> "no"],
                                [type |-> "Available", status |-> "yes"]>>], Odd)),
   webhooks |-> {Bad} \cup {<<[kind |-> k, webhooks |-> h]>> :
                   k \in {"w", Nil}, h \in {Bad} \cup {<<x>> : x \in Hooks}},
   policies |-> Lists(Near([failurePolicy |-> "Fail", validations |-> <<"v">>,
                            variables |-> <<>>, rules |-> <<Rule>>], {Nil, Bad})),
   bindings |-> Lists(Near(Binding, {Nil, Bad})
                      \cup {[Binding EXCEPT !.actions = <<Empty>>]}),
   storage |-> Lists(Near([provisioner |-> "p", reclaim |-> "r",
                           parameters |-> [k |-> "secret"]], {Nil, Bad})),
   csi |-> Lists(Near([name |-> "n", attach |-> TRUE, tokens |-> <<"t">>],
                      {Nil, Bad})),
   runtime |-> Lists(Near([handler |-> "h", overhead |-> "o"], Odd)),
   core |-> Lists({"v1", "v2"} \cup Odd),
   grouped |-> Lists(Near(Group, {Nil, Bad})
                     \cup {[Group EXCEPT !.versions = <<Empty>>]}),
   stderr |-> SUBSET {"unauthorized", "dns", "tls_certificate", "noise"}]

Projection(name, root) ==
  CASE name = "server" -> P!ProjectServer(root)
    [] name = "nodes" -> P!ProjectNodes(root)
    [] name = "aggregated" -> P!ProjectAggregated(root)
    [] name = "webhooks" -> P!ProjectWebhooks(root)
    [] name = "policies" -> P!ProjectAdmissionPolicies(root)
    [] name = "bindings" -> P!ProjectAdmissionBindings(root)
    [] name = "storage" -> P!ProjectStorage(root)
    [] name = "csi" -> P!ProjectCSI(root)
    [] name = "runtime" -> P!ProjectRuntime(root)
    [] name = "core" -> P!ProjectCoreVersions(root)
    [] name = "grouped" -> P!ProjectGroupedVersions(root)
    [] name = "stderr" -> P!ClassifyKubectlStderr(root)

ProjectAnswer ==
  \E name \in DOMAIN Answers : \E root \in Answers[name] :
    Case(name, root, Projection(name, root))

-----------------------------------------------------------------------------
(* CRD pages, pods and the cert-manager queries *)

Version == [name |-> "v1", served |-> TRUE, storage |-> TRUE]
Resource == [group |-> "g", kind |-> "K", plural |-> "a", scope |-> "Cluster",
             versions |-> <<Version>>, preserve |-> Nil]
Resources ==
  Near(Resource, {Nil, Bad}) \cup
  {[Resource EXCEPT !.plural = "b"], [Resource EXCEPT !.versions = <<>>],
   [Resource EXCEPT !.versions = <<Version, [Version EXCEPT !.storage = FALSE]>>]}
ProjectPage ==
  \E items \in Lists(Resources), rv \in {"1", Empty}, next \in {Nil, Bad, "t"} :
    LET page == [rv |-> rv, next |-> next, items |-> items]
        out == P!ProjectCRDPage(page)
    IN  Case("crds", items,
             IF out.rejected THEN out ELSE P!MergeCRDPages(out.rows))

PodAdapter == [a |-> "A", a2 |-> "A", b |-> "B"]
Status == [image |-> "a", imageID |-> "a2", version |-> "1", ready |-> TRUE,
           restarts |-> 1]
Statuses == {Status, [Status EXCEPT !.image = "private"],
             [Status EXCEPT !.imageID = "b"], [Status EXCEPT !.ready = Nil],
             [Status EXCEPT !.restarts = Bad], [Status EXCEPT !.image = Empty]}
Pods == {[ns |-> ns, statuses |-> ss] : ns \in {"kube-system", "x", Nil},
         ss \in {Nil, Bad} \cup BoundedSeq(Statuses, 2)}
ProjectPods ==
  \E first \in Pods, second \in {<<>>, <<[ns |-> "x", statuses |-> <<Status>>]>>} :
    LET root == <<first>> \o second
    IN  Case("pods", root, P!ProjectPodStatus(root, PodAdapter))

Grants == {"serviceaccountsTokenCreate", "acmeAPIGroup"}
RuleSets == {Nil, Bad, <<Bad>>} \cup {<<g>> : g \in SUBSET Grants}
Roles == {[class |-> c, ns |-> ns, rules |-> r] :
          c \in {"controller", "other"}, ns \in {"cert-manager", "x", Nil},
          r \in RuleSets}
RoleBindings == {[class |-> c, ns |-> ns, kind |-> k, subjects |-> ss] :
          c \in {"controller", "other"}, ns \in {"cert-manager", "x"},
          k \in {"Role", "ClusterRole", Empty},
          ss \in {Nil, Bad, {"controller"}, {"webhook"}}}
Deployment == [images |-> <<"cert-manager">>, desired |-> 1, ready |-> 1,
               available |-> 0]
Deployments == Near(Deployment, {Nil, Bad})
               \cup {[Deployment EXCEPT !.images = <<"other">>, !.ready = Bad]}
Targets == [kind : {"Pod", "Service"}, ns : {"cert-manager", "x"},
            labels : {{"ours"}, {"ours", "extra"}, {}}, image : {TRUE},
            owner : BOOLEAN, named : {TRUE}]
Endpoints == {Bad} \cup [port : BOOLEAN, path : BOOLEAN]
Monitors == [selectsOurs : BOOLEAN,
             endpoints : {Bad} \cup BoundedSeq(Endpoints, 2)]

ProjectCertManager ==
  \/ \E root \in {<<r>> : r \in Roles} \cup {Bad}, namespaced \in BOOLEAN :
       Case("rules", root, P!ProjectCertManagerRules(root, namespaced))
  \/ \E root \in {<<b>> : b \in RoleBindings} \cup {Bad}, cluster \in BOOLEAN :
       Case("roleBindings", root, P!ProjectCertManagerBindings(root, cluster))
  \/ \E root \in Lists(Deployments) :
       Case("health", root, P!ProjectCertManagerHealth(root))
  \/ \E root \in Lists(Targets) :
       Case("targets", root, P!ProjectCertManagerTargets(root))
  \/ \E root \in {<<m>> : m \in Monitors} \cup {Bad} :
       Case("monitors", root, P!ProjectCertManagerMonitor(root))

-----------------------------------------------------------------------------
(* Workload files *)

Files == <<"deployment-images.json", "statefulset-images.json">>
Tag(n) == [text |-> n, v |-> TRUE, num |-> n]
Image(id, tag, digest) == [id |-> id, hub |-> FALSE, tag |-> tag, digest |-> digest]
Arg(flag, value) == [flag |-> flag, value |-> value, gates |-> {}]
Server == [image |-> Image("prom", Tag("3.1.0"), "d3"), command |-> Nil,
           args |-> Nil, role |-> <<>>]
WorkloadContainers ==
  {Server, [Server EXCEPT !.args = <<Arg("--agent", "")>>],
   [Server EXCEPT !.args = <<Arg("--agent", ""), Arg("--agent", "")>>],
   [Server EXCEPT !.image = Image("prom", Tag("2.55.1"), "d2")],
   [Server EXCEPT !.image.hub = TRUE], [Server EXCEPT !.image.digest = ""],
   [Server EXCEPT !.command = "other"], [Server EXCEPT !.args = Bad],
   [image |-> Image("argocd", Tag("2"), ""), command |-> Nil, role |-> <<>>,
    args |-> <<Arg("--insecure", "false"), Arg("--gate", "")>>],
   [image |-> Image("private", Tag("2"), ""), command |-> Nil, role |-> <<>>,
    args |-> <<>>]}
CertContainer ==
  [image |-> Image("cert-manager", Tag("1"), ""), command |-> Nil,
   role |-> <<"role", "controller">>, args |-> <<>>]
Workload(kind, cs, init) ==
  [kind |-> kind, spec |-> TRUE, containers |-> cs, init |-> init]
Inits == {{}, {Image("prom", Tag("1"), "")}}
Deployed == {<<>>} \cup {<<Workload("Deployment", cs, {})>> :
                          cs \in BoundedSeq(WorkloadContainers, 2)}
Stateful == {<<Workload(k, <<c>>, i)>> : k \in {"StatefulSet", "Pod"},
             c \in WorkloadContainers, i \in Inits}
            \cup {<<>>, <<[kind |-> "Job", spec |-> FALSE, containers |-> <<>>,
                          init |-> {}]>>}
NoSurfaces ==
  [crds |-> [n \in WantedCRDs |-> <<>>], hooks |-> {}, grants |-> {"token"},
   bound |-> {}, rules |-> {}, target |-> [service |-> FALSE, pod |-> FALSE],
   service |-> {}, pod |-> {}, health |-> "0"]
Surface(files, profile, s, available) ==
  \E got \in {[f \in DOMAIN files |-> Projected(files[f], profile)]} :
  \E rows \in {WorkloadRows(Files, got)} :
  \E derived \in {DeriveCertManager(rows, s, available)} :
    Case("surface",
         [files |-> files, profile |-> profile, available |-> available],
         AggregateComponents(profile, rows \o derived.rows,
           WorkloadOmissions(Files, got)
             \o Tagged(derived.omissions, "cert-manager-derived-predicates")))

SurfaceOfWorkloads ==
  \E profile \in {"v2", "v3"}, lost \in BOOLEAN, d \in Deployed, s \in Stateful :
    Surface(("deployment-images.json" :> [lost |-> FALSE, list |-> d])
              @@ ("statefulset-images.json" :> [lost |-> lost, list |-> s]),
            profile, NoSurfaces, {})

SurfaceOfCertManager ==
  \E available \in SUBSET ({"crd-api-surface.json", "cert-manager-health.json"}
                            \cup Webhooks \cup RBAC),
     bound \in {{}, {"controller"}}, served \in BOOLEAN, sm \in BOOLEAN :
    Surface(("deployment-images.json" :> [lost |-> FALSE,
               list |-> <<Workload("Deployment", <<CertContainer>>, {})>>])
              @@ ("statefulset-images.json" :> [lost |-> TRUE, list |-> <<>>]),
            "v3",
            [NoSurfaces EXCEPT !.bound = bound, !.rules = {<<"controller", "token">>},
               !.crds = [n \in WantedCRDs |-> <<[served |-> served,
                                                storage |-> TRUE]>>],
               !.target.service = sm, !.service = {"present", "port"}],
            available \cup (IF sm THEN Monitoring ELSE {}))

SurfaceSteps ==
  /\ op = "start"
  /\ \/ ProjectAnswer \/ ProjectPage \/ ProjectPods \/ ProjectCertManager
     \/ SurfaceOfWorkloads \/ SurfaceOfCertManager

-----------------------------------------------------------------------------
ListAnswers == {"nodes", "aggregated", "webhooks", "policies", "bindings",
                "storage", "csi", "runtime", "core", "grouped", "crds"}
(* A projection drops no item: a list is rejected as a whole, or every item  *)
(* is in the rows, and every container status is counted in one row.        *)
NoItemDropped ==
  /\ op \in ListAnswers /\ ~output.rejected =>
       (IF op = "policies" THEN Len(output.rows) ELSE BagCardinality(output.rows))
         = Len(input)
  /\ op = "pods" /\ ~output.rejected =>
       MapThenSumSet(LAMBDA k : output.rows[k].total, DOMAIN output.rows)
         = MapThenSumSet(LAMBDA i : IF input[i].statuses = Nil THEN 0
                                    ELSE Len(input[i].statuses), DOMAIN input)

Controllers ==
  LET all(f) == ContainersOf(input.files[f].list)
  IN  UNION {{<<f, i>> : i \in {k \in DOMAIN all(f) :
                all(f)[k].image.id = "prom"
                /\ all(f)[k].kind \in {"Deployment", "StatefulSet"}}} :
             f \in {Files[n] : n \in 1..2}}
(* Under profile v3 the surface speaks of Prometheus only when it has seen   *)
(* and understood every controller that runs it, in every workload file:    *)
(* no subset of them is ever kept, and no predicate they disagree on; and    *)
(* where it says nothing of one that runs, an omission says why. Of          *)
(* cert-manager it says nothing that rests on a surface that was not read.   *)
SurfaceFailsClosed ==
  op = "surface" /\ input.profile = "v3" =>
    /\ Controllers # {} /\ Prometheus \notin DOMAIN output.components =>
         \E o \in DOMAIN output.omissions : o.source \in {Files[1], Files[2]}
    /\ Prometheus \in DOMAIN output.components =>
         /\ \A n \in 1..2 : ~input.files[Files[n]].lost
         /\ output.components[Prometheus].count = Cardinality(Controllers)
         /\ DOMAIN output.components[Prometheus].predicates # {} =>
              \A x, y \in Controllers :
                LET c(z) == ContainersOf(input.files[z[1]].list)[z[2]]
                IN  c(x).image = c(y).image
                    /\ AgentMode(ArgsOf(c(x), Prometheus, "v3"), c(x).image.tag.num)
                         = AgentMode(ArgsOf(c(y), Prometheus, "v3"),
                                     c(y).image.tag.num)
    /\ CertManager \in DOMAIN output.components =>
         \A id \in DOMAIN output.components[CertManager].predicates :
           /\ id[1] = "rbac" => RBAC \subseteq input.available
           /\ id[1] = "hook" => Webhooks \subseteq input.available
           /\ id[1] = "crd" => "crd-api-surface.json" \in input.available
           /\ id[1] = "metrics" => Monitoring \subseteq input.available
=============================================================================
