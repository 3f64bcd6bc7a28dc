----------------------------- MODULE Projections ----------------------------
(***************************************************************************)
(* The projections of internal/localcollector: pure functions from the     *)
(* decoded answer of one query to the rows that are kept. A JSON value is  *)
(* Nil (absent or null), Bad (of a type the code does not expect), Empty   *)
(* (the empty string) or a value; an item is a record of the values at the *)
(* paths the code reads. Rows that the code sorts are a bag: their order   *)
(* carries nothing.                                                        *)
(***************************************************************************)
EXTENDS Naturals, Sequences, FiniteSets, SequencesExt, FiniteSetsExt, Bags

CONSTANTS
  Nil, Bad, Empty,  \* model values
  MaxItems,         \* listRoot's bound on the items of a list
  MaxCount          \* boundedCount's bound (1000000)

Reject == [rejected |-> TRUE]
Kept(rows) == [rejected |-> FALSE, rows |-> rows]

StringValue(v) == v \notin {Nil, Bad, Empty}
IsString(v) == v \notin {Nil, Bad}
Shaped(v) == v \notin {Nil, Bad, Empty}  \* an object or array, as expected
NullDefault(v, fallback) == IF v = Nil THEN fallback ELSE v
BoolOr(v) == v \in {Nil, TRUE, FALSE}

\* listRoot: the items of a list that is not too long.
ListRoot(root) == Shaped(root) /\ Len(root) <= MaxItems

\* The loop over the items of a list: one bad item rejects the list.
Rows(root, Valid(_), Row(_)) ==
  IF ~ListRoot(root) \/ \E i \in DOMAIN root : ~Valid(root[i])
  THEN Reject
  ELSE Kept([i \in DOMAIN root |-> Row(root[i])])
Sorted(p) == IF p.rejected THEN p ELSE Kept(ToBag(p.rows))

SumBy(S, f(_)) == MapThenSumSet(f, S)
All(item, fields, Ok(_)) == \A f \in fields : Ok(item[f])
Pick(item, fields) == [f \in fields |-> item[f]]

-----------------------------------------------------------------------------
(* project.go *)

ProjectServer(root) ==
  IF ~Shaped(root) \/ ~StringValue(root["gitVersion"]) THEN Reject
  ELSE Kept(root)

NodeFields == {"kubeletVersion", "osImage", "architecture"}
ProjectNodes(root) ==
  Sorted(Rows(root, LAMBDA n : All(n, NodeFields, StringValue),
    LAMBDA n : [Pick(n, NodeFields \cup {"providerID"}) EXCEPT
                  !.providerID = IF StringValue(@) THEN @ ELSE "unknown"]))

\* available: the status of the first condition of type Available.
ProjectAggregated(root) ==
  Sorted(Rows(root, LAMBDA a : StringValue(a.name) /\ StringValue(a.version),
    LAMBDA a : [group |-> IF StringValue(a.group) THEN a.group ELSE "core",
                version |-> a.version, serviceConfigured |-> a.service # Nil,
                available |->
                  LET on == IF Shaped(a.conditions)
                            THEN SelectSeq(a.conditions,
                                           LAMBDA c : c.type = "Available")
                            ELSE <<>>
                  IN  IF on = <<>> THEN Nil ELSE on[1].status]))

RuleFields == {"apiGroups", "apiVersions", "operations", "resources"}
ValidHook(h) ==
  /\ Shaped(h.versions) /\ Shaped(h.rules)
  /\ \A i \in DOMAIN h.rules : All(h.rules[i], RuleFields, Shaped)
HookRow(h) ==
  [versions |-> h.versions, rules |-> h.rules, failurePolicy |-> h.failurePolicy,
   clientType |-> IF h.service # Nil THEN "service"
                  ELSE IF h.url # Nil THEN "url" ELSE "unknown",
   identityPresent |-> /\ Shaped(h.service)
                       /\ h.service.name = "cert-manager-webhook"
                       /\ NullDefault(h.service.ns, "cert-manager")
                            = "cert-manager"]
ProjectWebhooks(root) ==
  Sorted(Rows(root,
    LAMBDA w : /\ StringValue(w.kind) /\ Shaped(w.webhooks)
               /\ \A i \in DOMAIN w.webhooks : ValidHook(w.webhooks[i]),
    LAMBDA w : [kind |-> w.kind, webhooks |->
                  [i \in DOMAIN w.webhooks |-> HookRow(w.webhooks[i])]]))

\* The one projection that keeps the server's order.
ProjectAdmissionPolicies(root) ==
  Rows(root,
    LAMBDA p :
      /\ \A f \in {"validations", "variables", "rules"} :
           p[f] = Nil \/ Shaped(p[f])
      /\ Shaped(p.rules) => \A i \in DOMAIN p.rules :
           All(p.rules[i], RuleFields, LAMBDA v : v = Nil \/ Shaped(v)),
    LAMBDA p : [failurePolicy |-> p.failurePolicy,
                validationCount |-> Len(NullDefault(p.validations, <<>>)),
                variableCount |-> Len(NullDefault(p.variables, <<>>)),
                rules |-> NullDefault(p.rules, <<>>)])

ProjectAdmissionBindings(root) ==
  Sorted(Rows(root,
    LAMBDA b : b.actions = Nil \/
      (Shaped(b.actions) /\ \A i \in DOMAIN b.actions : StringValue(b.actions[i])),
    LAMBDA b : [match |-> b.match # Nil, param |-> b.param # Nil,
                actions |-> NullDefault(b.actions, <<>>)]))

\* Only the keys of a storage class's parameters are kept.
ProjectStorage(root) ==
  Sorted(Rows(root,
    LAMBDA s : StringValue(s.provisioner)
               /\ (s.parameters = Nil \/ Shaped(s.parameters)),
    LAMBDA s : [provisioner |-> s.provisioner, reclaim |-> s.reclaim,
                parameterKeys |-> IF s.parameters = Nil THEN {}
                                  ELSE DOMAIN s.parameters]))

ProjectCSI(root) ==
  Sorted(Rows(root,
    LAMBDA c : StringValue(c.name) /\ (c.tokens = Nil \/ Shaped(c.tokens)),
    LAMBDA c : [driver |-> c.name, attach |-> c.attach,
                tokenRequestCount |-> Len(NullDefault(c.tokens, <<>>))]))

\* As a mutant, a runtime class without a handler is skipped.
ProjectRuntimeSkipping(root) ==
  IF ~Shaped(root) THEN Reject
  ELSE Sorted(Rows(SelectSeq(root, LAMBDA r : StringValue(r.handler)),
    LAMBDA r : TRUE,
    LAMBDA r : [handler |-> r.handler, overhead |-> r.overhead # Nil]))
ProjectRuntime(root) ==
  Sorted(Rows(root, LAMBDA r : StringValue(r.handler),
    LAMBDA r : [handler |-> r.handler, overhead |-> r.overhead # Nil]))

\* Any number of versions.
ProjectCoreVersions(root) ==
  IF ~Shaped(root) THEN Reject
  ELSE IF \E i \in DOMAIN root : ~StringValue(root[i]) THEN Reject
  ELSE Kept(ToBag(root))

ProjectGroupedVersions(root) ==
  Sorted(Rows(root,
    LAMBDA g : /\ StringValue(g.name) /\ Shaped(g.versions)
               /\ \A i \in DOMAIN g.versions : StringValue(g.versions[i]),
    LAMBDA g : [name |-> g.name, preferred |-> g.preferred,
                versions |-> ToBag(g.versions)]))

-----------------------------------------------------------------------------
(* crd.go, pod.go *)

\* projectCRDPage: an identity is group/plural; a page repeats none of them,
\* and a resource repeats none of its versions.
ValidCRD(c) ==
  /\ All(c, {"group", "kind", "plural", "scope"}, StringValue)
  /\ Shaped(c.versions) /\ BoolOr(c.preserve)
  /\ c.versions # <<>>
  /\ \A i \in DOMAIN c.versions :
       LET v == c.versions[i]
       IN  StringValue(v.name) /\ {v.served, v.storage} \subseteq BOOLEAN
           /\ \A j \in 1..(i - 1) : c.versions[j].name # v.name
Identity(c) == <<c.group, c.plural>>
ProjectCRDPage(root) ==
  IF ~Shaped(root) \/ ~StringValue(root.rv) \/ root.next = Bad
     \/ ~Shaped(root.items)
  THEN Reject
  ELSE IF ~IsInjective([i \in DOMAIN root.items |-> Identity(root.items[i])])
  THEN Reject
  ELSE Rows(root.items, ValidCRD,
         LAMBDA c : [c EXCEPT !.preserve = NullDefault(@, FALSE)])

\* mergeCRDPages: the pages together repeat no identity either.
MergeCRDPages(items) ==
  IF ~IsInjective([i \in DOMAIN items |-> Identity(items[i])]) THEN Reject
  ELSE Kept(ToBag(items))

ValidStatus(s) == StringValue(s.image) /\ s.imageID # Bad /\ BoolOr(s.ready)
                  /\ s.restarts # Bad
\* projectPodStatus: statuses by scope, public component (or its omission)
\* and whether the image ID names the same component. adapter maps the public
\* identities to components.
PodKey(ns, s, adapter) ==
  LET known == s.image \in DOMAIN adapter
      component == IF known THEN adapter[s.image]
                   ELSE "PRIVATE_IMAGE_IDENTITY_OMITTED"
  IN  [scope |-> IF ns = "kube-system" THEN "system" ELSE "non-system",
       identity |-> component, version |-> IF known THEN s.version ELSE Nil,
       bound |-> /\ known /\ s.imageID \in DOMAIN adapter
                 /\ adapter[s.imageID] = component]
ProjectPodStatus(root, adapter) ==
  IF ~Shaped(root) THEN Reject
  ELSE IF Len(root) > MaxItems
          \/ \E i \in DOMAIN root :
               \/ ~IsString(root[i].ns) \/ root[i].statuses = Bad
               \/ Shaped(root[i].statuses) /\
                    \E j \in DOMAIN root[i].statuses :
                      ~ValidStatus(root[i].statuses[j])
  THEN Reject
  ELSE LET at == {<<i, j>> \in (DOMAIN root) \X (1..MaxItems) :
                    Shaped(root[i].statuses) /\ j \in DOMAIN root[i].statuses}
           status(x) == root[x[1]].statuses[x[2]]
           key(x) == PodKey(root[x[1]].ns, status(x), adapter)
           group(k) == {x \in at : key(x) = k}
       IN  Kept([k \in {key(x) : x \in at} |->
             [total |-> Cardinality(group(k)),
              ready |-> Cardinality({x \in group(k) : status(x).ready = TRUE}),
              restarts |-> SumBy(group(k), LAMBDA x :
                             NullDefault(status(x).restarts, 0))]])

-----------------------------------------------------------------------------
(* certmanager.go. A rule is the three grants it contains. *)

Classes == {"controller", "webhook", "cainjector", "startupapicheck"}
Grants == {"serviceaccountsTokenCreate", "certManagerAPIGroups", "acmeAPIGroup"}

\* A namespaced list only reads namespace cert-manager, but rejects a row of
\* any namespace whose name or rules are malformed; the rules themselves are
\* only looked at for the four classes.
Relevant(r, namespaced) ==
  r.class \in Classes /\ (namespaced => r.ns = "cert-manager")
ProjectCertManagerRules(root, namespaced) ==
  IF ~Shaped(root) THEN Reject
  ELSE IF Len(root) > MaxItems
          \/ \E i \in DOMAIN root :
               \/ ~StringValue(root[i].class) \/ root[i].rules = Bad
               \/ namespaced /\ ~IsString(root[i].ns)
               \/ Relevant(root[i], namespaced) /\ Shaped(root[i].rules)
                  /\ Contains(root[i].rules, Bad)
  THEN Reject
  ELSE Kept([c \in Classes |-> [g \in Grants |->
         \E i \in DOMAIN root :
           /\ Relevant(root[i], namespaced) /\ root[i].class = c
           /\ Shaped(root[i].rules)
           /\ \E j \in DOMAIN root[i].rules : g \in root[i].rules[j]]])

ProjectCertManagerBindings(root, cluster) ==
  IF ~Shaped(root) THEN Reject
  ELSE IF Len(root) > MaxItems
          \/ \E i \in DOMAIN root :
               \/ root[i].subjects = Bad \/ ~StringValue(root[i].class)
               \/ root[i].kind \notin (IF cluster THEN {"ClusterRole"}
                                      ELSE {"Role", "ClusterRole"})
  THEN Reject
  ELSE Kept([c \in Classes |-> \E i \in DOMAIN root :
         /\ Relevant(root[i], ~cluster) /\ root[i].class = c
         /\ Shaped(root[i].subjects) /\ c \in root[i].subjects])

\* boundedCount of a value or of its default.
Count(v, fallback) == NullDefault(v, fallback)
Counted(v) == v \in {Nil} \cup 0..MaxCount

\* A deployment counts when some container has a cert-manager image; the
\* counts of other deployments are not even parsed.
ProjectCertManagerHealth(root) ==
  IF ~Shaped(root) THEN Reject
  ELSE IF Len(root) > MaxItems
          \/ \E i \in DOMAIN root :
               \/ ~Shaped(root[i].images)
               \/ Shaped(root[i].images) /\
                    \E j \in DOMAIN root[i].images : ~StringValue(root[i].images[j])
               \/ Shaped(root[i].images) /\ Contains(root[i].images, "cert-manager")
                  /\ ~All(root[i], {"desired", "ready", "available"}, Counted)
  THEN Reject
  ELSE LET ours == {i \in DOMAIN root : Contains(root[i].images, "cert-manager")}
           total(f, d) == SumBy(ours, LAMBDA i : Count(root[i][f], d))
           sums == <<total("desired", 1), total("ready", 0),
                     total("available", 0)>>
       IN  IF \E i \in 1..3 : sums[i] > MaxCount THEN Reject ELSE Kept(sums)

\* A pod is a target when its labels, an image and an owner say so; a service
\* is proven when its selector is contained in the labels of such a pod.
ProjectCertManagerTargets(root) ==
  IF ~Shaped(root) THEN Reject
  ELSE IF Len(root) > MaxItems
          \/ \E i \in DOMAIN root : ~StringValue(root[i].kind) \/ root[i].ns = Bad
  THEN Reject
  ELSE LET here == {root[i] : i \in {k \in DOMAIN root :
                                      root[k].ns = "cert-manager"}}
           pods == {x \in here : x.kind = "Pod" /\ "ours" \in x.labels
                                 /\ x.image /\ x.owner}
           services == {x \in here : x.kind = "Service" /\ "ours" \in x.labels
                                     /\ x.named}
       IN  Kept([pod |-> pods # {},
                 service |-> \E s \in services, p \in pods :
                               s.labels \subseteq p.labels])

\* Every endpoint of every monitor must be well formed; only a monitor that
\* selects exactly cert-manager counts, and one endpoint must have both the
\* port and the path for the monitor to be present.
ProjectCertManagerMonitor(root) ==
  IF ~Shaped(root) THEN Reject
  ELSE IF Len(root) > MaxItems
          \/ \E i \in DOMAIN root :
               ~Shaped(root[i].endpoints) \/ Contains(root[i].endpoints, Bad)
  THEN Reject
  ELSE LET ours == UNION {ToSet(root[i].endpoints) :
                          i \in {k \in DOMAIN root : root[k].selectsOurs}}
       IN  Kept([present |-> \E e \in ours : e.port /\ e.path,
                 port |-> \E e \in ours : e.port,
                 path |-> \E e \in ours : e.path])

-----------------------------------------------------------------------------
(* classify.go: the first class with a matching line wins. A line is the    *)
(* class its prefix and fragments stand for.                                *)

StderrClasses ==
  <<"authentication_exec_plugin_failure", "unauthorized",
    "authorization_rbac_forbidden", "invalid_kubeconfig_context",
    "tls_certificate", "dns", "transport_timeout_unreachable",
    "unsupported_not_found_api">>
ClassifyKubectlStderr(lines) ==
  LET hit == {i \in DOMAIN StderrClasses : StderrClasses[i] \in lines}
  IN  IF hit = {} THEN "generic_api_read_failure" ELSE StderrClasses[Min(hit)]
=============================================================================
