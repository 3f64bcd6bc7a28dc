--------------------------- MODULE ComponentSurface -------------------------
(***************************************************************************)
(* The component configuration surface of internal/localcollector: which   *)
(* containers of the projected workloads count as a reviewed component,    *)
(* what their arguments say, and how the rows of all workload files are    *)
(* merged. An image is [id, hub, tag, digest]; hub marks the alias         *)
(* index.docker.io; a tag is [text, v, num], num "" when it is not a       *)
(* strict version. An argument is [flag, value], the value given inline or *)
(* as the next word; a predicate is a pair. What cannot be told is absent  *)
(* from the surface: every way to give up ends in an omission that names   *)
(* the file.                                                               *)
(***************************************************************************)
EXTENDS Naturals, Sequences, FiniteSets, SequencesExt, TLC

CONSTANTS
  Nil, Bad,  \* model values: absent, malformed
  Adapters   \* component -> [ids, kinds, role, rules, entry, bindings]

Prometheus == "prometheus"
CertManager == "cert-manager"

NoAdapter == ""
Omission(code) == [rows |-> <<>>, omissions |-> <<code>>]
Ignored == [rows |-> <<>>, omissions |-> <<>>]

-----------------------------------------------------------------------------
(* Images and adapters *)

\* publicImage: a digest pin names the scheme even when the tag is a version.
Scheme(image) == IF image.digest # "" THEN "digest"
                 ELSE IF image.tag.num # "" THEN "tag" ELSE "unknown"

\* findAdapter.
AdapterOf(id) == LET owners == {a \in DOMAIN Adapters : id \in Adapters[a].ids}
                 IN  IF owners = {} THEN NoAdapter ELSE CHOOSE a \in owners : TRUE

\* projectWorkload drops the match of the alias under profile v3, while
\* findAdapterByParticipation counts the alias as the component.
Matched(c, profile) ==
  IF profile = "v3" /\ c.image.hub THEN NoAdapter ELSE AdapterOf(c.image.id)
Participates(image, a) == image.id \in Adapters[a].ids

BindingFor(a, image) ==
  {b \in Adapters[a].bindings : b.version = image.tag.num}

-----------------------------------------------------------------------------
(* The command and the arguments of a container *)

\* validateEntrypoint; c.w is the workload the container is in, c.init the
\* images of its init containers.
ValidateEntrypoint(c, all, a, profile) ==
  IF profile # "v3" \/ ~Adapters[a].entry
  THEN IF c.command = Nil THEN "observed" ELSE "unavailable"
  ELSE LET bound == BindingFor(a, c.image)
           rivals == {i \in DOMAIN all : all[i].w = c.w
                                         /\ Participates(all[i].image, a)}
       IN  IF bound = {} THEN "unsupported_version"
           ELSE IF ~c.image.tag.v
                   \/ \E b \in bound : IF b.pinned
                                       THEN c.image.digest \notin b.digests
                                       ELSE c.image.digest # ""
           THEN "unverified_image"
           ELSE IF \/ \E image \in c.init : Participates(image, a)
                   \/ Cardinality(rivals) # 1
           THEN "ambiguous_role"
           ELSE IF c.command = Nil /\ \A b \in bound : b.pinned THEN "observed"
           ELSE IF c.command \in {Nil, Bad} THEN "malformed"
           ELSE IF c.command = "accepted" THEN "observed" ELSE "unavailable"

\* validatedArgs, with prometheus' default for an absent array under v3.
ArgsOf(c, a, profile) ==
  IF /\ c.args = Nil /\ profile = "v3" /\ a = Prometheus
     /\ \E b \in BindingFor(a, c.image) : b.agentDefaultOff
  THEN <<>> ELSE c.args

Seen(v) == [state |-> "observed", value |-> v]
State(s) == [state |-> s, value |-> ""]

\* ruleValue.
RuleValue(rule, arg) ==
  CASE rule.kind = "presence" ->
         IF arg.value = "" THEN Seen("true") ELSE State("malformed")
    [] rule.kind = "named" ->
         IF arg.value = "dns1123" THEN Seen("true") ELSE State("malformed")
    [] rule.kind = "boolean" ->
         IF arg.value \in {"", "true"} THEN Seen("true")
         ELSE IF arg.value = "false" THEN Seen("false")
         ELSE State("malformed")
    [] rule.kind = "enum" ->
         IF arg.value \in rule.allowed THEN Seen(arg.value)
         ELSE State("malformed")
    [] rule.kind = "featureGate" ->
         IF arg.gates = Bad THEN State("malformed")
         ELSE LET said == {g[2] : g \in {x \in arg.gates : x[1] = rule.gate}}
              IN  IF said = {} THEN State("absent")
                  ELSE IF Cardinality(said) > 1 THEN State("conflict")
                  ELSE Seen(CHOOSE s \in said : TRUE)

\* prometheusAgentMode: the flag of 3.1.0, the feature of 2.55.1.
AgentMode(args, version) ==
  LET flags == [i \in DOMAIN args |-> args[i].flag]
      count == Cardinality({i \in DOMAIN args : flags[i] = "--agent"})
  IN  CASE version = "3.1.0" ->
             IF \E i \in DOMAIN args : \/ flags[i] = "--no-agent"
                                       \/ flags[i] = "--agent"
                                          /\ args[i].value # ""
             THEN State("malformed")
             ELSE IF count > 1 THEN State("conflict")
             ELSE Seen(IF count = 1 THEN "true" ELSE "false")
        [] version = "2.55.1" ->
             IF count > 0 THEN State("malformed")
             ELSE Seen(IF \E i \in DOMAIN args :
                                /\ flags[i] = "--enable-feature"
                                /\ args[i].value = "agent"
                           THEN "true" ELSE "false")
        [] OTHER -> State("unsupported")

\* summarizeRule: the first value that is not observed decides; the others
\* must agree.
Agreed(values) ==
  IF \E i \in DOMAIN values : values[i].state # "observed"
  THEN SelectSeq(values, LAMBDA v : v.state # "observed")[1]
  ELSE IF values = <<>> THEN State("absent")
  ELSE IF \E i \in DOMAIN values : values[i] # values[1] THEN State("conflict")
  ELSE values[1]
SummarizeRule(args, rule, c, a) ==
  IF rule.kind = "digest"
  THEN IF BindingFor(a, c.image) # {} /\ c.image.digest # ""
       THEN Seen(c.image.digest) ELSE State("unsupported")
  ELSE IF rule.kind = "agentMode" THEN AgentMode(args, c.image.tag.num)
  ELSE Agreed(FlattenSeq([i \in DOMAIN args |->
         IF args[i].flag = rule.flag THEN <<RuleValue(rule, args[i])>> ELSE <<>>]))

-----------------------------------------------------------------------------
(* One container, and one workload file *)

\* prometheusContextComplete: every eligible container of the file is fully
\* understood, or none is kept.
ContextComplete(all, a) ==
  LET eligible == {i \in DOMAIN all : all[i].kind \in Adapters[a].kinds
                                      /\ Participates(all[i].image, a)}
  IN  /\ eligible # {}
      /\ \A i \in eligible :
           /\ ValidateEntrypoint(all[i], all, a, "v3") = "observed"
           /\ ArgsOf(all[i], a, "v3") \notin {Nil, Bad}
           /\ \A r \in Adapters[a].rules :
                SummarizeRule(ArgsOf(all[i], a, "v3"), r, all[i], a).state
                  = "observed"

\* The row of a container: said is what each rule found. A cert-manager
\* image says by its name which role it has.
Predicates(c, said) ==
  [id \in {r.id : r \in {x \in DOMAIN said : said[x].state = "observed"}} |->
     said[CHOOSE r \in DOMAIN said : r.id = id].value]
  @@ (IF c.role = <<>> THEN [id \in {} |-> ""] ELSE c.role :> "true")
RowOf(c, a, profile, said) ==
  IF \E r \in DOMAIN said : said[r].state \in {"malformed", "conflict"}
  THEN Omission("PREDICATE_MALFORMED_OR_CONFLICT")
  ELSE IF c.role = <<>> /\ \A r \in DOMAIN said : said[r].state # "observed"
  THEN Omission("PREDICATE_UNOBSERVED")
  ELSE [rows |-> <<[component |-> a, role |-> Adapters[a].role,
                    version |-> IF profile = "v3" /\ Adapters[a].entry
                                THEN c.image.tag.num ELSE c.image.tag.text,
                    scheme |-> IF profile = "v3" /\ Adapters[a].entry
                               THEN "tag" ELSE Scheme(c.image),
                    predicates |-> Predicates(c, said)]>>,
        omissions |-> <<>>]

\* The checks of configureContainer in their order; state and args are what
\* the entrypoint and the arguments came to.
Configure(c, all, a, profile, state, args) ==
  IF c.kind \notin Adapters[a].kinds
  THEN Omission("WORKLOAD_ROLE_UNSUPPORTED")
  ELSE IF profile = "v3" /\ a = Prometheus /\ ~ContextComplete(all, a)
  THEN Omission("DECLARED_ROLE_AMBIGUOUS")
  ELSE IF Scheme(c.image) = "unknown" THEN Omission("VERSION_UNRESOLVED")
  ELSE IF state # "observed" THEN Omission(state)
  ELSE IF args = Nil THEN Omission("ARGS_UNAVAILABLE")
  ELSE IF args = Bad THEN Omission("ARGS_MALFORMED")
  ELSE RowOf(c, a, profile,
             [r \in Adapters[a].rules |-> SummarizeRule(args, r, c, a)])
ConfigureContainer(c, all, a, profile) ==
  IF a = NoAdapter THEN Omission("IDENTITY_UNRESOLVED")
  ELSE IF profile = "v3" /\ a = Prometheus /\ c.kind \in {"ReplicaSet", "Pod"}
  THEN Ignored
  ELSE Configure(c, all, a, profile, ValidateEntrypoint(c, all, a, profile),
                 ArgsOf(c, a, profile))

\* projectWorkload: a list of workloads [kind, spec, containers, init]. A
\* malformed workload or container rejects the file.
ContainersOf(list) ==
  FlattenSeq([i \in DOMAIN list |->
    [j \in DOMAIN list[i].containers |->
      [w |-> i, kind |-> list[i].kind, init |-> list[i].init]
        @@ list[i].containers[j]]])
InitOmissions(list, profile) ==
  SelectSeq([i \in DOMAIN list |->
      IF list[i].init = {} THEN ""
      ELSE IF list[i].containers = <<>> THEN "NO_REGULAR_CONTAINERS"
      ELSE IF profile = "v3" THEN "INIT_CONTAINERS_IGNORED" ELSE ""],
    LAMBDA code : code # "")
Collected(each, more) ==
  [rejected |-> FALSE,
   rows |-> FlattenSeq([i \in DOMAIN each |-> each[i].rows]),
   omissions |-> more \o FlattenSeq([i \in DOMAIN each |-> each[i].omissions])]
ConfigureAll(all, profile, more) ==
  Collected([i \in DOMAIN all |-> ConfigureContainer(all[i], all,
                                    Matched(all[i], profile), profile)], more)
ProjectWorkload(list, profile) ==
  IF \E i \in DOMAIN list :
       \/ list[i].kind = "" \/ list[i].containers = Bad
       \/ ~list[i].spec /\ list[i].kind # "ReplicationController"
  THEN [rejected |-> TRUE]
  ELSE ConfigureAll(ContainersOf(SelectSeq(list, LAMBDA w : w.spec)), profile,
                    InitOmissions(SelectSeq(list, LAMBDA w : w.spec), profile))

-----------------------------------------------------------------------------
(* The surface of all files together *)

\* mergeComponent: the rows of a component agree on one version, one scheme
\* and every predicate, or no predicate is kept. A predicate they agree on, by
\* the evidence of several roles, is ambiguous.
MergeComponent(rows) ==
  LET each == ToSet(rows)
      versions == {r.version : r \in each} \ {""}
      schemes == {r.scheme : r \in each}
      ids == UNION {DOMAIN r.predicates : r \in each}
      with(id) == {r \in each : id \in DOMAIN r.predicates}
      values(id) == {r.predicates[id] : r \in with(id)}
      roles(id) == {r.role : r \in with(id)} \ {""}
      conflict == \/ Cardinality(versions) # 1 \/ Cardinality(schemes) # 1
                  \/ \E id \in ids : Cardinality(values(id)) # 1
      clear == {id \in ids : Cardinality(roles(id)) <= 1}
  IN  [count |-> Len(rows), conflict |-> conflict,
       predicates |-> IF conflict THEN [id \in {} |-> ""]
                      ELSE [id \in clear |-> CHOOSE v \in values(id) : TRUE],
       ambiguous |-> {id \in ids \ clear : Cardinality(values(id)) = 1}]

\* prometheusSourceIncomplete. As a mutant, only the deployments are asked.
DeploymentsIncomplete(omissions) ==
  \E i \in DOMAIN omissions : omissions[i].source = "deployment-images.json"
SourceIncomplete(omissions) ==
  \E i \in DOMAIN omissions :
    omissions[i].source \in {"deployment-images.json", "statefulset-images.json"}

\* groupOmissions: the omissions of one code and source are counted together.
GroupOmissions(omissions) ==
  [o \in ToSet(omissions) |-> Cardinality({i \in DOMAIN omissions : omissions[i] = o})]

\* aggregateComponents: under v3 no subset of prometheus' controllers is kept.
\* That, and every ambiguous predicate, is an omission of its own.
RoleAmbiguous == [code |-> "DECLARED_ROLE_AMBIGUOUS", source |-> "component-configuration-aggregate"]
AggregateComponents(profile, rows, omissions) ==
  LET kept == IF profile = "v3" /\ SourceIncomplete(omissions)
              THEN SelectSeq(rows, LAMBDA r : r.component # Prometheus) ELSE rows
      of(c) == SelectSeq(kept, LAMBDA r : r.component = c)
      components == [c \in {kept[i].component : i \in DOMAIN kept} |-> MergeComponent(of(c))]
      ambiguous == UNION {{<<c, id>> : id \in components[c].ambiguous} : c \in DOMAIN components}
  IN  [components |-> components,
       omissions |-> GroupOmissions(omissions
         \o [i \in 1..(Cardinality(ambiguous) + IF kept # rows THEN 1 ELSE 0) |-> RoleAmbiguous])]

-----------------------------------------------------------------------------
(* deriveCertManager: what the other surfaces say of cert-manager. available *)
(* is the set of surfaces that could be read; s holds their projections.    *)

WantedCRDs == {"certificates", "certificaterequests", "issuers",
               "clusterissuers", "challenges", "orders"}
Webhooks == {"validating-webhooks.json", "mutating-webhooks.json"}
RBAC == {"cert-manager-rbac-surface.json", "cert-manager-role-surface.json",
         "cert-manager-rolebindings.json", "cert-manager-clusterrolebindings.json"}
Monitoring == {"cert-manager-servicemonitors.json",
               "cert-manager-podmonitors.json",
               "cert-manager-monitor-targets.json"}

Flagged(b) == IF b THEN "true" ELSE "false"

\* s.crds: for each wanted name, the v1 entries of the CRDs of that name.
CRDPredicates(s) ==
  LET ok == {n \in WantedCRDs : Len(s.crds[n]) = 1 /\ s.crds[n][1].served}
  IN  [id \in {<<"crd", n>> : n \in ok} |-> Flagged(s.crds[id[2]][1].storage)]

\* s.hooks: the webhooks that name cert-manager's service and API groups.
HookPredicates(s) ==
  (<<"hook", "v1">> :> Flagged(\E h \in s.hooks : h.v1))
    @@ (<<"hook", "fail">> :> Flagged(\E h \in s.hooks : h.fail))
    @@ (<<"hook", "identity">> :> Flagged(s.hooks # {}))

\* A grant counts for a class whose account is bound, by whichever list.
RBACPredicates(s) ==
  [id \in {<<"rbac", g>> : g \in s.grants} |->
     Flagged(\E c \in s.bound : <<c, id[2]>> \in s.rules)]

MonitorPredicates(s) ==
  LET seen(what) == \/ s.target.service /\ what \in s.service
                    \/ s.target.pod /\ what \in s.pod
  IN  (<<"metrics", "service">> :> Flagged(s.target.service /\ "present" \in s.service))
        @@ (<<"metrics", "pod">> :> Flagged(s.target.pod /\ "present" \in s.pod))
        @@ (<<"metrics", "port">> :> Flagged(seen("port")))
        @@ (<<"metrics", "path">> :> Flagged(seen("path")))

DeriveCertManager(rows, s, available) ==
  LET ours == SelectSeq(rows, LAMBDA r : r.component = CertManager)
      versions == {ours[i].version : i \in DOMAIN ours} \ {""}
      crds == "crd-api-surface.json" \in available
      hooks == Webhooks \subseteq available
      rbac == RBAC \subseteq available
      monitors == Monitoring \subseteq available
                  /\ (s.target.service \/ s.target.pod)
      health == "cert-manager-health.json" \in available
      none == [id \in {} |-> ""]
  IN  IF ours = <<>> THEN Ignored
      ELSE [rows |-> <<[component |-> CertManager,
              version |-> IF Cardinality(versions) = 1
                          THEN CHOOSE v \in versions : TRUE ELSE "",
              scheme |-> IF Cardinality(versions) = 1 THEN "tag" ELSE "unknown",
              role |-> "",
              predicates |->
                (<<"install_mode", "">> :> "unknown")
                @@ (IF crds THEN CRDPredicates(s) ELSE none)
                @@ (IF hooks THEN HookPredicates(s) ELSE none)
                @@ (IF rbac THEN RBACPredicates(s) ELSE none)
                @@ (IF monitors THEN MonitorPredicates(s) ELSE none)
                @@ (IF health THEN <<"health", "">> :> s.health ELSE none)]>>,
            omissions |->
              SelectSeq(<<IF crds /\ DOMAIN CRDPredicates(s)
                                      = {<<"crd", n>> : n \in WantedCRDs}
                          THEN "" ELSE "CRD_SURFACE_UNAVAILABLE",
                          IF hooks THEN "" ELSE "API_UNAVAILABLE",
                          IF rbac THEN "" ELSE "RBAC_FORBIDDEN",
                          IF monitors THEN "" ELSE "API_UNAVAILABLE",
                          IF health THEN "" ELSE "HEALTH_UNAVAILABLE">>,
                        LAMBDA code : code # "")]

\* What the files of a context contribute (lost: not read), in their order.
Projected(file, profile) ==
  IF file.lost THEN [rejected |-> TRUE] ELSE ProjectWorkload(file.list, profile)
Tagged(codes, source) ==
  [i \in DOMAIN codes |-> [code |-> codes[i], source |-> source]]
WorkloadRows(names, got) ==
  FlattenSeq([i \in DOMAIN names |->
    IF got[names[i]].rejected THEN <<>> ELSE got[names[i]].rows])
WorkloadOmissions(names, got) ==
  FlattenSeq([i \in DOMAIN names |->
    Tagged(IF got[names[i]].rejected THEN <<"not projected">>
           ELSE got[names[i]].omissions, names[i])])
=============================================================================
