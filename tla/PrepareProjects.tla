-------------------------- MODULE PrepareProjects ---------------------------
(* The adapters of internal/projectprepare: Fluent Bit, Loki, MariaDB and its *)
(* operator, Ceph, Argo Workflows, Grafana and Kibana.  v is the version pair: *)
(* "odd" when a version is malformed or both are the same, which every adapter *)
(* refuses, "pair" when it is a reviewed one.                                  *)
EXTENDS PreparePrograms, TLC

Requested(v, answer) == IF v = "odd" THEN Rejected ELSE answer
\* A reading is {} (not understood), {value}, or {"error"} (malformed).
Reading(found, answer) == IF found = {"error"} THEN Rejected ELSE answer
\* A JSON value whose objects have no key twice, and nothing after it.
DecodeJSONValue(d) == IF d.json \in {"malformed", "duplicate"} THEN {"error"} ELSE {d.json}

\* Fluent Bit: the lines of a classic configuration.  l.kind is "blank",
\* "group", "property" or "odd"; key "#" is an indented comment.
FluentBitValues == [Name |-> {"opentelemetry"}, http2 |-> {"on", "off", "force"}, grpc |-> {"on", "off", "auto"}]
FluentBitLine(s, l) ==
  CASE ~s.ok \/ l.kind = "blank" -> s
    [] l.kind = "group" -> [s EXCEPT !.ok = l.key = "OUTPUT" /\ ~s.section, !.section = TRUE]
    [] l.kind = "odd" \/ ~s.section \/ l.indent = 0 \/ s.indent \notin {0, l.indent} -> [s EXCEPT !.ok = FALSE]
    [] l.key = "#" -> [s EXCEPT !.indent = l.indent]
    [] OTHER -> [s EXCEPT !.indent = l.indent, !.set = (l.key :> l.value) @@ @,
                   !.ok = /\ l.value # "" /\ l.key \notin DOMAIN s.set /\ l.key # "HTTP2"
                          /\ l.key \in DOMAIN FluentBitValues => l.value \in FluentBitValues[l.key]]
ParseFluentBitConfig(lines) ==
  LET end == FoldLeft(FluentBitLine, [ok |-> TRUE, section |-> FALSE, indent |-> 0, set |-> <<>>], lines)
      Of(k) == IF k \in DOMAIN end.set THEN end.set[k] ELSE ""
  IN IF end.ok /\ end.section /\ "Name" \in DOMAIN end.set /\ Of("grpc") \notin {"on", "auto"}
     THEN {YesNo(Of("http2") \in {"on", "force"})} ELSE {}
PrepareFluentBit(lines, v, complete, default, preserve) ==
  Requested(v, OnlyFact(IF v = "pair" /\ complete /\ default /\ preserve THEN ParseFluentBitConfig(lines) ELSE {}))
PrepareFluentBitHTTP2Target(lines, v, complete, required) ==
  Requested(v, OnlyFact(IF v = "pair" /\ complete /\ required THEN ParseFluentBitConfig(lines) ELSE {}))

\* Loki: the entries of the YAML tree in document order, each with the mapping
\* it is in, its name and how that is written, and its value; mark is what YAML
\* adds to it: an anchor, alias, tag or merge on the key or on the value.
LokiDuplicate(es, i) == \E j \in 1..(i - 1) : es[j].in = es[i].in /\ es[j].name = es[i].name /\ es[j].form = es[i].form
LokiSafeYAMLNode(es) ==
  LET bad == {i \in DOMAIN es : es[i].mark # "plain" \/ LokiDuplicate(es, i)}
      first == CHOOSE i \in bad : \A j \in bad : i <= j
  IN IF bad = {} THEN "safe" ELSE IF es[first].mark # "key" /\ LokiDuplicate(es, first) THEN "duplicate" ELSE "unsafe"
LokiUnresolvedYAML(es) == \E i \in DOMAIN es : es[i].value = "template"
LokiNestedRelevantCompactorKey(es) == \E i \in DOMAIN es : es[i].in = "below" /\ es[i].name = "shared_store"
LokiCompactorLegacySharedStore(d, es) ==
  LET compactor == {i \in DOMAIN es : es[i].in = "root" /\ es[i].name = "compactor"}
      stores == {i \in DOMAIN es : es[i].in = "compactor" /\ es[i].name = "shared_store"}
      safe == LokiSafeYAMLNode(es)
  IN IF d # "mapping" THEN {}
     ELSE IF safe = "duplicate" THEN {"error"}
     ELSE IF safe = "unsafe" \/ LokiUnresolvedYAML(es) \/ Cardinality(compactor) # 1
          \/ (\E i \in compactor : es[i].form # "exact" \/ es[i].value # "map")
          \/ (\E i \in stores : es[i].form # "exact" \/ es[i].value # "str")
          \/ LokiNestedRelevantCompactorKey(es) THEN {}
     ELSE {YesNo(stores # {})}

\* Loki's schema: what the one period and the limits hold, and every other
\* entry of the tree.  A reserved name anywhere but in its own place, or spelt
\* otherwise, leaves the document unread, as an include does.
LokiReserved == {"limits_config", "schema_config", "allow_structured_metadata", "configs", "from", "store", "schema"}
LokiSchemaSafeYAMLNode(strays) == \A i \in DOMAIN strays : strays[i].mark = "plain" /\ strays[i].name # "include"
LokiSchemaValidateContext(d, strays) ==
  /\ d.limits = "map" /\ d.schema = "map" /\ d.configs = "one"
  /\ \A i \in DOMAIN strays : strays[i].name \notin LokiReserved
ParseLokiStructuredMetadata(d, strays) ==
  /\ d.yaml = "mapping"
  /\ LokiSchemaSafeYAMLNode(strays)
  /\ ~LokiUnresolvedYAML(strays)
  /\ LokiSchemaValidateContext(d, strays)
  /\ d.allow \in {"absent", "true", "false"} /\ d.from = "date"
  /\ d.store \in {"tsdb", "boltdb-shipper"} /\ d.version \in {"v12", "v13"}
PrepareLokiStructuredMetadata(d, strays, v, complete, precedence, useDefault) ==
  LET enabled == d.allow # "false"
      known == /\ v = "pair" /\ ParseLokiStructuredMetadata(d, strays) /\ complete /\ precedence
               /\ d.allow # "absent" \/ useDefault
  IN Requested(v, OnlyFact(IF known THEN {YesNo(enabled /\ (d.version # "v13" \/ d.store # "tsdb"))} ELSE {}))

\* MariaDB: the lines of an option file; l.kind is "blank", "odd", "group" or
\* "option".  Only the server groups and the client group are known.
MariaDBDefragmentAlias(key) == key = "innodb-defragment"
MariaDBLine(s, l) ==
  CASE s.end # "" \/ l.kind = "blank" -> s
    [] l.kind = "odd" -> [s EXCEPT !.end = "unsupported"]
    [] l.kind = "group" /\ l.key = "unclosed" -> [s EXCEPT !.end = "error"]
    [] l.kind = "group" /\ l.key \notin {"mysqld", "client"} -> [s EXCEPT !.end = "unsupported"]
    [] l.kind = "group" -> [s EXCEPT !.server = l.key = "mysqld", !.seen = @ \/ l.key = "mysqld"]
    [] l.kind = "option" /\ ~s.server -> s
    [] OTHER -> [s EXCEPT !.end =
                   IF \/ MariaDBDefragmentAlias(l.key) \/ l.value = "spaced"
                      \/ (l.key = "innodb_defragment" /\ l.value \notin {"none", "ON"})
                   THEN "unsupported" ELSE ""]
MariaDBOptionFileSupported(lines) ==
  LET s == FoldLeft(MariaDBLine, [end |-> "", server |-> FALSE, seen |-> FALSE], lines)
  IN IF s.end = "error" THEN {"error"} ELSE IF s.end = "" /\ s.seen THEN {"supported"} ELSE {}
PrepareMariaDBEffectiveConfig(lines, v, complete, precedence, upstream, declared, required) ==
  LET file == MariaDBOptionFileSupported(lines)
      known == v = "pair" /\ complete /\ precedence /\ file = {"supported"} /\ declared
  IN Requested(v, Reading(file, Prepared(known /\ upstream,
       <<DeclaredIf(known, YesNo(required)), Guard(v = "pair" /\ upstream)>>)))

\* The operator's custom resource; a key with a case variant beside it is odd.
ExactBool(r) == r \in {"true", "false"}
MariaDBOperatorFacts(d) ==
  d.shape = "ok" /\ ExactBool(d.galera) /\ (d.replication = "absent" \/ ExactBool(d.replication)) /\ ExactBool(d.autoUpdate)
PrepareMariaDBOperatorResource(d, v, complete, before) ==
  IF DecodeJSONValue(d) # {"object"} THEN Rejected ELSE
  LET known == v = "pair" /\ MariaDBOperatorFacts(d)
  IN Prepared(known /\ complete /\ before /\ d.galera = "true" /\ d.replication # "true",
       <<DeclaredIf(known, d.autoUpdate), DeclaredIf(known, d.galera), DeclaredIf(known, YesNo(before)),
         DeclaredIf(known, YesNo(d.replication = "true")), DeclaredIf(known, YesNo(complete))>>)

\* Ceph: the object store of the one OSD that was selected.
CephSelectedObjectStore(d) ==
  IF DecodeJSONValue(d) = {"error"} THEN {"error"}
  ELSE IF d.json = "object" /\ d.id = "selected" /\ d.store \in {"filestore", "bluestore"}
       THEN {YesNo(d.store = "filestore")} ELSE {}
PrepareSelectedOSDMetadata(d, v, complete) ==
  LET found == CephSelectedObjectStore(d)
  IN Requested(v, Reading(found, OnlyFact(IF complete THEN found ELSE {})))

\* Argo Workflows: the arguments of the one container named argo-server in a
\* deployment of the reviewed image, started by argo or by its entry point and
\* given nothing through the environment.
ArgoWorkflowsServerArg(s, token) ==
  LET name == CASE token \in {"--basehref", "--basehref=v"} -> "legacy"
                [] token \in {"--base-href", "--base-href=v"} -> "target"
                [] OTHER -> ""
  IN CASE ~s.ok -> s
       [] s.value -> [s EXCEPT !.ok = token = "word", !.value = FALSE]
       [] name # "" -> [s EXCEPT !.ok = name \notin s.seen, !.seen = @ \cup {name},
                                 !.value = token \in {"--basehref", "--base-href"}]
       [] OTHER -> [s EXCEPT !.ok = token = "--x=v"]
InspectArgoWorkflowsServerArgs(args) ==
  IF args = <<>> \/ Head(args) # "server" THEN {} ELSE
  LET end == FoldLeft(ArgoWorkflowsServerArg, [ok |-> TRUE, seen |-> {}, value |-> FALSE], Tail(args))
  IN IF end.ok /\ ~end.value THEN {YesNo("legacy" \in end.seen)} ELSE {}
UnresolvedArgoWorkflowsEnvironment(d) == {d.env, d.envFrom} \cap {"set", "odd"} # {}
ArgoWorkflowsServerBaseHref(d, names, args) ==
  IF DecodeJSONValue(d) # {"object"} THEN {"error"}
  ELSE IF /\ d.shape = "ok"
          /\ "odd" \notin Range(names) /\ IsInjective(names) /\ "argo-server" \in Range(names)
          /\ d.image = "target" /\ d.command \in {"absent", "argo"}
          /\ ~UnresolvedArgoWorkflowsEnvironment(d)
       THEN InspectArgoWorkflowsServerArgs(args) ELSE {}
PrepareWorkload(d, names, args, v, complete) ==
  LET found == IF v = "pair" THEN ArgoWorkflowsServerBaseHref(d, names, args)
               ELSE ArgoWorkflowsServerBaseHref([d EXCEPT !.image = "other"], names, args)
  IN Requested(v, Reading(found, OnlyFact(IF complete THEN found ELSE {})))

\* Grafana: the lines of an INI file; only [alerting] enabled is read.
GrafanaLine(s, l) ==
  CASE s.end # "" \/ l.kind = "blank" -> s
    [] l.kind = "group" /\ l.key = "unclosed" -> [s EXCEPT !.end = "error"]
    [] l.kind = "group" /\ l.key = "Alerting" -> [s EXCEPT !.end = "unsupported"]
    [] l.kind = "group" -> [s EXCEPT !.in = l.key = "alerting", !.groups = @ + (IF l.key = "alerting" THEN 1 ELSE 0),
                                     !.end = IF l.key = "alerting" /\ s.groups = 1 THEN "error" ELSE ""]
    [] ~s.in -> s
    [] l.value = "none" -> [s EXCEPT !.end = "error"]
    [] l.key = "other" -> s
    [] l.key = "Enabled" -> [s EXCEPT !.end = "unsupported"]
    [] s.value # "" -> [s EXCEPT !.end = "error"]
    [] OTHER -> [s EXCEPT !.value = l.value,
                   !.end = CASE l.value \in {"true", "false"} -> "" [] l.value = "empty" -> "unsupported" [] OTHER -> "error"]
GrafanaLegacyAlerting(lines) ==
  LET s == FoldLeft(GrafanaLine, [end |-> "", in |-> FALSE, groups |-> 0, value |-> ""], lines)
  IN CASE s.end = "error" -> {"error"} [] s.end = "" -> {YesNo(s.value = "true")} [] OTHER -> {}

\* Kibana: one setting, written with a dotted key or nested.  A key is the
\* sequence of its names, a JSON path the sequence of the keys that lead to a
\* value, and XPACK a case variant of xpack.
KibanaSelected == <<"xpack", "reporting", "roles", "allow">>
KibanaLower(names) == [i \in DOMAIN names |-> IF names[i] = "XPACK" THEN "xpack" ELSE names[i]]
KibanaNames(keys) == FoldLeft(LAMBDA a, b : a \o b, <<>>, keys)
Within(a, b) == IsPrefix(a, b) /\ a # b
\* A key that leads on towards the setting but is neither the whole dotted key
\* nor the next single name, or is spelt otherwise.
HasKibanaMixedJSONPrefix(p) ==
  \E i \in DOMAIN p :
    LET before == KibanaLower(KibanaNames(SubSeq(p, 1, i - 1)))
        upto == KibanaLower(KibanaNames(SubSeq(p, 1, i)))
    IN /\ Within(before, KibanaSelected)
       /\ IsPrefix(upto, KibanaSelected) \/ IsPrefix(KibanaSelected, upto)
       /\ (Len(p[i]) > 1 /\ ~(i = 1 /\ p[1] = KibanaSelected)) \/ p[i] # KibanaLower(p[i])
KibanaJSON(d, paths) ==
  LET Nested(n) == [i \in 1..n |-> <<KibanaSelected[i]>>]
      dotted == \E p \in paths : p[1] = KibanaSelected
      nested == \E p \in paths : IsPrefix(Nested(4), p)
  IN IF DecodeJSONValue(d) # {"object"} THEN {"error"}
     ELSE IF (\E p \in paths : HasKibanaMixedJSONPrefix(p)) \/ (\E n \in 1..3 : Nested(n) \in paths) THEN {}
     ELSE IF dotted /\ nested THEN {"error"} ELSE {YesNo(dotted \/ nested)}
\* The same setting in plain YAML, line by line: stack holds the keys that are
\* open, by indentation.  l.kind is "blank", "odd", "item" or "key", and l.value
\* whether text, or a brace, follows the colon.
KibanaStack(stack, indent) == [i \in 1..indent |-> stack[i - 1]]
KibanaOpen(stack, indent) == \A i \in 0..(indent - 1) : i \in DOMAIN stack
AmbiguousKibanaPath(path) ==
  \/ Within(KibanaSelected, KibanaLower(path))
  \/ IsPrefix(KibanaLower(path), KibanaSelected) /\ path # KibanaLower(path)
\* The names on the stack up to the first gap.
YAMLStackPath(stack, indent) ==
  LET reach == CHOOSE n \in 0..indent : KibanaOpen(stack, n) /\ (n = indent \/ n \notin DOMAIN stack)
  IN KibanaNames(KibanaStack(stack, reach))
KibanaYAMLKey(s, l) ==
  LET stack == [d \in {x \in DOMAIN s.stack : x < l.indent} |-> s.stack[d]]
      path == KibanaNames(KibanaStack(stack, l.indent)) \o l.key
      relevant == path[1] = "xpack" \/ IsPrefix(SubSeq(KibanaSelected, 1, 3), l.key)
  IN IF \/ ~KibanaOpen(stack, l.indent) \/ AmbiguousKibanaPath(path)
        \/ (Within(path, KibanaSelected) /\ l.value # "")
        \/ (relevant /\ path # KibanaSelected /\ l.value = "brace") THEN [s EXCEPT !.end = "unsupported"]
     ELSE [s EXCEPT !.end = IF path \in s.seen THEN "error" ELSE "", !.seen = @ \cup {path},
                    !.stack = IF l.value = "" THEN (l.indent :> l.key) @@ stack ELSE stack]
KibanaYAMLLine(s, l) ==
  CASE s.end # "" \/ l.kind = "blank" -> s
    [] l.kind = "odd" -> [s EXCEPT !.end = "unsupported"]
    [] l.kind = "item" ->
       LET parent == YAMLStackPath(s.stack, l.indent)
           ours == KibanaOpen(s.stack, l.indent) /\ parent = KibanaSelected
       IN [s EXCEPT !.end = IF ~ours /\ IsPrefix(<<"xpack">>, parent) THEN "unsupported" ELSE ""]
    [] OTHER -> KibanaYAMLKey(s, l)
KibanaYAML(lines) ==
  LET s == FoldLeft(KibanaYAMLLine, [end |-> "", stack |-> <<>>, seen |-> {}], lines)
  IN CASE s.end = "error" -> {"error"} [] s.end = "" -> {YesNo(KibanaSelected \in s.seen)} [] OTHER -> {}
KibanaReportingRolesAllow(d, paths, lines) == IF d.json # "yaml" THEN KibanaJSON(d, paths) ELSE KibanaYAML(lines)

\* The status page: two dotted keys in one plain mapping; what is left out has
\* the default of the target.
KibanaStatusPageSettings(d) ==
  d.lines = "ok" /\ d.yaml = "ok" /\ d.other = "absent" /\ "odd" \notin {d.bypass, d.anonymous}
PrepareKibanaStatusPage(d, v, complete, precedence, declared, required) ==
  LET known == v = "latest" /\ complete /\ precedence /\ KibanaStatusPageSettings(d)
  IN Requested(v, Prepared(known /\ declared,
       <<DeclaredIf(v = "latest" /\ declared, YesNo(required)), DeclaredIf(known, YesNo(d.anonymous # "true")),
         DeclaredIf(known, YesNo(d.bypass = "true"))>>))

\* The generic entry.  "latest" is the last target from a reviewed origin,
\* "unreviewed" the last target from any other; the status page has its own
\* entry, and MariaDB's guard cannot be given here.
PrepareEffectiveConfig(project, v, found, lines, complete, precedence) ==
  LET read == IF (project = "kibana" /\ v = "latest") \/ (project = "grafana" /\ v = "unreviewed" /\ found # {"error"})
              THEN {} ELSE found
  IN IF project = "mariadb" THEN PrepareMariaDBEffectiveConfig(lines, v, complete, precedence, FALSE, FALSE, FALSE)
     ELSE Requested(v, Reading(read, OnlyFact(IF complete /\ precedence THEN read ELSE {})))
=============================================================================
