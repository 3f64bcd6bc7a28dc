------------------------- MODULE ObservationBundle --------------------------
(***************************************************************************)
(* What an imported observation says: projectContext of                    *)
(* internal/observation reduces the rows of the collector's files to one   *)
(* row per component, and internal/currentbundle converts that into the    *)
(* canonical bundle and validates it again. A file is its parsed content,  *)
(* in the order of the manifest. Wording, digests and length bounds are    *)
(* left out; a file that breaks one of them is not shaped.                 *)
(***************************************************************************)
EXTENDS Cases, Naturals, FiniteSets, SequencesExt

-----------------------------------------------------------------------------
(* Versions, omissions and the collection.                                 *)

\* normalizeVersion strips one leading v; what is not a version is outside.
NormalVersion == [v \in {"3.1.0", "v3.1.0", "2.55.1"} |-> IF v = "v3.1.0" THEN "3.1.0" ELSE v]
\* normalizeKubernetesVersion also strips the reviewed provider suffix.
NormalServer == [v \in {"1.30", "1.30-gke", "1.31"} |-> IF v = "1.30-gke" THEN "1.30" ELSE v]

\* canonicalCollectorOmission: a stage token of the collector is renamed.
CollectorTokens == {"pipeline_failed"}
CanonicalOmission(t) == IF t \in CollectorTokens THEN "PIPELINE_FAILED" ELSE t
OmissionCodes == {"PIPELINE_FAILED", "API_READ_FAILED", "VERSION_UNRESOLVED", "KUBERNETES_VERSION_UNOBSERVED",
                  "PROVIDER_UNOBSERVED"}

\* parseOmissions: only a stage token may repeat.
ParsedOmissions(rows) ==
  /\ \A i \in DOMAIN rows : rows[i] # "malformed"
  /\ \A i, j \in DOMAIN rows :
       i < j /\ rows[j] \notin CollectorTokens => CanonicalOmission(rows[i]) # rows[j]

ValidCollection(status, declared, parsed) ==
  /\ declared = parsed /\ (status = "complete" => declared = 0)
  /\ status \in {"complete", "partial", "partialLegacy", "unknown"}

\* validateSurfaceMetadata; "" is a surface without metadata
SurfaceAdapters == {"", "v1", "v2", "v3"}
DeclaredAdapters == {"v2", "v3"}

\* validateSnapshotMetadata, validateSyntheticMetadata and the conditions
\* projectContext adds; a surface that is included is fully identified.
ValidMetadata(m) == /\ m.shaped /\ m.status \in {"complete", "partial"}
                    /\ m.synthetic # "broken" /\ (m.include => m.adapter # "none")

-----------------------------------------------------------------------------
(* The rows of a configuration surface and of a workload image summary.    *)

LogicalRoles == {"server", "controller", "workflow-controller"}
WorkloadRoles == {"Deployment", "Job"}
PredicateStates == {"observed", "missing", "ambiguous", "stale", "conflicting", "unsupported"}
EvidenceClasses == {"", "declared", "synthetic"}
ScalarValues == {"true", "false", "d3", "d2", "info", "escaped", "1"}
IdentityPredicates == {"agent", "digest"}
ApprovedPrometheusImageDigest == [v \in {"3.1.0", "2.55.1"} |-> IF v = "3.1.0" THEN "d3" ELSE "d2"]

ValidConfigurationObservation(row) ==
  IF row.state = "conflict"
    THEN row.version = "none" /\ row.scheme = "unknown" /\ row.conflict
    ELSE /\ row.state = "observed" /\ ~row.conflict
         /\ row.scheme \in IF row.version # "none" THEN {"tag", "digest"} ELSE {"unknown"}

ValidWorkloadObservation(row) ==
  IF row.state = "conflict"
    THEN row.version = "none" /\ row.scheme = "unknown" /\ row.conflict
    ELSE /\ row.state \in {"active", "declared"} /\ ~row.conflict
         /\ row.scheme \in IF row.version # "none" THEN {"semver", "calver", "tag", "digest"}
                                                   ELSE {"digest", "unknown"}

VersionOK(row) == row.version = "none" \/ row.version \in DOMAIN NormalVersion

\* The identity predicates of Prometheus come as a pair, from the third
\* producer, for an approved version, with the image digest bound to it.
ValidProducerBoundPredicates(adapter, row) ==
  LET mentioned == DOMAIN row.predicates \cup {row.evidence[i].id : i \in DOMAIN row.evidence} IN
  mentioned \cap IdentityPredicates # {} =>
    /\ adapter = "v3" /\ row.id = "prometheus" /\ row.version # "none" /\ row.scheme = "tag"
    /\ NormalVersion[row.version] \in DOMAIN ApprovedPrometheusImageDigest
    /\ IdentityPredicates \subseteq DOMAIN row.predicates
    /\ row.predicates["agent"] \in {"true", "false"}
    /\ row.predicates["digest"] = ApprovedPrometheusImageDigest[NormalVersion[row.version]]
    /\ "server" \in ToSet(row.roles)
    /\ \A p \in IdentityPredicates :
         \E i \in DOMAIN row.evidence :
           /\ row.evidence[i] = [id |-> p, state |-> "observed", role |-> "server", class |-> "declared"]
           /\ \A j \in DOMAIN row.evidence : row.evidence[j].id = p => j = i

ValidEvidence(adapter, row) ==
  \A i \in DOMAIN row.evidence : LET e == row.evidence[i] IN
    /\ \A j \in DOMAIN row.evidence : row.evidence[j].id = e.id => j = i
    /\ e.state \in PredicateStates /\ e.role \in LogicalRoles /\ e.class \in EvidenceClasses
    /\ (e.class = "declared") = (adapter \in DeclaredAdapters)
    /\ e.role \in ToSet(row.roles)
    /\ (e.state = "observed") = (e.id \in DOMAIN row.predicates)

ValidSurfaceRow(adapter, row) ==
  /\ row.id # "odd" /\ ValidConfigurationObservation(row) /\ VersionOK(row) /\ row.count >= 1
  /\ ValidProducerBoundPredicates(adapter, row)
  /\ ToSet(row.roles) \subseteq LogicalRoles /\ Cardinality(ToSet(row.roles)) = Len(row.roles)
  /\ row.versions # {} => /\ row.conflict /\ Cardinality(row.versions) >= 2
                          /\ row.versions \subseteq DOMAIN NormalVersion
  /\ \A p \in DOMAIN row.predicates : row.predicates[p] \in ScalarValues
  /\ ValidEvidence(adapter, row)

ValidImageRow(row) == row.id # "odd" /\ ValidWorkloadObservation(row) /\ VersionOK(row)

\* An omission of the surface names its source or is a bare code.
ValidSurfaceOmission(o) == o.code # "malformed" /\ o.source \in {"", "surface"}

ValidFile(f, index) ==
  CASE f.kind = "server" -> f.shaped /\ f.version \in DOMAIN NormalServer
    [] f.kind = "metadata" -> ValidMetadata(f)
    [] f.kind = "surface" -> /\ f.adapter \in SurfaceAdapters
                             /\ \A i \in DOMAIN f.omissions : ValidSurfaceOmission(f.omissions[i])
                             /\ \A i \in DOMAIN f.rows : ValidSurfaceRow(f.adapter, f.rows[i])
    [] f.kind = "omissions" -> ParsedOmissions(f.rows) /\ ValidCollection(index.status, index.omissions, Len(f.rows))
    [] f.kind = "images" -> \A i \in DOMAIN f.rows : ValidImageRow(f.rows[i])

-----------------------------------------------------------------------------
(* projectContext: what the files say together.                            *)

FilesOf(files, kind) == SelectSeq(files, LAMBDA f : f.kind = kind)
RowsOf(fs) == UNION {ToSet(fs[i].rows) : i \in DOMAIN fs}

\* The persisted surface is the one the metadata names.
SurfaceMatches(m, surface) == m.include => m.adapter = surface.adapter
\* A surface is compared with the metadata read before it, if there is any.
MatchesSoFar(files, i) ==
  LET before == FilesOf(SubSeq(files, 1, i - 1), "metadata") IN
  before # << >> => SurfaceMatches(Last(before), files[i])

MetadataCoherent(m, surfaces, index) ==
  /\ m.include => surfaces # << >> /\ SurfaceMatches(m, surfaces[1])
  /\ ~m.include /\ surfaces # << >> => surfaces[1].adapter = ""
  /\ m.status = index.status /\ m.omissions = index.omissions

\* Evidence on one predicate of one component is bound the same in every row.
EvidenceCoherent(rows) ==
  \A r1, r2 \in rows : r1.id = r2.id =>
    \A e1 \in ToSet(r1.evidence), e2 \in ToSet(r2.evidence) : e1.id = e2.id => e1 = e2

\* parseSourceTime: 0 is no time, 9 a time that is not in canonical UTC
SourceTimes == 1..3
SourceTime(index, m) ==
  IF index.time \in SourceTimes /\ m.time \in SourceTimes
    THEN [value |-> IF index.time = m.time THEN m.time ELSE 0, valid |-> index.time = m.time,
          conflict |-> index.time # m.time]
    ELSE [value |-> 0, valid |-> FALSE, conflict |-> index.time # 0 /\ m.time # 0]

\* The versions rows give for a component, and whether they conflict.
VersionsOf(surfaceRows, imageRows) ==
  {NormalVersion[r.version] : r \in {x \in surfaceRows : x.version # "none" /\ x.scheme # "digest"}}
  \cup UNION {{NormalVersion[v] : v \in r.versions} : r \in surfaceRows}
  \cup {NormalVersion[r.version] : r \in {x \in imageRows : /\ x.version # "none" /\ x.state = "active"
                                                           /\ x.scheme \notin {"digest", "unknown"}}}

\* Rows that disagree on a predicate, but not taken for a conflict.
ConflictOfVersions(surfaceRows, imageRows) ==
  \/ \E r \in surfaceRows : r.conflict
  \/ \E r \in imageRows : r.count < 1 \/ r.state # "active" \/ r.conflict

ConflictOf(surfaceRows, imageRows) ==
  \/ ConflictOfVersions(surfaceRows, imageRows)
  \/ \E r1, r2 \in surfaceRows : \E p \in DOMAIN r1.predicates \cap DOMAIN r2.predicates :
       r1.predicates[p] # r2.predicates[p]

\* The first value given for a predicate, and its evidence where there is any.
ReducePredicate(rows, p) ==
  LET giving == SelectSeq(rows, LAMBDA r : p \in DOMAIN r.predicates)
      bound == {e \in UNION {ToSet(rows[i].evidence) : i \in DOMAIN rows} : e.id = p}
      e == IF bound = {} THEN [state |-> "observed", role |-> "", class |-> ""] ELSE CHOOSE x \in bound : TRUE
  IN [value |-> IF giving = << >> THEN "" ELSE giving[1].predicates[p],
      state |-> e.state, role |-> e.role, class |-> e.class]

ReduceComponent(id, rows, imageFiles) ==
  LET mine == SelectSeq(rows, LAMBDA r : r.id = id)
      imageRows == {r \in RowsOf(imageFiles) : r.id = id}
      versions == VersionsOf(ToSet(mine), imageRows)
      conflict == ConflictOf(ToSet(mine), imageRows)
      keys == UNION {DOMAIN mine[i].predicates \cup {e.id : e \in ToSet(mine[i].evidence)} : i \in DOMAIN mine}
  IN [id |-> id,
      version |-> IF Cardinality(versions) = 1 /\ ~conflict THEN CHOOSE v \in versions : TRUE ELSE "",
      status |-> IF conflict \/ Cardinality(versions) > 1 THEN "conflict"
                 ELSE IF versions = {} THEN "unknown" ELSE "observed",
      roles |-> UNION {ToSet(mine[i].roles) : i \in DOMAIN mine}
                \cup {imageFiles[i].role : i \in {j \in DOMAIN imageFiles : \E r \in ToSet(imageFiles[j].rows) : r.id = id}},
      predicates |-> [p \in keys |-> ReducePredicate(mine, p)]]

Unresolved(r) == r.version = "none" \/ r.scheme \in {"digest", "unknown"} \/ r.state # "active"

SurfaceOmissions(surfaces) == UNION {ToSet(surfaces[i].omissions) : i \in DOMAIN surfaces}

Refusal == [ok |-> FALSE]

\* The collection as a whole: every file is valid, at most one surface and
\* one list of omissions, servers that agree, the last metadata coherent.
CoherentFiles(files, index) ==
  LET servers == FilesOf(files, "server")
      metadata == FilesOf(files, "metadata")
      surfaces == FilesOf(files, "surface")
  IN /\ \A i \in DOMAIN files : ValidFile(files[i], index) /\ (files[i].kind = "surface" => MatchesSoFar(files, i))
     /\ Len(surfaces) <= 1 /\ Len(FilesOf(files, "omissions")) = 1 /\ metadata # << >>
     /\ Cardinality({NormalServer[servers[i].version] : i \in DOMAIN servers}) <= 1
     /\ servers # << >> \/ index.status = "partial"
     /\ MetadataCoherent(Last(metadata), surfaces, index)
     /\ EvidenceCoherent(RowsOf(surfaces))
     /\ \A e \in UNION {ToSet(x.evidence) : x \in RowsOf(surfaces)} :
          e.class = "synthetic" => Last(metadata).synthetic = "marked"

ProjectContext(files, index) ==
  LET servers == FilesOf(files, "server")
      surfaces == FilesOf(files, "surface")
      images == FilesOf(files, "images")
      rows == IF surfaces = << >> THEN << >> ELSE surfaces[1].rows
      m == Last(FilesOf(files, "metadata"))
  IN IF ~CoherentFiles(files, index) THEN Refusal
     ELSE [ok |-> TRUE, server |-> IF servers = << >> THEN "" ELSE NormalServer[servers[1].version],
           serverFiles |-> servers, time |-> SourceTime(index, m),
           adapter |-> IF surfaces # << >> /\ surfaces[1].adapter = "v3" THEN "v3" ELSE "",
           synthetic |-> m.synthetic = "marked",
           omissions |-> {CanonicalOmission(t) : t \in RowsOf(FilesOf(files, "omissions"))}
                         \cup (IF servers = << >> THEN {"KUBERNETES_VERSION_UNOBSERVED"} ELSE {})
                         \cup (IF \E r \in RowsOf(images) : Unresolved(r) THEN {"VERSION_UNRESOLVED"} ELSE {})
                         \cup {o.code : o \in SurfaceOmissions(surfaces)},
           sourced |-> IF surfaces = << >> THEN << >> ELSE SelectSeq(surfaces[1].omissions, LAMBDA o : o.source # ""),
           components |-> {ReduceComponent(id, rows, images) : id \in {r.id : r \in ToSet(rows) \cup RowsOf(images)}}]

-----------------------------------------------------------------------------
(* internal/currentbundle: the capture time and its freshness.             *)

\* validateOptions: all or none of the times and the policy
ValidOptions(o) ==
  \/ o.captured = 0 /\ o.now = 0 /\ o.policy = "" /\ o.maxAge = 0
  \/ o.captured # 0 /\ o.now # 0 /\ o.policy = "policy" /\ o.maxAge > 0

\* importProjected: the capture time is the one the source states.
SourceCaptured(o, t) ==
  o.require => /\ ~t.conflict /\ t.valid /\ o.captured # 0 /\ o.now # 0
               /\ o.captured = t.value /\ t.value <= o.now

BundleFreshness(o) ==
  IF o.captured = 0 \/ o.now = 0 \/ o.policy = "" \/ o.maxAge = 0
    THEN [state |-> "unknown", captured |-> 0]
    ELSE [captured |-> o.captured,
          state |-> IF o.captured > o.now THEN "unknown"
                    ELSE IF o.now - o.captured <= o.maxAge THEN "fresh" ELSE "stale"]

-----------------------------------------------------------------------------
(* convert and validateBundle.                                             *)

BooleanPredicates == {"agent", "mode"}
OwnedByPrometheus == {"agent", "digest", "log"}
RegisteredPredicates == BooleanPredicates \cup OwnedByPrometheus
PredicateAllowed(p, registry) == p \in RegisteredPredicates /\ (p \in IdentityPredicates => registry = "v2")

ValidPredicateValue(p, v) ==
  IF p \in BooleanPredicates THEN v \in {"true", "false"}
  ELSE IF p = "log" THEN v \in {"info", "escaped"}
  ELSE v \notin {"", "true", "false", "1"}

ConvertPredicate(q, status, synthetic) ==
  LET state == IF status = "conflict" /\ q.state = "observed" THEN "conflict" ELSE q.state IN
  [state |-> state, value |-> IF state = "observed" THEN q.value ELSE "", role |-> q.role,
   class |-> IF synthetic /\ q.class = "" /\ q.role # "" THEN "synthetic" ELSE q.class]

ConvertComponent(c, synthetic) ==
  [id |-> c.id, version |-> c.version, roles |-> c.roles,
   state |-> IF c.status = "conflict" THEN "conflict" ELSE IF c.version # "" THEN "exact" ELSE "unknown",
   predicates |-> [p \in DOMAIN c.predicates |-> ConvertPredicate(c.predicates[p], c.status, synthetic)]]

CanonicalValues == ScalarValues \ {"escaped"}
BundlePredicateStates == {"observed", "conflict", "unknown", "missing", "ambiguous", "stale", "unsupported"}

ValidBundlePredicate(c, p, q, registry) ==
  /\ PredicateAllowed(p, registry) /\ (p \in OwnedByPrometheus => c.id = "prometheus")
  /\ q.state \in BundlePredicateStates
  /\ q.role # "" => q.role \in c.roles \cap (LogicalRoles \cup WorkloadRoles)
  /\ q.class # "" => q.role # ""
  /\ q.class = "declared" => \/ c.id = "argo-workflows" /\ q.role = "workflow-controller"
                             \/ registry = "v2" /\ c.id = "prometheus" /\ q.role = "server"
  /\ IF q.state = "observed" THEN q.value \in CanonicalValues /\ ValidPredicateValue(p, q.value) ELSE q.value = ""

ValidPrometheusIdentity(c, registry) ==
  DOMAIN c.predicates \cap IdentityPredicates # {} =>
    /\ registry = "v2" /\ c.id = "prometheus" /\ c.state = "exact"
    /\ \A p \in IdentityPredicates :
         /\ p \in DOMAIN c.predicates
         /\ c.predicates[p].state = "observed" /\ c.predicates[p].role = "server" /\ c.predicates[p].class = "declared"
    /\ c.version \in DOMAIN ApprovedPrometheusImageDigest
    /\ c.predicates["digest"].value = ApprovedPrometheusImageDigest[c.version]

ValidBundleComponent(c, registry) ==
  /\ c.roles \subseteq LogicalRoles \cup WorkloadRoles /\ (c.state # "exact" => c.version = "")
  /\ \A p \in DOMAIN c.predicates : ValidBundlePredicate(c, p, c.predicates[p], registry)
  /\ ValidPrometheusIdentity(c, registry)

\* The references to source files are bound by construction but for a server
\* version file that is there twice; an omission is registered and, with its
\* source, stated once.
ValidBundle(b) ==
  /\ Cardinality(ToSet(b.serverFiles)) = Len(b.serverFiles)
  /\ \A c \in b.components : ValidBundleComponent(c, b.registry)
  /\ b.unknown = {c.id : c \in {x \in b.components : x.state # "exact"}}
  /\ b.omissions \subseteq OmissionCodes /\ Cardinality(ToSet(b.sourced)) = Len(b.sourced)
  /\ \A c \in b.components : \A p \in DOMAIN c.predicates :
       c.predicates[p].class = "synthetic" => b.synthetic

ConvertBundle(p, o) ==
  LET components == {ConvertComponent(c, p.synthetic) : c \in p.components} IN
  [ok |-> TRUE, server |-> p.server, serverFiles |-> p.serverFiles, synthetic |-> p.synthetic,
   registry |-> IF p.adapter = "v3" THEN "v2" ELSE "v1", components |-> components,
   unknown |-> {c.id : c \in {x \in components : x.state # "exact"}},
   omissions |-> p.omissions \cup {"PROVIDER_UNOBSERVED"}, sourced |-> p.sourced, fresh |-> BundleFreshness(o)]

BuildObservation(files, index, o) ==
  LET p == ProjectContext(files, index) IN
  IF ~ValidOptions(o) \/ ~p.ok THEN Refusal
  ELSE IF ~SourceCaptured(o, p.time) \/ ~ValidBundle(ConvertBundle(p, o)) THEN Refusal
  ELSE ConvertBundle(p, o)

\* ToEvaluationProjection drops nothing: what it cannot carry is refused.
ToEvaluationProjection(b) ==
  IF b.unknown # {} \/ \E c \in b.components : \E p \in DOMAIN c.predicates : c.predicates[p].state # "observed"
    THEN Refusal
    ELSE [ok |-> TRUE, server |-> b.server, omissions |-> b.omissions, synthetic |-> b.synthetic,
          components |-> {[id |-> c.id, version |-> c.version, roles |-> c.roles,
                           predicates |-> [p \in DOMAIN c.predicates |-> c.predicates[p].value]] : c \in b.components}]

-----------------------------------------------------------------------------
(* Bounded observations.                                                   *)

ServerFile(v) == [kind |-> "server", version |-> v, shaped |-> TRUE]
MetadataFile == [kind |-> "metadata", shaped |-> TRUE, status |-> "partial", omissions |-> 0, include |-> FALSE,
                 adapter |-> "none", synthetic |-> "none", time |-> 1]
OmissionsFile(rows) == [kind |-> "omissions", rows |-> rows]
SurfaceFile(adapter, rows) == [kind |-> "surface", adapter |-> adapter, omissions |-> << >>, rows |-> rows]
ImagesFile(role, rows) == [kind |-> "images", role |-> role, rows |-> rows]
IndexOf(status, n, time) == [status |-> status, omissions |-> n, time |-> time]
NoOptions == [captured |-> 0, now |-> 0, policy |-> "", maxAge |-> 0, require |-> FALSE]

ImageRow(id, version, scheme, state) ==
  [id |-> id, version |-> version, scheme |-> scheme, state |-> state, conflict |-> state = "conflict", count |-> 1]
SurfaceRow(id, version) ==
  [id |-> id, version |-> version, scheme |-> IF version = "none" THEN "unknown" ELSE "tag", state |-> "observed",
   conflict |-> FALSE, versions |-> {}, roles |-> << >>, predicates |-> << >>, evidence |-> << >>, count |-> 1]
EvidenceOf(p, state, role, class) == [id |-> p, state |-> state, role |-> role, class |-> class]

Observing(files, index, o) ==
  \E b \in {BuildObservation(files, index, o)} :
    Case("observe", [files |-> files, index |-> index, options |-> o],
         [bundle |-> b, evaluation |-> IF b.ok THEN ToEvaluationProjection(b) ELSE Refusal])

\* What the collection says of itself, in the index and in the files.
CollectionCases ==
  \E servers \in {<< >>, <<"1.30">>, <<"1.30-gke">>, <<"bad">>, <<"1.30", "1.30-gke">>, <<"1.30", "1.31">>, <<"1.30", "1.30">>},
     rows \in BoundedSeq({"API_READ_FAILED", "pipeline_failed", "PIPELINE_FAILED", "UNREGISTERED", "malformed"}, 2),
     status \in {"complete", "partial", "partialLegacy"}, said \in {"complete", "partial", "odd"}, n \in 0..2, m \in 0..1 :
    Observing([i \in DOMAIN servers |-> ServerFile(servers[i])]
              \o <<OmissionsFile(rows), [MetadataFile EXCEPT !.status = said, !.omissions = n - (IF n > 0 THEN m ELSE 0)]>>,
              IndexOf(status, n, 1), NoOptions)

\* Metadata, surfaces and their order, and the times they state.
MetadataCases ==
  \/ \E include \in BOOLEAN, named \in {"none", "v1", "v3"}, adapter \in {"", "v1", "v3", "odd"},
        again \in BOOLEAN, order \in 1..3, marked \in {"none", "marked", "broken"} :
       LET m == [MetadataFile EXCEPT !.include = include, !.adapter = named, !.synthetic = marked]
           surface == SurfaceFile(adapter, << >>)
           base == <<OmissionsFile(<< >>)>> \o (IF again THEN <<MetadataFile>> ELSE << >>)
       IN Observing(CASE order = 1 -> base \o <<surface, m>> [] order = 2 -> base \o <<m, surface>>
                      [] order = 3 -> base \o <<m>>, IndexOf("partial", 0, 1), NoOptions)
  \/ \E said, known \in {0, 1, 2, 9}, captured, now \in 0..3, maxAge \in 0..1, policy \in {"", "policy", "od d"}, require \in BOOLEAN :
       Observing(<<OmissionsFile(<< >>), [MetadataFile EXCEPT !.time = said]>>, IndexOf("partial", 0, known),
                 [captured |-> captured, now |-> now, policy |-> policy, maxAge |-> maxAge, require |-> require])
  \/ \E os \in BoundedSeq([code : {"API_READ_FAILED", "UNREGISTERED", "malformed"}, source : {"", "surface", "odd"}], 2) :
       Observing(<<[SurfaceFile("", << >>) EXCEPT !.omissions = os], OmissionsFile(<< >>), MetadataFile>>,
                 IndexOf("partial", 0, 1), NoOptions)

\* Rows about one component, in a surface and in image summaries.
VersionRows ==
  {SurfaceRow("prometheus", v) : v \in {"none", "3.1.0", "v3.1.0", "2.55.1", "bad"}}
  \cup {[SurfaceRow("prometheus", "3.1.0") EXCEPT !.scheme = "digest"], [SurfaceRow("prometheus", "3.1.0") EXCEPT !.count = 0],
        [SurfaceRow("prometheus", "none") EXCEPT !.state = "conflict", !.conflict = TRUE],
        [SurfaceRow("prometheus", "none") EXCEPT !.state = "conflict", !.conflict = TRUE, !.versions = {"3.1.0", "2.55.1"}],
        [SurfaceRow("prometheus", "none") EXCEPT !.versions = {"3.1.0", "2.55.1"}],
        [SurfaceRow("prometheus", "3.1.0") EXCEPT !.roles = <<"server", "server">>], SurfaceRow("odd", "3.1.0")}
ImageRows ==
  {ImageRow("prometheus", "3.1.0", "tag", "active"), ImageRow("prometheus", "2.55.1", "semver", "active"),
   ImageRow("prometheus", "3.1.0", "tag", "declared"), ImageRow("prometheus", "none", "digest", "active"),
   ImageRow("prometheus", "none", "unknown", "conflict"), ImageRow("prometheus", "none", "tag", "active"),
   [ImageRow("prometheus", "3.1.0", "tag", "active") EXCEPT !.count = 0], ImageRow("argo-workflows", "3.1.0", "tag", "active")}
VersionCases ==
  \E rows \in BoundedSeq(VersionRows, 2), images \in BoundedSeq(ImageRows, 2) :
    Observing(<<SurfaceFile("", rows), ImagesFile("Deployment", images), OmissionsFile(<< >>), MetadataFile>>,
              IndexOf("partial", 0, 1), NoOptions)

\* Predicates and their evidence, the identity of Prometheus among them.
Identity(version, d) ==
  [SurfaceRow("prometheus", version) EXCEPT !.roles = <<"server">>, !.predicates = [agent |-> "false", digest |-> d],
     !.evidence = <<EvidenceOf("agent", "observed", "server", "declared"), EvidenceOf("digest", "observed", "server", "declared")>>]
PredicateRows ==
  {Identity(v, d) : v \in {"3.1.0", "v3.1.0", "2.55.1", "none"}, d \in {"d2", "d3"}}
  \cup {[Identity("3.1.0", "d3") EXCEPT !.evidence = Tail(@)], [Identity("3.1.0", "d3") EXCEPT !.roles = <<"controller">>],
        [Identity("3.1.0", "d3") EXCEPT !.predicates = [agent |-> "false"]],
        [Identity("3.1.0", "d3") EXCEPT !.predicates = [agent |-> "true", digest |-> "d3"]], SurfaceRow("prometheus", "3.1.0")}
  \cup {[SurfaceRow(id, "3.1.0") EXCEPT !.predicates = p] :
          id \in {"prometheus", "argo-workflows"},
          p \in {[mode |-> "true"], [mode |-> "false"], [log |-> "info"], [log |-> "escaped"], [log |-> "object"], [other |-> "true"]}}
  \cup {[SurfaceRow("argo-workflows", "3.1.0") EXCEPT !.roles = <<role>>, !.predicates = IF s = "observed" THEN [mode |-> "true"] ELSE << >>,
          !.evidence = <<EvidenceOf("mode", s, "workflow-controller", class)>>] :
          role \in {"workflow-controller", "server"}, s \in {"observed", "missing", "conflicting"}, class \in {"", "declared", "synthetic"}}
PredicateCases ==
  \E rows \in BoundedSeq(PredicateRows, 2), adapter \in {"", "v2", "v3"}, marked \in {"none", "marked"},
     images \in {<< >>, <<ImageRow("prometheus", "2.55.1", "tag", "active")>>} :
    Observing(<<SurfaceFile(adapter, rows), ImagesFile("Job", images), OmissionsFile(<< >>),
                [MetadataFile EXCEPT !.synthetic = marked, !.include = adapter # "", !.adapter = IF adapter = "" THEN "none" ELSE adapter]>>,
              IndexOf("partial", 0, 1), NoOptions)

ObservationSteps == op = "start" /\ (CollectionCases \/ MetadataCases \/ VersionCases \/ PredicateCases)

-----------------------------------------------------------------------------
SurfaceRowsAbout(files, id) == {r \in RowsOf(FilesOf(files, "surface")) : r.id = id}
ImageRowsAbout(files, id) == {r \in RowsOf(FilesOf(files, "images")) : r.id = id}

(* What a bundle built from an observation may say, against the rows the     *)
(* collector wrote. A component has a version only if every row about it, in *)
(* whichever file, agrees: no other version, no conflict, no inactive        *)
(* workload, no two values of a predicate. A predicate is observed only with *)
(* the one value rows give it and no row that says it was not observed. The  *)
(* agent mode is stated only beside the image digest approved for the        *)
(* component's version. A server version is missing only from a collection   *)
(* that is not complete, and is then an omission. A bundle is called fresh   *)
(* only within the age allowed, at the time the source states if that is     *)
(* required. What goes on to an evaluation has lost no component and no      *)
(* predicate that a row mentions.                                            *)
ObservationSound ==
  op = "observe" /\ output.bundle.ok =>
    LET b == output.bundle
        files == input.files
        o == input.options
    IN /\ \A c \in b.components : c.state = "exact" =>
            /\ \A r \in SurfaceRowsAbout(files, c.id) :
                 ~r.conflict /\ (r.version \in DOMAIN NormalVersion /\ r.scheme = "tag" => NormalVersion[r.version] = c.version)
            /\ \A r \in ImageRowsAbout(files, c.id) :
                 r.state = "active" /\ (r.scheme \in {"tag", "semver"} => NormalVersion[r.version] = c.version)
            /\ \A p \in DOMAIN c.predicates : c.predicates[p].state = "observed" =>
                 \A r \in SurfaceRowsAbout(files, c.id) :
                   /\ p \in DOMAIN r.predicates => r.predicates[p] = c.predicates[p].value
                   /\ \A e \in ToSet(r.evidence) : e.id = p => e.state = "observed"
       /\ \A c \in b.components : "agent" \in DOMAIN c.predicates =>
            c.state = "exact" /\ c.predicates["digest"].value = ApprovedPrometheusImageDigest[c.version]
       /\ b.server = "" => input.index.status = "partial" /\ "KUBERNETES_VERSION_UNOBSERVED" \in b.omissions
       /\ b.fresh.state = "fresh" => /\ o.captured <= o.now /\ o.now - o.captured <= o.maxAge
                                     /\ o.require => o.captured = input.index.time
       /\ output.evaluation.ok =>
            \A r \in RowsOf(FilesOf(files, "surface")) :
              \E c \in output.evaluation.components :
                /\ c.id = r.id /\ c.version # ""
                /\ DOMAIN r.predicates \cup {e.id : e \in ToSet(r.evidence)} \subseteq DOMAIN c.predicates
=============================================================================
