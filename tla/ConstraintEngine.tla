--------------------------- MODULE ConstraintEngine ---------------------------
(***************************************************************************)
(* The deterministic constraint engine, cli/internal/constraintengine: the *)
(* semantic checks a declared input and a rule document pass before they   *)
(* become capabilities (parse.go), the verdict on one rule (evaluate.go),  *)
(* the partition of the document against the declared component scope and  *)
(* the aggregate it supports (scope.go), and the gate that re-derives the  *)
(* aggregate before a report is sealed.  ReduceDecision is                 *)
(* cli/internal/validation/contracts.go.                                   *)
(*                                                                         *)
(* Component, fact, rule and source identifiers are naturals, so that the  *)
(* ordering checks mean what they mean for strings; "shaped" stands for    *)
(* the patterns and length limits of the texts of a record.  A value is    *)
(* <<"bool", b>>, <<"enum", token>> or <<>> when absent.  An optional      *)
(* field is a set with at most one element.                                *)
(***************************************************************************)
EXTENDS VersionRange, FiniteSets

CONSTANTS Registry,        \* fact id -> [component, type, tokens]
          MaxComponents, MaxFacts, MaxRules, MaxSources, MaxConditions, MaxLine

ASSUME RegistryAssumption ==
    \A f \in DOMAIN Registry :
        /\ DOMAIN Registry[f] = {"component", "type", "tokens"}
        /\ \/ Registry[f].type = "bool" /\ Registry[f].tokens = {}
           \/ Registry[f].type = "enum" /\ Registry[f].tokens # {}

Ascending(s, key(_)) == \A i \in 1..(Len(s) - 1) : key(s[i]) < key(s[i + 1])
Members(s) == {s[i] : i \in DOMAIN s}
Self(x) == x
Id(x) == x.id
ComponentOf(x) == x.component

-----------------------------------------------------------------------------
(* ParseInput.                                                             *)

ValueFits(f, component, value) ==
    /\ f \in DOMAIN Registry
    /\ Registry[f].component = component
    /\ \/ Registry[f].type = "bool" /\ value \in {<<"bool", TRUE>>, <<"bool", FALSE>>}
       \/ Registry[f].type = "enum" /\ value \in {<<"enum", t>> : t \in Registry[f].tokens}

ValidateFact(fact, component) ==
    /\ fact.id \in DOMAIN Registry
    /\ Registry[fact.id].component = component
    /\ \/ fact.state = "declared" /\ ValueFits(fact.id, component, fact.value)
       \/ fact.state \in {"missing", "unsupported", "conflict"} /\ fact.value = <<>>

ValidateSide(side) ==
    /\ Len(side) <= MaxComponents
    /\ Ascending(side, ComponentOf)
    /\ \A c \in Members(side) :
          /\ c.version \in Versions
          /\ Len(c.facts) <= MaxFacts
          /\ Ascending(c.facts, Id)
          /\ \A f \in Members(c.facts) : ValidateFact(f, c.component)

(* A declared scope is exactly the component set of both sides.            *)
ValidateScope(input) ==
    \A scope \in input.scope :
        /\ scope # <<>> /\ Len(scope) <= MaxComponents
        /\ Ascending(scope, Self)
        /\ \A side \in {input.current, input.proposed} :
              /\ Len(side) = Cardinality(Members(scope))
              /\ {c.component : c \in Members(side)} \subseteq Members(scope)

ParseInput(input) ==
    ValidateSide(input.current) /\ ValidateSide(input.proposed) /\ ValidateScope(input)

-----------------------------------------------------------------------------
(* ParseRuleSet.                                                           *)

(* A source URL names a file of a repository at the cited revision.        *)
PathPart(p) == p \notin {"", ".", "..", "hidden"}
GitName(p) == PathPart(p) /\ p # ".github"

ImmutableGitURL(u, revision) ==
    /\ u.scheme = "https" /\ u.plain
    /\ Len(u.parts) >= 4
    /\ GitName(u.parts[1]) /\ GitName(u.parts[2])
    /\ \/ /\ u.host = "github.com"
          /\ Len(u.parts) >= 5 /\ u.parts[3] = "blob" /\ u.parts[4] = revision
          /\ \A i \in 5..Len(u.parts) : PathPart(u.parts[i])
       \/ /\ u.host = "raw.githubusercontent.com"
          /\ u.parts[3] = revision
          /\ \A i \in 4..Len(u.parts) : PathPart(u.parts[i])

ValidateEvidence(e) ==
    /\ e.state \in {"active", "withdrawn"}
    /\ e.reviewed < e.until
    /\ e.sources # <<>> /\ Len(e.sources) <= MaxSources
    /\ Ascending(e.sources, Id)
    /\ \A s \in Members(e.sources) :
          /\ s.shaped
          /\ 1 <= s.start /\ s.start <= s.end /\ s.end <= MaxLine
          /\ ImmutableGitURL(s.url, s.revision)

ValidateCondition(c) ==
    c.side \in {"current", "proposed"} /\ ValueFits(c.fact, c.component, c.value)

ValidateDependency(d) ==
    /\ d.side \in {"current", "proposed"}
    /\ d.version \in Versions
    /\ d.comparison \in {"eq", "gte", "lte", "lt"}

ConditionKey(c) == <<c.side, c.component, c.fact>>

(* Each operator admits exactly the fields it reads.                       *)
OperatorStructure(r) ==
    \/ /\ r.operator = "forbid_predicate_value"
       /\ r.condition # {} /\ r.dependency = {} /\ r.intermediate = {}
       /\ \A c \in r.condition : ValidateCondition(c)
    \/ /\ r.operator = "require_component_version"
       /\ r.condition = {} /\ r.dependency # {} /\ r.intermediate = {}
       /\ \A d \in r.dependency : ValidateDependency(d)
    \/ /\ r.operator = "require_intermediate_version"
       /\ r.condition = {} /\ r.dependency = {} /\ r.intermediate # {}
       /\ \A v \in r.intermediate :
             /\ v \in Versions \ {r.from, r.to}
             /\ \A g \in r.range : VersionLeq(g.from.lt, v) /\ VersionLess(v, g.to.gte)
    \/ /\ r.operator = "forbid_target_version"
       /\ r.condition = {} /\ r.dependency = {} /\ r.intermediate = {}

ValidateRule(r) ==
    /\ r.shaped
    /\ r.from \in Versions /\ r.to \in Versions /\ r.from # r.to
    /\ ValidateEvidence(r.evidence)
    /\ ValidateRange(r, {s.id : s \in Members(r.evidence.sources)})
    /\ Len(r.appliesWhen) <= MaxConditions
    /\ \A c \in Members(r.appliesWhen) : ValidateCondition(c)
    /\ \A i, j \in DOMAIN r.appliesWhen :
          ConditionKey(r.appliesWhen[i]) = ConditionKey(r.appliesWhen[j]) => i = j
    /\ OperatorStructure(r)

(* What two rules must not both constrain over one transition.             *)
ConstraintKey(r) ==
    <<r.operator,
      {ConditionKey(c) : c \in r.condition},
      IF r.condition # {} THEN {} ELSE {<<d.side, d.component>> : d \in r.dependency}>>

RangeOverlap(rules) ==
    \E i, j \in DOMAIN rules :
        /\ i < j
        /\ rules[i].range # {} \/ rules[j].range # {}
        /\ rules[i].component = rules[j].component
        /\ ConstraintKey(rules[i]) = ConstraintKey(rules[j])
        /\ RegionsOverlap(rules[i], rules[j])

(* An attestation covers only components the document has a rule for.      *)
ValidateCorpus(doc) ==
    \A corpus \in doc.corpus :
        /\ corpus # <<>> /\ Len(corpus) <= MaxComponents
        /\ Ascending(corpus, Self)
        /\ Members(corpus) \subseteq {r.component : r \in Members(doc.rules)}

Ranged(rules) == \E r \in Members(rules) : r.range # {}

ParseRuleSet(doc) ==
    /\ doc.schema \in {"v1alpha1", "v1alpha2"}
    /\ Len(doc.rules) <= MaxRules
    /\ Ascending(doc.rules, Id)
    /\ \A r \in Members(doc.rules) : ValidateRule(r)
    /\ Ranged(doc.rules) <=> doc.schema = "v1alpha2"
    /\ ~RangeOverlap(doc.rules)
    /\ ValidateCorpus(doc)

-----------------------------------------------------------------------------
(* The verdict on one rule.                                                *)

FindComponent(input, side, component) ==
    {c \in Members(IF side = "proposed" THEN input.proposed ELSE input.current) :
        c.component = component}

FindFact(input, cond) ==
    UNION {{f \in Members(c.facts) : f.id = cond.fact} :
              c \in FindComponent(input, cond.side, cond.component)}

FactDeclared(input, cond) == \E f \in FindFact(input, cond) : f.state = "declared"
MatchesCondition(input, cond) == \E f \in FindFact(input, cond) : f.value = cond.value

(* The one subject gate: "" when the transition is under the rule.         *)
SubjectMode(input, r) ==
    IF \E a \in FindComponent(input, "current", r.component),
          b \in FindComponent(input, "proposed", r.component) :
             Match(r, a.version, b.version) = "anchor"
    THEN "anchor" ELSE "range"

SubjectReason(input, r) ==
    IF \/ FindComponent(input, "current", r.component) = {}
       \/ FindComponent(input, "proposed", r.component) = {}
    THEN "RULE_SUBJECT_COMPONENT_MISSING"
    ELSE IF \E a \in FindComponent(input, "current", r.component),
               b \in FindComponent(input, "proposed", r.component) :
                  Match(r, a.version, b.version) = "none"
    THEN "RULE_TRANSITION_NOT_REVIEWED" ELSE ""

(* The first applicability condition that is not declared with its value.  *)
FirstUnmet(input, r) ==
    {i \in DOMAIN r.appliesWhen :
        /\ ~(FactDeclared(input, r.appliesWhen[i]) /\ MatchesCondition(input, r.appliesWhen[i]))
        /\ \A j \in 1..(i - 1) :
              FactDeclared(input, r.appliesWhen[j]) /\ MatchesCondition(input, r.appliesWhen[j])}

ApplicabilityReason(input, r) ==
    IF FirstUnmet(input, r) = {} THEN ""
    ELSE IF \A i \in FirstUnmet(input, r) : FactDeclared(input, r.appliesWhen[i])
    THEN "RULE_APPLICABILITY_NOT_MATCHED" ELSE "RULE_APPLICABILITY_FACT_UNAVAILABLE"

Compares(d, version) ==
    \/ d.comparison = "eq" /\ version = d.version
    \/ d.comparison = "gte" /\ VersionLeq(d.version, version)
    \/ d.comparison = "lte" /\ VersionLeq(version, d.version)
    \/ d.comparison = "lt" /\ VersionLess(version, d.version)

Claim(status, reason, freshness) ==
    [status |-> status, reason |-> reason, freshness |-> freshness, ranged |-> FALSE]

(* evaluateMatchedRule after the applicability conditions.                 *)
Decide(input, r) ==
    IF r.operator = "forbid_predicate_value" THEN
        IF \E c \in r.condition : ~FactDeclared(input, c)
        THEN Claim("UNKNOWN", "RULE_FACT_UNAVAILABLE", "current")
        ELSE IF \E c \in r.condition : MatchesCondition(input, c)
        THEN Claim("BLOCKED", r.reason, "current")
        ELSE Claim("PASS", r.reason, "current")
    ELSE IF r.operator = "require_component_version" THEN
        IF \E d \in r.dependency : FindComponent(input, d.side, d.component) = {}
        THEN Claim("UNKNOWN", "RULE_DEPENDENCY_COMPONENT_MISSING", "current")
        ELSE IF \E d \in r.dependency :
                   \E c \in FindComponent(input, d.side, d.component) : Compares(d, c.version)
        THEN Claim("PASS", r.reason, "current")
        ELSE Claim("BLOCKED", r.reason, "current")
    ELSE Claim("BLOCKED", r.reason, "current")

EvaluateMatchedRule(input, r) ==
    IF ApplicabilityReason(input, r) # ""
    THEN Claim("UNKNOWN", ApplicabilityReason(input, r), "current")
    ELSE Decide(input, r)

SubjectClaim(input, r) ==
    IF SubjectReason(input, r) # ""
    THEN Claim("UNKNOWN", SubjectReason(input, r), "current")
    ELSE [EvaluateMatchedRule(input, r) EXCEPT !.ranged = SubjectMode(input, r) = "range"]

(* Evidence is current from the review up to, not including, its limit.    *)
FreshThroughLimit(e, now) ==
    IF e.state = "withdrawn" THEN "withdrawn"
    ELSE IF now < e.reviewed THEN "clock_before_review"
    ELSE IF now > e.until THEN "stale" ELSE "current"

Freshness(e, now) ==
    IF e.state = "withdrawn" THEN "withdrawn"
    ELSE IF now < e.reviewed THEN "clock_before_review"
    ELSE IF now >= e.until THEN "stale" ELSE "current"

FreshnessReason ==
    [withdrawn |-> "RULE_EVIDENCE_WITHDRAWN",
     clock_before_review |-> "RULE_EVIDENCE_CLOCK_BEFORE_REVIEW",
     stale |-> "RULE_EVIDENCE_STALE"]

EvaluateRule(input, r, now) ==
    IF Freshness(r.evidence, now) = "current" THEN SubjectClaim(input, r)
    ELSE Claim("UNKNOWN", FreshnessReason[Freshness(r.evidence, now)],
               Freshness(r.evidence, now))

RequiredFacts(r) ==
    {ConditionKey(c) : c \in Members(r.appliesWhen)} \cup {ConditionKey(c) : c \in r.condition}

-----------------------------------------------------------------------------
(* The aggregate over the declared scope.                                  *)

ReduceDecision(d) ==
    IF \/ d.required < 0 \/ d.verified < 0 \/ d.applicable < 0
       \/ d.verified > d.required \/ d.applicable > d.verified
    THEN "invalid"
    ELSE IF \E b \in d.blockers : b.verified /\ b.applicable THEN "BLOCKED"
    ELSE IF \/ d.unknown \/ d.verified < d.required
            \/ d.required = 0 \/ d.verified = 0 \/ d.applicable < d.required
            \/ d.tests # {} /\ ~d.testsRequired
            \/ d.testsRequired /\ d.tests = {}
            \/ d.testsRequired
                 /\ \E t \in d.tests : t.outcome # "PASS" \/ ~t.verified \/ ~t.scoped
    THEN "UNKNOWN"
    ELSE "SAFE"

ExclusionReasons ==
    {"RULE_TRANSITION_NOT_REVIEWED", "RULE_SUBJECT_COMPONENT_MISSING",
     "RULE_APPLICABILITY_NOT_MATCHED"}

(* <<state, reason>>; it reads declarations only, never the evidence.      *)
RuleApplicability(input, scope, r) ==
    IF r.component \notin scope THEN <<"OUT_OF_SCOPE", "">>
    ELSE IF SubjectReason(input, r) # "" THEN <<"NOT_APPLICABLE", SubjectReason(input, r)>>
    ELSE IF ApplicabilityReason(input, r) = "" THEN <<"APPLICABLE", "">>
    ELSE IF ApplicabilityReason(input, r) = "RULE_APPLICABILITY_NOT_MATCHED"
    THEN <<"NOT_APPLICABLE", "RULE_APPLICABILITY_NOT_MATCHED">>
    ELSE <<"UNDETERMINED", "RULE_APPLICABILITY_FACT_UNAVAILABLE">>

(* An applicable rule with no verdict is carried as undetermined.          *)
Skip(applicability, claim) ==
    IF applicability[1] = "APPLICABLE" THEN <<"UNDETERMINED", claim.reason>> ELSE applicability

Decided(input, rules, claims, component) ==
    {i \in DOMAIN rules :
        /\ RuleApplicability(input, {component}, rules[i])[1] = "APPLICABLE"
        /\ claims[i].status \in {"PASS", "BLOCKED"}}

ComponentRow(input, doc, claims, component, decided) ==
    [component |-> component,
     attested  |-> \E corpus \in doc.corpus : component \in Members(corpus),
     evaluated |-> {doc.rules[i].id : i \in decided},
     skipped   |-> {<<doc.rules[i].id,
                      Skip(RuleApplicability(input, {component}, doc.rules[i]), claims[i])>> :
                        i \in {j \in DOMAIN doc.rules \ decided :
                                  doc.rules[j].component = component}}]

(* Rows of the block by component, with the claim of every rule by its id. *)
Undetermined(row) == {s \in row.skipped : s[2][1] = "UNDETERMINED"}

UnresolvedReason(rows, claimOf) ==
    IF \E row \in rows : ~row.attested THEN "SCOPE_COMPONENT_NOT_ATTESTED"
    ELSE IF \E row \in rows : Undetermined(row) # {} THEN "APPLICABILITY_UNDETERMINED"
    ELSE IF \E row \in rows : row.evaluated = {} THEN "NO_APPLICABLE_RULE_FOR_COMPONENT"
    ELSE IF \E row \in rows : \A id \in row.evaluated : claimOf[id].ranged
    THEN "TRANSITION_NOT_ANCHOR_REVIEWED" ELSE ""

DecisionOf(rows, claimOf, evaluated, undetermined) ==
    ReduceDecision(
        [required |-> Cardinality(evaluated) + Cardinality(undetermined),
         verified |-> Cardinality(evaluated), applicable |-> Cardinality(evaluated),
         unknown |-> UnresolvedReason(rows, claimOf) # "",
         blockers |-> {[verified |-> TRUE, applicable |-> TRUE] :
                          id \in {e \in evaluated : claimOf[e].status = "BLOCKED"}},
         tests |-> {}, testsRequired |-> FALSE])

Assessment(decision) ==
    IF decision = "BLOCKED" THEN "BLOCKED"
    ELSE IF decision = "SAFE" THEN "SCOPE_COMPLETE_PASS" ELSE "UNKNOWN"

(* deriveAssessment: <<assessment, unresolved>>, or <<>> when the block     *)
(* refers to a claim that is absent or has no verdict.                     *)
DeriveAssessment(rows, claimOf) ==
    IF \/ \E row \in rows : \E id \in row.evaluated :
             id \notin DOMAIN claimOf \/ claimOf[id].status \notin {"PASS", "BLOCKED"}
       \/ \E row \in rows : \E s \in row.skipped : s[1] \notin DOMAIN claimOf
    THEN <<>>
    ELSE <<Assessment(DecisionOf(rows, claimOf, UNION {row.evaluated : row \in rows},
                                 UNION {Undetermined(row) : row \in rows})),
           UnresolvedReason(rows, claimOf)>>

ClaimsById(doc, claims) ==
    [id \in {r.id : r \in Members(doc.rules)} |->
        claims[CHOOSE i \in DOMAIN doc.rules : doc.rules[i].id = id]]

RequiredOmissions(assessment) ==
    {"DECLARED_INPUT", IF assessment = "UNKNOWN" THEN "WHOLE_UPGRADE_NOT_CHECKED"
                                                 ELSE "WHOLE_UPGRADE_SCOPED"}

Unscoped(doc, claimOf) ==
    [assessment |-> "UNKNOWN", contract |-> doc.schema, claims |-> claimOf, scope |-> {},
     omissions |-> RequiredOmissions("UNKNOWN")]

Report(doc, claimOf, rows, derived) ==
    IF derived = <<>> THEN Unscoped(doc, claimOf) ELSE
    [assessment |-> derived[1], contract |-> doc.schema, claims |-> claimOf,
     scope |-> {[rows |-> rows, unresolved |-> derived[2],
                 outOfScope |-> Cardinality({i \in DOMAIN doc.rules :
                     doc.rules[i].component \notin {row.component : row \in rows}})]},
     omissions |-> RequiredOmissions(derived[1])]

(* buildScopeCompleteness; it aggregates only when both sides declared.    *)
Scoped(input, doc, claims, claimOf) ==
    IF input.scope = {} \/ doc.corpus = {} THEN Unscoped(doc, claimOf)
    ELSE LET rows == {ComponentRow(input, doc, claims, c, Decided(input, doc.rules, claims, c)) :
                         c \in UNION {Members(scope) : scope \in input.scope}}
         IN Report(doc, claimOf, rows, DeriveAssessment(rows, claimOf))

Claims(input, doc, now) ==
    [i \in DOMAIN doc.rules |-> EvaluateRule(input, doc.rules[i], now)]

Evaluate(input, doc, claims) == Scoped(input, doc, claims, ClaimsById(doc, claims))

-----------------------------------------------------------------------------
(* The gate of MarshalReport.                                              *)

References(rows) ==
    UNION {row.evaluated \cup {s[1] : s \in row.skipped} : row \in rows}

ReferenceCount(rows) ==
    Cardinality(UNION {{row.component} \X row.evaluated : row \in rows})
        + Cardinality(UNION {{row.component} \X row.skipped : row \in rows})

(* NOT_APPLICABLE is legal only under a reason that excludes the rule on   *)
(* declared evidence.                                                      *)
SkipsJustified(rows) ==
    \A row \in rows : \A s \in row.skipped :
        /\ s[2][1] \in {"NOT_APPLICABLE", "UNDETERMINED"}
        /\ s[2][2] \in ExclusionReasons <=> s[2][1] = "NOT_APPLICABLE"

ScopeBlockUncounted(scope, claimOf) ==
    /\ scope.rows # {} /\ Cardinality(scope.rows) <= MaxComponents
    /\ References(scope.rows) \subseteq DOMAIN claimOf
    /\ SkipsJustified(scope.rows)

(* Every rule is out of scope or accounted for exactly once.               *)
ValidScopeBlock(scope, claimOf) ==
    /\ scope.rows # {} /\ Cardinality(scope.rows) <= MaxComponents
    /\ References(scope.rows) \subseteq DOMAIN claimOf
    /\ ReferenceCount(scope.rows) = Cardinality(References(scope.rows))
    /\ SkipsJustified(scope.rows)
    /\ Cardinality(References(scope.rows)) + scope.outOfScope = Cardinality(DOMAIN claimOf)

LegalAssessment(report) ==
    IF report.scope = {} THEN report.assessment = "UNKNOWN"
    ELSE \A scope \in report.scope :
            /\ ValidScopeBlock(scope, report.claims)
            /\ DeriveAssessment(scope.rows, report.claims)
                  = <<report.assessment, scope.unresolved>>

(* A range disclosure belongs to the ranged contract and never to a claim  *)
(* that found no reviewed transition.                                      *)
ValidClaimMatches(report) ==
    \A id \in DOMAIN report.claims :
        report.claims[id].ranged =>
            /\ report.contract = "v1alpha2"
            /\ report.claims[id].reason # "RULE_TRANSITION_NOT_REVIEWED"
                 \/ report.claims[id].status # "UNKNOWN"

MarshalReport(report) ==
    /\ LegalAssessment(report)
    /\ ValidClaimMatches(report)
    /\ report.omissions = RequiredOmissions(report.assessment)
=============================================================================
