------------------------------ MODULE Verdicts ------------------------------
(***************************************************************************)
(* From rule packs to exit codes: the embedded and the external rule pack  *)
(* and the rules a project check takes from them (internal/cncfcheck,      *)
(* projectcheck, cncfknowledge), the scope assessment over an attested     *)
(* pack, the batch of checks (internal/batchcheck) and the classification  *)
(* of every check route against a collected context (internal/onecommand). *)
(*                                                                         *)
(* A project is a natural and its component has the same number; a pack is *)
(* [schema, policy, revision, entries] and an entry [project, shaped,      *)
(* facts, rule]. A digest is the content it is taken of. Reason codes,     *)
(* wording and the next actions a report suggests are left out.            *)
(***************************************************************************)
EXTENDS ConstraintCases, ObservationBundle

CONSTANTS Landscape,          \* the projects of the pinned landscape
          MaxReviewWindow,    \* the longest evidence may be valid, in ticks
          MaxRequiredFacts, MaxBatch

ASSUME WindowAssumption == MaxReviewWindow \in Nat \ {0}

SubjectComponent(project) == project

-----------------------------------------------------------------------------
(* Rule packs.                                                             *)

PackRules(p) == [i \in DOMAIN p.entries |-> p.entries[i].rule]
RulesOf(p, project) == {p.entries[i].rule : i \in {j \in DOMAIN p.entries : p.entries[j].project = project}}

\* The schema of a pack, and of a rule document, says whether it has ranges.
RulesSchemaFor(rules) == IF Ranged(rules) THEN "v1alpha2" ELSE "v1alpha1"
ValidPackSchema(p) == p.schema = RulesSchemaFor(PackRules(p))
RuleDocument(rules, corpus) == [schema |-> RulesSchemaFor(rules), rules |-> rules, corpus |-> corpus]

\* What an entry says it needs is what its rule reads, as compiled.
FactKey(f) == <<f.side, f.component, f.fact>>
CompiledFact(f) == /\ f.shaped /\ f.side \in {"current", "proposed"} /\ f.fact \in DOMAIN Registry
                   /\ Registry[f.fact].component = f.component
FactsDistinct(facts) == \A i, j \in DOMAIN facts : FactKey(facts[i]) = FactKey(facts[j]) => i = j
EntryRefusal(e) ==
  IF e.project \notin Landscape \/ ~e.shaped \/ ~FactsDistinct(e.facts) \/ ~\A f \in Members(e.facts) : CompiledFact(f)
    THEN "invalid"
  ELSE IF e.rule.component # SubjectComponent(e.project) THEN "integrity"
  ELSE IF {FactKey(f) : f \in Members(e.facts)} # RequiredFacts(e.rule) THEN "invalid" ELSE ""

ValidateCNCFReviewWindows(rules) ==
  \A r \in Members(rules) : /\ r.evidence.reviewed < r.evidence.until
                            /\ r.evidence.until - r.evidence.reviewed <= MaxReviewWindow

\* parseRulesCorpus is the one way a CNCF rule document reaches the engine;
\* a community document is held to the window when the pack is loaded.
ParseRulesCorpus(rules, corpus) == ValidateCNCFReviewWindows(rules) /\ ParseRuleSet(RuleDocument(rules, corpus))
ParseCommunityRules(rules, corpus) == ParseRuleSet(RuleDocument(rules, corpus))

LoadCNCF(p) == /\ ValidPackSchema(p) /\ p.policy = "ok"
               /\ \A e \in Members(p.entries) : EntryRefusal(e) = ""
               /\ ParseRulesCorpus(PackRules(p), {})

(* A community pack holds forbid rules alone, about the component of their  *)
(* project, ordered by project and rule, at least one for every project.    *)
ValidCommunityEntry(p, e) ==
  /\ e.project \in p.projects /\ e.shaped /\ e.facts # << >> /\ Len(e.facts) <= MaxRequiredFacts
  /\ \A f \in Members(e.facts) : CompiledFact(f) /\ f.component = SubjectComponent(e.project)
  /\ FactsDistinct(e.facts)
  /\ e.rule.operator = "forbid_predicate_value" /\ e.rule.condition # {}
  /\ e.rule.component = SubjectComponent(e.project)
  /\ RequiredFacts(e.rule) \subseteq {FactKey(f) : f \in Members(e.facts)}
  /\ e.rule.evidence.until - e.rule.evidence.reviewed <= MaxReviewWindow
InOrder(e, f) == e.project < f.project \/ (e.project = f.project /\ e.rule.id < f.rule.id)
LoadRaw(p) ==
  /\ ValidPackSchema(p) /\ p.policy = "ok" /\ Len(p.entries) >= Cardinality(p.projects)
  /\ \A i \in DOMAIN p.entries : ValidCommunityEntry(p, p.entries[i])
  /\ \A i, j \in DOMAIN p.entries : i < j => InOrder(p.entries[i], p.entries[j]) /\ p.entries[i].rule.id # p.entries[j].rule.id
  /\ \A project \in p.projects :
       /\ RulesOf(p, project) # {}
       /\ ParseCommunityRules(SelectSeq(PackRules(p), LAMBDA r : r \in RulesOf(p, project)), {})

-----------------------------------------------------------------------------
(* One project's check.                                                     *)

Failed(kind) == [error |-> kind, claims |-> << >>]

\* The version a side gives for a component, which an admitted side names once.
VersionIn(side, component) ==
  LET at == {i \in DOMAIN side : side[i].component = component}
  IN IF at = {} THEN NoVersion ELSE side[CHOOSE i \in at : TRUE].version
MatchesInput(r, in) == Match(r, VersionIn(in.current, r.component), VersionIn(in.proposed, r.component)) # "none"
AnchoredAtInput(r, in) == IsAnchor(r, VersionIn(in.current, r.component), VersionIn(in.proposed, r.component))

\* A plausible slip: only the rules reviewed at exactly the transition.
RulesForAnchor(p, project, in) ==
  LET mine == SelectSeq(p.entries, LAMBDA e : e.project = project)
      matched == SelectSeq(mine, LAMBDA e : AnchoredAtInput(e.rule, in))
      taken == IF matched = << >> THEN mine ELSE matched
  IN [i \in DOMAIN taken |-> taken[i].rule]

\* All rules of the project when none matches, so that each says why not.
RulesForAdmittedInput(p, project, in) ==
  LET mine == SelectSeq(p.entries, LAMBDA e : e.project = project)
      matched == SelectSeq(mine, LAMBDA e : MatchesInput(e.rule, in))
      taken == IF matched = << >> THEN mine ELSE matched
  IN [i \in DOMAIN taken |-> taken[i].rule]
SelectedRuleSet(p, project, id) ==
  LET taken == SelectSeq(p.entries, LAMBDA e : e.project = project /\ e.rule.id = id)
  IN [i \in DOMAIN taken |-> taken[i].rule]
OwnsRuleID(p, project, id) ==
  \E i \in DOMAIN p.entries : /\ p.entries[i].rule.id = id /\ p.entries[i].project = project
                              /\ \A j \in 1..(i - 1) : p.entries[j].rule.id # id

\* Evaluate and the engine's own gate; the document carries no attestation.
Sealed(in, rules, claims) ==
  IF MarshalReport(Evaluate(in, RuleDocument(rules, {}), claims)) THEN [error |-> "", claims |-> claims] ELSE Failed("integrity")
Evaluated(in, rules, now) == Sealed(in, rules, Claims(in, RuleDocument(rules, {}), now))

\* check of cncfcheck, over its own pack; id 0 stands for every rule.
CheckCNCF(p, project, id, in, now) ==
  IF ~LoadCNCF(p) THEN Failed("integrity")
  ELSE IF project \notin Landscape \/ ~ParseInput(in) \/ (id # 0 /\ ~OwnsRuleID(p, project, id)) THEN Failed("invalid")
  ELSE \* the rule set is parsed again, as the pack was
    LET rules == IF id # 0 THEN SelectedRuleSet(p, project, id) ELSE RulesForAdmittedInput(p, project, in)
    IN IF ParseRulesCorpus(rules, {}) THEN Evaluated(in, rules, now) ELSE Failed("integrity")

\* ruleSetSelected: a community check takes the rules of the transition only.
CommunityRules(p, project, id, in) ==
  LET taken == SelectSeq(p.entries, LAMBDA e : e.project = project /\ MatchesInput(e.rule, in) /\ (id = 0 \/ e.rule.id = id))
  IN [i \in DOMAIN taken |-> taken[i].rule]
\* The rules a native route may ask for by name, a closed list in the code.
NativeRules == {<<1, 1>>, <<1, 2>>}
RequestedTransition(in, component) == \A side \in {in.current, in.proposed} : VersionIn(side, component) # NoVersion
CheckCommunity(p, project, id, in, now) ==
  IF ~LoadRaw(p) THEN Failed("integrity")
  ELSE IF
     \/ project \notin p.projects \/ ~ParseInput(in) \/ ~RequestedTransition(in, SubjectComponent(project))
     \/ (id # 0 /\ (<<project, id>> \notin NativeRules \/ id \notin {e.rule.id : e \in ToSet(p.entries)}))
    THEN Failed("invalid")
    ELSE LET rules == CommunityRules(p, project, id, in)
         IN IF ParseCommunityRules(rules, {}) THEN Evaluated(in, rules, now) ELSE Failed("integrity")

\* ClaimExit: no claim is not a pass.
ClaimExit(check) ==
  LET statuses == {check.claims[i].status : i \in DOMAIN check.claims} IN
  IF check.error = "integrity" THEN 3 ELSE IF check.error = "invalid" THEN 2
  ELSE IF "BLOCKED" \in statuses THEN 10 ELSE IF statuses = {"PASS"} THEN 0 ELSE 11

-----------------------------------------------------------------------------
(* External knowledge: a pack the store verified, in an envelope.           *)

\* ParseExternalBundle; the envelope and its pack name one revision.
ValidateExternalPack(p, revision) ==
  LET refused == SelectSeq(p.entries, LAMBDA e : EntryRefusal(e) # "") IN
  IF ~ValidPackSchema(p) \/ p.revision # revision \/ p.policy # "ok" THEN "integrity"
  ELSE IF refused # << >> THEN EntryRefusal(Head(refused)) ELSE ""
ParseExternalBundle(x) ==
  IF ~x.shaped \/ x.revision = 0 \/ x.purpose \notin {"operator_provided", "synthetic_test_only"} THEN "invalid"
  ELSE IF x.capability # "compiled" THEN "integrity"
  ELSE IF ValidateExternalPack(x.pack, x.revision) # "" THEN ValidateExternalPack(x.pack, x.revision)
  ELSE IF ~ParseRulesCorpus(PackRules(x.pack), {}) THEN "integrity" ELSE ""

EarliestExternalExpiry(p) == Min({r.evidence.until : r \in Members(PackRules(p))})
Admission(x) == [revision |-> x.revision, purpose |-> x.purpose, capability |-> x.capability, rules |-> PackRules(x.pack),
                 expires |-> IF x.pack.entries = << >> THEN 0 ELSE EarliestExternalExpiry(x.pack)]

\* The rules come from the external pack alone; the embedded one only says
\* which project a rule asked for by name belongs to.
EvaluateExternal(base, x, project, id, in, now) ==
  IF project \notin Landscape \/ (id # 0 /\ ~OwnsRuleID(base, project, id)) \/ ~ParseInput(in) THEN Failed("invalid")
  ELSE LET rules == IF id # 0 THEN SelectedRuleSet(x.pack, project, id) ELSE RulesForAdmittedInput(x.pack, project, in)
       IN IF ParseRulesCorpus(rules, {}) THEN Evaluated(in, rules, now) ELSE Failed("integrity")

\* evaluateSelected: the store's receipt is about this very bundle.
ReceiptBinds(receipt, x) == receipt = [target |-> "constraints", source |-> "OPERATOR_PROVISIONED", admission |-> Admission(x)]
EvaluateSelected(base, sel, project, id, in) ==
  IF ~LoadCNCF(base) \/ ParseExternalBundle(sel.bundle) # "" THEN Failed("integrity")
  ELSE IF ~ReceiptBinds(sel.receipt, sel.bundle) THEN Failed("integrity")
  ELSE EvaluateExternal(base, sel.bundle, project, id, in, sel.at)
EvaluateVerified(base, sel, project, in) ==
  IF sel.mode # "current" THEN Failed("integrity") ELSE EvaluateSelected(base, sel, project, 0, in)

-----------------------------------------------------------------------------
(* The scope assessment: the whole pack, as its maintainer attests it.      *)

\* The rules of a pack in the one order a document has.
UnfilteredRules(p) == SortSeq(PackRules(p), LAMBDA r, s : r.id < s.id)
CorpusComponents(p) == {r.component : r \in Members(PackRules(p))}
ParseAttestation(a) == a.shaped /\ a.count >= 1 /\ a.components # << >> /\ Ascending(a.components, Self)

\* BuildAttestation derives every field from the pack.
BuildAttestation(p) == [shaped |-> TRUE, revision |-> p.revision, pack |-> p.entries, rules |-> UnfilteredRules(p),
                        count |-> Len(p.entries), components |-> SetToSortSeq(CorpusComponents(p), LAMBDA c, d : c < d)]

AttestedRuleSet(p, a) ==
  /\ ParseAttestation(a) /\ a.revision = p.revision /\ a.pack = p.entries /\ a.count = Len(p.entries)
  /\ a.rules = UnfilteredRules(p) /\ Members(a.components) \subseteq CorpusComponents(p)
AttestedCommunity(p, a) == /\ ParseCommunityRules(UnfilteredRules(p), {}) /\ AttestedRuleSet(p, a)
                           /\ ParseCommunityRules(UnfilteredRules(p), {a.components})
AttestedCNCF(p, a) == /\ ParseRulesCorpus(UnfilteredRules(p), {}) /\ AttestedRuleSet(p, a)
                      /\ ParseRulesCorpus(UnfilteredRules(p), {a.components})

ScopeRefused(kind) == [error |-> kind, assessment |-> "UNKNOWN", enumerated |-> FALSE]
SealScope(report) ==
  IF MarshalReport(report) THEN [error |-> "", assessment |-> report.assessment, enumerated |-> report.scope # {}]
  ELSE ScopeRefused("integrity")
AssessScopeWith(attested, known, rules, corpus, in, now) ==
  IF ~attested THEN ScopeRefused("integrity")
  ELSE IF in.scope = {} \/ (\E scope \in in.scope : scope = << >> \/ ~(Members(scope) \subseteq known)) \/ ~ParseInput(in)
    THEN ScopeRefused("invalid")
  ELSE \* over every rule of the pack, with the components attested
    SealScope(Evaluate(in, RuleDocument(rules, {corpus}), Claims(in, RuleDocument(rules, {corpus}), now)))
AssessCommunityScope(p, a, in, now) ==
  IF ~LoadRaw(p) THEN ScopeRefused("integrity")
  ELSE AssessScopeWith(AttestedCommunity(p, a), {SubjectComponent(q) : q \in p.projects}, UnfilteredRules(p), a.components, in, now)
AssessCNCFScope(p, a, in, now) ==
  IF ~LoadCNCF(p) THEN ScopeRefused("integrity")
  ELSE AssessScopeWith(AttestedCNCF(p, a), {SubjectComponent(q) : q \in Landscape}, UnfilteredRules(p), a.components, in, now)

-----------------------------------------------------------------------------
(* The batch: every input is admitted before any is evaluated.              *)
(* An item carries the file its path leads to: how reading it ends, whether *)
(* it is in canonical form, and the input it holds; "pinned" is the digest  *)
(* the plan may give, "large" a report over the size limit.                 *)

KnownProject(item, mode, cncf, community) ==
  IF item.kind = "cncf" THEN LoadCNCF(cncf) /\ item.project \in Landscape /\ (mode = "embedded" => RulesOf(cncf, item.project) # {})
  ELSE item.kind = "community" /\ LoadRaw(community) /\ item.project \in community.projects
ValidPlan(plan, cncf, community) ==
  /\ plan.shaped /\ plan.mode \in {"embedded", "external"} /\ Len(plan.items) \in 1..MaxBatch
  /\ \A i, j \in DOMAIN plan.items : plan.items[i].id = plan.items[j].id => i = j
  /\ \A item \in Members(plan.items) : item.from # item.to /\ KnownProject(item, plan.mode, cncf, community)
  /\ plan.mode = "external" => \E item \in Members(plan.items) : item.kind = "cncf"

\* The strict envelope of a batch input has no scope declaration.
CanonicalJSON(item) == item.canonical /\ item.input.scope = {}
CanonicalBinding(item) ==
  LET versions(side) == SelectSeq(side, LAMBDA c : c.component = SubjectComponent(item.project))
      named(side, v) == Len(versions(side)) = 1 /\ versions(side)[1].version = v
  IN named(item.input.current, item.from) /\ named(item.input.proposed, item.to)
AdmitItem(item) ==
  IF item.read # "ok" THEN (IF item.read = "integrity" THEN 3 ELSE 2)
  ELSE IF \E d \in item.pinned : d # item.input THEN 3
  ELSE IF CanonicalJSON(item) /\ CanonicalBinding(item) /\ ParseInput(item.input) THEN 0 ELSE 2

ClaimCategory(c) ==
  IF c.status = "BLOCKED" THEN "BLOCKED" ELSE IF c.freshness = "stale" THEN "STALE_EVIDENCE"
  ELSE IF c.freshness = "clock_before_review" THEN "NOT_YET_REVIEWED" ELSE IF c.status # "PASS" THEN "UNKNOWN_CLAIM" ELSE "PASS"
CategoryRank == [INTEGRITY_ERROR |-> 6, INPUT_ERROR |-> 5, BLOCKED |-> 4, NOT_YET_REVIEWED |-> 3, STALE_EVIDENCE |-> 2,
                 UNKNOWN_CLAIM |-> 1, PASS |-> 0]
CategoryExit == [INTEGRITY_ERROR |-> 3, INPUT_ERROR |-> 2, BLOCKED |-> 10, NOT_YET_REVIEWED |-> 11, STALE_EVIDENCE |-> 11,
                 UNKNOWN_CLAIM |-> 11, PASS |-> 0]
Worst(categories) == CHOOSE c \in categories : \A d \in categories : CategoryRank[d] <= CategoryRank[c]
FromClaims(claims) == IF claims = << >> THEN "UNKNOWN_CLAIM" ELSE Worst({ClaimCategory(c) : c \in Members(claims)})
ItemCategory(check, large) ==
  IF check.error = "invalid" THEN "INPUT_ERROR" ELSE IF check.error # "" \/ large THEN "INTEGRITY_ERROR" ELSE FromClaims(check.claims)

\* The store was opened once, and its clock is the clock of every item.
EvaluateItem(item, cncf, community, store, now) ==
  IF item.kind = "community" THEN CheckCommunity(community, item.project, 0, item.input, now)
  ELSE IF store = {} THEN CheckCNCF(cncf, item.project, 0, item.input, now)
  ELSE EvaluateVerified(cncf, CHOOSE sel \in store : TRUE, item.project, item.input)
Aggregate(categories) == Worst(Members(categories) \cup {"PASS"})
ExitForMode(category, mode) ==
  IF mode = "legacy" THEN CategoryExit[category]
  ELSE IF category = "STALE_EVIDENCE" THEN 12 ELSE IF category = "NOT_YET_REVIEWED" THEN 13 ELSE CategoryExit[category]

BatchRefused(exit) == [exit |-> exit, detailed |-> exit, category |-> "", items |-> << >>]
BatchReport(categories, worst) ==
  [exit |-> ExitForMode(worst, "legacy"), detailed |-> ExitForMode(worst, "detailed"), category |-> worst, items |-> categories]
EvaluateBatch(plan, cncf, community, store, now) ==
  LET clock == IF store = {} THEN now ELSE (CHOOSE sel \in store : TRUE).at
      categories == [i \in DOMAIN plan.items |->
                       ItemCategory(EvaluateItem(plan.items[i], cncf, community, store, clock), plan.items[i].large)]
  IN BatchReport(categories, Aggregate(categories))

\* The first item that is not admitted decides; then the store is opened.
Batch(plan, cncf, community, store, now) ==
  LET refusals == SelectSeq(plan.items, LAMBDA item : AdmitItem(item) # 0) IN
  IF ~ValidPlan(plan, cncf, community) \/ (plan.mode = "external") # (store # {}) THEN BatchRefused(2)
  ELSE IF refusals # << >> THEN BatchRefused(AdmitItem(Head(refusals)))
  ELSE IF \E sel \in store : sel.state = "none" THEN BatchRefused(11)
  ELSE IF \E sel \in store : sel.state = "broken" \/ sel.mode # "current" THEN BatchRefused(3)
  ELSE EvaluateBatch(plan, cncf, community, store, now)

-----------------------------------------------------------------------------
(* The one-command flow: every route classified against every context.      *)

ObservableComponents == [prometheus |-> "prometheus", argo |-> "argo-workflows"]
CallerDeclared == {"file_placeholder", "name_placeholder", "boolean_operator_declaration"}
MissingDeclarations(route) == {k \in route.arguments : k \in CallerDeclared}
WithDeclarations(route) ==
  IF MissingDeclarations(route) = {} THEN "APPLICABLE_FULLY_SATISFIED" ELSE "APPLICABLE_NEEDS_DECLARATION"
ClassifyKubernetes(route, b) ==
  IF b.server = "" THEN "INDETERMINATE_PARTIAL_COLLECTION"
  ELSE IF b.server # route.from THEN "NOT_APPLICABLE_VERSION_MISMATCH" ELSE WithDeclarations(route)

Classify(route, b, partial) ==
  IF route.project = "kubernetes" THEN ClassifyKubernetes(route, b)
  ELSE IF route.project \notin DOMAIN ObservableComponents THEN "INDETERMINATE_NOT_OBSERVABLE"
  ELSE LET found == {c \in b.components : c.id = ObservableComponents[route.project]} IN
    IF found = {} THEN IF partial THEN "INDETERMINATE_PARTIAL_COLLECTION" ELSE "NOT_APPLICABLE_COMPONENT_ABSENT"
    ELSE IF \E c \in found : c.state # "exact" \/ c.version # route.from THEN "NOT_APPLICABLE_VERSION_MISMATCH"
    ELSE WithDeclarations(route)

NativeRoutes(catalog) == SelectSeq(catalog, LAMBDA r : r.native)
Tally(checks) == [a \in Members(checks) |-> Cardinality({i \in DOMAIN checks : checks[i] = a})]

\* A context: whether its collection, its index and its directory could be
\* used, and what the observation says. The checks come sorted by project
\* and rule, an order their set stands for.
ContextFailed(exit) == [exit |-> exit, checks |-> {}, summary |-> << >>]
ContextReport(routes, classes) ==
  [exit |-> 0, summary |-> Tally(classes),
   checks |-> {[project |-> routes[i].project, rule |-> routes[i].rule, applicability |-> classes[i]] : i \in DOMAIN routes}]
AssessOneContext(c, cmd, routes) ==
  LET b == BuildObservation(c.files, c.index, [captured |-> cmd.at, now |-> cmd.now, policy |-> "policy", maxAge |-> 1, require |-> TRUE])
  IN IF ~c.collected THEN ContextFailed(2) ELSE IF ~c.indexed THEN ContextFailed(3)
     ELSE IF c.index.status = "partial" /\ ~cmd.allow THEN ContextFailed(6)
     ELSE IF ~c.opened \/ ~b.ok THEN ContextFailed(3)
     ELSE ContextReport(routes, [i \in DOMAIN routes |-> Classify(routes[i], b, c.index.status = "partial")])

\* assessDeclaredScope: what is refused is a usage error.
AssessDeclaredScope(s, community, attestation, now) ==
  LET report == AssessCommunityScope(community, attestation, s.input, now) IN
  IF ~s.readable \/ report.error # "" THEN [exit |-> 2, assessment |-> "UNKNOWN"]
  ELSE [exit |-> IF report.enumerated THEN 0 ELSE 3, assessment |-> report.assessment]

\* Run; the clock of the evaluation never runs behind the collection.
RunFailed(exit) == [exit |-> exit, assessment |-> "UNKNOWN", contexts |-> << >>]
RunContexts(assessed, assessment) ==
  LET failed == SelectSeq(assessed, LAMBDA a : a.exit # 0) IN
  IF failed # << >> THEN RunFailed(Head(failed).exit) ELSE [exit |-> 0, assessment |-> assessment, contexts |-> assessed]
RunOneCommand(cmd, community, attestation) ==
  LET timed == [cmd EXCEPT !.now = Max({cmd.at, cmd.now})]
      scopes == {AssessDeclaredScope(s, community, attestation, timed.now) : s \in cmd.scope}
      routes == NativeRoutes(cmd.catalog)
  IN IF cmd.contexts = << >> THEN RunFailed(2) ELSE IF cmd.catalog = << >> THEN RunFailed(3)
     ELSE IF \E s \in scopes : s.exit # 0 THEN RunFailed((CHOOSE s \in scopes : TRUE).exit)
     ELSE RunContexts([i \in DOMAIN cmd.contexts |-> AssessOneContext(cmd.contexts[i], timed, routes)],
                      IF scopes = {} THEN "UNKNOWN" ELSE (CHOOSE s \in scopes : TRUE).assessment)

-----------------------------------------------------------------------------
(* Bounded packs, plans and contexts.                                       *)

RequiredSeq(r) == SetToSeq({[side |-> k[1], component |-> k[2], fact |-> k[3], shaped |-> TRUE] : k \in RequiredFacts(r)})
EntryOf(r) == [project |-> r.component, shaped |-> TRUE, facts |-> RequiredSeq(r), rule |-> r]
PackOf(rules) == [schema |-> RulesSchemaFor(rules), policy |-> "ok", revision |-> 1, projects |-> {r.component : r \in Members(rules)},
                  entries |-> [i \in DOMAIN rules |-> EntryOf(rules[i])]]
Packs == {PackOf(<<r, s>>) : r \in Rules(1), s \in Rules(2) \cup {Widened(Requires(2, "lt"))}}
Sample == PackOf(<<Plain(1, 1), Requires(2, "gte")>>)
OddPacks ==
  {[Sample EXCEPT !.schema = "v1alpha2"], [Sample EXCEPT !.policy = "odd"], [Sample EXCEPT !.entries = Reverse(@)],
   [Sample EXCEPT !.entries[1].shaped = FALSE], [Sample EXCEPT !.entries[1].facts = << >>], [Sample EXCEPT !.entries[1].facts = @ \o @],
   [Sample EXCEPT !.entries[1].facts[1].component = 2], [Sample EXCEPT !.entries[1].project = 2],
   [Sample EXCEPT !.entries[1].project = 9], [Sample EXCEPT !.entries[1].rule.evidence.until = 9]}

PlainInputs == {in \in Inputs : in.scope = {}}

Checked(name, p, project, id, in, now, exit) ==
  Case(name, [rules |-> RulesOf(p, project), id |-> id, input |-> in, now |-> now], exit)
CheckCases ==
  \E p \in Packs \cup OddPacks, project \in {1, 3}, in \in PlainInputs, now \in {0, 2, 3} :
    \/ Checked("check", p, project, 0, in, now, ClaimExit(CheckCNCF(p, project, 0, in, now)))
    \/ Checked("check", p, project, 0, in, now, ClaimExit(CheckCommunity(p, project, 0, in, now)))
RuleCases ==
  \E p \in Packs, id \in 1..3, in \in PlainInputs :
    \/ Checked("check", p, 1, id, in, 2, ClaimExit(CheckCNCF(p, 1, id, in, 2)))
    \/ Checked("check", p, 1, id, in, 2, ClaimExit(CheckCommunity(p, 1, id, in, 2)))

\* The external envelope and the receipt the store keeps of it.
Envelope(p) == [shaped |-> TRUE, revision |-> 1, purpose |-> "operator_provided", capability |-> "compiled", pack |-> p]
Envelopes(p) == {Envelope(p), [Envelope(p) EXCEPT !.shaped = FALSE], [Envelope(p) EXCEPT !.revision = 2],
                 [Envelope(p) EXCEPT !.purpose = "odd"], [Envelope(p) EXCEPT !.capability = "other"]}
Receipt(x) == [target |-> "constraints", source |-> "OPERATOR_PROVISIONED", admission |-> Admission(x)]
Selection(x) == [state |-> "selected", mode |-> "current", at |-> 2, bundle |-> x, receipt |-> Receipt(x)]
Selections(p) == {Selection(x) : x \in Envelopes(p)}
                 \cup {[Selection(Envelope(p)) EXCEPT !.at = 3], [Selection(Envelope(p)) EXCEPT !.receipt = Receipt(Envelope(Sample))],
                       [Selection(Envelope(p)) EXCEPT !.receipt.source = "EMBEDDED"], [Selection(Envelope(p)) EXCEPT !.mode = "historical"]}
EmptyPack == [Sample EXCEPT !.entries = << >>]
ExternalCases ==
  \E p \in Packs \cup {EmptyPack, [Sample EXCEPT !.entries[1].project = 2]}, id \in 0..2, in \in PlainInputs :
    \E sel \in Selections(p) :
      Checked("check", p, 1, id, in, sel.at,
              ClaimExit(IF id = 0 THEN EvaluateVerified(Sample, sel, 1, in) ELSE EvaluateSelected(Sample, sel, 1, id, in)))

\* Attestations of the pack, of another and of parts of it.
Attestations(p) ==
  LET a == BuildAttestation(p) IN
  {BuildAttestation(PackOf(<<Plain(1, 1)>>)), [a EXCEPT !.revision = 2], [a EXCEPT !.count = 1], [a EXCEPT !.components = <<1, 2>>],
   [a EXCEPT !.components = << >>], [a EXCEPT !.rules = Reverse(@)], [a EXCEPT !.shaped = FALSE]}
Assessed(p, a, in, report) ==
  Case("scope", [pack |-> p, attestation |-> a, input |-> in, now |-> 2], report)
Attested == {<<p, BuildAttestation(p)>> : p \in Packs}
            \cup UNION {{p} \X Attestations(p) : p \in {Sample, PackOf(<<Plain(1, 1), [Plain(2, 1) EXCEPT !.from = V1]>>)}}
ScopeCases ==
  \E c \in Attested, in \in Inputs :
    \/ Assessed(c[1], c[2], in, AssessCNCFScope(c[1], c[2], in, 2))
    \/ Assessed(c[1], c[2], in, AssessCommunityScope(c[1], c[2], in, 2))

\* Plans of up to two items over one CNCF and one community pack.
ItemFor(id, kind, in) ==
  [id |-> id, kind |-> kind, project |-> 1, from |-> in.current[1].version, to |-> V2, read |-> "ok", pinned |-> {},
   canonical |-> TRUE, large |-> FALSE, input |-> in]
OddItems(item) ==
  {[item EXCEPT !.read = "invalid"], [item EXCEPT !.read = "integrity"], [item EXCEPT !.pinned = {item.input}],
   [item EXCEPT !.pinned = {[item.input EXCEPT !.scope = {<<1>>}]}], [item EXCEPT !.input.scope = {<<1>>}],
   [item EXCEPT !.canonical = FALSE], [item EXCEPT !.large = TRUE], [item EXCEPT !.from = <<0, 2, 0>>], [item EXCEPT !.from = V2],
   [item EXCEPT !.id = 1], [item EXCEPT !.project = 9], [item EXCEPT !.kind = "odd"]}
PlanOf(mode, items) == [shaped |-> TRUE, mode |-> mode, items |-> items]
CommunityPack == PackOf(<<Plain(1, 1)>>)
BatchPacks == {PackOf(<<r, Widened(Requires(2, "lt"))>>) :
                 r \in {Plain(1, 1), Requires(1, "gte"), [Plain(1, 1) EXCEPT !.from = V1], [Plain(1, 1) EXCEPT !.evidence.until = 2]}}
Stores(p) == {{}, {Selection(Envelope(p))}, {[Selection(Envelope(p)) EXCEPT !.state = "none"]},
              {[Selection(Envelope(p)) EXCEPT !.state = "broken"]}, {[Selection(Envelope(p)) EXCEPT !.mode = "historical"]},
              {[Selection(Envelope(p)) EXCEPT !.at = 3]}}
BothSides == {in \in PlainInputs : Len(in.current) = 2 /\ in.proposed[1].facts = << >>}
Plans ==
  {<<PlanOf("embedded", <<ItemFor(1, k1, in1), ItemFor(2, k2, in2)>>), p, {}, now>> :
     p \in BatchPacks, in1, in2 \in BothSides, k1, k2 \in {"cncf", "community"}, now \in {0, 2, 3}}
  \cup UNION {{<<PlanOf("external", <<ItemFor(1, k, in1), ItemFor(2, "cncf", in2)>>), Sample, store, 0>> :
                 in1, in2 \in BothSides, k \in {"cncf", "community"}, store \in Stores(p)} : p \in BatchPacks}
  \cup UNION {{<<PlanOf("embedded", items), Sample, {}, 2>> : items \in {<<odd, ItemFor(1, "cncf", in)>>, <<ItemFor(1, "cncf", in), odd>>}} :
                 <<in, odd>> \in UNION {{in} \X OddItems(ItemFor(2, k, in)) : in \in PlainInputs, k \in {"cncf", "community"}}}
  \cup {<<PlanOf(mode, [i \in 1..n |-> ItemFor(i, kind, in)]), Sample, store, 2>> :
          n \in {0, 1, 3}, mode \in {"embedded", "external", "odd"}, kind \in {"cncf", "community"}, in \in PlainInputs, store \in Stores(Sample)}
BatchCases ==
  \E c \in Plans : Case("batch", [plan |-> c[1], cncf |-> c[2], store |-> c[3], now |-> c[4]],
                         Batch(c[1], c[2], CommunityPack, c[3], c[4]))

\* Contexts whose rows agree, conflict, give no version or are not there.
RouteFor(project, rule, from, arguments) == [project |-> project, rule |-> rule, from |-> from, arguments |-> arguments, native |-> rule # 9]
Catalog == <<RouteFor("prometheus", 1, "3.1.0", {"literal", "file_placeholder"}), RouteFor("prometheus", 2, "2.55.1", {"timestamp_placeholder"}),
             RouteFor("argo", 3, "3.1.0", {"name_placeholder"}), RouteFor("kubernetes", 4, "1.30", {"boolean_operator_declaration"}),
             RouteFor("elsewhere", 5, "3.1.0", {}), RouteFor("prometheus", 9, "3.1.0", {})>>
ContextOf(status, servers, rows, images) ==
  [collected |-> TRUE, indexed |-> TRUE, opened |-> TRUE, index |-> IndexOf(status, 0, 1),
   files |-> servers \o <<SurfaceFile("", rows), ImagesFile("Deployment", images), OmissionsFile(<< >>), [MetadataFile EXCEPT !.status = status]>>]
Contexts ==
  {ContextOf(status, servers, rows, images) :
     status \in {"complete", "partial"}, servers \in {<< >>, <<ServerFile("1.30-gke")>>, <<ServerFile("1.31")>>},
     rows \in BoundedSeq({SurfaceRow("prometheus", v) : v \in {"none", "v3.1.0", "2.55.1"}}, 1),
     images \in BoundedSeq(ImageRows, 2)}
SomeContext == ContextOf("partial", << >>, << >>, << >>)
OddContexts == {[SomeContext EXCEPT !.collected = FALSE], [SomeContext EXCEPT !.indexed = FALSE], [SomeContext EXCEPT !.opened = FALSE],
                [SomeContext EXCEPT !.index.time = 2]}
Command(contexts, allow, scope, now) ==
  [contexts |-> contexts, allow |-> allow, scope |-> scope, at |-> 1, now |-> now, catalog |-> Catalog]
Commands ==
  {<<Command(<<c>>, allow, {}, 1), CommunityPack>> : c \in Contexts, allow \in BOOLEAN}
  \cup {<<Command(contexts, allow, {}, now), CommunityPack>> :
          contexts \in BoundedSeq(OddContexts \cup {SomeContext}, 2), allow \in BOOLEAN, now \in 0..2}
  \cup {<<Command(<<SomeContext>>, TRUE, {[readable |-> readable, input |-> in]}, now), PackOf(<<r>>)>> :
          r \in Rules(1), in \in Inputs, readable \in BOOLEAN, now \in 0..3}
  \cup {<<[Command(<<SomeContext>>, TRUE, {}, 1) EXCEPT !.catalog = << >>], CommunityPack>>}
AssessCases ==
  \E c \in Commands : Case("assess", [command |-> c[1], pack |-> c[2]], RunOneCommand(c[1], c[2], BuildAttestation(c[2])))

VerdictSteps ==
  op = "start" /\ (CheckCases \/ RuleCases \/ ExternalCases \/ ScopeCases \/ BatchCases \/ AssessCases)

-----------------------------------------------------------------------------
(* Properties: what a verdict stands for, read off the pack and the input.  *)

Violates(in, r) ==
  /\ Under(in, r) /\ \A c \in Members(r.appliesWhen) : Says(in, c, {c.value})
  /\ \/ r.operator \in {"forbid_target_version", "require_intermediate_version"}
     \/ \E c \in r.condition : Says(in, c, {c.value})
     \/ \E d \in r.dependency : \E b \in Members(in.proposed) : b.component = d.component /\ ~Compares(d, b.version)
Blocked(rules, in, now) == \E r \in rules : Live(r, now) /\ Violates(in, r)
Passed(rules, in, now) ==
  /\ \E r \in rules : Under(in, r)
  /\ \A r \in rules : Under(in, r) => Live(r, now) /\ Holds(in, r)

CheckTruthful(in, exit) ==
  LET rules == {r \in in.rules : in.id \in {0, r.id}} IN
  exit \notin {2, 3} => /\ exit = 10 <=> Blocked(rules, in.input, in.now)
                        /\ exit = 0 <=> Passed(rules, in.input, in.now)

ScopeTruthful(p, in, now, assessment) ==
  LET scope == UNION {Members(s) : s \in in.scope}
      rules == {r \in Members(PackRules(p)) : r.component \in scope}
  IN /\ assessment = "SCOPE_COMPLETE_PASS" =>
          /\ \A r \in rules : Excluded(in, r) \/ (Holds(in, r) /\ Live(r, now))
          /\ \A c \in scope : Passed({r \in rules : r.component = c /\ ~Excluded(in, r)}, in, now)
     /\ assessment = "BLOCKED" => Blocked(rules, in, now)

\* Whose rules an item is checked against, and at what time.
ItemRules(item, in) ==
  IF item.kind = "community" THEN RulesOf(CommunityPack, item.project)
  ELSE UNION {RulesOf(p, item.project) : p \in IF in.store = {} THEN {in.cncf} ELSE {sel.bundle.pack : sel \in in.store}}
BatchTruthful(in, out) ==
  LET now == IF in.store = {} THEN in.now ELSE (CHOOSE sel \in in.store : TRUE).at
      items == Members(in.plan.items)
      blocked == \E item \in items : Blocked(ItemRules(item, in), item.input, now)
  IN out.category # "" =>
       /\ out.exit = 0 => \A item \in items : Passed(ItemRules(item, in), item.input, now)
       /\ out.exit = 10 => blocked
       /\ blocked => out.exit \in {2, 3, 10}
       /\ out.detailed = 0 <=> out.exit = 0
       /\ Batch([in.plan EXCEPT !.items = Reverse(@)], in.cncf, CommunityPack, in.store, in.now).exit = out.exit

\* What the rows of a context say about the component of a route.
RowsAbout(c, route, kind) == {r \in RowsOf(FilesOf(c.files, kind)) : r.id = ObservableComponents[route.project]}
ServersOf(c) == {NormalServer[f.version] : f \in Members(FilesOf(c.files, "server"))}
\* The outcomes, each exactly where the rows put it. A mismatch is one of
\* three things: the one version observed is another than the route's; no row
\* gives a version; the rows dispute it. docs/one-command-flow.md 44 has the
\* outcome for the first alone; onecommand.go 427 does not tell them apart.
RouteTruthful(c, route, a) ==
  LET surface == RowsAbout(c, route, "surface")
      images == RowsAbout(c, route, "images")
      absent == surface \cup images = {}
      versions == VersionsOf(surface, images)
      disputed == ConflictOf(surface, images) \/ Cardinality(versions) > 1
      unknown == ~absent /\ ~disputed /\ versions = {}
      another == ~disputed /\ versions # {} /\ route.from \notin versions
      applicable == a \in {"APPLICABLE_FULLY_SATISFIED", "APPLICABLE_NEEDS_DECLARATION"}
      indeterminate == a = "INDETERMINATE_PARTIAL_COLLECTION"
      mismatch == a = "NOT_APPLICABLE_VERSION_MISMATCH"
  IN IF route.project = "kubernetes"
       THEN /\ applicable <=> ServersOf(c) = {route.from}
            /\ mismatch <=> ServersOf(c) \ {route.from} # {}
            /\ indeterminate <=> ServersOf(c) = {}
     ELSE IF route.project \notin DOMAIN ObservableComponents THEN a = "INDETERMINATE_NOT_OBSERVABLE"
     ELSE /\ a = "NOT_APPLICABLE_COMPONENT_ABSENT" <=> absent /\ c.index.status = "complete"
          /\ indeterminate <=> absent /\ c.index.status = "partial"
          /\ mismatch <=> another \/ unknown \/ disputed
          /\ applicable <=> ~disputed /\ versions = {route.from}
AssessTruthful(in, out) ==
  LET cmd == in.command
      routes == NativeRoutes(cmd.catalog)
  IN out.exit = 0 =>
       /\ Len(out.contexts) = Len(cmd.contexts)
       /\ \A i \in DOMAIN cmd.contexts :
            /\ cmd.allow \/ cmd.contexts[i].index.status = "complete"
            /\ MapThenSumSet(LAMBDA a : out.contexts[i].summary[a], DOMAIN out.contexts[i].summary) = Len(routes)
            /\ \A route \in Members(routes) : \E a \in out.contexts[i].checks :
                 a.project = route.project /\ a.rule = route.rule /\ RouteTruthful(cmd.contexts[i], route, a.applicability)
       /\ \A s \in cmd.scope : ScopeTruthful(in.pack, s.input, Max({cmd.at, cmd.now}), out.assessment)
       /\ cmd.scope = {} => out.assessment = "UNKNOWN"

(* A check exits 0 exactly when some rule of its project covers the         *)
(* transition and every one that does holds on live evidence, and 10        *)
(* exactly when a live covering rule is violated, whichever pack the rules  *)
(* come from and however they were selected; a batch never passes an item   *)
(* that does not, never hides a blocked one, and its exit does not depend   *)
(* on the order of its items; a scope aggregate is justified by every rule  *)
(* of the attested pack; and the one-command flow calls a component absent, *)
(* matched or mismatched exactly where the rows of the context say so, for  *)
(* every route and context, a version the rows leave unknown or dispute     *)
(* being one of its mismatches (cncfcheck, projectcheck, cncfknowledge,     *)
(* batchcheck, onecommand).                                                 *)
VerdictsTruthful ==
  /\ op = "check" => CheckTruthful(input, output)
  /\ op = "scope" => ScopeTruthful(input.pack, input.input, input.now, output.assessment)
  /\ op = "batch" => BatchTruthful(input, output)
  /\ op = "assess" => AssessTruthful(input, output)
=============================================================================
