--------------------------- MODULE ConstraintCases ---------------------------
(***************************************************************************)
(* Bounded inputs for VersionRange and ConstraintEngine: rule subjects     *)
(* with every range over a few versions, and evaluations of two-rule       *)
(* documents against declared inputs, each admitted or refused by the      *)
(* parsers first.                                                          *)
(***************************************************************************)
EXTENDS ConstraintEngine, Cases

CONSTANTS Edge        \* the versions range bounds and transitions are taken from

-----------------------------------------------------------------------------
(* Subjects and ranges.                                                    *)

Bases == {<<"ANCHOR_ONLY", "CHANGED_IN_RELEASE", "CHANGED_IN_RELEASE", "RESTORED_IN_RELEASE">>,
          <<"PREVIOUS_MINOR_LINE", "UPGRADE_FROM_SERIES", "TARGET_SERIES", "REVIEWED_THROUGH_MINOR_LINE">>,
          <<"ANCHOR_ONLY", "ANCHOR_ONLY", "ANCHOR_ONLY", "RESTORED_IN_RELEASE">>}
BoundsOf(basis) ==
    [i \in 1..4 |-> [bound |-> BoundOrder[i], basis |-> basis[i], source |-> 1]]
Span(fg, fl, tg, tl, basis) ==
    [from |-> [gte |-> fg, lt |-> fl], to |-> [gte |-> tg, lt |-> tl], bounds |-> BoundsOf(basis)]

CheckRange ==
    \E from, to, fg, fl, tg, tl \in Edge, basis \in Bases :
        /\ from # to /\ Earlier(fg, fl) /\ Earlier(tg, tl)
        /\ \E t \in {[from |-> from, to |-> to, range |-> {Span(fg, fl, tg, tl, basis)}]} :
              Case("range", t, ValidateRange(t, {1}))

-----------------------------------------------------------------------------
(* Rule documents and declared inputs.                                     *)

V0 == <<0, 1, 0>>
V1 == <<0, 1, 1>>
V2 == <<1, 0, 0>>
Source == [id |-> 1, shaped |-> TRUE, start |-> 1, end |-> MaxLine, revision |-> "r",
           url |-> [scheme |-> "https", plain |-> TRUE, host |-> "github.com",
                    parts |-> <<"org", "repo", "blob", "r", ".github">>]]
Evidence == [state |-> "active", reviewed |-> 1, until |-> 3, sources |-> <<Source>>]
Condition(side, b) == [side |-> side, component |-> 1, fact |-> 1, value |-> <<"bool", b>>]

Plain(id, component) ==
    [id |-> id, shaped |-> TRUE, operator |-> "forbid_predicate_value", component |-> component,
     from |-> V0, to |-> V2, range |-> {}, condition |-> {Condition("current", TRUE)},
     appliesWhen |-> <<>>, dependency |-> {}, intermediate |-> {},
     evidence |-> Evidence, reason |-> "REVIEWED"]
Requires(id, comparison) ==
    [Plain(id, 1) EXCEPT !.operator = "require_component_version", !.condition = {},
        !.dependency = {[side |-> "proposed", component |-> 2, version |-> V1,
                         comparison |-> comparison]}]
Widened(r) ==
    [r EXCEPT !.range = {Span(V0, <<0, 2, 0>>, V2, <<1, 1, 0>>,
        <<"UPGRADE_FROM_SERIES", "UPGRADE_FROM_SERIES", "TARGET_SERIES", "TARGET_SERIES">>)}]
Rules(id) ==
    {Plain(id, 1), Plain(id, 2), Widened(Plain(id, 1)), Requires(id, "gte"), Requires(id, "lt"),
     [Plain(id, 1) EXCEPT !.from = V1],
     [Plain(id, 1) EXCEPT !.evidence.state = "withdrawn"],
     [Plain(id, 1) EXCEPT !.evidence.until = 2],
     [Plain(id, 1) EXCEPT !.condition = {Condition("proposed", FALSE)},
                          !.appliesWhen = <<Condition("current", TRUE)>>],
     [Plain(id, 1) EXCEPT !.operator = "forbid_target_version", !.condition = {},
                          !.appliesWhen = <<Condition("current", FALSE)>>],
     [Plain(id, 1) EXCEPT !.operator = "require_intermediate_version", !.condition = {},
                          !.intermediate = {V1}]}
Refused(id) ==
    {[Plain(id, 1) EXCEPT !.to = V0], [Plain(id, 1) EXCEPT !.condition = {}],
     [Plain(id, 1) EXCEPT !.evidence.sources = <<>>],
     [Plain(id, 1) EXCEPT !.evidence.sources[1].url.parts[4] = "main"]}

Doc(r, s, corpus) ==
    [schema |-> IF Ranged(<<r, s>>) THEN "v1alpha2" ELSE "v1alpha1",
     rules |-> <<r, s>>, corpus |-> corpus]
Documents ==
    {Doc(r, s, corpus) : r \in Rules(1), s \in Rules(2), corpus \in {{<<1>>}, {<<1, 2>>}}}
    \cup {Doc(r, Plain(2, 1), {}) : r \in Rules(1) \cup Refused(1)}

Fact(b) == <<[id |-> 1, state |-> "declared", value |-> <<"bool", b>>]>>
Missing == <<[id |-> 1, state |-> "missing", value |-> <<>>]>>
Component(c, version, facts) == [component |-> c, version |-> version, facts |-> facts]
Inputs ==
    {[current |-> <<Component(1, from, facts)>> \o other,
      proposed |-> <<Component(1, V2, proposed)>> \o other,
      scope |-> scope] :
        from \in {V0, V1}, facts \in {Fact(TRUE), Fact(FALSE), Missing},
        proposed \in {Fact(TRUE), <<>>},
        other \in {<<>>, <<Component(2, V1, <<>>)>>}, scope \in {{}, {<<1>>}, {<<1, 2>>}}}

Evaluation(in, doc, now, claims) ==
    [input |-> in, doc |-> doc, now |-> now, claims |-> claims]

EvaluateCase ==
    \E doc \in Documents, in \in Inputs, now \in {0, 2} :
        IF ParseInput(in) /\ ParseRuleSet(doc)
        THEN \E claims \in {Claims(in, doc, now)} :
                Case("evaluate", Evaluation(in, doc, now, claims), Evaluate(in, doc, claims))
        ELSE Case("refused", [input |-> in, doc |-> doc], "ErrInvalid")

ConstraintSteps == op = "start" /\ (CheckRange \/ EvaluateCase)

-----------------------------------------------------------------------------
(* Properties.                                                             *)

(* A reviewed range that validateRange admits matches strict upgrades only *)
(* and keeps covering its anchor, and the pack lint sees every exact rule  *)
(* a ranged rule shares a transition with.                                 *)
RangesSound ==
    (op = "range" /\ output) =>
        \A from, to \in Edge :
            /\ RangeLicensesUpgradesOnly(input, {1}, from, to)
            /\ LintSeesSharedTransition(input, [from |-> from, to |-> to, range |-> {}],
                                        {1}, from, to)

(* What the verdict stands for, read off the documents alone.              *)
Under(in, r) ==
    \E a \in Members(in.current), b \in Members(in.proposed) :
        /\ a.component = r.component /\ b.component = r.component
        /\ \/ a.version = r.from /\ b.version = r.to
           \/ \E g \in r.range : InBound(a.version, g.from) /\ InBound(b.version, g.to)
Says(in, c, values) ==
    \E comp \in Members(IF c.side = "current" THEN in.current ELSE in.proposed) :
        /\ comp.component = c.component
        /\ \E f \in Members(comp.facts) : f.id = c.fact /\ f.value \in values
Excluded(in, r) ==
    ~Under(in, r) \/ \E c \in Members(r.appliesWhen) : Says(in, c, {<<"bool", ~c.value[2]>>})
Holds(in, r) ==
    /\ \A c \in Members(r.appliesWhen) : Says(in, c, {c.value})
    /\ \A c \in r.condition : Says(in, c, {<<"bool", ~c.value[2]>>})
    /\ \A d \in r.dependency : \E b \in Members(in.proposed) :
          b.component = d.component /\ Compares(d, b.version)
    /\ r.operator \in {"forbid_predicate_value", "require_component_version"}
Live(r, now) == r.evidence.state = "active" /\ r.evidence.reviewed <= now /\ now < r.evidence.until

(* SCOPE_COMPLETE_PASS is reported only when the document attests every    *)
(* declared component, every rule about one of them is excluded by a       *)
(* declared version or value or holds on evidence that is live at the      *)
(* evaluation time, and every component has a live rule reviewed at        *)
(* exactly its transition; a BLOCKED aggregate rests on a live rule that   *)
(* covers the transition and does not hold.                                *)
ScopeVerdictSound ==
    op = "evaluate" =>
        LET in == input.input
            scope == UNION {Members(s) : s \in in.scope}
            rules == {r \in Members(input.doc.rules) : r.component \in scope}
        IN /\ output.assessment = "SCOPE_COMPLETE_PASS" =>
                /\ \E corpus \in input.doc.corpus : scope \subseteq Members(corpus)
                /\ \A r \in rules : Excluded(in, r) \/ (Holds(in, r) /\ Live(r, input.now))
                /\ \A c \in scope : \E r \in rules :
                      /\ r.component = c /\ ~Excluded(in, r)
                      /\ \E a \in Members(in.current) : a.component = c /\ a.version = r.from
           /\ output.assessment = "BLOCKED" =>
                \E r \in rules : Under(in, r) /\ Live(r, input.now) /\ ~Holds(in, r)

(* Reports with one part of the enumeration changed.                       *)
Dropped(report) ==
    UNION {UNION {{[report EXCEPT !.scope = {[scope EXCEPT !.rows =
                      (scope.rows \ {row}) \cup {[row EXCEPT !.skipped = row.skipped \ {s}]}]}] :
                        s \in row.skipped} : row \in scope.rows} : scope \in report.scope}
Upgraded(report) ==
    {[report EXCEPT !.assessment = a, !.omissions = RequiredOmissions(a)] :
        a \in {"BLOCKED", "UNKNOWN", "SCOPE_COMPLETE_PASS"} \ {report.assessment}}

(* MarshalReport seals every report Evaluate issues, and refuses it with   *)
(* another aggregate or with a skipped rule left out of the enumeration.   *)
GateAgrees ==
    op = "evaluate" =>
        /\ MarshalReport(output)
        /\ \A edited \in Upgraded(output) \cup Dropped(output) : ~MarshalReport(edited)
=============================================================================
