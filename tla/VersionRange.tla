---------------------------- MODULE VersionRange ----------------------------
(***************************************************************************)
(* The transition matcher of cli/internal/constraintengine/match.go: when  *)
(* a declared upgrade from one release to another falls under a rule's     *)
(* reviewed anchor pair or under the reviewed range around it, the guards  *)
(* a range passes before it is admitted, and the lint that keeps two rules *)
(* of one pack from constraining the same fact over the same transitions.  *)
(*                                                                         *)
(* A version is a triple of uint32 parts; MaxPart is the largest part      *)
(* (2^32 - 1 in the code).  A string that does not parse is NoVersion.     *)
(* An optional field is a set with at most one element.                    *)
(***************************************************************************)
EXTENDS Naturals, Sequences

CONSTANT MaxPart
ASSUME MaxPartAssumption == MaxPart \in Nat \ {0}

Part == 0..MaxPart
Versions == Part \X Part \X Part
NoVersion == <<>>

-----------------------------------------------------------------------------
(* Order: compareVersions says "not comparable" unless both strings parse. *)

Earlier(a, b) ==
    \/ a[1] < b[1]
    \/ a[1] = b[1] /\ a[2] < b[2]
    \/ a[1] = b[1] /\ a[2] = b[2] /\ a[3] < b[3]

VersionLess(a, b) == a \in Versions /\ b \in Versions /\ Earlier(a, b)
VersionLeq(a, b) == a \in Versions /\ b \in Versions /\ ~Earlier(b, a)

InBound(v, bound) == VersionLeq(bound.gte, v) /\ VersionLess(v, bound.lt)

(* A subject is [component, from, to, range]; range has at most one element. *)
InRange(t, from, to) ==
    \E g \in t.range : InBound(from, g.from) /\ InBound(to, g.to)

Match(t, from, to) ==
    IF from = t.from /\ to = t.to THEN "anchor"
    ELSE IF InRange(t, from, to) THEN "range" ELSE "none"

MatchesFrom(t, from) == from = t.from \/ \E g \in t.range : InBound(from, g.from)
MatchesTo(t, to) == to = t.to \/ \E g \in t.range : InBound(to, g.to)
IsAnchor(t, from, to) == from = t.from /\ to = t.to

-----------------------------------------------------------------------------
(* Admission of a range.                                                   *)

BoundOrder == <<"from.gte", "from.lt", "to.gte", "to.lt">>

BasisAllowed ==
    [REMOVED_IN_RELEASE          |-> {"from.lt", "to.gte"},
     CHANGED_IN_RELEASE          |-> {"from.lt", "to.gte"},
     RESTORED_IN_RELEASE         |-> {"to.lt"},
     UPGRADE_FROM_SERIES         |-> {"from.gte", "from.lt"},
     TARGET_SERIES               |-> {"to.gte", "to.lt"},
     PREVIOUS_MINOR_LINE         |-> {"from.gte"},
     REVIEWED_THROUGH_MINOR_LINE |-> {"to.lt"},
     ANCHOR_ONLY                 |-> {"from.gte", "from.lt", "to.gte", "to.lt"}]

MinorStart(v) == v[3] = 0

(* The sums are taken in uint64, so the last minor line has a successor.   *)
WholeMinorLine(gte, lt) ==
    MinorStart(gte) /\ MinorStart(lt) /\ gte[1] = lt[1] /\ gte[2] + 1 = lt[2]

WithinOneMinorLine(gte, lt) ==
    /\ lt[1] = gte[1]
    /\ lt[2] < gte[2] + 1 \/ (lt[2] = gte[2] + 1 /\ lt[3] = 0)

(* What each basis makes checkable about the shape of the bound it cites.  *)
ReleaseBoundary(g, basis) ==
    ({basis[2], basis[3]} \cap {"REMOVED_IN_RELEASE", "CHANGED_IN_RELEASE"} # {})
        => basis[2] = basis[3] /\ g.from.lt = g.to.gte /\ MinorStart(g.to.gte)

SeriesShape(g, basis) ==
    /\ (basis[1] = "PREVIOUS_MINOR_LINE") => WholeMinorLine(g.from.gte, g.from.lt)
    /\ (basis[1] = "UPGRADE_FROM_SERIES" \/ basis[2] = "UPGRADE_FROM_SERIES")
           => WholeMinorLine(g.from.gte, g.from.lt)
    /\ (basis[3] = "TARGET_SERIES" \/ basis[4] = "TARGET_SERIES")
           => WholeMinorLine(g.to.gte, g.to.lt)
    /\ (basis[4] = "REVIEWED_THROUGH_MINOR_LINE") => MinorStart(g.to.lt)

NextPatch(v, lt) == lt[1] = v[1] /\ lt[2] = v[2] /\ v[3] + 1 = lt[3]

AnchorShape(t, g, basis) ==
    /\ (basis[1] = "ANCHOR_ONLY") => g.from.gte = t.from
    /\ (basis[2] = "ANCHOR_ONLY") => NextPatch(t.from, g.from.lt)
    /\ (basis[3] = "ANCHOR_ONLY") => g.to.gte = t.to
    /\ (basis[4] = "ANCHOR_ONLY") => NextPatch(t.to, g.to.lt)

ValidateBasisStructure(t, g, basis) ==
    ReleaseBoundary(g, basis) /\ SeriesShape(g, basis) /\ AnchorShape(t, g, basis)

ValidateBounds(g, sources) ==
    /\ Len(g.bounds) = Len(BoundOrder)
    /\ \A i \in 1..4 :
          /\ g.bounds[i].bound = BoundOrder[i]
          /\ g.bounds[i].basis \in DOMAIN BasisAllowed
          /\ g.bounds[i].bound \in BasisAllowed[g.bounds[i].basis]
          /\ g.bounds[i].source \in sources


IntervalsMayCross(g) ==
    /\ {g.from.gte, g.from.lt, g.to.gte, g.to.lt} \subseteq Versions
    /\ VersionLess(g.from.gte, g.from.lt)
    /\ VersionLess(g.to.gte, g.to.lt)
    /\ VersionLeq(g.from.gte, g.to.gte)
    /\ WithinOneMinorLine(g.from.gte, g.from.lt)
    /\ WithinOneMinorLine(g.to.gte, g.to.lt)

ValidateIntervals(g) ==
    /\ {g.from.gte, g.from.lt, g.to.gte, g.to.lt} \subseteq Versions
    /\ VersionLess(g.from.gte, g.from.lt)
    /\ VersionLess(g.to.gte, g.to.lt)
    /\ VersionLeq(g.from.lt, g.to.gte)
    /\ WithinOneMinorLine(g.from.gte, g.from.lt)
    /\ WithinOneMinorLine(g.to.gte, g.to.lt)

ValidateRange(t, sources) ==
    \A g \in t.range :
        /\ ValidateIntervals(g)
        /\ InBound(t.from, g.from)
        /\ InBound(t.to, g.to)
        /\ ValidateBounds(g, sources)
        /\ ValidateBasisStructure(t, g, [i \in 1..4 |-> g.bounds[i].basis])

-----------------------------------------------------------------------------
(* The pack lint.  An exact subject matches the closed interval [v, v].    *)

Region(t) ==
    IF t.range = {}
    THEN [from |-> [low |-> t.from, high |-> t.from, closed |-> TRUE],
          to   |-> [low |-> t.to,   high |-> t.to,   closed |-> TRUE]]
    ELSE LET g == CHOOSE g \in t.range : TRUE
         IN [from |-> [low |-> g.from.gte, high |-> g.from.lt, closed |-> FALSE],
             to   |-> [low |-> g.to.gte,   high |-> g.to.lt,   closed |-> FALSE]]

(* Versions that do not compare count as overlapping.                      *)
BelowHigh(low, other) ==
    (low \in Versions /\ other.high \in Versions)
        => IF other.closed THEN VersionLeq(low, other.high)
                           ELSE VersionLess(low, other.high)

IntervalsOverlap(a, b) == BelowHigh(a.low, b) /\ BelowHigh(b.low, a)

RegionsOverlap(s, t) ==
    /\ IntervalsOverlap(Region(s).from, Region(t).from)
    /\ IntervalsOverlap(Region(s).to, Region(t).to)

-----------------------------------------------------------------------------
(* What the guards are for.                                                *)

(* A range admitted by validateRange licenses strict upgrades only: no     *)
(* pair it matches keeps or lowers the version, whatever the bounds, and   *)
(* the range keeps covering the anchor it was reviewed at.                 *)
RangeLicensesUpgradesOnly(t, sources, from, to) ==
    ValidateRange(t, sources) =>
        /\ InRange(t, from, to) => VersionLess(from, to)
        /\ t.range # {} => InRange(t, t.from, t.to)

(* Two rules for one component that both match a transition, one of them   *)
(* through an admitted range, are seen as overlapping by the pack lint.    *)
LintSeesSharedTransition(s, t, sources, from, to) ==
    (/\ ValidateRange(s, sources) /\ ValidateRange(t, sources)
     /\ Match(s, from, to) # "none" /\ Match(t, from, to) # "none")
        => RegionsOverlap(s, t)
=============================================================================
