--------------------------- MODULE AlgorithmProofs ---------------------------
(***************************************************************************)
(* Two pure algorithms for every input.                                    *)
(*                                                                         *)
(* Refreshing the trust state, for any packages, offered any number of     *)
(* times at any instants: its roles are always the ones its root           *)
(* authorizes, and none goes back to an older version while the keys that  *)
(* sign it stay.                                                           *)
(*                                                                         *)
(* Matching a transition, for any versions and any ranges: what a range    *)
(* licenses, and that the pack lint sees every two rules that meet.        *)
(***************************************************************************)
EXTENDS TUFClient, TUFRefreshProofs, VersionRange

-----------------------------------------------------------------------------
(* Trust metadata *)

ClientInv == state # None => SoundState(state)

\* So every verification starts from a sound state or from the bootstrap root.
LEMMA ClientRooted == ClientInv => Rooted(state, Boot)
  BY BootAssumption, Zenon DEF ClientInv, Rooted

\* Every persisted trust state is sound.
LEMMA ClientSound == CSpec => []ClientInv
<1>1. CInit => ClientInv
  BY DEF CInit, ClientInv
<1>2. ASSUME ClientInv, [CNext]_state PROVE ClientInv'
  <2>1. CASE CNext
    <3>1. PICK pkg \in Packages, t \in Instants : Refresh(pkg, t)
      BY <2>1 DEF CNext
    <3>2. /\ ~VerifyPackage(state, pkg, Boot, t).lost
          /\ state' = VerifyPackage(state, pkg, Boot, t).state
      BY <3>1 DEF Refresh
    <3>3. SoundState(state')
      BY <1>2, <3>2, FilesAssumption, ClientRooted, VerifySound
    <3> QED
      BY <3>3 DEF ClientInv
  <2>2. CASE UNCHANGED state
    BY <1>2, <2>2 DEF ClientInv
  <2> QED
    BY <1>2, <2>1, <2>2
<1> QED
  BY <1>1, <1>2, PTL DEF CSpec

\* RolesAuthorized for any packages: the trust state that importWithProfile
\* persists holds only roles that its root authorizes, and an accepted
\* refresh makes them one unexpired chain down to the bundle.
THEOREM RolesAlwaysAuthorized == CSpec => []RolesAuthorized
<1>1. ASSUME ClientInv PROVE Authorized
  BY <1>1 DEF ClientInv, Authorized, SoundState, TimestampSound, SnapshotSound, TargetsSound
<1>2. ASSUME ClientInv PROVE AcceptedConsistent
  BY <1>2, FilesAssumption, ClientRooted, AcceptedSound DEF AcceptedConsistent, Whole
<1>3. ClientInv => RolesAuthorized
  BY <1>1, <1>2 DEF RolesAuthorized
<1> QED
  BY <1>3, ClientSound, PTL

\* RolesMonotone for any packages: while the keys that sign a role stay, no
\* verification, accepted or refused, makes it older or loses it.
THEOREM RolesNeverBack == CSpec => []RolesMonotone
<1>1. ASSUME ClientInv PROVE RolesMonotone
  BY <1>1, FilesAssumption, ClientRooted, VerifySound DEF RolesMonotone, NothingBack
<1> QED
  BY <1>1, ClientSound, PTL

\* RefreshIdempotent for any packages: a verification that is repeated, as an
\* interrupted import repeats it, ends in the state it had reached.
THEOREM RefreshAgainSame == CSpec => []RefreshIdempotent
<1>1. ASSUME ClientInv, NEW pkg \in Packages, NEW t \in Instants,
             ~VerifyPackage(state, pkg, Boot, t).lost, ~Oversized(pkg)
      PROVE  LET s == VerifyPackage(state, pkg, Boot, t).state
                 again == VerifyPackage(s, pkg, Boot, t)
             IN  ~again.lost /\ again.state = s
  <2>1. LET r0 == IF state = None THEN Boot ELSE state.root
        IN  Hops(r0, pkg) = MaxRootRotations =>
              ~\E x \in pkg.roots : x.v = r0.v + MaxRootRotations + 1
    BY <1>1 DEF Oversized
  <2> QED
    BY <1>1, <2>1, FilesAssumption, ClientRooted, VerifyAgain
<1>2. ClientInv => RefreshIdempotent
  BY <1>1 DEF RefreshIdempotent
<1> QED
  BY <1>2, ClientSound, PTL

-----------------------------------------------------------------------------
(* Version ranges *)

(* compareVersions orders the release versions: it is transitive, with     *)
(* the mixed strict and non-strict forms the interval checks use.          *)
LEMMA OrderTransitive ==
    ASSUME NEW a, NEW b, NEW c
    PROVE  /\ VersionLess(a, b) /\ VersionLeq(b, c) => VersionLess(a, c)
           /\ VersionLeq(a, b) /\ VersionLess(b, c) => VersionLess(a, c)
           /\ VersionLeq(a, b) /\ VersionLeq(b, c) => VersionLeq(a, c)
           /\ VersionLess(a, b) => VersionLeq(a, b)
  BY DEF VersionLess, VersionLeq, Earlier, Versions, Part

(* Two bounds that hold a common version overlap as half-open intervals.   *)
LEMMA CommonVersionOverlaps ==
    ASSUME NEW v, NEW a, NEW b, InBound(v, a), InBound(v, b)
    PROVE  IntervalsOverlap([low |-> a.gte, high |-> a.lt, closed |-> FALSE],
                            [low |-> b.gte, high |-> b.lt, closed |-> FALSE])
  BY OrderTransitive DEF InBound, IntervalsOverlap, BelowHigh

(* A bound overlaps the closed interval of any version it holds.           *)
LEMMA HeldVersionOverlaps ==
    ASSUME NEW v, NEW a, InBound(v, a)
    PROVE  /\ IntervalsOverlap([low |-> a.gte, high |-> a.lt, closed |-> FALSE],
                               [low |-> v, high |-> v, closed |-> TRUE])
           /\ IntervalsOverlap([low |-> v, high |-> v, closed |-> TRUE],
                               [low |-> a.gte, high |-> a.lt, closed |-> FALSE])
  BY OrderTransitive DEF InBound, IntervalsOverlap, BelowHigh

(* A version overlaps itself.                                              *)
LEMMA SameVersionOverlaps ==
    ASSUME NEW v
    PROVE  IntervalsOverlap([low |-> v, high |-> v, closed |-> TRUE],
                            [low |-> v, high |-> v, closed |-> TRUE])
  BY DEF IntervalsOverlap, BelowHigh, VersionLeq, Earlier, Versions, Part

(* validateRange admits only ranges whose every matched pair is a strict   *)
(* upgrade and which still cover their own anchor.                         *)
THEOREM RangeUpgrades ==
    ASSUME NEW t, NEW sources, NEW from, NEW to
    PROVE  RangeLicensesUpgradesOnly(t, sources, from, to)
<1> SUFFICES ASSUME ValidateRange(t, sources)
             PROVE  /\ InRange(t, from, to) => VersionLess(from, to)
                    /\ t.range # {} => InRange(t, t.from, t.to)
  BY DEF RangeLicensesUpgradesOnly
<1>1. InRange(t, from, to) => VersionLess(from, to)
  <2> SUFFICES ASSUME NEW g \in t.range, InBound(from, g.from), InBound(to, g.to)
               PROVE  VersionLess(from, to)
    BY DEF InRange
  <2>1. VersionLeq(g.from.lt, g.to.gte)
    BY Zenon DEF ValidateRange, ValidateIntervals
  <2>2. VersionLess(from, g.from.lt) /\ VersionLeq(g.to.gte, to)
    BY DEF InBound
  <2> QED BY <2>1, <2>2, OrderTransitive
<1>2. t.range # {} => InRange(t, t.from, t.to)
  BY Zenon DEF ValidateRange, InRange
<1> QED BY <1>1, <1>2

(* Ranges have at most one element: an absent or a present range field.    *)
AtMostOne(S) == \A x, y \in S : x = y

(* Whatever a ranged or an exact rule matches lies in its region.          *)
LEMMA MatchedInRegion ==
    ASSUME NEW t, NEW sources, ValidateRange(t, sources), AtMostOne(t.range),
           NEW from, NEW to, Match(t, from, to) # "none", NEW g \in t.range
    PROVE  /\ InBound(from, g.from)
           /\ InBound(to, g.to)
           /\ Region(t) =
                 [from |-> [low |-> g.from.gte, high |-> g.from.lt, closed |-> FALSE],
                  to   |-> [low |-> g.to.gte,   high |-> g.to.lt,   closed |-> FALSE]]
<1>1. InBound(from, g.from) /\ InBound(to, g.to)
  BY Zenon DEF Match, InRange, ValidateRange, AtMostOne
<1>2. (CHOOSE h \in t.range : TRUE) = g
  BY DEF AtMostOne
<1> QED BY <1>1, <1>2, Zenon DEF Region

(* The pack lint flags every two rules that match one transition.          *)
THEOREM LintComplete ==
    ASSUME NEW s, NEW t, NEW sources, NEW from, NEW to,
           AtMostOne(s.range), AtMostOne(t.range)
    PROVE  LintSeesSharedTransition(s, t, sources, from, to)
<1> SUFFICES ASSUME ValidateRange(s, sources), ValidateRange(t, sources),
                    Match(s, from, to) # "none", Match(t, from, to) # "none"
             PROVE  RegionsOverlap(s, t)
  BY DEF LintSeesSharedTransition
<1> DEFINE Point(v) == [low |-> v, high |-> v, closed |-> TRUE]
<1>1. ASSUME NEW x, x.range = {}, Match(x, from, to) # "none"
      PROVE  Region(x) = [from |-> Point(from), to |-> Point(to)]
  BY <1>1, Zenon DEF Match, InRange, Region
<1>2. CASE s.range = {} /\ t.range = {}
  <2>1. Region(s) = [from |-> Point(from), to |-> Point(to)]
    BY <1>1, <1>2
  <2>2. Region(t) = [from |-> Point(from), to |-> Point(to)]
    BY <1>1, <1>2
  <2> QED BY <2>1, <2>2, SameVersionOverlaps DEF RegionsOverlap
<1>3. CASE s.range = {} /\ t.range # {}
  <2> PICK g \in t.range : TRUE BY <1>3
  <2>1. InBound(from, g.from) /\ InBound(to, g.to)
    BY MatchedInRegion
  <2>2. Region(t) = [from |-> [low |-> g.from.gte, high |-> g.from.lt, closed |-> FALSE],
                     to   |-> [low |-> g.to.gte,   high |-> g.to.lt,   closed |-> FALSE]]
    BY MatchedInRegion
  <2>3. Region(s) = [from |-> Point(from), to |-> Point(to)]
    BY <1>1, <1>3
  <2> QED BY <2>1, <2>2, <2>3, HeldVersionOverlaps DEF RegionsOverlap
<1>4. CASE s.range # {} /\ t.range = {}
  <2> PICK g \in s.range : TRUE BY <1>4
  <2>1. InBound(from, g.from) /\ InBound(to, g.to)
    BY MatchedInRegion
  <2>2. Region(s) = [from |-> [low |-> g.from.gte, high |-> g.from.lt, closed |-> FALSE],
                     to   |-> [low |-> g.to.gte,   high |-> g.to.lt,   closed |-> FALSE]]
    BY MatchedInRegion
  <2>3. Region(t) = [from |-> Point(from), to |-> Point(to)]
    BY <1>1, <1>4
  <2> QED BY <2>1, <2>2, <2>3, HeldVersionOverlaps DEF RegionsOverlap
<1>5. CASE s.range # {} /\ t.range # {}
  <2> PICK g \in s.range : TRUE BY <1>5
  <2> PICK h \in t.range : TRUE BY <1>5
  <2>1. /\ InBound(from, g.from) /\ InBound(to, g.to)
        /\ Region(s) = [from |-> [low |-> g.from.gte, high |-> g.from.lt, closed |-> FALSE],
                        to   |-> [low |-> g.to.gte,   high |-> g.to.lt,   closed |-> FALSE]]
    BY MatchedInRegion
  <2>2. /\ InBound(from, h.from) /\ InBound(to, h.to)
        /\ Region(t) = [from |-> [low |-> h.from.gte, high |-> h.from.lt, closed |-> FALSE],
                        to   |-> [low |-> h.to.gte,   high |-> h.to.lt,   closed |-> FALSE]]
    BY MatchedInRegion
  <2> QED BY <2>1, <2>2, CommonVersionOverlaps DEF RegionsOverlap
<1> QED BY <1>2, <1>3, <1>4, <1>5
=============================================================================
