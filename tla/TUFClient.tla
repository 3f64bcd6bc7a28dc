----------------------------- MODULE TUFClient -----------------------------
(***************************************************************************)
(* A store's trust state through any sequence of packages at any times:    *)
(* each verification starts from the state the last one left, as phase 1   *)
(* of importWithProfile persists it (also when the refresh was refused).   *)
(***************************************************************************)
EXTENDS TUFRefresh

CONSTANTS Boot,      \* the operator's bootstrap root
          Packages,  \* packages that may be offered
          Instants   \* times at which they may be

ASSUME BootAssumption == Boot # None /\ Signed(Boot)
ASSUME FilesAssumption == \A pkg \in Packages : WellFormed(pkg)

VARIABLE state       \* the persisted trust state, or None

CInit == state = None

\* A lost result is not persisted; a refused refresh is.
Refresh(pkg, t) ==
  \E v \in {VerifyPackage(state, pkg, Boot, t)} :
    ~v.lost /\ state' = v.state

CNext == \E pkg \in Packages, t \in Instants : Refresh(pkg, t)

CSpec == CInit /\ [][CNext]_state

-----------------------------------------------------------------------------
(* Properties. Those about a verification hold of any package offered at    *)
(* any instant in any state the client can be in.                           *)

\* Every role in a persisted state is signed by the keys of the root in it,
\* also after rotations and refused refreshes.
Authorized ==
  state # None =>
    /\ state.ts # None => state.ts.key = state.root.uk
    /\ state.sn # None => state.sn.key = state.root.uk
    /\ state.tg # None => state.tg.key = state.root.tk

\* An accepted refresh leaves one consistent, unexpired chain from the
\* timestamp to the bundle in the package.
AcceptedConsistent ==
  \A pkg \in Packages, t \in Instants :
    \A v \in {VerifyPackage(state, pkg, Boot, t)} :
      LET s == v.state
      IN  ~v.lost /\ v.refresh = "none" =>
          /\ \A m \in {s.root, s.ts, s.sn, s.tg} : m # None /\ ~IsExpired(m, t)
          /\ s.sn.v = s.ts.sn.v
          /\ s.tg = s.sn.tg
          /\ pkg.bundle = s.tg.bundle

\* The trust state the client keeps: its roles are always those the root in it
\* authorizes, whatever was rotated or refused, and an accepted refresh makes
\* them one consistent chain that is unexpired at the instant of the refresh.
RolesAuthorized == Authorized /\ AcceptedConsistent

\* The package carries more successor roots than one refresh consumes.
Oversized(pkg) ==
  LET r0 == IF state = None THEN Boot ELSE state.root
  IN  /\ Hops(r0, pkg) = MaxRootRotations
      /\ \E x \in pkg.roots : x.v = r0.v + MaxRootRotations + 1

\* The same package again, at the same instant, changes nothing: an import
\* that is cut short and retried ends in the state it had begun to publish.
\* Only a root chain longer than the limit (8, while a package may hold 12
\* roots) is consumed in several rounds.
RefreshIdempotent ==
  \A pkg \in Packages, t \in Instants :
    \A v \in {VerifyPackage(state, pkg, Boot, t)} :
      ~v.lost /\ ~Oversized(pkg) =>
        \A again \in {VerifyPackage(v.state, pkg, Boot, t)} :
          ~again.lost /\ again.state = v.state

\* Without a change of the keys that sign it, a role never goes back to an
\* older version and never disappears, also when the package is refused.
RolesMonotone ==
  \A pkg \in Packages, t \in Instants :
    \A v \in {VerifyPackage(state, pkg, Boot, t)} :
      LET s == v.state
      IN  state # None /\ ~v.lost =>
          /\ s.root.v >= state.root.v
          /\ ~RotatesUpdateAuthority(state.root, pkg) =>
               /\ NoOlder(s.ts, state.ts)
               /\ NoOlder(s.sn, state.sn)
               /\ s.root.tk = state.root.tk => NoOlder(s.tg, state.tg)
=============================================================================
