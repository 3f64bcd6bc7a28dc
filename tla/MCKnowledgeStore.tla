-------------------------- MODULE MCKnowledgeStore --------------------------
(* Small instances of KnowledgeStore: one publisher's chain of packages.    *)
EXTENDS KnowledgeStore, TLC

CONSTANTS b1, b2, b1x   \* bundles

Far == 100   \* an expiry beyond every instant

Root(v, uk) == [v |-> v, exp |-> Far, uk |-> uk, tk |-> "t", linked |-> TRUE]
Targets(v, exp, b) == [v |-> v, exp |-> exp, key |-> "t", bundle |-> b]
Snapshot(v, exp, uk, tg) == [v |-> v, exp |-> exp, key |-> uk, tg |-> tg]
Timestamp(v, exp, uk, sn) == [v |-> v, exp |-> exp, key |-> uk, sn |-> sn]

\* A complete package of version v whose timestamp expires at exp.
Package(roots, v, exp, uk, b) ==
  LET tg == Targets(v, Far, b)
      sn == Snapshot(v, Far, uk, tg)
  IN  [roots |-> roots, ts |-> Timestamp(v, exp, uk, sn), sn |-> sn,
       tg |-> tg, bundle |-> b]

R1 == Root(1, "k1")
R2 == Root(2, "k2")
P1 == Package({}, 1, 2, "k1", b1)      \* the bootstrap package
P2 == Package({}, 2, Far, "k1", b2)    \* the next revision
P3 == Package({}, 3, Far, "k1", b1x)   \* another bundle as revision 1
PR == Package({R2}, 2, Far, "k2", b2)  \* rotates the update keys
PX == Package({R2}, 2, 1, "k2", b2)    \* the same, soon to expire

MCAdmission ==
  [b \in {b1, b2, b1x} |->
     [rev |-> IF b = b2 THEN 2 ELSE 1, purpose |-> "operator"]]

Import(pkg, boot, rev, plan) ==
  [op |-> "import", pkg |-> pkg, boot |-> boot, expRev |-> rev,
   expBundle |-> None, plan |-> plan]
Read(op) == [op |-> op, pkg |-> None, boot |-> None, expRev |-> 0,
             expBundle |-> None, plan |-> None]

PlanOf(pkg, root) ==
  [roles |-> [init |-> R1, root |-> root, ts |-> pkg.ts, sn |-> pkg.sn,
              tg |-> pkg.tg],
   purpose |-> "operator"]

SafetyRequests ==
  {Import(P1, R1, 0, None), Import(P2, None, 0, None),
   Import(P3, None, 0, None), Read("open"), Read("inspect")}

\* A key rotation, asked for with and without a release plan.
RotationRequests ==
  {Import(P1, R1, 0, None), Import(PR, None, 2, None),
   Import(PR, None, 0, PlanOf(PR, R2)), Import(P2, None, 0, None),
   Read("open")}

\* Both packages expire within the horizon, and the second one is planned.
RecoveryRequests ==
  {Import(P1, R1, 0, None), Import(PX, None, 0, PlanOf(PX, R2))}

Symmetry == Permutations(Proc)
=============================================================================
