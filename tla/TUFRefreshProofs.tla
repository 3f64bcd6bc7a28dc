-------------------------- MODULE TUFRefreshProofs --------------------------
(***************************************************************************)
(* What one verification makes of any trust state and any package: which   *)
(* roles it leaves, that they are authorized and not older, and that the   *)
(* same package a second time, then or later, changes nothing.             *)
(***************************************************************************)
EXTENDS TUFRefresh, TLAPS, WellFoundedInduction

-----------------------------------------------------------------------------
(* The root chain *)

\* The loop of loadRoot ends: there is a longest chain of accepted successors.
LEMMA LongestChain ==
  ASSUME NEW r, NEW pkg
  PROVE  \E n \in Reach(r, pkg) : \A m \in Reach(r, pkg) : m <= n
<1> DEFINE R == Reach(r, pkg)
           M == MaxRootRotations
           Left == {M - n : n \in R}
<1>1. R \subseteq 0..M /\ M \in Nat
  BY RotationsAssumption DEF Reach
<1>2. 0 \in R
  BY RotationsAssumption DEF Reach
<1> HIDE DEF R, M
<1>3. Left \subseteq Nat /\ Left # {}
  BY <1>1, <1>2
<1>4. PICK x \in Left : \A y \in Left : <<y, x>> \notin OpToRel(<, Nat)
  BY <1>3, NatLessThanWellFounded, WFMin, Zenon
<1>5. \A y \in Left : ~(y < x)
  BY <1>3, <1>4, Zenon DEF OpToRel
<1>6. PICK n \in R : x = M - n
  BY <1>4, Zenon
<1>7. ASSUME NEW m \in R PROVE m <= n
  <2>1. M - m \in Left
    OBVIOUS
  <2>2. ~(M - m < M - n)
    BY <2>1, <1>5, <1>6
  <2>3. m \in Int /\ n \in Int
    BY <1>1
  <2> QED
    BY <1>1, <2>2, <2>3
<1> QED
  BY <1>7 DEF R

\* Hops is its length.
LEMMA HopsReached ==
  ASSUME NEW r, NEW pkg
  PROVE  Hops(r, pkg) \in Reach(r, pkg)
  BY LongestChain DEF Hops

\* The root at the end of the chain has the version that the chain says.
LEMMA RootVersion ==
  ASSUME NEW r, r.v \in Int, NEW pkg
  PROVE  LoadRoot(r, pkg).v = r.v + Hops(r, pkg)
<1> DEFINE n == Hops(r, pkg)
<1>1. n \in 0..MaxRootRotations /\ \A k \in 1..n : Accepts(pkg, r.v + k)
  BY HopsReached DEF Reach
<1>2. LoadRoot(r, pkg) = RootAt(r, pkg, n)
  BY DEF LoadRoot
<1> SUFFICES LoadRoot(r, pkg).v = r.v + n
  OBVIOUS
<1> HIDE DEF n
<1>3. CASE n = 0
  BY <1>2, <1>3 DEF RootAt
<1>4. CASE n # 0
  <2>1. n \in 1..n
    BY <1>1, <1>4, RotationsAssumption
  <2>2. \E x \in pkg.roots : x.v = r.v + n /\ x.linked
    BY <1>1, <2>1 DEF Accepts
  <2> QED
    BY <1>2, <1>4, <2>2 DEF RootAt
<1> QED
  BY <1>3, <1>4

\* The root a refresh ends with is the one it started from or a successor
\* from the package, and is no older.
LEMMA RootStep ==
  ASSUME NEW r, r # None, Signed(r), NEW pkg, WellFormed(pkg)
  PROVE  LET root == LoadRoot(r, pkg) IN
         /\ root \in {r} \cup pkg.roots
         /\ root # None /\ Signed(root) /\ root.v >= r.v
         /\ ~RotatesUpdateAuthority(r, pkg) => root.uk = r.uk
<1> DEFINE n == Hops(r, pkg)
<1>1. n \in 0..MaxRootRotations /\ \A k \in 1..n : Accepts(pkg, r.v + k)
  BY HopsReached DEF Reach
<1>2. LoadRoot(r, pkg) = RootAt(r, pkg, n)
  BY DEF LoadRoot
<1>3. RotatesUpdateAuthority(r, pkg) <=> \E k \in 1..n : RootAt(r, pkg, k).uk # r.uk
  BY DEF RotatesUpdateAuthority
<1> HIDE DEF n
<1>4. CASE n = 0
  BY <1>2, <1>4 DEF RootAt, Signed
<1>5. CASE n # 0
  <2>1. n \in 1..n /\ n \in Nat
    BY <1>1, <1>5, RotationsAssumption
  <2>2. \E x \in pkg.roots : x.v = r.v + n /\ x.linked
    BY <1>1, <2>1 DEF Accepts
  <2>3. RootAt(r, pkg, n) \in pkg.roots /\ RootAt(r, pkg, n).v = r.v + n
    BY <2>2, <1>5, Zenon DEF RootAt
  <2> QED
    BY <1>2, <1>3, <2>1, <2>3 DEF WellFormed, Signed
<1> QED
  BY <1>4, <1>5
-----------------------------------------------------------------------------
(* One role at a time *)

\* loadTimestamp: what is held and kept is signed by the root's keys, and is
\* the stored timestamp or one that does not roll it back.
LEMMA TimestampStep ==
  ASSUME NEW root, NEW cached, NEW pkg, NEW t
  PROVE  LET f == LoadTimestamp(root, cached, pkg, t) IN
         /\ f.err = "none" =>
              /\ f.trusted # None /\ ~IsExpired(root, t)
         /\ f.trusted # None /\ f.trusted = f.cached =>
              /\ f.trusted.key = root.uk
              /\ \/ f.trusted = cached
                 \/ /\ f.trusted = pkg.ts
                    /\ cached # None /\ cached.key = root.uk =>
                         ~RollsBack(f.trusted, cached)
  BY Zenon DEF LoadTimestamp, Loaded

\* loadSnapshot: likewise, and a snapshot is new only if the timestamp in
\* memory refers to it and is not expired.
LEMMA SnapshotStep ==
  ASSUME NEW root, NEW ts, NEW cached, NEW pkg, NEW t
  PROVE  LET f == LoadSnapshot(root, ts, cached, pkg, t) IN
         /\ f.err = "none" =>
              /\ f.trusted # None /\ ~IsExpired(ts, t)
              /\ ~IsExpired(f.trusted, t) /\ f.trusted.v = ts.sn.v
         /\ f.trusted # None /\ f.trusted = f.cached =>
              /\ f.trusted.key = root.uk
              /\ \/ f.trusted = cached
                 \/ /\ f.trusted = pkg.sn /\ f.trusted.v = ts.sn.v
                    /\ cached # None /\ cached.key = root.uk =>
                         ~SnapshotRollsBack(f.trusted, cached)
  BY Zenon DEF LoadSnapshot, Loaded

\* loadTargets: targets in memory are the ones the snapshot refers to, signed
\* by the root's targets keys and not expired.
LEMMA TargetsStep ==
  ASSUME NEW root, NEW sn, NEW cached, NEW pkg, NEW t
  PROVE  LET f == LoadTargets(root, sn, cached, pkg, t) IN
         /\ f.err = "none" => f.trusted # None
         /\ f.trusted # None =>
              /\ f.trusted = sn.tg /\ f.trusted.key = root.tk
              /\ ~IsExpired(f.trusted, t)
              /\ f.trusted = cached \/ f.trusted = pkg.tg
  BY DEF LoadTargets, Loaded, ValidTargets

\* onlineRefresh, role by role.
LEMMA RefreshParts ==
  ASSUME NEW c, NEW pkg, NEW r0, NEW root, NEW t
  PROVE  LET f == OnlineRefresh(c, pkg, r0, root, t) IN
         /\ f.ts = IF RootRefused(r0, pkg) THEN Loaded(None, c.ts, "integrity")
                   ELSE LoadTimestamp(root, c.ts, pkg, t)
         /\ f.sn = IF f.ts.err # "none" THEN Skipped(f.ts, c.sn)
                   ELSE LoadSnapshot(root, f.ts.trusted, c.sn, pkg, t)
         /\ f.tg = IF f.sn.err # "none" THEN Skipped(f.sn, c.tg)
                   ELSE LoadTargets(root, f.sn.trusted, c.tg, pkg, t)
  BY Zenon DEF OnlineRefresh, AfterTimestamp, AfterSnapshot

\* onlineRefresh: each role is loaded as above after the roles above it were,
\* and is not looked at otherwise.
LEMMA RefreshStep ==
  ASSUME NEW c, NEW pkg, NEW r0, NEW root, NEW t
  PROVE  LET f == OnlineRefresh(c, pkg, r0, root, t) IN
         /\ \/ f.ts = LoadTimestamp(root, c.ts, pkg, t)
            \/ f.ts.err # "none" /\ f.ts.trusted = None
         /\ \/ f.ts.err = "none" /\ f.sn = LoadSnapshot(root, f.ts.trusted, c.sn, pkg, t)
            \/ f.sn.err # "none" /\ f.sn.trusted = None
         /\ \/ f.sn.err = "none" /\ f.tg = LoadTargets(root, f.sn.trusted, c.tg, pkg, t)
            \/ f.tg.err # "none" /\ f.tg.trusted = None
  BY Zenon DEF OnlineRefresh, AfterTimestamp, AfterSnapshot, Skipped, Loaded

\* VerifyPackage with its intermediate values named.
LEMMA VerifyNamed ==
  ASSUME NEW prior, NEW pkg, NEW boot, NEW t
  PROVE  LET r0 == IF prior = None THEN boot ELSE prior.root
             root == LoadRoot(r0, pkg)
             c == Cache(prior, RotatesUpdateAuthority(r0, pkg))
             f == OnlineRefresh(c, pkg, r0, root, t)
         IN  VerifyPackage(prior, pkg, boot, t)
               = Verified(pkg, f, Material(prior, boot, r0, root, c, f))
<1> DEFINE r0 == IF prior = None THEN boot ELSE prior.root
           root == LoadRoot(r0, pkg)
           c == Cache(prior, RotatesUpdateAuthority(r0, pkg))
           f == OnlineRefresh(c, pkg, r0, root, t)
           made(g) == Verified(pkg, g, Material(prior, boot, r0, root, c, g))
           one(a, b) == VerifyFrom(prior, pkg, boot, t, r0, a, b)
           ones == {one(a, b) : a \in {root}, b \in {c}}
<1>1. \A e : Only({e}) = e
  BY DEF Only
<1>2. one(root, c) = Only({made(g) : g \in {f}})
  BY DEF VerifyFrom
<1>3. VerifyPackage(prior, pkg, boot, t) = Only(ones)
  BY DEF VerifyPackage
<1>4. one(root, c) = made(f)
  <2> HIDE DEF one, made, f
  <2>1. {made(g) : g \in {f}} = {made(f)}
    OBVIOUS
  <2> QED
    BY <1>1, <1>2, <2>1
<1>5. ones = {one(root, c)}
  <2> HIDE DEF one, root, c
  <2> QED
    OBVIOUS
<1> HIDE DEF ones
<1>6. VerifyPackage(prior, pkg, boot, t) = one(root, c)
  BY <1>1, <1>3, <1>5
<1> QED
  BY <1>4, <1>6

-----------------------------------------------------------------------------
(* The inductive invariant: beyond the signatures, no role is newer than the *)
(* role above it says. Without that, a snapshot taken over from a newer      *)
(* timestamp could be older than the stored one.                             *)

TimestampSound(ts, root) ==
  ts # None => ts.key = root.uk /\ Signed(ts) /\ ts.sn.v \in Int

SnapshotSound(sn, ts, root) ==
  sn # None => /\ sn.key = root.uk /\ Signed(sn) /\ sn.tg.v \in Int
               /\ ts # None /\ sn.v <= ts.sn.v

TargetsSound(tg, sn, root) ==
  tg # None => /\ tg.key = root.tk /\ Signed(tg)
               /\ sn # None /\ tg.v <= sn.tg.v

AsState(s) ==
  [init |-> s.init, root |-> s.root, ts |-> s.ts, sn |-> s.sn, tg |-> s.tg,
   floor |-> s.floor]

SoundState(s) ==
  /\ s = AsState(s)
  /\ s.root # None /\ Signed(s.root)
  /\ TimestampSound(s.ts, s.root)
  /\ SnapshotSound(s.sn, s.ts, s.root)
  /\ TargetsSound(s.tg, s.sn, s.root)

\* What a verification starts from: a sound state, or a bootstrap root.
Rooted(prior, boot) ==
  IF prior = None THEN boot # None /\ Signed(boot) ELSE SoundState(prior)

\* What one verification does to the roles of a sound state.
NothingBack(prior, pkg, s) ==
  /\ s.root.v >= prior.root.v
  /\ ~RotatesUpdateAuthority(prior.root, pkg) =>
       /\ NoOlder(s.ts, prior.ts)
       /\ NoOlder(s.sn, prior.sn)
       /\ s.root.tk = prior.root.tk => NoOlder(s.tg, prior.tg)

\* The stored roles a refresh starts from are sound for the new root: stored
\* timestamps and snapshots are dropped when the keys that sign them change.
LEMMA CacheSound ==
  ASSUME NEW prior, NEW r0, NEW pkg, WellFormed(pkg),
         prior # None => SoundState(prior) /\ r0 = prior.root,
         r0 # None, Signed(r0)
  PROVE  LET root == LoadRoot(r0, pkg)
             c == Cache(prior, RotatesUpdateAuthority(r0, pkg))
         IN  /\ TimestampSound(c.ts, root)
             /\ SnapshotSound(c.sn, c.ts, root)
             /\ c.keep => root.uk = r0.uk
             /\ c.ts # None \/ c.sn # None => c.keep
             /\ c.tg # None => Signed(c.tg)
             /\ c.keep /\ c.tg # None => c.tg.key = r0.tk /\ c.sn # None /\ c.tg.v <= c.sn.tg.v
<1> DEFINE root == LoadRoot(r0, pkg)
           rotates == RotatesUpdateAuthority(r0, pkg)
<1>1. ~rotates => root.uk = r0.uk
  BY RootStep
<1> HIDE DEF root, rotates
<1>2. Cache(prior, rotates).keep <=> prior # None /\ ~rotates
  BY Zenon DEF Cache
<1>3. CASE Cache(prior, rotates).keep
  BY <1>1, <1>2, <1>3, Zenon DEF Cache, SoundState, TimestampSound, SnapshotSound, TargetsSound, root, rotates
<1>4. CASE ~Cache(prior, rotates).keep
  BY <1>2, <1>4, Zenon DEF Cache, SoundState, TimestampSound, SnapshotSound, TargetsSound, root, rotates
<1> QED
  BY <1>3, <1>4, Zenon

\* A verification, opened: the root r0 it starts from and the one it ends with,
\* the stored roles c it starts from, the refresh f, and the roles of the state
\* that it makes of them.
Opened(prior, boot, pkg, t, r0, root, c, f) ==
  LET v == VerifyPackage(prior, pkg, boot, t)
      s == v.state
  IN
  /\ r0 = (IF prior = None THEN boot ELSE prior.root)
  /\ r0 # None /\ Signed(r0)
  /\ root = LoadRoot(r0, pkg)
  /\ root \in {r0} \cup pkg.roots
  /\ root # None /\ Signed(root) /\ root.v >= r0.v
  /\ c = Cache(prior, RotatesUpdateAuthority(r0, pkg))
  /\ TimestampSound(c.ts, root)
  /\ SnapshotSound(c.sn, c.ts, root)
  /\ c.keep => root.uk = r0.uk
  /\ c.ts # None \/ c.sn # None => c.keep
  /\ c.tg # None => Signed(c.tg)
  /\ c.keep /\ c.tg # None => c.tg.key = r0.tk /\ c.sn # None /\ c.tg.v <= c.sn.tg.v
  /\ f = OnlineRefresh(c, pkg, r0, root, t)
  /\ ~v.lost <=> \A m \in {f.ts, f.sn, f.tg} : m.trusted # None => m.trusted = m.cached
  /\ v.refresh = "none" <=> f.tg.err = "none" /\ pkg.bundle = f.tg.trusted.bundle
  /\ s.root = root
  /\ s.init = (IF prior = None THEN boot ELSE prior.init)
  /\ s.floor = (IF prior = None THEN None ELSE prior.floor)
  /\ s.ts = IF f.ts.trusted # None THEN f.ts.trusted ELSE c.ts
  /\ s.sn = IF f.sn.trusted # None THEN f.sn.trusted
            ELSE IF s.ts # None THEN c.sn ELSE None
  /\ s.tg = IF f.tg.trusted # None THEN f.tg.trusted
            ELSE IF s.sn # None /\ c.keep /\ r0.tk = root.tk THEN c.tg ELSE None
  /\ s = AsState(s)

\* Every verification of a sound state opens so.
LEMMA VerifyOpened ==
  ASSUME NEW prior, NEW boot, Rooted(prior, boot),
         NEW pkg, WellFormed(pkg), NEW t
  PROVE  \E r0, root, c, f : Opened(prior, boot, pkg, t, r0, root, c, f)
<1> DEFINE r0 == IF prior = None THEN boot ELSE prior.root
           root == LoadRoot(r0, pkg)
           c == Cache(prior, RotatesUpdateAuthority(r0, pkg))
           f == OnlineRefresh(c, pkg, r0, root, t)
           s == Material(prior, boot, r0, root, c, f)
           v == VerifyPackage(prior, pkg, boot, t)
<1>1. v = Verified(pkg, f, s)
  BY VerifyNamed, Zenon
<1>2. /\ r0 # None /\ Signed(r0)
      /\ prior # None => SoundState(prior) /\ r0 = prior.root
  BY Zenon DEF Rooted, SoundState
<1>3. /\ root \in {r0} \cup pkg.roots
      /\ root # None /\ Signed(root) /\ root.v >= r0.v
  BY <1>2, RootStep
<1>4. /\ TimestampSound(c.ts, root)
      /\ SnapshotSound(c.sn, c.ts, root)
      /\ c.keep => root.uk = r0.uk
      /\ c.ts # None \/ c.sn # None => c.keep
      /\ c.tg # None => Signed(c.tg)
      /\ c.keep /\ c.tg # None => c.tg.key = r0.tk /\ c.sn # None /\ c.tg.v <= c.sn.tg.v
  <2> HIDE DEF r0
  <2> QED
    BY <1>2, CacheSound, Zenon
<1>5. /\ ~v.lost <=> \A m \in {f.ts, f.sn, f.tg} : m.trusted # None => m.trusted = m.cached
      /\ v.refresh = "none" <=> f.tg.err = "none" /\ pkg.bundle = f.tg.trusted.bundle
      /\ v.state = s
  <2> HIDE DEF f, s, v
  <2> QED
    BY <1>1 DEF Verified
<1>6. /\ s.root = root
      /\ s.init = (IF prior = None THEN boot ELSE prior.init)
      /\ s.floor = (IF prior = None THEN None ELSE prior.floor)
      /\ s.ts = IF f.ts.trusted # None THEN f.ts.trusted
                ELSE IF c.keep /\ r0.uk = root.uk THEN c.ts ELSE None
      /\ s.sn = IF f.sn.trusted # None THEN f.sn.trusted
                ELSE IF s.ts # None /\ c.keep /\ r0.uk = root.uk THEN c.sn ELSE None
      /\ s.tg = IF f.tg.trusted # None THEN f.tg.trusted
                ELSE IF s.sn # None /\ c.keep /\ r0.tk = root.tk THEN c.tg ELSE None
      /\ s = AsState(s)
  <2> HIDE DEF r0, root, c, f, v
  <2> QED
    BY <1>3, Zenon DEF Material, Retained, AsState
<1>7. /\ s.ts = IF f.ts.trusted # None THEN f.ts.trusted ELSE c.ts
      /\ s.sn = IF f.sn.trusted # None THEN f.sn.trusted
                ELSE IF s.ts # None THEN c.sn ELSE None
  <2> HIDE DEF r0, root, c, f, v, s
  <2> QED
    BY <1>4, <1>6, Zenon
<1>8. /\ r0 = (IF prior = None THEN boot ELSE prior.root)
      /\ root = LoadRoot(r0, pkg)
      /\ c = Cache(prior, RotatesUpdateAuthority(r0, pkg))
      /\ f = OnlineRefresh(c, pkg, r0, root, t)
      /\ v = VerifyPackage(prior, pkg, boot, t)
  BY Zenon
<1> HIDE DEF r0, root, c, f, v, s
<1>9. Opened(prior, boot, pkg, t, r0, root, c, f)
  BY <1>2, <1>3, <1>4, <1>5, <1>6, <1>7, <1>8, Zenon DEF Opened
<1> QED
  BY <1>9, Zenon

\* One verification of a sound state, when its result is not lost.
LEMMA VerifySound ==
  ASSUME NEW prior, NEW boot, Rooted(prior, boot),
         NEW pkg, WellFormed(pkg), NEW t,
         ~VerifyPackage(prior, pkg, boot, t).lost
  PROVE  LET s == VerifyPackage(prior, pkg, boot, t).state IN
         /\ SoundState(s)
         /\ prior # None => NothingBack(prior, pkg, s)
<1>1. PICK r0, root, c, f : Opened(prior, boot, pkg, t, r0, root, c, f)
  BY VerifyOpened, Zenon
<1> DEFINE s == VerifyPackage(prior, pkg, boot, t).state
           sameTk == c.keep /\ r0.tk = root.tk
<1>2. /\ r0 = (IF prior = None THEN boot ELSE prior.root)
      /\ c = Cache(prior, RotatesUpdateAuthority(r0, pkg))
      /\ f = OnlineRefresh(c, pkg, r0, root, t)
  BY <1>1, Zenon DEF Opened
<1>3. root # None /\ Signed(root) /\ root.v >= r0.v
  BY <1>1, Zenon DEF Opened
<1>4. /\ TimestampSound(c.ts, root)
      /\ SnapshotSound(c.sn, c.ts, root)
      /\ c.keep => root.uk = r0.uk
      /\ c.tg # None => Signed(c.tg)
      /\ c.keep /\ c.tg # None => c.tg.key = r0.tk /\ c.sn # None /\ c.tg.v <= c.sn.tg.v
  BY <1>1, Zenon DEF Opened
<1>5. /\ \/ f.ts = LoadTimestamp(root, c.ts, pkg, t)
         \/ f.ts.err # "none" /\ f.ts.trusted = None
      /\ \/ f.ts.err = "none" /\ f.sn = LoadSnapshot(root, f.ts.trusted, c.sn, pkg, t)
         \/ f.sn.err # "none" /\ f.sn.trusted = None
      /\ \/ f.sn.err = "none" /\ f.tg = LoadTargets(root, f.sn.trusted, c.tg, pkg, t)
         \/ f.tg.err # "none" /\ f.tg.trusted = None
  BY <1>2, RefreshStep
<1>6. \A m \in {f.ts, f.sn, f.tg} : m.trusted # None => m.trusted = m.cached
  BY <1>1, Zenon DEF Opened
<1>7. /\ s = AsState(s) /\ s.root = root
      /\ s.ts = IF f.ts.trusted # None THEN f.ts.trusted ELSE c.ts
      /\ s.sn = IF f.sn.trusted # None THEN f.sn.trusted
                ELSE IF s.ts # None THEN c.sn ELSE None
      /\ s.tg = IF f.tg.trusted # None THEN f.tg.trusted
                ELSE IF s.sn # None /\ sameTk THEN c.tg ELSE None
  BY <1>1, Zenon DEF Opened
<1> HIDE DEF s
<1>8. /\ TimestampSound(s.ts, root)
      /\ c.ts # None => /\ s.ts # None /\ s.ts.v >= c.ts.v
                        /\ s.ts.sn.v >= c.ts.sn.v
  <2>1. CASE f.ts.trusted # None
    <3>1. f.ts = LoadTimestamp(root, c.ts, pkg, t) /\ f.ts.trusted = f.ts.cached
      BY <1>5, <1>6, <2>1
    <3>2. /\ f.ts.trusted.key = root.uk
          /\ \/ f.ts.trusted = c.ts
             \/ /\ f.ts.trusted = pkg.ts
                /\ c.ts # None /\ c.ts.key = root.uk => ~RollsBack(f.ts.trusted, c.ts)
      BY <2>1, <3>1, TimestampStep
    <3>3. s.ts = f.ts.trusted
      BY <1>7, <2>1
    <3> QED
      BY <1>4, <2>1, <3>2, <3>3 DEF WellFormed, Signed, TimestampSound, RollsBack
  <2>2. CASE f.ts.trusted = None
    BY <1>4, <1>7, <2>2 DEF TimestampSound, Signed
  <2> QED
    BY <2>1, <2>2, Zenon
<1>9. /\ SnapshotSound(s.sn, s.ts, root)
      /\ c.sn # None => /\ s.sn # None /\ s.sn.v >= c.sn.v
                        /\ s.sn.tg.v >= c.sn.tg.v
  <2>1. CASE f.sn.trusted # None
    <3>1. /\ f.sn = LoadSnapshot(root, f.ts.trusted, c.sn, pkg, t)
          /\ f.ts.err = "none" /\ f.sn.trusted = f.sn.cached
      BY <1>5, <1>6, <2>1
    <3>2. f.ts.trusted # None
      BY <1>5, <3>1, TimestampStep
    <3>3. /\ f.sn.trusted.key = root.uk
          /\ \/ f.sn.trusted = c.sn
             \/ /\ f.sn.trusted = pkg.sn /\ f.sn.trusted.v = f.ts.trusted.sn.v
                /\ c.sn # None /\ c.sn.key = root.uk => ~SnapshotRollsBack(f.sn.trusted, c.sn)
      BY <2>1, <3>1, SnapshotStep
    <3>4. s.sn = f.sn.trusted /\ s.ts = f.ts.trusted
      BY <1>7, <2>1, <3>2
    <3>5. CASE s.sn = c.sn
      BY <1>4, <1>8, <2>1, <3>2, <3>4, <3>5 DEF SnapshotSound, TimestampSound, Signed
    <3>6. CASE s.sn # c.sn
      <4>1. /\ s.sn = pkg.sn /\ s.sn.v = s.ts.sn.v /\ s.sn.key = root.uk
            /\ c.sn # None /\ c.sn.key = root.uk => ~SnapshotRollsBack(s.sn, c.sn)
        BY <3>3, <3>4, <3>6
      <4>2. s.sn # None /\ s.ts # None /\ Signed(s.sn) /\ s.sn.tg.v \in Int
        BY <2>1, <3>2, <3>4, <4>1 DEF WellFormed
      <4> QED
        BY <1>4, <1>8, <4>1, <4>2 DEF SnapshotSound, TimestampSound, Signed, SnapshotRollsBack
    <3> QED
      BY <3>5, <3>6
  <2>2. CASE f.sn.trusted = None
    <3>1. s.sn = IF s.ts # None THEN c.sn ELSE None
      BY <1>7, <2>2
    <3>2. CASE c.sn # None
      <4>1. s.sn = c.sn /\ s.ts # None
        BY <1>4, <1>8, <3>1, <3>2 DEF SnapshotSound
      <4> QED
        BY <1>4, <1>8, <3>2, <4>1 DEF SnapshotSound, TimestampSound, Signed
    <3>3. CASE c.sn = None
      BY <3>1, <3>3 DEF SnapshotSound
    <3> QED
      BY <3>2, <3>3
  <2> QED
    BY <2>1, <2>2
<1>10. /\ TargetsSound(s.tg, s.sn, root)
       /\ c.tg # None /\ sameTk => s.tg # None /\ s.tg.v >= c.tg.v
  <2>1. CASE f.tg.trusted # None
    <3>1. /\ f.tg = LoadTargets(root, f.sn.trusted, c.tg, pkg, t)
          /\ f.sn.err = "none"
      BY <1>5, <2>1
    <3>2. f.sn.trusted # None
      BY <1>5, <3>1, SnapshotStep
    <3>3. /\ f.tg.trusted = f.sn.trusted.tg /\ f.tg.trusted.key = root.tk
      BY <2>1, <3>1, TargetsStep
    <3>4. s.tg = f.tg.trusted /\ s.sn = f.sn.trusted
      BY <1>7, <2>1, <3>2
    <3>5. s.tg # None /\ s.sn # None /\ s.tg = s.sn.tg /\ s.tg.key = root.tk
      BY <2>1, <3>2, <3>3, <3>4
    <3>6. Signed(s.tg) /\ s.tg.v <= s.sn.tg.v
      <4>1. s.tg = c.tg \/ s.tg = pkg.tg
        BY <2>1, <3>1, <3>4, TargetsStep
      <4>2. Signed(s.tg)
        BY <1>4, <3>5, <4>1, Zenon DEF WellFormed
      <4> QED
        BY <3>5, <4>2 DEF Signed
    <3> QED
      BY <1>4, <1>9, <3>5, <3>6 DEF TargetsSound, SnapshotSound, Signed
  <2>2. CASE f.tg.trusted = None
    <3>1. s.tg = IF s.sn # None /\ sameTk THEN c.tg ELSE None
      BY <1>7, <2>2
    <3>2. CASE c.tg # None /\ sameTk
      <4>1. s.tg = c.tg /\ s.sn # None /\ c.sn # None
        BY <1>4, <1>9, <3>1, <3>2
      <4> QED
        BY <1>4, <1>9, <3>2, <4>1 DEF TargetsSound, SnapshotSound, Signed
    <3>3. CASE ~(c.tg # None /\ sameTk)
      BY <3>1, <3>3 DEF TargetsSound
    <3> QED
      BY <3>2, <3>3
  <2> QED
    BY <2>1, <2>2
<1>11. SoundState(s)
  BY <1>3, <1>7, <1>8, <1>9, <1>10, Zenon DEF SoundState
<1>12. ASSUME prior # None
       PROVE  NothingBack(prior, pkg, s)
  <2>1. r0 = prior.root /\ s.root.v >= prior.root.v
    BY <1>2, <1>3, <1>7, <1>12, Zenon
  <2>2. ASSUME ~RotatesUpdateAuthority(prior.root, pkg)
        PROVE  c.keep /\ c.ts = prior.ts /\ c.sn = prior.sn /\ c.tg = prior.tg
    BY <1>2, <1>12, <2>1, <2>2, Zenon DEF Cache
  <2>3. ~RotatesUpdateAuthority(prior.root, pkg) =>
          NoOlder(s.ts, prior.ts) /\ NoOlder(s.sn, prior.sn)
    BY <1>8, <1>9, <2>2 DEF NoOlder
  <2>4. ~RotatesUpdateAuthority(prior.root, pkg) /\ s.root.tk = prior.root.tk =>
          NoOlder(s.tg, prior.tg)
    BY <1>7, <1>10, <2>1, <2>2 DEF NoOlder
  <2> QED
    BY <2>1, <2>3, <2>4 DEF NothingBack
<1> QED
  BY <1>11, <1>12 DEF s

\* A chain of four roles, all there and unexpired, each the one that the role
\* above it refers to.
Whole(s, t) ==
  /\ \A m \in {s.root, s.ts, s.sn, s.tg} : m # None /\ ~IsExpired(m, t)
  /\ s.sn.v = s.ts.sn.v
  /\ s.tg = s.sn.tg

\* One accepted verification leaves such a chain, down to the package's bundle.
LEMMA AcceptedSound ==
  ASSUME NEW prior, NEW boot, Rooted(prior, boot),
         NEW pkg, WellFormed(pkg), NEW t,
         VerifyPackage(prior, pkg, boot, t).refresh = "none"
  PROVE  LET s == VerifyPackage(prior, pkg, boot, t).state IN
         Whole(s, t) /\ pkg.bundle = s.tg.bundle
<1>1. PICK r0, root, c, f : Opened(prior, boot, pkg, t, r0, root, c, f)
  BY VerifyOpened, Zenon
<1> DEFINE s == VerifyPackage(prior, pkg, boot, t).state
<1>2. f = OnlineRefresh(c, pkg, r0, root, t)
  BY <1>1, Zenon DEF Opened
<1>3. root # None /\ f.tg.err = "none" /\ pkg.bundle = f.tg.trusted.bundle
  BY <1>1, Zenon DEF Opened
<1>4. /\ s.root = root
      /\ f.ts.trusted # None => s.ts = f.ts.trusted
      /\ f.sn.trusted # None => s.sn = f.sn.trusted
      /\ f.tg.trusted # None => s.tg = f.tg.trusted
  BY <1>1, Zenon DEF Opened
<1> HIDE DEF s
<1>5. f.sn.err = "none" /\ f.tg = LoadTargets(root, f.sn.trusted, c.tg, pkg, t)
  BY <1>2, <1>3, RefreshStep, ZenonT(60)
<1>6. f.ts.err = "none" /\ f.sn = LoadSnapshot(root, f.ts.trusted, c.sn, pkg, t)
  BY <1>2, <1>5, RefreshStep
<1>7. f.ts = LoadTimestamp(root, c.ts, pkg, t)
  BY <1>2, <1>6, RefreshStep
<1>8. f.ts.trusted # None /\ ~IsExpired(root, t)
  BY <1>6, <1>7, TimestampStep
<1>9. /\ f.sn.trusted # None /\ ~IsExpired(f.ts.trusted, t)
      /\ ~IsExpired(f.sn.trusted, t) /\ f.sn.trusted.v = f.ts.trusted.sn.v
  BY <1>5, <1>6, SnapshotStep
<1>10. /\ f.tg.trusted # None /\ ~IsExpired(f.tg.trusted, t)
       /\ f.tg.trusted = f.sn.trusted.tg
  BY <1>3, <1>5, TargetsStep
<1> QED
  BY <1>3, <1>4, <1>8, <1>9, <1>10, Zenon DEF s, Whole

\* Every role of a state is stored or in the package, and the initial root is
\* the first one given.
TakenFrom(s, prior, boot, pkg) ==
  LET has(x) == IF prior = None THEN None ELSE prior[x]
  IN  /\ s.init = (IF prior = None THEN boot ELSE prior.init)
      /\ s.root \in {IF prior = None THEN boot ELSE prior.root} \cup pkg.roots
      /\ s.ts \in {None, has("ts"), pkg.ts}
      /\ s.sn \in {None, has("sn"), pkg.sn}
      /\ s.tg \in {None, has("tg"), pkg.tg}

\* Where the roles of a verified state come from.
LEMMA VerifySources ==
  ASSUME NEW prior, NEW boot, Rooted(prior, boot),
         NEW pkg, WellFormed(pkg), NEW t,
         ~VerifyPackage(prior, pkg, boot, t).lost
  PROVE  TakenFrom(VerifyPackage(prior, pkg, boot, t).state, prior, boot, pkg)
<1>1. PICK r0, root, c, f : Opened(prior, boot, pkg, t, r0, root, c, f)
  BY VerifyOpened, Zenon
<1> DEFINE s == VerifyPackage(prior, pkg, boot, t).state
           has(x) == IF prior = None THEN None ELSE prior[x]
<1>2. /\ c = Cache(prior, RotatesUpdateAuthority(r0, pkg))
      /\ f = OnlineRefresh(c, pkg, r0, root, t)
      /\ \A m \in {f.ts, f.sn, f.tg} : m.trusted # None => m.trusted = m.cached
  BY <1>1, Zenon DEF Opened
<1>3. /\ s.init = (IF prior = None THEN boot ELSE prior.init)
      /\ s.root \in {IF prior = None THEN boot ELSE prior.root} \cup pkg.roots
      /\ f.ts.trusted = None => s.ts \in {None, c.ts}
      /\ f.ts.trusted # None => s.ts = f.ts.trusted
      /\ f.sn.trusted = None => s.sn \in {None, c.sn}
      /\ f.sn.trusted # None => s.sn = f.sn.trusted
      /\ f.tg.trusted = None => s.tg \in {None, c.tg}
      /\ f.tg.trusted # None => s.tg = f.tg.trusted
  BY <1>1, Zenon DEF Opened
<1> HIDE DEF s
<1>4. /\ c.ts \in {None, has("ts")}
      /\ c.sn \in {None, has("sn")}
      /\ c.tg \in {None, has("tg")}
  BY <1>2, Zenon DEF Cache
<1> HIDE DEF has
<1>5. f.ts.trusted # None => f.ts.trusted \in {c.ts, pkg.ts}
  BY <1>2, RefreshStep, TimestampStep
<1>6. f.sn.trusted # None => f.sn.trusted \in {c.sn, pkg.sn}
  BY <1>2, RefreshStep, SnapshotStep
<1>7. f.tg.trusted # None => f.tg.trusted \in {c.tg, pkg.tg}
  BY <1>2, RefreshStep, TargetsStep
<1>8. /\ s.ts \in {None, has("ts"), pkg.ts}
      /\ s.sn \in {None, has("sn"), pkg.sn}
      /\ s.tg \in {None, has("tg"), pkg.tg}
  BY <1>3, <1>4, <1>5, <1>6, <1>7, Zenon
<1> QED
  BY <1>3, <1>8, Zenon DEF s, has, TakenFrom

\* A later state of a: its root is newer, or it is the same root and every
\* other role is a's or the package's.
Later(s, a, pkg) ==
  /\ s.init = a.init
  /\ \/ s.root.v > a.root.v
     \/ /\ s.root = a.root
        /\ s.ts \in {a.ts, pkg.ts} /\ s.sn \in {a.sn, pkg.sn} /\ s.tg \in {a.tg, pkg.tg}

\* A verification goes on from the stored state: without a new root no role is
\* dropped.
LEMMA VerifyProgress ==
  ASSUME NEW prior, NEW boot, prior # None, SoundState(prior),
         NEW pkg, WellFormed(pkg), NEW t,
         ~VerifyPackage(prior, pkg, boot, t).lost
  PROVE  LET s == VerifyPackage(prior, pkg, boot, t).state
         IN  Later(s, prior, pkg) /\ s.floor = prior.floor
<1>0. Rooted(prior, boot)
  BY Zenon DEF Rooted
<1>1. PICK r0, root, c, f : Opened(prior, boot, pkg, t, r0, root, c, f)
  BY <1>0, VerifyOpened, Zenon
<1> DEFINE s == VerifyPackage(prior, pkg, boot, t).state
<1>2. /\ r0 = prior.root /\ root = LoadRoot(r0, pkg) /\ s.root = root
      /\ s.init = prior.init /\ s.floor = prior.floor
      /\ c = Cache(prior, RotatesUpdateAuthority(r0, pkg))
      /\ f = OnlineRefresh(c, pkg, r0, root, t)
      /\ \A m \in {f.ts, f.sn, f.tg} : m.trusted # None => m.trusted = m.cached
  BY <1>1, Zenon DEF Opened
<1>3. /\ SnapshotSound(c.sn, c.ts, root)
      /\ c.keep /\ c.tg # None => c.sn # None
  BY <1>1, Zenon DEF Opened
<1>4. /\ s.ts = IF f.ts.trusted # None THEN f.ts.trusted ELSE c.ts
      /\ s.sn = IF f.sn.trusted # None THEN f.sn.trusted
                ELSE IF s.ts # None THEN c.sn ELSE None
      /\ s.tg = IF f.tg.trusted # None THEN f.tg.trusted
                ELSE IF s.sn # None /\ c.keep /\ r0.tk = root.tk THEN c.tg ELSE None
  BY <1>1, Zenon DEF Opened
<1> HIDE DEF s
<1>5. CASE Hops(r0, pkg) # 0
  <2>1. Hops(r0, pkg) \in 0..MaxRootRotations /\ prior.root.v \in Int
    BY HopsReached, Zenon DEF Reach, SoundState, Signed
  <2>2. r0.v \in Int /\ root.v = r0.v + Hops(r0, pkg)
    <3>1. r0.v \in Int
      BY <1>2, <2>1
    <3>2. LoadRoot(r0, pkg).v = r0.v + Hops(r0, pkg)
      BY <3>1, RootVersion
    <3>3. root = LoadRoot(r0, pkg)
      BY <1>2
    <3> QED
      BY <3>1, <3>2, <3>3
  <2>3. s.root.v > prior.root.v
    BY <1>2, <1>5, <2>1, <2>2, RotationsAssumption
  <2> QED
    BY <1>2, <2>3, Zenon DEF Later, s
<1>6. CASE Hops(r0, pkg) = 0
  <2>1. root = r0
    BY <1>2, <1>6, Zenon DEF LoadRoot, RootAt
  <2>2. ~RotatesUpdateAuthority(r0, pkg)
    BY <1>6 DEF RotatesUpdateAuthority
  <2>3. c.keep /\ c.ts = prior.ts /\ c.sn = prior.sn /\ c.tg = prior.tg
    BY <1>2, <2>2, Zenon DEF Cache
  <2>4. f.ts.trusted # None => f.ts.trusted \in {c.ts, pkg.ts}
    BY <1>2, RefreshStep, TimestampStep
  <2>5. f.sn.trusted # None => f.sn.trusted \in {c.sn, pkg.sn}
    BY <1>2, RefreshStep, SnapshotStep
  <2>6. f.tg.trusted # None => f.tg.trusted \in {c.tg, pkg.tg}
    BY <1>2, RefreshStep, TargetsStep
  <2>7. s.ts \in {c.ts, pkg.ts}
    BY <1>4, <2>4, Zenon
  <2>8. s.sn \in {c.sn, pkg.sn} /\ (f.sn.trusted = None => s.sn = c.sn)
    BY <1>3, <1>4, <2>5, Zenon DEF SnapshotSound
  <2>9. s.tg \in {c.tg, pkg.tg}
    BY <1>3, <1>4, <2>1, <2>3, <2>6, <2>8, Zenon
  <2> QED
    BY <1>2, <2>1, <2>3, <2>7, <2>8, <2>9, Zenon DEF Later, s
<1> QED
  BY <1>5, <1>6

-----------------------------------------------------------------------------
(* The same package a second time *)

\* A root chain that was consumed to its end is not consumed again, and what
\* refused its next root refuses it again.
LEMMA RootAgain ==
  ASSUME NEW r, Signed(r), NEW pkg,
         Hops(r, pkg) = MaxRootRotations =>
           ~\E x \in pkg.roots : x.v = r.v + MaxRootRotations + 1
  PROVE  LET root == LoadRoot(r, pkg) IN
         /\ Hops(root, pkg) = 0
         /\ RootRefused(root, pkg) <=> RootRefused(r, pkg)
<1> DEFINE n == Hops(r, pkg)
           M == MaxRootRotations
           root == LoadRoot(r, pkg)
<1>1. n \in Reach(r, pkg) /\ \A m \in Reach(r, pkg) : m <= n
  <2>1. n \in Reach(r, pkg)
    BY HopsReached
  <2>2. PICK k \in Reach(r, pkg) : \A m \in Reach(r, pkg) : m <= k
    BY LongestChain
  <2> QED
    BY <2>1, <2>2 DEF Hops
<1>2. n \in 0..M /\ M \in Nat /\ \A k \in 1..n : Accepts(pkg, r.v + k)
  BY <1>1, RotationsAssumption DEF Reach
<1>3. r.v \in Int /\ root.v = r.v + n
  BY RootVersion DEF Signed
<1>4. M # 0 => ~Accepts(pkg, r.v + n + 1)
  <2>1. CASE n = M
    BY <2>1 DEF Accepts
  <2>2. CASE n # M
    <3>1. n + 1 \in 0..M /\ n + 1 \notin Reach(r, pkg)
      BY <1>1, <1>2, <2>2
    <3>2. PICK k \in 1..(n + 1) : ~Accepts(pkg, r.v + k)
      BY <3>1 DEF Reach
    <3>3. k = n + 1
      BY <1>2, <3>2
    <3> QED
      BY <3>2, <3>3, <1>2, <1>3
  <2> QED
    BY <2>1, <2>2
<1>5. Hops(root, pkg) = 0
  <2>1. Hops(root, pkg) \in 0..M /\ \A k \in 1..Hops(root, pkg) : Accepts(pkg, root.v + k)
    BY HopsReached DEF Reach
  <2> HIDE DEF root
  <2>2. ASSUME Hops(root, pkg) # 0 PROVE FALSE
    <3>1. 1 \in 1..Hops(root, pkg) /\ M # 0
      BY <2>1, <2>2, <1>2
    <3>2. Accepts(pkg, root.v + 1)
      BY <2>1, <3>1
    <3> QED
      BY <3>1, <3>2, <1>3, <1>4
  <2> QED
    BY <2>2
<1>6. RootRefused(r, pkg) <=> n < M /\ \E x \in pkg.roots : x.v = r.v + n + 1
  BY DEF RootRefused
<1>7. RootRefused(root, pkg) <=> 0 < M /\ \E x \in pkg.roots : x.v = r.v + n + 1
  <2> HIDE DEF root, n
  <2> QED
    BY <1>2, <1>3, <1>5 DEF RootRefused
<1>8. n = M => ~\E x \in pkg.roots : x.v = r.v + n + 1
  OBVIOUS
<1> HIDE DEF n, M, root
<1>9. RootRefused(root, pkg) <=> RootRefused(r, pkg)
  BY <1>2, <1>6, <1>7, <1>8
<1> QED
  BY <1>5, <1>9 DEF root

\* What has expired at t has expired at u.
Lasts(m, t, u) == m # None /\ IsExpired(m, t) => IsExpired(m, u)

\* A timestamp that was kept is the one that is found again, and loading it
\* succeeds only if it did before.
LEMMA TimestampLater ==
  ASSUME NEW root, NEW c, NEW pkg, NEW t, NEW u, NEW f, NEW g, NEW s,
         root # None, Lasts(root, t, u),
         c # None => c.key = root.uk,
         f = LoadTimestamp(root, c, pkg, t),
         f.trusted # None => f.trusted = f.cached,
         s = IF f.trusted # None THEN f.trusted ELSE c,
         g = LoadTimestamp(root, s, pkg, u)
  PROVE  /\ g.trusted # None => g.trusted = s /\ g.cached = s
         /\ g.err = "none" => f.err = "none" /\ f.trusted = s /\ g.trusted = s
<1>1. CASE s = c
  BY <1>1, ZenonT(60) DEF LoadTimestamp, Loaded, Lasts
<1>2. CASE s # c
  BY <1>2, ZenonT(60) DEF LoadTimestamp, Loaded, Lasts
<1> QED
  BY <1>1, <1>2, Zenon

\* So is a snapshot, unless it has expired meanwhile and the package holds
\* another one under its version.
LEMMA SnapshotLater ==
  ASSUME NEW root, NEW ts, NEW c, NEW pkg, NEW t, NEW u, NEW f, NEW g, NEW s,
         ts # None, Lasts(ts, t, u), Lasts(c, t, u), Lasts(pkg.sn, t, u),
         c # None => c.key = root.uk,
         \/ t = u
         \/ c # None /\ pkg.sn # None /\ c.v = pkg.sn.v /\ c.key = pkg.sn.key => c = pkg.sn,
         f = LoadSnapshot(root, ts, c, pkg, t),
         f.trusted # None => f.trusted = f.cached,
         s = IF f.trusted # None THEN f.trusted ELSE c,
         g = LoadSnapshot(root, ts, s, pkg, u)
  PROVE  /\ g.trusted # None /\ g.trusted = g.cached => g.trusted = s
         /\ t = u /\ g.trusted # None => g.trusted = g.cached
         /\ g.err = "none" => f.err = "none" /\ f.trusted = s /\ g.trusted = s
<1>1. CASE s = c
  <2>1. CASE t = u
    <3>1. g = f
      BY <1>1, <2>1, Zenon
    <3>2. f.err = "none" => f.trusted # None
      BY SnapshotStep
    <3> QED
      BY <1>1, <2>1, <3>1, <3>2, Zenon
  <2>2. CASE t # u
    <3>1. c # None /\ pkg.sn # None /\ c.v = pkg.sn.v /\ c.key = pkg.sn.key => c = pkg.sn
      BY <2>2, Zenon
    <3>2. g.trusted # None /\ g.trusted = g.cached => g.trusted = c
      BY <1>1, <3>1, ZenonT(60) DEF LoadSnapshot, Loaded, Lasts
    <3>3. g.err = "none" => g.trusted = g.cached /\ ~IsExpired(g.trusted, u)
                            /\ g.trusted # None /\ ~IsExpired(ts, u) /\ g.trusted.v = ts.sn.v
      BY ZenonT(60) DEF LoadSnapshot, Loaded
    <3>4. g.err = "none" => f.err = "none" /\ f.trusted = c
      BY <3>2, <3>3, ZenonT(60) DEF LoadSnapshot, Loaded, Lasts
    <3> QED
      BY <1>1, <2>2, <3>2, <3>3, <3>4, Zenon
  <2> QED
    BY <2>1, <2>2, Zenon
<1>2. CASE s # c
  BY <1>2, ZenonT(60) DEF LoadSnapshot, Loaded, Lasts
<1> QED
  BY <1>1, <1>2, Zenon

\* So are targets, and targets that were refused are refused again.
LEMMA TargetsLater ==
  ASSUME NEW root, NEW sn, NEW c, NEW pkg, NEW t, NEW u, NEW f, NEW g, NEW s,
         Lasts(c, t, u), Lasts(pkg.tg, t, u),
         f = LoadTargets(root, sn, c, pkg, t),
         f.trusted # None => s = f.trusted,
         f.trusted = None => s \in {c, None},
         g = LoadTargets(root, sn, s, pkg, u)
  PROVE  g.trusted # None => g.trusted = s /\ g.cached = s
<1>1. CASE f.trusted = None
  BY <1>1, ZenonT(60) DEF LoadTargets, Loaded, ValidTargets, Lasts
<1>2. CASE f.trusted # None
  BY <1>2, ZenonT(60) DEF LoadTargets, Loaded, ValidTargets, Lasts
<1> QED
  BY <1>1, <1>2

\* The files of two verifications of one package, the second one at u: their
\* expiry lasts, and the stored snapshot and the package's do not share a
\* version without being the same.
LastingFiles(prior, boot, pkg, t, u) ==
  /\ \A m \in pkg.roots \cup {boot, pkg.ts, pkg.sn, pkg.tg} : Lasts(m, t, u)
  /\ prior # None =>
       /\ \A m \in {prior.root, prior.ts, prior.sn, prior.tg} : Lasts(m, t, u)
       /\ \/ t = u
          \/ /\ prior.sn # None /\ pkg.sn # None
             /\ prior.sn.v = pkg.sn.v /\ prior.sn.key = pkg.sn.key
             => prior.sn = pkg.sn

\* What a verification leaves is what it finds when the package is verified
\* again, then or later: the roles do not move, unless the result is lost.
LEMMA VerifyLater ==
  ASSUME NEW prior, NEW boot, Rooted(prior, boot),
         NEW pkg, WellFormed(pkg), NEW t,
         ~VerifyPackage(prior, pkg, boot, t).lost,
         LET r0 == IF prior = None THEN boot ELSE prior.root
         IN  Hops(r0, pkg) = MaxRootRotations =>
               ~\E x \in pkg.roots : x.v = r0.v + MaxRootRotations + 1,
         NEW u, LastingFiles(prior, boot, pkg, t, u),
         NEW s, s = [VerifyPackage(prior, pkg, boot, t).state EXCEPT !.floor = s.floor],
         NEW any
  PROVE  LET again == VerifyPackage(s, pkg, any, u) IN
         /\ ~again.lost => again.state = s
         /\ t = u => ~again.lost
<1> DEFINE first == VerifyPackage(prior, pkg, boot, t).state
           v == VerifyPackage(s, pkg, any, u)
           again == v.state
<1>1. PICK r0, root, c, f : Opened(prior, boot, pkg, t, r0, root, c, f)
  BY VerifyOpened, Zenon
<1>2. SoundState(first)
  BY VerifySound, Zenon
<1>3. /\ s = AsState(s) /\ s.init = first.init /\ s.root = first.root
      /\ s.ts = first.ts /\ s.sn = first.sn /\ s.tg = first.tg
  <2>1. first = AsState(first) /\ s = [first EXCEPT !.floor = s.floor]
    BY <1>2 DEF SoundState
  <2> HIDE DEF first
  <2> QED
    BY <2>1 DEF AsState
<1>4. SoundState(s) /\ s # None
  <2>1. SoundState(s)
    <3> HIDE DEF first
    <3> QED
      BY <1>2, <1>3, Zenon DEF SoundState
  <2>2. DOMAIN None = {"absent"}
    BY DEF None
  <2>3. DOMAIN s = {"init", "root", "ts", "sn", "tg", "floor"}
    BY <1>3, Zenon DEF AsState
  <2> QED
    BY <2>1, <2>2, <2>3
<1>5. PICK r1, root1, d, g : Opened(s, any, pkg, u, r1, root1, d, g)
  BY <1>4, VerifyOpened, Zenon DEF Rooted
<1>6. /\ r0 = (IF prior = None THEN boot ELSE prior.root)
      /\ Signed(r0) /\ root = LoadRoot(r0, pkg)
      /\ root \in {r0} \cup pkg.roots /\ root # None
      /\ c = Cache(prior, RotatesUpdateAuthority(r0, pkg))
      /\ f = OnlineRefresh(c, pkg, r0, root, t)
      /\ TimestampSound(c.ts, root)
      /\ SnapshotSound(c.sn, c.ts, root)
      /\ \A m \in {f.ts, f.sn, f.tg} : m.trusted # None => m.trusted = m.cached
  BY <1>1, Zenon DEF Opened
<1>7. /\ s.root = root
      /\ s.ts = IF f.ts.trusted # None THEN f.ts.trusted ELSE c.ts
      /\ s.sn = IF f.sn.trusted # None THEN f.sn.trusted
                ELSE IF s.ts # None THEN c.sn ELSE None
      /\ f.tg.trusted # None => s.tg = f.tg.trusted
      /\ f.tg.trusted = None => s.tg \in {c.tg, None}
  <2> HIDE DEF first
  <2>1. /\ first.root = root
        /\ first.ts = IF f.ts.trusted # None THEN f.ts.trusted ELSE c.ts
        /\ first.sn = IF f.sn.trusted # None THEN f.sn.trusted
                      ELSE IF first.ts # None THEN c.sn ELSE None
        /\ first.tg = IF f.tg.trusted # None THEN f.tg.trusted
                      ELSE IF first.sn # None /\ c.keep /\ r0.tk = root.tk THEN c.tg
                      ELSE None
    BY <1>1, Zenon DEF Opened, first
  <2> QED
    BY <1>3, <2>1, Zenon
<1>8. s.sn = IF f.sn.trusted # None THEN f.sn.trusted ELSE c.sn
  BY <1>6, <1>7, Zenon DEF SnapshotSound
<1>9. /\ Lasts(root, t, u)
      /\ Lasts(s.ts, t, u)
      /\ Lasts(c.sn, t, u) /\ Lasts(c.tg, t, u)
      /\ Lasts(pkg.sn, t, u) /\ Lasts(pkg.tg, t, u)
      /\ \/ t = u
         \/ c.sn # None /\ pkg.sn # None /\ c.sn.v = pkg.sn.v /\ c.sn.key = pkg.sn.key
            => c.sn = pkg.sn
  <2>1. Lasts(None, t, u)
    BY DEF Lasts
  <2>2. Lasts(root, t, u)
    BY <1>6, Zenon DEF LastingFiles
  <2>3. /\ c.ts # None => prior # None /\ c.ts = prior.ts
        /\ c.sn # None => prior # None /\ c.sn = prior.sn
        /\ c.tg # None => prior # None /\ c.tg = prior.tg
    BY <1>6, Zenon DEF Cache
  <2>4. Lasts(c.ts, t, u) /\ Lasts(c.sn, t, u) /\ Lasts(c.tg, t, u)
    BY <2>1, <2>3, Zenon DEF LastingFiles
  <2>5. s.ts \in {c.ts, pkg.ts}
    <3>1. \/ f.ts = LoadTimestamp(root, c.ts, pkg, t)
          \/ f.ts.trusted = None
      BY <1>6, RefreshStep
    <3> QED
      BY <1>6, <1>7, <3>1, TimestampStep
  <2>6. Lasts(s.ts, t, u) /\ Lasts(pkg.sn, t, u) /\ Lasts(pkg.tg, t, u)
    BY <2>4, <2>5, Zenon DEF LastingFiles
  <2>7. \/ t = u
        \/ c.sn # None /\ pkg.sn # None /\ c.sn.v = pkg.sn.v /\ c.sn.key = pkg.sn.key
           => c.sn = pkg.sn
    BY <2>3, Zenon DEF LastingFiles
  <2> QED
    BY <2>2, <2>4, <2>6, <2>7, Zenon
<1>10. /\ Hops(root, pkg) = 0
       /\ RootRefused(root, pkg) <=> RootRefused(r0, pkg)
  BY <1>6, RootAgain, ZenonT(60)
<1>11. r1 = root /\ root1 = root
  <2>1. r1 = root /\ root1 = LoadRoot(r1, pkg)
    BY <1>4, <1>5, <1>7, Zenon DEF Opened
  <2> QED
    BY <1>10, <2>1 DEF LoadRoot, RootAt
<1>12. d.keep /\ d.ts = s.ts /\ d.sn = s.sn /\ d.tg = s.tg
  <2>1. ~RotatesUpdateAuthority(root, pkg)
    BY <1>10 DEF RotatesUpdateAuthority
  <2>2. d = Cache(s, RotatesUpdateAuthority(root, pkg))
    BY <1>5, <1>11, Zenon DEF Opened
  <2> QED
    BY <1>4, <2>1, <2>2, Zenon DEF Cache
<1>13. /\ f.ts = IF RootRefused(r0, pkg) THEN Loaded(None, c.ts, "integrity")
                 ELSE LoadTimestamp(root, c.ts, pkg, t)
       /\ f.sn = IF f.ts.err # "none" THEN Skipped(f.ts, c.sn)
                 ELSE LoadSnapshot(root, f.ts.trusted, c.sn, pkg, t)
       /\ f.tg = IF f.sn.err # "none" THEN Skipped(f.sn, c.tg)
                 ELSE LoadTargets(root, f.sn.trusted, c.tg, pkg, t)
  BY <1>6, RefreshParts
<1>14. /\ g.ts = IF RootRefused(r0, pkg) THEN Loaded(None, s.ts, "integrity")
                 ELSE LoadTimestamp(root, s.ts, pkg, u)
       /\ g.sn = IF g.ts.err # "none" THEN Skipped(g.ts, s.sn)
                 ELSE LoadSnapshot(root, g.ts.trusted, s.sn, pkg, u)
       /\ g.tg = IF g.sn.err # "none" THEN Skipped(g.sn, s.tg)
                 ELSE LoadTargets(root, g.sn.trusted, s.tg, pkg, u)
  <2>1. g = OnlineRefresh(d, pkg, root, root, u)
    BY <1>5, <1>11, Zenon DEF Opened
  <2> QED
    BY <1>10, <1>12, <2>1, RefreshParts
<1>15. /\ g.ts.trusted # None => g.ts.trusted = s.ts /\ g.ts.cached = s.ts
       /\ g.ts.err = "none" =>
            f.ts.err = "none" /\ f.ts.trusted = s.ts /\ g.ts.trusted = s.ts /\ s.ts # None
  <2>1. CASE RootRefused(r0, pkg)
    <3>1. g.ts = Loaded(None, s.ts, "integrity")
      BY <1>14, <2>1
    <3> QED
      BY <3>1 DEF Loaded
  <2>2. CASE ~RootRefused(r0, pkg)
    <3>1. /\ f.ts = LoadTimestamp(root, c.ts, pkg, t)
          /\ g.ts = LoadTimestamp(root, s.ts, pkg, u)
      BY <1>13, <1>14, <2>2
    <3>2. /\ c.ts # None => c.ts.key = root.uk
          /\ f.ts.trusted # None => f.ts.trusted = f.ts.cached
      BY <1>6, Zenon DEF TimestampSound
    <3>3. g.ts.err = "none" => g.ts.trusted # None
      BY <3>1, TimestampStep
    <3>4. /\ root # None /\ Lasts(root, t, u)
          /\ s.ts = IF f.ts.trusted # None THEN f.ts.trusted ELSE c.ts
      BY <1>6, <1>7, <1>9, Zenon
    <3> QED
      BY <3>1, <3>2, <3>3, <3>4, TimestampLater
  <2> QED
    BY <2>1, <2>2, Zenon
<1>16. /\ g.sn.trusted # None /\ g.sn.trusted = g.sn.cached => g.sn.trusted = s.sn
       /\ t = u /\ g.sn.trusted # None => g.sn.trusted = g.sn.cached
       /\ g.sn.err = "none" =>
            f.sn.err = "none" /\ f.sn.trusted = s.sn /\ g.sn.trusted = s.sn
  <2>1. CASE g.ts.err # "none"
    <3>1. g.sn = Skipped(g.ts, s.sn)
      BY <1>14, <2>1
    <3> QED
      BY <2>1, <3>1 DEF Skipped, Loaded
  <2>2. CASE g.ts.err = "none"
    <3>1. /\ f.sn = LoadSnapshot(root, s.ts, c.sn, pkg, t)
          /\ g.sn = LoadSnapshot(root, s.ts, s.sn, pkg, u)
      BY <1>13, <1>14, <1>15, <2>2, Zenon
    <3>2. /\ c.sn # None => c.sn.key = root.uk
          /\ f.sn.trusted # None => f.sn.trusted = f.sn.cached
      BY <1>6, Zenon DEF SnapshotSound
    <3>3. s.ts # None
      BY <1>15, <2>2
    <3> QED
      BY <1>8, <1>9, <3>1, <3>2, <3>3, SnapshotLater
  <2> QED
    BY <2>1, <2>2, Zenon
<1>17. g.tg.trusted # None => g.tg.trusted = s.tg /\ g.tg.cached = s.tg
  <2>1. CASE g.sn.err # "none"
    <3>1. g.tg = Skipped(g.sn, s.tg)
      BY <1>14, <2>1
    <3> QED
      BY <3>1 DEF Skipped, Loaded
  <2>2. CASE g.sn.err = "none"
    <3>1. /\ f.tg = LoadTargets(root, s.sn, c.tg, pkg, t)
          /\ g.tg = LoadTargets(root, s.sn, s.tg, pkg, u)
      BY <1>13, <1>14, <1>16, <2>2, Zenon
    <3> QED
      BY <1>7, <1>9, <3>1, TargetsLater
  <2> QED
    BY <2>1, <2>2, Zenon
<1>18. /\ again = AsState(again)
       /\ again.root = root /\ again.init = s.init /\ again.floor = s.floor
       /\ again.ts = IF g.ts.trusted # None THEN g.ts.trusted ELSE s.ts
       /\ again.sn = IF g.sn.trusted # None THEN g.sn.trusted
                     ELSE IF again.ts # None THEN s.sn ELSE None
       /\ again.tg = IF g.tg.trusted # None THEN g.tg.trusted
                     ELSE IF again.sn # None THEN s.tg ELSE None
  BY <1>4, <1>5, <1>11, <1>12, Zenon DEF Opened
<1>19. ~v.lost <=> \A m \in {g.ts, g.sn, g.tg} : m.trusted # None => m.trusted = m.cached
  BY <1>5, Zenon DEF Opened
<1> HIDE DEF first, again
<1>20. ASSUME ~v.lost PROVE again = s
  <2>1. again.ts = s.ts
    BY <1>15, <1>18, Zenon
  <2>2. again.sn = s.sn
    BY <1>4, <1>16, <1>18, <1>19, <1>20, <2>1, Zenon DEF SoundState, SnapshotSound
  <2>3. again.tg = s.tg
    BY <1>4, <1>17, <1>18, <2>2, Zenon DEF SoundState, TargetsSound
  <2> QED
    BY <1>3, <1>7, <1>18, <2>1, <2>2, <2>3, Zenon DEF AsState
<1>21. ASSUME t = u PROVE ~v.lost
  BY <1>15, <1>16, <1>17, <1>19, <1>21
<1> QED
  BY <1>20, <1>21 DEF again

\* In particular at the same instant, when nothing is lost either.
LEMMA VerifyAgain ==
  ASSUME NEW prior, NEW boot, Rooted(prior, boot),
         NEW pkg, WellFormed(pkg), NEW t,
         ~VerifyPackage(prior, pkg, boot, t).lost,
         LET r0 == IF prior = None THEN boot ELSE prior.root
         IN  Hops(r0, pkg) = MaxRootRotations =>
               ~\E x \in pkg.roots : x.v = r0.v + MaxRootRotations + 1
  PROVE  LET s == VerifyPackage(prior, pkg, boot, t).state
             again == VerifyPackage(s, pkg, boot, t)
         IN  ~again.lost /\ again.state = s
<1> DEFINE s == VerifyPackage(prior, pkg, boot, t).state
<1>1. LastingFiles(prior, boot, pkg, t, t)
  BY Zenon DEF LastingFiles, Lasts
<1>2. s = [s EXCEPT !.floor = s.floor]
  <2>1. s = AsState(s)
    BY VerifySound, Zenon DEF SoundState
  <2> HIDE DEF s
  <2> QED
    BY <2>1 DEF AsState
<1>3. ASSUME NEW x, x = s
      PROVE  ~VerifyPackage(x, pkg, boot, t).lost /\ VerifyPackage(x, pkg, boot, t).state = x
  <2>1. x = [VerifyPackage(prior, pkg, boot, t).state EXCEPT !.floor = x.floor]
    BY <1>2, <1>3
  <2> HIDE DEF s
  <2> QED
    BY <1>1, <2>1, VerifyLater
<1> QED
  BY <1>3, Zenon

\* A whole chain verified against its own stored files is accepted and does
\* not change: packageFromStored holds no roots, and every role is current.
LEMMA StoredAgain ==
  ASSUME NEW s, SoundState(s), NEW t, Whole(s, t), NEW any
  PROVE  LET v == VerifyPackage(s, StoredPackage(s, s.tg.bundle), any, t)
         IN  ~v.lost /\ v.refresh = "none" /\ v.state = s
<1> DEFINE pkg == StoredPackage(s, s.tg.bundle)
           v == VerifyPackage(s, pkg, any, t)
<1>1. /\ pkg.roots = {} /\ pkg.ts = s.ts /\ pkg.sn = s.sn /\ pkg.tg = s.tg
      /\ pkg.bundle = s.tg.bundle
  BY DEF StoredPackage
<1>2. WellFormed(pkg)
  BY <1>1, Zenon DEF WellFormed, SoundState, TimestampSound, SnapshotSound, TargetsSound
<1>3. s # None
  <2>1. DOMAIN None = {"absent"}
    BY DEF None
  <2>2. DOMAIN s = {"init", "root", "ts", "sn", "tg", "floor"}
    BY Zenon DEF SoundState, AsState
  <2> QED
    BY <2>1, <2>2
<1> HIDE DEF pkg
<1>4. PICK r0, root, c, f : Opened(s, any, pkg, t, r0, root, c, f)
  BY <1>2, <1>3, VerifyOpened, Zenon DEF Rooted
<1>5. Hops(s.root, pkg) = 0
  <2>1. Hops(s.root, pkg) \in 0..MaxRootRotations
        /\ \A k \in 1..Hops(s.root, pkg) : Accepts(pkg, s.root.v + k)
    BY HopsReached DEF Reach
  <2>2. \A w : ~Accepts(pkg, w)
    BY <1>1 DEF Accepts
  <2> QED
    BY <2>1, <2>2, RotationsAssumption
<1>6. ~RootRefused(s.root, pkg) /\ ~RotatesUpdateAuthority(s.root, pkg)
      /\ LoadRoot(s.root, pkg) = s.root
  BY <1>1, <1>5 DEF RootRefused, RotatesUpdateAuthority, LoadRoot, RootAt
<1>7. r0 = s.root /\ root = s.root
  BY <1>3, <1>4, <1>6, Zenon DEF Opened
<1>8. c.keep /\ c.ts = s.ts /\ c.sn = s.sn /\ c.tg = s.tg
  <2>1. c = Cache(s, RotatesUpdateAuthority(s.root, pkg))
    BY <1>4, <1>7, Zenon DEF Opened
  <2> QED
    BY <1>3, <1>6, <2>1, Zenon DEF Cache
<1>9. /\ s.root # None /\ s.ts # None /\ s.sn # None /\ s.tg # None
      /\ ~IsExpired(s.root, t) /\ ~IsExpired(s.ts, t) /\ ~IsExpired(s.sn, t)
      /\ ~IsExpired(s.tg, t)
      /\ s.sn.v = s.ts.sn.v /\ s.tg = s.sn.tg
      /\ s.ts.key = s.root.uk /\ s.sn.key = s.root.uk /\ s.tg.key = s.root.tk
  BY Zenon DEF Whole, SoundState, TimestampSound, SnapshotSound, TargetsSound
<1>10. LoadTimestamp(s.root, s.ts, pkg, t) = Loaded(s.ts, s.ts, "none")
  BY <1>1, <1>9, Zenon DEF LoadTimestamp
<1>11. LoadSnapshot(s.root, s.ts, s.sn, pkg, t) = Loaded(s.sn, s.sn, "none")
  BY <1>9, Zenon DEF LoadSnapshot
<1>12. LoadTargets(s.root, s.sn, s.tg, pkg, t) = Loaded(s.tg, s.tg, "none")
  BY <1>9, Zenon DEF LoadTargets, ValidTargets
<1>13. \A x : /\ Loaded(x, x, "none").err = "none"
              /\ Loaded(x, x, "none").trusted = x /\ Loaded(x, x, "none").cached = x
  BY DEF Loaded
<1>14. /\ f.ts = Loaded(s.ts, s.ts, "none")
       /\ f.sn = Loaded(s.sn, s.sn, "none")
       /\ f.tg = Loaded(s.tg, s.tg, "none")
  <2>1. f = OnlineRefresh(c, pkg, s.root, s.root, t)
    BY <1>4, <1>7, Zenon DEF Opened
  <2>2. f.ts = Loaded(s.ts, s.ts, "none")
    BY <1>6, <1>8, <1>10, <2>1, RefreshParts
  <2>3. f.sn = LoadSnapshot(s.root, s.ts, s.sn, pkg, t)
    BY <1>8, <1>13, <2>1, <2>2, RefreshParts
  <2>4. f.tg = LoadTargets(s.root, s.sn, s.tg, pkg, t)
    BY <1>8, <1>11, <1>13, <2>1, <2>3, RefreshParts
  <2> QED
    BY <1>11, <1>12, <2>2, <2>3, <2>4, Zenon
<1>15. /\ f.ts.trusted = s.ts /\ f.ts.cached = s.ts
       /\ f.sn.trusted = s.sn /\ f.sn.cached = s.sn
       /\ f.tg.trusted = s.tg /\ f.tg.cached = s.tg /\ f.tg.err = "none"
  BY <1>13, <1>14, Zenon
<1>16. /\ ~v.lost <=> \A m \in {f.ts, f.sn, f.tg} : m.trusted # None => m.trusted = m.cached
       /\ v.refresh = "none" <=> f.tg.err = "none" /\ pkg.bundle = f.tg.trusted.bundle
  BY <1>4, Zenon DEF Opened
<1>17. ~v.lost
  BY <1>15, <1>16, Zenon
<1>18. v.refresh = "none"
  BY <1>1, <1>15, <1>16, Zenon
<1>19. v.state = s
  <2>1. /\ v.state = AsState(v.state)
        /\ v.state.root = s.root /\ v.state.init = s.init /\ v.state.floor = s.floor
        /\ v.state.ts = s.ts /\ v.state.sn = s.sn /\ v.state.tg = s.tg
    BY <1>3, <1>4, <1>7, <1>9, <1>15, Zenon DEF Opened
  <2> HIDE DEF v
  <2>2. AsState(v.state) = AsState(s)
    BY <2>1, Zenon DEF AsState
  <2> QED
    BY <2>1, <2>2, Zenon DEF SoundState
<1> QED
  BY <1>17, <1>18, <1>19 DEF pkg
=============================================================================
