----------------------------- MODULE TUFRefresh -----------------------------
(***************************************************************************)
(* One offline TUF verification: what verifyPackageForProfile (internal/   *)
(* knowledge/verifier.go) makes of a package, given the trust state that   *)
(* the store holds, through the vendored go-tuf updater it drives.         *)
(*                                                                         *)
(* Signed metadata is content addressed, so a reference by hash is the     *)
(* referenced value itself: a timestamp carries its snapshot, a snapshot   *)
(* its targets, targets the bundle.                                        *)
(*   root      [v, exp, uk, tk, linked]  uk: timestamp and snapshot keys,  *)
(*                                       tk: targets keys, linked: signed  *)
(*                                       by its predecessor and by itself  *)
(*   targets   [v, exp, key, bundle]                                       *)
(*   snapshot  [v, exp, key, tg]                                           *)
(*   timestamp [v, exp, key, sn]                                           *)
(*   package   [roots, ts, sn, tg, bundle]  a set of successor roots and   *)
(*                                          at most one of each other file *)
(*   state     [init, root, ts, sn, tg, floor]                             *)
(***************************************************************************)
EXTENDS Integers

CONSTANT MaxRootRotations   \* successor roots one refresh may consume

ASSUME RotationsAssumption == MaxRootRotations \in Nat

\* An absent role, file or value: a record unlike any other.
None == [absent |-> TRUE]

\* Every file has a version and an expiry, and names versions of other files.
Signed(m) == m.v \in Int /\ m.exp \in Int
WellFormed(pkg) ==
  /\ \A r \in pkg.roots : r # None /\ Signed(r)
  /\ pkg.ts # None => Signed(pkg.ts) /\ pkg.ts.sn.v \in Int
  /\ pkg.sn # None => Signed(pkg.sn) /\ pkg.sn.tg.v \in Int
  /\ pkg.tg # None => Signed(pkg.tg)

NoOlder(new, old) == old # None => new # None /\ new.v >= old.v

\* go-tuf IsExpired: the reference time is strictly after the expiry.
IsExpired(m, t) == t > m.exp

-----------------------------------------------------------------------------
(* Root chain: the consecutive, correctly signed successors in the package. *)

\* The successor of version v that UpdateRoot accepts, if the package has it.
Accepts(pkg, v) == \E x \in pkg.roots : x.v = v /\ x.linked

Reach(r, pkg) ==
  {n \in 0..MaxRootRotations : \A k \in 1..n : Accepts(pkg, r.v + k)}

HopsOne(r, pkg) == IF Accepts(pkg, r.v + 1) THEN 1 ELSE 0   \* mutant
Hops(r, pkg) == CHOOSE n \in Reach(r, pkg) : \A m \in Reach(r, pkg) : m <= n

RootAt(r, pkg, k) ==
  IF k = 0 THEN r ELSE CHOOSE x \in pkg.roots : x.v = r.v + k /\ x.linked

LoadRoot(r, pkg) == RootAt(r, pkg, Hops(r, pkg))

\* The loop stops with an error at a next root that is present and refused.
RootRefused(r, pkg) ==
  /\ Hops(r, pkg) < MaxRootRotations
  /\ \E x \in pkg.roots : x.v = r.v + Hops(r, pkg) + 1

\* Some accepted hop changes the timestamp or snapshot keys, that is, some
\* root of the chain has other keys than the first. A later hop back to the
\* first keys does not undo it.
RotatesUpdateAuthority(r, pkg) ==
  \E k \in 1..Hops(r, pkg) : RootAt(r, pkg, k).uk # r.uk

-----------------------------------------------------------------------------
(* Role loading. "trusted" is the role the updater holds in memory when the *)
(* step ends, "cached" the one in its metadata directory: an expired        *)
(* timestamp or snapshot is assigned in memory and then refused, so the two *)
(* can differ.                                                              *)

Loaded(trusted, cached, err) ==
  [trusted |-> trusted, cached |-> cached, err |-> err]

\* A newer timestamp that names an older snapshot is a rollback too.
RollsBackVersion(new, old) == new.v < old.v   \* mutant
RollsBack(new, old) == new.v < old.v \/ new.sn.v < old.sn.v

LoadTimestamp(root, cached, pkg, t) ==
  LET local == IF /\ cached # None
                  /\ ~IsExpired(root, t)
                  /\ cached.key = root.uk
               THEN cached ELSE None
      remote == pkg.ts
  IN  IF remote = None THEN Loaded(local, cached, "integrity")
      ELSE IF IsExpired(root, t) THEN Loaded(None, cached, "expired")
      ELSE IF remote.key # root.uk THEN Loaded(local, cached, "integrity")
      ELSE IF local # None /\ remote.v = local.v
        THEN Loaded(local, cached, "none")
      ELSE IF local # None /\ RollsBack(remote, local)
        THEN Loaded(local, cached, "rollback")
      ELSE IF IsExpired(remote, t) THEN Loaded(remote, cached, "expired")
      ELSE Loaded(remote, remote, "none")

\* A snapshot that lists older targets is a rollback.
SnapshotRollsBack(new, old) == new.tg.v < old.tg.v

LoadSnapshot(root, ts, cached, pkg, t) ==
  LET local == IF /\ cached # None
                  /\ ~IsExpired(ts, t)
                  /\ cached.key = root.uk
               THEN cached ELSE None
      remote == pkg.sn
  IN  IF local # None /\ ~IsExpired(local, t) /\ local.v = ts.sn.v
        THEN Loaded(local, cached, "none")
      ELSE IF remote = None THEN Loaded(local, cached, "integrity")
      ELSE IF remote.v # ts.sn.v THEN Loaded(local, cached, "integrity")
      ELSE IF IsExpired(ts, t) THEN Loaded(local, cached, "expired")
      ELSE IF remote # ts.sn \/ remote.key # root.uk
        THEN Loaded(local, cached, "integrity")
      ELSE IF local # None /\ SnapshotRollsBack(remote, local)
        THEN Loaded(local, cached, "rollback")
      ELSE IF IsExpired(remote, t) THEN Loaded(remote, cached, "expired")
      ELSE Loaded(remote, remote, "none")

\* UpdateDelegatedTargets, up to the expiry check.
ValidTargets(m, root, sn) == m = sn.tg /\ m.key = root.tk

LoadTargets(root, sn, cached, pkg, t) ==
  LET remote == pkg.tg
  IN  IF /\ cached # None
         /\ ValidTargets(cached, root, sn)
         /\ ~IsExpired(cached, t)
        THEN Loaded(cached, cached, "none")
      ELSE IF remote = None THEN Loaded(None, cached, "integrity")
      ELSE IF ~ValidTargets(remote, root, sn)
        THEN Loaded(None, cached, "integrity")
      ELSE IF IsExpired(remote, t) THEN Loaded(None, cached, "expired")
      ELSE Loaded(remote, remote, "none")

\* onlineRefresh: the error of one role ends the refresh, and the roles below
\* it are not looked at. c holds the cached roles the refresh starts from.
Skipped(before, cached) == Loaded(None, cached, before.err)

AfterSnapshot(c, pkg, root, t, ts, sn) ==
  [ts |-> ts, sn |-> sn,
   tg |-> IF sn.err # "none" THEN Skipped(sn, c.tg)
          ELSE LoadTargets(root, sn.trusted, c.tg, pkg, t)]

AfterTimestamp(c, pkg, root, t, ts) ==
  AfterSnapshot(c, pkg, root, t, ts,
                IF ts.err # "none" THEN Skipped(ts, c.sn)
                ELSE LoadSnapshot(root, ts.trusted, c.sn, pkg, t))

OnlineRefresh(c, pkg, r0, root, t) ==
  AfterTimestamp(c, pkg, root, t,
                 IF RootRefused(r0, pkg) THEN Loaded(None, c.ts, "integrity")
                 ELSE LoadTimestamp(root, c.ts, pkg, t))

-----------------------------------------------------------------------------
(* verifyPackageForProfile and materialFromTrusted.                         *)
(*   lost     a role is trusted in memory and its bytes were not kept: the  *)
(*            call fails without a result                                   *)
(*   refresh  "none", or why the metadata was refused                       *)
(*   state    the trust state that the accepted metadata amounts to         *)

\* A role that the refresh did not reach keeps its stored value only if its
\* keys are unchanged and the role above it is there.
RetainedAnyKey(above, same, cached) ==
  IF above # None THEN cached ELSE None   \* mutant
Retained(above, same, cached) ==
  IF above # None /\ same THEN cached ELSE None

\* The stored roles that a refresh starts from: a change of the update keys
\* resets the timestamp and the snapshot.
Cache(prior, reset) ==
  LET keep == prior # None /\ ~reset
  IN  [keep |-> keep,
       ts |-> IF keep THEN prior.ts ELSE None,
       sn |-> IF keep THEN prior.sn ELSE None,
       tg |-> IF prior # None THEN prior.tg ELSE None]

\* materialFromTrusted: the roles of the new state, from the refresh f.
Material(prior, boot, r0, root, c, f) ==
  LET sameUk == c.keep /\ r0.uk = root.uk
      sameTk == c.keep /\ r0.tk = root.tk
      ts == IF f.ts.trusted # None THEN f.ts.trusted
            ELSE Retained(root, sameUk, c.ts)
      sn == IF f.sn.trusted # None THEN f.sn.trusted
            ELSE Retained(ts, sameUk, c.sn)
      tg == IF f.tg.trusted # None THEN f.tg.trusted
            ELSE Retained(sn, sameTk, c.tg)
  IN  [init  |-> IF prior = None THEN boot ELSE prior.init,
       root  |-> root, ts |-> ts, sn |-> sn, tg |-> tg,
       floor |-> IF prior = None THEN None ELSE prior.floor]

Verified(pkg, f, state) ==
  [lost    |-> \E m \in {f.ts, f.sn, f.tg} :
                 m.trusted # None /\ m.trusted # m.cached,
   refresh |-> IF f.tg.err # "none" THEN f.tg.err
               ELSE IF pkg.bundle # f.tg.trusted.bundle THEN "integrity"
               ELSE "none",
   state   |-> state]

\* The member of a singleton. Naming an intermediate value as the member of
\* one makes TLC compute it once.
Only(S) == CHOOSE x \in S : TRUE

VerifyFrom(prior, pkg, boot, t, r0, root, c) ==
  Only({Verified(pkg, f, Material(prior, boot, r0, root, c, f)) :
          f \in {OnlineRefresh(c, pkg, r0, root, t)}})

VerifyPackage(prior, pkg, boot, t) ==
  LET r0 == IF prior = None THEN boot ELSE prior.root
  IN  Only({VerifyFrom(prior, pkg, boot, t, r0, root, c) :
              root \in {LoadRoot(r0, pkg)},
              c \in {Cache(prior, RotatesUpdateAuthority(r0, pkg))}})

\* mutant: a stored role that the package repeats counts as unused
AllMembersFetched(prior, pkg, boot, state) ==
  LET r0 == IF prior = None THEN boot ELSE prior.root
  IN  /\ \A x \in pkg.roots : r0.v < x.v /\ x.v <= state.root.v
      /\ prior # None => prior.sn # pkg.sn

\* Every member of the package was fetched, or is the accepted role itself.
AllMembersUsed(prior, pkg, boot, state) ==
  LET r0 == IF prior = None THEN boot ELSE prior.root
  IN  /\ \A x \in pkg.roots : r0.v < x.v /\ x.v <= state.root.v
      /\ pkg.sn \in {None, state.sn}
      /\ pkg.tg \in {None, state.tg}

\* The package that packageFromStored rebuilds from a stored state.
StoredPackage(state, bundle) ==
  [roots |-> {}, ts |-> state.ts, sn |-> state.sn, tg |-> state.tg,
   bundle |-> bundle]
=============================================================================
