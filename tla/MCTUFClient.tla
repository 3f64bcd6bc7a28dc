---------------------------- MODULE MCTUFClient ----------------------------
(* A universe of packages for TUFClient: complete and incomplete ones,      *)
(* versions that go forward and back, two snapshots under one version,      *)
(* early expiries, and root chains that change either kind of key, change   *)
(* it back, skip a version or carry an unsigned successor.                  *)
EXTENDS TUFClient

R(v, uk, tk, linked) ==
  [v |-> v, exp |-> 2, uk |-> uk, tk |-> tk, linked |-> linked]
TG(v, exp, tk, b) == [v |-> v, exp |-> exp, key |-> tk, bundle |-> b]
SN(v, exp, uk, tg) == [v |-> v, exp |-> exp, key |-> uk, tg |-> tg]
TS(v, exp, uk, sn) == [v |-> v, exp |-> exp, key |-> uk, sn |-> sn]

Chains ==
  {{}, {R(2, "k1", "t1", TRUE)}, {R(2, "k2", "t1", TRUE)},
   {R(2, "k1", "t2", TRUE)}, {R(2, "k1", "t1", FALSE)},
   {R(2, "k2", "t1", TRUE), R(3, "k1", "t1", TRUE)},
   {R(2, "k1", "t1", TRUE), R(3, "k1", "t1", TRUE), R(4, "k1", "t1", TRUE)},
   {R(3, "k1", "t1", TRUE)}}

TargetSet == {TG(1, 2, "t1", "b1"), TG(2, 2, "t1", "b2"), TG(2, 0, "t1", "b2"),
              TG(1, 2, "t1", "b2"), TG(2, 2, "t2", "b2")}

\* Complete packages around each targets file.
Full(roots, tsv, snv, uk, ets, esn, tg) ==
  LET sn == SN(snv, esn, uk, tg)
  IN  [roots |-> roots, ts |-> TS(tsv, ets, uk, sn), sn |-> sn, tg |-> tg,
       bundle |-> tg.bundle]

Whole ==
  {Full(c, 2, 2, uk, 2, 2, tg) :
     c \in Chains, uk \in {"k1", "k2"}, tg \in TargetSet}
  \cup
  {Full(c, v[1], v[2], uk, 2, 2, tg) :
     c \in {{}, {R(2, "k2", "t1", TRUE)}},
     v \in {<<1, 1>>, <<1, 2>>, <<2, 1>>}, uk \in {"k1", "k2"},
     tg \in TargetSet}

\* Timestamps and snapshots that expire before the other files.
Expiring ==
  {Full(c, 2, 2, uk, e[1], e[2], TG(2, 2, "t1", "b2")) :
     c \in Chains, uk \in {"k1", "k2"}, e \in {<<0, 2>>, <<1, 0>>}}

\* The same without the snapshot, the targets, or with another bundle.
Broken(p) == {[p EXCEPT !.sn = None], [p EXCEPT !.tg = None],
              [p EXCEPT !.bundle = "b0"]}

\* A package without a timestamp is refused once its roots were consumed.
NoTimestamp == [Full({}, 2, 2, "k1", 2, 2, TG(2, 2, "t1", "b2")) EXCEPT !.ts = None]

MCPackages == Whole \cup Expiring \cup {NoTimestamp} \cup
              UNION {Broken(p) : p \in {q \in Whole : q.roots = {}}}
MCBoot == R(1, "k1", "t1", TRUE)
MCInstants == 0..2
=============================================================================
