----------------------- MODULE KnowledgeStoreHistory -----------------------
(***************************************************************************)
(* What an import reports, what a status promises, and how the journal     *)
(* explains where an import was cut off and how it goes on.                *)
(***************************************************************************)
EXTENDS KnowledgeStoreProofs

\* The selection is a receipt of the past and the bundle it admitted.
Books ==
  /\ marker => Marked
  /\ selection # None =>
       /\ selection = NewSelection([rcpt |-> selection.rcpt, state |-> selection.state])
       /\ selection.rcpt.at \in Instants /\ selection.rcpt.at <= clockFloor
       /\ AdmissionMatches(selection.rcpt, selection.bundle)

\* Before the first state, and from there to the new selection.
Fresh == {"idle", "lock", "marker", "check", "clear", "begin", "floor", "verify",
          "open", "openfloor", "inspect", "inspectfloor"}
Choosing == {"floor", "verify", "published", "admit", "reject", "select"}
              \cup Persisting \cup Admitted

\* The running account of a call: what it has changed so far. The second
\* persistence starts from a pointer with the floor the call found, so it
\* cannot undo what the first one did.
Accounts(p) ==
  /\ pc[p] \in Critical => res = NoResult
  /\ pc[p] \in Fresh => work[p].changed = FALSE /\ work[p].chg = FALSE /\ work[p].phase = 0
  /\ pc[p] \in Choosing => selection = call[p].active.sel /\ work[p].chg = FALSE
  /\ pc[p] = "finish" => work[p].chg = (selection # call[p].active.sel)
  /\ pc[p] = "error" /\ work[p].phase = 2 =>
       /\ work[p].changed = (trustCur # call[p].prior)
       /\ selection = call[p].active.sel
  /\ pc[p] \in Admitted => /\ work[p].rcpt = NewReceipt(call[p], work[p].state)
                           /\ NewSelection(work[p]) # selection
  /\ pc[p] \in Persisting /\ work[p].phase = 1 => work[p].changed = FALSE
  /\ pc[p] \in PointerSet \/ (pc[p] \in Persisting /\ work[p].phase # 1) =>
       work[p].changed = (trustCur # call[p].prior)
  /\ pc[p] \in {"published", "admit"} /\ work[p].phase = 1 =>
       work[p].state.floor = Floor(call[p].prior)
  /\ pc[p] \in Persisting /\ work[p].phase # 1 =>
       /\ trustCur.floor = Floor(call[p].prior)
       /\ work[p].state = [trustCur EXCEPT !.floor = work[p].state.floor]
  /\ pc[p] \in Journaling \ {"floor"} => Sec(call[p].now) <= clockFloor

Ledger == Books /\ \A p \in Proc : Accounts(p)

-----------------------------------------------------------------------------

\* The account of the process that moves.
LEMMA AccountsStep ==
  ASSUME Shape, Shape', Clock, Trust, Ledger, NEW p \in Proc,
         Enters(p) \/ Leaves(p) \/ Inner(p)
  PROVE  Accounts(p)'
<1> USE DEF Fresh, Choosing, Persisting, Admitted, PointerSet, Journaling
<1>a. Accounts(p) /\ InCall(p)
  BY DEF Ledger, Trust
<1>c. pc[p] \in PCs /\ clockFloor \in Int /\ clockFloor' \in Int
  BY MaxTimeAssumption DEF Shape, TypeOK, NoTime, Instants
<1>s. Sec(call[p].now) \in Int /\ Sec(call'[p].now) \in Int
  BY SecInstant, MaxTimeAssumption DEF Shape, TypeOK, Instants
<1>z. 0 # 2
  OBVIOUS
<1>1. CASE Enters(p)
  BY <1>a, <1>1, Zenon DEF Enters, Accounts, Keeps, durable
<1>2. CASE Leaves(p)
  BY <1>2 DEF Leaves, Accounts, NoWork, Critical, PCs
<1>3. CASE Inner(p) /\ AtMarker(p)
  BY <1>a, <1>z, <1>3, Zenon DEF Inner, AtMarker, Keeps, Accounts, Critical, PCs
<1>4. CASE Inner(p) /\ AtCheck(p)
  BY <1>a, <1>4, Zenon DEF Inner, AtCheck, Accounts, Critical, PCs
<1>5. CASE Inner(p) /\ AtClear(p)
  BY <1>a, <1>5, Zenon DEF Inner, AtClear, Keeps, Accounts, Critical, PCs
<1>6. CASE Inner(p) /\ AtBegin(p)
  <2>1. UNCHANGED selection /\ (pc'[p] = "floor" => selection = call'[p].active.sel)
    BY <1>6 DEF AtBegin, Resumes, Transaction
  <2> QED
    BY <1>a, <1>z, <1>6, <2>1, Zenon DEF Inner, AtBegin, Accounts, Critical, PCs
<1>7. CASE Inner(p) /\ AtFloor(p)
  BY <1>a, <1>c, <1>s, <1>7, SMTT(30) DEF Inner, AtFloor, Keeps, Accounts, Critical, PCs
<1>8. CASE Inner(p) /\ AtVerify(p)
  BY <1>a, <1>8, Zenon DEF Inner, AtVerify, Accounts, Critical, PCs, durable
<1>9. CASE Inner(p) /\ AtState(p)
  BY <1>a, <1>9, Zenon DEF Inner, AtState, Keeps, Accounts, Critical, PCs
<1>10. CASE Inner(p) /\ AtStateFloor(p)
  BY <1>a, <1>c, <1>s, <1>10 DEF Inner, AtStateFloor, Keeps, Accounts, Critical, PCs
<1>11. CASE Inner(p) /\ AtFiles(p)
  BY <1>a, <1>11, Zenon DEF Inner, AtFiles, Keeps, Accounts, Critical, PCs
<1>12. CASE Inner(p) /\ AtAccepted(p)
  BY <1>a, <1>12, Zenon DEF Inner, AtAccepted, Keeps, Accounts, Critical, PCs
<1>13. CASE Inner(p) /\ AtPointer(p)
  <2> DEFINE s == work[p].state
  <2>1. pc[p] = "pointer" /\ pc'[p] \in {"published", "failed"} /\ UNCHANGED <<res, selection, clockFloor>>
    BY <1>13, Zenon DEF Inner, AtPointer
  <2>2. /\ call'[p] = call[p] /\ work'[p].state = s /\ work'[p].phase = work[p].phase
        /\ work'[p].chg = work[p].chg
        /\ work'[p].changed = (work[p].changed \/ trustCur # s)
        /\ pc'[p] = "published" => trustCur' = s
    BY <1>13, Zenon DEF AtPointer
  <2>3. CASE pc'[p] = "failed"
    BY <1>a, <2>1, <2>3 DEF Accounts, Critical, PCs
  <2>4. CASE pc'[p] = "published" /\ work[p].phase = 1
    <3>1. /\ call[p].prior = trustCur /\ s.floor = Floor(trustCur)
          /\ work[p].changed = FALSE
      BY <1>a, <2>1, <2>4, Zenon DEF InCall, Accounts
    <3>2. work'[p].changed = (trustCur' # call'[p].prior)
      BY <2>2, <2>4, <3>1, Zenon
    <3> QED
      BY <1>a, <2>1, <2>2, <2>4, <3>1, <3>2, Zenon DEF Accounts, Critical, PCs
  <2>5. CASE pc'[p] = "published" /\ work[p].phase # 1
    <3>1. /\ IsState(s) /\ trustCur # None /\ IsState(trustCur)
          /\ work[p].changed = (trustCur # call[p].prior)
          /\ trustCur.floor = Floor(call[p].prior)
          /\ s = [trustCur EXCEPT !.floor = s.floor]
      BY <1>a, <2>1, <2>5, Zenon DEF InCall, Accounts, Trust, Held
    <3>2. s = call[p].prior => trustCur = s
      <4>1. s # None
        BY <3>1, Present, Zenon DEF IsState, HasFields, StateFields
      <4>2. s = call[p].prior => s.floor = trustCur.floor
        BY <3>1, <4>1, Zenon DEF Floor
      <4>3. s.floor = trustCur.floor => s = trustCur
        <5> HIDE DEF s
        <5> QED
          BY <3>1 DEF IsState, HasFields, StateFields
      <4> QED
        BY <4>2, <4>3, Zenon
    <3>3. work'[p].changed = (trustCur' # call'[p].prior)
      BY <2>2, <2>5, <3>1, <3>2, Zenon
    <3> QED
      BY <1>a, <2>1, <2>2, <2>5, <3>3, Zenon DEF Accounts, Critical, PCs
  <2> QED
    BY <2>1, <2>3, <2>4, <2>5, SMTT(30)
<1>14. CASE Inner(p) /\ AtPublished(p)
  BY <1>a, <1>14, Zenon DEF Inner, AtPublished, Keeps, Accounts, Critical, PCs
<1>15. CASE Inner(p) /\ AtAdmit(p)
  <2>1. CASE pc'[p] = "reject"
    BY <1>a, <1>15, <2>1, Zenon DEF Inner, AtAdmit, Accounts, Critical, PCs, durable
  <2>2. CASE pc'[p] = "state"
    <3>1. /\ work[p].phase = 1 /\ trustCur = work[p].state /\ IsState(trustCur)
          /\ work[p].state.floor = Floor(call[p].prior)
      BY <1>a, <1>15, Zenon DEF AtAdmit, InCall, Accounts, Trust, Held
    <3>2. /\ work'[p].state = RaisedFloor(trustCur) /\ work'[p].phase = 2
          /\ UNCHANGED <<trustCur, selection, clockFloor, res>>
      BY <1>15, <2>2, <3>1, Zenon DEF Inner, AtAdmit, durable
    <3>3. work'[p].state = [trustCur EXCEPT !.floor = work'[p].state.floor]
      BY <3>1, <3>2, Zenon DEF RaisedFloor, IsState, HasFields, StateFields
    <3> QED
      BY <1>a, <1>15, <2>2, <3>1, <3>2, <3>3, SMTT(30) DEF AtAdmit, Accounts, Critical, PCs
  <2> QED
    BY <1>15, <2>1, <2>2 DEF AtAdmit
<1>16. CASE Inner(p) /\ AtSelect(p)
  <2> DEFINE s == work[p].state
             r == NewReceipt(call[p], s)
  <2>1. pc'[p] # "target"  => Accounts(p)'
    BY <1>a, <1>16, Zenon DEF Inner, AtSelect, Accounts, Critical, PCs, durable
  <2>2. ASSUME pc'[p] = "target" PROVE NewSelection(work'[p]) # selection
    <3>1. /\ r.rev = s.floor.rev /\ r.bundle = s.floor.bundle
          /\ r.plan = call[p].req.plan
      BY Zenon DEF NewReceipt
    <3>2. /\ NewSelection(work'[p]).rev = r.rev /\ NewSelection(work'[p]).bundle = r.bundle
          /\ NewSelection(work'[p]).rcpt = r /\ NewSelection(work'[p]).state = s
          /\ NewSelection(work'[p]) # None
      BY <1>16, Present, Zenon DEF AtSelect, NewSelection
    <3>3. Selected(s) => selection.rcpt.plan # call[p].req.plan
      BY <1>16, <2>2, Zenon DEF AtSelect, Reusable
    <3> HIDE DEF r
    <3> QED
      BY <3>1, <3>2, <3>3, Zenon DEF Selected
  <2>3. ASSUME pc'[p] = "target" PROVE Accounts(p)'
    BY <1>a, <1>16, <2>2, <2>3, Zenon DEF Inner, AtSelect, Accounts, Critical, PCs, durable
  <2> QED
    BY <2>1, <2>3
<1>17. CASE Inner(p) /\ AtAdmission(p)
  BY <1>a, <1>17, Zenon DEF Inner, AtAdmission, Keeps, Accounts, Critical, PCs
<1>18. CASE Inner(p) /\ AtSelection(p)
  BY <1>a, <1>18, ZenonT(60) DEF Inner, AtSelection, Accounts, Critical, PCs
<1>19. CASE Inner(p) /\ AtFinish(p)
  BY <1>a, <1>19, Zenon DEF Inner, AtFinish, Keeps, Accounts, Critical, PCs
<1>20. CASE Inner(p) /\ AtReader(p)
  BY <1>a, <1>z, <1>20, Zenon DEF Inner, AtReader, Accounts, Critical, PCs
<1> QED
  BY <1>1, <1>2, <1>3, <1>4, <1>5, <1>6, <1>7, <1>8, <1>9, <1>10, <1>11, <1>12, <1>13,
     <1>14, <1>15, <1>16, <1>17, <1>18, <1>19, <1>20, Zenon DEF Inner

\* Every step keeps the ledger.
LEMMA LedgerStep ==
  ASSUME Shape, Shape', Clock, Trust, Ledger, [Next]_vars
  PROVE  Ledger'
<1>0. CASE UNCHANGED vars
  BY <1>0, ZenonT(60) DEF Ledger, Books, Accounts, AdmissionMatches, vars, durable
<1> SUFFICES ASSUME Next PROVE Ledger'
  BY <1>0
<1>1. PICK p \in Proc :
        /\ Outer(p) \/ Enters(p) \/ Leaves(p) \/ Inner(p)
        /\ \A q \in Proc \ {p} :
             /\ pc'[q] = pc[q] /\ call'[q] = call[q] /\ work'[q] = work[q]
             /\ ~Outer(p) => pc[q] \in Outside
  BY StepTable
<1>2. ASSUME NEW q \in Proc \ {p} PROVE Accounts(q)'
  <2>1. CASE Outer(p)
    <3>1. /\ Accounts(q) /\ UNCHANGED <<trustCur, selection, clockFloor, res>>
          /\ pc'[q] = pc[q] /\ call'[q] = call[q] /\ work'[q] = work[q]
      BY <1>1, <1>2, <2>1, Zenon DEF Ledger, Outer, durable
    <3> QED
      BY <3>1, ZenonT(60) DEF Accounts
  <2>2. CASE ~Outer(p)
    BY <1>1, <1>2, <2>2, Zenon
    DEF Ledger, Accounts, Outside, Fresh, Choosing, Persisting, Admitted, PointerSet,
        Journaling, Critical
  <2> QED
    BY <2>1, <2>2
<1>3. Accounts(p)'
  <2>1. CASE Outer(p)
    BY <2>1, Zenon
    DEF Ledger, Accounts, Outer, Outside, Fresh, Choosing, Persisting, Admitted, PointerSet,
        Journaling, Critical
  <2>2. CASE Enters(p) \/ Leaves(p) \/ Inner(p)
    BY <2>2, AccountsStep
  <2> QED
    BY <1>1, <2>1, <2>2
<1>4. marker' => Marked
  BY <1>1, Writes, Zenon DEF Ledger, Books
<1>5. UNCHANGED selection \/ (AtSelection(p) /\ selection' = NewSelection(work[p]))
  BY <1>1, Writes
<1>6. ASSUME selection' # None
      PROVE  /\ selection' = NewSelection([rcpt |-> selection'.rcpt, state |-> selection'.state])
             /\ selection'.rcpt.at \in Instants /\ selection'.rcpt.at <= clockFloor'
             /\ AdmissionMatches(selection'.rcpt, selection'.bundle)
  <2>1. CASE UNCHANGED selection
    <3>1. clockFloor' >= clockFloor
      BY ClockStep
    <3> QED
      BY <1>6, <2>1, <3>1, MaxTimeAssumption
      DEF Ledger, Books, Shape, TypeOK, NoTime, Instants
  <2>2. CASE AtSelection(p) /\ selection' = NewSelection(work[p])
    <3> DEFINE s == work[p].state
               r == work[p].rcpt
    <3>1. pc[p] = "selection" /\ UNCHANGED clockFloor
      BY <2>2 DEF AtSelection
    <3>2. /\ r = NewReceipt(call[p], s) /\ s.floor \in Revisions
          /\ Sec(call[p].now) <= clockFloor
      BY <3>1, Zenon DEF Ledger, Accounts, Trust, InCall, Admitted, Journaling, PointerSet
    <3>3. Sec(call[p].now) \in Instants
      BY SecInstant DEF Shape, TypeOK
    <3>4. /\ r.at = Sec(call[p].now) /\ r.bundle = s.floor.bundle /\ r.rev = s.floor.rev
          /\ r.purpose = Admission[s.floor.bundle].purpose
      BY <3>2 DEF NewReceipt
    <3>5. s.floor.rev = Admission[s.floor.bundle].rev
      BY <3>2, RevisionPair, Zenon
    <3> HIDE DEF s, r
    <3>6. selection' = [rev |-> r.rev, bundle |-> r.bundle, rcpt |-> r, state |-> s]
      BY <2>2 DEF NewSelection, s, r
    <3> QED
      BY <3>1, <3>2, <3>3, <3>4, <3>5, <3>6, Zenon DEF NewSelection, AdmissionMatches
  <2> QED
    BY <1>5, <2>1, <2>2
<1> QED
  BY <1>2, <1>3, <1>4, <1>6, Zenon DEF Ledger, Books, AdmissionMatches

\* The ledger with what it rests on.
THEOREM SafeLedger == Spec => [](Shape /\ Clock /\ Trust /\ Ledger)
<1>1. Init => Ledger
  <2> SUFFICES ASSUME Init PROVE Ledger
    OBVIOUS
  <2>1. \A p \in Proc : pc[p] = "idle" /\ work[p] = NoWork
    BY DEF Init
  <2>2. ASSUME NEW p \in Proc PROVE Accounts(p)
    BY <2>1 DEF Accounts, NoWork, Fresh, Choosing, Persisting, Admitted, PointerSet,
       Journaling, Critical
  <2> QED
    BY <2>2 DEF Init, Ledger, Books
<1>2. Shape /\ Shape' /\ Clock /\ Trust /\ Ledger /\ [Next]_vars => Ledger'
  BY LedgerStep
<1> QED
  BY <1>1, <1>2, SafeClock, SafeTrust, PTL DEF Spec

\* ReadyIsServable for every store: whenever the lock is free and a status
\* would be READY, OpenCurrent at that instant succeeds. The clock floor, the
\* receipt's time and the profile marker are what Inspect does not compare.
THEOREM ReadyAlwaysServable == Spec => []ReadyIsServable
<1>1. ASSUME Shape, Ledger PROVE ReadyIsServable
  <2> SUFFICES ASSUME NEW t \in Instants, trustCur # None, InspectReads(t),
                      InspectStatus(t) = "READY"
               PROVE  OpenAdmits(AnyReader, t)
    BY DEF ReadyIsServable
  <2>1. /\ ~(Marked /\ ~marker) /\ pending = None /\ selection # None
        /\ SelectionStatus(t) = "READY"
    BY DEF InspectStatus
  <2>2. marker = Marked
    BY <1>1, <2>1, FlagsAssumption, Zenon DEF Ledger, Books, Shape, TypeOK
  <2>3. LET v == VerifyPackage(selection.state,
                               StoredPackage(selection.state, selection.bundle), None, t)
        IN  /\ AdmissionStored(selection) /\ ValidReceipt(selection.rcpt, selection)
            /\ ~v.lost /\ v.state = selection.state /\ v.refresh = "none"
            /\ selection.state = trustCur
    BY <2>1, Zenon DEF SelectionStatus
  <2>4. t >= selection.rcpt.at /\ AdmissionMatches(selection.rcpt, selection.bundle)
    BY <1>1, <2>1, MaxTimeAssumption
    DEF Ledger, Books, InspectReads, Shape, TypeOK, NoTime, Instants
  <2> QED
    BY <2>1, <2>2, <2>3, <2>4, Zenon DEF OpenAdmits, AnyReader, InspectReads, Reverifies
<1> QED
  BY <1>1, SafeLedger, PTL

-----------------------------------------------------------------------------
(* What the store says about its past stays true: every admission can be     *)
(* validated again.                                                          *)

\* A binding is the last of an admission's files: the others are there, the
\* state is complete, and the receipt repeats what the state and the request
\* agreed on at a time when no role had expired.
Bound(r, s) ==
  /\ {<<r, "target", None>>, <<r, "receipt", None>>, <<r, "binding", s>>} \subseteq admFiles
  /\ Loadable(s) /\ SoundState(s)
  /\ s.floor \in Revisions /\ s.floor = [rev |-> r.rev, bundle |-> r.bundle]
  /\ s.tg.bundle = r.bundle /\ r.roles = Roles(s)
  /\ r.purpose = Admission[r.bundle].purpose
  /\ r.expRev \in {0, r.rev} /\ r.expBundle \in {None, r.bundle}
  /\ r.plan \in {None, [roles |-> r.roles, purpose |-> r.purpose]}
  /\ r.at \in Instants /\ Whole(s, r.at)

\* What Admits established of the state that the second persistence writes.
Agreed(c, s) ==
  /\ s.floor = [rev |-> Admission[s.tg.bundle].rev, bundle |-> s.tg.bundle]
  /\ c.req.expRev \in {0, s.floor.rev} /\ c.req.expBundle \in {None, s.floor.bundle}
  /\ c.req.plan \in {None, [roles |-> Roles(s), purpose |-> Admission[s.floor.bundle].purpose]}
  /\ Whole(s, c.now)

\* What a process knows of the state it is persisting.
Vouched(p) ==
  /\ pc[p] \in Opening \cup {"floor", "verify"} /\ call[p].prior = None => call[p].req.boot # None
  /\ pc[p] \in Persisting \cup PointerSet => SoundState(work[p].state)
  /\ /\ pc[p] \in Persisting \cup {"published", "admit"} /\ work[p].phase = 1
     /\ work[p].refresh = "none"
     => Whole(work[p].state, call[p].now)
  /\ \/ pc[p] \in Persisting \cup {"published"} /\ work[p].phase # 1
     \/ pc[p] \in {"select"} \cup Admitted
     => Agreed(call[p], work[p].state)

History ==
  /\ trustCur # None => SoundState(trustCur)
  /\ \A f \in admFiles : f[2] = "binding" => Bound(f[1], f[3])
  /\ \A p \in Proc : Vouched(p)

-----------------------------------------------------------------------------

\* A state that differs in its floor alone has the same roles.
LEMMA RolesRaised ==
  ASSUME NEW s, SoundState(s)
  PROVE  /\ SoundState(RaisedFloor(s)) /\ Roles(RaisedFloor(s)) = Roles(s)
         /\ RaisedFloor(s).tg = s.tg
         /\ RaisedFloor(s).floor = [rev |-> Admission[s.tg.bundle].rev, bundle |-> s.tg.bundle]
         /\ \A t : Whole(s, t) => Whole(RaisedFloor(s), t)
<1> DEFINE r == RaisedFloor(s)
           fl == [rev |-> Admission[s.tg.bundle].rev, bundle |-> s.tg.bundle]
<1>1. s = AsState(s)
  BY DEF SoundState
<1>2. /\ r.init = s.init /\ r.root = s.root /\ r.ts = s.ts /\ r.sn = s.sn /\ r.tg = s.tg
      /\ r.floor = fl
  BY <1>1 DEF RaisedFloor, AsState
<1>3. r = AsState(r)
  BY <1>1 DEF RaisedFloor, AsState
<1> HIDE DEF r
<1>4. SoundState(r)
  BY <1>2, <1>3, Zenon DEF SoundState
<1>5. Roles(r) = Roles(s)
  BY <1>2, Zenon DEF Roles
<1>6. \A t : Whole(s, t) => Whole(r, t)
  BY <1>2, Zenon DEF Whole
<1> QED
  BY <1>2, <1>4, <1>5, <1>6, Zenon DEF r

\* A chain that had not expired has not expired in the second it was seen in.
LEMMA WholeSecond ==
  ASSUME NEW s, SoundState(s), NEW t \in Instants, Whole(s, t)
  PROVE  Whole(s, Sec(t))
<1>1. Sec(t) \in Int /\ t \in Int /\ Sec(t) <= t
  BY SecInstant, MaxTimeAssumption DEF Instants
<1>2. \A m \in {s.root, s.ts, s.sn, s.tg} : m # None /\ ~IsExpired(m, t) /\ m.exp \in Int
  <2>1. \A m \in {s.root, s.ts, s.sn, s.tg} : m # None /\ ~IsExpired(m, t)
    BY Zenon DEF Whole
  <2>2. \A m \in {s.root, s.ts, s.sn, s.tg} : Signed(m)
    BY <2>1, Zenon DEF SoundState, TimestampSound, SnapshotSound, TargetsSound
  <2> QED
    BY <2>1, <2>2, Zenon DEF Signed
<1>3. \A m \in {s.root, s.ts, s.sn, s.tg} : ~IsExpired(m, Sec(t))
  BY <1>1, <1>2 DEF IsExpired
<1> QED
  BY <1>2, <1>3, Zenon DEF Whole

\* The verification of an import starts from a sound state or a signed root.
LEMMA ImportRooted ==
  ASSUME Shape, Trust, History, NEW p \in Proc, pc[p] = "verify"
  PROVE  Rooted(call[p].prior, call[p].req.boot) /\ WellFormed(call[p].req.pkg)
<1>1. /\ call[p].req \in Requests /\ call[p].req.op = "import" /\ call[p].prior = trustCur
      /\ call[p].prior = None => call[p].req.boot # None
      /\ trustCur # None => SoundState(trustCur)
  BY Zenon DEF Shape, Trust, InCall, Importing, Opening, Journaling, History, Vouched
<1> QED
  BY <1>1, RequestsAssumption, Zenon DEF Rooted

\* What the process that moves knows.
LEMMA VouchedStep ==
  ASSUME Shape, Trust, History, NEW p \in Proc, Enters(p) \/ Leaves(p) \/ Inner(p)
  PROVE  Vouched(p)'
<1> USE DEF Opening, Persisting, Admitted, PointerSet
<1>a. Vouched(p) /\ InCall(p)
  BY SMTT(30) DEF History, Trust
<1>1. CASE Enters(p)
  BY <1>1, Zenon DEF Enters, Vouched
<1>2. CASE Leaves(p)
  BY <1>2, Zenon DEF Leaves, Vouched
<1>3. CASE Inner(p) /\ AtMarker(p)
  BY <1>3, Zenon DEF AtMarker, Vouched
<1>4. CASE Inner(p) /\ AtCheck(p)
  BY <1>4, Zenon DEF AtCheck, ImportAdmits, BootstrapAdmits, Vouched
<1>5. CASE Inner(p) /\ AtClear(p)
  BY <1>a, <1>5, Zenon DEF AtClear, Keeps, Vouched
<1>6. CASE Inner(p) /\ AtBegin(p)
  BY <1>a, <1>6, Zenon DEF AtBegin, Vouched
<1>7. CASE Inner(p) /\ AtFloor(p)
  BY <1>a, <1>7, Zenon DEF AtFloor, Keeps, Vouched
<1>8. CASE Inner(p) /\ AtVerify(p)
  <2>1. /\ pc'[p] = "state" /\ work'[p].phase = 1 /\ call'[p] = call[p]
        /\ work'[p].state = Outcome(p).state /\ work'[p].refresh = Outcome(p).refresh
    BY <1>8, Zenon DEF AtVerify
  <2>2. Rooted(call[p].prior, call[p].req.boot) /\ WellFormed(call[p].req.pkg)
    BY <1>8, ImportRooted, Zenon DEF AtVerify
  <2>3. SoundState(Outcome(p).state)
    BY <1>8, <2>2, VerifySound, Zenon DEF AtVerify, Outcome
  <2>4. Outcome(p).refresh = "none" => Whole(Outcome(p).state, call[p].now)
    BY <2>2, AcceptedSound, Zenon DEF Outcome
  <2> QED
    BY <2>1, <2>3, <2>4, Zenon DEF Vouched
<1>9. CASE Inner(p) /\ AtState(p)
  BY <1>a, <1>9, Zenon DEF AtState, Keeps, Vouched
<1>10. CASE Inner(p) /\ AtStateFloor(p)
  BY <1>a, <1>10, Zenon DEF AtStateFloor, Keeps, Vouched
<1>11. CASE Inner(p) /\ AtFiles(p)
  BY <1>a, <1>11, Zenon DEF AtFiles, Keeps, Vouched
<1>12. CASE Inner(p) /\ AtAccepted(p)
  BY <1>a, <1>12, Zenon DEF AtAccepted, Keeps, Vouched
<1>13. CASE Inner(p) /\ AtPointer(p)
  BY <1>a, <1>13, Zenon DEF AtPointer, Vouched
<1>14. CASE Inner(p) /\ AtPublished(p)
  BY <1>a, <1>14, Zenon DEF AtPublished, Keeps, Vouched
<1>15. CASE Inner(p) /\ AtAdmit(p)
  <2> DEFINE s == work[p].state
  <2>1. CASE pc'[p] = "reject"
    BY <1>a, <1>15, <2>1, Zenon DEF AtAdmit, Vouched
  <2>2. CASE pc'[p] = "state"
    <3>1. /\ pc[p] = "admit" /\ Admits(call[p], work[p]) /\ call'[p] = call[p]
          /\ work'[p].state = RaisedFloor(s) /\ work'[p].phase = 2
      BY <1>15, <2>2, Zenon DEF AtAdmit
    <3>2. /\ SoundState(s) /\ work[p].phase = 1 /\ work[p].refresh = "none"
          /\ Whole(s, call[p].now)
      BY <1>a, <3>1, Zenon DEF Vouched, InCall, Admits
    <3>3. /\ SoundState(RaisedFloor(s)) /\ Roles(RaisedFloor(s)) = Roles(s)
          /\ RaisedFloor(s).tg = s.tg /\ Whole(RaisedFloor(s), call[p].now)
          /\ RaisedFloor(s).floor = [rev |-> Admission[s.tg.bundle].rev, bundle |-> s.tg.bundle]
      BY <3>2, RolesRaised, Zenon
    <3>4. call[p].req \in Requests
      BY <3>1, Zenon DEF Shape
    <3>5. call[p].req.plan \in {None, [roles |-> Roles(s), purpose |-> Admission[s.tg.bundle].purpose]}
      <4>1. call[p].req.plan # None =>
              /\ call[p].req.plan.roles = Roles(s)
              /\ call[p].req.plan.purpose = Admission[s.tg.bundle].purpose
              /\ call[p].req.plan = [roles |-> call[p].req.plan.roles,
                                     purpose |-> call[p].req.plan.purpose]
        BY <3>1, <3>4, RequestsAssumption, Zenon DEF Admits
      <4> QED
        BY <4>1, Zenon
    <3>6. /\ call[p].req.expRev \in {0, Admission[s.tg.bundle].rev}
          /\ call[p].req.expBundle \in {None, s.tg.bundle}
      BY <3>1, Zenon DEF Admits
    <3> HIDE DEF s
    <3>7. RaisedFloor(s).floor.rev = Admission[s.tg.bundle].rev /\ RaisedFloor(s).floor.bundle = s.tg.bundle
      BY <3>3
    <3>8. Agreed(call[p], RaisedFloor(s))
      BY <3>3, <3>5, <3>6, <3>7, Zenon DEF Agreed
    <3> QED
      BY <2>2, <3>1, <3>3, <3>8, Zenon DEF Vouched
  <2> QED
    BY <1>15, <2>1, <2>2, Zenon DEF AtAdmit
<1>16. CASE Inner(p) /\ AtSelect(p)
  BY <1>a, <1>16, Zenon DEF AtSelect, Vouched
<1>17. CASE Inner(p) /\ AtAdmission(p)
  BY <1>a, <1>17, Zenon DEF AtAdmission, Keeps, Vouched
<1>18. CASE Inner(p) /\ AtSelection(p)
  BY <1>a, <1>18, Zenon DEF AtSelection, Vouched
<1>19. CASE Inner(p) /\ AtFinish(p)
  BY <1>19, Zenon DEF AtFinish, Vouched
<1>20. CASE Inner(p) /\ AtReader(p)
  BY <1>20, Zenon DEF AtReader, Vouched
<1> QED
  BY <1>1, <1>2, <1>3, <1>4, <1>5, <1>6, <1>7, <1>8, <1>9, <1>10, <1>11, <1>12, <1>13,
     <1>14, <1>15, <1>16, <1>17, <1>18, <1>19, <1>20, Zenon DEF Inner

\* The binding that is written last binds what the process vouched for.
LEMMA BindingWritten ==
  ASSUME Shape, Trust, Ledger, Complete, History, NEW p \in Proc, AtAdmission(p),
         pc[p] = "binding", admFiles' = admFiles \cup {Part(p, "binding")}
  PROVE  Bound(work[p].rcpt, work[p].state)'
<1> DEFINE s == work[p].state
           r == work[p].rcpt
           c == call[p]
<1>1. /\ work'[p] = work[p] /\ UNCHANGED stateFiles
      /\ admFiles' = admFiles \cup {<<r, "binding", s>>}
  BY Zenon DEF AtAdmission, Keeps, Part
<1>2. {<<r, "target", None>>, <<r, "receipt", None>>, <<r, "binding", s>>} \subseteq admFiles'
  BY <1>1, Zenon DEF Complete, Written
<1>3. Loadable(s)'
  <2>1. trustCur # None /\ s = trustCur
    BY Zenon DEF Trust, InCall, PointerSet, Admitted
  <2>2. Loadable(s)
    BY <2>1, Zenon DEF Complete, PointersResolve
  <2> QED
    BY <1>1, <2>2, Zenon DEF Loadable
<1>4. /\ SoundState(s) /\ Agreed(c, s)
      /\ s.floor \in Revisions /\ s.floor = [rev |-> r.rev, bundle |-> r.bundle]
      /\ r = NewReceipt(c, s)
  BY Zenon DEF History, Vouched, Trust, InCall, Ledger, Accounts, PointerSet, Admitted
<1>5. c.now \in Instants /\ Sec(c.now) \in Instants
  BY SecInstant, Zenon DEF Shape, TypeOK
<1>p. s' = s /\ r' = r
  BY <1>1, Zenon
<1> HIDE DEF s, r, c
<1>6. /\ r.roles = Roles(s) /\ r.bundle = s.floor.bundle /\ r.rev = s.floor.rev
      /\ r.purpose = Admission[s.floor.bundle].purpose /\ r.at = Sec(c.now)
      /\ r.expRev = c.req.expRev /\ r.expBundle = c.req.expBundle /\ r.plan = c.req.plan
  BY <1>4, Zenon DEF NewReceipt
<1>7. Whole(s, r.at)
  BY <1>4, <1>5, <1>6, WholeSecond, Zenon DEF Agreed
<1>8. s.floor.bundle = s.tg.bundle
  <2>1. s.floor = [rev |-> Admission[s.tg.bundle].rev, bundle |-> s.tg.bundle]
    BY <1>4, Zenon DEF Agreed
  <2> QED
    BY <2>1
<1>9. /\ r.expRev \in {0, r.rev} /\ r.expBundle \in {None, r.bundle}
      /\ r.plan \in {None, [roles |-> r.roles, purpose |-> r.purpose]}
  BY <1>4, <1>6, Zenon DEF Agreed
<1>10. Bound(r, s)'
  <2>1. /\ r.purpose = Admission[r.bundle].purpose /\ s.tg.bundle = r.bundle
        /\ r.at \in Instants
    BY <1>5, <1>6, <1>8, Zenon
  <2> QED
    BY <1>p, <1>2, <1>3, <1>4, <1>6, <1>7, <1>9, <2>1, Zenon DEF Bound
<1> QED
  BY <1>1, <1>10, Zenon DEF s, r

\* Every step keeps the history.
LEMMA HistoryStep ==
  ASSUME Shape, Trust, Ledger, Complete, History, [Next]_vars
  PROVE  History'
<1>0. CASE UNCHANGED vars
  BY <1>0, ZenonT(60) DEF History, Bound, Vouched, Loadable, vars, durable
<1> SUFFICES ASSUME Next PROVE History'
  BY <1>0
<1>1. PICK p \in Proc :
        /\ Outer(p) \/ Enters(p) \/ Leaves(p) \/ Inner(p)
        /\ \A q \in Proc \ {p} :
             /\ pc'[q] = pc[q] /\ call'[q] = call[q] /\ work'[q] = work[q]
             /\ ~Outer(p) => pc[q] \in Outside
  BY StepTable, Zenon
<1>2. ASSUME NEW q \in Proc \ {p} PROVE Vouched(q)'
  BY <1>1, <1>2, Zenon DEF History, Vouched
<1>3. Vouched(p)'
  <2>1. CASE Outer(p)
    BY <2>1, Zenon DEF Vouched, Outer, Outside, Opening, Persisting, Admitted, PointerSet
  <2>2. CASE Enters(p) \/ Leaves(p) \/ Inner(p)
    BY <2>2, VouchedStep, Zenon
  <2> QED
    BY <1>1, <2>1, <2>2, Zenon
<1>4. ASSUME trustCur' # None PROVE SoundState(trustCur')
  <2>1. UNCHANGED trustCur \/ (AtPointer(p) /\ trustCur' = work[p].state)
    BY <1>1, Writes, Zenon
  <2>2. AtPointer(p) => SoundState(work[p].state)
    BY Zenon DEF AtPointer, History, Vouched, Persisting
  <2> QED
    BY <1>4, <2>1, <2>2, Zenon DEF History
<1>5. ASSUME NEW f \in admFiles', f[2] = "binding" PROVE Bound(f[1], f[3])'
  <2>1. \A r, s : Bound(r, s) => Bound(r, s)'
    <3>1. stateFiles \subseteq stateFiles' /\ admFiles \subseteq admFiles'
      BY <1>1, Writes, Zenon
    <3> QED
      BY <3>1, ZenonT(60) DEF Bound, Loadable
  <2>2. CASE f \in admFiles
    BY <1>5, <2>1, <2>2, Zenon DEF History
  <2>3. CASE f \notin admFiles
    <3>1. AtAdmission(p) /\ admFiles' = admFiles \cup {Part(p, pc[p])}
      BY <1>1, <1>5, <2>3, Writes, Zenon
    <3>2. f = Part(p, pc[p])
      BY <1>5, <2>3, <3>1, Zenon
    <3>3. /\ pc[p] = "binding" /\ f[1] = work[p].rcpt /\ f[3] = work[p].state
          /\ work'[p] = work[p]
      BY <1>5, <3>1, <3>2, Zenon DEF AtAdmission, Part, Keeps
    <3>4. Bound(work[p].rcpt, work[p].state)'
      BY <3>1, <3>3, BindingWritten, Zenon
    <3> QED
      BY <3>3, <3>4, Zenon
  <2> QED
    BY <2>2, <2>3, Zenon
<1> QED
  BY <1>2, <1>3, <1>4, <1>5, Zenon DEF History

\* An admission with a binding can be validated again.
LEMMA BoundValid ==
  ASSUME NEW r, NEW s, Bound(r, s), ~AtExpiry(r)
  PROVE  ValidateStoredSelection([rev |-> r.rev, bundle |-> r.bundle, rcpt |-> r, state |-> s])
<1> DEFINE sel == [rev |-> r.rev, bundle |-> r.bundle, rcpt |-> r, state |-> s]
<1>1. sel.rev = r.rev /\ sel.bundle = r.bundle /\ sel.rcpt = r /\ sel.state = s
  OBVIOUS
<1> HIDE DEF sel
<1>2. Loadable(sel.state) /\ AdmissionStored(sel)
  BY <1>1, Zenon DEF Bound, AdmissionStored
<1>3. \A m \in {r.roles.root, r.roles.ts, r.roles.sn, r.roles.tg} \ {None} : r.at < m.exp
  <2>1. /\ r.roles.root = s.root /\ r.roles.ts = s.ts /\ r.roles.sn = s.sn /\ r.roles.tg = s.tg
    BY DEF Bound, Roles
  <2>2. \A m \in {s.root, s.ts, s.sn, s.tg} : m # None /\ ~(r.at > m.exp)
    BY Zenon DEF Bound, Whole, IsExpired
  <2>3. \A m \in {s.root, s.ts, s.sn, s.tg} : m.exp \in Int
    BY <2>2, Zenon DEF Bound, SoundState, TimestampSound, SnapshotSound, TargetsSound, Signed
  <2>4. r.at \in Int
    BY MaxTimeAssumption DEF Bound, Instants
  <2>5. \A m \in {s.root, s.ts, s.sn, s.tg} : r.at # m.exp
    BY <2>1, <2>2, Zenon DEF AtExpiry
  <2>6. \A m \in {s.root, s.ts, s.sn, s.tg} : r.at < m.exp
    BY <2>2, <2>3, <2>4, <2>5
  <2> QED
    BY <2>1, <2>6, Zenon
<1>4. ValidReceipt(r, sel)
  BY <1>1, <1>3, Zenon DEF ValidReceipt, Bound
<1>5. Reverifies(sel, r.at)
  <2>1. SoundState(s) /\ Whole(s, r.at) /\ r.bundle = s.tg.bundle
    BY Zenon DEF Bound
  <2> DEFINE v == VerifyPackage(s, StoredPackage(s, s.tg.bundle), None, r.at)
  <2>2. ~v.lost /\ v.refresh = "none" /\ v.state = s
    BY <2>1, StoredAgain, Zenon
  <2>3. v = VerifyPackage(sel.state, StoredPackage(sel.state, sel.bundle), None, r.at)
    BY <1>1, <2>1, Zenon
  <2> QED
    BY <1>1, <2>2, <2>3, Zenon DEF Reverifies
<1>6. AdmissionMatches(r, sel.bundle)
  <2>1. /\ s.floor \in Revisions /\ s.floor = [rev |-> r.rev, bundle |-> r.bundle]
        /\ r.purpose = Admission[r.bundle].purpose
    BY Zenon DEF Bound
  <2>2. r.rev = Admission[r.bundle].rev
    BY <2>1, RevisionPair, Zenon
  <2> QED
    BY <1>1, <2>1, <2>2, Zenon DEF AdmissionMatches
<1> QED
  BY <1>1, <1>2, <1>4, <1>5, <1>6, Zenon DEF ValidateStoredSelection, sel

\* The invariants together.
THEOREM SafeHistory == Spec => [](Shape /\ Clock /\ Trust /\ Complete /\ Ledger /\ History)
<1>1. Init => History
  <2> SUFFICES ASSUME Init PROVE History
    OBVIOUS
  <2>1. \A p \in Proc : Vouched(p)
    BY Zenon DEF Init, Vouched, Opening, Persisting, Admitted, PointerSet
  <2> QED
    BY <2>1 DEF Init, History
<1>2. Shape /\ Trust /\ Ledger /\ Complete /\ History /\ [Next]_vars => History'
  BY HistoryStep
<1> QED
  BY <1>1, <1>2, SafeComplete, SafeLedger, PTL DEF Spec

\* HistoricalAvailable for every store: an admission whose binding was written
\* can be opened again at the time it was verified, whatever was imported,
\* rejected, rotated or cut short since (OpenHistorical).
THEOREM AlwaysHistorical == Spec => []HistoricalAvailable
<1>1. History => HistoricalAvailable
  BY BoundValid, Zenon DEF History, HistoricalAvailable
<1> QED
  BY <1>1, SafeHistory, PTL

-----------------------------------------------------------------------------
(* What the journal began with *)

\* s comes after a: through verifications of the package and raised floors.
Descends(s, a, pkg) == a # None => NotBelow(s.floor, a.floor) /\ Later(s, a, pkg)

\* The pointer descends from the state the journal began with, and a selection
\* it began with was only ever replaced.
Lineage ==
  pending # None =>
    /\ pending.prior # None =>
         /\ SoundState(pending.prior) /\ pending.prior.floor \in Floors
         /\ trustCur # None
         /\ Descends(trustCur, pending.prior, pending.want.pkg)
    /\ pending.sel # None => selection # None

\* The call knows that beginning. A pointer it found beyond the beginning stays
\* beyond it, and so does the state it is about to publish.
Traced(p) ==
  /\ pc[p] = "clear" => pending # None
  /\ pc[p] \in {"clear"} \cup Journaling =>
       call[p].active.prior = pending.prior /\ call[p].active.sel = pending.sel
  /\ pc[p] \in Journaling => pending.want.pkg = call[p].req.pkg
  /\ pc[p] \in Persisting =>
       /\ Descends(work[p].state, call[p].active.prior, call[p].req.pkg)
       /\ call[p].prior # call[p].active.prior => work[p].state # call[p].active.prior
  /\ pc[p] \in {"clear", "failed"} \cup Journaling =>
       /\ call[p].prior # call[p].active.prior => trustCur # call[p].active.prior
       /\ call[p].active.sel # None => selection # None

Ancestry == Lineage /\ \A p \in Proc : Traced(p)

\* A state that left its ancestor never becomes it again.
LEMMA NoReturn ==
  ASSUME NEW a, NEW s, NEW n, NEW pkg, SoundState(a), SoundState(s), SoundState(n),
         a.floor \in Floors, s.floor \in Floors, n.floor \in Floors,
         Descends(s, a, pkg), a # None, Later(n, s, pkg), NotBelow(n.floor, s.floor)
  PROVE  Descends(n, a, pkg) /\ (s # a => n # a)
<1>1. NotBelow(s.floor, a.floor) /\ Later(s, a, pkg)
  BY DEF Descends
<1>2. NotBelow(n.floor, a.floor)
  BY <1>1, NotBelowTransitive
<1>3. a.root.v \in Int /\ s.root.v \in Int /\ n.root.v \in Int
  BY Zenon DEF SoundState, Signed
<1>4. Later(n, a, pkg)
  <2>1. n.init = a.init
    BY <1>1, Zenon DEF Later
  <2>2. CASE s.root = a.root /\ n.root = s.root
    <3>1. /\ s.ts \in {a.ts, pkg.ts} /\ s.sn \in {a.sn, pkg.sn} /\ s.tg \in {a.tg, pkg.tg}
          /\ n.ts \in {s.ts, pkg.ts} /\ n.sn \in {s.sn, pkg.sn} /\ n.tg \in {s.tg, pkg.tg}
      BY <1>1, <1>3, <2>2 DEF Later
    <3> QED
      BY <2>1, <2>2, <3>1, Zenon DEF Later
  <2>3. CASE s.root.v > a.root.v \/ n.root.v > s.root.v
    <3>1. n.root.v > a.root.v
      BY <1>1, <1>3, <2>3 DEF Later
    <3> QED
      BY <2>1, <3>1, Zenon DEF Later
  <2> QED
    BY <1>1, <2>2, <2>3, Zenon DEF Later
<1>5. ASSUME n = a PROVE s = a
  <2>1. s.root = a.root /\ n.root = s.root
    BY <1>1, <1>3, <1>5 DEF Later
  <2>2. /\ s.ts \in {a.ts, pkg.ts} /\ s.sn \in {a.sn, pkg.sn} /\ s.tg \in {a.tg, pkg.tg}
        /\ n.ts \in {s.ts, pkg.ts} /\ n.sn \in {s.sn, pkg.sn} /\ n.tg \in {s.tg, pkg.tg}
    BY <1>1, <1>3, <2>1 DEF Later
  <2>3. s.ts = a.ts /\ s.sn = a.sn /\ s.tg = a.tg /\ s.init = a.init
    BY <1>1, <1>5, <2>2, Zenon DEF Later
  <2>4. s.floor = a.floor
    BY <1>1, <1>5, RevisionPair DEF NotBelow, Floors
  <2>5. s = AsState(s) /\ a = AsState(a)
    BY DEF SoundState
  <2>6. AsState(s) = AsState(a)
    BY <2>1, <2>3, <2>4, Zenon DEF AsState
  <2> QED
    BY <2>5, <2>6
<1> QED
  BY <1>2, <1>4, <1>5, Zenon DEF Descends

\* The ancestry of the process that moves.
LEMMA TracedStep ==
  ASSUME Shape, Trust, History, Ancestry, NEW p \in Proc,
         Enters(p) \/ Leaves(p) \/ Inner(p)
  PROVE  Traced(p)'
<1> USE DEF Journaling, Persisting, Admitted, PointerSet
<1>a. /\ Traced(p) /\ InCall(p) /\ Vouched(p) /\ Lineage
      /\ pending # None => DOMAIN pending = PendingFields
      /\ trustCur # None => IsState(trustCur) /\ SoundState(trustCur)
  BY SMTT(30) DEF Ancestry, Trust, Held, History
<1>1. CASE Enters(p)
  BY <1>1, Zenon DEF Enters, Traced
<1>2. CASE Leaves(p)
  BY <1>2, Zenon DEF Leaves, Traced
<1>3. CASE Inner(p) /\ AtMarker(p)
  BY <1>3, Zenon DEF AtMarker, Traced
<1>4. CASE Inner(p) /\ AtCheck(p)
  BY <1>a, <1>4, Zenon DEF AtCheck, Completed, Lineage, Traced, durable
<1>5. CASE Inner(p) /\ AtClear(p)
  BY <1>a, <1>5, Zenon DEF AtClear, Keeps, Traced
<1>6. CASE Inner(p) /\ AtBegin(p)
  <2>1. /\ pc[p] = "begin" /\ call[p].prior = trustCur
        /\ call'[p].prior = trustCur /\ call'[p].req = call[p].req
        /\ UNCHANGED <<trustCur, selection>>
    BY <1>a, <1>6, Zenon DEF AtBegin, InCall, Opening
  <2>2. CASE pc'[p] = "error"
    BY <2>2, Zenon DEF Traced
  <2>3. CASE pc'[p] = "floor" /\ pending # None /\ call'[p].active = pending
             /\ UNCHANGED pending /\ Resumes(pending, call[p])
    <3>1. pending.want.pkg = call[p].req.pkg
      <4>1. pending.want = Identity(call[p].req)
        BY <2>3 DEF Resumes
      <4> QED
        BY <4>1, SMTT(30) DEF Identity
    <3> QED
      BY <1>a, <2>1, <2>3, <3>1, Zenon DEF Traced, Lineage
  <2>4. CASE pc'[p] = "floor" /\ pending' = Transaction(call[p])
             /\ call'[p].active = Transaction(call[p])
    <3>1. /\ pending'.prior = trustCur /\ pending'.sel = selection
          /\ pending'.want.pkg = call[p].req.pkg
      BY <2>1, <2>4, SMTT(30) DEF Transaction, Identity
    <3> QED
      BY <2>1, <2>4, <3>1, Zenon DEF Traced
  <2> QED
    BY <1>6, <2>2, <2>3, <2>4, Zenon DEF AtBegin
<1>7. CASE Inner(p) /\ AtFloor(p)
  BY <1>a, <1>7, Zenon DEF AtFloor, Keeps, Traced
<1>8. CASE Inner(p) /\ AtVerify(p)
  <2> DEFINE c == call[p]
             a == c.active.prior
             n == Outcome(p).state
  <2>1. /\ pc[p] = "verify" /\ pc'[p] = "state" /\ call'[p] = c /\ work'[p].state = n
        /\ UNCHANGED <<pending, trustCur, selection>> /\ ~Outcome(p).lost
    BY <1>8, Zenon DEF AtVerify, durable
  <2>2. /\ c.prior = trustCur /\ pending # None /\ a = pending.prior
        /\ pending.want.pkg = c.req.pkg
    BY <1>a, <2>1, Zenon DEF InCall, Traced, Opening
  <2>3. Rooted(c.prior, c.req.boot) /\ WellFormed(c.req.pkg)
    BY <2>1, ImportRooted, Zenon
  <2>4. SoundState(n) /\ n.floor = Floor(trustCur) /\ n # None
    <3>1. SoundState(n)
      BY <2>1, <2>3, VerifySound, Zenon DEF Outcome
    <3>2. HasFields(n) /\ n.floor = Floor(trustCur)
      <4>1. n = VerifyPackage(trustCur, c.req.pkg, c.req.boot, c.now).state
        BY <2>2, Zenon DEF Outcome
      <4> HIDE DEF n, c
      <4> QED
        BY <4>1, VerifyState
    <3> QED
      BY <3>1, <3>2, Present, Zenon DEF HasFields, StateFields
  <2>5. Descends(n, a, c.req.pkg) /\ (trustCur # a => n # a)
    <3>1. CASE a = None
      BY <2>4, <3>1, Zenon DEF Descends
    <3>2. CASE a # None
      <4>1. /\ SoundState(a) /\ a.floor \in Floors /\ trustCur # None
            /\ Descends(trustCur, a, c.req.pkg)
        BY <1>a, <2>2, <3>2, Zenon DEF Lineage
      <4>2. /\ SoundState(trustCur) /\ trustCur.floor \in Floors
            /\ n.floor = trustCur.floor
        BY <1>a, <2>4, <4>1, Zenon DEF IsState, Floor
      <4>3. ~VerifyPackage(trustCur, c.req.pkg, c.req.boot, c.now).lost
            /\ n = VerifyPackage(trustCur, c.req.pkg, c.req.boot, c.now).state
        BY <2>1, <2>2, Zenon DEF Outcome
      <4> HIDE DEF n, a, c
      <4>4. Later(n, trustCur, c.req.pkg)
        BY <2>3, <4>1, <4>2, <4>3, VerifyProgress, Zenon
      <4>5. NotBelow(n.floor, trustCur.floor)
        BY <4>2, Zenon DEF NotBelow
      <4>6. n.floor \in Floors /\ SoundState(n)
        BY <2>4, <4>2, Zenon
      <4> QED
        BY <3>2, <4>1, <4>2, <4>4, <4>5, <4>6, NoReturn, Zenon
    <3> QED
      BY <3>1, <3>2
  <2> HIDE DEF n
  <2> QED
    BY <1>a, <2>1, <2>2, <2>5, Zenon DEF Traced
<1>9. CASE Inner(p) /\ AtState(p)
  BY <1>a, <1>9, Zenon DEF AtState, Keeps, Traced
<1>10. CASE Inner(p) /\ AtStateFloor(p)
  BY <1>a, <1>10, Zenon DEF AtStateFloor, Keeps, Traced
<1>11. CASE Inner(p) /\ AtFiles(p)
  BY <1>a, <1>11, Zenon DEF AtFiles, Keeps, Traced
<1>12. CASE Inner(p) /\ AtAccepted(p)
  <2>1. CASE UNCHANGED pending
    BY <1>a, <1>12, <2>1, Zenon DEF AtAccepted, Keeps, Traced
  <2>2. CASE pending # None /\ pending' = [pending EXCEPT !.accepted = work[p].state]
    <3>1. /\ pending'.prior = pending.prior /\ pending'.sel = pending.sel
          /\ pending'.want = pending.want
      BY <1>a, <2>2, SMTT(30) DEF PendingFields
    <3> QED
      BY <1>a, <1>12, <3>1, Zenon DEF AtAccepted, Keeps, Traced
  <2> QED
    BY <1>12, <2>1, <2>2, Zenon DEF AtAccepted
<1>13. CASE Inner(p) /\ AtPointer(p)
  BY <1>a, <1>13, Zenon DEF AtPointer, Traced
<1>14. CASE Inner(p) /\ AtPublished(p)
  <2>0. pc[p] = "published" /\ pc'[p] \in {"admit", "select", "failed"} /\ Keeps(p)
        /\ UNCHANGED <<trustCur, selection>>
    BY <1>14, Zenon DEF AtPublished
  <2>1. CASE UNCHANGED pending
    BY <1>a, <2>0, <2>1, Zenon DEF Keeps, Traced
  <2>2. CASE pending # None /\ pending' = [pending EXCEPT !.published = work[p].state]
    <3>1. /\ pending'.prior = pending.prior /\ pending'.sel = pending.sel
          /\ pending'.want = pending.want
      BY <1>a, <2>2, SMTT(30) DEF PendingFields
    <3> QED
      BY <1>a, <2>0, <3>1, Zenon DEF Keeps, Traced
  <2> QED
    BY <1>14, <2>1, <2>2, Zenon DEF AtPublished
<1>15. CASE Inner(p) /\ AtAdmit(p)
  <2>1. CASE pc'[p] = "reject"
    BY <1>a, <1>15, <2>1, Zenon DEF AtAdmit, Traced, durable
  <2>2. CASE pc'[p] = "state"
    <3> DEFINE s == work[p].state
               n == RaisedFloor(s)
               a == call[p].active.prior
               pkg == call[p].req.pkg
    <3>1. /\ pc[p] = "admit" /\ call'[p] = call[p] /\ UNCHANGED durable
          /\ work'[p].state = n /\ Admits(call[p], work[p])
      BY <1>15, <2>2, Zenon DEF AtAdmit
    <3>2. /\ trustCur = s /\ trustCur # None /\ pending # None /\ a = pending.prior
          /\ pending.want.pkg = pkg
          /\ work[p].phase = 1 /\ SoundState(s) /\ IsState(s)
      BY <1>a, <3>1, Zenon DEF InCall, Traced, Vouched
    <3>3. s.tg.bundle \in DOMAIN Admission
      <4>1. s.tg.bundle = pkg.bundle
        BY <1>a, <3>1, <3>2, Zenon DEF InCall, Admits
      <4>2. call[p].req \in Requests /\ call[p].req.op = "import"
        BY <1>a, <3>1, Zenon DEF InCall, Importing, Shape
      <4> QED
        BY <4>1, <4>2, RequestsAssumption, Zenon
    <3>4. IsState(n) /\ NotBelow(n.floor, s.floor)
      BY <3>1, <3>2, <3>3, AdmitRaises, Zenon
    <3>5. SoundState(n)
      BY <3>2, RolesRaised, Zenon
    <3>6. /\ n.init = s.init /\ n.root = s.root /\ n.ts = s.ts /\ n.sn = s.sn /\ n.tg = s.tg
      <4>1. s = AsState(s)
        BY <3>2 DEF SoundState
      <4> HIDE DEF s
      <4> QED
        BY <4>1 DEF RaisedFloor, AsState
    <3> HIDE DEF n, s
    <3>7. Later(n, s, pkg)
      BY <3>6, Zenon DEF Later
    <3>8. Descends(n, a, pkg) /\ (s # a => n # a)
      <4>1. CASE a = None
        BY <3>4, <4>1, Present, Zenon DEF Descends, IsState, HasFields, StateFields
      <4>2. CASE a # None
        <5>1. SoundState(a) /\ a.floor \in Floors /\ Descends(s, a, pkg)
          BY <1>a, <3>2, <4>2, Zenon DEF Lineage
        <5>2. /\ s.floor \in Floors /\ n.floor \in Floors
              /\ SoundState(s) /\ NotBelow(n.floor, s.floor)
          BY <3>2, <3>4, Zenon DEF IsState
        <5> HIDE DEF a, pkg
        <5> QED
          BY <3>5, <3>7, <4>2, <5>1, <5>2, NoReturn, Zenon
      <4> QED
        BY <4>1, <4>2
    <3>9. /\ call[p].active.prior = pending.prior /\ call[p].active.sel = pending.sel
          /\ call[p].prior # a => s # a
          /\ call[p].active.sel # None => selection # None
      BY <1>a, <3>1, <3>2, Zenon DEF Traced
    <3> QED
      BY <2>2, <3>1, <3>2, <3>8, <3>9, Zenon DEF Traced, durable
  <2> QED
    BY <1>15, <2>1, <2>2, Zenon DEF AtAdmit
<1>16. CASE Inner(p) /\ AtSelect(p)
  BY <1>a, <1>16, Zenon DEF AtSelect, Traced, durable
<1>17. CASE Inner(p) /\ AtAdmission(p)
  <2>1. /\ pc[p] \in Admitted /\ pc'[p] \in Admitted \cup {"failed"} /\ Keeps(p)
        /\ UNCHANGED <<trustCur, pending, selection>>
    BY <1>17, Zenon DEF AtAdmission, Admitted
  <2> QED
    BY <1>a, <2>1, Zenon DEF Keeps, Traced
<1>18. CASE Inner(p) /\ AtSelection(p)
  <2>1. NewSelection(work[p]) # None
    BY Present, Zenon DEF NewSelection
  <2> QED
    BY <1>a, <1>18, <2>1, Zenon DEF AtSelection, Traced
<1>19. CASE Inner(p) /\ AtFinish(p)
  BY <1>a, <1>19, Zenon DEF AtFinish, Keeps, Traced
<1>20. CASE Inner(p) /\ AtReader(p)
  BY <1>20, Zenon DEF AtReader, Traced
<1> QED
  BY <1>1, <1>2, <1>3, <1>4, <1>5, <1>6, <1>7, <1>8, <1>9, <1>10, <1>11, <1>12, <1>13,
     <1>14, <1>15, <1>16, <1>17, <1>18, <1>19, <1>20, Zenon DEF Inner

\* What a step does to the pointer, the selection and the journal.
LEMMA LineageStep ==
  ASSUME Shape, Trust, History, Ancestry, NEW p \in Proc,
         Outer(p) \/ Enters(p) \/ Leaves(p) \/ Inner(p)
  PROVE  Lineage'
<1> USE DEF Journaling, Persisting, Admitted, PointerSet
<1>a. /\ Lineage /\ Traced(p) /\ InCall(p)
      /\ pending # None => DOMAIN pending = PendingFields
      /\ trustCur # None => IsState(trustCur) /\ SoundState(trustCur)
  BY SMTT(30) DEF Ancestry, Trust, Held, History
<1>1. \/ UNCHANGED <<trustCur, selection>> /\ pending' \in {None, pending}
      \/ AtBegin(p) /\ pending' = Transaction(call[p])
      \/ AtAccepted(p) /\ pending # None /\ pending' = [pending EXCEPT !.accepted = work[p].state]
      \/ AtPointer(p) /\ trustCur' = work[p].state
      \/ AtPublished(p) /\ pending # None /\ pending' = [pending EXCEPT !.published = work[p].state]
      \/ AtSelection(p) /\ selection' = NewSelection(work[p])
  BY Writes, Zenon
<1>2. CASE UNCHANGED <<trustCur, selection>> /\ pending' \in {None, pending}
  BY <1>a, <1>2, Zenon DEF Lineage
<1>3. CASE AtBegin(p) /\ pending' = Transaction(call[p])
  <2>1. UNCHANGED <<trustCur, selection>> /\ call[p].prior = trustCur
    BY <1>a, <1>3, Zenon DEF AtBegin, InCall, Opening
  <2>2. pending'.prior = trustCur /\ pending'.sel = selection
    BY <1>3, <2>1, Zenon DEF Transaction
  <2>3. \A pkg : Descends(trustCur, trustCur, pkg)
    BY Zenon DEF Descends, NotBelow, Later
  <2> QED
    BY <1>a, <2>1, <2>2, <2>3, Zenon DEF Lineage, IsState
<1>4. CASE /\ AtAccepted(p) \/ AtPublished(p)
           /\ pending # None
           /\ \/ pending' = [pending EXCEPT !.accepted = work[p].state]
              \/ pending' = [pending EXCEPT !.published = work[p].state]
  <2>1. /\ pending'.prior = pending.prior /\ pending'.sel = pending.sel
        /\ pending'.want = pending.want
    BY <1>a, <1>4, SMTT(30) DEF PendingFields
  <2>2. UNCHANGED <<trustCur, selection>>
    BY <1>4, Zenon DEF AtAccepted, AtPublished
  <2> QED
    BY <1>a, <1>4, <2>1, <2>2, Zenon DEF Lineage
<1>5. CASE AtPointer(p) /\ trustCur' = work[p].state
  <2>1. pc[p] = "pointer" /\ UNCHANGED <<pending, selection>>
    BY <1>5, Zenon DEF AtPointer
  <2>2. /\ IsState(work[p].state) /\ pending.want.pkg = call[p].req.pkg
        /\ call[p].active.prior = pending.prior
        /\ Descends(work[p].state, call[p].active.prior, call[p].req.pkg)
    BY <1>a, <2>1, Zenon DEF InCall, Traced
  <2>3. work[p].state # None
    BY <2>2, Present, Zenon DEF IsState, HasFields, StateFields
  <2> QED
    BY <1>a, <1>5, <2>1, <2>2, <2>3, Zenon DEF Lineage
<1>6. CASE AtSelection(p) /\ selection' = NewSelection(work[p])
  <2>1. NewSelection(work[p]) # None
    BY Present, Zenon DEF NewSelection
  <2> QED
    BY <1>a, <1>6, <2>1, Zenon DEF AtSelection, Lineage
<1> QED
  BY <1>1, <1>2, <1>3, <1>4, <1>5, <1>6, Zenon

\* Every step keeps the ancestry.
LEMMA AncestryStep ==
  ASSUME Shape, Trust, History, Ancestry, [Next]_vars
  PROVE  Ancestry'
<1>0. CASE UNCHANGED vars
  BY <1>0, ZenonT(60) DEF Ancestry, Lineage, Traced, vars, durable
<1> SUFFICES ASSUME Next PROVE Ancestry'
  BY <1>0
<1>1. PICK p \in Proc :
        /\ Outer(p) \/ Enters(p) \/ Leaves(p) \/ Inner(p)
        /\ \A q \in Proc \ {p} :
             /\ pc'[q] = pc[q] /\ call'[q] = call[q] /\ work'[q] = work[q]
             /\ ~Outer(p) => pc[q] \in Outside
  BY StepTable, Zenon
<1>2. ASSUME NEW q \in Proc \ {p} PROVE Traced(q)'
  <2>1. CASE Outer(p)
    BY <1>1, <1>2, <2>1, ZenonT(60) DEF Ancestry, Traced, Outer, durable
  <2>2. CASE ~Outer(p)
    BY <1>1, <1>2, <2>2, Zenon
    DEF Traced, Outside, Journaling, Persisting, Admitted, PointerSet
  <2> QED
    BY <2>1, <2>2
<1>3. Traced(p)'
  <2>1. CASE Outer(p)
    BY <2>1, Zenon DEF Outer, Traced, Outside, Journaling, Persisting, Admitted, PointerSet
  <2>2. CASE Enters(p) \/ Leaves(p) \/ Inner(p)
    BY <2>2, TracedStep
  <2> QED
    BY <1>1, <2>1, <2>2, Zenon
<1>4. Lineage'
  BY <1>1, LineageStep, Zenon
<1> QED
  BY <1>2, <1>3, <1>4, Zenon DEF Ancestry

\* The invariants together.
THEOREM SafeAncestry ==
  Spec => [](Shape /\ Clock /\ Trust /\ Complete /\ Ledger /\ History /\ Ancestry)
<1>1. Init => Ancestry
  <2> SUFFICES ASSUME Init PROVE Ancestry
    OBVIOUS
  <2>1. \A p \in Proc : Traced(p)
    BY Zenon DEF Init, Traced, Journaling, Persisting, Admitted, PointerSet
  <2> QED
    BY <2>1, Zenon DEF Init, Ancestry, Lineage
<1>2. Shape /\ Trust /\ History /\ Ancestry /\ [Next]_vars => Ancestry'
  BY AncestryStep
<1> QED
  BY <1>1, <1>2, SafeHistory, PTL DEF Spec

\* The selection is valid unless it was made in the second of its expiry.
LEMMA SelectionValid ==
  ASSUME Complete, Ledger, History, selection # None, ~AtExpiry(selection.rcpt)
  PROVE  ValidateStoredSelection(selection)
<1> DEFINE r == selection.rcpt
           s == selection.state
           f == <<r, "binding", s>>
<1>1. /\ AdmissionStored(selection)
      /\ selection = NewSelection([rcpt |-> r, state |-> s])
  BY Zenon DEF Complete, PointersResolve, Ledger, Books
<1>2. Bound(r, s)
  <2>1. f \in admFiles /\ f[1] = r /\ f[2] = "binding" /\ f[3] = s
    BY <1>1, Zenon DEF AdmissionStored
  <2> HIDE DEF f
  <2> QED
    BY <2>1, Zenon DEF History
<1>3. selection = [rev |-> r.rev, bundle |-> r.bundle, rcpt |-> r, state |-> s]
  BY <1>1, Zenon DEF NewSelection
<1> HIDE DEF r, s
<1>4. ~AtExpiry(r)
  BY DEF r
<1>5. ValidateStoredSelection([rev |-> r.rev, bundle |-> r.bundle, rcpt |-> r, state |-> s])
  BY <1>2, <1>4, BoundValid, Zenon
<1> QED
  BY <1>3, <1>5, Zenon

\* ReceiptTruthful for every store: what an import's receipt says of the trust
\* and the selection is what happened to them, whether the call ran to its end,
\* was refused, or failed at any write. The receipt of a failure compares with
\* the state the journal began with, perhaps many calls ago; that it is right
\* rests on the pointer never returning there.
THEOREM ReceiptsTrue == Spec => ReceiptTruthful
<1> DEFINE Told(p) ==
      res' # res =>
        /\ \/ pc[p] \in {"finish", "reject"}
           \/ pc[p] = "error" /\ work[p].phase = 2
           => Truthful(p, res')
        /\ pc[p] = "failed" => FailureTruthful(p, res')
<1>1. ASSUME Shape, Complete, Ledger, History, Ancestry, Next, NEW p \in Proc
      PROVE  Told(p)
  <2> SUFFICES ASSUME res' # res, pc[p] \in {"finish", "reject", "error", "failed"}
               PROVE  Told(p)
    BY Zenon
  <2>1. PICK m \in Proc :
          /\ Outer(m) \/ Enters(m) \/ Leaves(m) \/ Inner(m)
          /\ \A q \in Proc \ {m} : ~Outer(m) => pc[q] \in Outside
    BY <1>1, StepTable, Zenon
  <2>2. m = p /\ Leaves(p)
    BY <1>1, <2>1, Zenon DEF Outer, Enters, Inner, Outside
  <2>3. Accounts(p) /\ Traced(p) /\ res = NoResult
    BY <1>1, Zenon DEF Ledger, Ancestry, Accounts, Critical, PCs
  <2>4. ASSUME pc[p] \in {"finish", "reject"} PROVE Truthful(p, res')
    <3>1. res' = IF pc[p] = "finish" THEN Result("IMPORTED", work[p].changed, work[p].chg)
                 ELSE Result("REJECTED", work[p].changed, FALSE)
      BY <2>2, <2>3, <2>4, Zenon DEF Leaves
    <3>2. work[p].changed = (trustCur # call[p].prior)
      BY <2>3, <2>4, Zenon DEF Accounts, PointerSet
    <3>3. CASE pc[p] = "finish"
      BY <2>3, <3>1, <3>2, <3>3, Zenon DEF Accounts, Result, Truthful
    <3>4. CASE pc[p] = "reject"
      BY <2>3, <3>1, <3>2, <3>4, Zenon DEF Accounts, Result, Choosing, Truthful
    <3> QED
      BY <2>4, <3>3, <3>4, Zenon
  <2>5. ASSUME pc[p] \in {"error", "failed"} PROVE res' = Failure(p)
    BY <2>2, <2>3, <2>5, Zenon DEF Leaves
  <2>6. ASSUME pc[p] = "error", work[p].phase = 2 PROVE Truthful(p, res')
    <3>1. res' = Result("REJECTED", work[p].changed, FALSE)
      BY <2>5, <2>6, Zenon DEF Failure
    <3> QED
      BY <2>3, <2>6, <3>1, Zenon DEF Accounts, Result, Truthful
  <2>7. ASSUME pc[p] = "failed" PROVE FailureTruthful(p, res')
    <3> DEFINE c == call[p]
               a == c.active
    <3>1. res' = RecoveryRequired(FailureReceipt(a))
      BY <2>5, <2>7, Zenon DEF Failure
    <3>2. /\ c.prior # a.prior => trustCur # a.prior
          /\ a.sel # None => selection # None
      BY <2>3, <2>7, Zenon DEF Traced
    <3>3. trustCur # None => Loadable(trustCur)
      BY <1>1, Zenon DEF Complete, PointersResolve
    <3>4. CASE trustCur = None \/ (selection # None /\ ~ValidateStoredSelection(selection))
      <4>1. res'.status = "ERROR"
        <5>1. FailureReceipt(a) = Error
          BY <3>4, Zenon DEF FailureReceipt
        <5> QED
          BY <3>1, <5>1 DEF RecoveryRequired, Error, Result
      <4>2. trustCur = None \/ (selection # None /\ AtExpiry(selection.rcpt))
        BY <1>1, <3>4, SelectionValid, Zenon
      <4> QED
        BY <4>1, <4>2, Zenon DEF FailureTruthful
    <3>5. CASE trustCur # None /\ (selection # None => ValidateStoredSelection(selection))
      <4>1. FailureReceipt(a) = Result("REJECTED", trustCur # a.prior, selection # a.sel)
        BY <3>2, <3>3, <3>5, Zenon DEF FailureReceipt
      <4>2. /\ res'.status = "REJECTED" /\ res'.adv = (trustCur # a.prior)
            /\ res'.chg = (selection # a.sel)
        BY <3>1, <4>1 DEF RecoveryRequired, Result
      <4> QED
        BY <3>2, <4>2, Zenon DEF FailureTruthful
    <3> QED
      BY <3>4, <3>5, Zenon
  <2> QED
    BY <2>4, <2>6, <2>7, Zenon
<1>2. Shape /\ Complete /\ Ledger /\ History /\ Ancestry /\ [Next]_vars =>
        [\A p \in Proc : Told(p)]_vars
  BY <1>1
<1>3. [\A p \in Proc : Told(p)]_vars =>
        [\A p \in Proc : res' # res =>
           /\ \/ pc[p] \in {"finish", "reject"}
              \/ pc[p] = "error" /\ work[p].phase = 2
              => Truthful(p, res')
           /\ pc[p] = "failed" => FailureTruthful(p, res')]_vars
  OBVIOUS
<1> HIDE DEF Told
<1> QED
  BY <1>2, <1>3, SafeAncestry, PTL DEF Spec, ReceiptTruthful

-----------------------------------------------------------------------------
(* The journal *)

Imports == {r \in Requests : r.op = "import"}
RootFiles == UNION {r.pkg.roots \cup {r.boot} : r \in Imports}
RoleFiles(x) == {r.pkg[x] : r \in Imports}

\* A second verification of the package finds nothing more in it: it has no
\* longer run of successive roots than one refresh consumes (MaxRootRotations,
\* verifier.go 102), and no other snapshot has the version and the key of its
\* own. The store admits packages with up to twelve roots, so the first is a
\* condition on the package and not a fact about the code.
Repeatable(pkg) ==
  /\ ~\E v \in Int : \A k \in 1..(MaxRootRotations + 1) : \E x \in pkg.roots : x.v = v + k
  /\ \A a \in RoleFiles("sn") \ {None} :
       pkg.sn # None /\ a.v = pkg.sn.v /\ a.key = pkg.sn.key => a = pkg.sn

\* The files a verification reads.
ReadBy(c) ==
  c.req.pkg.roots \cup {c.req.boot, c.req.pkg.ts, c.req.pkg.sn, c.req.pkg.tg}
    \cup (IF c.prior = None THEN {}
          ELSE {c.prior.root, c.prior.ts, c.prior.sn, c.prior.tg})

\* No verification runs in the rest of a second in which a file it reads
\* expired: the clock floor, which keeps whole seconds, would let a later call
\* see a time before the expiry.
OffExpiry ==
  \A p \in Proc : pc[p] = "verify" =>
    \A m \in ReadBy(call[p]) : Lasts(m, call[p].now, Sec(call[p].now))

\* Every role of a state is one of the files that were imported.
Sourced(s) ==
  /\ s.root \in RootFiles
  /\ \A x \in {"ts", "sn", "tg"} : s[x] \in {None} \cup RoleFiles(x)

\* Verifying the package again, at any time the clock floor k admits and with
\* any bootstrap root, does not move the state.
Settled(s, pkg, k) ==
  \A u \in Instants, f \in Floors, boot \in {r.boot : r \in Imports} :
    u >= k =>
      LET s1 == [s EXCEPT !.floor = f]
          v == VerifyPackage(s1, pkg, boot, u)
      IN  ~v.lost => v.state = s1

\* The selection is the one the journal began with or the one its request was
\* to commit; and if its package is repeatable, it names the trust pointer.
Explained ==
  /\ trustCur # None => clockFloor # NoTime /\ Sourced(trustCur)
  /\ pending # None =>
       /\ trustCur = None => pending.prior = None
       /\ trustCur # None => pending.init = trustCur.init
       /\ pending.want = Identity(pending.want)
       /\ Repeatable(pending.want.pkg) =>
            /\ trustCur \in {pending.prior, pending.published, pending.accepted}
            /\ pending.accepted # None =>
                 Settled(pending.accepted, pending.want.pkg, clockFloor)
       /\ \/ selection = pending.sel
          \/ /\ selection # None
             /\ selection.state = pending.accepted /\ trustCur = pending.accepted
             /\ pending.want.expRev \in {0, selection.rev}
             /\ pending.want.expBundle \in {None, selection.bundle}
             /\ pending.want.plan # None => selection.rcpt.plan = pending.want.plan

\* The journal of the import that runs is this import's, and for a repeatable
\* package it is never without the state the pointer holds.
Resuming(p) ==
  /\ pc[p] \in Journaling => /\ pending.want = Identity(call[p].req)
                             /\ pending.init = InitialRoot(call[p].prior, call[p].req)
  /\ pc[p] \in Choosing => selection = pending.sel
  /\ pc[p] \in Persisting \cup PointerSet =>
       /\ work[p].state.init = pending.init /\ Sourced(work[p].state)
       /\ Repeatable(call[p].req.pkg) => Settled(work[p].state, call[p].req.pkg, clockFloor)
  /\ pc[p] \in Persisting /\ work[p].phase = 1 /\ Repeatable(call[p].req.pkg) =>
       trustCur \in {pending.prior, pending.published, work[p].state}
  /\ pc[p] = "admit" \/ (pc[p] \in Persisting /\ work[p].phase # 1) =>
       pending.published = trustCur
  /\ pc[p] \in {"pointer"} \cup PointerSet => pending.accepted = work[p].state

Journal == Explained /\ \A p \in Proc : Resuming(p)

\* The floor is the only field of a state that an admission changes.
LEMMA SettledRaised ==
  ASSUME NEW s, SoundState(s), NEW pkg, NEW k, Sourced(s), NEW g
  PROVE  LET r == [s EXCEPT !.floor = g]
         IN  (Settled(s, pkg, k) => Settled(r, pkg, k)) /\ Sourced(r) /\ r.init = s.init
<1> DEFINE r == [s EXCEPT !.floor = g]
<1>1. s = AsState(s)
  BY DEF SoundState
<1>2. r.init = s.init /\ r.root = s.root /\ r.ts = s.ts /\ r.sn = s.sn /\ r.tg = s.tg
  BY <1>1 DEF AsState
<1>3. \A f : [r EXCEPT !.floor = f] = [s EXCEPT !.floor = f]
  BY Zenon
<1> HIDE DEF r
<1>4. ASSUME Settled(s, pkg, k) PROVE Settled(r, pkg, k)
  <2> SUFFICES ASSUME NEW u \in Instants, NEW f \in Floors, NEW boot \in {q.boot : q \in Imports},
                      u >= k
               PROVE  LET s1 == [r EXCEPT !.floor = f]
                          v == VerifyPackage(s1, pkg, boot, u)
                      IN  ~v.lost => v.state = s1
    BY Zenon DEF Settled
  <2>1. LET s1 == [s EXCEPT !.floor = f]
            v == VerifyPackage(s1, pkg, boot, u)
        IN  ~v.lost => v.state = s1
    BY <1>4, Zenon DEF Settled
  <2>2. [r EXCEPT !.floor = f] = [s EXCEPT !.floor = f]
    BY <1>3
  <2> QED
    BY <2>1, <2>2, Zenon
<1>5. Sourced(r)
  BY <1>2 DEF Sourced
<1> QED
  BY <1>2, <1>4, <1>5, Zenon DEF r

\* What does not move the state does not move it later.
LEMMA SettledLater ==
  ASSUME Shape, Clock, Next, NEW s, NEW pkg, Settled(s, pkg, clockFloor)
  PROVE  Settled(s, pkg, clockFloor')
<1>1. clockFloor' >= clockFloor /\ clockFloor' \in Int /\ clockFloor \in Int
  BY ClockStep, ShapeStep, MaxTimeAssumption DEF Shape, TypeOK, NoTime, Instants
<1>2. \A u \in Instants : u >= clockFloor' => u >= clockFloor
  BY <1>1, MaxTimeAssumption DEF Instants
<1> QED
  BY <1>2, Zenon DEF Settled

\* A repeatable package has no root after the last one a refresh consumes.
LEMMA ChainEnds ==
  ASSUME NEW pkg, Repeatable(pkg), NEW r, r.v \in Int, Hops(r, pkg) = MaxRootRotations
  PROVE  ~\E x \in pkg.roots : x.v = r.v + MaxRootRotations + 1
<1> SUFFICES ASSUME NEW x \in pkg.roots, x.v = r.v + MaxRootRotations + 1
             PROVE  FALSE
  OBVIOUS
<1>1. \A k \in 1..MaxRootRotations : \E y \in pkg.roots : y.v = r.v + k
  BY HopsReached DEF Reach, Accepts
<1>2. \A k \in 1..(MaxRootRotations + 1) : \E y \in pkg.roots : y.v = r.v + k
  <2> TAKE k \in 1..(MaxRootRotations + 1)
  <2>1. CASE k = MaxRootRotations + 1
    BY <2>1, RotationsAssumption
  <2>2. CASE k \in 1..MaxRootRotations
    BY <1>1, <2>2
  <2> QED
    BY <2>1, <2>2, RotationsAssumption
<1>3. \E v \in Int : \A k \in 1..(MaxRootRotations + 1) : \E y \in pkg.roots : y.v = v + k
  BY <1>2, Zenon
<1> QED
  BY <1>3, Zenon DEF Repeatable

\* What the verification of an import reads lasts until the floor it stored.
LEMMA ReadLasts ==
  ASSUME OffExpiry, Shape, Trust, Ledger, History, Journal,
         NEW p \in Proc, pc[p] = "verify", Repeatable(call[p].req.pkg),
         NEW u \in Instants, u >= clockFloor
  PROVE  /\ LastingFiles(call[p].prior, call[p].req.boot, call[p].req.pkg, call[p].now, u)
         /\ LET r0 == IF call[p].prior = None THEN call[p].req.boot ELSE call[p].prior.root
            IN  Hops(r0, call[p].req.pkg) = MaxRootRotations =>
                  ~\E x \in call[p].req.pkg.roots : x.v = r0.v + MaxRootRotations + 1
<1> DEFINE c == call[p]
           pkg == c.req.pkg
           r0 == IF c.prior = None THEN c.req.boot ELSE c.prior.root
<1>1. /\ c.req \in Imports /\ c.prior = trustCur /\ Sec(c.now) <= clockFloor
      /\ trustCur # None => SoundState(trustCur) /\ Sourced(trustCur)
  BY Zenon DEF Shape, Trust, InCall, Importing, Opening, Journaling, Imports, Ledger, Accounts,
     History, Journal, Explained
<1>2. Rooted(c.prior, c.req.boot) /\ WellFormed(pkg)
  BY ImportRooted
<1>3. \A m \in ReadBy(c) : Lasts(m, c.now, Sec(c.now))
  BY DEF OffExpiry
<1>4. u \in Int /\ Sec(c.now) \in Int /\ u >= Sec(c.now)
  BY <1>1, SecInstant, MaxTimeAssumption DEF Shape, TypeOK, Instants, NoTime
<1>5. (c.req.boot # None => Signed(c.req.boot)) /\ Repeatable(pkg)
  BY <1>1, RequestsAssumption, Zenon DEF Imports
<1> HIDE DEF c
<1>6. \A m \in ReadBy(c) : m # None => m.exp \in Int
  <2>1. ASSUME NEW m \in pkg.roots \cup {c.req.boot, pkg.ts, pkg.sn, pkg.tg}, m # None
        PROVE  m.exp \in Int
    BY <1>2, <1>5, <2>1, Zenon DEF WellFormed, Signed
  <2>2. ASSUME c.prior # None, NEW m \in {c.prior.root, c.prior.ts, c.prior.sn, c.prior.tg},
               m # None
        PROVE  m.exp \in Int
    BY <1>2, <2>2, Zenon DEF Rooted, SoundState, TimestampSound, SnapshotSound, TargetsSound,
       Signed
  <2> QED
    BY <2>1, <2>2, Zenon DEF ReadBy
<1>7. \A m \in ReadBy(c) : Lasts(m, c.now, u)
  <2> SUFFICES ASSUME NEW m \in ReadBy(c), m # None, IsExpired(m, c.now)
               PROVE  IsExpired(m, u)
    BY DEF Lasts
  <2>1. m.exp \in Int /\ IsExpired(m, Sec(c.now))
    BY <1>3, <1>6, Zenon DEF Lasts
  <2> QED
    BY <1>4, <2>1 DEF IsExpired
<1>8. c.prior # None => (/\ c.prior.sn # None /\ pkg.sn # None
                         /\ c.prior.sn.v = pkg.sn.v /\ c.prior.sn.key = pkg.sn.key
                         => c.prior.sn = pkg.sn)
  <2> SUFFICES ASSUME c.prior # None, c.prior.sn # None, pkg.sn # None
               PROVE  c.prior.sn \in RoleFiles("sn") \ {None}
    BY <1>5, Zenon DEF Repeatable
  <2> QED
    BY <1>1 DEF Sourced
<1>9. LastingFiles(c.prior, c.req.boot, pkg, c.now, u)
  BY <1>7, <1>8, Zenon DEF LastingFiles, ReadBy
<1>10. r0.v \in Int
  BY <1>2, Zenon DEF Rooted, SoundState, Signed
<1>11. Hops(r0, pkg) = MaxRootRotations => ~\E x \in pkg.roots : x.v = r0.v + MaxRootRotations + 1
  <2> HIDE DEF r0
  <2> QED
    BY <1>5, <1>10, ChainEnds, Zenon
<1> QED
  BY <1>9, <1>11, Zenon DEF c

\* What a verification of an import leaves, and that it stays there.
LEMMA VerifiedSettled ==
  ASSUME OffExpiry, Shape, Clock, Trust, Ledger, History, Journal,
         NEW p \in Proc, pc[p] = "verify", ~Outcome(p).lost
  PROVE  LET s == Outcome(p).state IN
         /\ s.init = pending.init /\ Sourced(s)
         /\ Repeatable(call[p].req.pkg) =>
              /\ Settled(s, call[p].req.pkg, clockFloor)
              /\ trustCur \in {pending.prior, pending.published, s}
<1> DEFINE c == call[p]
           pkg == c.req.pkg
           s == Outcome(p).state
<1>1. /\ c.req \in Imports /\ c.prior = trustCur
      /\ trustCur # None => SoundState(trustCur) /\ Sourced(trustCur) /\ IsState(trustCur)
      /\ pending # None /\ pending.want = Identity(c.req)
      /\ pending.init = InitialRoot(c.prior, c.req)
  BY Zenon DEF Shape, Trust, Held, InCall, Importing, Opening, Journaling, Imports, Ledger, Accounts,
     History, Journal, Explained, Resuming
<1>2. Rooted(c.prior, c.req.boot) /\ WellFormed(pkg)
  BY ImportRooted
<1>3. c.now \in Instants /\ c.now >= clockFloor
  BY Zenon DEF Shape, TypeOK, Clock, Timed, Critical, PCs
<1>4. SoundState(s)
  BY <1>2, VerifySound, Zenon DEF Outcome
<1>5. /\ s.init = (IF c.prior = None THEN c.req.boot ELSE c.prior.init)
      /\ s.root \in {IF c.prior = None THEN c.req.boot ELSE c.prior.root} \cup pkg.roots
      /\ s.ts \in {None, IF c.prior = None THEN None ELSE c.prior.ts, pkg.ts}
      /\ s.sn \in {None, IF c.prior = None THEN None ELSE c.prior.sn, pkg.sn}
      /\ s.tg \in {None, IF c.prior = None THEN None ELSE c.prior.tg, pkg.tg}
  <2>1. ~VerifyPackage(c.prior, pkg, c.req.boot, c.now).lost
    BY Zenon DEF Outcome
  <2>2. s = VerifyPackage(c.prior, pkg, c.req.boot, c.now).state
    BY Zenon DEF Outcome
  <2> HIDE DEF s, c
  <2>3. TakenFrom(s, c.prior, c.req.boot, pkg)
    BY <1>2, <2>1, <2>2, VerifySources
  <2> QED
    BY <2>3, Zenon DEF TakenFrom
<1>6. s.init = pending.init
  BY <1>1, <1>5, Zenon DEF InitialRoot
<1> HIDE DEF c, s
<1>7. Sourced(s)
  <2>1. s.root \in RootFiles
    <3>1. c.req.boot \in RootFiles /\ pkg.roots \subseteq RootFiles
      BY <1>1, ZenonT(30) DEF RootFiles
    <3> QED
      BY <1>1, <1>5, <3>1, Zenon DEF Sourced
  <2>2. pkg.ts \in RoleFiles("ts") /\ pkg.sn \in RoleFiles("sn") /\ pkg.tg \in RoleFiles("tg")
    BY <1>1, Zenon DEF RoleFiles
  <2>3. c.prior # None => /\ c.prior.ts \in {None} \cup RoleFiles("ts")
                          /\ c.prior.sn \in {None} \cup RoleFiles("sn")
                          /\ c.prior.tg \in {None} \cup RoleFiles("tg")
    BY <1>1 DEF Sourced
  <2>4. /\ s.ts \in {None} \cup RoleFiles("ts")
        /\ s.sn \in {None} \cup RoleFiles("sn")
        /\ s.tg \in {None} \cup RoleFiles("tg")
    BY <1>5, <2>2, <2>3, Zenon
  <2> QED
    BY <2>1, <2>4 DEF Sourced
<1>8. ASSUME Repeatable(pkg) PROVE Settled(s, pkg, clockFloor)
  <2> SUFFICES ASSUME NEW u \in Instants, NEW f \in Floors, NEW boot, u >= clockFloor
               PROVE  LET s1 == [s EXCEPT !.floor = f]
                          v == VerifyPackage(s1, pkg, boot, u)
                      IN  ~v.lost => v.state = s1
    BY Zenon DEF Settled
  <2> DEFINE s1 == [s EXCEPT !.floor = f]
  <2>1. s1.floor = f
    BY <1>4 DEF SoundState, AsState
  <2>2. /\ LastingFiles(c.prior, c.req.boot, pkg, c.now, u)
        /\ LET r0 == IF c.prior = None THEN c.req.boot ELSE c.prior.root
           IN  Hops(r0, pkg) = MaxRootRotations =>
                 ~\E x \in pkg.roots : x.v = r0.v + MaxRootRotations + 1
    BY <1>8, ReadLasts, Zenon DEF c
  <2>3. s = VerifyPackage(c.prior, pkg, c.req.boot, c.now).state
        /\ ~VerifyPackage(c.prior, pkg, c.req.boot, c.now).lost
    BY Zenon DEF s, c, Outcome
  <2>4. s1 = [VerifyPackage(c.prior, pkg, c.req.boot, c.now).state EXCEPT !.floor = s1.floor]
    BY <2>1, <2>3, Zenon
  <2> HIDE DEF s1
  <2> QED
    BY <1>2, <2>2, <2>3, <2>4, VerifyLater, SMTT(30) DEF s1
<1>9. ASSUME Repeatable(pkg) PROVE trustCur \in {pending.prior, pending.published, s}
  <2>0. pkg = pending.want.pkg
    BY <1>1, SMTT(30) DEF Identity
  <2>1. /\ trustCur \in {pending.prior, pending.published, pending.accepted}
        /\ trustCur = None => pending.prior = None
        /\ pending.accepted # None => Settled(pending.accepted, pending.want.pkg, clockFloor)
    BY <1>1, <1>9, <2>0, Zenon DEF Journal, Explained
  <2>2. ASSUME trustCur # None, trustCur = pending.accepted PROVE s = trustCur
    <3>1. Settled(trustCur, pkg, clockFloor)
      BY <2>0, <2>1, <2>2, Zenon
    <3>2. trustCur = [trustCur EXCEPT !.floor = trustCur.floor] /\ trustCur.floor \in Floors
      BY <1>1, <2>2 DEF IsState, HasFields
    <3>3. c.req.boot \in {r.boot : r \in Imports}
      BY <1>1, Zenon
    <3>4. LET v == VerifyPackage(trustCur, pkg, c.req.boot, c.now)
          IN  ~v.lost => v.state = trustCur
      <4>1. LET s1 == [trustCur EXCEPT !.floor = trustCur.floor]
                v == VerifyPackage(s1, pkg, c.req.boot, c.now)
            IN  ~v.lost => v.state = s1
        BY <1>3, <3>1, <3>2, <3>3, ZenonT(30) DEF Settled
      <4> QED
        BY <3>2, <4>1, Zenon
    <3> QED
      BY <1>1, <3>4, Zenon DEF s, c, Outcome
  <2> QED
    BY <2>1, <2>2
<1> QED
  BY <1>6, <1>7, <1>8, <1>9, Zenon DEF c, s

\* The journal of the process that moves.
LEMMA ResumingStep ==
  ASSUME OffExpiry, Shape, Clock, Trust, Ledger, History, Journal, Next,
         NEW p \in Proc, Enters(p) \/ Leaves(p) \/ Inner(p)
  PROVE  Resuming(p)'
<1> USE DEF Journaling, Choosing, Persisting, Admitted, PointerSet
<1>a. Resuming(p) /\ InCall(p) /\ (pending # None => DOMAIN pending = PendingFields)
  BY DEF Journal, Trust, Held
<1>m. \A s, pkg : Settled(s, pkg, clockFloor) => Settled(s, pkg, clockFloor')
  BY SettledLater
<1>1. CASE Enters(p)
  BY <1>1, Zenon DEF Enters, Resuming
<1>2. CASE Leaves(p)
  BY <1>2, Zenon DEF Leaves, Resuming
<1>3. CASE Inner(p) /\ AtMarker(p)
  BY <1>3, Zenon DEF AtMarker, Resuming
<1>4. CASE Inner(p) /\ AtCheck(p)
  BY <1>4, Zenon DEF AtCheck, Resuming
<1>5. CASE Inner(p) /\ AtClear(p)
  BY <1>5, Zenon DEF AtClear, Resuming
<1>6. CASE Inner(p) /\ AtBegin(p)
  <2> DEFINE j == Transaction(call[p])
  <2>1. /\ j.want = Identity(call[p].req) /\ j.sel = selection
        /\ j.init = InitialRoot(call[p].prior, call[p].req)
    BY DEF Transaction
  <2> HIDE DEF j
  <2>2. /\ call'[p].req = call[p].req /\ call'[p].prior = call[p].prior
        /\ selection' = selection
        /\ \/ pc'[p] = "error"
           \/ pc'[p] = "floor" /\ pending' = j
           \/ pc'[p] = "floor" /\ pending' = pending /\ Resumes(pending, call[p])
    BY <1>6 DEF AtBegin, j
  <2>3. CASE pc'[p] = "error"
    BY <2>3, Zenon DEF Resuming
  <2>4. CASE pc'[p] = "floor"
    BY <2>1, <2>2, <2>4, Zenon DEF Resumes, InitialRoot, Resuming
  <2> QED
    BY <2>2, <2>3, <2>4, Zenon
<1>7. CASE Inner(p) /\ AtFloor(p)
  BY <1>a, <1>7, Zenon DEF AtFloor, Keeps, Resuming
<1>8. CASE Inner(p) /\ AtVerify(p)
  <2>1. LET s == Outcome(p).state IN
        /\ s.init = pending.init /\ Sourced(s)
        /\ Repeatable(call[p].req.pkg) =>
             /\ Settled(s, call[p].req.pkg, clockFloor)
             /\ trustCur \in {pending.prior, pending.published, s}
    BY <1>8, VerifiedSettled, Zenon DEF AtVerify
  <2>2. /\ pc'[p] = "state" /\ work'[p].state = Outcome(p).state /\ call'[p] = call[p]
        /\ work'[p].phase = 1 /\ UNCHANGED <<pending, trustCur, selection, clockFloor>>
    BY <1>8, Zenon DEF AtVerify, durable
  <2>3. /\ pending.want = Identity(call[p].req) /\ selection = pending.sel
        /\ pending.init = InitialRoot(call[p].prior, call[p].req)
    BY <1>a, <1>8, Zenon DEF AtVerify, Resuming
  <2> QED
    BY <2>1, <2>2, <2>3, Zenon DEF Resuming
<1>9. CASE Inner(p) /\ AtState(p)
  BY <1>a, <1>9, Zenon DEF AtState, Keeps, Resuming
<1>10. CASE Inner(p) /\ AtStateFloor(p)
  BY <1>a, <1>m, <1>10, Zenon DEF AtStateFloor, Keeps, Resuming
<1>11. CASE Inner(p) /\ AtFiles(p)
  BY <1>a, <1>11, Zenon DEF AtFiles, Keeps, Resuming
<1>12. CASE Inner(p) /\ AtAccepted(p)
  <2>1. CASE pc'[p] = "failed"
    BY <2>1, Zenon DEF Resuming
  <2>2. CASE pc'[p] = "pointer"
    <3>1. /\ pc[p] = "accepted" /\ Keeps(p) /\ UNCHANGED <<trustCur, selection, clockFloor>>
          /\ pending # None /\ pending' = [pending EXCEPT !.accepted = work[p].state]
      BY <1>12, <2>2 DEF AtAccepted
    <3>2. /\ pending'.accepted = work[p].state /\ pending'.want = pending.want
          /\ pending'.init = pending.init /\ pending'.sel = pending.sel
          /\ pending'.prior = pending.prior /\ pending'.published = pending.published
      BY <1>a, <3>1, SMTT(30) DEF PendingFields
    <3> QED
      BY <1>a, <2>2, <3>1, <3>2, Zenon DEF Resuming, Keeps
  <2> QED
    BY <1>12, <2>1, <2>2 DEF AtAccepted
<1>13. CASE Inner(p) /\ AtPointer(p)
  BY <1>a, <1>13, Zenon DEF AtPointer, Resuming
<1>14. CASE Inner(p) /\ AtPublished(p)
  <2>1. CASE pc'[p] = "failed"
    BY <2>1 DEF Resuming
  <2>2. CASE pc'[p] \in {"admit", "select"}
    <3>1. /\ pc[p] = "published" /\ Keeps(p) /\ UNCHANGED <<trustCur, selection, clockFloor>>
          /\ pending # None /\ pending' = [pending EXCEPT !.published = work[p].state]
      BY <1>14, <2>2 DEF AtPublished
    <3>2. /\ pending'.published = work[p].state /\ pending'.want = pending.want
          /\ pending'.init = pending.init /\ pending'.sel = pending.sel
          /\ pending'.accepted = pending.accepted
      BY <1>a, <3>1 DEF PendingFields
    <3> QED
      BY <1>a, <2>2, <3>1, <3>2, Zenon DEF Resuming, Keeps, InCall
  <2> QED
    BY <1>14, <2>1, <2>2, SMTT(30) DEF AtPublished
<1>15. CASE Inner(p) /\ AtAdmit(p)
  <2>1. CASE pc'[p] = "reject"
    BY <1>a, <1>15, <2>1, Zenon DEF AtAdmit, Resuming, durable
  <2>2. CASE pc'[p] = "state"
    <3> DEFINE s == work[p].state
    <3>1. /\ pc[p] = "admit" /\ call'[p] = call[p] /\ UNCHANGED durable
          /\ work'[p].state = RaisedFloor(s) /\ work'[p].phase = 2
      BY <1>15, <2>2, Zenon DEF AtAdmit
    <3>2. /\ SoundState(s) /\ Sourced(s) /\ s.init = pending.init
          /\ Repeatable(call[p].req.pkg) => Settled(s, call[p].req.pkg, clockFloor)
      BY <1>a, <3>1, Zenon DEF History, Vouched, Resuming
    <3>3. /\ Sourced(RaisedFloor(s)) /\ RaisedFloor(s).init = pending.init
          /\ Repeatable(call[p].req.pkg) => Settled(RaisedFloor(s), call[p].req.pkg, clockFloor)
      BY <3>2, SettledRaised, Zenon DEF RaisedFloor
    <3> QED
      BY <1>a, <2>2, <3>1, <3>3, Zenon DEF Resuming, durable
  <2> QED
    BY <1>15, <2>1, <2>2, Zenon DEF AtAdmit
<1>16. CASE Inner(p) /\ AtSelect(p)
  BY <1>a, <1>16, Zenon DEF AtSelect, Resuming, durable
<1>17. CASE Inner(p) /\ AtAdmission(p)
  <2>1. /\ pc[p] \in Admitted /\ pc'[p] \in Admitted \cup {"failed"} /\ Keeps(p)
        /\ UNCHANGED <<trustCur, pending, selection, clockFloor>>
    BY <1>17, Zenon DEF AtAdmission, Admitted
  <2> QED
    BY <1>a, <2>1, Zenon DEF Keeps, Resuming, Admitted
<1>18. CASE Inner(p) /\ AtSelection(p)
  BY <1>a, <1>18, Zenon DEF AtSelection, Resuming
<1>19. CASE Inner(p) /\ AtFinish(p)
  BY <1>19, Zenon DEF AtFinish, Resuming
<1>20. CASE Inner(p) /\ AtReader(p)
  BY <1>20, Zenon DEF AtReader, Resuming
<1> QED
  BY <1>1, <1>2, <1>3, <1>4, <1>5, <1>6, <1>7, <1>8, <1>9, <1>10, <1>11, <1>12, <1>13,
     <1>14, <1>15, <1>16, <1>17, <1>18, <1>19, <1>20, Zenon DEF Inner

\* Every step leaves a journal that explains the store.
LEMMA ExplainedStep ==
  ASSUME Shape, Clock, Trust, Ledger, History, Journal, Next,
         NEW p \in Proc, Outer(p) \/ Enters(p) \/ Leaves(p) \/ Inner(p)
  PROVE  Explained'
<1> USE DEF Journaling, Choosing, Persisting, Admitted, PointerSet
<1>a. /\ Explained /\ Resuming(p) /\ InCall(p) /\ Accounts(p)
      /\ pending # None => DOMAIN pending = PendingFields
  BY DEF Journal, Trust, Held, Ledger
<1>m. \A s, pkg : Settled(s, pkg, clockFloor) => Settled(s, pkg, clockFloor')
  BY SettledLater, Zenon
<1>c. clockFloor' >= clockFloor /\ clockFloor' \in Int /\ clockFloor \in {NoTime} \cup Instants
  BY ClockStep, ShapeStep, MaxTimeAssumption, SMTT(30) DEF Shape, TypeOK, NoTime, Instants
<1>n. \A k \in Instants : k <= clockFloor => clockFloor # NoTime
  BY MaxTimeAssumption DEF NoTime, Instants
<1>d. clockFloor # NoTime => clockFloor' # NoTime
  BY <1>c, MaxTimeAssumption DEF NoTime, Instants
<1>1. \/ UNCHANGED <<trustCur, selection>> /\ pending' \in {None, pending}
      \/ AtBegin(p) /\ pending' = Transaction(call[p])
      \/ AtAccepted(p) /\ pending # None /\ pending' = [pending EXCEPT !.accepted = work[p].state]
      \/ AtPointer(p) /\ trustCur' = work[p].state
      \/ AtPublished(p) /\ pending # None /\ pending' = [pending EXCEPT !.published = work[p].state]
      \/ AtSelection(p) /\ selection' = NewSelection(work[p])
  BY Writes, Zenon
<1>2. CASE UNCHANGED <<trustCur, selection>> /\ pending' \in {None, pending}
  BY <1>a, <1>m, <1>d, <1>2, Zenon DEF Explained
<1>3. CASE AtBegin(p) /\ pending' = Transaction(call[p])
  <2>1. /\ UNCHANGED <<trustCur, selection>> /\ call[p].prior = trustCur
    BY <1>a, <1>3, Zenon DEF AtBegin, InCall, Opening
  <2>2. /\ pending'.prior = trustCur /\ pending'.sel = selection /\ pending'.accepted = None
        /\ pending'.init = InitialRoot(trustCur, call[p].req)
        /\ pending'.want = Identity(call[p].req)
    BY <1>3, <2>1, Zenon DEF Transaction
  <2>3. Identity(Identity(call[p].req)) = Identity(call[p].req)
    BY Zenon DEF Identity
  <2> QED
    BY <1>a, <1>d, <2>1, <2>2, <2>3, Zenon DEF Explained, InitialRoot
<1>4. CASE AtAccepted(p) /\ pending # None
           /\ pending' = [pending EXCEPT !.accepted = work[p].state]
  <2>1. /\ pc[p] = "accepted" /\ UNCHANGED <<trustCur, selection, clockFloor>>
    BY <1>4 DEF AtAccepted
  <2>2. /\ pending'.accepted = work[p].state /\ pending'.want = pending.want
        /\ pending'.init = pending.init /\ pending'.sel = pending.sel
        /\ pending'.prior = pending.prior /\ pending'.published = pending.published
    BY <1>a, <1>4, SMTT(30) DEF PendingFields
  <2>3. /\ selection = pending.sel /\ pending.want = Identity(call[p].req)
        /\ Repeatable(call[p].req.pkg) =>
             /\ trustCur \in {pending.prior, pending.published, work[p].state}
             /\ Settled(work[p].state, call[p].req.pkg, clockFloor)
    BY <1>a, <2>1, Zenon DEF Resuming
  <2>4. pending.want.pkg = call[p].req.pkg
    BY <2>3, SMTT(30) DEF Identity
  <2> QED
    BY <1>a, <1>4, <2>1, <2>2, <2>3, <2>4, ZenonT(60) DEF Explained
<1>5. CASE AtPointer(p) /\ trustCur' = work[p].state
  <2>1. /\ pc[p] = "pointer" /\ UNCHANGED <<pending, selection, clockFloor>>
    BY <1>5, Zenon DEF AtPointer
  <2>2. /\ pending # None /\ IsState(work[p].state) /\ Sec(call[p].now) <= clockFloor
    BY <1>a, <2>1, Zenon DEF InCall, Accounts
  <2>3. /\ Sourced(work[p].state) /\ work[p].state.init = pending.init
        /\ pending.accepted = work[p].state /\ selection = pending.sel
    BY <1>a, <2>1, Zenon DEF Resuming
  <2>4. work[p].state # None
    BY <2>2, Present, Zenon DEF IsState, HasFields, StateFields
  <2>5. clockFloor # NoTime
    BY <1>n, <2>2, SecInstant, Zenon DEF Shape, TypeOK
  <2> QED
    BY <1>a, <1>5, <2>1, <2>2, <2>3, <2>4, <2>5, Zenon DEF Explained
<1>6. CASE AtPublished(p) /\ pending # None
           /\ pending' = [pending EXCEPT !.published = work[p].state]
  <2>1. /\ pc[p] = "published" /\ UNCHANGED <<trustCur, selection, clockFloor>>
        /\ trustCur = work[p].state
    BY <1>a, <1>6, Zenon DEF AtPublished, InCall
  <2>2. /\ pending'.published = work[p].state /\ pending'.want = pending.want
        /\ pending'.init = pending.init /\ pending'.sel = pending.sel
        /\ pending'.prior = pending.prior /\ pending'.accepted = pending.accepted
    BY <1>a, <1>6, SMTT(30) DEF PendingFields
  <2> QED
    BY <1>a, <1>6, <2>1, <2>2, Zenon DEF Explained
<1>7. CASE AtSelection(p) /\ selection' = NewSelection(work[p])
  <2> DEFINE s == work[p].state
             r == work[p].rcpt
  <2>1. /\ pc[p] = "selection" /\ UNCHANGED <<trustCur, pending, clockFloor>>
    BY <1>7, Zenon DEF AtSelection
  <2>2. /\ pending # None /\ trustCur = s /\ Agreed(call[p], s) /\ r = NewReceipt(call[p], s)
        /\ pending.accepted = s /\ pending.want = Identity(call[p].req)
    BY <1>a, <2>1, Zenon DEF InCall, History, Vouched, Accounts, Resuming
  <2>3. /\ r.rev = s.floor.rev /\ r.bundle = s.floor.bundle /\ r.plan = call[p].req.plan
    <3>1. r = NewReceipt(call[p], s)
      BY <2>2, Zenon
    <3> HIDE DEF s, r
    <3> QED
      BY <3>1 DEF NewReceipt
  <2>4. /\ pending.want.expRev = call[p].req.expRev /\ pending.want.plan = call[p].req.plan
        /\ pending.want.expBundle = call[p].req.expBundle
    <3>1. pending.want = Identity(call[p].req)
      BY <2>2, Zenon
    <3> QED
      BY <3>1 DEF Identity
  <2> HIDE DEF s, r
  <2>5. /\ selection' # None /\ selection'.state = s /\ selection'.rcpt = r
        /\ selection'.rev = r.rev /\ selection'.bundle = r.bundle
    BY <1>7, Present, Zenon DEF NewSelection, s, r
  <2>6. /\ call[p].req.expRev \in {0, s.floor.rev}
        /\ call[p].req.expBundle \in {None, s.floor.bundle}
    BY <2>2, Zenon DEF Agreed
  <2> QED
    BY <1>a, <2>1, <2>2, <2>3, <2>4, <2>5, <2>6, Zenon DEF Explained
<1> QED
  BY <1>1, <1>2, <1>3, <1>4, <1>5, <1>6, <1>7, Zenon

\* Every step keeps the journal.
LEMMA JournalKept ==
  ASSUME OffExpiry, Shape, Clock, Trust, Ledger, History, Journal, [Next]_vars
  PROVE  Journal'
<1>0. CASE UNCHANGED vars
  BY <1>0, ZenonT(60) DEF Journal, Explained, Resuming, vars, durable
<1> SUFFICES ASSUME Next PROVE Journal'
  BY <1>0
<1>1. PICK p \in Proc :
        /\ Outer(p) \/ Enters(p) \/ Leaves(p) \/ Inner(p)
        /\ \A q \in Proc \ {p} :
             /\ pc'[q] = pc[q] /\ call'[q] = call[q] /\ work'[q] = work[q]
             /\ ~Outer(p) => pc[q] \in Outside
  BY StepTable, Zenon
<1>2. ASSUME NEW q \in Proc \ {p} PROVE Resuming(q)'
  <2>1. CASE Outer(p)
    BY <1>1, <1>2, <2>1, ZenonT(60) DEF Journal, Resuming, Outer, durable
  <2>2. CASE ~Outer(p)
    BY <1>1, <1>2, <2>2, Zenon
    DEF Resuming, Outside, Journaling, Choosing, Persisting, Admitted, PointerSet
  <2> QED
    BY <2>1, <2>2
<1>3. Resuming(p)'
  <2>1. CASE Outer(p)
    BY <2>1, Zenon DEF Outer, Resuming, Outside, Journaling, Choosing, Persisting, Admitted, PointerSet
  <2>2. CASE Enters(p) \/ Leaves(p) \/ Inner(p)
    BY <2>2, ResumingStep
  <2> QED
    BY <1>1, <2>1, <2>2, Zenon
<1>4. Explained'
  BY <1>1, ExplainedStep, Zenon
<1> QED
  BY <1>2, <1>3, <1>4, Zenon DEF Journal

\* The invariants together, for calls that do not race an expiry.
THEOREM SafeJournal ==
  Spec /\ []OffExpiry => [](Shape /\ Trust /\ Complete /\ Ledger /\ History /\ Journal)
<1>1. Init => Journal
  <2> SUFFICES ASSUME Init PROVE Journal
    OBVIOUS
  <2>1. \A p \in Proc : Resuming(p)
    BY Zenon DEF Init, Resuming, Journaling, Choosing, Persisting, Admitted, PointerSet
  <2> QED
    BY <2>1, Zenon DEF Init, Journal, Explained
<1>2. Shape /\ Clock /\ Trust /\ Ledger /\ History /\ OffExpiry /\ Journal /\ [Next]_vars
        => Journal'
  BY JournalKept
<1> QED
  BY <1>1, <1>2, SafeHistory, PTL DEF Spec

\* JournalMatchesStore for the journals of repeatable packages: the journal an
\* interrupted import leaves, at whatever write it died, names the trust state
\* and the selection the store holds. It is about runs in which no verification
\* happens in the rest of a second in which a file it reads expired.
THEOREM JournalAlwaysMatches ==
  Spec /\ []OffExpiry =>
    [](pending # None /\ Repeatable(pending.want.pkg) => JournalMatchesStore)
<1>1. Journal => (pending # None /\ Repeatable(pending.want.pkg) => JournalMatchesStore)
  BY Zenon DEF Journal, Explained, JournalMatchesStore
<1> QED
  BY <1>1, SafeJournal, PTL

\* JournalResumable under the same conditions: the exact retry is accepted, with
\* and without the bootstrap root, at any time the clock floor and the journal
\* admit. A package with a longer run of roots than one refresh consumes can
\* make the store refuse it.
THEOREM JournalAlwaysResumable ==
  Spec /\ []OffExpiry =>
    [](pending # None /\ Repeatable(pending.want.pkg) => JournalResumable)
<1>1. ASSUME Shape, Complete, Ledger, History, Journal,
             pending # None, Repeatable(pending.want.pkg)
      PROVE  JournalResumable
  <2> SUFFICES ASSUME pending # None, trustCur # None,
                      selection # None => ~AtExpiry(selection.rcpt),
                      NEW t \in Instants, NEW boot \in {None, pending.init},
                      t >= clockFloor
               PROVE  AcceptedRetry(boot, t)
    BY Zenon DEF JournalResumable
  <2> DEFINE r == Retry(pending, boot)
             c == [prior |-> trustCur, req |-> r]
  <2>1. /\ r.boot = boot /\ r.pkg = pending.want.pkg /\ r.expRev = pending.want.expRev
        /\ r.expBundle = pending.want.expBundle /\ r.plan = pending.want.plan
    BY Zenon DEF Retry
  <2>2. c.prior = trustCur /\ c.req = r
    BY Zenon
  <2> HIDE DEF r, c
  <2>3. Explained
    BY <1>1 DEF Journal
  <2>4. pending.want = Identity(r)
    BY <2>1, <2>3, Zenon DEF Identity, Explained
  <2>5. pending.init = trustCur.init
    BY <2>3, Zenon DEF Explained
  <2>6. ImportAdmits(r, t)
    <3>1. Loadable(trustCur) /\ clockFloor # NoTime
      BY <1>1, <2>3, Zenon DEF Complete, PointersResolve, Explained
    <3>2. BootstrapAdmits(r)
      BY <2>1, <2>5, Zenon DEF BootstrapAdmits
    <3> QED
      BY <3>1, <3>2, Zenon DEF ImportAdmits, ClockAdmits
  <2>7. CASE selection = pending.sel
    <3>1. trustCur \in {pending.prior, pending.published, pending.accepted}
      BY <1>1, <2>3, Zenon DEF Explained
    <3>2. Resumes(pending, c)
      BY <2>2, <2>4, <2>5, <2>7, <3>1, Zenon DEF Resumes, InitialRoot
    <3> QED
      BY <2>6, <3>2, Zenon DEF AcceptedRetry, r, c
  <2>8. CASE selection # pending.sel
    <3>1. /\ selection # None
          /\ selection.state = pending.accepted /\ trustCur = pending.accepted
          /\ pending.want.expRev \in {0, selection.rev}
          /\ pending.want.expBundle \in {None, selection.bundle}
          /\ pending.want.plan # None => selection.rcpt.plan = pending.want.plan
      BY <2>3, <2>8, Zenon DEF Explained
    <3>2. ValidateStoredSelection(selection)
      BY <1>1, <3>1, SelectionValid, Zenon
    <3>3. Completed(r)
      BY <2>4, <2>5, <3>1, <3>2, Zenon DEF Completed, SelectionCommitted
    <3> QED
      BY <2>6, <3>3, Zenon DEF AcceptedRetry, r
  <2> QED
    BY <2>7, <2>8, Zenon
<1> QED
  BY <1>1, SafeJournal, PTL
=============================================================================
