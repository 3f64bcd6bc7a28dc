--------------------------- MODULE KnowledgeStore ---------------------------
(***************************************************************************)
(* The local knowledge store of internal/knowledge: the files it keeps, the *)
(* import transaction that advances them one durable write at a time under *)
(* the store lock, and the two readers (OpenCurrent, Inspect).             *)
(*                                                                         *)
(* Every write of a file is a step of its own, so a process can die        *)
(* between any two of them, or between a rename and the report of its      *)
(* success. A digest is the value it identifies. Times are ticks; a stored *)
(* time is RFC 3339, which keeps whole seconds. The machine's clock may be *)
(* set in either direction at any moment, so a call that reads it gets any *)
(* instant.                                                                *)
(***************************************************************************)
EXTENDS TUFRefresh, FiniteSets

CONSTANTS
  Proc,            \* processes that use the store
  Requests,        \* the calls they make, records of Request below
  Admission,       \* bundle -> [rev, purpose], what the admit callback says
  Marked,          \* the profile keeps a profile.json marker
  TicksPerSecond,  \* clock resolution
  MaxTime,         \* bound: the last instant a clock can show
  Faults           \* I/O errors happen

ASSUME TicksAssumption == TicksPerSecond \in Nat \ {0}
ASSUME MaxTimeAssumption == MaxTime \in Nat
ASSUME FlagsAssumption == Marked \in BOOLEAN /\ Faults \in BOOLEAN

ASSUME ProcAssumption == None \notin Proc

(* A request is [op, pkg, boot, expRev, expBundle, plan]: op is "import",   *)
(* "open" or "inspect"; boot the operator's bootstrap root or None; expRev  *)
(* (0: none) and expBundle what the caller expects; plan the verification   *)
(* assertions [roles, purpose] or None. A bundle whose rev is 0 is refused  *)
(* by the admit callback, which has an answer for every bundle.             *)
ASSUME RequestsAssumption ==
  \A r \in Requests :
    /\ r.op \in {"import", "open", "inspect"}
    /\ r.op = "import" => r.pkg.bundle \in DOMAIN Admission /\ WellFormed(r.pkg)
    /\ r.boot # None => Signed(r.boot)
    /\ r.plan # None => r.plan = [roles |-> r.plan.roles, purpose |-> r.plan.purpose]
ASSUME AdmissionAssumption ==
  \A b \in DOMAIN Admission : Admission[b].rev \in Nat

VARIABLES
  marker,      \* profile.json exists
  trustCur,    \* trust/current.json
  stateFiles,  \* trust/states, trust/roots and the role files
  pending,     \* import-pending.json
  selection,   \* selection.json
  admFiles,    \* admissions/<bundle>/<receipt>/...
  clockFloor,  \* clock-floor.json
  litter,      \* a temporary file of an interrupted write, in the store root
  holder,      \* the process that holds the flock on .lock
  pc,          \* where each process is
  call,        \* its request and what it read: time, trust, active journal
  work,        \* its verification result and what it is writing
  res,         \* the receipt or status of the latest call to return
  opened       \* the revision the latest OpenCurrent served

durable == <<marker, trustCur, stateFiles, pending, selection, admFiles,
             clockFloor, litter>>
vars == <<durable, holder, pc, call, work, res, opened>>

-----------------------------------------------------------------------------
(* Values *)

Instants == 0..MaxTime
NoTime == -1   \* no clock-floor.json; before every instant

SecUp(t) == (t \div TicksPerSecond + 1) * TicksPerSecond   \* mutant
Sec(t) == (t \div TicksPerSecond) * TicksPerSecond

Roles(s) == [init |-> s.init, root |-> s.root, ts |-> s.ts, sn |-> s.sn,
             tg |-> s.tg]

NoCall == [req |-> None, now |-> 0, prior |-> None, active |-> None]
NoWork == [state |-> None, refresh |-> "none", phase |-> 0,
           changed |-> FALSE, rcpt |-> None, chg |-> FALSE]
NoResult == [status |-> "NONE", adv |-> FALSE, chg |-> FALSE, rec |-> FALSE]

\* A receipt: the outcome, whether it says that trust advanced and that the
\* selection changed. rec: the error is an ErrRecoveryRequired.
Result(status, adv, chg) ==
  [status |-> status, adv |-> adv, chg |-> chg, rec |-> FALSE]
Error == Result("ERROR", FALSE, FALSE)
RecoveryRequired(r) == [r EXCEPT !.rec = TRUE]

\* What a journal entry remembers of the request, besides the bootstrap root.
Identity(req) == [pkg |-> req.pkg, expRev |-> req.expRev,
                  expBundle |-> req.expBundle, plan |-> req.plan]

-----------------------------------------------------------------------------
(* Reading the store *)

\* loadTrustByDigest: the state record, its roots and its role files are there.
Loadable(s) == {<<s, "state">>, <<s, "files">>} \subseteq stateFiles

Uninitialized ==
  /\ ~marker /\ ~litter
  /\ pending = None /\ clockFloor = NoTime /\ selection = None
  /\ trustCur = None /\ stateFiles = {} /\ admFiles = {}

\* emptyForProfile: nothing but the lock and, for a marked profile, the marker.
Empty ==
  /\ marker => Marked
  /\ ~litter
  /\ pending = None /\ clockFloor = NoTime /\ selection = None
  /\ trustCur = None /\ stateFiles = {} /\ admFiles = {}

\* pendingRecoveryShapeForProfile: only what an import writes before the
\* first trust pointer. Any other name in the root refuses recovery.
RecoveryShape ==
  /\ pending # None
  /\ marker => Marked
  /\ ~litter /\ selection = None /\ admFiles = {}

\* validateTrustReceiptForProfile, and admissionMatchesReceipt on its target.
ValidReceipt(r, sel) ==
  /\ r.bundle = sel.bundle /\ r.rev = sel.rev
  /\ r.roles = Roles(sel.state)
  /\ r.expRev \in {0, sel.rev}
  /\ r.expBundle \in {None, sel.bundle}
  /\ r.plan \in {None, [roles |-> r.roles, purpose |-> r.purpose]}
  /\ \A m \in {r.roles.root, r.roles.ts, r.roles.sn, r.roles.tg} \ {None} :
       r.at < m.exp
AdmissionMatches(r, bundle) ==
  Admission[bundle].rev = r.rev /\ Admission[bundle].purpose = r.purpose

\* The three files of an admission are there and bind it to the state.
AdmissionStored(sel) ==
  {<<sel.rcpt, "target", None>>, <<sel.rcpt, "receipt", None>>,
   <<sel.rcpt, "binding", sel.state>>} \subseteq admFiles

\* The stored material verifies again, to itself, at time t.
Reverifies(sel, t) ==
  LET v == VerifyPackage(sel.state, StoredPackage(sel.state, sel.bundle),
                         None, t)
  IN  ~v.lost /\ v.refresh = "none" /\ v.state = sel.state

ValidateStoredSelection(sel) ==
  /\ Loadable(sel.state)
  /\ AdmissionStored(sel)
  /\ ValidReceipt(sel.rcpt, sel)
  /\ Reverifies(sel, sel.rcpt.at)
  /\ AdmissionMatches(sel.rcpt, sel.bundle)

SelectionCommitted(sel, p) ==
  /\ sel.state = p.accepted
  /\ p.want.expRev \in {0, sel.rev}
  /\ p.want.expBundle \in {None, sel.bundle}
  /\ ValidateStoredSelection(sel)
  /\ p.want.plan # None => sel.rcpt.plan = p.want.plan

-----------------------------------------------------------------------------
(* Control *)

local == <<call, work>>

Goto(p, next) == \E k \in next : pc' = [pc EXCEPT ![p] = k]
Failing(k) == IF Faults THEN {k} ELSE {}

\* The call returns r and the deferred unlockStore runs.
Return(p, r) ==
  /\ pc' = [pc EXCEPT ![p] = "idle"]
  /\ holder' = None
  /\ call' = [call EXCEPT ![p] = NoCall]
  /\ work' = [work EXCEPT ![p] = NoWork]
  /\ res' = r

Reject(p, r) == Return(p, r) /\ UNCHANGED <<durable, opened>>

Init ==
  /\ marker = FALSE /\ litter = FALSE
  /\ trustCur = None /\ pending = None /\ selection = None
  /\ stateFiles = {} /\ admFiles = {}
  /\ clockFloor = NoTime
  /\ holder = None
  /\ pc = [p \in Proc |-> "idle"]
  /\ call = [p \in Proc |-> NoCall]
  /\ work = [p \in Proc |-> NoWork]
  /\ res = NoResult
  /\ opened = None

Start(p, r) ==
  /\ pc[p] = "idle"
  /\ call' = [call EXCEPT ![p].req = r]
  /\ pc' = [pc EXCEPT ![p] = "lock"]
  /\ UNCHANGED <<durable, holder, work, res, opened>>

\* mutant: the lock is not waited for
AcquireAnyway(p) ==
  /\ pc[p] = "lock"
  /\ holder' = p
  /\ pc' = [pc EXCEPT ![p] = IF call[p].req.op = "import" THEN "marker"
                              ELSE call[p].req.op]
  /\ res' = NoResult
  /\ UNCHANGED <<durable, local, opened>>

Acquire(p) ==
  /\ pc[p] = "lock"
  /\ holder = None
  /\ holder' = p
  /\ pc' = [pc EXCEPT ![p] = IF call[p].req.op = "import" THEN "marker"
                              ELSE call[p].req.op]
  /\ res' = NoResult
  /\ UNCHANGED <<durable, local, opened>>

\* Five seconds of EWOULDBLOCK.
LockTimeout(p) ==
  /\ pc[p] = "lock"
  /\ holder # None
  /\ pc' = [pc EXCEPT ![p] = "idle"]
  /\ call' = [call EXCEPT ![p] = NoCall]
  /\ UNCHANGED <<durable, holder, work, res, opened>>

-----------------------------------------------------------------------------
(* importWithProfile: the checks before the journal *)

CheckProfileMarker(p) ==
  /\ pc[p] = "marker"
  /\ \/ /\ marker = Marked
        /\ Goto(p, {"check"})
        /\ UNCHANGED <<durable, holder, local, res, opened>>
     \/ /\ Marked /\ ~marker /\ Uninitialized
        /\ \/ marker' = TRUE /\ Goto(p, {"check"} \cup Failing("error"))
           \/ marker' = FALSE /\ Goto(p, Failing("error"))
        /\ UNCHANGED <<trustCur, stateFiles, pending, selection, admFiles,
                       clockFloor, litter, holder, local, res, opened>>
     \/ /\ Marked /\ ~marker /\ ~Uninitialized
        /\ Reject(p, Error)

\* The initial root this call is about: the operator's, or the established one.
InitialRoot(prior, req) == IF prior = None THEN req.boot ELSE prior.init

ClockAdmits(t) == t >= clockFloor

BootstrapAdmits(req) ==
  IF trustCur = None
  THEN /\ Empty \/ RecoveryShape
       /\ req.boot # None
  ELSE req.boot # None => pending # None /\ req.boot = trustCur.init

ImportAdmits(req, t) ==
  /\ trustCur # None => Loadable(trustCur) /\ clockFloor # NoTime
  /\ ClockAdmits(t)
  /\ BootstrapAdmits(req)

\* The interrupted import had already committed its selection.
Completed(req) ==
  /\ pending # None /\ trustCur # None /\ selection # None
  /\ pending.accepted = trustCur
  /\ pending.want = Identity(req)
  /\ pending.init = trustCur.init
  /\ SelectionCommitted(selection, pending)

Check(p, t) ==
  /\ pc[p] = "check"
  /\ \/ /\ ImportAdmits(call[p].req, t)
        /\ call' = [call EXCEPT ![p].now = t, ![p].prior = trustCur,
                                ![p].active = pending]
        /\ Goto(p, IF Completed(call[p].req) THEN {"clear"} ELSE {"begin"})
        /\ UNCHANGED <<durable, holder, work, res, opened>>
     \/ /\ ~ImportAdmits(call[p].req, t)
        /\ Reject(p, Error)

ClearCompleted(p) ==
  /\ pc[p] = "clear"
  /\ \/ pending' = None /\ Goto(p, {"begin"} \cup Failing("failed"))
     \/ UNCHANGED pending /\ Goto(p, Failing("failed"))
  /\ UNCHANGED <<marker, trustCur, stateFiles, selection, admFiles,
                 clockFloor, litter, holder, local, res, opened>>

\* The journal entry this call would write.
Transaction(c) ==
  [prior |-> c.prior, sel |-> selection, init |-> InitialRoot(c.prior, c.req),
   want |-> Identity(c.req), accepted |-> None, published |-> None,
   started |-> Sec(c.now)]

\* mutant: the state recorded before its pointer is not accepted
ResumesPublished(j, c) ==
  /\ j.want = Identity(c.req)
  /\ j.init = InitialRoot(c.prior, c.req)
  /\ j.sel = selection
  /\ c.prior \in {j.prior, j.published}

\* beginImportTransaction: the journal on disk is the one this call resumes.
Resumes(j, c) ==
  /\ j.want = Identity(c.req)
  /\ j.init = InitialRoot(c.prior, c.req)
  /\ j.sel = selection
  /\ c.prior \in {j.prior, j.published, j.accepted}

BeginTransaction(p) ==
  /\ pc[p] = "begin"
  /\ \/ /\ selection # None /\ ~ValidateStoredSelection(selection)
        /\ Reject(p, Error)
     \/ /\ selection # None => ValidateStoredSelection(selection)
        /\ pending # None /\ ~Resumes(pending, call[p])
        /\ Reject(p, RecoveryRequired(Error))
     \/ /\ selection # None => ValidateStoredSelection(selection)
        /\ \/ /\ pending # None /\ Resumes(pending, call[p])
              /\ call' = [call EXCEPT ![p].active = pending]
              /\ UNCHANGED pending
              /\ Goto(p, {"floor"})
           \/ /\ pending = None
              /\ call' = [call EXCEPT ![p].active = Transaction(call[p])]
              /\ \/ /\ pending' = Transaction(call[p])
                    /\ Goto(p, {"floor"} \cup Failing("error"))
                 \/ UNCHANGED pending /\ Goto(p, Failing("error"))
        /\ UNCHANGED <<marker, trustCur, stateFiles, selection, admFiles,
                       clockFloor, litter, holder, work, res, opened>>

StartFloor(p) ==
  /\ pc[p] = "floor"
  /\ \/ /\ call[p].now < call[p].active.started
        /\ Reject(p, Error)
     \/ /\ call[p].now >= call[p].active.started
        /\ \/ clockFloor' = Sec(call[p].now)
              /\ Goto(p, {"verify"} \cup Failing("error"))
           \/ UNCHANGED clockFloor /\ Goto(p, Failing("error"))
        /\ UNCHANGED <<marker, trustCur, stateFiles, pending, selection,
                       admFiles, litter, holder, local, res, opened>>

\* verifyPackage. A result that was lost leaves the call with the journal in
\* place (import.go 229); a refused refresh still has a state to persist.
Verify(p) ==
  /\ pc[p] = "verify"
  /\ LET c == call[p]
         v == VerifyPackage(c.prior, c.req.pkg, c.req.boot, c.now)
     IN  \/ /\ v.lost
            /\ Reject(p, Error)
         \/ /\ ~v.lost
            /\ work' = [work EXCEPT ![p].state = v.state,
                                    ![p].refresh = v.refresh,
                                    ![p].phase = 1]
            /\ Goto(p, {"state"})
            /\ UNCHANGED <<durable, holder, call, res, opened>>

-----------------------------------------------------------------------------
(* persistTrustMaterial, run before admission (phase 1) and again with the  *)
(* revision floor of the admitted bundle (phase 2)                          *)

WriteState(p) ==
  /\ pc[p] = "state"
  /\ \/ /\ stateFiles' = stateFiles \cup {<<work[p].state, "state">>}
        /\ Goto(p, {"statefloor"} \cup Failing("failed"))
     \/ UNCHANGED stateFiles /\ Goto(p, Failing("failed"))
  /\ UNCHANGED <<marker, trustCur, pending, selection, admFiles, clockFloor,
                 litter, holder, local, res, opened>>

\* mutant: the role files are written after the pointer to them
PersistFloorLast(p) ==
  /\ pc[p] = "statefloor"
  /\ clockFloor' = Sec(call[p].now)
  /\ Goto(p, {"accepted"})
  /\ UNCHANGED <<marker, trustCur, stateFiles, pending, selection, admFiles,
                 litter, holder, local, res, opened>>

PersistFloor(p) ==
  /\ pc[p] = "statefloor"
  /\ \/ /\ clockFloor' = Sec(call[p].now)
        /\ Goto(p, {"files"} \cup Failing("failed"))
     \/ UNCHANGED clockFloor /\ Goto(p, Failing("failed"))
  /\ UNCHANGED <<marker, trustCur, stateFiles, pending, selection, admFiles,
                 litter, holder, local, res, opened>>

\* mutant: the pointer is published before the journal knows the state
WriteFilesEarly(p) ==
  /\ pc[p] = "files"
  /\ stateFiles' = stateFiles \cup {<<work[p].state, "files">>}
  /\ Goto(p, {"pointer"})
  /\ UNCHANGED <<marker, trustCur, pending, selection, admFiles, clockFloor,
                 litter, holder, local, res, opened>>

\* The root history and the role files. A reader needs all of them, so the
\* order in which they appear is not visible and one step stands for them.
WriteFiles(p) ==
  /\ pc[p] = "files"
  /\ \/ /\ stateFiles' = stateFiles \cup {<<work[p].state, "files">>}
        /\ Goto(p, {"accepted"} \cup Failing("failed"))
     \/ UNCHANGED stateFiles /\ Goto(p, Failing("failed"))
  /\ UNCHANGED <<marker, trustCur, pending, selection, admFiles, clockFloor,
                 litter, holder, local, res, opened>>

\* A journal that is gone by then is an integrity failure.
UpdatePendingAccepted(p) ==
  /\ pc[p] = "accepted"
  /\ LET ok == pending # None
     IN  \/ /\ ok
            /\ pending' = [pending EXCEPT !.accepted = work[p].state]
            /\ Goto(p, {"pointer"} \cup Failing("failed"))
         \/ UNCHANGED pending
            /\ Goto(p, IF ok THEN Failing("failed") ELSE {"failed"})
  /\ UNCHANGED <<marker, trustCur, stateFiles, selection, admFiles,
                 clockFloor, litter, holder, local, res, opened>>

PublishPointer(p) ==
  /\ pc[p] = "pointer"
  /\ \/ /\ trustCur' = work[p].state
        /\ Goto(p, {"published"} \cup Failing("failed"))
     \/ UNCHANGED trustCur /\ Goto(p, Failing("failed"))
  /\ work' = [work EXCEPT ![p].changed = @ \/ trustCur # work[p].state]
  /\ UNCHANGED <<marker, stateFiles, pending, selection, admFiles,
                 clockFloor, litter, holder, call, res, opened>>

UpdatePendingPublished(p) ==
  /\ pc[p] = "published"
  /\ LET ok == pending # None /\ pending.accepted = work[p].state
     IN  \/ /\ ok
            /\ pending' = [pending EXCEPT !.published = work[p].state]
            /\ Goto(p, {IF work[p].phase = 1 THEN "admit" ELSE "select"}
                       \cup Failing("failed"))
         \/ UNCHANGED pending
            /\ Goto(p, IF ok THEN Failing("failed") ELSE {"failed"})
  /\ UNCHANGED <<marker, trustCur, stateFiles, selection, admFiles,
                 clockFloor, litter, holder, local, res, opened>>

-----------------------------------------------------------------------------
(* Admission and selection *)

\* mutants: no floor; a floor on the number alone
NoRevisionFloor(floor, rev, bundle) == TRUE
RevisionNumberFloor(floor, rev, bundle) == floor # None => rev >= floor.rev

\* A revision never goes back, and one revision is one bundle.
EnforceRevisionFloor(floor, rev, bundle) ==
  floor # None => \/ rev > floor.rev
                  \/ rev = floor.rev /\ bundle = floor.bundle

\* Everything between the first trust pointer and the second.
Admits(c, w) ==
  LET s == w.state  req == c.req  IN
  /\ w.refresh = "none"
  /\ AllMembersUsed(c.prior, req.pkg, req.boot, s)
  /\ req.plan # None => req.plan.roles = Roles(s)
  /\ req.expBundle \in {None, s.tg.bundle}
  /\ LET a == Admission[s.tg.bundle] IN
     /\ a.rev > 0
     /\ req.expRev \in {0, a.rev}
     /\ req.plan # None => req.plan.purpose = a.purpose
     /\ EnforceRevisionFloor(s.floor, a.rev, s.tg.bundle)

RaisedFloor(s) ==
  [s EXCEPT !.floor = [rev |-> Admission[s.tg.bundle].rev,
                       bundle |-> s.tg.bundle]]

Admit(p) ==
  /\ pc[p] = "admit"
  /\ \/ /\ ~Admits(call[p], work[p])
        /\ Goto(p, {"reject"})
        /\ UNCHANGED work
     \/ /\ Admits(call[p], work[p])
        /\ work' = [work EXCEPT ![p].state = RaisedFloor(@), ![p].phase = 2]
        /\ Goto(p, {"state"})
  /\ UNCHANGED <<durable, holder, call, res, opened>>

NewReceipt(c, s) ==
  [roles |-> Roles(s), bundle |-> s.floor.bundle, rev |-> s.floor.rev,
   purpose |-> Admission[s.floor.bundle].purpose, at |-> Sec(c.now),
   expRev |-> c.req.expRev, expBundle |-> c.req.expBundle,
   plan |-> c.req.plan]

\* The selection on disk already is this revision in this trust state.
Selected(s) ==
  /\ selection # None
  /\ selection.rev = s.floor.rev /\ selection.bundle = s.floor.bundle
  /\ selection.state = s

ValidExisting ==
  /\ {<<selection.rcpt, "target", None>>, <<selection.rcpt, "receipt", None>>}
       \subseteq admFiles
  /\ ValidReceipt(selection.rcpt, selection)
  /\ AdmissionMatches(selection.rcpt, selection.bundle)

\* An admission made without assertions does not answer a request that has
\* them: a new receipt is minted.
Reusable(plan) == plan = None \/ selection.rcpt.plan = plan

Select(p) ==
  /\ pc[p] = "select"
  /\ LET s == work[p].state IN
     /\ Goto(p, IF ~Selected(s) THEN {"target"}
                ELSE IF ~ValidExisting THEN {"error"}
                ELSE IF Reusable(call[p].req.plan) THEN {"finish"}
                ELSE {"target"})
     /\ work' = [work EXCEPT ![p].rcpt = NewReceipt(call[p], s)]
  /\ UNCHANGED <<durable, holder, call, res, opened>>

\* persistAdmission: three immutable files.
WriteAdmission(p, here, file, next) ==
  /\ pc[p] = here
  /\ \/ admFiles' = admFiles \cup {file}
        /\ Goto(p, {next} \cup Failing("failed"))
     \/ UNCHANGED admFiles /\ Goto(p, Failing("failed"))
  /\ UNCHANGED <<marker, trustCur, stateFiles, pending, selection,
                 clockFloor, litter, holder, local, res, opened>>

WriteBindingFirst(p) ==   \* mutant
  WriteAdmission(p, "target", <<work[p].rcpt, "binding", work[p].state>>,
                 "receipt")
WriteTarget(p) ==
  WriteAdmission(p, "target", <<work[p].rcpt, "target", None>>, "receipt")

WriteReceipt(p) ==
  WriteAdmission(p, "receipt", <<work[p].rcpt, "receipt", None>>, "binding")

WriteBinding(p) ==
  WriteAdmission(p, "binding", <<work[p].rcpt, "binding", work[p].state>>,
                 "selection")

WriteSelection(p) ==
  /\ pc[p] = "selection"
  /\ \/ /\ selection' = [rev |-> work[p].rcpt.rev,
                         bundle |-> work[p].rcpt.bundle,
                         rcpt |-> work[p].rcpt, state |-> work[p].state]
        /\ Goto(p, {"finish"} \cup Failing("failed"))
     \/ UNCHANGED selection /\ Goto(p, Failing("failed"))
  /\ work' = [work EXCEPT ![p].chg = TRUE]
  /\ UNCHANGED <<marker, trustCur, stateFiles, pending, admFiles,
                 clockFloor, litter, holder, call, res, opened>>

\* finish: the journal is removed and the receipt returned.
Finish(p) ==
  /\ pc[p] \in {"finish", "reject"}
  /\ LET w == work[p] IN
     \/ /\ pending' = None
        /\ IF pc[p] = "finish"
           THEN Return(p, Result("IMPORTED", w.changed, w.chg))
           ELSE Return(p, Result("REJECTED", w.changed, FALSE))
     \/ /\ pending' \in {None, pending}
        /\ Goto(p, Failing("failed"))
        /\ UNCHANGED <<holder, local, res>>
  /\ UNCHANGED <<marker, trustCur, stateFiles, selection, admFiles,
                 clockFloor, litter, opened>>

\* mutant: measured from the state the journal last recorded
FailureSinceAccepted(active) ==
  IF trustCur = None \/ (selection # None /\ ~ValidateStoredSelection(selection))
  THEN Error
  ELSE Result("REJECTED", trustCur # active.accepted, selection # active.sel)

\* durableFailureReceipt: what the store holds against what the journal began
\* with.
FailureReceipt(active) ==
  IF \/ trustCur = None \/ ~Loadable(trustCur)
     \/ selection = None /\ active.sel # None
     \/ selection # None /\ ~ValidateStoredSelection(selection)
  THEN Error
  ELSE Result("REJECTED", trustCur # active.prior, selection # active.sel)

Failed(p) ==
  /\ pc[p] = "failed"
  /\ Return(p, RecoveryRequired(FailureReceipt(call[p].active)))
  /\ UNCHANGED <<durable, opened>>

\* An error with the journal left as it is; after the second trust pointer it
\* comes with a rejected receipt.
ReturnError(p) ==
  /\ pc[p] = "error"
  /\ Reject(p, IF work[p].phase = 2
               THEN Result("REJECTED", work[p].changed, FALSE) ELSE Error)

-----------------------------------------------------------------------------
(* openRevision in SelectionCurrent mode *)

\* mutant: the journal is not looked at
OpenAdmitsInRecovery(req, t) ==
  /\ marker = Marked
  /\ selection # None
  /\ trustCur # None /\ Loadable(trustCur)
  /\ selection.state = trustCur
  /\ clockFloor # NoTime /\ t >= clockFloor
  /\ Reverifies(selection, t)

OpenAdmits(req, t) ==
  /\ marker = Marked
  /\ pending = None
  /\ selection # None
  /\ req.expRev \in {0, selection.rev}
  /\ req.expBundle \in {None, selection.bundle}
  /\ trustCur # None /\ Loadable(trustCur)
  /\ selection.state = trustCur
  /\ clockFloor # NoTime /\ t >= clockFloor
  /\ AdmissionStored(selection)
  /\ ValidReceipt(selection.rcpt, selection)
  /\ t >= selection.rcpt.at
  /\ AdmissionMatches(selection.rcpt, selection.bundle)
  /\ Reverifies(selection, t)

Open(p, t) ==
  /\ pc[p] = "open"
  /\ \/ /\ OpenAdmits(call[p].req, t)
        /\ call' = [call EXCEPT ![p].now = t]
        /\ Goto(p, {"openfloor"})
        /\ UNCHANGED <<durable, holder, work, res, opened>>
     \/ /\ ~OpenAdmits(call[p].req, t)
        /\ Reject(p, Error)

OpenFloor(p) ==
  /\ pc[p] = "openfloor"
  /\ \/ /\ clockFloor' = Sec(call[p].now)
        /\ opened' = [rev |-> selection.rev, bundle |-> selection.bundle]
        /\ Return(p, Result("OPENED", FALSE, FALSE))
     \/ /\ clockFloor' \in {clockFloor, Sec(call[p].now)}
        /\ Goto(p, Failing("error"))
        /\ UNCHANGED <<holder, local, res, opened>>
  /\ UNCHANGED <<marker, trustCur, stateFiles, pending, selection, admFiles,
                 litter>>

-----------------------------------------------------------------------------
(* inspectProfile *)

\* Only the marked profiles have an admit callback of their own to ask again.
SelectionStatus(t) ==
  LET v == VerifyPackage(selection.state,
                         StoredPackage(selection.state, selection.bundle),
                         None, t)
      sound == /\ Loadable(selection.state)
               /\ AdmissionStored(selection)
               /\ ValidReceipt(selection.rcpt, selection)
               /\ Marked => AdmissionMatches(selection.rcpt, selection.bundle)
               /\ ~v.lost /\ v.state = selection.state
               /\ v.refresh \in {"none", "expired"}
      expired == \/ v.refresh = "expired"
                 \/ \E m \in {trustCur.root, trustCur.ts, trustCur.sn,
                              trustCur.tg} \ {None} : t >= m.exp
  IN  IF ~sound THEN "INTEGRITY_FAILURE"
      ELSE IF selection.state # trustCur THEN "TRUST_ADVANCED"
      ELSE IF expired THEN "EXPIRED"
      ELSE "READY"

\* mutant: the journal does not override the selection's status
InspectStatusReady(t) ==
  IF trustCur = None \/ selection = None THEN "NO_SELECTION"
  ELSE SelectionStatus(t)

\* Without a trust pointer the status is decided by the journal and the shape
\* of the store; a journal overrides every other status.
InspectStatus(t) ==
  IF Marked /\ ~marker THEN IF Uninitialized THEN "NO_SELECTION" ELSE "ERROR"
  ELSE IF pending # None THEN "RECOVERY_REQUIRED"
  ELSE IF trustCur = None THEN IF Empty THEN "NO_SELECTION" ELSE "ERROR"
  ELSE IF selection = None THEN "NO_SELECTION"
  ELSE SelectionStatus(t)

InspectReads(t) == Loadable(trustCur) /\ clockFloor # NoTime /\ t >= clockFloor

Inspect(p, t) ==
  /\ pc[p] = "inspect"
  /\ \/ /\ (Marked /\ ~marker) \/ trustCur = None
        /\ Return(p, Result(InspectStatus(t), FALSE, FALSE))
        /\ UNCHANGED <<durable, opened>>
     \/ /\ marker = Marked /\ trustCur # None /\ ~InspectReads(t)
        /\ Reject(p, Error)
     \/ /\ marker = Marked /\ trustCur # None /\ InspectReads(t)
        /\ call' = [call EXCEPT ![p].now = t]
        /\ Goto(p, {"inspectfloor"})
        /\ UNCHANGED <<durable, holder, work, res, opened>>

InspectFloor(p) ==
  /\ pc[p] = "inspectfloor"
  /\ \/ /\ clockFloor' = Sec(call[p].now)
        /\ Return(p, Result(InspectStatus(call[p].now), FALSE, FALSE))
     \/ /\ clockFloor' \in {clockFloor, Sec(call[p].now)}
        /\ Goto(p, Failing("error"))
        /\ UNCHANGED <<holder, local, res>>
  /\ UNCHANGED <<marker, trustCur, stateFiles, pending, selection, admFiles,
                 litter, opened>>

-----------------------------------------------------------------------------
(* Death of a process *)

\* The step this process is at writes a file of the store root itself.
WritesRoot(p) ==
  \/ pc[p] \in {"floor", "statefloor", "accepted", "published", "selection",
                "openfloor", "inspectfloor"}
  \/ pc[p] = "begin" /\ pending = None
  \/ pc[p] = "marker" /\ Marked /\ ~marker /\ Uninitialized

\* The kernel drops the lock. A write cut short leaves its temporary file.
Crash(p) ==
  /\ pc[p] \notin {"idle", "lock"}
  /\ Return(p, NoResult)
  /\ litter' \in {litter} \cup (IF WritesRoot(p) THEN {TRUE} ELSE {})
  /\ UNCHANGED <<marker, trustCur, stateFiles, pending, selection, admFiles,
                 clockFloor, opened>>

ImportStep(p) ==
  \/ CheckProfileMarker(p) \/ (\E t \in Instants : Check(p, t))
  \/ ClearCompleted(p)
  \/ BeginTransaction(p) \/ StartFloor(p) \/ Verify(p)
  \/ WriteState(p) \/ PersistFloor(p) \/ WriteFiles(p)
  \/ UpdatePendingAccepted(p) \/ PublishPointer(p)
  \/ UpdatePendingPublished(p)
  \/ Admit(p) \/ Select(p)
  \/ WriteTarget(p) \/ WriteReceipt(p) \/ WriteBinding(p)
  \/ WriteSelection(p) \/ Finish(p) \/ Failed(p) \/ ReturnError(p)

ReadStep(p) ==
  \/ \E t \in Instants : Open(p, t) \/ Inspect(p, t)
  \/ OpenFloor(p) \/ InspectFloor(p)

Step(p) == Acquire(p) \/ LockTimeout(p) \/ ImportStep(p) \/ ReadStep(p)

Next ==
  \E p \in Proc :
    \/ \E r \in Requests : Start(p, r)
    \/ Step(p)
    \/ Crash(p)

Spec == Init /\ [][Next]_vars

\* A call that runs goes on; processes stop dying at some point; and the
\* operator repeats every request, also at times the clock is not behind.
CheckOnTime(r) ==
  \E p \in Proc : call[p].req = r /\ Check(p, MaxTime)

LiveSpec ==
  /\ Spec
  /\ \A p \in Proc : WF_vars(Step(p))
  /\ \A r \in Requests : SF_vars(\E p \in Proc : Start(p, r))
  /\ \A r \in Requests : SF_vars(CheckOnTime(r))
  /\ <>[][\A p \in Proc : ~Crash(p)]_vars
-----------------------------------------------------------------------------
(* Properties *)

PCs == {"idle", "lock", "marker", "check", "clear", "begin", "floor",
        "verify", "state", "statefloor", "files", "accepted", "pointer",
        "published", "admit", "reject", "select", "target", "receipt",
        "binding", "selection", "finish", "failed", "error", "open",
        "openfloor", "inspect", "inspectfloor"}

Critical == PCs \ {"idle", "lock"}

\* Type correctness, with the lock: a process inside a call holds the flock,
\* so at most one is inside.
TypeOK ==
  /\ marker \in BOOLEAN /\ litter \in BOOLEAN
  /\ clockFloor \in {NoTime} \cup Instants
  /\ holder \in {None} \cup Proc
  /\ pc \in [Proc -> PCs]
  /\ \A p \in Proc : (pc[p] \in Critical) <=> (holder = p)
  /\ DOMAIN call = Proc /\ DOMAIN work = Proc
  /\ \A p \in Proc : call[p].now \in Instants /\ work[p].phase \in 0..2

\* A receipt verified in the very second in which one of its roles expires:
\* the refresh accepts that instant, the receipt check does not.
AtExpiry(r) ==
  \E m \in {r.roles.root, r.roles.ts, r.roles.sn, r.roles.tg} \ {None} :
    r.at = m.exp

\* No pointer dangles: what the trust pointer, the journal and the selection
\* name is completely written, at every moment a process can die (the order
\* of the writes in records.go 145-227 and import.go 350-363).
PointersResolve ==
  /\ trustCur # None => Loadable(trustCur)
  /\ pending # None =>
       \A s \in {pending.prior, pending.accepted, pending.published} \ {None} :
         Loadable(s)
  /\ selection # None => Loadable(selection.state) /\ AdmissionStored(selection)

\* The journal explains the store: the trust pointer is where the journal
\* says the import began, or a state it recorded before publishing it, and
\* the selection is the one it began with or the one it was to commit. This
\* is what lets beginImportTransaction resume after a crash at any write.
JournalMatchesStore ==
  pending # None =>
    /\ trustCur \in {pending.prior, pending.published, pending.accepted}
    /\ \/ selection = pending.sel
       \/ selection.state = pending.accepted /\ trustCur = pending.accepted

\* The clock floor never goes back, through imports, reads, crashes and
\* failed writes (records.go 377).
FloorMonotone ==
  [][clockFloor' >= clockFloor]_vars

NotBelow(new, old) ==
  old # None => new # None /\ (new.rev > old.rev \/ new = old)

\* The trust pointer never moves to a state with a lower revision floor, nor
\* to one with another bundle under the same revision (import.go 474).
RevisionFloorMonotone ==
  [][trustCur # None =>
       trustCur' # None /\ NotBelow(trustCur'.floor, trustCur.floor)]_vars

\* The two floors an import enforces, of the clock and of the revision, never
\* go back: not through a crash, a failed write or a resumed import.
FloorsMonotone == FloorMonotone /\ RevisionFloorMonotone

\* Two checks that read the current knowledge, however far apart, never see
\* an older revision second, nor two bundles under one revision.
ServedMonotone == [][NotBelow(opened', opened)]_opened

\* A receipt states what changed (docs/cncf-knowledge-database.md 80). The one
\* that ends a verified import (finish), and the one that comes with an invalid
\* stored admission (import.go 319), compare with the pointer and the selection
\* that the call found.
Truthful(p, r) ==
  /\ r.adv <=> trustCur # call[p].prior
  /\ r.chg <=> selection # call[p].active.sel

\* The receipt of a failed write (durableFailureReceipt) compares with where
\* the journal began. It reports the call's own change, and also that of an
\* earlier call the journal survived: a pointer that once left the journal's
\* beginning is never reported back at it. It is empty only if no trust was
\* ever published or the stored receipt was made in the second of its expiry.
FailureTruthful(p, r) ==
  IF r.status = "REJECTED"
  THEN /\ r.adv <=> \/ trustCur # call[p].prior
                    \/ call[p].prior # call[p].active.prior
       /\ r.chg <=> selection # call[p].active.sel
  ELSE trustCur = None \/ (selection # None /\ AtExpiry(selection.rcpt))

\* Every receipt of an import is truthful, whatever was cut short before it.
ReceiptTruthful ==
  [][\A p \in Proc : res' # res =>
       /\ \/ pc[p] \in {"finish", "reject"}
          \/ pc[p] = "error" /\ work[p].phase = 2
          => Truthful(p, res')
       /\ pc[p] = "failed" => FailureTruthful(p, res')]_vars

\* Every admission whose binding was written stays openable at the time it
\* was verified (OpenHistorical): later imports, rejected packages, rotated
\* keys and crashes never take away or contradict one of its files.
HistoricalAvailable ==
  \A f \in admFiles :
    f[2] = "binding" /\ ~AtExpiry(f[1]) =>
      ValidateStoredSelection([rev |-> f[1].rev, bundle |-> f[1].bundle,
                               rcpt |-> f[1], state |-> f[3]])

AnyReader == [op |-> "open", pkg |-> None, boot |-> None, expRev |-> 0,
              expBundle |-> None, plan |-> None]

\* A status of READY is a promise: OpenCurrent at the same instant succeeds.
\* inspectProfile and openRevision check separately, in different orders and
\* with different expiry comparisons.
ReadyIsServable ==
  holder = None =>
    \A t \in Instants :
      /\ trustCur # None /\ InspectReads(t)
      /\ InspectStatus(t) = "READY"
      => OpenAdmits(AnyReader, t)

\* The call that repeats what the journal records.
Retry(j, boot) ==
  [op |-> "import", pkg |-> j.want.pkg, boot |-> boot,
   expRev |-> j.want.expRev, expBundle |-> j.want.expBundle,
   plan |-> j.want.plan]

AcceptedRetry(boot, t) ==
  LET r == Retry(pending, boot)
  IN  /\ ImportAdmits(r, t)
      /\ Completed(r) \/ Resumes(pending, [prior |-> trustCur, req |-> r])

\* Once the first trust pointer is published, the journal of an import that
\* was cut short or failed at any write is accepted back from the exact same
\* request, with and without the bootstrap root, at any later time.
JournalResumable ==
  /\ holder = None /\ pending # None /\ trustCur # None
  /\ selection # None => ~AtExpiry(selection.rcpt)
  => \A t \in Instants, boot \in {None, pending.init} :
       t >= clockFloor /\ t >= pending.started => AcceptedRetry(boot, t)

\* The same for a store that has no trust pointer yet: while Inspect reports
\* RECOVERY_REQUIRED, "retry the exact same signed package and bootstrap
\* root" (open.go 266) is accepted.
BootstrapJournalResumable ==
  /\ holder = None /\ pending # None /\ trustCur = None
  => \A t \in Instants :
       /\ t >= clockFloor
       /\ t >= pending.started
       => AcceptedRetry(pending.init, t)

\* An import of this package from this trust state, at time t, admits it.
WouldImport(prior, j, t) ==
  LET v == VerifyPackage(prior, j.want.pkg, j.init, t)
  IN  /\ ~v.lost
      /\ Admits([prior |-> prior, req |-> Retry(j, j.init)],
                [state |-> v.state, refresh |-> v.refresh])

\* Recovery loses nothing: if the interrupted import would have admitted its
\* package from where it began, the exact retry admits it from where the
\* interruption left the store.
ExactRetryImports ==
  holder = None /\ pending # None =>
    \A t \in Instants :
      WouldImport(pending.prior, pending, t) => WouldImport(trustCur, pending, t)

Journaled == {"floor", "verify", "state", "statefloor", "files", "accepted",
              "pointer", "published", "admit", "reject", "select", "target",
              "receipt", "binding", "selection", "finish", "failed"}

\* "The failure output states ... whether exact-package recovery is required"
\* (docs/cncf-knowledge-database.md 80): an import that fails with its journal
\* still on disk returns ErrRecoveryRequired.
FailureReportsRecovery ==
  [][\A p \in Proc :
       /\ pc[p] \in Journaled /\ pc'[p] = "idle"
       /\ res'.status \in {"ERROR", "REJECTED"}
       /\ pending' # None
       => res'.rec]_vars

\* The journal's package no longer verifies: at no time the clock floor admits
\* does a refresh keep what it took into memory (import.go 229).
Unverifiable ==
  \A t \in Instants :
    t >= clockFloor =>
      VerifyPackage(trustCur, pending.want.pkg, pending.init, t).lost

\* An interrupted import of an established store ends: repeating requests, at
\* times that pass the expiries of its package, removes the journal. Two stores
\* keep theirs: one whose package expired before a retry could verify it, and
\* one whose selected receipt was made in the second of its expiry.
Recovers ==
  (pending # None /\ trustCur # None) ~>
    \/ pending = None
    \/ Unverifiable
    \/ selection # None /\ AtExpiry(selection.rcpt)

Revisions == {[rev |-> Admission[b].rev, bundle |-> b] : b \in DOMAIN Admission}

\* The store implements the register its readers rely on.
Register == INSTANCE KnowledgeRegister WITH
  current <- IF /\ pending = None /\ selection # None
                /\ trustCur = selection.state
             THEN [rev |-> selection.rev, bundle |-> selection.bundle]
             ELSE None,
  high <- IF trustCur = None THEN None ELSE trustCur.floor,
  served <- opened

\* Refinement: whatever is cut short, a reader sees the old revision, nothing,
\* or the new revision, and the revisions only rise.
ImplementsRegister == Register!RSpec
=============================================================================
