------------------------ MODULE KnowledgeStoreProofs ------------------------
(***************************************************************************)
(* Theorems about KnowledgeStore, for any processes, requests, packages,   *)
(* admissions, clock resolution and horizon: the clock floor; then the     *)
(* revision floor, the register and the files: which trust state the       *)
(* pointer holds while an import runs, what a reader can be served, and    *)
(* that nothing is pointed to before it is completely written.             *)
(***************************************************************************)
EXTENDS KnowledgeStore, TUFRefreshProofs

-----------------------------------------------------------------------------
(* Values *)

\* A record with a field the absent value does not have is present.
LEMMA Present ==
  ASSUME NEW s, DOMAIN s # {"absent"}
  PROVE  s # None
  BY DEF None

\* A stored time is a whole second not after the instant it was taken at.
LEMMA SecInstant ==
  \A t \in Instants : Sec(t) \in Instants /\ Sec(t) <= t
  BY TicksAssumption, MaxTimeAssumption DEF Sec, Instants

\* An instant at or after a stored time is, once stored, still at or after it.
LEMMA SecMonotone ==
  \A t, u \in Instants : t >= Sec(u) => Sec(t) >= Sec(u)
  BY TicksAssumption, MaxTimeAssumption DEF Sec, Instants

-----------------------------------------------------------------------------
(* Types and the lock *)

CallFields == {"req", "now", "prior", "active"}
WorkFields == {"state", "refresh", "phase", "changed", "rcpt", "chg"}

\* TypeOK, with the shape of the two local records; a process that is in a
\* call, or waits to be, has a request.
Shape ==
  /\ TypeOK
  /\ \A p \in Proc : DOMAIN call[p] = CallFields /\ DOMAIN work[p] = WorkFields
  /\ \A p \in Proc : pc[p] # "idle" => call[p].req \in Requests

\* The process that moves is inside a call and every other one is outside.
LEMMA OneInside ==
  ASSUME TypeOK, NEW p \in Proc, pc[p] \in Critical
  PROVE  holder = p /\ \A q \in Proc \ {p} : pc[q] \in {"idle", "lock"}
  BY ProcAssumption DEF TypeOK, Critical, PCs

\* A return leaves the lock free and the process idle.
LEMMA ReturnShape ==
  ASSUME Shape, NEW p \in Proc, NEW r, pc[p] \in Critical, Return(p, r),
         marker' \in BOOLEAN, litter' \in BOOLEAN,
         clockFloor' \in {NoTime} \cup Instants
  PROVE  Shape'
<1>1. \A q \in Proc \ {p} : pc[q] \in {"idle", "lock"}
  BY OneInside DEF Shape
<1>2. /\ pc' \in [Proc -> PCs] /\ pc'[p] = "idle"
      /\ \A q \in Proc : pc'[q] \in {"idle", "lock"}
      /\ \A q \in Proc \ {p} : pc'[q] = pc[q]
  BY <1>1 DEF Shape, TypeOK, Return, PCs
<1>3. /\ DOMAIN call' = Proc /\ DOMAIN work' = Proc
      /\ \A q \in Proc : /\ call'[q] = IF q = p THEN NoCall ELSE call[q]
                         /\ work'[q] = IF q = p THEN NoWork ELSE work[q]
  BY DEF Shape, TypeOK, Return
<1>4. /\ DOMAIN NoCall = CallFields /\ NoCall.now \in Instants
      /\ DOMAIN NoWork = WorkFields /\ NoWork.phase \in 0..2
  BY MaxTimeAssumption DEF NoCall, NoWork, CallFields, WorkFields, Instants
<1>5. TypeOK'
  BY <1>2, <1>3, <1>4, ProcAssumption DEF Shape, TypeOK, Return, Critical
<1> QED
  BY <1>2, <1>3, <1>4, <1>5 DEF Shape

\* A step inside the call, which may note what it read and what it makes.
LEMMA MoveShape ==
  ASSUME Shape, NEW p \in Proc, pc[p] \in Critical,
         NEW k \in Critical, pc' = [pc EXCEPT ![p] = k],
         UNCHANGED holder, marker' \in BOOLEAN, litter' \in BOOLEAN,
         clockFloor' \in {NoTime} \cup Instants,
         DOMAIN call' = Proc, DOMAIN work' = Proc,
         \A q \in Proc : /\ DOMAIN call'[q] = CallFields
                         /\ call'[q].now \in Instants
                         /\ call'[q].req = call[q].req
                         /\ DOMAIN work'[q] = WorkFields
                         /\ work'[q].phase \in 0..2
  PROVE  Shape'
<1>1. holder = p /\ \A q \in Proc \ {p} : pc[q] \in {"idle", "lock"}
  BY OneInside DEF Shape
<1>2. pc' \in [Proc -> PCs] /\ \A q \in Proc : pc'[q] # "idle" => pc[q] # "idle"
  BY DEF Shape, TypeOK, Critical
<1>3. \A q \in Proc : (pc'[q] \in Critical) <=> (holder' = q)
  BY <1>1 DEF Shape, TypeOK, Critical
<1> QED
  BY <1>2, <1>3 DEF Shape, TypeOK

\* The same when the local records stay as they are.
LEMMA WriteShape ==
  ASSUME Shape, NEW p \in Proc, pc[p] \in Critical,
         NEW next, next \subseteq Critical, Goto(p, next),
         UNCHANGED <<holder, call, work>>,
         marker' \in BOOLEAN, litter' \in BOOLEAN,
         clockFloor' \in {NoTime} \cup Instants
  PROVE  Shape'
<1>1. PICK k \in Critical : pc' = [pc EXCEPT ![p] = k]
  BY Zenon DEF Goto
<1> QED
  BY <1>1, MoveShape, Zenon DEF Shape, TypeOK

-----------------------------------------------------------------------------

\* Every step keeps the types, the shapes and the lock's exclusion.
LEMMA ShapeStep == Shape /\ [Next]_vars => Shape'
<1> SUFFICES ASSUME Shape, [Next]_vars PROVE Shape'
  OBVIOUS
<1>0. CASE UNCHANGED vars
  BY <1>0 DEF Shape, TypeOK, vars, durable
<1> SUFFICES ASSUME NEW p \in Proc,
                    (\E r \in Requests : Start(p, r)) \/ Step(p) \/ Crash(p)
             PROVE  Shape'
  BY <1>0 DEF Next
<1>t. /\ marker \in BOOLEAN /\ litter \in BOOLEAN
      /\ clockFloor \in {NoTime} \cup Instants
      /\ Sec(call[p].now) \in {NoTime} \cup Instants
  BY SecInstant DEF Shape, TypeOK
<1>f. \A k \in Critical : Failing(k) \subseteq Critical
  BY DEF Failing
<1>1. ASSUME NEW r \in Requests, Start(p, r) PROVE Shape'
  <2>1. /\ pc' \in [Proc -> PCs]
        /\ \A q \in Proc : pc'[q] \in Critical <=> pc[q] \in Critical
    BY <1>1 DEF Start, Shape, TypeOK, PCs, Critical
  <2>2. /\ DOMAIN call' = Proc
        /\ \A q \in Proc : /\ DOMAIN call'[q] = CallFields
                           /\ call'[q].now = call[q].now
                           /\ call'[q].req = IF q = p THEN r ELSE call[q].req
    BY <1>1 DEF Start, Shape, TypeOK, CallFields
  <2>3. \A q \in Proc \ {p} : pc'[q] = pc[q]
    BY <1>1, Zenon DEF Start, Shape, TypeOK
  <2> QED
    BY <1>1, <2>1, <2>2, <2>3 DEF Start, Shape, TypeOK, durable
<1>2. CASE Acquire(p)
  <2>1. \A q \in Proc : pc[q] \notin Critical
    BY <1>2, ProcAssumption DEF Acquire, Shape, TypeOK
  <2>2. PICK k \in {"marker", "open", "inspect"} : pc' = [pc EXCEPT ![p] = k]
    BY <1>2, RequestsAssumption, Zenon DEF Acquire, Shape
  <2>3. /\ pc' \in [Proc -> PCs] /\ pc[p] # "idle"
        /\ \A q \in Proc : pc'[q] \in Critical <=> q = p
        /\ \A q \in Proc \ {p} : pc'[q] = pc[q]
    BY <1>2, <2>1, <2>2 DEF Acquire, Shape, TypeOK, Critical, PCs
  <2> QED
    BY <1>2, <2>3 DEF Acquire, Shape, TypeOK, durable, local
<1>3. CASE LockTimeout(p)
  <2>1. /\ pc' \in [Proc -> PCs] /\ pc'[p] = "idle"
        /\ \A q \in Proc : pc'[q] \in Critical <=> pc[q] \in Critical
        /\ \A q \in Proc \ {p} : pc'[q] = pc[q]
    BY <1>3 DEF LockTimeout, Shape, TypeOK, PCs, Critical
  <2>2. /\ DOMAIN call' = Proc
        /\ \A q \in Proc : call'[q] = IF q = p THEN NoCall ELSE call[q]
        /\ DOMAIN NoCall = CallFields /\ NoCall.now \in Instants
    BY <1>3, MaxTimeAssumption
    DEF LockTimeout, Shape, TypeOK, NoCall, CallFields, Instants
  <2> QED
    BY <1>3, <2>1, <2>2 DEF LockTimeout, Shape, TypeOK, durable
<1>4. CASE Crash(p)
  BY <1>4, <1>t, ReturnShape, Zenon DEF Crash, Shape, TypeOK, Critical
<1>5. ASSUME NEW r, pc[p] \in Critical, Reject(p, r) PROVE Shape'
  BY <1>5, <1>t, ReturnShape DEF Reject, durable
<1>6. ASSUME pc[p] \in Critical, NEW next, next \subseteq Critical,
             Goto(p, next), UNCHANGED <<holder, local>>,
             marker' \in BOOLEAN, UNCHANGED litter,
             clockFloor' \in {clockFloor, Sec(call[p].now)}
      PROVE  Shape'
  BY <1>6, <1>t, WriteShape DEF local
<1>7. ASSUME pc[p] \in Critical, NEW next, next \subseteq Critical,
             Goto(p, next), UNCHANGED <<holder, work, marker, litter, clockFloor>>,
             DOMAIN call' = Proc,
             \A q \in Proc : /\ DOMAIN call'[q] = CallFields
                             /\ call'[q].now \in Instants
                             /\ call'[q].req = call[q].req
      PROVE  Shape'
  <2>1. PICK k \in Critical : pc' = [pc EXCEPT ![p] = k]
    BY <1>7, Zenon DEF Goto
  <2>2. /\ DOMAIN call = Proc /\ DOMAIN work = Proc
        /\ \A q \in Proc : /\ DOMAIN call[q] = CallFields
                           /\ call[q].now \in Instants
                           /\ DOMAIN work[q] = WorkFields
                           /\ work[q].phase \in 0..2
    BY DEF Shape, TypeOK
  <2> QED
    BY <1>7, <1>t, <2>1, <2>2, MoveShape, Zenon
<1>8. ASSUME pc[p] \in Critical, NEW next, next \subseteq Critical,
             Goto(p, next), UNCHANGED <<holder, call, marker, litter, clockFloor>>,
             DOMAIN work' = Proc,
             \A q \in Proc : DOMAIN work'[q] = WorkFields /\ work'[q].phase \in 0..2
      PROVE  Shape'
  <2>1. PICK k \in Critical : pc' = [pc EXCEPT ![p] = k]
    BY <1>8, Zenon DEF Goto
  <2>2. /\ DOMAIN call = Proc /\ DOMAIN work = Proc
        /\ \A q \in Proc : /\ DOMAIN call[q] = CallFields
                           /\ call[q].now \in Instants
                           /\ DOMAIN work[q] = WorkFields
                           /\ work[q].phase \in 0..2
    BY DEF Shape, TypeOK
  <2> QED
    BY <1>8, <1>t, <2>1, <2>2, MoveShape, Zenon
<1>9. CASE CheckProfileMarker(p)
  BY <1>5, <1>6, <1>9, <1>f, <1>t, Zenon
  DEF CheckProfileMarker, durable, Critical, PCs
<1>10. ASSUME NEW t \in Instants, Check(p, t) PROVE Shape'
  <2>1. CASE call' = [call EXCEPT ![p].now = t, ![p].prior = trustCur,
                                  ![p].active = pending]
    <3>1. /\ DOMAIN call' = Proc
          /\ \A q \in Proc : /\ DOMAIN call'[q] = CallFields
                             /\ call'[q].now = IF q = p THEN t ELSE call[q].now
                             /\ call'[q].req = call[q].req
      BY <2>1 DEF Shape, TypeOK, CallFields
    <3> QED
      BY <1>10, <1>5, <1>7, <3>1 DEF Check, Shape, TypeOK, durable, Critical, PCs
  <2> QED
    BY <1>10, <1>5, <2>1 DEF Check, Critical, PCs
<1>11. CASE ClearCompleted(p)
  BY <1>6, <1>11, <1>f, <1>t DEF ClearCompleted, Critical, PCs
<1>12. CASE BeginTransaction(p)
  <2>1. ASSUME NEW j, call' = [call EXCEPT ![p].active = j]
        PROVE  /\ DOMAIN call' = Proc
               /\ \A q \in Proc : /\ DOMAIN call'[q] = CallFields
                                  /\ call'[q].now \in Instants
                                  /\ call'[q].req = call[q].req
    BY <2>1 DEF Shape, TypeOK, CallFields
  <2> QED
    BY <1>5, <1>7, <1>12, <1>f, <2>1 DEF BeginTransaction, Critical, PCs
<1>13. CASE StartFloor(p)
  BY <1>5, <1>6, <1>13, <1>f, <1>t DEF StartFloor, Critical, PCs
<1>14. CASE Verify(p)
  <2>1. ASSUME NEW s, NEW e,
               work' = [work EXCEPT ![p].state = s, ![p].refresh = e, ![p].phase = 1]
        PROVE  /\ DOMAIN work' = Proc
               /\ \A q \in Proc : DOMAIN work'[q] = WorkFields /\ work'[q].phase \in 0..2
    BY <2>1 DEF Shape, TypeOK, WorkFields
  <2> QED
    BY <1>5, <1>8, <1>14, <2>1, Zenon DEF Verify, durable, Critical, PCs
<1>15. CASE WriteState(p)
  BY <1>6, <1>15, <1>f, <1>t DEF WriteState, Critical, PCs
<1>16. CASE PersistFloor(p)
  BY <1>6, <1>16, <1>f, <1>t DEF PersistFloor, Critical, PCs
<1>17. CASE WriteFiles(p)
  BY <1>6, <1>17, <1>f, <1>t DEF WriteFiles, Critical, PCs
<1>18. CASE UpdatePendingAccepted(p)
  BY <1>6, <1>18, <1>f, <1>t DEF UpdatePendingAccepted, Critical, PCs
<1>19. CASE PublishPointer(p)
  <2>1. /\ DOMAIN work' = Proc
        /\ \A q \in Proc : DOMAIN work'[q] = WorkFields /\ work'[q].phase \in 0..2
    BY <1>19 DEF PublishPointer, Shape, TypeOK, WorkFields
  <2> QED
    BY <1>8, <1>19, <1>f, <2>1 DEF PublishPointer, Critical, PCs
<1>20. CASE UpdatePendingPublished(p)
  BY <1>6, <1>20, <1>f, <1>t DEF UpdatePendingPublished, Critical, PCs
<1>21. CASE Admit(p)
  <2>1. CASE UNCHANGED work
    BY <1>6, <1>21, <2>1, <1>t DEF Admit, local, durable, Critical, PCs
  <2>2. CASE work' = [work EXCEPT ![p].state = RaisedFloor(@), ![p].phase = 2]
    <3>1. /\ DOMAIN work' = Proc
          /\ \A q \in Proc : DOMAIN work'[q] = WorkFields /\ work'[q].phase \in 0..2
      BY <2>2 DEF Shape, TypeOK, WorkFields
    <3> QED
      BY <1>8, <1>21, <3>1 DEF Admit, durable, Critical, PCs
  <2> QED
    BY <1>21, <2>1, <2>2 DEF Admit
<1>22. CASE Select(p)
  <2>1. /\ DOMAIN work' = Proc
        /\ \A q \in Proc : DOMAIN work'[q] = WorkFields /\ work'[q].phase \in 0..2
    BY <1>22 DEF Select, Shape, TypeOK, WorkFields
  <2> QED
    BY <1>8, <1>22, <2>1 DEF Select, durable, Critical, PCs
<1>23. ASSUME NEW here \in Critical, NEW file, NEW next \in Critical,
              WriteAdmission(p, here, file, next)
       PROVE  Shape'
  BY <1>6, <1>23, <1>f, <1>t DEF WriteAdmission, Critical, PCs
<1>24. CASE WriteTarget(p) \/ WriteReceipt(p) \/ WriteBinding(p)
  BY <1>23, <1>24 DEF WriteTarget, WriteReceipt, WriteBinding, Critical, PCs
<1>25. CASE WriteSelection(p)
  <2>1. /\ DOMAIN work' = Proc
        /\ \A q \in Proc : DOMAIN work'[q] = WorkFields /\ work'[q].phase \in 0..2
    BY <1>25 DEF WriteSelection, Shape, TypeOK, WorkFields
  <2> QED
    BY <1>8, <1>25, <1>f, <2>1 DEF WriteSelection, Critical, PCs
<1>26. CASE Finish(p)
  <2>1. CASE UNCHANGED <<holder, local, res>> /\ Goto(p, Failing("failed"))
    BY <1>6, <1>26, <1>f, <1>t, <2>1, Zenon DEF Finish, Critical, PCs
  <2>2. ASSUME NEW r, Return(p, r) PROVE Shape'
    BY <1>26, <1>t, <2>2, ReturnShape, Zenon DEF Finish, Critical, PCs
  <2> QED
    BY <1>26, <2>1, <2>2, Zenon DEF Finish
<1>27. CASE Failed(p) \/ ReturnError(p)
  BY <1>5, <1>27, Zenon DEF Failed, ReturnError, Reject, Critical, PCs
<1>28. ASSUME NEW t \in Instants, call' = [call EXCEPT ![p].now = t]
       PROVE  /\ DOMAIN call' = Proc
              /\ \A q \in Proc : /\ DOMAIN call'[q] = CallFields
                                 /\ call'[q].now \in Instants
                                 /\ call'[q].req = call[q].req
  BY <1>28 DEF Shape, TypeOK, CallFields
<1>29. ASSUME NEW t \in Instants, Open(p, t) \/ Inspect(p, t) PROVE Shape'
  BY <1>5, <1>7, <1>28, <1>29, Zenon DEF Open, Inspect, Reject, durable, Critical, PCs
<1>30. CASE OpenFloor(p) \/ InspectFloor(p)
  <2>1. CASE UNCHANGED <<holder, local, res>> /\ Goto(p, Failing("error"))
    BY <1>6, <1>30, <1>f, <1>t, <2>1, Zenon DEF OpenFloor, InspectFloor, Critical, PCs
  <2>2. ASSUME NEW r, Return(p, r), clockFloor' = Sec(call[p].now) PROVE Shape'
    BY <1>30, <1>t, <2>2, ReturnShape, Zenon DEF OpenFloor, InspectFloor, Critical, PCs
  <2> QED
    BY <1>30, <2>1, <2>2, Zenon DEF OpenFloor, InspectFloor
<1> QED
  BY <1>1, <1>2, <1>3, <1>4, <1>9, <1>10, <1>11, <1>12, <1>13, <1>14, <1>15,
     <1>16, <1>17, <1>18, <1>19, <1>20, <1>21, <1>22, <1>24, <1>25, <1>26,
     <1>27, <1>29, <1>30
  DEF Step, ImportStep, ReadStep

-----------------------------------------------------------------------------
(* The clock floor *)

\* The call has read the clock and may still write the floor.
Timed == Critical \ {"marker", "check", "open", "inspect", "failed", "error"}

\* The stored floor is a whole second, and a call that may store its own time
\* has compared it with the floor.
Clock ==
  /\ clockFloor = NoTime \/ \E u \in Instants : clockFloor = Sec(u)
  /\ \A p \in Proc : pc[p] \in Timed => call[p].now >= clockFloor

\* Every step keeps Clock, and no step moves the floor back.
LEMMA ClockStep ==
  ASSUME Shape, Clock, [Next]_vars
  PROVE  Clock' /\ clockFloor' >= clockFloor
<1>i. clockFloor \in Int /\ NoTime \in Int /\ \A t \in Instants : t \in Int /\ t > NoTime
  BY MaxTimeAssumption DEF Shape, TypeOK, NoTime, Instants
<1>0. CASE UNCHANGED vars
  BY <1>0, <1>i DEF Clock, vars, durable
<1> SUFFICES ASSUME NEW p \in Proc,
                    (\E r \in Requests : Start(p, r)) \/ Step(p) \/ Crash(p)
             PROVE  Clock' /\ clockFloor' >= clockFloor
  BY <1>0 DEF Next
<1>t. /\ pc \in [Proc -> PCs] /\ DOMAIN call = Proc
      /\ \A q \in Proc : call[q].now \in Instants
  BY DEF Shape, TypeOK
<1> DEFINE Kept == \A q \in Proc : pc'[q] \in Timed =>
                     pc[q] \in Timed /\ call'[q].now = call[q].now
           Goal == Clock' /\ clockFloor' >= clockFloor
<1>k. ASSUME Kept, UNCHANGED clockFloor PROVE Goal
  BY <1>k, <1>i DEF Clock
<1>r. ASSUME NEW r, Return(p, r) PROVE Kept
  BY <1>r, <1>t DEF Return, Timed, Critical
<1>g. ASSUME NEW next, Goto(p, next), UNCHANGED call,
             pc[p] \in Timed \/ next \cap Timed = {}
      PROVE  Kept
  BY <1>g, <1>t, Zenon DEF Goto
<1>w. ASSUME Kept, pc[p] \in Timed, clockFloor' \in {clockFloor, Sec(call[p].now)}
      PROVE  Goal
  <2>1. Sec(call[p].now) >= clockFloor /\ Sec(call[p].now) <= call[p].now
    BY <1>w, <1>i, <1>t, SecMonotone, SecInstant, SMTT(30) DEF Clock
  <2>2. \A q \in Proc \ {p} : pc[q] \notin Timed
    BY <1>w, OneInside DEF Shape, Timed
  <2>3. Sec(call[p].now) \in Int
    BY <1>t, <1>i, SecInstant, Zenon
  <2>4. clockFloor' = NoTime \/ \E u \in Instants : clockFloor' = Sec(u)
    BY <1>w, <1>t DEF Clock
  <2> QED
    BY <1>w, <1>i, <1>t, <2>1, <2>2, <2>3, <2>4, SMTT(30) DEF Clock
<1>n. ASSUME NEW t \in Instants, NEW next, Goto(p, next), pc[p] \in Critical,
             DOMAIN call' = Proc, call'[p].now = t, t >= clockFloor,
             UNCHANGED clockFloor
      PROVE  Goal
  <2>1. \A q \in Proc \ {p} : pc'[q] \notin Timed
    BY <1>n, <1>t, OneInside DEF Shape, Timed, Goto
  <2> QED
    BY <1>n, <1>i, <2>1 DEF Clock
<1>1. ASSUME NEW r \in Requests, Start(p, r) PROVE Goal
  <2>1. \A q \in Proc : pc'[q] \in Timed => q # p /\ pc'[q] = pc[q]
    BY <1>1, <1>t DEF Start, Timed, Critical
  <2>2. \A q \in Proc \ {p} : call'[q] = call[q]
    BY <1>1, <1>t, Zenon DEF Start
  <2> QED
    BY <1>1, <1>k, <2>1, <2>2 DEF Start, durable
<1>2. CASE Acquire(p)
  <2>1. PICK k \in {"marker", "open", "inspect"} : pc' = [pc EXCEPT ![p] = k]
    BY <1>2, RequestsAssumption, Zenon DEF Acquire, Shape
  <2> QED
    BY <1>2, <1>k, <1>t, <2>1, Zenon DEF Acquire, durable, local, Timed
<1>3. CASE LockTimeout(p)
  BY <1>3, <1>k, <1>t DEF LockTimeout, durable, Timed, Critical
<1>4. CASE Crash(p)
  BY <1>4, <1>k, <1>r, Zenon DEF Crash
<1>5. ASSUME NEW r, Reject(p, r) PROVE Goal
  BY <1>5, <1>k, <1>r, Zenon DEF Reject, durable
<1>6. CASE CheckProfileMarker(p)
  <2>1. Failing("error") \cap Timed = {} /\ {"check"} \cap Timed = {}
    BY DEF Failing, Timed
  <2> QED
    BY <1>5, <1>6, <1>k, <1>g, <2>1, Zenon DEF CheckProfileMarker, durable, local
<1>7. ASSUME NEW t \in Instants, Check(p, t) PROVE Goal
  <2>1. CASE call' = [call EXCEPT ![p].now = t, ![p].prior = trustCur,
                                  ![p].active = pending]
    <3>1. DOMAIN call' = Proc /\ call'[p].now = t
      BY <2>1, Zenon DEF Shape, TypeOK, CallFields
    <3> QED
      BY <1>7, <1>5, <1>n, <3>1
      DEF Check, ImportAdmits, ClockAdmits, durable, Critical, PCs
  <2> QED
    BY <1>7, <1>5, <2>1 DEF Check
<1>8. CASE ClearCompleted(p)
  BY <1>8, <1>k, <1>g, Zenon DEF ClearCompleted, local, Timed, Critical, PCs
<1>9. CASE BeginTransaction(p)
  <2>1. ASSUME NEW j, call' = [call EXCEPT ![p].active = j], NEW next, Goto(p, next)
        PROVE  Kept
    <3>1. \A q \in Proc : call'[q].now = call[q].now
      BY <2>1, Zenon DEF Shape, TypeOK, CallFields
    <3> QED
      BY <1>9, <2>1, <3>1, <1>t DEF BeginTransaction, Goto, Timed, Critical, PCs
  <2> QED
    BY <1>9, <1>5, <1>k, <2>1 DEF BeginTransaction
<1>10. CASE StartFloor(p)
  BY <1>10, <1>5, <1>w, <1>g, Zenon DEF StartFloor, local, Timed, Critical, PCs
<1>11. CASE Verify(p)
  BY <1>11, <1>5, <1>k, <1>g, Zenon DEF Verify, durable, Timed, Critical, PCs
<1>12. CASE WriteState(p) \/ WriteFiles(p)
  BY <1>12, <1>k, <1>g, Zenon DEF WriteState, WriteFiles, local, Timed, Critical, PCs
<1>13. CASE PersistFloor(p)
  BY <1>13, <1>w, <1>g, Zenon DEF PersistFloor, local, Timed, Critical, PCs
<1>14. CASE UpdatePendingAccepted(p) \/ UpdatePendingPublished(p)
  BY <1>14, <1>k, <1>g, Zenon
  DEF UpdatePendingAccepted, UpdatePendingPublished, local, Timed, Critical, PCs
<1>15. CASE PublishPointer(p) \/ Admit(p) \/ Select(p) \/ WriteSelection(p)
  BY <1>15, <1>k, <1>g, Zenon
  DEF PublishPointer, Admit, Select, WriteSelection, durable, Timed, Critical, PCs
<1>16. CASE WriteTarget(p) \/ WriteReceipt(p) \/ WriteBinding(p)
  BY <1>16, <1>k, <1>g, Zenon
  DEF WriteTarget, WriteReceipt, WriteBinding, WriteAdmission, local, Timed,
      Critical, PCs
<1>17. CASE Finish(p)
  BY <1>17, <1>k, <1>g, <1>r, Zenon DEF Finish, local, Timed, Critical, PCs
<1>18. CASE Failed(p) \/ ReturnError(p)
  BY <1>18, <1>5, Zenon DEF Failed, ReturnError, Reject
<1>19. ASSUME NEW t \in Instants, Open(p, t) \/ Inspect(p, t) PROVE Goal
  <2>1. CASE call' = [call EXCEPT ![p].now = t]
    <3>1. DOMAIN call' = Proc /\ call'[p].now = t
      BY <2>1 DEF Shape, TypeOK, CallFields
    <3> QED
      BY <1>19, <1>5, <1>n, <3>1, Zenon
      DEF Open, Inspect, OpenAdmits, InspectReads, Reject, durable, Critical, PCs
  <2> QED
    BY <1>19, <1>5, <2>1, Zenon DEF Open, Inspect, Reject
<1>20. CASE OpenFloor(p) \/ InspectFloor(p)
  BY <1>20, <1>w, <1>g, <1>r, Zenon
  DEF OpenFloor, InspectFloor, local, Timed, Critical, PCs
<1> QED
  BY <1>1, <1>2, <1>3, <1>4, <1>6, <1>7, <1>8, <1>9, <1>10, <1>11, <1>12,
     <1>13, <1>14, <1>15, <1>16, <1>17, <1>18, <1>19, <1>20, Zenon
  DEF Step, ImportStep, ReadStep

-----------------------------------------------------------------------------

\* Shape and Clock together are inductive.
THEOREM SafeClock == Spec => [](Shape /\ Clock)
<1>1. Init => Shape /\ Clock
  <2> SUFFICES ASSUME Init PROVE Shape /\ Clock
    OBVIOUS
  <2>1. \A p \in Proc : pc[p] = "idle" /\ call[p] = NoCall /\ work[p] = NoWork
    BY DEF Init
  <2>2. /\ DOMAIN NoCall = CallFields /\ NoCall.now \in Instants
        /\ DOMAIN NoWork = WorkFields /\ NoWork.phase \in 0..2
    BY MaxTimeAssumption DEF NoCall, NoWork, CallFields, WorkFields, Instants
  <2>3. TypeOK
    BY <2>1, <2>2, ProcAssumption, Zenon DEF Init, TypeOK, PCs, Critical
  <2> QED
    BY <2>1, <2>2, <2>3 DEF Init, Shape, Clock, Timed, Critical
<1>2. Shape /\ Clock /\ [Next]_vars => (Shape /\ Clock)'
  BY ShapeStep, ClockStep
<1> QED
  BY <1>1, <1>2, PTL DEF Spec

\* The types hold and the lock excludes: of any number of processes, at most
\* one is between flock and unlockStore (store.go 416-449).
THEOREM TypeCorrect == Spec => []TypeOK
<1>1. Shape => TypeOK
  BY DEF Shape
<1> QED
  BY <1>1, SafeClock, PTL

\* The stored clock floor never moves back, whatever the resolution and range
\* of the clock and however it is set between calls (records.go 377-383).
THEOREM FloorNeverBack == Spec => FloorMonotone
<1>1. Shape /\ Clock /\ [Next]_vars => [clockFloor' >= clockFloor]_vars
  BY ClockStep
<1> QED
  BY <1>1, SafeClock, PTL DEF Spec, FloorMonotone

-----------------------------------------------------------------------------
(* The steps as a table: what each one reads, where it goes and which files  *)
(* it writes, with the writes that fail beside the ones that succeed.        *)

Outside == {"idle", "lock"}

Keeps(p) == call'[p] = call[p] /\ work'[p] = work[p]

\* Another process may be asking for the lock, or giving up.
Outer(p) ==
  /\ pc[p] \in Outside /\ pc'[p] \in Outside
  /\ work'[p] = work[p]
  /\ UNCHANGED <<durable, res, opened>>

Enters(p) ==
  /\ pc[p] = "lock" /\ pc'[p] \in {"marker", "open", "inspect"}
  /\ pc'[p] = "marker" => call[p].req.op = "import"
  /\ Keeps(p) /\ res' = NoResult
  /\ UNCHANGED <<durable, opened>>

\* What a failed call returns.
Failure(p) ==
  IF pc[p] = "failed" THEN RecoveryRequired(FailureReceipt(call[p].active))
  ELSE IF work[p].phase = 2 THEN Result("REJECTED", work[p].changed, FALSE)
  ELSE Error

\* A return or a death. Only finish removes the journal on its way out.
Leaves(p) ==
  /\ pc[p] \in Critical /\ pc'[p] = "idle" /\ work'[p] = NoWork
  /\ \/ UNCHANGED pending /\ (pc[p] \in {"finish", "reject"} => res' = NoResult)
     \/ /\ pc[p] \in {"finish", "reject"} /\ pending' = None
        /\ res' = IF pc[p] = "finish"
                  THEN Result("IMPORTED", work[p].changed, work[p].chg)
                  ELSE Result("REJECTED", work[p].changed, FALSE)
  /\ pc[p] \in {"failed", "error"} => res' \in {NoResult, Failure(p)}
  /\ \/ UNCHANGED opened
     \/ /\ pc[p] = "openfloor"
        /\ opened' = [rev |-> selection.rev, bundle |-> selection.bundle]
  /\ UNCHANGED <<marker, trustCur, stateFiles, selection, admFiles>>

AtMarker(p) ==
  /\ pc[p] = "marker" /\ pc'[p] \in {"check", "error"} /\ Keeps(p)
  /\ marker' => marker \/ Marked
  /\ UNCHANGED <<trustCur, stateFiles, pending, selection, admFiles, clockFloor>>

AtCheck(p) ==
  /\ pc[p] = "check" /\ call'[p].req = call[p].req /\ work'[p] = work[p]
  /\ ImportAdmits(call[p].req, call'[p].now)
  /\ call'[p].prior = trustCur /\ call'[p].active = pending
  /\ pc'[p] = IF Completed(call[p].req) THEN "clear" ELSE "begin"
  /\ UNCHANGED durable

AtClear(p) ==
  /\ pc[p] = "clear" /\ pc'[p] \in {"begin", "failed"} /\ Keeps(p)
  /\ pending' = None \/ (UNCHANGED pending /\ pc'[p] = "failed")
  /\ UNCHANGED <<marker, trustCur, stateFiles, selection, admFiles, clockFloor>>

AtBegin(p) ==
  /\ pc[p] = "begin" /\ work'[p] = work[p]
  /\ call'[p].req = call[p].req /\ call'[p].now = call[p].now
  /\ call'[p].prior = call[p].prior
  /\ selection # None => ValidateStoredSelection(selection)
  /\ \/ /\ pending # None /\ Resumes(pending, call[p]) /\ pc'[p] = "floor"
        /\ call'[p].active = pending /\ UNCHANGED pending
     \/ /\ pending = None /\ pc'[p] \in {"floor", "error"}
        /\ call'[p].active = Transaction(call[p])
        /\ \/ pending' = Transaction(call[p])
           \/ (UNCHANGED pending /\ pc'[p] = "error")
  /\ UNCHANGED <<marker, trustCur, stateFiles, selection, admFiles, clockFloor>>

AtFloor(p) ==
  /\ pc[p] = "floor" /\ pc'[p] \in {"verify", "error"} /\ Keeps(p)
  /\ call[p].now >= call[p].active.started
  /\ clockFloor' = Sec(call[p].now) \/ (UNCHANGED clockFloor /\ pc'[p] = "error")
  /\ UNCHANGED <<marker, trustCur, stateFiles, pending, selection, admFiles>>

Outcome(p) ==
  VerifyPackage(call[p].prior, call[p].req.pkg, call[p].req.boot, call[p].now)

AtVerify(p) ==
  /\ pc[p] = "verify" /\ pc'[p] = "state" /\ ~Outcome(p).lost
  /\ call'[p] = call[p]
  /\ work'[p].changed = work[p].changed /\ work'[p].chg = work[p].chg
  /\ work'[p].state = Outcome(p).state /\ work'[p].refresh = Outcome(p).refresh
  /\ work'[p].phase = 1
  /\ UNCHANGED durable

AtState(p) ==
  /\ pc[p] = "state" /\ pc'[p] \in {"statefloor", "failed"} /\ Keeps(p)
  /\ \/ stateFiles' = stateFiles \cup {<<work[p].state, "state">>}
     \/ UNCHANGED stateFiles /\ pc'[p] = "failed"
  /\ UNCHANGED <<marker, trustCur, pending, selection, admFiles, clockFloor>>

AtStateFloor(p) ==
  /\ pc[p] = "statefloor" /\ pc'[p] \in {"files", "failed"} /\ Keeps(p)
  /\ clockFloor' = Sec(call[p].now) \/ (UNCHANGED clockFloor /\ pc'[p] = "failed")
  /\ UNCHANGED <<marker, trustCur, stateFiles, pending, selection, admFiles>>

AtFiles(p) ==
  /\ pc[p] = "files" /\ pc'[p] \in {"accepted", "failed"} /\ Keeps(p)
  /\ \/ stateFiles' = stateFiles \cup {<<work[p].state, "files">>}
     \/ UNCHANGED stateFiles /\ pc'[p] = "failed"
  /\ UNCHANGED <<marker, trustCur, pending, selection, admFiles, clockFloor>>

AtAccepted(p) ==
  /\ pc[p] = "accepted" /\ pc'[p] \in {"pointer", "failed"} /\ Keeps(p)
  /\ \/ pending # None /\ pending' = [pending EXCEPT !.accepted = work[p].state]
     \/ (UNCHANGED pending /\ pc'[p] = "failed")
  /\ UNCHANGED <<marker, trustCur, stateFiles, selection, admFiles, clockFloor>>

AtPointer(p) ==
  /\ pc[p] = "pointer" /\ pc'[p] \in {"published", "failed"}
  /\ call'[p] = call[p]
  /\ work'[p].state = work[p].state /\ work'[p].refresh = work[p].refresh
  /\ work'[p].phase = work[p].phase /\ work'[p].chg = work[p].chg
  /\ work'[p].changed = (work[p].changed \/ trustCur # work[p].state)
  /\ trustCur' = work[p].state \/ (UNCHANGED trustCur /\ pc'[p] = "failed")
  /\ UNCHANGED <<marker, stateFiles, pending, selection, admFiles, clockFloor>>

AtPublished(p) ==
  /\ pc[p] = "published" /\ Keeps(p)
  /\ pc'[p] \in {IF work[p].phase = 1 THEN "admit" ELSE "select", "failed"}
  /\ \/ /\ pending # None /\ pending.accepted = work[p].state
        /\ pending' = [pending EXCEPT !.published = work[p].state]
     \/ (UNCHANGED pending /\ pc'[p] = "failed")
  /\ UNCHANGED <<marker, trustCur, stateFiles, selection, admFiles, clockFloor>>

AtAdmit(p) ==
  /\ pc[p] = "admit" /\ call'[p] = call[p]
  /\ work'[p].changed = work[p].changed /\ work'[p].chg = work[p].chg
  /\ \/ /\ ~Admits(call[p], work[p]) /\ pc'[p] = "reject"
        /\ work'[p] = work[p]
     \/ /\ Admits(call[p], work[p]) /\ pc'[p] = "state"
        /\ work'[p].state = RaisedFloor(work[p].state) /\ work'[p].phase = 2
  /\ UNCHANGED durable

AtSelect(p) ==
  /\ pc[p] = "select" /\ call'[p] = call[p]
  /\ work'[p].state = work[p].state
  /\ work'[p].changed = work[p].changed /\ work'[p].chg = work[p].chg
  /\ work'[p].rcpt = NewReceipt(call[p], work[p].state)
  /\ \/ pc'[p] = "error" /\ Selected(work[p].state)
     \/ /\ pc'[p] = "finish" /\ Selected(work[p].state) /\ ValidExisting
        /\ Reusable(call[p].req.plan)
     \/ /\ pc'[p] = "target"
        /\ Selected(work[p].state) => ~Reusable(call[p].req.plan)
  /\ UNCHANGED durable

\* The three files of an admission.
Part(p, here) == IF here = "binding" THEN <<work[p].rcpt, here, work[p].state>>
                 ELSE <<work[p].rcpt, here, None>>

AtAdmission(p) ==
  /\ pc[p] \in {"target", "receipt", "binding"} /\ Keeps(p)
  /\ pc'[p] \in {IF pc[p] = "target" THEN "receipt"
                 ELSE IF pc[p] = "receipt" THEN "binding" ELSE "selection",
                 "failed"}
  /\ \/ admFiles' = admFiles \cup {Part(p, pc[p])}
     \/ UNCHANGED admFiles /\ pc'[p] = "failed"
  /\ UNCHANGED <<marker, trustCur, stateFiles, pending, selection, clockFloor>>

NewSelection(w) ==
  [rev |-> w.rcpt.rev, bundle |-> w.rcpt.bundle, rcpt |-> w.rcpt, state |-> w.state]

AtSelection(p) ==
  /\ pc[p] = "selection" /\ pc'[p] \in {"finish", "failed"}
  /\ call'[p] = call[p] /\ work'[p].chg = TRUE
  /\ work'[p].state = work[p].state /\ work'[p].changed = work[p].changed
  /\ selection' = NewSelection(work[p]) \/ (UNCHANGED selection /\ pc'[p] = "failed")
  /\ UNCHANGED <<marker, trustCur, stateFiles, pending, admFiles, clockFloor>>

\* finish could not remove the journal, or not tell.
AtFinish(p) ==
  /\ pc[p] \in {"finish", "reject"} /\ pc'[p] = "failed" /\ Keeps(p)
  /\ pending' \in {None, pending}
  /\ UNCHANGED <<marker, trustCur, stateFiles, selection, admFiles, clockFloor>>

\* A reader that goes on.
AtReader(p) ==
  /\ pc[p] \in {"open", "openfloor", "inspect", "inspectfloor"}
  /\ pc'[p] \in {"openfloor", "inspectfloor", "error"} /\ work'[p] = work[p]
  /\ pc'[p] = "openfloor" => \E t \in Instants : OpenAdmits(call[p].req, t)
  /\ UNCHANGED <<marker, trustCur, stateFiles, pending, selection, admFiles>>

Inner(p) ==
  /\ UNCHANGED <<res, opened>>
  /\ \/ AtMarker(p) \/ AtCheck(p) \/ AtClear(p) \/ AtBegin(p) \/ AtFloor(p)
     \/ AtVerify(p) \/ AtState(p) \/ AtStateFloor(p) \/ AtFiles(p)
     \/ AtAccepted(p) \/ AtPointer(p) \/ AtPublished(p) \/ AtAdmit(p)
     \/ AtSelect(p) \/ AtAdmission(p) \/ AtSelection(p) \/ AtFinish(p)
     \/ AtReader(p)

\* Every step is a line of the table, for one process; the others stay where
\* they are, and outside if this one is inside.
LEMMA StepTable ==
  ASSUME Shape, Next
  PROVE  \E p \in Proc :
           /\ Outer(p) \/ Enters(p) \/ Leaves(p) \/ Inner(p)
           /\ \A q \in Proc \ {p} :
                /\ pc'[q] = pc[q] /\ call'[q] = call[q] /\ work'[q] = work[q]
                /\ ~Outer(p) => pc[q] \in Outside
<1>1. PICK p \in Proc : (\E r \in Requests : Start(p, r)) \/ Step(p) \/ Crash(p)
  BY DEF Next
<1>t. /\ pc \in [Proc -> PCs] /\ DOMAIN call = Proc /\ DOMAIN work = Proc
      /\ DOMAIN call[p] = CallFields /\ DOMAIN work[p] = WorkFields
  BY DEF Shape, TypeOK
<1>f. \A x : Failing(x) \subseteq {x}
  BY DEF Failing
<1> DEFINE Fine == /\ Outer(p) \/ Enters(p) \/ Leaves(p) \/ Inner(p)
                   /\ \A q \in Proc \ {p} :
                        /\ pc'[q] = pc[q] /\ call'[q] = call[q] /\ work'[q] = work[q]
                        /\ ~Outer(p) => pc[q] \in Outside
<1> SUFFICES Fine
  OBVIOUS
<1>a. ASSUME pc[p] \in Critical, NEW k, pc' = [pc EXCEPT ![p] = k],
             \A q \in Proc \ {p} : call'[q] = call[q] /\ work'[q] = work[q],
             pc'[p] = k => Leaves(p) \/ Inner(p)
      PROVE  Fine
  <2>1. /\ pc'[p] = k
        /\ \A q \in Proc \ {p} : pc'[q] = pc[q] /\ pc[q] \in Outside
    BY <1>a, <1>t, OneInside, Zenon DEF Shape, Outside
  <2> QED
    BY <1>a, <2>1, Zenon
<1>r. ASSUME NEW r, Return(p, r), pc[p] \in Critical,
             \/ UNCHANGED pending /\ (pc[p] \in {"finish", "reject"} => r = NoResult)
             \/ /\ pc[p] \in {"finish", "reject"} /\ pending' = None
                /\ r = IF pc[p] = "finish"
                       THEN Result("IMPORTED", work[p].changed, work[p].chg)
                       ELSE Result("REJECTED", work[p].changed, FALSE),
             pc[p] \in {"failed", "error"} => r \in {NoResult, Failure(p)},
             \/ UNCHANGED opened
             \/ /\ pc[p] = "openfloor"
                /\ opened' = [rev |-> selection.rev, bundle |-> selection.bundle],
             UNCHANGED <<marker, trustCur, stateFiles, selection, admFiles>>
      PROVE  Fine
  <2>1. /\ pc' = [pc EXCEPT ![p] = "idle"] /\ work'[p] = NoWork /\ res' = r
        /\ \A q \in Proc \ {p} : call'[q] = call[q] /\ work'[q] = work[q]
    BY <1>r, <1>t, Zenon DEF Return
  <2>2. pc'[p] = "idle" => Leaves(p)
    BY <1>r, <2>1, Zenon DEF Leaves
  <2> QED
    BY <1>a, <1>r, <2>1, <2>2, Zenon
<1>e. ASSUME NEW r, Reject(p, r), pc[p] \in Critical \ {"finish", "reject", "failed", "error"} PROVE Fine
  BY <1>e, <1>r, Zenon DEF Reject, durable
<1>g. ASSUME NEW next, Goto(p, next) PROVE \E k \in next : pc' = [pc EXCEPT ![p] = k] /\ pc'[p] = k
  BY <1>g, <1>t, Zenon DEF Goto
<1>x. /\ \A a, b : Goto(p, {a} \cup Failing(b)) =>
           pc' = [pc EXCEPT ![p] = a] \/ pc' = [pc EXCEPT ![p] = b]
      /\ \A b : Goto(p, Failing(b)) => pc' = [pc EXCEPT ![p] = b]
  <2>1. \A a, b : {a} \cup Failing(b) \subseteq {a, b} /\ Failing(b) \subseteq {b}
    BY <1>f
  <2> QED
    BY <2>1, Zenon DEF Goto
<1>k. UNCHANGED <<call, work>> => \A q \in Proc \ {p} : call'[q] = call[q] /\ work'[q] = work[q]
  OBVIOUS
<1>c. ASSUME NEW c, call' = [call EXCEPT ![p] = c], UNCHANGED work
      PROVE  call'[p] = c /\ \A q \in Proc \ {p} : call'[q] = call[q] /\ work'[q] = work[q]
  BY <1>c, <1>t, Zenon
<1>w. ASSUME NEW w, work' = [work EXCEPT ![p] = w], UNCHANGED call
      PROVE  work'[p] = w /\ \A q \in Proc \ {p} : call'[q] = call[q] /\ work'[q] = work[q]
  BY <1>w, <1>t, Zenon
<1> HIDE DEF Fine
<1>2. ASSUME NEW r, Start(p, r) PROVE Fine
  BY <1>2, <1>t, Zenon DEF Start, Outer, Outside, Fine
<1>3. CASE LockTimeout(p)
  BY <1>3, <1>t, Zenon DEF LockTimeout, Outer, Outside, Fine
<1>4. CASE Acquire(p)
  <2>1. PICK k \in {"marker", "open", "inspect"} :
          pc' = [pc EXCEPT ![p] = k] /\ (k = "marker" => call[p].req.op = "import")
    BY <1>4, RequestsAssumption, ZenonT(30) DEF Acquire, Shape
  <2>2. Enters(p)
    BY <1>4, <1>t, <2>1, Zenon DEF Acquire, Enters, Keeps, local
  <2>3. \A q \in Proc \ {p} : pc'[q] = pc[q] /\ pc[q] \in Outside
    BY <1>4, <1>t, <2>1, ProcAssumption, Zenon DEF Acquire, Shape, TypeOK, Critical, Outside
  <2> QED
    BY <1>4, <2>2, <2>3, Zenon DEF Acquire, local, Fine
<1>5. CASE Crash(p)
  <2>1. pc[p] \in Critical
    BY <1>5, <1>t DEF Crash, Critical
  <2> QED
    BY <1>5, <1>r, <2>1, Zenon DEF Crash
<1>6. CASE CheckProfileMarker(p)
  <2>1. pc[p] = "marker" /\ pc[p] \in Critical \ {"finish", "reject", "failed", "error"}
    BY <1>6 DEF CheckProfileMarker, Critical, PCs
  <2>2. CASE Reject(p, Error)
    BY <1>e, <2>1, <2>2
  <2>3. ASSUME NEW next, Goto(p, next), next \subseteq {"check", "error"},
               UNCHANGED <<trustCur, stateFiles, pending, selection, admFiles,
                           clockFloor, local, res, opened>>,
               marker' => marker \/ Marked
        PROVE  Fine
    <3>1. PICK k \in next : pc' = [pc EXCEPT ![p] = k] /\ pc'[p] = k
      BY <1>g, <2>3, Zenon
    <3>2. pc'[p] = k => Inner(p)
      BY <2>1, <2>3, <3>1, Zenon DEF Inner, AtMarker, Keeps, local
    <3> QED
      BY <1>a, <1>k, <2>1, <2>3, <3>1, <3>2, Zenon DEF local
  <2>4. Failing("error") \subseteq {"check", "error"}
    BY <1>f
  <2>5. CASE marker = Marked /\ Goto(p, {"check"})
             /\ UNCHANGED <<durable, holder, local, res, opened>>
    BY <2>3, <2>5, Zenon DEF durable
  <2>6. CASE /\ Marked
             /\ \/ marker' = TRUE /\ Goto(p, {"check"} \cup Failing("error"))
                \/ marker' = FALSE /\ Goto(p, Failing("error"))
             /\ UNCHANGED <<trustCur, stateFiles, pending, selection, admFiles,
                            clockFloor, litter, holder, local, res, opened>>
    BY <2>3, <2>4, <2>6, Zenon
  <2> QED
    BY <1>6, <2>2, <2>5, <2>6, Zenon DEF CheckProfileMarker
<1>7. ASSUME NEW t \in Instants, Check(p, t) PROVE Fine
  <2>1. pc[p] = "check" /\ pc[p] \in Critical \ {"finish", "reject", "failed", "error"}
    BY <1>7 DEF Check, Critical, PCs
  <2>2. CASE Reject(p, Error)
    BY <1>e, <2>1, <2>2
  <2>3. CASE /\ ImportAdmits(call[p].req, t)
             /\ call' = [call EXCEPT ![p].now = t, ![p].prior = trustCur,
                                     ![p].active = pending]
             /\ Goto(p, IF Completed(call[p].req) THEN {"clear"} ELSE {"begin"})
             /\ UNCHANGED <<durable, work, res, opened>>
    <3>1. pc' = [pc EXCEPT ![p] = IF Completed(call[p].req) THEN "clear" ELSE "begin"]
      BY <2>3, Zenon DEF Goto
    <3>2. /\ call'[p].now = t /\ call'[p].prior = trustCur
          /\ call'[p].active = pending /\ call'[p].req = call[p].req
          /\ \A q \in Proc \ {p} : call'[q] = call[q]
      BY <1>t, <2>3 DEF CallFields
    <3>3. pc'[p] = (IF Completed(call[p].req) THEN "clear" ELSE "begin") => Inner(p)
      BY <2>1, <2>3, <3>2, Zenon DEF Inner, AtCheck
    <3> QED
      BY <1>a, <2>1, <2>3, <3>1, <3>2, <3>3, Zenon
  <2> QED
    BY <1>7, <2>2, <2>3, Zenon DEF Check
<1>8. CASE ClearCompleted(p)
  <2>1. PICK k \in {"begin", "failed"} :
          /\ pc' = [pc EXCEPT ![p] = k]
          /\ pending' = None \/ (UNCHANGED pending /\ k = "failed")
    BY <1>8, <1>x, Zenon DEF ClearCompleted
  <2>2. pc'[p] = k => Inner(p)
    BY <1>8, <2>1, Zenon DEF ClearCompleted, Inner, AtClear, Keeps, local
  <2> QED
    BY <1>8, <1>a, <1>k, <2>1, <2>2, Zenon DEF ClearCompleted, local, Critical, PCs
<1>9. CASE BeginTransaction(p)
  <2>1. pc[p] = "begin" /\ pc[p] \in Critical \ {"finish", "reject", "failed", "error"}
    BY <1>9 DEF BeginTransaction, Critical, PCs
  <2>2. CASE \E r : Reject(p, r)
    BY <1>e, <2>1, <2>2
  <2>3. ASSUME NEW j, call' = [call EXCEPT ![p].active = j], UNCHANGED work
        PROVE  /\ call'[p].now = call[p].now /\ call'[p].prior = call[p].prior
               /\ call'[p].active = j /\ call'[p].req = call[p].req
               /\ work'[p] = work[p]
               /\ \A q \in Proc \ {p} : call'[q] = call[q] /\ work'[q] = work[q]
    BY <1>t, <2>3 DEF CallFields
  <2> DEFINE rest == <<marker, trustCur, stateFiles, selection, admFiles,
                       clockFloor, litter, holder, work, res, opened>>
  <2>4. CASE /\ pending # None /\ Resumes(pending, call[p])
             /\ selection # None => ValidateStoredSelection(selection)
             /\ call' = [call EXCEPT ![p].active = pending]
             /\ UNCHANGED <<pending, rest>> /\ Goto(p, {"floor"})
    <3>1. pc' = [pc EXCEPT ![p] = "floor"]
      BY <2>4, Zenon DEF Goto
    <3>2. pc'[p] = "floor" => Inner(p)
      BY <2>1, <2>3, <2>4, Zenon DEF Inner, AtBegin
    <3> QED
      BY <1>a, <2>1, <2>3, <2>4, <3>1, <3>2, Zenon
  <2>5. CASE /\ pending = None
             /\ selection # None => ValidateStoredSelection(selection)
             /\ call' = [call EXCEPT ![p].active = Transaction(call[p])]
             /\ \/ /\ pending' = Transaction(call[p])
                   /\ Goto(p, {"floor"} \cup Failing("error"))
                \/ UNCHANGED pending /\ Goto(p, Failing("error"))
             /\ UNCHANGED rest
    <3>1. PICK k \in {"floor", "error"} :
            /\ pc' = [pc EXCEPT ![p] = k]
            /\ pending' = Transaction(call[p]) \/ (UNCHANGED pending /\ k = "error")
      BY <1>x, <2>5, Zenon
    <3>2. pc'[p] = k => Inner(p)
      BY <2>1, <2>3, <2>5, <3>1, Zenon DEF Inner, AtBegin
    <3> QED
      BY <1>a, <2>1, <2>3, <2>5, <3>1, <3>2, Zenon
  <2> QED
    BY <1>9, <2>2, <2>4, <2>5, Zenon DEF BeginTransaction
<1>10. CASE StartFloor(p)
  <2>1. pc[p] = "floor" /\ pc[p] \in Critical \ {"finish", "reject", "failed", "error"}
    BY <1>10, Zenon DEF StartFloor, Critical, PCs
  <2>2. CASE Reject(p, Error)
    BY <1>e, <2>1, <2>2
  <2>3. CASE /\ call[p].now >= call[p].active.started
             /\ \/ clockFloor' = Sec(call[p].now)
                   /\ Goto(p, {"verify"} \cup Failing("error"))
                \/ UNCHANGED clockFloor /\ Goto(p, Failing("error"))
             /\ UNCHANGED <<marker, trustCur, stateFiles, pending, selection,
                            admFiles, litter, holder, local, res, opened>>
    <3>1. PICK k \in {"verify", "error"} :
            /\ pc' = [pc EXCEPT ![p] = k]
            /\ clockFloor' = Sec(call[p].now) \/ (UNCHANGED clockFloor /\ k = "error")
      BY <1>x, <2>3, Zenon
    <3>2. pc'[p] = k => Inner(p)
      BY <2>1, <2>3, <3>1, Zenon DEF Inner, AtFloor, Keeps, local
    <3> QED
      BY <1>a, <1>k, <2>1, <2>3, <3>1, <3>2, Zenon DEF local
  <2> QED
    BY <1>10, <2>2, <2>3, Zenon DEF StartFloor
<1>11. CASE Verify(p)
  <2>1. pc[p] = "verify" /\ pc[p] \in Critical \ {"finish", "reject", "failed", "error"}
    BY <1>11, Zenon DEF Verify, Critical, PCs
  <2>2. CASE Reject(p, Error)
    BY <1>e, <2>1, <2>2
  <2>3. CASE /\ ~Outcome(p).lost
             /\ work' = [work EXCEPT ![p].state = Outcome(p).state,
                                     ![p].refresh = Outcome(p).refresh,
                                     ![p].phase = 1]
             /\ Goto(p, {"state"})
             /\ UNCHANGED <<durable, holder, call, res, opened>>
    <3>1. pc' = [pc EXCEPT ![p] = "state"]
      BY <2>3, Zenon DEF Goto
    <3>2. /\ work'[p].state = Outcome(p).state /\ work'[p].refresh = Outcome(p).refresh
          /\ work'[p].phase = 1 /\ work'[p].changed = work[p].changed
          /\ work'[p].chg = work[p].chg
          /\ \A q \in Proc \ {p} : call'[q] = call[q] /\ work'[q] = work[q]
      BY <1>t, <2>3 DEF WorkFields
    <3>3. pc'[p] = "state" => Inner(p)
      BY <2>1, <2>3, <3>2, Zenon DEF Inner, AtVerify
    <3> QED
      BY <1>a, <2>1, <3>1, <3>2, <3>3, Zenon
  <2> QED
    BY <1>11, <2>2, <2>3, Zenon DEF Verify, Outcome
<1>12. CASE WriteState(p)
  <2>1. PICK k \in {"statefloor", "failed"} :
          /\ pc' = [pc EXCEPT ![p] = k]
          /\ \/ stateFiles' = stateFiles \cup {<<work[p].state, "state">>}
             \/ UNCHANGED stateFiles /\ k = "failed"
    BY <1>12, <1>x, Zenon DEF WriteState
  <2>2. pc'[p] = k => Inner(p)
    BY <1>12, <2>1, Zenon DEF WriteState, Inner, AtState, Keeps, local
  <2> QED
    BY <1>12, <1>a, <1>k, <2>1, <2>2, Zenon DEF WriteState, local, Critical, PCs
<1>13. CASE PersistFloor(p)
  <2>1. PICK k \in {"files", "failed"} :
          /\ pc' = [pc EXCEPT ![p] = k]
          /\ clockFloor' = Sec(call[p].now) \/ (UNCHANGED clockFloor /\ k = "failed")
    BY <1>13, <1>x, Zenon DEF PersistFloor
  <2>2. pc'[p] = k => Inner(p)
    BY <1>13, <2>1, Zenon DEF PersistFloor, Inner, AtStateFloor, Keeps, local
  <2> QED
    BY <1>13, <1>a, <1>k, <2>1, <2>2, Zenon DEF PersistFloor, local, Critical, PCs
<1>14. CASE WriteFiles(p)
  <2>1. PICK k \in {"accepted", "failed"} :
          /\ pc' = [pc EXCEPT ![p] = k]
          /\ \/ stateFiles' = stateFiles \cup {<<work[p].state, "files">>}
             \/ UNCHANGED stateFiles /\ k = "failed"
    BY <1>14, <1>x, Zenon DEF WriteFiles
  <2>2. pc'[p] = k => Inner(p)
    BY <1>14, <2>1, Zenon DEF WriteFiles, Inner, AtFiles, Keeps, local
  <2> QED
    BY <1>14, <1>a, <1>k, <2>1, <2>2, Zenon DEF WriteFiles, local, Critical, PCs
<1>15. CASE UpdatePendingAccepted(p)
  <2>1. PICK k \in {"pointer", "failed"} :
          /\ pc' = [pc EXCEPT ![p] = k]
          /\ \/ pending # None /\ pending' = [pending EXCEPT !.accepted = work[p].state]
             \/ (UNCHANGED pending /\ k = "failed")
    BY <1>15, <1>f, <1>g DEF UpdatePendingAccepted
  <2>2. pc'[p] = k => Inner(p)
    BY <1>15, <2>1, Zenon DEF UpdatePendingAccepted, Inner, AtAccepted, Keeps, local
  <2> QED
    BY <1>15, <1>a, <1>k, <2>1, <2>2, Zenon DEF UpdatePendingAccepted, local, Critical, PCs
<1>16. CASE PublishPointer(p)
  <2>1. PICK k \in {"published", "failed"} :
          /\ pc' = [pc EXCEPT ![p] = k]
          /\ trustCur' = work[p].state \/ (UNCHANGED trustCur /\ k = "failed")
    BY <1>16, <1>x, Zenon DEF PublishPointer
  <2>2. /\ work'[p].state = work[p].state /\ work'[p].refresh = work[p].refresh
        /\ work'[p].phase = work[p].phase /\ work'[p].chg = work[p].chg
        /\ work'[p].changed = (work[p].changed \/ trustCur # work[p].state)
        /\ \A q \in Proc \ {p} : call'[q] = call[q] /\ work'[q] = work[q]
    BY <1>16, <1>t DEF PublishPointer, WorkFields
  <2>3. pc'[p] = k => Inner(p)
    BY <1>16, <2>1, <2>2, Zenon DEF PublishPointer, Inner, AtPointer
  <2> QED
    BY <1>16, <1>a, <2>1, <2>2, <2>3, Zenon DEF PublishPointer, Critical, PCs
<1>17. CASE UpdatePendingPublished(p)
  <2> DEFINE next == IF work[p].phase = 1 THEN "admit" ELSE "select"
  <2>1. PICK k \in {next, "failed"} :
          /\ pc' = [pc EXCEPT ![p] = k]
          /\ \/ /\ pending # None /\ pending.accepted = work[p].state
                /\ pending' = [pending EXCEPT !.published = work[p].state]
             \/ (UNCHANGED pending /\ k = "failed")
    <3> HIDE DEF next
    <3>1. \/ /\ pending # None /\ pending.accepted = work[p].state
             /\ pending' = [pending EXCEPT !.published = work[p].state]
             /\ Goto(p, {next} \cup Failing("failed"))
          \/ UNCHANGED pending /\ (Goto(p, Failing("failed")) \/ Goto(p, {"failed"}))
      BY <1>17, Zenon DEF UpdatePendingPublished, next
    <3>2. Goto(p, {"failed"}) => pc' = [pc EXCEPT ![p] = "failed"]
      BY Zenon DEF Goto
    <3> QED
      BY <1>x, <3>1, <3>2, Zenon
  <2>2. pc'[p] = k => Inner(p)
    BY <1>17, <2>1, Zenon DEF UpdatePendingPublished, Inner, AtPublished, Keeps, local
  <2> QED
    BY <1>17, <1>a, <1>k, <2>1, <2>2, Zenon DEF UpdatePendingPublished, local, Critical, PCs
<1>18. CASE Admit(p)
  <2>1. CASE ~Admits(call[p], work[p]) /\ UNCHANGED work /\ Goto(p, {"reject"})
    <3>1. pc' = [pc EXCEPT ![p] = "reject"]
      BY <2>1, Zenon DEF Goto
    <3>2. pc'[p] = "reject" => Inner(p)
      BY <1>18, <2>1, Zenon DEF Admit, Inner, AtAdmit
    <3> QED
      BY <1>18, <1>a, <1>k, <2>1, <3>1, <3>2, Zenon DEF Admit, Critical, PCs
  <2>2. CASE /\ Admits(call[p], work[p]) /\ Goto(p, {"state"})
             /\ work' = [work EXCEPT ![p].state = RaisedFloor(@), ![p].phase = 2]
    <3>1. pc' = [pc EXCEPT ![p] = "state"]
      BY <2>2, Zenon DEF Goto
    <3>2. /\ work'[p].state = RaisedFloor(work[p].state) /\ work'[p].phase = 2
          /\ work'[p].changed = work[p].changed /\ work'[p].chg = work[p].chg
          /\ \A q \in Proc \ {p} : work'[q] = work[q]
      BY <1>t, <2>2 DEF WorkFields
    <3>3. pc'[p] = "state" => Inner(p)
      BY <1>18, <2>2, <3>2, Zenon DEF Admit, Inner, AtAdmit
    <3> QED
      BY <1>18, <1>a, <3>1, <3>2, <3>3, Zenon DEF Admit, Critical, PCs
  <2> QED
    BY <1>18, <2>1, <2>2, Zenon DEF Admit
<1>19. CASE Select(p)
  <2>1. PICK k :
          /\ pc' = [pc EXCEPT ![p] = k]
          /\ \/ k = "error" /\ Selected(work[p].state)
             \/ /\ k = "finish" /\ Selected(work[p].state) /\ ValidExisting
                /\ Reusable(call[p].req.plan)
             \/ /\ k = "target"
                /\ Selected(work[p].state) => ~Reusable(call[p].req.plan)
    BY <1>19, Zenon DEF Select, Goto
  <2>2. /\ work'[p].rcpt = NewReceipt(call[p], work[p].state)
        /\ work'[p].state = work[p].state
        /\ work'[p].changed = work[p].changed /\ work'[p].chg = work[p].chg
        /\ \A q \in Proc \ {p} : call'[q] = call[q] /\ work'[q] = work[q]
    BY <1>19, <1>t DEF Select, WorkFields
  <2>3. pc'[p] = k => Inner(p)
    BY <1>19, <2>1, <2>2, Zenon DEF Select, Inner, AtSelect
  <2> QED
    BY <1>19, <1>a, <2>1, <2>2, <2>3, Zenon DEF Select, Critical, PCs
<1>20. CASE WriteTarget(p) \/ WriteReceipt(p) \/ WriteBinding(p)
  <2> DEFINE next(x) == IF x = "target" THEN "receipt"
                        ELSE IF x = "receipt" THEN "binding" ELSE "selection"
  <2>1. PICK here \in {"target", "receipt", "binding"} :
          WriteAdmission(p, here, Part(p, here), next(here))
    BY <1>20, Zenon DEF WriteTarget, WriteReceipt, WriteBinding, Part
  <2>2. PICK k \in {next(here), "failed"} :
          /\ pc' = [pc EXCEPT ![p] = k] /\ pc[p] = here
          /\ \/ admFiles' = admFiles \cup {Part(p, here)}
             \/ UNCHANGED admFiles /\ k = "failed"
    BY <1>x, <2>1, Zenon DEF WriteAdmission
  <2>3. pc'[p] = k => Inner(p)
    BY <2>1, <2>2, Zenon DEF WriteAdmission, Inner, AtAdmission, Keeps, local
  <2> QED
    BY <1>a, <1>k, <2>1, <2>2, <2>3, Zenon DEF WriteAdmission, local, Critical, PCs
<1>21. CASE WriteSelection(p)
  <2>1. PICK k \in {"finish", "failed"} :
          /\ pc' = [pc EXCEPT ![p] = k]
          /\ selection' = NewSelection(work[p]) \/ (UNCHANGED selection /\ k = "failed")
    BY <1>21, <1>x, Zenon DEF WriteSelection, NewSelection
  <2>2. /\ work'[p].chg = TRUE
        /\ work'[p].state = work[p].state /\ work'[p].changed = work[p].changed
        /\ \A q \in Proc \ {p} : call'[q] = call[q] /\ work'[q] = work[q]
    BY <1>21, <1>t DEF WriteSelection, WorkFields
  <2>3. pc'[p] = k => Inner(p)
    BY <1>21, <2>1, <2>2, Zenon DEF WriteSelection, Inner, AtSelection
  <2> QED
    BY <1>21, <1>a, <2>1, <2>2, <2>3, Zenon DEF WriteSelection, Critical, PCs
<1>22. CASE Finish(p)
  <2>1. pc[p] \in {"finish", "reject"} /\ pc[p] \in Critical
    BY <1>22, Zenon DEF Finish, Critical, PCs
  <2>2. CASE pending' \in {None, pending} /\ Goto(p, Failing("failed"))
             /\ UNCHANGED <<holder, local, res>>
    <3>1. pc' = [pc EXCEPT ![p] = "failed"]
      BY <1>x, <2>2, Zenon
    <3>2. pc'[p] = "failed" => Inner(p)
      BY <1>22, <2>1, <2>2, Zenon DEF Finish, Inner, AtFinish, Keeps, local
    <3> QED
      BY <1>a, <1>k, <2>1, <2>2, <3>1, <3>2, Zenon DEF local
  <2>3. CASE /\ pending' = None
             /\ IF pc[p] = "finish"
                THEN Return(p, Result("IMPORTED", work[p].changed, work[p].chg))
                ELSE Return(p, Result("REJECTED", work[p].changed, FALSE))
    BY <1>22, <1>r, <2>1, <2>3, Zenon DEF Finish
  <2> QED
    BY <1>22, <2>2, <2>3, Zenon DEF Finish
<1>23. CASE Failed(p) \/ ReturnError(p)
  <2>1. /\ pc[p] \in {"failed", "error"} /\ Return(p, Failure(p))
        /\ UNCHANGED <<durable, opened>>
    BY <1>23, Zenon DEF Failed, ReturnError, Reject, Failure
  <2>2. pc[p] \in Critical /\ pc[p] \notin {"finish", "reject"}
    BY <2>1, Zenon DEF Critical, PCs
  <2> QED
    BY <1>r, <2>1, <2>2, Zenon DEF durable
<1>24. ASSUME NEW next, Goto(p, next),
              next \subseteq {"openfloor", "inspectfloor", "error"},
              "openfloor" \in next => \E t \in Instants : OpenAdmits(call[p].req, t),
              pc[p] \in {"open", "openfloor", "inspect", "inspectfloor"},
              \A q \in Proc \ {p} : call'[q] = call[q], UNCHANGED work,
              UNCHANGED <<marker, trustCur, stateFiles, pending, selection,
                          admFiles, res, opened>>
       PROVE  Fine
  <2>1. PICK k \in next : pc' = [pc EXCEPT ![p] = k] /\ pc'[p] = k
    BY <1>g, <1>24, Zenon
  <2>2. pc'[p] = k => Inner(p)
    BY <1>24, <2>1, Zenon DEF Inner, AtReader
  <2> QED
    BY <1>a, <1>24, <2>1, <2>2, Zenon DEF Critical, PCs
<1>25. ASSUME NEW t \in Instants, Open(p, t) \/ Inspect(p, t) PROVE Fine
  <2>1. /\ pc[p] \in {"open", "openfloor", "inspect", "inspectfloor"}
        /\ pc[p] \in Critical \ {"finish", "reject", "failed", "error"}
    BY <1>25, Zenon DEF Open, Inspect, Critical, PCs
  <2>2. CASE (\E r : Return(p, r)) /\ UNCHANGED <<durable, opened>>
    BY <1>r, <2>1, <2>2, Zenon DEF durable
  <2>3. CASE /\ call' = [call EXCEPT ![p].now = t]
             /\ \/ Goto(p, {"openfloor"}) /\ OpenAdmits(call[p].req, t)
                \/ Goto(p, {"inspectfloor"})
             /\ UNCHANGED <<durable, work, res, opened>>
    <3>1. \A q \in Proc \ {p} : call'[q] = call[q]
      BY <1>t, <2>3
    <3>2. "openfloor" \notin {"inspectfloor"}
      OBVIOUS
    <3> QED
      BY <1>24, <2>1, <2>3, <3>1, <3>2, Zenon DEF durable
  <2> QED
    BY <1>25, <2>2, <2>3, Zenon DEF Open, Inspect, Reject
<1>26. CASE OpenFloor(p) \/ InspectFloor(p)
  <2>1. /\ pc[p] \in {"open", "openfloor", "inspect", "inspectfloor"}
        /\ pc[p] \in Critical \ {"finish", "reject", "failed", "error"}
        /\ UNCHANGED <<marker, trustCur, stateFiles, pending, selection, admFiles>>
        /\ \/ UNCHANGED opened
           \/ /\ pc[p] = "openfloor"
              /\ opened' = [rev |-> selection.rev, bundle |-> selection.bundle]
    BY <1>26, Zenon DEF OpenFloor, InspectFloor, Critical, PCs
  <2>2. CASE \E r : Return(p, r)
    BY <1>r, <2>1, <2>2, Zenon
  <2>3. CASE Goto(p, Failing("error")) /\ UNCHANGED <<local, res, opened>>
    <3>1. /\ Failing("error") \subseteq {"openfloor", "inspectfloor", "error"}
          /\ "openfloor" \notin Failing("error")
      BY <1>f
    <3> QED
      BY <1>k, <1>24, <2>1, <2>3, <3>1, Zenon DEF local
  <2> QED
    BY <1>26, <2>2, <2>3, Zenon DEF OpenFloor, InspectFloor
<1> QED
  BY <1>1, <1>2, <1>3, <1>4, <1>5, <1>6, <1>7, <1>8, <1>9, <1>10, <1>11, <1>12,
     <1>13, <1>14, <1>15, <1>16, <1>17, <1>18, <1>19, <1>20, <1>21, <1>22,
     <1>23, <1>25, <1>26, Zenon
  DEF Step, ImportStep, ReadStep

\* Who writes what.
LEMMA Writes ==
  ASSUME NEW p \in Proc, Outer(p) \/ Enters(p) \/ Leaves(p) \/ Inner(p)
  PROVE  /\ marker' => marker \/ Marked
         /\ UNCHANGED trustCur \/ (AtPointer(p) /\ trustCur' = work[p].state)
         /\ \/ UNCHANGED stateFiles
            \/ AtState(p) /\ stateFiles' = stateFiles \cup {<<work[p].state, "state">>}
            \/ AtFiles(p) /\ stateFiles' = stateFiles \cup {<<work[p].state, "files">>}
         /\ \/ pending' \in {None, pending}
            \/ AtBegin(p) /\ pending' = Transaction(call[p])
            \/ /\ AtAccepted(p) /\ pending # None
               /\ pending' = [pending EXCEPT !.accepted = work[p].state]
            \/ /\ AtPublished(p) /\ pending # None
               /\ pending' = [pending EXCEPT !.published = work[p].state]
         /\ UNCHANGED selection \/ (AtSelection(p) /\ selection' = NewSelection(work[p]))
         /\ UNCHANGED admFiles \/ (AtAdmission(p) /\ admFiles' = admFiles \cup {Part(p, pc[p])})
         /\ \/ UNCHANGED opened
            \/ /\ Leaves(p) /\ pc[p] = "openfloor"
               /\ opened' = [rev |-> selection.rev, bundle |-> selection.bundle]
<1> USE DEF durable, Outer, Enters, Leaves, Inner, AtMarker, AtCheck, AtClear, AtBegin,
        AtFloor, AtVerify, AtState, AtStateFloor, AtFiles, AtAccepted, AtPointer, AtPublished,
        AtAdmit, AtSelect, AtAdmission, AtSelection, AtFinish, AtReader
<1>0. marker' => marker \/ Marked
  BY Zenon
<1>1. UNCHANGED trustCur \/ (AtPointer(p) /\ trustCur' = work[p].state)
  BY Zenon
<1>2. \/ UNCHANGED stateFiles
      \/ AtState(p) /\ stateFiles' = stateFiles \cup {<<work[p].state, "state">>}
      \/ AtFiles(p) /\ stateFiles' = stateFiles \cup {<<work[p].state, "files">>}
  BY Zenon
<1>3. \/ pending' \in {None, pending}
      \/ AtBegin(p) /\ pending' = Transaction(call[p])
      \/ /\ AtAccepted(p) /\ pending # None
         /\ pending' = [pending EXCEPT !.accepted = work[p].state]
      \/ /\ AtPublished(p) /\ pending # None
         /\ pending' = [pending EXCEPT !.published = work[p].state]
  BY Zenon
<1>4. UNCHANGED selection \/ (AtSelection(p) /\ selection' = NewSelection(work[p]))
  BY Zenon
<1>5. UNCHANGED admFiles \/ (AtAdmission(p) /\ admFiles' = admFiles \cup {Part(p, pc[p])})
  BY Zenon
<1>6. \/ UNCHANGED opened
      \/ /\ Leaves(p) /\ pc[p] = "openfloor"
         /\ opened' = [rev |-> selection.rev, bundle |-> selection.bundle]
  BY Zenon
<1> HIDE DEF AtPointer, AtState, AtFiles, AtBegin, AtAccepted, AtPublished, AtSelection,
             AtAdmission, Leaves
<1> QED
  BY <1>0, <1>1, <1>2, <1>3, <1>4, <1>5, <1>6, Zenon

-----------------------------------------------------------------------------
(* Trust states *)

Floors == {None} \cup Revisions
Floor(s) == IF s = None THEN None ELSE s.floor

StateFields == {"init", "root", "ts", "sn", "tg", "floor"}
PendingFields == {"prior", "sel", "init", "want", "accepted", "published",
                  "started"}

HasFields(s) == DOMAIN s = StateFields /\ s = [x \in StateFields |-> s[x]]
IsState(s) == HasFields(s) /\ s.floor \in Floors

\* A revision is a pair of a number and a bundle, and is determined by them.
LEMMA RevisionPair ==
  ASSUME NEW r \in Revisions
  PROVE  /\ r # None /\ r.rev \in Nat
         /\ r.bundle \in DOMAIN Admission /\ r.rev = Admission[r.bundle].rev
         /\ r = [rev |-> r.rev, bundle |-> r.bundle]
  BY AdmissionAssumption DEF Revisions, None

\* NotBelow is transitive on floors.
LEMMA NotBelowTransitive ==
  ASSUME NEW a \in Floors, NEW b \in Floors, NEW c \in Floors,
         NotBelow(a, b), NotBelow(b, c)
  PROVE  NotBelow(a, c)
  BY RevisionPair DEF NotBelow, Floors

\* A verification carries the floor over unchanged, and one that is not
\* refused leaves the targets of the package's bundle.
LEMMA VerifyState ==
  ASSUME NEW prior, NEW pkg, NEW boot, NEW t
  PROVE  LET v == VerifyPackage(prior, pkg, boot, t) IN
         /\ HasFields(v.state) /\ v.state.floor = Floor(prior)
         /\ v.refresh = "none" => v.state.tg.bundle = pkg.bundle
<1> DEFINE v == VerifyPackage(prior, pkg, boot, t)
           r0 == IF prior = None THEN boot ELSE prior.root
           root == LoadRoot(r0, pkg)
           c == Cache(prior, RotatesUpdateAuthority(r0, pkg))
           f == OnlineRefresh(c, pkg, r0, root, t)
           s == Material(prior, boot, r0, root, c, f)
<1>1. v = Verified(pkg, f, s)
  BY VerifyNamed, Zenon
<1>2. ASSUME f.tg.err = "none" PROVE f.tg.trusted # None
  <2> HIDE DEF r0, root, c
  <2> QED
    BY <1>2, RefreshStep, TargetsStep
<1> HIDE DEF v, r0, root, c, f
<1>3. /\ s.floor = Floor(prior)
      /\ f.tg.trusted # None => s.tg = f.tg.trusted
  BY Zenon DEF Material, Floor
<1>4. HasFields(s)
  BY ZenonT(30) DEF Material, HasFields, StateFields
<1> HIDE DEF s
<1>5. v.state = s
  BY <1>1 DEF Verified
<1>6. v.refresh = "none" => f.tg.err = "none" /\ pkg.bundle = f.tg.trusted.bundle
  BY <1>1 DEF Verified
<1> QED
  BY <1>2, <1>3, <1>4, <1>5, <1>6, Zenon DEF v

\* Admission raises the floor to the revision of the admitted bundle, which
\* is at or above the floor of the state (import.go 290-300).
LEMMA AdmitRaises ==
  ASSUME NEW c, NEW w, IsState(w.state), Admits(c, w),
         w.state.tg.bundle \in DOMAIN Admission
  PROVE  /\ IsState(RaisedFloor(w.state))
         /\ RaisedFloor(w.state).floor \in Revisions
         /\ NotBelow(RaisedFloor(w.state).floor, w.state.floor)
<1> DEFINE r == [rev |-> Admission[w.state.tg.bundle].rev,
                 bundle |-> w.state.tg.bundle]
<1>1. HasFields(RaisedFloor(w.state)) /\ RaisedFloor(w.state).floor = r
  BY Zenon DEF RaisedFloor, IsState, HasFields, StateFields
<1>2. r \in Revisions
  BY DEF Revisions
<1>3. NotBelow(r, w.state.floor)
  <2>1. EnforceRevisionFloor(w.state.floor, r.rev, r.bundle)
    BY Zenon DEF Admits
  <2>2. w.state.floor # None => w.state.floor \in Revisions
    BY SMTT(30) DEF IsState, Floors
  <2> QED
    BY <1>2, <2>1, <2>2, RevisionPair, Zenon DEF EnforceRevisionFloor, NotBelow
<1> QED
  BY <1>1, <1>2, <1>3, Zenon DEF IsState, Floors

-----------------------------------------------------------------------------
(* The invariant *)

Opening == {"clear", "begin", "floor", "verify"}
Persisting == {"state", "statefloor", "files", "accepted", "pointer"}
Admitted == {"target", "receipt", "binding", "selection"}
PointerSet == {"published", "admit", "reject", "select", "finish"} \cup Admitted
Journaling == {"floor", "verify"} \cup Persisting \cup PointerSet
Importing == {"marker", "check"} \cup Opening \cup Journaling

\* The files: the floor of the pointer's state is at or above everything that
\* was served, and the selection is the revision its state's floor names.
Held ==
  /\ trustCur # None => IsState(trustCur)
  /\ selection # None =>
       /\ IsState(selection.state)
       /\ selection.state.floor = [rev |-> selection.rev, bundle |-> selection.bundle]
  /\ pending # None => DOMAIN pending = PendingFields
  /\ opened # None => /\ opened \in Revisions /\ trustCur # None
                      /\ NotBelow(trustCur.floor, opened)

\* A process inside a call: until it publishes, the pointer is the one it
\* found (phase 1) or the one it set itself (phase 2), and the state it is
\* about to publish has that floor or a raised one.
InCall(p) ==
  /\ pc[p] \in Importing => call[p].req.op = "import"
  /\ pc[p] \in Journaling => pending # None
  /\ pc[p] \in Opening => call[p].prior = trustCur
  /\ pc[p] \in Persisting =>
       /\ IsState(work[p].state)
       /\ work[p].phase = 1 => /\ call[p].prior = trustCur
                               /\ work[p].state.floor = Floor(trustCur)
       /\ work[p].phase # 1 => /\ trustCur # None
                               /\ work[p].state.floor \in Revisions
                               /\ NotBelow(work[p].state.floor, trustCur.floor)
  /\ pc[p] \in PointerSet => trustCur # None /\ trustCur = work[p].state
  /\ /\ pc[p] \in Persisting \cup {"published", "admit"}
     /\ work[p].phase = 1
     /\ work[p].refresh = "none"
     => work[p].state.tg.bundle = call[p].req.pkg.bundle
  /\ pc[p] = "admit" => work[p].phase = 1
  /\ \/ pc[p] = "published" /\ work[p].phase # 1
     \/ pc[p] \in {"select"} \cup Admitted
     => work[p].state.floor \in Revisions
  /\ pc[p] \in Admitted =>
       work[p].state.floor = [rev |-> work[p].rcpt.rev,
                              bundle |-> work[p].rcpt.bundle]
  /\ pc[p] = "openfloor" => /\ pending = None /\ selection # None
                            /\ trustCur # None /\ trustCur = selection.state

Trust == Held /\ \A p \in Proc : InCall(p)

-----------------------------------------------------------------------------

\* The process that moves.
LEMMA InCallStep ==
  ASSUME Shape, Trust, NEW p \in Proc, Enters(p) \/ Leaves(p) \/ Inner(p)
  PROVE  InCall(p)'
<1> USE DEF Importing, Opening, Journaling, Persisting, PointerSet, Admitted
<1>a. /\ InCall(p) /\ (trustCur # None => IsState(trustCur))
      /\ pending # None => DOMAIN pending = PendingFields
  BY DEF Trust, Held
<1>1. CASE Enters(p)
  BY <1>1, Zenon DEF Enters, Keeps, InCall
<1>2. CASE Leaves(p)
  BY <1>2, Zenon DEF Leaves, InCall
<1>3. CASE Inner(p) /\ AtMarker(p)
  BY <1>a, <1>3, Zenon DEF AtMarker, Keeps, InCall
<1>4. CASE Inner(p) /\ AtCheck(p)
  BY <1>a, <1>4, Zenon DEF AtCheck, InCall, durable
<1>5. CASE Inner(p) /\ AtClear(p)
  BY <1>a, <1>5, Zenon DEF AtClear, Keeps, InCall
<1>6. CASE Inner(p) /\ AtBegin(p)
  <2>1. Transaction(call[p]) # None
    BY Present DEF Transaction
  <2> QED
    BY <1>a, <1>6, <2>1, Zenon DEF AtBegin, InCall
<1>7. CASE Inner(p) /\ AtFloor(p)
  BY <1>a, <1>7, Zenon DEF AtFloor, Keeps, InCall
<1>8. CASE Inner(p) /\ AtVerify(p)
  <2> DEFINE v == Outcome(p)
             s == v.state
  <2>2. /\ pc[p] = "verify" /\ pc'[p] = "state" /\ call'[p] = call[p] /\ UNCHANGED durable
        /\ work'[p].state = s /\ work'[p].refresh = v.refresh /\ work'[p].phase = 1
    BY <1>8, Zenon DEF AtVerify
  <2>0. v = VerifyPackage(call[p].prior, call[p].req.pkg, call[p].req.boot, call[p].now)
    BY Zenon DEF Outcome
  <2> HIDE DEF v
  <2>1. /\ HasFields(s) /\ s.floor = Floor(call[p].prior)
        /\ v.refresh = "none" => s.tg.bundle = call[p].req.pkg.bundle
    BY <2>0, VerifyState
  <2> HIDE DEF s
  <2>3. call[p].prior = trustCur /\ pending # None /\ call[p].req.op = "import"
    BY <1>a, <2>2, Zenon DEF InCall
  <2>4. IsState(s)
    BY <1>a, <2>1, <2>3, SMTT(30) DEF IsState, Floor, Floors
  <2> QED
    BY <2>1, <2>2, <2>3, <2>4, Zenon DEF InCall, durable
<1>9. CASE Inner(p) /\ AtState(p)
  BY <1>a, <1>9, Zenon DEF AtState, Keeps, InCall
<1>10. CASE Inner(p) /\ AtStateFloor(p)
  BY <1>a, <1>10, Zenon DEF AtStateFloor, Keeps, InCall
<1>11. CASE Inner(p) /\ AtFiles(p)
  BY <1>a, <1>11, Zenon DEF AtFiles, Keeps, InCall
<1>12. CASE Inner(p) /\ AtAccepted(p)
  <2>1. pending # None => [pending EXCEPT !.accepted = work[p].state] # None
    BY <1>a, Present, SMTT(30) DEF PendingFields
  <2> QED
    BY <1>a, <1>12, <2>1, Zenon DEF AtAccepted, Keeps, InCall
<1>13. CASE Inner(p) /\ AtPointer(p)
  <2>1. work[p].state # None
    BY <1>a, <1>13, Present, Zenon DEF AtPointer, InCall, IsState, HasFields, StateFields
  <2> QED
    BY <1>a, <1>13, <2>1, Zenon DEF AtPointer, InCall
<1>14. CASE Inner(p) /\ AtPublished(p)
  <2>1. pending # None => [pending EXCEPT !.published = work[p].state] # None
    BY <1>a, Present DEF PendingFields
  <2> QED
    BY <1>a, <1>14, <2>1, Zenon DEF AtPublished, Keeps, InCall
<1>15. CASE Inner(p) /\ AtAdmit(p)
  <2>1. CASE pc'[p] = "reject"
    BY <1>a, <1>15, <2>1, Zenon DEF AtAdmit, InCall, durable
  <2>2. CASE pc'[p] = "state"
    <3>1. /\ pc[p] = "admit" /\ Admits(call[p], work[p]) /\ call'[p] = call[p] /\ UNCHANGED durable
          /\ work'[p].state = RaisedFloor(work[p].state) /\ work'[p].phase = 2
      BY <1>15, <2>2, Zenon DEF AtAdmit
    <3>2. /\ trustCur # None /\ trustCur = work[p].state /\ work[p].phase = 1
          /\ call[p].req.op = "import" /\ pending # None
      BY <1>a, <3>1, Zenon DEF InCall
    <3>3. work[p].refresh = "none" /\ call[p].req \in Requests
      BY <3>1, Zenon DEF Admits, Shape
    <3>4. work[p].state.tg.bundle \in DOMAIN Admission
      BY <1>a, <3>1, <3>2, <3>3, RequestsAssumption, Zenon DEF InCall
    <3>5. /\ IsState(RaisedFloor(work[p].state))
          /\ RaisedFloor(work[p].state).floor \in Revisions
          /\ NotBelow(RaisedFloor(work[p].state).floor, work[p].state.floor)
      BY <1>a, <3>1, <3>2, <3>4, AdmitRaises, Zenon
    <3> QED
      BY <2>2, <3>1, <3>2, <3>5 DEF InCall, durable
  <2> QED
    BY <1>15, <2>1, <2>2, SMTT(30) DEF AtAdmit
<1>16. CASE Inner(p) /\ AtSelect(p)
  <2>1. CASE pc'[p] # "target"
    BY <1>a, <1>16, <2>1, Zenon DEF AtSelect, InCall, durable
  <2>2. CASE pc'[p] = "target"
    <3>1. /\ pc[p] = "select" /\ call'[p] = call[p] /\ UNCHANGED durable
          /\ work'[p].state = work[p].state
          /\ work'[p].rcpt = NewReceipt(call[p], work[p].state)
      BY <1>16, <2>2, Zenon DEF AtSelect
    <3>2. /\ work'[p].rcpt.rev = work[p].state.floor.rev
          /\ work'[p].rcpt.bundle = work[p].state.floor.bundle
      BY <3>1 DEF NewReceipt
    <3>3. work[p].state.floor \in Revisions
      BY <1>a, <3>1, Zenon DEF InCall
    <3>4. work[p].state.floor = [rev |-> work'[p].rcpt.rev, bundle |-> work'[p].rcpt.bundle]
      BY <3>2, <3>3, RevisionPair, Zenon
    <3> QED
      BY <1>a, <2>2, <3>1, <3>3, <3>4, Zenon DEF InCall, durable
  <2> QED
    BY <2>1, <2>2
<1>17. CASE Inner(p) /\ AtAdmission(p)
  BY <1>a, <1>17, Zenon DEF AtAdmission, Keeps, InCall
<1>18. CASE Inner(p) /\ AtSelection(p)
  BY <1>a, <1>18, Zenon DEF AtSelection, InCall
<1>19. CASE Inner(p) /\ AtFinish(p)
  BY <1>19, Zenon DEF AtFinish, InCall
<1>20. CASE Inner(p) /\ AtReader(p)
  BY <1>20, Zenon DEF AtReader, OpenAdmits, InCall
<1> HIDE DEF Importing, Opening, Journaling, Persisting, PointerSet, Admitted
<1> QED
  BY <1>1, <1>2, <1>3, <1>4, <1>5, <1>6, <1>7, <1>8, <1>9, <1>10, <1>11, <1>12, <1>13,
     <1>14, <1>15, <1>16, <1>17, <1>18, <1>19, <1>20, Zenon DEF Inner

\* A published state has the old floor, or a raised one, and a journal.
LEMMA PointerStep ==
  ASSUME Trust, NEW p \in Proc, AtPointer(p), trustCur' = work[p].state
  PROVE  /\ pending # None /\ UNCHANGED <<pending, selection>>
         /\ trustCur' # None /\ IsState(trustCur')
         /\ \/ trustCur'.floor = Floor(trustCur)
            \/ /\ trustCur'.floor \in Revisions /\ trustCur # None
               /\ NotBelow(trustCur'.floor, trustCur.floor)
<1>1. InCall(p) /\ pc[p] = "pointer" /\ UNCHANGED <<pending, selection>>
  BY Zenon DEF Trust, AtPointer
<1>2. /\ pending # None /\ IsState(work[p].state)
      /\ \/ work[p].state.floor = Floor(trustCur)
         \/ /\ work[p].state.floor \in Revisions /\ trustCur # None
            /\ NotBelow(work[p].state.floor, trustCur.floor)
  BY <1>1, Zenon DEF InCall, Persisting, Journaling
<1>3. work[p].state # None
  BY <1>2, Present, Zenon DEF IsState, HasFields, StateFields
<1> QED
  BY <1>1, <1>2, <1>3, Zenon

\* What a reader is handed is the floor of the trust state, with no journal
\* on disk.
LEMMA ServeStep ==
  ASSUME Trust, NEW p \in Proc, pc[p] = "openfloor"
  PROVE  /\ pending = None /\ selection # None /\ trustCur # None
         /\ trustCur = selection.state
         /\ trustCur.floor = [rev |-> selection.rev, bundle |-> selection.bundle]
  BY Zenon DEF Trust, InCall, Held

\* The trust pointer only moves to a floor that is not below its own.
LEMMA FloorStep ==
  ASSUME Trust, NEW p \in Proc, Outer(p) \/ Enters(p) \/ Leaves(p) \/ Inner(p), trustCur # None
  PROVE  trustCur' # None /\ NotBelow(trustCur'.floor, trustCur.floor)
<1>1. CASE UNCHANGED trustCur
  BY <1>1 DEF NotBelow
<1>2. CASE AtPointer(p) /\ trustCur' = work[p].state
  BY <1>2, PointerStep, Zenon DEF NotBelow, Floor
<1> QED
  BY <1>1, <1>2, Writes

\* Every step keeps what is held.
LEMMA HeldStep ==
  ASSUME Trust, NEW p \in Proc, Outer(p) \/ Enters(p) \/ Leaves(p) \/ Inner(p)
  PROVE  Held'
<1>h. Held /\ InCall(p)
  BY DEF Trust
<1>1. trustCur' # None => IsState(trustCur)'
  <2>1. CASE UNCHANGED trustCur
    BY <1>h, <2>1 DEF Held
  <2>2. CASE AtPointer(p) /\ trustCur' = work[p].state
    BY <2>2, PointerStep
  <2> QED
    BY <2>1, <2>2, Writes
<1>2. selection' # None =>
        /\ IsState(selection.state)'
        /\ selection'.state.floor = [rev |-> selection'.rev, bundle |-> selection'.bundle]
  <2>1. CASE UNCHANGED selection
    BY <1>h, <2>1 DEF Held
  <2>2. CASE AtSelection(p) /\ selection' = NewSelection(work[p])
    <3>1. /\ IsState(work[p].state)
          /\ work[p].state.floor = [rev |-> work[p].rcpt.rev, bundle |-> work[p].rcpt.bundle]
      BY <1>h, <2>2, Zenon DEF AtSelection, InCall, Held, PointerSet, Admitted
    <3> QED
      BY <2>2, <3>1 DEF NewSelection
  <2> QED
    BY <2>1, <2>2, Writes
<1>3. pending' # None => DOMAIN pending' = PendingFields
  <2>1. DOMAIN Transaction(call[p]) = PendingFields
    BY Zenon DEF Transaction, PendingFields
  <2> QED
    BY <1>h, <2>1, Writes, SMTT(30) DEF Held
<1>4. opened' # None =>
        opened' \in Revisions /\ trustCur' # None /\ NotBelow(trustCur'.floor, opened')
  <2>1. CASE UNCHANGED opened
    <3> SUFFICES ASSUME opened # None
                 PROVE  /\ opened \in Revisions /\ trustCur' # None
                        /\ NotBelow(trustCur'.floor, opened)
      BY <2>1
    <3>1. /\ opened \in Revisions /\ trustCur # None /\ NotBelow(trustCur.floor, opened)
          /\ trustCur.floor \in Floors
      BY <1>h DEF Held, IsState
    <3>2. trustCur' # None /\ NotBelow(trustCur'.floor, trustCur.floor)
      BY <3>1, FloorStep
    <3>3. trustCur'.floor \in Floors
      BY <1>1, <3>2 DEF IsState
    <3>4. NotBelow(trustCur'.floor, opened)
      BY <3>1, <3>2, <3>3, NotBelowTransitive DEF Floors
    <3> QED
      BY <3>1, <3>2, <3>4
  <2>2. CASE Leaves(p) /\ pc[p] = "openfloor"
             /\ opened' = [rev |-> selection.rev, bundle |-> selection.bundle]
    <3>1. /\ trustCur # None /\ opened' = trustCur.floor /\ UNCHANGED trustCur
      BY <2>2, ServeStep, Zenon DEF Leaves
    <3>2. opened' # None
      BY <2>2, Present, Zenon
    <3>3. opened' \in Revisions
      BY <1>h, <3>1, <3>2 DEF Held, IsState, Floors
    <3> QED
      BY <3>1, <3>3 DEF NotBelow
  <2> QED
    BY <2>1, <2>2, Writes
<1> QED
  BY <1>1, <1>2, <1>3, <1>4 DEF Held

\* Every step keeps Trust.
LEMMA TrustStep ==
  ASSUME Shape, Trust, [Next]_vars
  PROVE  Trust'
<1>0. CASE UNCHANGED vars
  BY <1>0, ZenonT(30) DEF Trust, Held, InCall, IsState, vars, durable
<1> SUFFICES ASSUME Next PROVE Trust'
  BY <1>0
<1>1. PICK p \in Proc :
        /\ Outer(p) \/ Enters(p) \/ Leaves(p) \/ Inner(p)
        /\ \A q \in Proc \ {p} :
             /\ pc'[q] = pc[q] /\ call'[q] = call[q] /\ work'[q] = work[q]
             /\ ~Outer(p) => pc[q] \in Outside
  BY StepTable, Zenon
<1> USE DEF Importing, Opening, Journaling, Persisting, PointerSet, Admitted
<1>2. ASSUME NEW q \in Proc \ {p} PROVE InCall(q)'
  <2>1. CASE Outer(p)
    <3>1. /\ InCall(q) /\ UNCHANGED <<trustCur, selection, pending>>
          /\ pc'[q] = pc[q] /\ call'[q] = call[q] /\ work'[q] = work[q]
      BY <1>1, <1>2, <2>1, Zenon DEF Trust, Outer, durable
    <3> QED
      BY <3>1, Zenon DEF InCall, IsState
  <2>2. CASE ~Outer(p)
    BY <1>1, <1>2, <2>2, Zenon DEF InCall, Outside
  <2> QED
    BY <2>1, <2>2
<1>3. InCall(p)'
  <2>1. CASE Outer(p)
    BY <2>1, Zenon DEF Outer, InCall, Outside
  <2>2. CASE Enters(p) \/ Leaves(p) \/ Inner(p)
    BY <2>2, InCallStep
  <2> QED
    BY <1>1, <2>1, <2>2, Zenon
<1>4. Held'
  BY <1>1, HeldStep, Zenon
<1> QED
  BY <1>2, <1>3, <1>4, Zenon DEF Trust

-----------------------------------------------------------------------------
(* Theorems *)

\* Shape and Trust together are inductive.
THEOREM SafeTrust == Spec => [](Shape /\ Trust)
<1>1. Init => Trust
  BY Zenon DEF Init, Trust, Held, InCall, Importing, Opening, Journaling, Persisting,
         PointerSet, Admitted
<1>2. Shape /\ Trust /\ [Next]_vars => Trust'
  BY TrustStep
<1> QED
  BY <1>1, <1>2, SafeClock, PTL DEF Spec

\* The trust pointer never loses its floor, lowers its revision or changes the
\* bundle under it (import.go 474-492 with both runs of persistTrustMaterial).
THEOREM FloorNeverLowered == Spec => RevisionFloorMonotone
<1>1. ASSUME Shape, Trust, Next, trustCur # None
      PROVE  trustCur' # None /\ NotBelow(trustCur'.floor, trustCur.floor)
  BY <1>1, StepTable, FloorStep, Zenon
<1>2. Shape /\ Trust /\ [Next]_vars =>
        [trustCur # None =>
           trustCur' # None /\ NotBelow(trustCur'.floor, trustCur.floor)]_vars
  BY <1>1
<1> QED
  BY <1>2, SafeTrust, PTL DEF Spec, RevisionFloorMonotone

\* Both floors of an import, the clock's (records.go 377) and the revision's
\* (import.go 474), only rise.
THEOREM FloorsNeverBack == Spec => FloorsMonotone
<1> QED
  BY FloorNeverBack, FloorNeverLowered DEF FloorsMonotone

\* OpenCurrent never serves an older revision, nor another bundle under the
\* same revision, than it served before.
THEOREM ServedNeverBack == Spec => ServedMonotone
<1>1. ASSUME Shape, Trust, Next, opened' # opened
      PROVE  NotBelow(opened', opened)
  <2>1. PICK p \in Proc :
          pc[p] = "openfloor" /\ opened' = [rev |-> selection.rev, bundle |-> selection.bundle]
    BY <1>1, StepTable, Writes
  <2>2. opened' = trustCur.floor /\ trustCur # None
    BY <1>1, <2>1, ServeStep
  <2> QED
    BY <1>1, <2>2, Zenon DEF Trust, Held, NotBelow
<1>2. Shape /\ Trust /\ [Next]_vars => [NotBelow(opened', opened)]_opened
  BY <1>1 DEF vars
<1> QED
  BY <1>2, SafeTrust, PTL DEF Spec, ServedMonotone

-----------------------------------------------------------------------------
(* KnowledgeStore implements KnowledgeRegister. *)

\* The abstract state, as Register substitutes it.
current ==
  IF pending = None /\ selection # None /\ trustCur = selection.state
  THEN [rev |-> selection.rev, bundle |-> selection.bundle]
  ELSE None
high == IF trustCur = None THEN None ELSE trustCur.floor

\* A step that keeps pointer and readers either leaves the offer or withdraws
\* it, or makes the offer that the pointer's floor allows.
LEMMA JournalStep ==
  ASSUME Trust, Trust', UNCHANGED <<trustCur, opened>>,
         pending # None \/ pending' # None
  PROVE  [Register!RNext]_(Register!rvars)
<1>1. high' = high
  BY DEF high
<1>2. pending' = None /\ current' # None => high' # None /\ current' = high'
  <2> SUFFICES ASSUME pending' = None, current' # None
               PROVE  high' # None /\ current' = high'
    OBVIOUS
  <2>1. /\ selection' # None /\ trustCur' = selection'.state
        /\ current' = [rev |-> selection'.rev, bundle |-> selection'.bundle]
    BY Zenon DEF current
  <2>2. IsState(selection.state)' /\ current' = trustCur'.floor
    BY <2>1, Zenon DEF Trust, Held
  <2>3. trustCur' # None
    BY <2>1, <2>2, Present, Zenon DEF IsState, HasFields, StateFields
  <2> QED
    BY <2>2, <2>3 DEF high
<1>3. pending # None => current = None
  BY Zenon DEF current
<1>4. pending' # None => current' = None
  BY DEF current
<1>5. CASE current' = None
  <2>1. Register!Withdraw
    BY <1>1, <1>5, Zenon DEF Register!Withdraw, current, high
  <2> QED
    BY <2>1 DEF Register!RNext
<1>6. CASE current' # None
  <2>1. Register!Offer
    BY <1>1, <1>2, <1>3, <1>4, <1>6, Zenon DEF Register!Offer, current, high
  <2> QED
    BY <2>1 DEF Register!RNext
<1> QED
  BY <1>5, <1>6

\* Each step of the store is a step of the register, or none.
LEMMA RegisterStep ==
  ASSUME Shape, Trust, Trust', [Next]_vars
  PROVE  [Register!RNext]_(Register!rvars)
<1> USE DEF Register!rvars
<1>0. CASE UNCHANGED vars
  BY <1>0, Zenon DEF vars, durable
<1> SUFFICES ASSUME Next PROVE [Register!RNext]_(Register!rvars)
  BY <1>0, Zenon
<1>1. PICK p \in Proc : Outer(p) \/ Enters(p) \/ Leaves(p) \/ Inner(p)
  BY StepTable
<1>2. CASE AtPointer(p) /\ trustCur' = work[p].state
  <2>1. current = None /\ current' = None
    BY <1>2, PointerStep, Zenon DEF current
  <2>2. UNCHANGED opened
    BY <1>1, <1>2, Writes, Zenon DEF AtPointer, Leaves
  <2>3. CASE high' = high
    BY <2>1, <2>2, <2>3, Zenon DEF current, high
  <2>4. CASE high' # high
    <3>1. /\ trustCur # None /\ trustCur' # None /\ trustCur'.floor \in Revisions
          /\ NotBelow(trustCur'.floor, trustCur.floor)
          /\ trustCur'.floor # trustCur.floor
      BY <1>2, <2>4, PointerStep, Zenon DEF high, Floor
    <3>2. trustCur.floor \in Floors
      BY <3>1, Zenon DEF Trust, Held, IsState
    <3>3. Register!Above(high', high)
      BY <3>1, <3>2, RevisionPair, SMTT(30) DEF Register!Above, high, NotBelow, Floors
    <3>4. Register!Raise
      BY <2>1, <2>2, <3>1, <3>3, Zenon DEF Register!Raise, current, high
    <3> QED
      BY <3>4, Zenon DEF Register!RNext
  <2> QED
    BY <2>3, <2>4, Zenon
<1>3. CASE /\ Leaves(p) /\ pc[p] = "openfloor"
           /\ opened' = [rev |-> selection.rev, bundle |-> selection.bundle]
  <2>1. /\ UNCHANGED <<trustCur, pending, selection>>
        /\ current = [rev |-> selection.rev, bundle |-> selection.bundle]
        /\ opened' = current
    BY <1>3, ServeStep, Zenon DEF current, Leaves
  <2>2. current # None
    BY <2>1, Zenon DEF None
  <2>3. Register!Serve
    BY <2>1, <2>2, Zenon DEF Register!Serve, current, high
  <2> QED
    BY <2>3, Zenon DEF Register!RNext
<1>4. CASE UNCHANGED <<trustCur, opened>>
  <2>1. CASE pending # None \/ pending' # None
    BY <1>4, <2>1, JournalStep, Zenon
  <2>2. CASE pending = None /\ pending' = None
    <3>1. ~AtSelection(p)
      BY <2>2, Zenon DEF AtSelection, Trust, InCall, Journaling, PointerSet, Admitted
    <3>2. UNCHANGED selection
      BY <1>1, <3>1, Writes
    <3> QED
      BY <1>4, <2>2, <3>2, Zenon
  <2> QED
    BY <2>1, <2>2, Zenon
<1> QED
  BY <1>1, <1>2, <1>3, <1>4, Writes, Zenon

\* The store is a register of revisions: through crashes, failed writes,
\* rejected packages and key rotations a reader is offered the old revision,
\* nothing, or the new one, and what is offered only rises.
THEOREM StoreIsRegister == Spec => ImplementsRegister
<1>1. Init => Register!RInit
  BY DEF Init, Register!RInit
<1>2. Shape /\ Trust /\ Trust' /\ [Next]_vars => [Register!RNext]_(Register!rvars)
  BY RegisterStep
<1> QED
  BY <1>1, <1>2, SafeTrust, PTL DEF Spec, ImplementsRegister, Register!RSpec

-----------------------------------------------------------------------------
(* No pointer of the store ever names something that is not completely      *)
(* written.                                                                  *)

\* What the process has written so far of what it is writing.
Written(p) ==
  /\ pc[p] \in {"statefloor", "files", "accepted", "pointer"} =>
       <<work[p].state, "state">> \in stateFiles
  /\ pc[p] \in {"accepted", "pointer"} =>
       <<work[p].state, "files">> \in stateFiles
  /\ pc[p] \in {"receipt", "binding", "selection"} =>
       <<work[p].rcpt, "target", None>> \in admFiles
  /\ pc[p] \in {"binding", "selection"} =>
       <<work[p].rcpt, "receipt", None>> \in admFiles
  /\ pc[p] = "selection" =>
       <<work[p].rcpt, "binding", work[p].state>> \in admFiles

Complete == PointersResolve /\ \A p \in Proc : Written(p)

-----------------------------------------------------------------------------

\* Every step keeps Complete.
LEMMA CompleteStep ==
  ASSUME Shape, Trust, Complete, [Next]_vars
  PROVE  Complete'
<1>0. CASE UNCHANGED vars
  BY <1>0, Zenon DEF Complete, PointersResolve, Written, Loadable, AdmissionStored,
              vars, durable
<1> SUFFICES ASSUME Next PROVE Complete'
  BY <1>0
<1>1. PICK p \in Proc :
        /\ Outer(p) \/ Enters(p) \/ Leaves(p) \/ Inner(p)
        /\ \A q \in Proc \ {p} : pc'[q] = pc[q] /\ work'[q] = work[q]
  BY StepTable, Zenon
\* Immutable files are never removed.
<1>g. /\ stateFiles \subseteq stateFiles' /\ admFiles \subseteq admFiles'
      /\ \A s : Loadable(s) => Loadable(s)'
      /\ \A s : AdmissionStored(s) => AdmissionStored(s)'
  BY <1>1, Writes DEF Loadable, AdmissionStored
<1>w. Written(p) /\ InCall(p) /\ PointersResolve
  BY SMTT(30) DEF Complete, Trust
<1>2. Written(p)'
  <2>1. CASE \/ Outer(p) \/ Enters(p) \/ Leaves(p)
             \/ pc[p] \notin {"state", "statefloor", "files", "accepted", "target", "receipt",
                           "binding"}
    BY <1>1, <2>1, Zenon
    DEF Outer, Enters, Leaves, Outside, Inner, Written, AtMarker, AtCheck, AtClear, AtBegin,
        AtFloor, AtVerify, AtPointer, AtPublished, AtAdmit, AtSelect, AtSelection, AtFinish,
        AtReader, AtState, AtStateFloor, AtFiles, AtAccepted, AtAdmission
  <2>2. CASE AtState(p) \/ AtStateFloor(p) \/ AtFiles(p) \/ AtAccepted(p)
    BY <1>g, <1>w, <2>2, Zenon DEF AtState, AtStateFloor, AtFiles, AtAccepted, Keeps, Written
  <2>3. CASE AtAdmission(p)
    BY <1>g, <1>w, <2>3, Zenon DEF AtAdmission, Part, Keeps, Written
  <2> QED
    BY <1>1, <2>1, <2>2, <2>3, Zenon
    DEF Inner, AtMarker, AtCheck, AtClear, AtBegin, AtFloor, AtVerify, AtPointer, AtPublished,
        AtAdmit, AtSelect, AtSelection, AtFinish, AtReader
<1>3. ASSUME NEW q \in Proc PROVE Written(q)'
  <2>1. CASE q # p
    BY <1>1, <1>g, <2>1, Zenon DEF Complete, Written
  <2> QED
    BY <1>2, <2>1, SMTT(30)
<1>4. trustCur' # None => Loadable(trustCur)'
  <2>1. CASE UNCHANGED trustCur
    BY <1>g, <1>w, <2>1, Zenon DEF PointersResolve
  <2>2. CASE AtPointer(p) /\ trustCur' = work[p].state
    BY <1>g, <1>w, <2>2, Zenon DEF AtPointer, Written, Loadable
  <2> QED
    BY <1>1, <2>1, <2>2, Writes
<1>5. selection' # None => Loadable(selection.state)' /\ AdmissionStored(selection)'
  <2>1. CASE UNCHANGED selection
    BY <1>g, <1>w, <2>1, Zenon DEF PointersResolve, Loadable, AdmissionStored
  <2>2. CASE AtSelection(p) /\ selection' = NewSelection(work[p])
    <3>1. selection'.rcpt = work[p].rcpt /\ selection'.state = work[p].state
      BY <2>2, Zenon DEF NewSelection
    <3>2. Loadable(work[p].state)
      BY <1>w, <2>2, Zenon DEF AtSelection, InCall, PointerSet, Admitted, PointersResolve
    <3>3. {<<work[p].rcpt, "target", None>>, <<work[p].rcpt, "receipt", None>>,
           <<work[p].rcpt, "binding", work[p].state>>} \subseteq admFiles
      BY <1>w, <2>2, Zenon DEF AtSelection, Written
    <3> QED
      BY <1>g, <3>1, <3>2, <3>3, Zenon DEF Loadable, AdmissionStored
  <2> QED
    BY <1>1, <2>1, <2>2, Writes, SMTT(30)
<1>6. pending' # None =>
        \A s \in {pending'.prior, pending'.accepted, pending'.published} \ {None} :
          Loadable(s)'
  <2> DEFINE Fine == \A s \in {pending'.prior, pending'.accepted,
                               pending'.published} \ {None} : Loadable(s)'
  <2>1. CASE pending' \in {None, pending}
    BY <1>g, <1>w, <2>1, Zenon DEF PointersResolve
  <2>2. ASSUME AtBegin(p), pending' = Transaction(call[p]) PROVE Fine
    <3>1. call[p].prior = trustCur
      BY <1>w, <2>2, Zenon DEF AtBegin, InCall, Opening
    <3>2. /\ pending'.prior = trustCur
          /\ pending'.accepted = None /\ pending'.published = None
      BY <2>2, <3>1, Zenon DEF Transaction
    <3> QED
      BY <1>g, <1>w, <3>2, Zenon DEF PointersResolve
  <2>d. pending # None => DOMAIN pending = PendingFields
    BY Zenon DEF Trust, Held
  <2>3. ASSUME AtAccepted(p), pending # None,
               pending' = [pending EXCEPT !.accepted = work[p].state]
        PROVE  Fine
    <3>1. /\ pending'.prior = pending.prior /\ pending'.accepted = work[p].state
          /\ pending'.published = pending.published
      BY <2>d, <2>3 DEF PendingFields
    <3>2. Loadable(work[p].state)
      BY <1>w, <2>3 DEF AtAccepted, Written, Loadable
    <3> QED
      BY <1>g, <1>w, <2>3, <3>1, <3>2 DEF PointersResolve
  <2>4. ASSUME AtPublished(p), pending # None,
               pending' = [pending EXCEPT !.published = work[p].state]
        PROVE  Fine
    <3>1. /\ pending'.prior = pending.prior /\ pending'.published = work[p].state
          /\ pending'.accepted = pending.accepted
      BY <2>d, <2>4 DEF PendingFields
    <3>2. Loadable(work[p].state)
      BY <1>w, <2>4, Zenon DEF AtPublished, InCall, PointerSet, PointersResolve
    <3> QED
      BY <1>g, <1>w, <2>4, <3>1, <3>2 DEF PointersResolve
  <2> QED
    BY <1>1, <2>1, <2>2, <2>3, <2>4, Writes, SMTT(30)
<1> QED
  BY <1>3, <1>4, <1>5, <1>6, Zenon DEF Complete, PointersResolve

\* What is pointed to is complete, with what that rests on.
THEOREM SafeComplete == Spec => [](Shape /\ Trust /\ Complete)
<1>1. Init => Complete
  BY Zenon DEF Init, Complete, PointersResolve, Written
<1>2. Shape /\ Trust /\ Complete /\ [Next]_vars => Complete'
  BY CompleteStep
<1> QED
  BY <1>1, <1>2, SafeTrust, PTL DEF Spec

\* At every moment a process can die, what trust/current.json, the journal and
\* selection.json name is completely written (records.go 145-227, import.go
\* 350-363), for any number of processes and any requests.
THEOREM PointersAlwaysResolve == Spec => []PointersResolve
<1>1. Complete => PointersResolve
  BY DEF Complete
<1> QED
  BY <1>1, SafeComplete, PTL
=============================================================================
