-------------------------- MODULE CollectorProofs ---------------------------
(***************************************************************************)
(* Proofs about the collector and the runner it calls. For any buffer      *)
(* limit and any amount of output, ExecRunner.Run implements BoundedCall   *)
(* and leaves no process of a group it gave up on. For any contexts,       *)
(* queries and lists, Collect accounts for what it did not collect, never  *)
(* mixes two versions, and cleans up.                                      *)
(***************************************************************************)
EXTENDS CollectorSystem, FiniteSetTheorems, SequenceTheorems, TLAPS

-----------------------------------------------------------------------------
(* ExecRunner.Run *)

RunnerTypes ==
  /\ phase \in {"start", "select", "grace", "drain", "returned"}
  /\ leader \in {"none", "running", "ok", "failed"}
  /\ child \in {"none", "attached", "detached", "dead"}
  /\ waited \in {"empty", "nil", "exit", "delay", "taken"}
  /\ overflow \in BOOLEAN
  /\ written \in Nat /\ buffered \in Nat /\ buffered <= Limit

(* The channel holds nil only if the leader succeeded and nobody has the    *)
(* pipes any more, so that nothing is written behind the buffer's back.     *)
Delivered ==
  /\ phase = "start" => leader = "none" /\ child = "none" /\ waited = "empty"
  /\ waited = "taken" => phase = "returned"
  /\ waited = "nil" => leader = "ok" /\ child # "attached"
  /\ waited \in {"empty", "nil"} /\ ~overflow => buffered = written

(* Run has not returned before its last phase, and a group it gave up on    *)
(* has been killed.                                                         *)
GivenUp ==
  /\ phase # "returned" => result = Pending
  /\ phase = "drain" => ~Alive
  /\ phase = "returned" /\ result.exit \in {124, 125} /\ leader # "none" /\ ~overflow
       => ~Alive

RunnerInv == RunnerTypes /\ Delivered /\ GivenUp

(* A group that has been killed has nobody left in it.                      *)
LEMMA KillEmptiesGroup ==
  ASSUME RunnerTypes, KillProcessGroup
  PROVE  /\ ~Alive' /\ leader' \in {"none", "ok", "failed"}
         /\ child' \in {"none", "dead"}
         /\ leader # "running" => leader' = leader
  BY Zenon DEF RunnerTypes, KillProcessGroup, Alive

(* Every step of Run, its goroutine, its timers and its processes keeps the *)
(* invariant.                                                               *)
LEMMA RunnerStep ==
  ASSUME RunnerInv, RunnerNext
  PROVE  RunnerInv'
<1> USE DEF RunnerInv, RunnerTypes, Delivered, GivenUp, Alive, Writers, group, buffer
<1>1. ASSUME NEW n \in 1..2, Write(n) PROVE RunnerInv'
  <2>1. /\ written' \in Nat /\ buffered' \in Nat /\ buffered' <= Limit
        /\ ~(n > Limit - buffered) /\ buffered = written => buffered' = written'
    BY <1>1, LimitAssumption, SMTT(30) DEF Write, Smaller
  <2>2. overflow' \in BOOLEAN /\ (~overflow' => ~overflow /\ ~(n > Limit - buffered))
    BY <1>1, Zenon DEF Write
  <2> QED
    BY <1>1, <2>1, <2>2, ZenonT(40) DEF Write
<1>2. CASE WriteUnread
  BY <1>2 DEF WriteUnread
<1>3. ASSUME NEW kind \in {"attached", "detached"}, Spawn(kind) PROVE RunnerInv'
  BY <1>3 DEF Spawn
<1>4. ASSUME NEW how \in {"ok", "failed"}, LeaderExits(how) PROVE RunnerInv'
  BY <1>4 DEF LeaderExits
<1>5. CASE ChildExits
  BY <1>5 DEF ChildExits
<1>6. CASE WaitDelayEnds
  BY <1>6 DEF WaitDelayEnds
<1>7. CASE Expire
  BY <1>7, Zenon DEF Expire
<1>8. CASE GraceEnds
  BY <1>8, KillEmptiesGroup, Zenon DEF GraceEnds
<1>9. CASE DrainEnds
  BY <1>9, Zenon DEF DrainEnds, TimedOut, Returns
<1>10. CASE StartFails
  BY <1>10, Zenon DEF StartFails, Returns
<1>11. CASE Start
  BY <1>11, Zenon DEF Start
<1>12. CASE WaitReturns
  BY <1>12, ZenonT(30) DEF WaitReturns
<1>13. CASE TakeDone
  BY <1>13, KillEmptiesGroup, SMTT(30) DEF TakeDone, Outcome, Returns
<1>14. CASE TakeExpired
  BY <1>14, Zenon DEF TakeExpired
<1>15. CASE GraceDone
  BY <1>15, KillEmptiesGroup, Zenon DEF GraceDone, TimedOut, Returns
<1>16. CASE DrainDone
  BY <1>16, Zenon DEF DrainDone, TimedOut, Returns
<1> QED
  BY <1>1, <1>2, <1>3, <1>4, <1>5, <1>6, <1>7, <1>8, <1>9, <1>10, <1>11, <1>12,
     <1>13, <1>14, <1>15, <1>16, ZenonT(30)
  DEF RunnerNext, Timers, RunSteps

(* What Run returns, it returns once, and it is a result the caller knows:  *)
(* a success holds the whole output.                                        *)
LEMMA RunnerReturns ==
  ASSUME RunnerInv, RunnerNext
  PROVE  UNCHANGED result \/ Call!Return
<1> USE DEF RunnerInv, RunnerTypes, Delivered, GivenUp, group, buffer
<1>1. CASE result' = Returns(125, TRUE, FALSE) /\ phase # "returned"
  BY <1>1 DEF Returns, Pending, Call!Return, Call!Pending, Call!RunResults
<1>2. CASE result' = Returns(124, TRUE, FALSE) /\ phase # "returned"
  BY <1>2 DEF Returns, Pending, Call!Return, Call!Pending, Call!RunResults
<1>3. CASE TakeDone
  <2>1. result = Call!Pending
    BY <1>3, Zenon DEF TakeDone, Pending, Call!Pending
  <2>2. CASE overflow \/ waited = "delay"
    BY <1>1, <1>3, <2>2, Zenon DEF TakeDone, Outcome
  <2>3. CASE ~overflow /\ waited = "nil"
    BY <1>3, <2>1, <2>3, Zenon DEF TakeDone, Outcome, Returns, Call!Return, Call!RunResults
  <2>4. CASE ~overflow /\ waited = "exit"
    <3>1. (buffered = written) \in BOOLEAN
      OBVIOUS
    <3> QED
      BY <1>3, <2>1, <2>4, <3>1, ZenonT(30) DEF TakeDone, Outcome, Returns, Call!Return, Call!RunResults
  <2> QED
    BY <1>3, <2>2, <2>3, <2>4 DEF TakeDone
<1> QED
  BY <1>1, <1>2, <1>3, ZenonT(30)
  DEF RunnerNext, Timers, RunSteps, Write, WriteUnread, Spawn, LeaderExits, ChildExits,
      WaitReturns, WaitDelayEnds, StartFails, Start, Expire, TakeExpired, GraceDone,
      GraceEnds, DrainDone, DrainEnds, TimedOut

(* The invariant holds in every behaviour, whichever of the two takes steps. *)
LEMMA RunnerSafe == Spec => []RunnerInv
<1>1. Init => RunnerInv
  <2>1. Init => RunnerTypes
    <3>1. RunnerInit => written \in Nat /\ buffered \in Nat /\ buffered <= Limit
      BY LimitAssumption, SMTT(30) DEF RunnerInit
    <3>2. RunnerInit => overflow \in BOOLEAN
      BY Zenon DEF RunnerInit
    <3> QED
      BY <3>1, <3>2 DEF Init, RunnerInit, RunnerTypes
  <2>2. Init => Delivered /\ GivenUp
    BY DEF Init, RunnerInit, Delivered, GivenUp
  <2> QED
    BY <2>1, <2>2 DEF RunnerInv
<1>2. RunnerInv /\ [Next]_vars => RunnerInv'
  <2>1. CASE RunnerNext
    BY <2>1, RunnerStep
  <2>2. CASE UNCHANGED runnerVars
    BY <2>2 DEF runnerVars, RunnerInv, RunnerTypes, Delivered, GivenUp, Alive
  <2> QED
    BY <2>1, <2>2 DEF Next, vars, Running, Collecting
<1> QED
  BY <1>1, <1>2, PTL DEF Spec

(* When Run gave up, on its deadline or on a descendant that kept the       *)
(* pipes, no process of the group is left (runner.go 62-100).               *)
THEOREM GroupAlwaysReaped == Spec => []GroupReaped
<1>1. RunnerInv => GroupReaped
  BY DEF RunnerInv, RunnerTypes, GivenUp, GroupReaped, Pending
<1> QED
  BY <1>1, RunnerSafe, PTL

(* ExecRunner.Run implements the bounded call the collector relies on.      *)
THEOREM RunnerIsBoundedCall == Spec => RunIsBounded
<1>1. Init => Call!Init
  BY DEF Init, RunnerInit, Pending, Call!Init, Call!Pending
<1>2. RunnerInv /\ [Next]_vars => [Call!Return]_result
  BY RunnerReturns DEF Next, vars, Running, Collecting, runnerVars
<1> QED
  BY <1>1, <1>2, RunnerSafe, PTL DEF Spec, RunIsBounded, Call!Safety

-----------------------------------------------------------------------------
(* Collect *)

\* The queries of a context, and the places in Collect before and after them.
Body == {"base", "pods", "crds", "cert", "surface"}
Opening == {"validate", "read", "verify", "mkdir"}
Ending == {"unsnapshot", "index", "seal"}
Collects == Opening \cup {"snapshot", "recheck", "context", "close"} \cup Body \cup Ending

(* The steps inside a context each read or write one surface; they leave   *)
(* the context, its status and the run alone.                               *)
Queries(codes) ==
  \/ \E code \in codes : BaseRead(code)
  \/ \E how \in Projected, cert \in BOOLEAN : BaseProject(how, cert)
  \/ \E code \in codes, how \in Projected : PodStatus(code, how)
  \/ \E code \in codes : CRDsLost(code)
  \/ \E p \in ServedPages(crd.token) :
       \/ CRDsRefused(p)
       \/ \E ticks \in 0..ReadTimeout : CRDsPage(p, ticks)
       \/ \E how \in {"kept", "write_failed"} : CRDsComplete(p, how)
  \/ \E code \in codes, how \in Projected : CertQuery(code, how)
  \/ WriteSurface

BodyStep ==
  /\ pc \in Body /\ pc' \in Body \cup {"close"}
  /\ UNCHANGED <<opts, accepted, ctx, status, manifest, top, place, world>>

(* None of them leaves the context or touches what is outside it.           *)
LEMMA QueriesStay ==
  ASSUME NEW codes, Queries(codes)
  PROVE  BodyStep
<1>1. ASSUME NEW c, BaseRead(c) PROVE BodyStep
  BY <1>1, Zenon DEF BaseRead, BodyStep, Body, NextQuery, AfterBase, Goto
<1>2. ASSUME NEW h, NEW c, BaseProject(h, c) PROVE BodyStep
  BY <1>2, Zenon DEF BaseProject, BodyStep, Body, NextQuery, AfterBase, Goto
<1>3. ASSUME NEW c, NEW h, PodStatus(c, h) PROVE BodyStep
  BY <1>3, Zenon DEF PodStatus, BodyStep, Body, Goto
<1> USE DEF crdRest, CRDsOmitted, Goto, AfterCRDs
<1>4. ASSUME NEW c, CRDsLost(c) PROVE BodyStep
  BY <1>4, Zenon DEF CRDsLost, BodyStep, Body
<1>5. ASSUME NEW p, CRDsRefused(p) PROVE BodyStep
  BY <1>5, Zenon DEF CRDsRefused, BodyStep, Body
<1>6. ASSUME NEW p, NEW t, CRDsPage(p, t) PROVE BodyStep
  BY <1>6, Zenon DEF CRDsPage, BodyStep, Body
<1>7. ASSUME NEW p, NEW h, CRDsComplete(p, h) PROVE BodyStep
  BY <1>7, Zenon DEF CRDsComplete, BodyStep, Body
<1>8. ASSUME NEW c, NEW h, CertQuery(c, h) PROVE BodyStep
  BY <1>8, Zenon DEF CertQuery, BodyStep, Body, NextQuery
<1>9. ASSUME WriteSurface PROVE BodyStep
  BY <1>9, Zenon DEF WriteSurface, BodyStep, Body
<1> QED
  BY <1>1, <1>2, <1>3, <1>4, <1>5, <1>6, <1>7, <1>8, <1>9, Zenon DEF Queries

(* What a step of the collector can be.                                     *)
LEMMA CollectorTable ==
  ASSUME NEW codes, CollectorNext(codes)
  PROVE  \/ Refuse \/ (\E o \in Options : Validate(o)) \/ ReadKubeconfig
         \/ AcceptKubeconfig \/ MakeRunDir \/ MakeSnapshot \/ Prepare
         \/ OpenContext \/ StepFails \/ Queries(codes) \/ CloseContext
         \/ RemoveSnapshot \/ WriteIndex \/ WriteManifest
         \/ Rewrite \/ ServerMoves \/ Killed
  BY Zenon DEF CollectorNext, CollectSteps, Queries

-----------------------------------------------------------------------------
(* The kubeconfig *)

(* Versions only grow, so what was read between two equal stats is of one   *)
(* version; the copy is made from that.                                     *)
OneVersion ==
  /\ kube \in Nat
  /\ pc \in {"read", "verify"} => accepted.before \in Nat /\ accepted.before <= kube
  /\ pc = "verify" => \E v \in Nat : /\ accepted.before <= v /\ v <= kube
                                     /\ accepted.raw \in {{v}, {accepted.before, v}}
  /\ pc \in {"mkdir", "snapshot"} => \E v : accepted.raw = {v}
  /\ snapshot = {} \/ \E v : snapshot = {v}
  /\ pc \in {"read", "verify"} => accepted = [before |-> accepted.before, raw |-> accepted.raw]

(* Every step of the collector, and every rewrite of the operator's file,   *)
(* keeps that.                                                              *)
LEMMA VersionStep ==
  ASSUME OneVersion, NEW codes, CollectorNext(codes)
  PROVE  OneVersion'
<1> USE DEF OneVersion, listing, place, world, Goto, Return
<1>1. CASE Refuse
  BY <1>1 DEF Refuse
<1>2. ASSUME NEW o \in Options, Validate(o) PROVE OneVersion'
  BY <1>2 DEF Validate
<1>3. CASE ReadKubeconfig
  BY <1>3 DEF ReadKubeconfig
<1>4. CASE AcceptKubeconfig
  BY <1>4 DEF AcceptKubeconfig
<1>5. CASE MakeRunDir
  BY <1>5 DEF MakeRunDir
<1>6. CASE MakeSnapshot
  BY <1>6 DEF MakeSnapshot
<1>7. CASE StepFails
  BY <1>7 DEF StepFails, Fail, Cleanup
<1>8. CASE Queries(codes)
  BY <1>8, QueriesStay, Zenon DEF BodyStep, Body
<1>9. CASE Prepare \/ OpenContext \/ CloseContext
  BY <1>9, Zenon DEF Prepare, OpenContext, CloseContext
<1>10. CASE RemoveSnapshot \/ WriteIndex \/ WriteManifest
  BY <1>10, Zenon DEF RemoveSnapshot, WriteIndex, WriteManifest
<1>11. CASE Rewrite
  <2>1. /\ kube' \in Nat /\ \A v \in Nat : v <= kube => v <= kube'
        /\ UNCHANGED <<pc, accepted, snapshot>>
    BY <1>11 DEF Rewrite
  <2> QED
    BY <2>1, Zenon
<1>12. CASE ServerMoves \/ Killed
  BY <1>12 DEF ServerMoves, Killed
<1> QED
  BY CollectorTable, <1>1, <1>2, <1>3, <1>4, <1>5, <1>6, <1>7, <1>8, <1>9, <1>10,
     <1>11, <1>12, Zenon

-----------------------------------------------------------------------------
(* What is left behind *)

(* Up to its return, nothing was removed in vain; the copy exists between   *)
(* its creation and its removal only; the contexts before the current one   *)
(* are closed, and all of them at the end; a run manifest comes last.       *)
Tidy ==
  /\ pc \in Collects \cup {"done", "dead"}
  /\ returned # None <=> pc = "done"
  /\ pc # "done" => ~unremoved
  /\ pc \in Opening \cup {"snapshot", "index", "seal"} => snapshot = {}
  /\ pc \in Opening => ~runDir
  /\ pc \in Collects \ Opening => runDir
  /\ pc \in Collects => "MANIFEST.sha256" \notin top
  /\ pc = "dead" => "MANIFEST.sha256" \notin top
  /\ ctx \in Ctx /\ DOMAIN status = Ctx
  /\ \A c \in Ctx : c < ctx \/ pc \in Ending => status[c] # "none"
  /\ returned # None =>
       /\ snapshot = {} \/ unremoved
       /\ returned.dir => /\ runDir /\ "MANIFEST.sha256" \in top /\ snapshot = {}
                          /\ \A c \in Ctx : status[c] # "none"
       /\ ~returned.dir => (~runDir \/ unremoved) /\ "MANIFEST.sha256" \notin top
       /\ returned.exit = 0 => opts.partial \/ ~TotalOmissions

(* Every step keeps that, the steps that fail and the kill included.        *)
LEMMA TidyStep ==
  ASSUME Tidy, NEW codes, CollectorNext(codes)
  PROVE  Tidy'
<1> USE DEF Tidy, listing, place, world, Goto, Collects, Body, Opening, Ending, None
<1>1. CASE Refuse
  BY <1>1 DEF Refuse, Return
<1>2. ASSUME NEW o \in Options, Validate(o) PROVE Tidy'
  BY <1>2 DEF Validate
<1>3. CASE ReadKubeconfig
  BY <1>3 DEF ReadKubeconfig
<1>4. CASE AcceptKubeconfig
  BY <1>4 DEF AcceptKubeconfig, Return
<1>5. CASE MakeRunDir
  BY <1>5 DEF MakeRunDir
<1>6. CASE MakeSnapshot
  BY <1>6 DEF MakeSnapshot
<1>7. CASE StepFails
  <2>1. /\ pc \in Collects /\ pc' = "done" /\ returned' = [dir |-> FALSE, exit |-> 2]
        /\ UNCHANGED <<top, ctx, status>>
    BY <1>7, Zenon DEF StepFails, Fail, Return
  <2>2. returned' # None /\ ~returned'.dir /\ returned'.exit # 0
    BY <2>1
  <2>3. (snapshot' = {} \/ unremoved') /\ (~runDir' \/ unremoved')
    BY <1>7, Zenon DEF StepFails, Fail, Cleanup
  <2> QED
    BY <2>1, <2>2, <2>3, Zenon
<1>8. CASE Queries(codes)
  BY <1>8, QueriesStay DEF BodyStep
<1>9. CASE Prepare
  BY <1>9 DEF Prepare
<1>10. CASE OpenContext
  BY <1>10, Zenon DEF OpenContext
<1>11. CASE CloseContext
  BY <1>11, ContextsAssumption DEF CloseContext, Ctx
<1>12. CASE RemoveSnapshot
  BY <1>12, Zenon DEF RemoveSnapshot
<1>13. CASE WriteIndex
  BY <1>13 DEF WriteIndex
<1>14. CASE WriteManifest
  BY <1>14 DEF WriteManifest, Return, TotalOmissions
<1>15. CASE Rewrite \/ ServerMoves
  BY <1>15 DEF Rewrite, ServerMoves
<1>16. CASE Killed
  BY <1>16, Zenon DEF Killed
<1> QED
  BY CollectorTable, <1>1, <1>2, <1>3, <1>4, <1>5, <1>6, <1>7, <1>8, <1>9, <1>10,
     <1>11, <1>12, <1>13, <1>14, <1>15, <1>16, Zenon

-----------------------------------------------------------------------------
(* What a context accounts for *)

(* The surfaces that are done are those with a file or a row, never both,   *)
(* and no surface has two rows.                                             *)
Tally(f, rows, done) ==
  /\ f \cup Range(rows) = done /\ f \cap Range(rows) = {}
  /\ IsFiniteSet(Range(rows)) /\ Cardinality(Range(rows)) = Len(rows)

(* A new row adds its surface.                                              *)
LEMMA AppendSet ==
  ASSUME NEW S, NEW rows \in Seq(S), NEW x \in S
  PROVE  /\ Range(Append(rows, x)) = Range(rows) \cup {x}
         /\ Append(rows, x) \in Seq(S) /\ Append(rows, x) # <<>>
         /\ Len(Append(rows, x)) = Len(rows) + 1
  BY DEF Range

(* A list of rows is empty when its set is.                                 *)
LEMMA EmptySet ==
  ASSUME NEW S, NEW rows \in Seq(S)
  PROVE  /\ rows = <<>> <=> Range(rows) = {}
         /\ Range(rows) \subseteq S
<1>1. CASE rows = <<>>
  BY <1>1 DEF Range
<1>2. CASE rows # <<>>
  <2>1. 1 \in DOMAIN rows
    BY <1>2
  <2>2. rows[1] \in Range(rows)
    BY <2>1, Zenon DEF Range
  <2>3. Range(rows) \subseteq S
    BY DEF Range
  <2> QED
    BY <1>2, <2>2, <2>3
<1> QED
  BY <1>1, <1>2

(* A file or a row for a surface that is not done yet keeps the tally.      *)
LEMMA TallyFile ==
  ASSUME NEW f, NEW rows, NEW done, Tally(f, rows, done), NEW x, x \notin done
  PROVE  Tally(f \cup {x}, rows, done \cup {x})
  BY DEF Tally

(* The same for a row.                                                      *)
LEMMA TallyRow ==
  ASSUME NEW f, NEW S, NEW rows \in Seq(S), NEW done, Tally(f, rows, done),
         NEW x \in S, x \notin done
  PROVE  Tally(f, Append(rows, x), done \cup {x})
<1>1. Range(Append(rows, x)) = Range(rows) \cup {x} /\ Len(Append(rows, x)) = Len(rows) + 1
  BY AppendSet
<1>2. x \notin Range(rows) /\ x \notin f
  BY DEF Tally
<1>3. /\ IsFiniteSet(Range(rows) \cup {x})
      /\ Cardinality(Range(rows) \cup {x}) = Cardinality(Range(rows)) + 1
  BY <1>2, FS_AddElement, Zenon DEF Tally
<1> QED
  BY <1>1, <1>2, <1>3 DEF Tally

(* The lists of queries have distinct names, which are not those of the     *)
(* other files.                                                             *)
Listed == {"crd-api-surface.json", "pod-status-images.json"}
Surfaces == BaseNames(Len(BaseQueries)) \cup CertNames(Len(CertQueries)) \cup Listed

(* The next base query has a new name.                                      *)
LEMMA NextBaseName ==
  ASSUME NEW k \in 1..Len(BaseQueries)
  PROVE  /\ BaseNames(k) = BaseNames(k - 1) \cup {BaseQueries[k].name}
         /\ BaseQueries[k].name \notin BaseNames(k - 1)
         /\ BaseQueries[k].name \in Surfaces
<1>1. DOMAIN BaseQueries = 1..Len(BaseQueries) /\ Len(BaseQueries) \in Nat
  BY QueriesAssumption
<1>2. BaseNames(k) = BaseNames(k - 1) \cup {BaseQueries[k].name}
  BY <1>1 DEF BaseNames
<1>3. BaseQueries[k].name \notin BaseNames(k - 1)
  BY <1>1, QueriesAssumption, SMTT(30) DEF BaseNames
<1>4. BaseQueries[k].name \in BaseNames(Len(BaseQueries))
  BY <1>1 DEF BaseNames
<1> QED
  BY <1>2, <1>3, <1>4 DEF Surfaces

(* The next cert-manager query has a new name, which is no base query.      *)
LEMMA NextCertName ==
  ASSUME NEW k \in 1..Len(CertQueries)
  PROVE  /\ CertNames(k) = CertNames(k - 1) \cup {CertQueries[k]}
         /\ CertQueries[k] \notin CertNames(k - 1)
         /\ CertQueries[k] \notin BaseNames(Len(BaseQueries)) \cup Listed \cup Own
         /\ CertQueries[k] \in Surfaces
<1>1. /\ DOMAIN CertQueries = 1..Len(CertQueries) /\ Len(CertQueries) \in Nat
      /\ DOMAIN BaseQueries = 1..Len(BaseQueries) /\ Len(BaseQueries) \in Nat
  BY QueriesAssumption
<1>2. CertNames(k) = CertNames(k - 1) \cup {CertQueries[k]}
  BY <1>1 DEF CertNames
<1>3. CertQueries[k] \notin CertNames(k - 1)
  BY <1>1, QueriesAssumption DEF CertNames
<1>4. CertQueries[k] \in CertNames(Len(CertQueries))
  BY <1>1 DEF CertNames
<1>5. CertQueries[k] \notin BaseNames(Len(BaseQueries))
  BY <1>1, QueriesAssumption DEF BaseNames
<1> QED
  BY <1>2, <1>3, <1>4, <1>5, QueriesAssumption DEF Surfaces, Listed

(* The other files of a context have names of their own.                    *)
LEMMA OtherNames ==
  /\ BaseNames(Len(BaseQueries)) \cap (Own \cup Listed) = {}
  /\ CertNames(Len(CertQueries)) \cap (Own \cup Listed) = {}
  /\ BaseNames(0) = {} /\ CertNames(0) = {} /\ Own \cap Listed = {}
<1>1. BaseNames(0) = {} /\ CertNames(0) = {}
  BY DEF BaseNames, CertNames
<1> QED
  BY <1>1, QueriesAssumption DEF Listed, Own

(* The surfaces of the current context that are behind Collect.             *)
Handled ==
  (IF pc = "base" THEN BaseNames(qi - 1) ELSE BaseNames(Len(BaseQueries)))
  \cup (IF opts.pods /\ pc \notin {"base", "pods"} THEN {"pod-status-images.json"} ELSE {})
  \cup (IF pc \notin {"base", "pods", "crds"} THEN {"crd-api-surface.json"} ELSE {})
  \cup (IF pc = "cert" THEN CertNames(qi - 1)
        ELSE IF pc \in {"surface", "close"} /\ opts.comps /\ certSeen
        THEN CertNames(Len(CertQueries)) ELSE {})
  \cup (IF pc = "close" /\ opts.comps THEN {"component-configuration-surface.json"} ELSE {})

Types ==
  /\ pc \in Collects \cup {"done", "dead"} /\ ctx \in Ctx /\ qi \in Nat
  /\ files \in [Ctx -> SUBSET (Surfaces \cup Own)]
  /\ omissions \in [Ctx -> Seq(Surfaces)]
  /\ status \in [Ctx -> {"none", "complete", "partial"}]
  /\ DOMAIN manifest = Ctx /\ manifest = [c \in Ctx |-> manifest[c]]
  /\ pc = "base" => qi \in 1..Len(BaseQueries)
  /\ pc \in {"pods", "crds"} => qi = 1
  /\ pc = "pods" => opts.pods
  /\ pc = "cert" => opts.comps /\ certSeen /\ qi \in 1..Len(CertQueries)
  /\ pc = "surface" => opts.comps

(* A step in the body of a context waits, or it gives one surface its file  *)
(* or its row.                                                              *)
Waits == UNCHANGED <<pc, qi, files, omissions, compGaps, certSeen, available>>
Files(x) == files' = [files EXCEPT ![ctx] = @ \cup {x}] /\ omissions' = omissions
Rows(x) == /\ omissions' = [omissions EXCEPT ![ctx] = Append(@, x)] /\ files' = files
           /\ x \in Surfaces

Handles(x) ==
  /\ x \in Surfaces \cup Own /\ x \notin Handled /\ Handled' = Handled \cup {x}
  /\ Files(x) \/ Rows(x)

(* The list of base queries has a length.                                   *)
LEMMA BaseLength == Len(BaseQueries) \in Nat
  BY QueriesAssumption

(* So has that of the cert-manager queries.                                 *)
LEMMA CertLength == Len(CertQueries) \in Nat
  BY QueriesAssumption

(* The base queries, one at a time.                                         *)
LEMMA BaseHandles ==
  ASSUME Types, pc = "base", opts' = opts, NextQuery(BaseQueries, AfterBase)
  PROVE  LET x == BaseQueries[qi].name
         IN  /\ x \in Surfaces /\ x \notin Handled /\ Handled' = Handled \cup {x}
             /\ pc' = "base" => qi' \in 1..Len(BaseQueries) /\ qi' = qi + 1
             /\ pc' # "base" => qi = Len(BaseQueries) /\ qi' = 1 /\ pc' \in {"pods", "crds"}
             /\ pc' = "pods" => opts.pods
<1>1. qi \in 1..Len(BaseQueries) /\ Len(BaseQueries) \in Nat /\ qi + 1 - 1 = qi
  BY QueriesAssumption DEF Types
<1>2. \/ pc' = "base" /\ qi' = qi + 1 /\ qi < Len(BaseQueries)
      \/ pc' = AfterBase /\ qi' = 1 /\ qi = Len(BaseQueries)
  BY <1>1 DEF NextQuery, Goto
<1>3. Handled = BaseNames(qi - 1)
  BY DEF Handled
<1>4. Handled' = BaseNames(qi)
  <2>1. CASE pc' = "base" /\ qi' - 1 = qi
    BY <2>1 DEF Handled
  <2>2. CASE pc' = "pods" /\ qi = Len(BaseQueries)
    BY <2>2 DEF Handled
  <2>3. CASE pc' = "crds" /\ ~opts.pods /\ qi = Len(BaseQueries)
    BY <2>3 DEF Handled
  <2> QED
    BY <1>1, <1>2, <2>1, <2>2, <2>3 DEF AfterBase
<1>5. BaseNames(qi) = BaseNames(qi - 1) \cup {BaseQueries[qi].name}
  BY <1>1, NextBaseName
<1> QED
  BY <1>1, <1>2, <1>3, <1>4, <1>5, NextBaseName DEF AfterBase

(* The pods, and the list of definitions.                                   *)
LEMMA PodsHandles ==
  ASSUME Types, pc = "pods", opts' = opts, pc' = "crds"
  PROVE  LET x == "pod-status-images.json"
         IN  x \in Surfaces /\ x \notin Handled /\ Handled' = Handled \cup {x}
<1>1. Handled = BaseNames(Len(BaseQueries))
  BY DEF Handled
<1>2. Handled' = BaseNames(Len(BaseQueries)) \cup {"pod-status-images.json"}
  BY DEF Handled, Types
<1> QED
  BY <1>1, <1>2, OtherNames DEF Surfaces, Listed

(* The list of definitions, however it ends.                                *)
LEMMA CRDsHandles ==
  ASSUME Types, pc = "crds", opts' = opts, certSeen' = certSeen, qi' = qi, pc' = AfterCRDs
  PROVE  LET x == "crd-api-surface.json"
         IN  x \in Surfaces /\ x \notin Handled /\ Handled' = Handled \cup {x}
<1> DEFINE pods == IF opts.pods THEN {"pod-status-images.json"} ELSE {}
<1>1. Handled = BaseNames(Len(BaseQueries)) \cup pods
  BY DEF Handled
<1>2. Handled' = BaseNames(Len(BaseQueries)) \cup pods \cup {"crd-api-surface.json"}
  <2>1. CASE pc' = "cert"
    <3>1. qi' - 1 = 0 /\ CertNames(0) = {}
      BY OtherNames DEF Types
    <3> QED
      BY <2>1, <3>1 DEF Handled
  <2>2. CASE pc' = "surface" /\ ~certSeen
    BY <2>2 DEF Handled
  <2>3. CASE pc' = "close" /\ ~opts.comps
    BY <2>3 DEF Handled
  <2> QED
    BY <2>1, <2>2, <2>3 DEF AfterCRDs
<1> QED
  BY <1>1, <1>2, OtherNames DEF Surfaces, Listed

(* The cert-manager queries, one at a time.                                 *)
LEMMA CertHandles ==
  ASSUME Types, pc = "cert", opts' = opts, certSeen' = certSeen, NextQuery(CertQueries, "surface")
  PROVE  LET x == CertQueries[qi]
         IN  /\ x \in Surfaces /\ x \notin Handled /\ Handled' = Handled \cup {x}
             /\ pc' = "cert" => qi' \in 1..Len(CertQueries) /\ qi' = qi + 1
             /\ pc' # "cert" => qi = Len(CertQueries) /\ qi' = 1 /\ pc' = "surface"
<1> DEFINE pods == IF opts.pods THEN {"pod-status-images.json"} ELSE {}
           before == BaseNames(Len(BaseQueries)) \cup pods \cup {"crd-api-surface.json"}
<1>1. qi \in 1..Len(CertQueries) /\ Len(CertQueries) \in Nat /\ qi + 1 - 1 = qi
  BY QueriesAssumption DEF Types
<1>2. \/ pc' = "cert" /\ qi' = qi + 1 /\ qi < Len(CertQueries)
      \/ pc' = "surface" /\ qi' = 1 /\ qi = Len(CertQueries)
  BY <1>1 DEF NextQuery, Goto
<1>3. Handled = before \cup CertNames(qi - 1)
  BY DEF Handled
<1>4. Handled' = before \cup CertNames(qi)
  <2>1. CASE pc' = "cert" /\ qi' - 1 = qi
    BY <2>1 DEF Handled
  <2>2. CASE pc' = "surface" /\ qi = Len(CertQueries)
    BY <2>2 DEF Handled, Types
  <2> QED
    BY <1>1, <1>2, <2>1, <2>2
<1>5. /\ CertNames(qi) = CertNames(qi - 1) \cup {CertQueries[qi]}
      /\ CertQueries[qi] \notin CertNames(qi - 1) \cup before /\ CertQueries[qi] \in Surfaces
  BY <1>1, NextCertName DEF Listed
<1> QED
  BY <1>1, <1>2, <1>3, <1>4, <1>5

(* The component surface.                                                   *)
LEMMA SurfaceHandles ==
  ASSUME Types, pc = "surface", opts' = opts, certSeen' = certSeen, pc' = "close"
  PROVE  LET x == "component-configuration-surface.json"
         IN  x \in Own /\ x \notin Handled /\ Handled' = Handled \cup {x}
<1>1. "component-configuration-surface.json" \in Own
  BY DEF Own
<1>2. Handled \subseteq BaseNames(Len(BaseQueries)) \cup CertNames(Len(CertQueries)) \cup Listed
  BY DEF Handled, Listed
<1>3. Handled' = Handled \cup {"component-configuration-surface.json"}
  BY Zenon DEF Handled, Types
<1> QED
  BY <1>1, <1>2, <1>3, OtherNames

(* Every read and every write of a context handles the next surface.        *)
LEMMA QueryHandles ==
  ASSUME Types, NEW codes, Queries(codes)
  PROVE  (Waits \/ \E x : Handles(x)) /\ Types'
<1>1. BodyStep
  BY QueriesStay
<1> DEFINE Moves == /\ qi' \in Nat
                    /\ pc' = "base" => qi' \in 1..Len(BaseQueries)
                    /\ pc' \in {"pods", "crds"} => qi' = 1
                    /\ pc' = "pods" => opts'.pods
                    /\ pc' = "cert" => opts'.comps /\ certSeen' /\ qi' \in 1..Len(CertQueries)
                    /\ pc' = "surface" => opts'.comps
           Good == (Waits \/ \E x : Handles(x)) /\ Moves
<1>2. ASSUME NEW code, BaseRead(code) PROVE Good
  <2>1. pc = "base" /\ opts' = opts /\ NextQuery(BaseQueries, AfterBase) /\ Rows(BaseQueries[qi].name)
    BY <1>2, <1>1, BaseHandles, Zenon DEF BaseRead, Omit, Rows, BodyStep
  <2> QED
    BY <2>1, BaseHandles DEF Handles, AfterBase
<1>3. ASSUME NEW how, NEW cert, BaseProject(how, cert) PROVE Good
  <2>1. pc = "base" /\ opts' = opts /\ NextQuery(BaseQueries, AfterBase)
    BY <1>3, <1>1, Zenon DEF BaseProject, BodyStep
  <2>2. Files(BaseQueries[qi].name) \/ Rows(BaseQueries[qi].name)
    BY <1>3, <2>1, BaseHandles, Zenon DEF BaseProject, Omit, Put, Rows, Files
  <2> QED
    BY <2>1, <2>2, BaseHandles DEF Handles, AfterBase
<1>4. ASSUME NEW code, NEW how, PodStatus(code, how) PROVE Good
  <2>1. pc = "pods" /\ opts' = opts /\ pc' = "crds" /\ qi' = qi
    BY <1>4, <1>1, Zenon DEF PodStatus, BodyStep, Goto
  <2>2. Files("pod-status-images.json") \/ Rows("pod-status-images.json")
    BY <1>4, <2>1, PodsHandles, Zenon DEF PodStatus, Omit, Put, Rows, Files
  <2> QED
    BY <2>1, <2>2, PodsHandles, Zenon DEF Handles, Types
<1>5. ASSUME pc = "crds", pc' = AfterCRDs, UNCHANGED <<opts, certSeen, qi>>,
             Files("crd-api-surface.json") \/ Rows("crd-api-surface.json")
      PROVE  Good
  <2>1. qi = 1 /\ Len(CertQueries) \in Nat /\ Len(CertQueries) >= 1
    BY <1>5, QueriesAssumption DEF Types
  <2>2. Moves
    BY <1>5, <2>1 DEF AfterCRDs
  <2> QED
    BY <1>5, <2>2, CRDsHandles DEF Handles
<1>6. "crd-api-surface.json" \in Surfaces
  BY DEF Surfaces, Listed
<1>7. ASSUME NEW code, CRDsLost(code) PROVE Good
  BY <1>5, <1>6, <1>7, Zenon DEF CRDsLost, CRDsOmitted, Omit, Goto, crdRest, Rows
<1>8. ASSUME NEW p, CRDsRefused(p) PROVE Good
  BY <1>5, <1>6, <1>8, Zenon DEF CRDsRefused, CRDsOmitted, Omit, Goto, crdRest, Rows
<1>9. ASSUME NEW p, NEW ticks, CRDsPage(p, ticks) PROVE Good
  BY <1>9, Zenon DEF CRDsPage, crdRest, Waits, Types
<1>10. ASSUME NEW p, NEW how, CRDsComplete(p, how) PROVE Good
  BY <1>5, <1>6, <1>10, Zenon DEF CRDsComplete, CRDsOmitted, Omit, Put, Goto, crdRest, Rows, Files
<1>11. ASSUME NEW code, NEW how, CertQuery(code, how) PROVE Good
  <2>1. /\ pc = "cert" /\ opts' = opts /\ certSeen' = certSeen /\ NextQuery(CertQueries, "surface")
    BY <1>11, Zenon DEF CertQuery
  <2>2. Files(CertQueries[qi]) \/ Rows(CertQueries[qi])
    BY <1>11, <2>1, CertHandles, Zenon DEF CertQuery, Omit, Put, Rows, Files
  <2>3. Moves
    BY <2>1, CertHandles DEF Types
  <2> QED
    BY <2>1, <2>2, <2>3, CertHandles, Zenon DEF Handles
<1>12. ASSUME WriteSurface PROVE Good
  <2>1. /\ pc = "surface" /\ opts' = opts /\ certSeen' = certSeen /\ pc' = "close" /\ qi' = qi
        /\ Files("component-configuration-surface.json")
    BY <1>12 DEF WriteSurface, Put, Goto, Files
  <2> QED
    BY <2>1, SurfaceHandles, Zenon DEF Handles, Types
<1>13. Good
  BY <1>2, <1>3, <1>4, <1>7, <1>8, <1>9, <1>10, <1>11, <1>12, Zenon DEF Queries
<1>14. /\ files' \in [Ctx -> SUBSET (Surfaces \cup Own)]
       /\ omissions' \in [Ctx -> Seq(Surfaces)]
  <2>1. ASSUME NEW x, Handles(x), Files(x) PROVE <1>14!1 /\ <1>14!2
    BY <2>1, Zenon DEF Types, Handles, Files
  <2>2. ASSUME NEW x, Handles(x), Rows(x) PROVE <1>14!1 /\ <1>14!2
    BY <2>2, AppendSet DEF Types, Handles, Rows
  <2> QED
    BY <1>13, <2>1, <2>2, Zenon DEF Waits, Types, Handles
<1> QED
  BY <1>1, <1>13, <1>14, Zenon DEF BodyStep, Body, Types, Collects

(* A context that is closed accounts for everything it declared; the        *)
(* current one for what is behind Collect; the later ones are empty.        *)
Closed(c) ==
  /\ Declared(c) \subseteq files[c] \cup Omitted(c)
  /\ files[c] \cap Omitted(c) = {}
  /\ Cardinality(Omitted(c)) = Len(omissions[c])
  /\ status[c] = "complete" <=> Omitted(c) = {}
  /\ manifest[c] = files[c] \ {"MANIFEST.sha256"}

Empty(c) == files[c] = {} /\ omissions[c] = <<>> /\ status[c] = "none"
BeforeBody == Opening \cup {"snapshot", "recheck", "context"}

Accounted ==
  /\ pc \in Opening => ctx = 1
  /\ \A c \in Ctx : c > ctx \/ (c = ctx /\ pc \in BeforeBody) => Empty(c)
  /\ pc \in Body \cup {"close"} =>
       Tally(files[ctx], omissions[ctx], Handled) /\ status[ctx] = "none"
  /\ \A c \in Ctx : status[c] # "none" => Closed(c)

(* One more surface in the current context.                                 *)
LEMMA AccountedBody ==
  ASSUME Types, Types', Accounted, NEW codes, Queries(codes)
  PROVE  Accounted'
<1>1. /\ pc \in Body /\ pc' \in Body \cup {"close"}
      /\ UNCHANGED <<opts, ctx, status, manifest>>
  BY QueriesStay DEF BodyStep
<1>2. \A c \in Ctx : c # ctx => files'[c] = files[c] /\ omissions'[c] = omissions[c]
  BY QueryHandles, Zenon DEF Waits, Handles, Files, Rows, Types
<1>3. Tally(files'[ctx], omissions'[ctx], Handled')
  <2>1. Tally(files[ctx], omissions[ctx], Handled)
    BY <1>1 DEF Accounted
  <2>2. CASE Waits
    <3>1. Handled' = Handled
      BY <1>1, <2>2, Zenon DEF Waits, Handled
    <3> QED
      BY <2>1, <2>2, <3>1, Zenon DEF Waits
  <2>3. ASSUME NEW x, Handles(x), Files(x) PROVE <1>3
    <3>1. files'[ctx] = files[ctx] \cup {x} /\ omissions'[ctx] = omissions[ctx]
      BY <2>3, Zenon DEF Files, Types
    <3>2. x \notin Handled /\ Handled' = Handled \cup {x}
      BY <2>3, Zenon DEF Handles
    <3> QED
      BY <2>1, <3>1, <3>2, TallyFile
  <2>4. ASSUME NEW x, Handles(x), Rows(x) PROVE <1>3
    <3>1. /\ files'[ctx] = files[ctx] /\ omissions'[ctx] = Append(omissions[ctx], x)
          /\ omissions[ctx] \in Seq(Surfaces) /\ x \in Surfaces
      BY <2>4, Zenon DEF Rows, Types
    <3>2. x \notin Handled /\ Handled' = Handled \cup {x}
      BY <2>4, Zenon DEF Handles
    <3>3. Tally(files[ctx], Append(omissions[ctx], x), Handled \cup {x})
      BY <2>1, <3>1, <3>2, TallyRow
    <3> QED
      BY <3>1, <3>2, <3>3, Zenon
  <2> QED
    BY <2>2, <2>3, <2>4, QueryHandles, Zenon DEF Handles
<1>4. ASSUME NEW c \in Ctx, c > ctx PROVE Empty(c)'
  <2>1. c # ctx
    BY <1>4 DEF Types, Ctx
  <2> QED
    BY <1>1, <1>2, <1>4, <2>1, Zenon DEF Accounted, Empty
<1>5. ASSUME NEW c \in Ctx, status[c] # "none" PROVE Closed(c)'
  <2>1. c # ctx /\ Closed(c)
    BY <1>1, <1>5 DEF Accounted
  <2> QED
    BY <1>1, <1>2, <2>1, Zenon DEF Closed, Omitted, Declared
<1> QED
  BY <1>1, <1>3, <1>4, <1>5, Zenon DEF Accounted, Body, Opening, BeforeBody

(* Closing a context: its files get the two that describe it, and the       *)
(* manifest.                                                                *)
LEMMA AccountedClose ==
  ASSUME Types, Types', Accounted, CloseContext
  PROVE  Accounted'
<1>1. /\ pc = "close" /\ pc' \in {"context", "unsnapshot"} /\ ctx \in Ctx
      /\ UNCHANGED <<opts, omissions>>
      /\ (pc' = "context" => ctx' = ctx + 1) /\ (pc' = "unsnapshot" => ctx' = ctx)
  BY Zenon DEF CloseContext, Goto, Types
<1> DEFINE kept == files[ctx] \cup {"omissions.tsv", "snapshot-metadata.json"}
<1>2. /\ files'[ctx] = kept \cup {"MANIFEST.sha256"} /\ manifest'[ctx] = kept
      /\ status'[ctx] = IF omissions[ctx] = <<>> THEN "complete" ELSE "partial"
  BY <1>1, Zenon DEF CloseContext, Types
<1>3. ASSUME NEW c \in Ctx, c # ctx
      PROVE  files'[c] = files[c] /\ manifest'[c] = manifest[c] /\ status'[c] = status[c]
  BY <1>3, Zenon DEF CloseContext, Types
<1>4. Tally(files[ctx], omissions[ctx], Handled) /\ omissions[ctx] \in Seq(Surfaces)
  BY <1>1, Zenon DEF Accounted, Types
<1>5. Declared(ctx) \subseteq Handled
  <2>1. DOMAIN BaseQueries = 1..Len(BaseQueries)
    BY QueriesAssumption
  <2> QED
    BY <1>1, <2>1, Zenon DEF Declared, Handled, BaseNames
<1>6. /\ Range(omissions[ctx]) \subseteq Surfaces
      /\ Surfaces \cap {"omissions.tsv", "snapshot-metadata.json", "MANIFEST.sha256"} = {}
      /\ omissions[ctx] = <<>> <=> Range(omissions[ctx]) = {}
  <2>1. Surfaces \cap {"omissions.tsv", "snapshot-metadata.json", "MANIFEST.sha256"} = {}
    BY OtherNames DEF Surfaces, Own, Listed
  <2> QED
    BY <1>4, <2>1, EmptySet, Zenon
<1>7. "MANIFEST.sha256" \notin files[ctx]
  <2>1. "MANIFEST.sha256" \notin Handled
    BY <1>1, OtherNames, Zenon DEF Handled, Own, Listed
  <2> QED
    BY <1>4, <2>1, Zenon DEF Tally
<1>8. ASSUME NEW c \in Ctx, c = ctx PROVE Closed(c)'
  <2>1. Declared(c)' \subseteq files[ctx] \cup Range(omissions[ctx])
    BY <1>1, <1>4, <1>5, Zenon DEF Declared, Tally
  <2>2. Omitted(c)' = Range(omissions[ctx])
    BY <1>1, <1>8 DEF Omitted
  <2>3. files'[c] \cap Range(omissions[ctx]) = {}
    BY <1>2, <1>4, <1>6, <1>8, Zenon DEF Tally
  <2>4. manifest'[c] = files'[c] \ {"MANIFEST.sha256"}
    BY <1>2, <1>7, <1>8, Zenon
  <2>5. status'[c] = "complete" <=> Range(omissions[ctx]) = {}
    BY <1>2, <1>6, <1>8, Zenon
  <2>6. files[ctx] \subseteq files'[c]
    BY <1>2, <1>8, Zenon
  <2>7. Cardinality(Range(omissions[ctx])) = Len(omissions'[c])
    BY <1>1, <1>4, <1>8, Zenon DEF Tally
  <2> HIDE DEF kept
  <2> QED
    BY <2>1, <2>2, <2>3, <2>4, <2>5, <2>6, <2>7, Zenon DEF Closed
<1>9. ASSUME NEW c \in Ctx, c # ctx, Closed(c) PROVE Closed(c)'
  BY <1>1, <1>3, <1>9, Zenon DEF Closed, Omitted, Declared
<1>10. ASSUME NEW c \in Ctx, c > ctx PROVE Empty(c)'
  <2>1. c # ctx
    BY <1>10 DEF Types, Ctx
  <2> QED
    BY <1>1, <1>3, <1>10, <2>1, Zenon DEF Accounted, Empty
<1>11. ASSUME NEW c \in Ctx, c > ctx' \/ (c = ctx' /\ pc' \in BeforeBody) PROVE Empty(c)'
  <2>1. c > ctx
    BY <1>1, <1>11 DEF BeforeBody, Opening, Ctx
  <2> QED
    BY <1>10, <2>1
<1>12. ASSUME NEW c \in Ctx, status'[c] # "none" PROVE Closed(c)'
  BY <1>3, <1>8, <1>9, <1>12, Zenon DEF Accounted
<1> QED
  BY <1>1, <1>11, <1>12, Zenon DEF Accounted, Body, Opening

(* The steps outside the contexts touch none of their files.                *)
Elsewhere ==
  /\ UNCHANGED <<ctx, qi, files, omissions, status, manifest, crd, surface, serverRv>>
  /\ pc = "validate" \/ opts' = opts
  /\ pc' \in (Collects \ (Body \cup {"close"})) \cup {"done", "dead"}
  /\ pc' \in Opening => pc \in Opening
  /\ pc' \in BeforeBody => pc \in BeforeBody

(* A step of the collector is outside the contexts, opens or closes one,    *)
(* handles one of its surfaces, or is the server's.                         *)
LEMMA ContextTable ==
  ASSUME NEW codes, CollectorNext(codes)
  PROVE  Elsewhere \/ OpenContext \/ Queries(codes) \/ CloseContext \/ ServerMoves
<1> USE DEF Elsewhere, Opening, BeforeBody, Body, Collects, Ending, listing, place, world,
        Goto, Return
<1>1. CASE Refuse
  BY <1>1, Zenon DEF Refuse
<1>2. ASSUME NEW o \in Options, Validate(o) PROVE Elsewhere
  BY <1>2, Zenon DEF Validate
<1>3. CASE ReadKubeconfig
  BY <1>3, Zenon DEF ReadKubeconfig
<1>4. CASE AcceptKubeconfig
  BY <1>4, Zenon DEF AcceptKubeconfig
<1>5. CASE MakeRunDir
  BY <1>5, Zenon DEF MakeRunDir
<1>6. CASE MakeSnapshot
  BY <1>6, Zenon DEF MakeSnapshot
<1>7. CASE Prepare
  BY <1>7, Zenon DEF Prepare
<1>8. CASE StepFails
  BY <1>8, Zenon DEF StepFails, Fail
<1>9. CASE RemoveSnapshot
  BY <1>9, Zenon DEF RemoveSnapshot
<1>10. CASE WriteIndex
  BY <1>10, Zenon DEF WriteIndex
<1>11. CASE WriteManifest
  BY <1>11, Zenon DEF WriteManifest
<1>12. CASE Rewrite
  BY <1>12, Zenon DEF Rewrite
<1>13. CASE Killed
  BY <1>13, Zenon DEF Killed
<1> QED
  BY CollectorTable, <1>1, <1>2, <1>3, <1>4, <1>5, <1>6, <1>7, <1>8, <1>9, <1>10,
     <1>11, <1>12, <1>13, Zenon

(* Every step keeps the types.                                              *)
LEMMA TypesStep ==
  ASSUME Types, NEW codes, CollectorNext(codes)
  PROVE  Types'
<1>1. CASE Elsewhere
  BY <1>1, Zenon DEF Elsewhere, Types, Body
<1>2. CASE OpenContext
  <2>1. 1 \in 1..Len(BaseQueries)
    BY QueriesAssumption
  <2> QED
    BY <1>2, <2>1, Zenon DEF OpenContext, Goto, Types, Collects, Body
<1>3. CASE Queries(codes)
  BY <1>3, QueryHandles
<1>4. CASE CloseContext
  <2>1. ctx' \in Ctx
    <3>1. ctx' = ctx \/ (ctx < N /\ ctx' = ctx + 1)
      BY <1>4, Zenon DEF CloseContext
    <3>2. ctx \in 1..N
      BY Zenon DEF Types, Ctx
    <3> QED
      BY <3>1, <3>2, ContextsAssumption DEF Ctx
  <2>2. files' \in [Ctx -> SUBSET (Surfaces \cup Own)]
    BY <1>4, Zenon DEF CloseContext, Types, Own
  <2>3. /\ status' \in [Ctx -> {"none", "complete", "partial"}]
        /\ DOMAIN manifest' = Ctx /\ manifest' = [c \in Ctx |-> manifest'[c]]
    BY <1>4, Zenon DEF CloseContext, Types
  <2> QED
    BY <1>4, <2>1, <2>2, <2>3, Zenon DEF CloseContext, Goto, Types, Collects, Ending
<1>5. CASE ServerMoves
  BY <1>5, Zenon DEF ServerMoves, listing, Types
<1> QED
  BY <1>1, <1>2, <1>3, <1>4, <1>5, ContextTable, Zenon

(* Every step keeps the accounts.                                           *)
LEMMA AccountedStep ==
  ASSUME Types, Accounted, NEW codes, CollectorNext(codes)
  PROVE  Accounted'
<1>1. CASE Elsewhere
  <2>1. ASSUME NEW c \in Ctx, status[c] # "none" PROVE Closed(c)'
    <3>1. opts' = opts
      BY <1>1, <2>1 DEF Elsewhere, Accounted, Empty, BeforeBody, Opening, Ctx, Types
    <3> QED
      BY <1>1, <2>1, <3>1, Zenon DEF Elsewhere, Accounted, Closed, Omitted, Declared
  <2> QED
    BY <1>1, <2>1, Zenon DEF Elsewhere, Accounted, Empty, Collects, Opening, BeforeBody, Ending, Body
<1>2. CASE OpenContext
  <2>1. /\ pc = "context" /\ pc' = "base" /\ qi' = 1
        /\ UNCHANGED <<opts, ctx, files, omissions, status, manifest>>
    BY <1>2, Zenon DEF OpenContext, Goto
  <2>2. Handled' = {}
    <3>1. Handled' = BaseNames(qi' - 1)
      BY <2>1, Zenon DEF Handled
    <3> QED
      BY <2>1, <3>1, OtherNames
  <2>3. files[ctx] = {} /\ omissions[ctx] = <<>> /\ status[ctx] = "none"
    BY <2>1, Zenon DEF Accounted, Empty, BeforeBody, Types
  <2>4. Tally({}, <<>>, {})
    <3>1. Range(<<>>) = {}
      BY DEF Range
    <3> QED
      BY <3>1, FS_EmptySet, Zenon DEF Tally
  <2>5. \A c \in Ctx : Closed(c) => Closed(c)'
    BY <2>1, Zenon DEF Closed, Omitted, Declared
  <2> QED
    BY <2>1, <2>2, <2>3, <2>4, <2>5, Zenon DEF Accounted, Empty, Opening, BeforeBody
<1>3. CASE Queries(codes)
  BY <1>3, AccountedBody, TypesStep, Zenon
<1>4. CASE CloseContext
  BY <1>4, AccountedClose, TypesStep
<1>5. CASE ServerMoves
  <2>1. UNCHANGED <<pc, opts, ctx, qi, files, omissions, status, manifest, certSeen>>
    BY <1>5, Zenon DEF ServerMoves, listing
  <2>2. Handled' = Handled /\ \A c \in Ctx : (Closed(c) => Closed(c)') /\ (Empty(c) => Empty(c)')
    BY <2>1, Zenon DEF Handled, Closed, Omitted, Declared, Empty
  <2> QED
    BY <2>1, <2>2, Zenon DEF Accounted
<1> QED
  BY <1>1, <1>2, <1>3, <1>4, <1>5, ContextTable, Zenon

-----------------------------------------------------------------------------
(* The gaps of the component surface *)

(* Of the queries behind Collect, a workload without a file is a gap, and a *)
(* cert-manager answer is available or a gap.                               *)
Gapped ==
  /\ opts.comps /\ pc \in Body \cup {"close"} =>
       \A i \in 1..Len(BaseQueries) :
         /\ pc = "base" => i < qi
         /\ BaseQueries[i].workload
         /\ BaseQueries[i].name \notin files[ctx]
         => BaseQueries[i].name \in compGaps
  /\ pc = "cert" => \A i \in 1..(qi - 1) : CertQueries[i] \in available \cup compGaps
  /\ pc \in {"surface", "close"} /\ opts.comps /\ certSeen =>
       \A i \in 1..Len(CertQueries) : CertQueries[i] \in available \cup compGaps

(* Files are only added, gaps only named.                                   *)
LEMMA QueriesGrow ==
  ASSUME Types, NEW codes, Queries(codes)
  PROVE  files[ctx] \subseteq files'[ctx] /\ compGaps \subseteq compGaps'
<1>1. files[ctx] \subseteq files'[ctx]
  <2>1. files' = files \/ \E x : files' = [files EXCEPT ![ctx] = @ \cup {x}]
    BY QueryHandles, Zenon DEF Waits, Handles, Files, Rows
  <2> QED
    BY <2>1, Zenon DEF Types
<1>2. compGaps \subseteq compGaps'
  BY Zenon DEF Queries, BaseRead, BaseProject, PodStatus, CRDsLost, CRDsRefused, CRDsPage,
               CRDsComplete, CertQuery, WriteSurface, crdRest
<1> QED
  BY <1>1, <1>2, Zenon

(* Every step keeps that.                                                   *)
LEMMA GappedStep ==
  ASSUME Types, Gapped, NEW codes, CollectorNext(codes)
  PROVE  Gapped'
<1>1. CASE Elsewhere
  BY <1>1, Zenon DEF Elsewhere, Gapped, Body, Collects
<1>2. CASE OpenContext
  <2>1. pc' = "base" /\ qi' = 1
    BY <1>2, Zenon DEF OpenContext, Goto
  <2>2. \A i \in 1..Len(BaseQueries) : ~(i < 1)
    BY QueriesAssumption
  <2> QED
    BY <2>1, <2>2, Zenon DEF Gapped
<1>3. CASE CloseContext
  BY <1>3, Zenon DEF CloseContext, Goto, Gapped, Body
<1>4. CASE ServerMoves
  BY <1>4, Zenon DEF ServerMoves, listing, Gapped
<1>5. CASE Queries(codes)
  <2>1. /\ pc \in Body /\ opts' = opts /\ ctx' = ctx /\ ctx \in Ctx
        /\ files[ctx] \subseteq files'[ctx] /\ compGaps \subseteq compGaps'
    BY <1>5, QueriesStay, QueriesGrow, Zenon DEF BodyStep, Types
  <2>2. ASSUME NEW code, BaseRead(code) PROVE Gapped'
    <3>1. /\ pc = "base" /\ NextQuery(BaseQueries, AfterBase)
          /\ opts.comps /\ BaseQueries[qi].workload => BaseQueries[qi].name \in compGaps'
      BY <2>2, Zenon DEF BaseRead
    <3>2. /\ pc' = "base" => qi' = qi + 1
          /\ pc' # "base" => qi = Len(BaseQueries) /\ pc' \in {"pods", "crds"}
      BY <2>1, <3>1, BaseHandles, Zenon
    <3>3. qi \in 1..Len(BaseQueries) /\ Len(BaseQueries) \in Nat
      BY <3>1, BaseLength, Zenon DEF Types
    <3>4. \A i \in 1..Len(BaseQueries) : (pc' = "base" => i < qi') => i < qi \/ i = qi
      BY <3>2, <3>3
    <3> QED
      BY <2>1, <3>1, <3>2, <3>4, Zenon DEF Gapped, Body
  <2>3. ASSUME NEW how, NEW cert, BaseProject(how, cert) PROVE Gapped'
    <3>1. /\ pc = "base" /\ NextQuery(BaseQueries, AfterBase)
          /\ \/ BaseQueries[qi].name \in files'[ctx]
             \/ opts.comps /\ BaseQueries[qi].workload => BaseQueries[qi].name \in compGaps'
      BY <2>3 DEF BaseProject, Put, Types
    <3>2. /\ pc' = "base" => qi' = qi + 1
          /\ pc' # "base" => qi = Len(BaseQueries) /\ pc' \in {"pods", "crds"}
      BY <2>1, <3>1, BaseHandles, Zenon
    <3>3. qi \in 1..Len(BaseQueries) /\ Len(BaseQueries) \in Nat
      BY <3>1, BaseLength, Zenon DEF Types
    <3>4. \A i \in 1..Len(BaseQueries) : (pc' = "base" => i < qi') => i < qi \/ i = qi
      BY <3>2, <3>3
    <3> QED
      BY <2>1, <3>1, <3>2, <3>4, Zenon DEF Gapped, Body
  <2>4. ASSUME pc \in {"pods", "crds"}, pc' \in {pc, "crds", AfterCRDs}, qi' = qi,
               certSeen' = certSeen
        PROVE  Gapped'
    <3>1. pc = "pods" => pc' \in {"pods", "crds", "cert", "surface", "close"}
      BY <2>4, Zenon DEF AfterCRDs
    <3> QED
      BY <2>1, <2>4, <3>1 DEF AfterCRDs, Types, Gapped, Body
  <2>5. ASSUME NEW code, NEW how, CertQuery(code, how) PROVE Gapped'
    <3>1. /\ pc = "cert" /\ NextQuery(CertQueries, "surface") /\ certSeen' = certSeen
          /\ CertQueries[qi] \in available' \cup compGaps' /\ available \subseteq available'
      BY <2>5, Zenon DEF CertQuery
    <3>2. /\ pc' = "cert" => qi' = qi + 1
          /\ pc' # "cert" => qi = Len(CertQueries) /\ pc' = "surface"
      BY <2>1, <3>1, CertHandles, Zenon
    <3>3. qi \in 1..Len(CertQueries) /\ Len(CertQueries) \in Nat
      BY <3>1, CertLength, Zenon DEF Types
    <3>4. \A i \in 1..qi : i = qi \/ i \in 1..(qi - 1)
      BY <3>3
    <3>5. \A i \in 1..qi : CertQueries[i] \in available' \cup compGaps'
      BY <2>1, <3>1, <3>4, Zenon DEF Gapped
    <3>6. pc' = "cert" => 1..(qi' - 1) = 1..qi
      BY <3>2, <3>3
    <3> QED
      BY <2>1, <3>1, <3>2, <3>5, <3>6, Zenon DEF Gapped, Body
  <2>6. CASE WriteSurface
    BY <2>1, <2>6, Zenon DEF WriteSurface, Goto, Gapped, Body
  <2> QED
    BY <1>5, <2>2, <2>3, <2>4, <2>5, <2>6, Zenon
    DEF Queries, PodStatus, CRDsLost, CRDsRefused, CRDsPage, CRDsComplete, CRDsOmitted,
        crdRest, Goto
<1> QED
  BY <1>1, <1>2, <1>3, <1>4, <1>5, ContextTable, Zenon

-----------------------------------------------------------------------------
(* The list of definitions *)

(* The first items and the next ones are the first items.                   *)
LEMMA JoinPages ==
  ASSUME NEW S, NEW s \in Seq(S), NEW a \in 0..Len(s), NEW b \in a..Len(s)
  PROVE  /\ SubSeq(s, 1, a) \o SubSeq(s, a + 1, b) = SubSeq(s, 1, b)
         /\ SubSeq(s, 1, Len(s)) = s
<1>1. 1 \in 1..(Len(s) + 1) /\ a \in (1 - 1)..Len(s) /\ b \in a..Len(s)
  OBVIOUS
<1>2. SubSeq(s, 1, a) \o SubSeq(s, a + 1, b) = SubSeq(s, 1, b)
  BY <1>1, ConcatAdjacentSubSeq, Zenon
<1>3. SubSeq(s, 1, Len(s)) = s
  OBVIOUS
<1> QED
  BY <1>2, <1>3, Zenon

(* No items are the first zero.                                             *)
LEMMA NoItems ==
  ASSUME NEW S, NEW s \in Seq(S)
  PROVE  SubSeq(s, 1, 0) = <<>>
<1>1. SubSeq(s, 1, 0) \in Seq(S) /\ Len(SubSeq(s, 1, 0)) = 0
  OBVIOUS
<1> QED
  BY <1>1, Zenon, EmptySeq

(* The bounds of a position in a list.                                      *)
LEMMA Within ==
  ASSUME NEW n \in Nat
  PROVE  0 \in 0..n /\ 1..(n - 1) \subseteq 0..n
  OBVIOUS

(* A continuation is not the absent one: versions begin at one.             *)
LEMMA Continuation ==
  ASSUME NEW rv, rv # 0, NEW at
  PROVE  LET t == [rv |-> rv, at |-> at]
         IN  t # NoToken /\ t.rv = rv /\ t.at = at
  BY Zenon DEF NoToken

(* Each version of the server has a list.                                   *)
LEMMA VersionOfList ==
  ASSUME NEW rv \in DOMAIN CRDs
  PROVE  rv \in Nat /\ rv # 0 /\ CRDs[rv] \in Seq(STRING) /\ Len(CRDs[rv]) \in Nat
  BY ListAssumption

(* A page that follows the first items of a version is its last one, or     *)
(* gives the continuation.                                                  *)
Continues(p, items, rv) ==
  /\ p.rv = rv
  /\ p.next = NoToken => items \o p.items = CRDs[rv]
  /\ p.next # NoToken =>
       \E end \in 1..(Len(CRDs[rv]) - 1) :
         p.next = [rv |-> rv, at |-> end] /\ items \o p.items = SubSeq(CRDs[rv], 1, end)

(* One page of a version does so.                                           *)
LEMMA PageOf ==
  ASSUME NEW rv \in DOMAIN CRDs, NEW at \in 0..Len(CRDs[rv]), NEW p, p = Page(rv, at),
         NEW items, items = SubSeq(CRDs[rv], 1, at)
  PROVE  Continues(p, items, rv)
<1> DEFINE all == CRDs[rv]
           end == IF at + PageLimit < Len(all) THEN at + PageLimit ELSE Len(all)
<1>1. all \in Seq(STRING) /\ Len(all) \in Nat /\ rv \in Nat /\ rv # 0
  BY VersionOfList, Zenon
<1>2. end \in at..Len(all) /\ (end < Len(all) => end \in 1..(Len(all) - 1)) /\ end \in Nat
  BY <1>1, ListAssumption
<1>3. p = [rv |-> rv, items |-> SubSeq(all, at + 1, end),
           next |-> IF end < Len(all) THEN [rv |-> rv, at |-> end] ELSE NoToken]
  BY Zenon DEF Page
<1> HIDE DEF end
<1>4. items \o p.items = SubSeq(all, 1, end)
  BY <1>1, <1>2, <1>3, JoinPages
<1>5. [rv |-> rv, at |-> end] # NoToken
  BY <1>1, Zenon DEF NoToken
<1>6. end = Len(all) => SubSeq(all, 1, end) = all
  BY <1>1, <1>2, JoinPages, Zenon
<1>7. p.rv = rv /\ (end < Len(all) => p.next = [rv |-> rv, at |-> end])
      /\ (~(end < Len(all)) => p.next = NoToken)
  BY <1>3
<1>8. ~(end < Len(all)) => end = Len(all)
  BY <1>1, <1>2
<1> QED
  BY <1>2, <1>4, <1>5, <1>6, <1>7, <1>8, Zenon DEF Continues

(* The pages of a list that goes on are the first ones of one version, and  *)
(* its continuation is one the server has given.                            *)
Begun(rv, at) ==
  /\ crd.rv = rv /\ crd.token = [rv |-> rv, at |-> at]
  /\ crd.items = SubSeq(CRDs[rv], 1, at) /\ crd.token \in crd.seen

Paged ==
  /\ serverRv \in DOMAIN CRDs /\ surface = [c \in Ctx |-> surface[c]]
  /\ pc \in {"base", "pods"} => crd = NoList
  /\ pc = "crds" => \/ crd = NoList
                    \/ \E rv \in DOMAIN CRDs : \E at \in 1..(Len(CRDs[rv]) - 1) : Begun(rv, at)
  /\ ListOfOneVersion

(* A page that is not refused continues the list, or completes it.          *)
LEMMA GoodPage ==
  ASSUME Paged, pc = "crds", NEW p \in ServedPages(crd.token), PageFault(p) = ""
  PROVE  \E rv \in DOMAIN CRDs : Continues(p, crd.items, rv)
<1>2. CASE crd = NoList
  <2>1. crd.token = NoToken /\ crd.items = <<>>
    BY <1>2, Zenon DEF NoList
  <2>2. p = Page(serverRv, 0) /\ serverRv \in DOMAIN CRDs
    BY <2>1, Zenon DEF ServedPages, Paged
  <2>3. CRDs[serverRv] \in Seq(STRING) /\ Len(CRDs[serverRv]) \in Nat
    BY <2>2, VersionOfList, Zenon
  <2>4. crd.items = SubSeq(CRDs[serverRv], 1, 0)
    BY <2>1, <2>3, NoItems, Zenon
  <2>5. 0 \in 0..Len(CRDs[serverRv])
    BY <2>3, Within, Zenon
  <2> QED
    BY <2>2, <2>4, <2>5, PageOf, Zenon
<1>3. ASSUME NEW rv \in DOMAIN CRDs, NEW at \in 1..(Len(CRDs[rv]) - 1), Begun(rv, at)
      PROVE  p = Page(rv, at)
  <2>v. rv \in Nat /\ rv # 0
    BY VersionOfList, Zenon
  <2>1. crd.token # NoToken /\ crd.token.rv = rv /\ crd.token.at = at
    <3>1. /\ [rv |-> rv, at |-> at] # NoToken /\ [rv |-> rv, at |-> at].rv = rv
          /\ [rv |-> rv, at |-> at].at = at
      BY <2>v, Continuation, Zenon
    <3> QED
      BY <1>3, <3>1, Zenon DEF Begun
  <2>2. crd.rv = rv /\ rv # 0 /\ p.rv = rv
    BY <1>3, <2>v, Zenon DEF Begun, PageFault
  <2>3. p # [Page(rv, at) EXCEPT !.next = crd.token]
    <3>1. SUFFICES ASSUME p.next = crd.token PROVE FALSE
      BY Zenon DEF Page
    <3> QED
      BY <1>3, <2>1, <3>1, Zenon DEF Begun, PageFault
  <2>4. p \in {Page(rv, at), Page(serverRv, at)}
    BY <2>1, <2>3, Zenon DEF ServedPages
  <2>5. Page(serverRv, at).rv = serverRv
    BY Zenon DEF Page
  <2> QED
    BY <2>2, <2>4, <2>5, Zenon
<1>4. ASSUME NEW rv \in DOMAIN CRDs, NEW at \in 1..(Len(CRDs[rv]) - 1), Begun(rv, at)
      PROVE  at \in 0..Len(CRDs[rv]) /\ crd.items = SubSeq(CRDs[rv], 1, at)
  <2>1. Len(CRDs[rv]) \in Nat
    BY VersionOfList, Zenon
  <2> QED
    BY <1>4, <2>1, Within, Zenon DEF Begun
<1>5. ASSUME crd # NoList
      PROVE  \E rv \in DOMAIN CRDs : \E at \in 0..Len(CRDs[rv]) :
               p = Page(rv, at) /\ crd.items = SubSeq(CRDs[rv], 1, at)
  BY <1>3, <1>4, <1>5, Zenon DEF Paged
<1>6. CASE crd # NoList
  <2>1. PICK rv \in DOMAIN CRDs : \E at \in 0..Len(CRDs[rv]) :
               p = Page(rv, at) /\ crd.items = SubSeq(CRDs[rv], 1, at)
    BY <1>5, <1>6, Zenon
  <2>2. PICK at \in 0..Len(CRDs[rv]) : p = Page(rv, at) /\ crd.items = SubSeq(CRDs[rv], 1, at)
    BY <2>1, Zenon
  <2> QED
    BY <2>2, PageOf, Zenon
<1> QED
  BY <1>2, <1>6, Zenon

(* Every step keeps that: only a completed list is written, and only its    *)
(* file has its name.                                                       *)
LEMMA PagedStep ==
  ASSUME Types, Paged, NEW codes, CollectorNext(codes)
  PROVE  Paged'
<1> DEFINE crds == "crd-api-surface.json"
<1>1. CASE Elsewhere
  BY <1>1, Zenon DEF Elsewhere, Paged, ListOfOneVersion, Collects, Body
<1>2. CASE OpenContext
  BY <1>2, Zenon DEF OpenContext, Goto, Paged, ListOfOneVersion, place, world
<1>3. CASE CloseContext
  <2>1. \A c \in Ctx : crds \in files'[c] => crds \in files[c]
    BY <1>3, Zenon DEF CloseContext, Types
  <2> QED
    BY <1>3, <2>1, Zenon DEF CloseContext, Goto, Paged, ListOfOneVersion, world
<1>4. CASE ServerMoves
  <2>1. UNCHANGED <<pc, crd, files, surface>> /\ serverRv' \in DOMAIN CRDs
    BY <1>4, Zenon DEF ServerMoves, listing
  <2> QED
    BY <2>1, Zenon DEF Paged, Begun, ListOfOneVersion
<1>5. CASE Queries(codes)
  <2>1. serverRv' = serverRv /\ pc \in Body /\ ctx' = ctx
    BY <1>5, QueriesStay, Zenon DEF BodyStep, world
  <2>2. files \in [Ctx -> SUBSET (Surfaces \cup Own)] /\ ctx \in Ctx
    BY Zenon DEF Types
  <2>3. ASSUME NEW x, x # crds, Files(x) \/ Rows(x)
        PROVE  \A c \in Ctx : crds \in files'[c] => crds \in files[c]
    BY <2>2, <2>3, Zenon DEF Files, Rows
  <2>4. ASSUME UNCHANGED <<crd, surface>>, pc # "crds",
               pc' \in {"base", "pods", "crds"} => pc \in {"base", "pods"},
               \A c \in Ctx : crds \in files'[c] => crds \in files[c]
        PROVE  Paged'
    BY <2>1, <2>4, Zenon DEF Paged, ListOfOneVersion
  <2>5. ASSUME pc' = AfterCRDs, crd' = NoList, UNCHANGED <<files, surface>>
        PROVE  Paged'
    BY <2>1, <2>5, Zenon DEF Paged, ListOfOneVersion, AfterCRDs
  <2>6. ASSUME NEW code, BaseRead(code) PROVE Paged'
    <3>1. /\ pc = "base" /\ UNCHANGED <<crd, surface, files>>
      BY <2>6, Zenon DEF BaseRead
    <3> QED
      BY <2>4, <3>1, Zenon
  <2>7. ASSUME NEW how, NEW cert, BaseProject(how, cert) PROVE Paged'
    <3>1. /\ pc = "base" /\ UNCHANGED <<crd, surface>> /\ opts' = opts
          /\ NextQuery(BaseQueries, AfterBase)
      BY <2>7, Zenon DEF BaseProject
    <3>2. BaseQueries[qi].name # crds
      <4>1. BaseQueries[qi].name \in BaseNames(Len(BaseQueries))
        BY <3>1, QueriesAssumption, Zenon DEF BaseNames, Types
      <4> QED
        BY <4>1, OtherNames, Zenon DEF Listed
    <3>3. files' = files \/ Files(BaseQueries[qi].name)
      BY <2>7, Zenon DEF BaseProject, Put, Files
    <3> QED
      BY <2>3, <2>4, <3>1, <3>2, <3>3, Zenon
  <2>8. ASSUME NEW code, NEW how, PodStatus(code, how) PROVE Paged'
    <3>1. /\ pc = "pods" /\ UNCHANGED <<crd, surface>>
          /\ files' = files \/ Files("pod-status-images.json")
      BY <2>8, Zenon DEF PodStatus, Put, Files
    <3> QED
      BY <2>3, <2>4, <3>1, Zenon
  <2>9. ASSUME NEW code, CRDsLost(code) PROVE Paged'
    BY <2>5, <2>9, Zenon DEF CRDsLost, CRDsOmitted, Goto
  <2>10. ASSUME NEW p, CRDsRefused(p) PROVE Paged'
    BY <2>5, <2>10, Zenon DEF CRDsRefused, CRDsOmitted, Goto
  <2>11. ASSUME NEW p \in ServedPages(crd.token), NEW ticks, CRDsPage(p, ticks) PROVE Paged'
    <3>1. /\ pc = "crds" /\ pc' = "crds" /\ UNCHANGED <<files, surface>>
          /\ p.next # NoToken /\ PageFault(p) = "" /\ crd' = WithPage(p, ticks)
      BY <2>11, Zenon DEF CRDsPage
    <3>2. PICK rv \in DOMAIN CRDs : Continues(p, crd.items, rv)
      BY <3>1, GoodPage, Zenon
    <3>3. /\ crd'.rv = p.rv /\ crd'.token = p.next /\ crd'.items = crd.items \o p.items
          /\ crd'.token \in crd'.seen
      BY <3>1, Zenon DEF WithPage
    <3>4. \E at \in 1..(Len(CRDs[rv]) - 1) : Begun(rv, at)'
      BY <3>1, <3>2, <3>3, Zenon DEF Continues, Begun
    <3> QED
      BY <2>1, <3>1, <3>4, Zenon DEF Paged, ListOfOneVersion
  <2>12. ASSUME NEW p \in ServedPages(crd.token), NEW how, CRDsComplete(p, how) PROVE Paged'
    <3>1. CASE how = "write_failed"
      BY <2>5, <2>12, <3>1, Zenon DEF CRDsComplete, CRDsOmitted, Goto
    <3>2. CASE how # "write_failed"
      <4>1. /\ pc = "crds" /\ pc' = AfterCRDs /\ p.next = NoToken /\ PageFault(p) = ""
            /\ surface' = [surface EXCEPT ![ctx] = Range(crd.items \o p.items)]
            /\ files' = [files EXCEPT ![ctx] = @ \cup {crds}]
        BY <2>12, <3>2, Zenon DEF CRDsComplete, Put, Goto
      <4>2. PICK rv \in DOMAIN CRDs : Continues(p, crd.items, rv)
        BY <4>1, GoodPage, Zenon
      <4>3. surface'[ctx] = Range(CRDs[rv])
        BY <2>2, <4>1, <4>2, Zenon DEF Paged, Continues
      <4>4. \A c \in Ctx : c # ctx => files'[c] = files[c] /\ surface'[c] = surface[c]
        BY <2>2, <4>1, Zenon DEF Paged
      <4>5. surface' = [c \in Ctx |-> surface'[c]]
        BY <2>2, <4>1, Zenon DEF Paged
      <4>6. ListOfOneVersion'
        BY <4>3, <4>4, Zenon DEF Paged, ListOfOneVersion
      <4> QED
        BY <2>1, <4>1, <4>5, <4>6, Zenon DEF Paged, AfterCRDs
    <3> QED
      BY <3>1, <3>2, Zenon
  <2>13. ASSUME NEW code, NEW how, CertQuery(code, how) PROVE Paged'
    <3>1. /\ pc = "cert" /\ pc' \in {"cert", "surface"} /\ UNCHANGED <<crd, surface>>
          /\ files' = files \/ Files(CertQueries[qi])
      BY <2>13, Zenon DEF CertQuery, Put, Files, NextQuery, Goto
    <3>2. CertQueries[qi] # crds
      BY <3>1, NextCertName, Zenon DEF Types, Listed
    <3> QED
      BY <2>3, <2>4, <3>1, <3>2, Zenon
  <2>14. CASE WriteSurface
    <3>1. /\ pc = "surface" /\ pc' = "close" /\ UNCHANGED <<crd, surface>>
          /\ Files("component-configuration-surface.json")
      BY <2>14, Zenon DEF WriteSurface, Put, Files, Goto
    <3> QED
      BY <2>3, <2>4, <3>1, Zenon
  <2> QED
    BY <1>5, <2>6, <2>7, <2>8, <2>9, <2>10, <2>11, <2>12, <2>13, <2>14, Zenon DEF Queries
<1> QED
  BY <1>1, <1>2, <1>3, <1>4, <1>5, ContextTable, Zenon

-----------------------------------------------------------------------------
(* The collector *)

CollectorInv == OneVersion /\ Tidy /\ Types /\ Accounted /\ Gapped /\ Paged

(* The collector starts with all of that.                                   *)
LEMMA CollectorBegins ==
  ASSUME CollectorInit
  PROVE  CollectorInv
<1>0. /\ pc = "validate" /\ kube = 1 /\ snapshot = {} /\ runDir = FALSE /\ ctx = 1
      /\ returned = None /\ unremoved = FALSE /\ top = {} /\ qi = 1
      /\ DOMAIN status = Ctx /\ \A c \in Ctx : status[c] = "none"
  BY Zenon DEF CollectorInit
<1>1. 1 \in Ctx /\ \A c \in Ctx : ~(c < 1)
  BY ContextsAssumption DEF Ctx
<1>2. OneVersion
  <2>1. 1 \in Nat
    OBVIOUS
  <2> QED
    BY <1>0, <2>1, Zenon DEF OneVersion
<1>3. Tidy
  BY <1>0, <1>1, Zenon DEF Tidy, Collects, Opening, Ending, Body
<1>4. Types
  <2>1. /\ files \in [Ctx -> SUBSET (Surfaces \cup Own)]
        /\ omissions \in [Ctx -> Seq(Surfaces)]
        /\ status \in [Ctx -> {"none", "complete", "partial"}]
    BY DEF CollectorInit
  <2>2. DOMAIN manifest = Ctx /\ manifest = [c \in Ctx |-> manifest[c]]
    BY Zenon DEF CollectorInit
  <2>3. qi \in Nat
    BY <1>0
  <2> QED
    BY <1>0, <1>1, <2>1, <2>2, <2>3, Zenon DEF Types, Collects, Opening
<1>5. Accounted
  BY <1>1, Zenon DEF CollectorInit, Accounted, Empty, Opening, BeforeBody, Body
<1>6. Gapped
  BY <1>0, Zenon DEF Gapped, Body
<1>7. Paged
  <2>1. 1 \in DOMAIN CRDs
    BY ListAssumption
  <2> QED
    BY <2>1, Zenon DEF CollectorInit, Paged, ListOfOneVersion
<1> QED
  BY <1>2, <1>3, <1>4, <1>5, <1>6, <1>7, Zenon DEF CollectorInv

(* The invariant holds in every behaviour, whichever of the two takes steps. *)
LEMMA CollectorSafe == Spec => []CollectorInv
<1>1. Init => CollectorInv
  BY CollectorBegins DEF Init
<1>2. CollectorInv /\ [Next]_vars => CollectorInv'
  <2>1. CASE CollectorInv /\ CollectorNext(Codes)
    BY <2>1, VersionStep, TidyStep, TypesStep, AccountedStep, GappedStep, PagedStep, Zenon
    DEF CollectorInv
  <2>2. CASE CollectorInv /\ UNCHANGED collectorVars
    <3>1. /\ UNCHANGED <<pc, opts, kube, accepted, snapshot, runDir, ctx, qi, files, omissions>>
          /\ UNCHANGED <<compGaps, certSeen, available, crd, surface, status, manifest, top>>
          /\ UNCHANGED <<serverRv, unremoved, returned>>
      BY <2>2, Zenon DEF collectorVars
    <3>2. OneVersion' /\ Types' /\ Gapped'
      <4>1. OneVersion'
        BY <2>2, <3>1, Zenon DEF CollectorInv, OneVersion
      <4>2. Types'
        BY <2>2, <3>1, Zenon DEF CollectorInv, Types
      <4>3. Gapped'
        BY <2>2, <3>1, Zenon DEF CollectorInv, Gapped
      <4> QED
        BY <4>1, <4>2, <4>3, Zenon
    <3>3. Tidy'
      BY <2>2, <3>1, Zenon DEF CollectorInv, Tidy, TotalOmissions
    <3>4. Accounted'
      <4>1. Handled' = Handled /\ \A c \in Ctx : (Closed(c) => Closed(c)') /\ (Empty(c) => Empty(c)')
        BY <3>1, Zenon DEF Handled, Closed, Omitted, Declared, Empty
      <4> QED
        BY <2>2, <3>1, <4>1, Zenon DEF CollectorInv, Accounted
    <3>5. Paged'
      BY <2>2, <3>1, Zenon DEF CollectorInv, Paged, Begun, ListOfOneVersion
    <3> QED
      BY <3>2, <3>3, <3>4, <3>5, Zenon DEF CollectorInv
  <2> QED
    BY <2>1, <2>2, Zenon DEF Next, vars, Running, Collecting
<1> QED
  BY <1>1, <1>2, PTL DEF Spec

(* The copy of the kubeconfig that kubectl runs with has the bytes of one   *)
(* version of the operator's file (kubeconfig_snapshot_unix.go 17).         *)
THEOREM SnapshotNeverTorn == Spec => []SnapshotNotTorn
<1>1. CollectorInv => SnapshotNotTorn
  <2>1. CASE snapshot = {}
    BY <2>1, FS_EmptySet DEF SnapshotNotTorn
  <2>2. ASSUME NEW v, snapshot = {v} PROVE SnapshotNotTorn
    <3>1. Cardinality({v}) = 1
      BY FS_Singleton, Zenon
    <3> QED
      BY <2>2, <3>1 DEF SnapshotNotTorn
  <2> QED
    BY <2>1, <2>2, Zenon DEF CollectorInv, OneVersion
<1> QED
  BY <1>1, CollectorSafe, PTL

(* Collect leaves no copy of the kubeconfig and no unfinished directory     *)
(* behind, unless a removal failed or it was killed; a run manifest means   *)
(* that everything is in place (collect.go 97-280).                         *)
THEOREM NothingLeftBehind == Spec => []LeavesNothingBehind
<1>1. CollectorInv => LeavesNothingBehind
  BY Zenon DEF CollectorInv, Tidy, LeavesNothingBehind, Collects
<1> QED
  BY <1>1, CollectorSafe, PTL

(* A closed context has a file or one row for every surface it declared,    *)
(* and its status says whether there are rows (collect.go 141-250).         *)
THEOREM NothingEverMissing == Spec => []NothingSilentlyMissing
<1>1. CollectorInv => GapsNamed
  <2>1. /\ DOMAIN BaseQueries = 1..Len(BaseQueries)
        /\ DOMAIN CertQueries = 1..Len(CertQueries)
    BY QueriesAssumption
  <2> QED
    BY <2>1, Zenon DEF CollectorInv, Gapped, GapsNamed, Range
<1>2. CollectorInv => NothingSilentlyMissing
  BY <1>1, Zenon DEF CollectorInv, Accounted, Closed, NothingSilentlyMissing
<1> QED
  BY <1>2, CollectorSafe, PTL

(* A CRD surface that is written is the whole list of one version of the    *)
(* server (capture.go 33-125).                                              *)
THEOREM AlwaysOneVersion == Spec => []ListOfOneVersion
<1>1. CollectorInv => ListOfOneVersion
  BY Zenon DEF CollectorInv, Paged
<1> QED
  BY <1>1, CollectorSafe, PTL
=============================================================================
