------------------------------ MODULE Collector -----------------------------
(***************************************************************************)
(* Collector.Collect of internal/localcollector: one private run directory *)
(* with a directory per context, filled query by query from kubectl calls  *)
(* (BoundedCall is what each call promises), a private snapshot of the     *)
(* kubeconfig, and the manifests that close them.                          *)
(*                                                                         *)
(* A projection either rejects an answer or keeps what it declares; which  *)
(* is data. Any write may fail, a removal may fail, the process may be     *)
(* killed between any two steps. The API server pages its CRD list from a  *)
(* version it may have left, or continue at another version, or repeat a   *)
(* continuation. The operator's kubeconfig may be rewritten at any time.   *)
(***************************************************************************)
EXTENDS Naturals, Sequences, FiniteSets, Functions

CONSTANTS
  N,            \* number of contexts
  BaseQueries,  \* sequence of [name, workload]
  CertQueries,  \* sequence of file names
  CRDs,         \* server version -> sequence of CRD identities
  PageLimit,    \* items per page
  MaxPages,     \* pages of one list
  MaxItems,     \* items of one list
  PageBudget,   \* crdPageBudget in ticks
  ReadTimeout,  \* requestTimeout in ticks
  MaxEdits      \* bound: rewrites of the kubeconfig

VARIABLES
  pc,           \* the step Collect is at
  opts,         \* [pods, comps, partial]
  kube,         \* version of the operator's kubeconfig file
  accepted,     \* [before, raw]: the stat taken and the bytes read
  snapshot,     \* file versions the private snapshot's bytes come from
  runDir,       \* the run directory exists
  ctx, qi,      \* the context and the query in it
  files,        \* per context, the files written
  omissions,    \* per context, the rows of omissions.tsv
  compGaps,     \* sources named by the component surface's omissions
  certSeen,     \* a cert-manager image was projected
  available,    \* cert-manager surfaces the derivation may use
  crd,          \* [page, token, rv, seen, items, time] of the CRD list
  surface,      \* per context, the CRD identities written
  status,       \* per context, collectionStatus in its metadata
  manifest,     \* per context, the files its manifest lists
  top,          \* files of the run directory itself
  serverRv,     \* version the API server is at
  unremoved,    \* a removal failed
  returned      \* [dir, exit] or None

(* The files of a context that are not the answer to a query.              *)
Own == {"component-configuration-surface.json", "omissions.tsv",
        "snapshot-metadata.json", "MANIFEST.sha256"}
BaseNames(k) == {BaseQueries[i].name : i \in 1..k}
CertNames(k) == {CertQueries[i] : i \in 1..k}

ASSUME ContextsAssumption == N \in Nat \ {0}
\* The queries are fixed lists of distinct files (collect.go 55, capture.go 192).
ASSUME QueriesAssumption ==
  /\ BaseQueries \in Seq([name : STRING, workload : BOOLEAN]) /\ BaseQueries # <<>>
  /\ CertQueries \in Seq(STRING) /\ CertQueries # <<>>
  /\ \A i, j \in DOMAIN BaseQueries : BaseQueries[i].name = BaseQueries[j].name => i = j
  /\ \A i, j \in DOMAIN CertQueries : CertQueries[i] = CertQueries[j] => i = j
  /\ \A i \in DOMAIN BaseQueries, j \in DOMAIN CertQueries : BaseQueries[i].name # CertQueries[j]
  /\ (BaseNames(Len(BaseQueries)) \cup CertNames(Len(CertQueries)))
       \cap (Own \cup {"crd-api-surface.json", "pod-status-images.json"}) = {}
\* external: every version of the list is one, and a page has an item.
ASSUME ListAssumption ==
  /\ CRDs \in Seq(Seq(STRING)) /\ CRDs # <<>>
  /\ PageLimit \in Nat \ {0}

collectorVars ==
  <<pc, opts, kube, accepted, snapshot, runDir, ctx, qi, files, omissions,
    compGaps, certSeen, available, crd, surface, status, manifest, top,
    serverRv, unremoved, returned>>

None == [none |-> TRUE]
Ctx == 1..N
NoToken == [rv |-> 0, at |-> 0]
NoList == [page |-> 0, token |-> NoToken, rv |-> 0, seen |-> {},
           items |-> <<>>, time |-> 0]

CollectorInit ==
  /\ pc = "validate"
  /\ opts = [pods |-> FALSE, comps |-> FALSE, partial |-> FALSE]
  /\ kube = 1 /\ accepted = [before |-> 0, raw |-> {}] /\ snapshot = {}
  /\ runDir = FALSE /\ ctx = 1 /\ qi = 1
  /\ files = [c \in Ctx |-> {}] /\ omissions = [c \in Ctx |-> <<>>]
  /\ compGaps = {} /\ certSeen = FALSE /\ available = {} /\ crd = NoList
  /\ surface = [c \in Ctx |-> {}] /\ status = [c \in Ctx |-> "none"]
  /\ manifest = [c \in Ctx |-> {}] /\ top = {}
  /\ serverRv = 1 /\ unremoved = FALSE /\ returned = None

-----------------------------------------------------------------------------
(* What a read returns *)

\* failureFromResult, for a result that is not a success.
FailureFromResult(r) ==
  IF r.exit = 125 THEN "pipeline_failed" ELSE "kubernetes_api_read_failed"

\* readWithTimeout: the code of a read, "" when strict JSON came back.
ReadCodes(results) ==
  {FailureFromResult(r) : r \in {x \in results : x.err \/ x.exit # 0}}
  \cup (IF \E r \in results : ~r.err /\ r.exit = 0
        THEN {"", "strict_json_rejected"} ELSE {})

\* The three ways a step can go on after a successful read.
Projected == {"kept", "projection_filter_rejected", "write_failed"}

\* addOmission: the row names the surface; its code is not kept.
Omit(name, code) == omissions' = [omissions EXCEPT ![ctx] = Append(@, name)]
Put(name) == files' = [files EXCEPT ![ctx] = @ \cup {name}]

-----------------------------------------------------------------------------
(* Leaving Collect *)

\* The deferred calls: the run directory goes unless it is complete, the
\* snapshot goes unless it is already gone. Each removal may fail. As a
\* mutant, the snapshot is not removed on the way out.
CleanupDirOnly(complete) ==
  \E dirGone \in BOOLEAN :
    /\ runDir' = (runDir /\ (complete \/ ~dirGone))
    /\ unremoved' = (unremoved \/ (runDir /\ ~complete /\ ~dirGone))
    /\ UNCHANGED snapshot
Cleanup(complete) ==
  \E dirGone, snapGone \in BOOLEAN :
    /\ runDir' = (runDir /\ (complete \/ ~dirGone))
    /\ snapshot' = (IF snapGone THEN {} ELSE snapshot)
    /\ unremoved' = (unremoved \/ (runDir /\ ~complete /\ ~dirGone)
                               \/ (snapshot # {} /\ ~snapGone))

Return(dir, exit) == returned' = [dir |-> dir, exit |-> exit] /\ pc' = "done"

listing == <<ctx, qi, files, omissions, compGaps, certSeen, available, crd,
             surface, status, manifest>>
world == <<kube, serverRv>>

Fail == /\ Return(FALSE, 2) /\ Cleanup(FALSE)
        /\ UNCHANGED <<opts, accepted, listing, top, world>>

Goto(label) == pc' = label
place == <<snapshot, runDir, unremoved, returned>>

-----------------------------------------------------------------------------
(* validateOptions and validateLocalPathsAndTools. The kubeconfig is read  *)
(* between two stats: a rewrite in between may leave bytes of both files.  *)

Refuse ==
  /\ pc = "validate" /\ Return(FALSE, 2)
  /\ UNCHANGED <<opts, kube, accepted, snapshot, runDir, listing, top,
                 serverRv, unremoved>>

Validate(o) ==
  /\ pc = "validate" /\ ~(o.pods /\ o.comps)
  /\ opts' = o /\ accepted' = [before |-> kube, raw |-> {}] /\ Goto("read")
  /\ UNCHANGED <<listing, top, place, world>>

ReadKubeconfig ==
  /\ pc = "read"
  /\ \E raw \in {{kube}, {accepted.before, kube}} :
       accepted' = [accepted EXCEPT !.raw = raw]
  /\ Goto("verify")
  /\ UNCHANGED <<opts, listing, top, place, world>>

\* As a mutant, the second stat is not compared with the first.
AcceptUnverified ==
  /\ pc = "verify"
  /\ Goto("mkdir")
  /\ UNCHANGED <<opts, accepted, listing, top, place, world>>
AcceptKubeconfig ==
  /\ pc = "verify"
  /\ IF kube = accepted.before
     THEN Goto("mkdir") /\ UNCHANGED returned
     ELSE Return(FALSE, 2)
  /\ UNCHANGED <<opts, accepted, snapshot, runDir, listing, top, unremoved,
                 world>>

-----------------------------------------------------------------------------
(* The run directory, the snapshot and one directory per context *)

MakeRunDir ==
  /\ pc = "mkdir" /\ Goto("snapshot") /\ runDir' = TRUE
  /\ UNCHANGED <<opts, accepted, snapshot, unremoved, returned, listing, top,
                 world>>

MakeSnapshot ==
  /\ pc = "snapshot" /\ Goto("recheck") /\ snapshot' = accepted.raw
  /\ UNCHANGED <<opts, accepted, runDir, unremoved, returned, listing, top,
                 world>>

\* The bytes are read back, and the environment and the adapters are loaded.
Prepare ==
  /\ pc = "recheck" /\ Goto("context")
  /\ UNCHANGED <<opts, accepted, listing, top, place, world>>

OpenContext ==
  /\ pc = "context" /\ Goto("base")
  /\ qi' = 1 /\ compGaps' = {} /\ certSeen' = FALSE /\ available' = {}
  /\ crd' = NoList
  /\ UNCHANGED <<opts, accepted, ctx, files, omissions, surface, status,
                 manifest, top, place, world>>

\* Any of these steps may fail: the deferred calls then clean up.
StepFails == pc \in {"mkdir", "snapshot", "recheck", "context", "base",
                      "surface", "close", "unsnapshot", "index", "seal"} /\ Fail

-----------------------------------------------------------------------------
(* The base queries. A projected answer that cannot be written is fatal. *)

AfterBase == IF opts.pods THEN "pods" ELSE "crds"
NextQuery(queries, after) ==
  IF qi < Len(queries) THEN qi' = qi + 1 /\ pc' = pc
  ELSE qi' = 1 /\ Goto(after)

BaseRead(code) ==
  /\ pc = "base" /\ code # ""
  /\ LET q == BaseQueries[qi]
     IN  /\ Omit(q.name, code)
         /\ compGaps' = IF q.workload /\ opts.comps
                        THEN compGaps \cup {q.name} ELSE compGaps
  /\ NextQuery(BaseQueries, AfterBase)
  /\ UNCHANGED <<opts, accepted, ctx, files, certSeen, available, crd, surface,
                 status, manifest, top, place, world>>

BaseProject(how, cert) ==
  /\ pc = "base" /\ how \in {"kept", "projection_filter_rejected"}
  /\ LET q == BaseQueries[qi]
     IN  IF how = "kept"
         THEN /\ Put(q.name)
              /\ certSeen' = (certSeen \/ (cert /\ q.workload /\ opts.comps))
              /\ UNCHANGED <<omissions, compGaps>>
         ELSE /\ Omit(q.name, how)
              /\ compGaps' = IF q.workload /\ opts.comps
                             THEN compGaps \cup {q.name} ELSE compGaps
              /\ UNCHANGED <<files, certSeen>>
  /\ NextQuery(BaseQueries, AfterBase)
  /\ UNCHANGED <<opts, accepted, ctx, available, crd, surface, status,
                 manifest, top, place, world>>

-----------------------------------------------------------------------------
(* capturePodStatus *)

PodStatus(code, how) ==
  /\ pc = "pods"
  /\ IF code # ""
     THEN Omit("pod-status-images.json", code) /\ UNCHANGED files
     ELSE IF how = "kept"
     THEN Put("pod-status-images.json") /\ UNCHANGED omissions
     ELSE /\ Omit("pod-status-images.json",
                  IF how = "write_failed" THEN "pipeline_failed" ELSE how)
          /\ UNCHANGED files
  /\ Goto("crds")
  /\ UNCHANGED <<opts, accepted, ctx, qi, compGaps, certSeen, available, crd,
                 surface, status, manifest, top, place, world>>

-----------------------------------------------------------------------------
(* captureCRDs: a paged list under one time budget. external: the server. *)

Page(rv, at) ==
  LET all == CRDs[rv]
      end == IF at + PageLimit < Len(all) THEN at + PageLimit ELSE Len(all)
  IN  [rv |-> rv, items |-> SubSeq(all, at + 1, end),
       next |-> IF end < Len(all) THEN [rv |-> rv, at |-> end] ELSE NoToken]

ServedPages(token) ==
  IF token = NoToken THEN {Page(serverRv, 0)}
  ELSE {Page(token.rv, token.at), Page(serverRv, token.at),
        [Page(token.rv, token.at) EXCEPT !.next = token]}

AfterCRDs == IF ~opts.comps THEN "close"
             ELSE IF certSeen THEN "cert" ELSE "surface"

\* The list ends with an omission. As a mutant, without one.
CRDsSkipped(code) ==
  /\ Goto(AfterCRDs) /\ crd' = NoList /\ UNCHANGED <<files, surface, omissions>>
CRDsOmitted(code) ==
  /\ Omit("crd-api-surface.json", code)
  /\ Goto(AfterCRDs) /\ crd' = NoList /\ UNCHANGED <<files, surface>>

WithPage(p, ticks) ==
  [page |-> crd.page + 1, token |-> p.next, rv |-> p.rv,
   seen |-> crd.seen \cup {p.next}, items |-> crd.items \o p.items,
   time |-> crd.time + ticks]

\* Why a page ends the list with an omission, "" when it does not. As a
\* mutant, pages of two versions are put together.
PageFaultAnyVersion(p) ==
  IF Len(crd.items \o p.items) > MaxItems THEN "projection_filter_rejected"
  ELSE IF p.next # NoToken /\ (p.next \in crd.seen \/ crd.page + 1 = MaxPages)
  THEN "pipeline_failed"
  ELSE IF p.next = NoToken /\ ~IsInjective(crd.items \o p.items)
  THEN "projection_filter_rejected" ELSE ""
PageFault(p) ==
  IF crd.rv \notin {0, p.rv} THEN "pipeline_failed"
  ELSE IF Len(crd.items \o p.items) > MaxItems
  THEN "projection_filter_rejected"
  ELSE IF p.next # NoToken /\ (p.next \in crd.seen \/ crd.page + 1 = MaxPages)
  THEN "pipeline_failed"
  ELSE IF p.next = NoToken /\ ~IsInjective(crd.items \o p.items)
  THEN "projection_filter_rejected" ELSE ""

crdRest == <<opts, accepted, ctx, qi, compGaps, certSeen, available, status,
             manifest, top, place, world>>

\* The budget is used up, or the read fails within what is left of it.
CRDsLost(code) ==
  /\ pc = "crds"
  /\ code # "" /\ (crd.time >= PageBudget => code = "pipeline_failed")
  /\ CRDsOmitted(code) /\ UNCHANGED crdRest

CRDsRefused(p) ==
  /\ pc = "crds" /\ crd.time < PageBudget
  /\ \/ CRDsOmitted("projection_filter_rejected")
     \/ PageFault(p) # "" /\ CRDsOmitted(PageFault(p))
  /\ UNCHANGED crdRest

\* remainingRequestTimeout bounds how long one page may take.
CRDsPage(p, ticks) ==
  /\ pc = "crds" /\ crd.time < PageBudget
  /\ ticks <= ReadTimeout /\ crd.time + ticks <= PageBudget
  /\ p.next # NoToken /\ PageFault(p) = ""
  /\ crd' = WithPage(p, ticks)
  /\ UNCHANGED <<pc, files, omissions, surface, crdRest>>

CRDsComplete(p, how) ==
  /\ pc = "crds" /\ crd.time < PageBudget
  /\ p.next = NoToken /\ PageFault(p) = ""
  /\ IF how = "write_failed" THEN CRDsOmitted("pipeline_failed")
     ELSE /\ Put("crd-api-surface.json") /\ Goto(AfterCRDs) /\ crd' = NoList
          /\ surface' = [surface EXCEPT ![ctx] = Range(crd.items \o p.items)]
          /\ UNCHANGED omissions
  /\ UNCHANGED crdRest

-----------------------------------------------------------------------------
(* captureCertManager, then the component surface. A surface that was      *)
(* projected is available to the derivation even if its file could not be  *)
(* written.                                                                *)

CertQuery(code, how) ==
  /\ pc = "cert"
  /\ LET name == CertQueries[qi]
         lost == code # "" \/ how = "projection_filter_rejected"
     IN  /\ IF code = "" /\ how = "kept"
            THEN Put(name) /\ UNCHANGED omissions
            ELSE /\ Omit(name, IF code # "" THEN code
                               ELSE IF how = "write_failed"
                               THEN "pipeline_failed" ELSE how)
                 /\ UNCHANGED files
         /\ compGaps' = IF lost THEN compGaps \cup {name} ELSE compGaps
         /\ available' = IF lost THEN available ELSE available \cup {name}
  /\ NextQuery(CertQueries, "surface")
  /\ UNCHANGED <<opts, accepted, ctx, certSeen, crd, surface, status, manifest,
                 top, place, world>>

WriteSurface ==
  /\ pc = "surface" /\ Put("component-configuration-surface.json")
  /\ Goto("close")
  /\ UNCHANGED <<opts, accepted, ctx, qi, omissions, compGaps, certSeen,
                 available, crd, surface, status, manifest, top,
                 place, world>>

\* omissions.tsv, snapshot-metadata.json and the context's manifest.
CloseContext ==
  /\ pc = "close"
  /\ LET kept == files[ctx] \cup {"omissions.tsv", "snapshot-metadata.json"}
     IN  /\ files' = [files EXCEPT ![ctx] = kept \cup {"MANIFEST.sha256"}]
         /\ manifest' = [manifest EXCEPT ![ctx] = kept]
  /\ status' = [status EXCEPT ![ctx] = IF omissions[ctx] = <<>> THEN "complete"
                                       ELSE "partial"]
  /\ IF ctx < N THEN ctx' = ctx + 1 /\ Goto("context")
     ELSE UNCHANGED ctx /\ Goto("unsnapshot")
  /\ UNCHANGED <<opts, accepted, qi, omissions, compGaps, certSeen, available,
                 crd, surface, top, place, world>>

-----------------------------------------------------------------------------
(* The end of the run *)

RemoveSnapshot ==
  /\ pc = "unsnapshot" /\ Goto("index") /\ snapshot' = {}
  /\ UNCHANGED <<opts, accepted, runDir, unremoved, returned, listing, top,
                 world>>

WriteIndex ==
  /\ pc = "index" /\ Goto("seal") /\ top' = {"index.json"}
  /\ UNCHANGED <<opts, accepted, place, listing, world>>

TotalOmissions == \E c \in Ctx : omissions[c] # <<>>

WriteManifest ==
  /\ pc = "seal" /\ top' = top \cup {"MANIFEST.sha256"}
  /\ Return(TRUE, IF TotalOmissions /\ ~opts.partial THEN 6 ELSE 0)
  /\ UNCHANGED <<opts, accepted, snapshot, runDir, unremoved, listing, world>>

-----------------------------------------------------------------------------
(* Around the collector *)

Rewrite ==
  /\ pc \in {"read", "verify", "snapshot"} /\ kube <= MaxEdits
  /\ kube' = kube + 1
  /\ UNCHANGED <<pc, opts, accepted, listing, top, place, serverRv>>

ServerMoves ==
  /\ pc = "crds" /\ serverRv + 1 \in DOMAIN CRDs /\ serverRv' = serverRv + 1
  /\ UNCHANGED <<pc, opts, accepted, listing, top, place, kube>>

Killed ==
  /\ pc \notin {"done", "dead"} /\ pc' = "dead"
  /\ UNCHANGED <<opts, accepted, listing, top, place, world>>

Options == [pods : BOOLEAN, comps : BOOLEAN, partial : BOOLEAN]

\* The steps of Collect, for the codes a read can have.
CollectSteps(codes) ==
  \/ Refuse \/ \E o \in Options : Validate(o)
  \/ ReadKubeconfig \/ AcceptKubeconfig
  \/ MakeRunDir \/ MakeSnapshot \/ Prepare \/ OpenContext \/ StepFails
  \/ \E code \in codes : BaseRead(code)
  \/ \E how \in Projected, cert \in BOOLEAN : BaseProject(how, cert)
  \/ \E code \in codes, how \in Projected : PodStatus(code, how)
  \/ \E code \in codes : CRDsLost(code)
  \/ \E p \in ServedPages(crd.token) :
       \/ CRDsRefused(p)
       \/ \E ticks \in 0..ReadTimeout : CRDsPage(p, ticks)
       \/ \E how \in {"kept", "write_failed"} : CRDsComplete(p, how)
  \/ \E code \in codes, how \in Projected : CertQuery(code, how)
  \/ WriteSurface \/ CloseContext \/ RemoveSnapshot \/ WriteIndex
  \/ WriteManifest

CollectorNext(codes) == CollectSteps(codes) \/ Rewrite \/ ServerMoves \/ Killed
=============================================================================
