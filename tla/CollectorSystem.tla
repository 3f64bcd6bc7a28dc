--------------------------- MODULE CollectorSystem --------------------------
(* The collector and the runner it calls. The runner is shown to be a       *)
(* BoundedCall; the collector reads only what a BoundedCall can return, so  *)
(* the two are checked side by side instead of as one product.              *)
EXTENDS CommandRunner, Collector

VARIABLE part  \* which of the two takes steps

vars == <<part, runnerVars, collectorVars>>

Call == INSTANCE BoundedCall

Init == part \in {"run", "collect"} /\ RunnerInit /\ CollectorInit

Running(A) == part = "run" /\ A /\ UNCHANGED <<part, collectorVars>>
Collecting(A) == part = "collect" /\ A /\ UNCHANGED <<part, runnerVars>>
Codes == ReadCodes(Call!RunResults)

Next == Running(RunnerNext) \/ Collecting(CollectorNext(Codes))

(* Go's scheduler runs Run, its goroutine and Collect, and the clock runs.  *)
(* Nothing is assumed of the processes, the server or the disk.             *)
Fairness == /\ WF_vars(Running(Timers)) /\ WF_vars(Running(RunSteps))
            /\ WF_vars(Collecting(CollectSteps(Codes)))
Spec == Init /\ [][Next]_vars /\ Fairness

-----------------------------------------------------------------------------
(* ExecRunner.Run returns once, with a result its caller knows, and a       *)
(* result of success holds all the output: it implements BoundedCall.       *)
RunIsBounded == Call!Safety

(* When Run gives up on its deadline, or on a descendant that kept the      *)
(* pipes of a successful leader, no process of the group is left running.   *)
GroupReaped ==
  result.exit \in {124, 125} /\ leader # "none" /\ ~overflow => ~Alive

-----------------------------------------------------------------------------
(* The private snapshot kubectl runs with never mixes two versions of the   *)
(* operator's file, although the file may be rewritten while it is read.    *)
SnapshotNotTorn == Cardinality(snapshot) <= 1

Declared(c) ==
  {BaseQueries[i].name : i \in DOMAIN BaseQueries} \cup {"crd-api-surface.json"}
  \cup (IF opts.pods THEN {"pod-status-images.json"} ELSE {})
Omitted(c) == Range(omissions[c])

(* The component surface of a context names every source it could not use:  *)
(* a workload or cert-manager answer is available or listed as a gap.       *)
GapsNamed ==
  pc = "close" /\ opts.comps =>
    /\ \A i \in DOMAIN BaseQueries :
         BaseQueries[i].workload /\ BaseQueries[i].name \notin files[ctx]
           => BaseQueries[i].name \in compGaps
    /\ certSeen => Range(CertQueries) \subseteq available \cup compGaps

(* A closed context accounts for every surface it declared: each has its    *)
(* file or exactly one omission row, the status says complete only when     *)
(* every surface has its file, and the component surface names its gaps.    *)
NothingSilentlyMissing ==
  /\ GapsNamed
  /\ \A c \in Ctx : status[c] # "none" =>
       /\ Declared(c) \subseteq files[c] \cup Omitted(c)
       /\ files[c] \cap Omitted(c) = {}
       /\ Cardinality(Omitted(c)) = Len(omissions[c])
       /\ status[c] = "complete" <=> Omitted(c) = {}
       /\ manifest[c] = files[c] \ {"MANIFEST.sha256"}

(* The CRD surface that is written is the list of one server version, whole *)
(* and unmixed, however the server paged it.                                *)
ListOfOneVersion ==
  \A c \in Ctx : "crd-api-surface.json" \in files[c] =>
    \E rv \in DOMAIN CRDs : surface[c] = Range(CRDs[rv])

(* What Collect leaves behind. A returned directory is sealed and accounted *)
(* for; a failure leaves no run directory, and no return leaves a copy of   *)
(* the kubeconfig, unless the removal itself failed. A run manifest exists  *)
(* only when every context is closed and the copy is gone, even if the      *)
(* process was killed.                                                      *)
LeavesNothingBehind ==
  /\ returned # None =>
       /\ snapshot = {} \/ unremoved
       /\ returned.dir => runDir /\ "MANIFEST.sha256" \in top
       /\ ~returned.dir => ~runDir \/ unremoved
       /\ returned.exit = 0 => opts.partial \/ ~TotalOmissions
  /\ "MANIFEST.sha256" \in top =>
       snapshot = {} /\ \A c \in Ctx : status[c] # "none"

(* Run returns even if the processes ignore TERM and keep the pipes, and    *)
(* Collect ends whatever kubectl, the server and the disk do, unless the    *)
(* process is killed.                                                       *)
CallsEnd == <>(phase = "returned" \/ pc \in {"done", "dead"})
=============================================================================
