------------------------------ MODULE MCChecks ------------------------------
(***************************************************************************)
(* The pure computations, each on its bounded inputs: the collector's      *)
(* projections, the version ranges and the constraint engine, the          *)
(* preparation adapters, the reduction of an observation to a bundle, and  *)
(* the verdicts and exit codes of the checks.                              *)
(***************************************************************************)
EXTENDS CollectorSurfaces, ConstraintCases, PrepareCases, Verdicts

\* Two adjacent releases on each of two lines, and the line after them.
MCEdge == {<<0, 1, 0>>, <<0, 1, 1>>, <<0, 2, 0>>, <<0, 2, 1>>, <<0, 3, 0>>}

MCRegistry == (1 :> [component |-> 1, type |-> "bool", tokens |-> {}])
              @@ (2 :> [component |-> 2, type |-> "enum", tokens |-> {"a", "b"}])

\* One adapter of each sort: with an identity binding, with the flags of one
\* role, and with a flag whose presence is all that counts.
Bound(v, d) == [version |-> v, pinned |-> TRUE, digests |-> {d}, agentDefaultOff |-> TRUE]
RuleOf(a, b, kind, flag) == [id |-> <<a, b>>, kind |-> kind, flag |-> flag, gate |-> "", allowed |-> {}]
MCAdapters ==
  [prometheus |-> [ids |-> {"prom"}, kinds |-> {"Deployment", "StatefulSet"}, role |-> "server",
     rules |-> {RuleOf("agent", "mode", "agentMode", ""), RuleOf("image", "digest", "digest", "")}, entry |-> TRUE,
     bindings |-> {Bound("3.1.0", "d3"), Bound("2.55.1", "d2")}],
   argocd |-> [ids |-> {"argocd"}, kinds |-> {"Deployment"}, role |-> "",
     rules |-> {RuleOf("argo", "insecure", "boolean", "--insecure"), RuleOf("argo", "gate", "featureGate", "--gate")},
     entry |-> FALSE, bindings |-> {}]]
  @@ ("cert-manager" :> [ids |-> {"cert-manager"}, kinds |-> {"Deployment"}, role |-> "",
        rules |-> {RuleOf("cm", "owner", "presence", "--owner")}, entry |-> FALSE, bindings |-> {}])

Next == SurfaceSteps \/ ConstraintSteps \/ PrepareSteps \/ ObservationSteps \/ VerdictSteps
Spec == CaseInit /\ [][Next]_caseVars
=============================================================================
