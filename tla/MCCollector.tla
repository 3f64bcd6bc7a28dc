----------------------------- MODULE MCCollector ----------------------------
(* Two base queries, one cert-manager query, and a server whose CRD list    *)
(* changes entirely between versions: the second has the length of the      *)
(* first, the third is one too long.                                        *)
EXTENDS CollectorSystem

MCBaseQueries == <<[name |-> "deployment-images.json", workload |-> TRUE],
                   [name |-> "server-version.json", workload |-> FALSE]>>
MCCertQueries == <<"cert-manager-health.json">>
MCCRDs == <<<<"a", "b", "c">>, <<"d", "e", "f">>, <<"g", "h", "i", "j">>>>
=============================================================================
