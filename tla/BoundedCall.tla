----------------------------- MODULE BoundedCall ----------------------------
(* What the collector relies on when it runs kubectl once: the call returns *)
(* at most once, with one of a few kinds of result, and a successful one    *)
(* holds everything the command wrote.                                      *)
EXTENDS Naturals

VARIABLE result  \* Pending, or what Run returned

Pending == [exit |-> 0, err |-> TRUE, whole |-> FALSE]

(* exit 0 and no error: the command succeeded and its output is whole. Any  *)
(* other exit is the command's own failure (1 stands for every such code),  *)
(* the deadline (124) or the runner's own failure (125).                    *)
RunResults ==
  {[exit |-> 0, err |-> FALSE, whole |-> TRUE],
   [exit |-> 1, err |-> FALSE, whole |-> TRUE],
   [exit |-> 1, err |-> FALSE, whole |-> FALSE],
   [exit |-> 124, err |-> TRUE, whole |-> FALSE],
   [exit |-> 125, err |-> TRUE, whole |-> FALSE]}

Init == result = Pending
Return == result = Pending /\ result' \in RunResults
Safety == Init /\ [][Return]_result
=============================================================================
