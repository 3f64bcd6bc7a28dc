-------------------------------- MODULE Cases --------------------------------
(***************************************************************************)
(* How the pure computations of the program are checked: one step applies  *)
(* one computation to one bounded input, and the properties relate the     *)
(* input to the output.  op names the computation.                         *)
(***************************************************************************)
VARIABLES op, input, output

caseVars == <<op, input, output>>
CaseInit == op = "start" /\ input = "" /\ output = ""
Case(name, in, out) == op' = name /\ input' = in /\ output' = out
=============================================================================
