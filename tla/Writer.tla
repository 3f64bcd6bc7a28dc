------------------------------- MODULE Writer -------------------------------
(***************************************************************************)
(* What the writers of output files share: one process that writes, system *)
(* calls that may fail, another process of the same user that may change   *)
(* the directory between two calls, and a kill at any point.               *)
(***************************************************************************)
EXTENDS Naturals

CONSTANTS MaxFaults,  \* system calls that may fail in one behaviour
          MaxEdits    \* changes the other process may make

ASSUME WriterAssumption == MaxFaults \in Nat /\ MaxEdits \in Nat

VARIABLES pc,      \* the next system call of the writer
          result,  \* what the call returned to its caller
          faults,  \* failures so far
          edits    \* changes by the other process so far

writerVars == <<pc, result, faults, edits>>

WriterInit(start) == /\ pc = start /\ result = "none"
                     /\ faults = 0 /\ edits = 0

Go(next) == pc' = next /\ UNCHANGED <<result, edits>>
Return(r) == pc' = "done" /\ result' = r /\ UNCHANGED edits
Works == UNCHANGED faults
Fails == faults < MaxFaults /\ faults' = faults + 1
Edit == pc \notin {"done", "dead"} /\ edits < MaxEdits /\ edits' = edits + 1
        /\ UNCHANGED <<pc, result, faults>>
Kill == pc \notin {"done", "dead"} /\ pc' = "dead" /\ UNCHANGED <<result, faults, edits>>
=============================================================================
