---------------------------- MODULE CommandRunner ---------------------------
(***************************************************************************)
(* ExecRunner.Run of internal/localcollector: one bounded kubectl call.    *)
(*                                                                         *)
(* Run starts a leader in a process group of its own; the leader may start *)
(* a descendant that keeps the output pipes open (attached) or closes them *)
(* (detached). A goroutine waits for the leader and the pipes and puts one *)
(* value in a channel; Run takes that value or the end of its context,     *)
(* whichever it sees first. Signals TERM may be ignored, KILL may not.     *)
(* Timers are actions that may happen at any later moment.                 *)
(***************************************************************************)
EXTENDS Naturals

CONSTANTS
  Limit,      \* maxKubectlOutput, in chunks
  MaxWritten  \* bound: chunks the processes write

ASSUME LimitAssumption == Limit \in Nat /\ MaxWritten \in Nat

VARIABLES
  phase,     \* where Run is: start, select, grace, drain, returned
  leader,    \* none, running, ok (exit 0), failed (any other end)
  child,     \* the descendant: none, attached, detached, dead
  expired,   \* the context has ended
  waited,    \* the channel: empty, or what cmd.Wait returned, or taken
  written,   \* chunks written to stdout while somebody read the pipe
  buffered,  \* chunks kept by the cappedBuffer
  overflow,  \* its overflow flag
  result     \* what Run returned

runnerVars == <<phase, leader, child, expired, waited, written, buffered,
                overflow, result>>
group == <<leader, child>>
buffer == <<written, buffered, overflow>>

Pending == [exit |-> 0, err |-> TRUE, whole |-> FALSE]
Returns(exit, err, whole) == [exit |-> exit, err |-> err, whole |-> whole]

Alive == leader = "running" \/ child \in {"attached", "detached"}
Writers == leader = "running" \/ child = "attached"
Smaller(a, b) == IF a < b THEN a ELSE b

RunnerInit ==
  /\ phase = "start" /\ leader = "none" /\ child = "none"
  /\ expired = FALSE
  /\ waited = "empty" /\ written = 0 /\ buffered = 0
  /\ overflow = FALSE
  /\ result = Pending

-----------------------------------------------------------------------------
(* The processes *)

\* cappedBuffer.Write, called by the copying goroutine with n chunks.
Write(n) ==
  /\ Writers /\ waited = "empty" /\ written + n <= MaxWritten
  /\ written' = written + n
  /\ buffered' = Smaller(buffered + n, Limit)
  /\ overflow' = (overflow \/ n > Limit - buffered)
  /\ UNCHANGED <<phase, leader, child, expired, waited, result>>

\* A write after the wait delay closed the pipes reaches nobody.
WriteUnread ==
  /\ Writers /\ waited # "empty" /\ written < MaxWritten
  /\ written' = written + 1
  /\ UNCHANGED <<phase, leader, child, expired, waited, buffered, overflow,
                 result>>

Spawn(kind) ==
  /\ leader = "running" /\ child = "none"
  /\ child' = kind
  /\ UNCHANGED <<phase, leader, expired, waited, buffer, result>>

LeaderExits(how) ==
  /\ leader = "running" /\ leader' = how
  /\ UNCHANGED <<phase, child, expired, waited, buffer, result>>

ChildExits ==
  /\ child \in {"attached", "detached"} /\ child' = "dead"
  /\ UNCHANGED <<phase, leader, expired, waited, buffer, result>>

-----------------------------------------------------------------------------
(* cmd.Wait in its goroutine. A failed exit hides ErrWaitDelay. *)

WaitReturns ==
  /\ waited = "empty" /\ leader \in {"ok", "failed"} /\ child # "attached"
  /\ waited' = (IF leader = "ok" THEN "nil" ELSE "exit")
  /\ UNCHANGED <<phase, group, expired, buffer, result>>

WaitDelayEnds ==
  /\ waited = "empty" /\ leader \in {"ok", "failed"} /\ child = "attached"
  /\ waited' = (IF leader = "ok" THEN "delay" ELSE "exit")
  /\ UNCHANGED <<phase, group, expired, buffer, result>>

-----------------------------------------------------------------------------
(* Run *)

StartFails ==
  /\ phase = "start"
  /\ phase' = "returned" /\ result' = Returns(125, TRUE, FALSE)
  /\ UNCHANGED <<group, expired, waited, buffer>>

Start ==
  /\ phase = "start"
  /\ phase' = "select" /\ leader' = "running"
  /\ UNCHANGED <<child, expired, waited, buffer, result>>

Expire ==
  /\ phase \in {"start", "select"} /\ ~expired /\ expired' = TRUE
  /\ UNCHANGED <<phase, group, waited, buffer, result>>

KillProcessGroup ==
  /\ leader' = (IF leader = "running" THEN "failed" ELSE leader)
  /\ child' = (IF child = "none" THEN "none" ELSE "dead")

\* The result after the channel delivered. whole: the buffer holds everything
\* that was written. As a mutant, a wait that ended by its delay is a success.
OutcomeIgnoringDelay ==
  IF overflow THEN Returns(125, TRUE, FALSE)
  ELSE Returns(IF waited = "exit" THEN 1 ELSE 0, FALSE, buffered = written)
Outcome ==
  IF overflow \/ waited = "delay"
  THEN Returns(125, TRUE, FALSE)
  ELSE Returns(IF waited = "nil" THEN 0 ELSE 1, FALSE, buffered = written)

TakeDone ==
  /\ phase = "select" /\ waited # "empty"
  /\ IF waited = "delay" THEN KillProcessGroup ELSE UNCHANGED group
  /\ result' = Outcome
  /\ phase' = "returned" /\ waited' = "taken"
  /\ UNCHANGED <<expired, buffer>>

\* terminateProcessGroup: the processes may ignore TERM.
TakeExpired ==
  /\ phase = "select" /\ expired
  /\ phase' = "grace"
  /\ UNCHANGED <<group, expired, waited, buffer, result>>

TimedOut == phase' = "returned" /\ result' = Returns(124, TRUE, FALSE)

\* As a mutant, a leader that exits on TERM is taken for the whole group.
GraceTrusting ==
  /\ phase = "grace" /\ waited # "empty"
  /\ TimedOut /\ waited' = "taken"
  /\ UNCHANGED <<group, expired, buffer>>
GraceDone ==
  /\ phase = "grace" /\ waited # "empty"
  /\ KillProcessGroup /\ TimedOut /\ waited' = "taken"
  /\ UNCHANGED <<expired, buffer>>

\* As a mutant, the grace period ends only when the wait has returned.
GraceWithoutTimer ==
  /\ phase = "grace" /\ waited # "empty"
  /\ KillProcessGroup /\ phase' = "drain"
  /\ UNCHANGED <<expired, waited, buffer, result>>
GraceEnds ==
  /\ phase = "grace"
  /\ KillProcessGroup /\ phase' = "drain"
  /\ UNCHANGED <<expired, waited, buffer, result>>

DrainDone ==
  /\ phase = "drain" /\ waited # "empty"
  /\ TimedOut /\ waited' = "taken"
  /\ UNCHANGED <<group, expired, buffer>>

DrainEnds ==
  /\ phase = "drain" /\ TimedOut
  /\ UNCHANGED <<group, expired, waited, buffer>>

Timers == WaitDelayEnds \/ Expire \/ GraceEnds \/ DrainEnds
RunSteps == StartFails \/ Start \/ WaitReturns \/ TakeDone \/ TakeExpired
            \/ GraceDone \/ DrainDone

RunnerNext ==
  \/ \E n \in 1..2 : Write(n)
  \/ WriteUnread
  \/ \E kind \in {"attached", "detached"} : Spawn(kind)
  \/ \E how \in {"ok", "failed"} : LeaderExits(how)
  \/ ChildExits
  \/ Timers
  \/ RunSteps
=============================================================================
