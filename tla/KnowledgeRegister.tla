------------------------- MODULE KnowledgeRegister -------------------------
(***************************************************************************)
(* What the knowledge store promises its readers, without files, journals, *)
(* roles or processes: a register that offers one revision or nothing. An  *)
(* import takes the offer away, may raise the floor while nothing is on    *)
(* offer, and in the end offers exactly the revision at the floor. Readers *)
(* are served only what is on offer.                                       *)
(***************************************************************************)
EXTENDS Integers

CONSTANTS None,       \* nothing
          Revisions   \* records [rev, bundle]

VARIABLES current,  \* the revision on offer, or None
          high,     \* the highest revision ever admitted, or None
          served    \* the revision the latest reader was given

rvars == <<current, high, served>>

Above(new, old) ==
  /\ new \in Revisions
  /\ old # None => new.rev > old.rev

RInit == current = None /\ high = None /\ served = None

Withdraw == current' = None /\ UNCHANGED <<high, served>>

Raise ==
  /\ current = None /\ current' = None
  /\ \E r \in Revisions : Above(r, high) /\ high' = r
  /\ UNCHANGED served

Offer ==
  /\ current = None /\ high # None
  /\ current' = high
  /\ UNCHANGED <<high, served>>

Serve ==
  /\ current # None
  /\ served' = current
  /\ UNCHANGED <<current, high>>

RNext == Withdraw \/ Raise \/ Offer \/ Serve

RSpec == RInit /\ [][RNext]_rvars
=============================================================================
