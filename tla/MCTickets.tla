----------------------------- MODULE MCTickets -----------------------------
(* Model values and bounds for TLC. *)
EXTENDS Tickets, TLC

CONSTANTS u1, a1, q1

MCUserQueues == [u \in Users |-> IF u = u1 THEN {q1} ELSE {}]
NoUserQueues == [u \in Users |-> {}]
Symmetry == Permutations(TicketIds) \cup Permutations(Procs) \cup Permutations(Convs)
=============================================================================
