----------------------------- MODULE MCInbound -----------------------------
(* Model values and bounds for TLC. *)
EXTENDS Inbound, TLC

CONSTANTS p1, p2, m1, m2, m3

MCPerson == [m \in Inbox \cup Sent |-> IF m = m3 /\ p2 \in People THEN p2 ELSE p1]
MCEmpty == {}
Symmetry == Permutations(ContactIds) \cup Permutations(TicketIds) \cup Permutations(Workers)
=============================================================================
