------------------------- MODULE ConversationSlots -------------------------
(***************************************************************************)
(* What FindOrCreate promises its callers, without requests, locks or SQL: *)
(* each conversation has one slot for the ticket that inbound messages     *)
(* opened.  The slot is filled only when it is empty, and a ticket never   *)
(* moves to another conversation.                                          *)
(***************************************************************************)
CONSTANTS TicketIds, Convs, Null

VARIABLES slot,  (* conversation -> its ticket claimed by an inbound message *)
          home   (* ticket -> its conversation, once there is one            *)

Init ==
  /\ slot = [c \in Convs |-> Null]
  /\ home = [t \in TicketIds |-> Null]

Fill(c, t) ==
  /\ slot[c] = Null
  /\ home[t] \in {Null, c}
  /\ slot' = [slot EXCEPT ![c] = t]
  /\ home' = [home EXCEPT ![t] = c]

(* An agent closes or deletes the ticket.                                   *)
Free(c) ==
  /\ slot[c] # Null
  /\ slot' = [slot EXCEPT ![c] = Null]
  /\ UNCHANGED home

(* An agent opens a ticket of his own.                                      *)
Settle(c, t) ==
  /\ home[t] = Null
  /\ home' = [home EXCEPT ![t] = c]
  /\ UNCHANGED slot

Next == \E c \in Convs : Free(c) \/ \E t \in TicketIds : Fill(c, t) \/ Settle(c, t)

Spec == Init /\ [][Next]_<<slot, home>>
=============================================================================
