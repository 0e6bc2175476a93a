---------------------------- MODULE ChatHistory ----------------------------
(***************************************************************************)
(* What the inbox promises the agents, without handlers, rows or queues:   *)
(* each person has one history.  A message enters the history of the       *)
(* person it was exchanged with, stays there until an agent removes it,    *)
(* and an event is forgotten only when its message got there.              *)
(***************************************************************************)
CONSTANTS People, Ids, Person

VARIABLES history,  (* person -> messages in the tickets of that person     *)
          settled,  (* messages whose event will not be delivered again     *)
          taken     (* messages that an agent has removed                   *)

Init ==
  /\ history = [p \in People |-> {}]
  /\ settled = {} /\ taken = {}

File(m) ==
  /\ m \notin history[Person[m]]
  /\ history' = [history EXCEPT ![Person[m]] = @ \cup {m}]
  /\ UNCHANGED <<settled, taken>>

(* A message, a ticket with its messages, or a person's contact goes.       *)
Remove(S) ==
  /\ \A m \in S : m \in history[Person[m]]
  /\ history' = [p \in People |-> history[p] \ S]
  /\ taken' = taken \cup S
  /\ UNCHANGED settled

Settle(m) ==
  /\ m \in history[Person[m]] \cup taken
  /\ settled' = settled \cup {m}
  /\ UNCHANGED <<history, taken>>

Next == (\E m \in Ids : File(m) \/ Settle(m)) \/ \E S \in SUBSET Ids : Remove(S)

Spec == Init /\ [][Next]_<<history, settled, taken>>
=============================================================================
