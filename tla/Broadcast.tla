----------------------------- MODULE Broadcast -----------------------------
(***************************************************************************)
(* What the hub promises its subscribers.  A publication is owed to        *)
(* whoever is subscribed when it is made; each of them receives it once,   *)
(* or is cut off: nobody else gets it, nobody gets it twice, and nobody    *)
(* who stays misses it.                                                    *)
(***************************************************************************)
CONSTANTS Clients, Pubs

VARIABLES
  posted,    (* publications that were made                                *)
  owed,      (* publication -> clients that have yet to receive it         *)
  received,  (* client -> publications that came to the peer               *)
  cut        (* clients that are being disconnected                        *)

mail == <<posted, owed, received, cut>>

Init ==
  /\ posted = {} /\ owed = [p \in Pubs |-> {}]
  /\ received = [c \in Clients |-> {}] /\ cut = {}

Post(p, S) ==
  /\ p \notin posted /\ posted' = posted \cup {p}
  /\ owed' = [owed EXCEPT ![p] = S]
  /\ UNCHANGED <<received, cut>>

Receive(c, p) ==
  /\ c \in owed[p]
  /\ owed' = [owed EXCEPT ![p] = @ \ {c}]
  /\ received' = [received EXCEPT ![c] = @ \cup {p}]
  /\ UNCHANGED <<posted, cut>>

CutOff(c) ==
  /\ cut' = cut \cup {c}
  /\ UNCHANGED <<posted, owed, received>>

(* A client that does not keep up, or goes, loses what it had not queued.  *)
Lose(c, p) ==
  /\ c \in owed[p] /\ cut' = cut \cup {c}
  /\ owed' = [owed EXCEPT ![p] = @ \ {c}]
  /\ UNCHANGED <<posted, received>>

Next ==
  \/ \E p \in Pubs, S \in SUBSET Clients : Post(p, S)
  \/ \E c \in Clients, p \in Pubs : Receive(c, p) \/ Lose(c, p)
  \/ \E c \in Clients : CutOff(c)

Spec == Init /\ [][Next]_mail
=============================================================================
