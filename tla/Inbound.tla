------------------------------ MODULE Inbound ------------------------------
(***************************************************************************)
(* How the backend stores what the worker reports: message and receipt     *)
(* events are delivered at least once to handlers that run concurrently,   *)
(* a handler upserts the contact, finds the ticket and upserts the         *)
(* message, each in a transaction of its own, and agents delete rows       *)
(* meanwhile.                                                              *)
(*                                                                         *)
(* A step is a SQL statement or a transaction at its commit.  An error     *)
(* anywhere in a message handler puts the delivery back on the queue.      *)
(* FindOrCreate, whose races are the subject of Tickets, is one step.      *)
(***************************************************************************)
EXTENDS Naturals, FiniteSets

CONSTANTS
  People,     (* who writes to us                                           *)
  Inbox,      (* ids of messages reported by events                         *)
  FromMe,     (* those of them that were sent from our own phone            *)
  Sent,       (* ids of messages that agents send                           *)
  Person,     (* the other end of each message                              *)
  Forms,      (* how WhatsApp addresses a person: see Resolve               *)
  Acks,       (* the acks that receipts report: 2 delivered, 3 read         *)
  ContactIds, (* ids of contact rows, used at most once                     *)
  TicketIds,  (* ids of ticket rows, used at most once                      *)
  Workers,    (* handlers that run at the same time                         *)
  Agents,     (* what agents do: "close", "delete"                          *)
  MaxFaults,  (* bound on crashes, lost connections, errors and deletions   *)
  None

MessageRows == [ticket : TicketIds, contact : ContactIds \cup {None}, ack : {0, 2, 3}]

ASSUME InboundAssumption ==
  /\ FromMe \subseteq Inbox /\ Inbox \cap Sent = {}
  /\ Person \in [Inbox \cup Sent -> People]
  /\ Forms \subseteq {"phone", "both", "lid"}
  /\ Acks \subseteq {2, 3} /\ MaxFaults \in Nat
  /\ None \notin MessageRows
  /\ None \notin People \cup Inbox \cup Sent \cup ContactIds \cup TicketIds

VARIABLES
  addr,      (* the sender's number and LID as each event carries them      *)
  queue,     (* events ready for delivery                                   *)
  gone,      (* events the broker has forgotten: acknowledged               *)
  handler,   (* worker -> program counter and locals                        *)
  contacts,  (* contact rows                                                *)
  tickets,   (* ticket rows                                                 *)
  messages,  (* message rows, None when there is none                       *)
  sent,      (* progress of an agent's send, and the ticket it is for       *)
  removed,   (* history: messages that an agent removed                     *)
  faults     (* crashes, lost connections, errors and deletions so far      *)

rows == <<contacts, tickets, messages>>
vars == <<addr, queue, gone, handler, rows, sent, removed, faults>>

-----------------------------------------------------------------------------
(* resolveContactJID and jidToNumber: an address is a phone number or a     *)
(* LID, with or without the other as its alternative.  Without a phone      *)
(* number the digits of the LID stand in for it.                            *)
Phone(p)    == <<"phone", p>>
LidDigits(p) == <<"lid", p>>
Resolve(p, form) ==
  CASE form = "phone" -> [number |-> Phone(p), lid |-> None]
    [] form = "both"  -> [number |-> Phone(p), lid |-> p]
    [] form = "lid"   -> [number |-> LidDigits(p), lid |-> p]

Numbers  == {Phone(p) : p \in People} \cup {LidDigits(p) : p \in People}
Message(m) == [kind |-> "message", msg |-> m, ack |-> 0]
Receipt(m, a) == [kind |-> "receipt", msg |-> m, ack |-> a]
Ids      == Inbox \cup Sent
Events   == {Message(m) : m \in Inbox} \cup {Receipt(m, a) : m \in FromMe \cup Sent, a \in Acks}

NoContact == [st |-> "unused", number |-> None, lid |-> None]
NoTicket  == [st |-> "unused", contact |-> None]
Idle      == [pc |-> "idle", ev |-> None, valid |-> FALSE, byNumber |-> None,
              byLid |-> None, contact |-> None, ticket |-> None]

RowsOf(p) == {c \in ContactIds : contacts[c].number \in {Phone(p), LidDigits(p)}}
Used(c) == c # None /\ contacts[c].st = "used"
Kept(t) == t # None /\ tickets[t].st \in {"live", "closed"}

Stored == {m \in Ids : messages[m] # None}

(* Two partial unique indexes, on the number and on the LID.                *)
Unique(cs) ==
  \A c, d \in ContactIds :
    c # d /\ cs[c].st = "used" /\ cs[d].st = "used" =>
      /\ cs[c].number # cs[d].number
      /\ cs[c].lid = None \/ cs[c].lid # cs[d].lid

Max2(a, b) == IF a > b THEN a ELSE b

-----------------------------------------------------------------------------
(* Deliveries.                                                              *)

Goto(w, h) == handler' = [handler EXCEPT ![w] = h]

Take(w, e) ==
  /\ handler[w].pc = "idle" /\ e \in queue
  /\ queue' = queue \ {e}
  /\ Goto(w, [Idle EXCEPT !.pc = IF e.kind = "message" THEN "number" ELSE "receipt",
                          !.ev = e, !.valid = TRUE])
  /\ UNCHANGED <<addr, gone, rows, sent, removed, faults>>

(* Mutant: a failed delivery is rejected without being requeued.            *)
NackDropped(w) ==
  /\ gone' = IF handler[w].valid THEN gone \cup {handler[w].ev} ELSE gone
  /\ Goto(w, Idle)
  /\ UNCHANGED queue

(* A handler's error.  The delivery of a lost connection is requeued already. *)
Nack(w) ==
  /\ queue' = IF handler[w].valid THEN queue \cup {handler[w].ev} ELSE queue
  /\ Goto(w, Idle)
  /\ UNCHANGED gone

Ack(w) ==
  /\ handler[w].pc = "ack"
  /\ gone' = IF handler[w].valid THEN gone \cup {handler[w].ev} ELSE gone
  /\ Goto(w, Idle)
  /\ UNCHANGED <<addr, queue, rows, sent, removed, faults>>

-----------------------------------------------------------------------------
(* CreateOrUpdate of the contact: two lookups, then the write of merge.     *)

(* Mutant: an empty LID is looked up, too.                                  *)
FoundByEmpty(column, value) == {c \in ContactIds : Used(c) /\ contacts[c][column] = value}

FoundBy(column, value) ==
  {c \in ContactIds : value # None /\ Used(c) /\ contacts[c][column] = value}
OneOf(S) == IF S = {} THEN None ELSE CHOOSE x \in S : TRUE

FindByNumber(w) ==
  LET h == handler[w] IN
  /\ h.pc = "number"
  /\ Goto(w, [h EXCEPT !.pc = "lid", !.byNumber = OneOf(FoundBy("number", addr[h.ev.msg].number))])
  /\ UNCHANGED <<addr, queue, gone, rows, sent, removed, faults>>

FindByLid(w) ==
  LET h == handler[w] IN
  /\ h.pc = "lid"
  /\ Goto(w, [h EXCEPT !.pc = "contact", !.byLid = OneOf(FoundBy("lid", addr[h.ev.msg].lid))])
  /\ UNCHANGED <<addr, queue, gone, rows, sent, removed, faults>>

(* Commits the contacts when the indexes allow it and goes on with contact  *)
(* c; otherwise the transaction rolls back.  An UPDATE of a row that was    *)
(* deleted meanwhile changes nothing.                                       *)
Commit(w, cs, c) ==
  IF Unique(cs)
    THEN contacts' = cs /\ Goto(w, [handler[w] EXCEPT !.pc = "ticket", !.contact = c])
           /\ UNCHANGED <<queue, gone>>
    ELSE UNCHANGED contacts /\ Nack(w)

SetLid(c, lid) ==
  IF Used(c) /\ lid # None THEN [contacts EXCEPT ![c].lid = lid] ELSE contacts
SetNumber(c, number) ==
  IF Used(c) THEN [contacts EXCEPT ![c].number = number] ELSE contacts

InsertNew(w, req) ==
  /\ IF FoundBy("number", req.number) \cup FoundBy("lid", req.lid) # {}
       THEN UNCHANGED contacts /\ Nack(w)
       ELSE \E c \in ContactIds :
              /\ contacts[c].st = "unused"
              /\ Commit(w, [contacts EXCEPT ![c] =
                             [st |-> "used", number |-> req.number, lid |-> req.lid]], c)
  /\ UNCHANGED <<tickets, messages>>

(* The row found by LID gives its tickets and messages to the one found by  *)
(* number, which takes the LID before the other is deleted.                 *)
ReassignAndDestroy(w, req) ==
  LET keep == handler[w].byNumber
      old  == handler[w].byLid
      cs   == SetLid(keep, req.lid)
      moved == \/ \E t \in TicketIds : tickets[t].contact = old
               \/ \E m \in Stored : messages[m].contact = old
  IN IF Unique(cs) /\ (moved => Used(keep))
       THEN /\ contacts' = [cs EXCEPT ![old] = [NoContact EXCEPT !.st = "deleted"]]
            /\ tickets' = [t \in TicketIds |->
                 IF tickets[t].contact = old THEN [tickets[t] EXCEPT !.contact = keep] ELSE tickets[t]]
            /\ messages' = [m \in Ids |->
                 IF m \in Stored /\ messages[m].contact = old
                   THEN [messages[m] EXCEPT !.contact = keep] ELSE messages[m]]
            /\ Goto(w, [handler[w] EXCEPT !.pc = "ticket", !.contact = keep])
            /\ UNCHANGED <<queue, gone>>
       ELSE UNCHANGED rows /\ Nack(w)

WriteContact(w) ==
  LET h   == handler[w]
      req == addr[h.ev.msg]
  IN /\ h.pc = "contact"
     /\ IF h.byNumber = None /\ h.byLid = None THEN InsertNew(w, req)
        ELSE IF h.byNumber = h.byLid
          THEN Commit(w, contacts, h.byNumber) /\ UNCHANGED <<tickets, messages>>
        ELSE IF h.byNumber # None /\ h.byLid # None THEN ReassignAndDestroy(w, req)
        ELSE IF h.byNumber # None
          THEN Commit(w, SetLid(h.byNumber, req.lid), h.byNumber) /\ UNCHANGED <<tickets, messages>>
        ELSE Commit(w, SetNumber(h.byLid, req.number), h.byLid) /\ UNCHANGED <<tickets, messages>>
     /\ UNCHANGED <<addr, sent, removed, faults>>

-----------------------------------------------------------------------------
(* FindOrCreate, the upsert of the message, and the last-message column.    *)

TicketsOf(c, st) == {t \in TicketIds : tickets[t].contact = c /\ tickets[t].st = st}

(* A live ticket, else a closed one that is recent, else a new one.  The    *)
(* foreign key refuses a ticket of a contact that was deleted.              *)
FindOrCreate(w) ==
  LET h == handler[w]
      live == TicketsOf(h.contact, "live")
      Use(t) == Goto(w, [h EXCEPT !.pc = "create", !.ticket = t]) /\ UNCHANGED <<queue, gone>>
  IN /\ h.pc = "ticket"
     /\ \/ ~Used(h.contact) /\ Nack(w) /\ UNCHANGED tickets
        \/ Used(h.contact) /\ (\E t \in live : Use(t)) /\ UNCHANGED tickets
        \/ /\ Used(h.contact) /\ live = {}
           /\ \E t \in TicketIds :
                /\ t \in TicketsOf(h.contact, "closed") \/ tickets[t].st = "unused"
                /\ tickets' = [tickets EXCEPT ![t] = [st |-> "live", contact |-> h.contact]]
                /\ Use(t)
     /\ UNCHANGED <<addr, contacts, messages, sent, removed, faults>>

(* Mutant: the conflicting row takes the new ack.                           *)
UpsertPlain(m, t, c) ==
  IF messages[m] # None THEN [messages EXCEPT ![m].ack = 0]
  ELSE [messages EXCEPT ![m] = [ticket |-> t, contact |-> c, ack |-> 0]]

(* INSERT ... ON CONFLICT (id): ticket and contact stay, the ack never goes *)
(* down.                                                                    *)
Upsert(m, t, c) ==
  IF messages[m] # None THEN [messages EXCEPT ![m].ack = Max2(@, 0)]
  ELSE [messages EXCEPT ![m] = [ticket |-> t, contact |-> c, ack |-> 0]]

(* Mutant: the table of messages has no foreign keys.                       *)
MayInsertAny(m, t, c) == TRUE

(* The foreign keys of a row to insert.                                     *)
MayInsert(m, t, c) == messages[m] # None \/ (Kept(t) /\ (c = None \/ Used(c)))

Create(w) ==
  LET h == handler[w]
      m == h.ev.msg
      c == IF m \in FromMe THEN None ELSE h.contact
  IN /\ h.pc = "create"
     /\ IF MayInsert(m, h.ticket, c)
          THEN /\ messages' = Upsert(m, h.ticket, c)
               /\ Goto(w, [h EXCEPT !.pc = "last"])
               /\ UNCHANGED <<queue, gone>>
          ELSE UNCHANGED messages /\ Nack(w)
     /\ UNCHANGED <<addr, contacts, tickets, sent, removed, faults>>

(* What follows the upsert in Create: the row is read back, and its ticket   *)
(* gets the text.  Either may be deleted by then.                           *)
LastMessage(w) ==
  LET h == handler[w] IN
  /\ h.pc = "last"
  /\ IF h.ev.msg \in Stored /\ Kept(h.ticket)
       THEN Goto(w, [h EXCEPT !.pc = "ack"]) /\ UNCHANGED <<queue, gone>>
       ELSE Nack(w)
  /\ UNCHANGED <<addr, rows, sent, removed, faults>>

(* Mutant: the acks of a message add up.                                    *)
UpdateAckAdded(w) ==
  LET h == handler[w]
      m == h.ev.msg
  IN /\ h.pc = "receipt"
     /\ messages' = IF messages[m] = None THEN messages ELSE [messages EXCEPT ![m].ack = @ + h.ev.ack]
     /\ Goto(w, [h EXCEPT !.pc = "ack"])
     /\ UNCHANGED <<addr, queue, gone, contacts, tickets, sent, removed, faults>>

(* updateAckWithRetry: up to four attempts, then the receipt is dropped.    *)
UpdateAck(w) ==
  LET h == handler[w]
      m == h.ev.msg
  IN /\ h.pc = "receipt"
     /\ messages' = IF messages[m] = None THEN messages ELSE [messages EXCEPT ![m].ack = h.ev.ack]
     /\ Goto(w, [h EXCEPT !.pc = "ack"])
     /\ UNCHANGED <<addr, queue, gone, contacts, tickets, sent, removed, faults>>

-----------------------------------------------------------------------------
(* An agent sends: the RPC to the worker, then the same upsert.  Receipts   *)
(* may arrive as soon as the message is out.                                *)

SendRpc(m, t) ==
  /\ sent[m].pc = "no" /\ Kept(t) /\ tickets[t].contact \in RowsOf(Person[m])
  /\ sent' = [sent EXCEPT ![m] = [pc |-> "out", ticket |-> t, contact |-> tickets[t].contact]]
  /\ queue' = queue \cup {Receipt(m, a) : a \in Acks}
  /\ UNCHANGED <<addr, gone, handler, rows, removed, faults>>

SendRecord(m) ==
  /\ sent[m].pc = "out"
  /\ sent' = [sent EXCEPT ![m].pc = "done"]
  /\ messages' = IF MayInsert(m, sent[m].ticket, sent[m].contact)
                   THEN Upsert(m, sent[m].ticket, sent[m].contact) ELSE messages
  /\ UNCHANGED <<addr, queue, gone, handler, contacts, tickets, removed, faults>>

-----------------------------------------------------------------------------
(* Agents, with the cascades of the schema.                                 *)

Fault == faults < MaxFaults /\ faults' = faults + 1

CloseTicket(t) ==
  /\ "close" \in Agents /\ tickets[t].st = "live"
  /\ tickets' = [tickets EXCEPT ![t].st = "closed"]
  /\ UNCHANGED <<addr, queue, gone, handler, contacts, messages, sent, removed, faults>>

RemoveMessages(S) ==
  /\ messages' = [m \in Ids |-> IF m \in S THEN None ELSE messages[m]]
  /\ removed' = removed \cup S

DeleteMessage(m) ==
  /\ "delete" \in Agents /\ m \in Stored /\ Fault
  /\ RemoveMessages({m})
  /\ UNCHANGED <<addr, queue, gone, handler, contacts, tickets, sent>>

DeleteTicket(t) ==
  /\ "delete" \in Agents /\ Kept(t) /\ Fault
  /\ tickets' = [tickets EXCEPT ![t] = [st |-> "deleted", contact |-> None]]
  /\ RemoveMessages({m \in Stored : messages[m].ticket = t})
  /\ UNCHANGED <<addr, queue, gone, handler, contacts, sent>>

DeleteContact(c) ==
  /\ "delete" \in Agents /\ Used(c) /\ Fault
  /\ contacts' = [contacts EXCEPT ![c] = [NoContact EXCEPT !.st = "deleted"]]
  /\ tickets' = [t \in TicketIds |-> IF tickets[t].contact = c
                   THEN [st |-> "deleted", contact |-> None] ELSE tickets[t]]
  /\ RemoveMessages({m \in Stored : messages[m].contact = c \/ tickets[messages[m].ticket].contact = c})
  /\ UNCHANGED <<addr, queue, gone, handler, sent>>

-----------------------------------------------------------------------------
(* Faults.                                                                  *)

Unacked == {handler[w].ev : w \in {v \in Workers : handler[v].valid}}

(* A receipt whose four attempts all fail is acknowledged without effect.   *)
DbError(w) ==
  /\ Fault
  /\ \/ handler[w].pc \in {"number", "lid", "contact", "ticket", "create", "last"} /\ Nack(w)
     \/ /\ handler[w].pc = "receipt" /\ Goto(w, [handler[w] EXCEPT !.pc = "ack"])
        /\ UNCHANGED <<queue, gone>>
  /\ UNCHANGED <<addr, rows, sent, removed>>

(* The connection to the broker is lost: everything unacknowledged comes    *)
(* back, and the handlers go on with deliveries they cannot acknowledge.    *)
ConnectionLost ==
  /\ Fault /\ Unacked # {}
  /\ queue' = queue \cup Unacked
  /\ handler' = [w \in Workers |-> [handler[w] EXCEPT !.valid = FALSE]]
  /\ UNCHANGED <<addr, gone, rows, sent, removed>>

Crash ==
  /\ Fault
  /\ queue' = queue \cup Unacked
  /\ handler' = [w \in Workers |-> Idle]
  /\ sent' = [m \in Sent |-> IF sent[m].pc = "out" THEN [sent[m] EXCEPT !.pc = "done"] ELSE sent[m]]
  /\ UNCHANGED <<addr, gone, rows, removed>>

-----------------------------------------------------------------------------
Init ==
  /\ addr \in [Inbox -> UNION {{Resolve(p, f) : f \in Forms} : p \in People}]
  /\ \A m \in Inbox : \E f \in Forms : addr[m] = Resolve(Person[m], f)
  /\ queue = {Message(m) : m \in Inbox} \cup {Receipt(m, a) : m \in FromMe, a \in Acks}
  /\ gone = {}
  /\ handler = [w \in Workers |-> Idle]
  /\ contacts = [c \in ContactIds |-> NoContact]
  /\ tickets = [t \in TicketIds |-> NoTicket]
  /\ messages = [m \in Ids |-> None]
  /\ sent = [m \in Sent |-> [pc |-> "no", ticket |-> None, contact |-> None]]
  /\ removed = {} /\ faults = 0

Handle(w) ==
  \/ FindByNumber(w) \/ FindByLid(w) \/ WriteContact(w) \/ FindOrCreate(w)
  \/ Create(w) \/ LastMessage(w) \/ UpdateAck(w) \/ Ack(w)

Next ==
  \/ \E w \in Workers : Handle(w) \/ DbError(w) \/ \E e \in Events : Take(w, e)
  \/ \E m \in Sent : SendRecord(m) \/ \E t \in TicketIds : SendRpc(m, t)
  \/ \E t \in TicketIds : CloseTicket(t) \/ DeleteTicket(t)
  \/ \E m \in Ids : DeleteMessage(m)
  \/ \E c \in ContactIds : DeleteContact(c)
  \/ ConnectionLost \/ Crash

Spec == Init /\ [][Next]_vars

(* The broker delivers every ready event in turn; a handler that runs ends. *)
FairSpec ==
  /\ Spec
  /\ \A w \in Workers : WF_vars(Handle(w))
  /\ \A e \in Events : SF_vars(\E w \in Workers : Take(w, e))

-----------------------------------------------------------------------------
TypeOK ==
  /\ addr \in [Inbox -> [number : Numbers, lid : People \cup {None}]]
  /\ queue \subseteq Events /\ gone \subseteq Events
  /\ handler \in [Workers ->
       [pc : {"idle", "number", "lid", "contact", "ticket", "create", "last", "receipt", "ack"},
        ev : Events \cup {None}, valid : BOOLEAN,
        byNumber : ContactIds \cup {None}, byLid : ContactIds \cup {None},
        contact : ContactIds \cup {None}, ticket : TicketIds \cup {None}]]
  /\ contacts \in [ContactIds -> [st : {"unused", "used", "deleted"},
                                  number : Numbers \cup {None}, lid : People \cup {None}]]
  /\ tickets \in [TicketIds -> [st : {"unused", "live", "closed", "deleted"},
                                contact : ContactIds \cup {None}]]
  /\ messages \in [Ids -> MessageRows \cup {None}]
  /\ sent \in [Sent -> [pc : {"no", "out", "done"}, ticket : TicketIds \cup {None},
                        contact : ContactIds \cup {None}]]
  /\ removed \subseteq Ids /\ faults \in 0..MaxFaults

(* An acknowledged message is stored, unless an agent removed it: no crash, *)
(* redelivery, failed step or deletion in between loses one.                *)
NothingLost == \A m \in Inbox : Message(m) \in gone => m \in Stored \cup removed

(* A stored message is in a ticket of the person it was exchanged with,     *)
(* whatever rows are inserted, relabelled, merged or deleted concurrently.  *)
RightChat ==
  \A m \in Stored :
    LET c == tickets[messages[m].ticket].contact
    IN /\ Kept(messages[m].ticket) /\ Used(c) /\ c \in RowsOf(Person[m])
       /\ messages[m].contact \in {None, c}

(* The history of a person is what is in the tickets of his contact rows:   *)
(* the state of ChatHistory.                                                *)
InTicketOf(m, p) ==
  LET t == messages[m].ticket IN Kept(t) /\ tickets[t].contact \in RowsOf(p)
History == INSTANCE ChatHistory
             WITH history <- [p \in People |-> {m \in Stored : InTicketOf(m, p)}],
                  settled <- {m \in Inbox : Message(m) \in gone},
                  taken   <- removed

(* All of Inbound implements ChatHistory: whatever is delivered twice,      *)
(* relabelled, merged, deleted or lost on the way, a message only enters    *)
(* the history of its person, leaves it only by the hand of an agent, and   *)
(* is acknowledged only once it was in it.                                  *)
HistoryImplemented == History!Spec

(* Storing a message again, after a redelivery, does not take back an ack.  *)
UpsertKeepsAck ==
  [][\A w \in Workers : handler[w].pc = "create" /\ handler'[w].pc = "last" =>
       LET m == handler[w].ev.msg IN m \in Stored => messages'[m].ack >= messages[m].ack]_vars

(* README: every message received ends up in a ticket.                      *)
EveryMessageStored == \A m \in Inbox : <>(m \in Stored \cup removed)

(* The comment of a test, "expected ack to remain 2 (not downgrade)".       *)
AckNeverLowered ==
  [][\A m \in Ids : m \in Stored /\ m \in Stored' => messages'[m].ack >= messages[m].ack]_vars
=============================================================================
