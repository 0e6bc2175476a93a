------------------------- MODULE InboundChatProofs -------------------------
(***************************************************************************)
(* That a stored message is in a ticket of its person, for any number of   *)
(* people, messages, rows and concurrent handlers.  Rows are relabelled,   *)
(* merged and deleted between the steps of a handler, so the argument is   *)
(* about what a row found earlier can have become.  It is also what the    *)
(* refinement of ChatHistory rests on, at the end.                         *)
(***************************************************************************)
EXTENDS InboundProofs

(* A contact row says nothing of anybody but p.                             *)
Is(r, p) == r.number \in {Phone(p), LidDigits(p)} /\ r.lid \in {None, p}

(* A row that was found for p is still a row of p, or is deleted.           *)
Owns(c, p) ==
  c \in ContactIds /\ contacts[c].st # "unused" /\ (contacts[c].st = "used" => Is(contacts[c], p))

(* A ticket that was found for contact c of person p still is one of p, and *)
(* of that contact unless either was deleted.                               *)
Joined(t, c, p) ==
  /\ t \in TicketIds /\ tickets[t].st # "unused"
  /\ c \in ContactIds /\ contacts[c].st # "unused"
  /\ Kept(t) => Is(contacts[tickets[t].contact], p)
  /\ Kept(t) /\ contacts[c].st = "used" => tickets[t].contact = c

AddrOK == \A m \in Inbox : Is(addr[m], Person[m])
ContactsOK == \A c \in ContactIds : contacts[c].st = "used" => \E p \in People : Is(contacts[c], p)
TicketsOK == \A t \in TicketIds : IF Kept(t) THEN Used(tickets[t].contact) ELSE tickets[t].contact = None

HandlerOK(w) ==
  LET h == handler[w]
      p == Person[h.ev.msg]
  IN /\ h.pc \in {"lid", "contact"} => h.byNumber = None \/ Owns(h.byNumber, p)
     /\ h.pc = "contact" => h.byLid = None \/ Owns(h.byLid, p)
     /\ h.pc = "ticket" => Owns(h.contact, p)
     /\ h.pc = "create" => Joined(h.ticket, h.contact, p)

SendOK(m) == sent[m].pc = "out" => Joined(sent[m].ticket, sent[m].contact, Person[m])

MessageOK(m) ==
  messages[m] # None =>
    LET t == messages[m].ticket
        c == tickets[t].contact
    IN Kept(t) /\ Used(c) /\ Is(contacts[c], Person[m]) /\ messages[m].contact \in {None, c}

RowsOK == ContactsOK /\ TicketsOK /\ \A m \in Ids : MessageOK(m)

ChatInv ==
  /\ IInv /\ AddrOK /\ RowsOK
  /\ \A w \in Workers : HandlerOK(w)
  /\ \A m \in Sent : SendOK(m)

-----------------------------------------------------------------------------
LEMMA OnePerson ==
  ASSUME NEW p \in People, NEW q \in People, NEW r, Is(r, p),
         r.number \in {Phone(q), LidDigits(q)} \/ (r.lid # None /\ r.lid = q)
  PROVE  p = q
BY DEF Is, Phone, LidDigits

LEMMA ResolveIs ==
  ASSUME NEW p \in People, NEW f \in Forms PROVE Is(Resolve(p, f), p)
<1>1. f \in {"phone", "both", "lid"}
  BY InboundAssumption
<1>2. QED
  BY <1>1 DEF Is, Resolve

(* What a step may do to the rows that somebody has in his hands.           *)
ContactsEvolve ==
  \A c \in ContactIds : contacts[c].st # "unused" =>
    /\ contacts'[c].st # "unused"
    /\ contacts'[c].st = "used" =>
         /\ contacts[c].st = "used"
         /\ \A p \in People : Is(contacts[c], p) => Is(contacts'[c], p)

TicketsEvolve ==
  \A t \in TicketIds : tickets[t].st # "unused" =>
    /\ tickets'[t].st # "unused"
    /\ tickets'[t].st \in {"live", "closed"} =>
         /\ tickets[t].st \in {"live", "closed"}
         /\ \/ tickets'[t].contact = tickets[t].contact
            \/ /\ contacts'[tickets[t].contact].st # "used"
               /\ \A p \in People : Is(contacts[tickets[t].contact], p)
                                      => Is(contacts'[tickets'[t].contact], p)

LEMMA OwnsStays ==
  ASSUME ContactsEvolve, NEW p \in People, NEW c, Owns(c, p)
  PROVE  Owns(c, p)'
BY DEF Owns, ContactsEvolve

LEMMA JoinedStays ==
  ASSUME IInv, ContactsEvolve, TicketsEvolve, TicketsOK, TicketsOK',
         NEW p \in People, NEW t, NEW c, Joined(t, c, p)
  PROVE  Joined(t, c, p)'
<1>1. t \in TicketIds /\ t # None /\ c \in ContactIds
  BY InboundAssumption DEF Joined
<1>2. tickets'[t].st # "unused" /\ contacts'[c].st # "unused"
  BY DEF Joined, ContactsEvolve, TicketsEvolve
<1>3. ASSUME tickets'[t].st \in {"live", "closed"}
      PROVE  /\ Is(contacts'[tickets'[t].contact], p)
             /\ contacts'[c].st = "used" => tickets'[t].contact = c
  <2>1. Kept(t)
    BY <1>1, <1>3 DEF Joined, TicketsEvolve, Kept
  <2>2. tickets[t].contact \in ContactIds /\ contacts[tickets[t].contact].st = "used"
    BY <1>1, <2>1, Typed DEF TicketsOK, Used, IInv, TicketRows
  <2>3. contacts'[tickets'[t].contact].st = "used"
    BY <1>1, <1>3 DEF TicketsOK, Kept, Used
  <2>4. Is(contacts[tickets[t].contact], p)
    BY <2>1 DEF Joined
  <2>5. Is(contacts'[tickets'[t].contact], p)
    BY <1>1, <1>3, <2>2, <2>3, <2>4 DEF TicketsEvolve, ContactsEvolve, Joined
  <2>6. ASSUME contacts'[c].st = "used" PROVE tickets'[t].contact = c
    <3>1. tickets[t].contact = c
      BY <1>1, <2>1, <2>6 DEF Joined, ContactsEvolve
    <3>2. QED
      BY <1>1, <1>3, <2>6, <3>1 DEF TicketsEvolve, Joined
  <2>7. QED
    BY <2>5, <2>6
<1>4. QED
  BY <1>1, <1>2, <1>3 DEF Joined, Kept

LEMMA PersonOfEvent ==
  ASSUME IInv, NEW w \in Workers, handler[w].pc \in {"number", "lid", "contact", "ticket", "create", "last"}
  PROVE  /\ handler[w].ev.msg \in Inbox /\ handler[w].ev.msg \in Ids
         /\ Person[handler[w].ev.msg] \in People
<1>1. handler[w].ev \in Events /\ handler[w].ev.kind = "message"
  BY DEF IInv, Shape, Works
<1>2. QED
  BY <1>1, EventFacts, InboundAssumption

(* A handler that stands still keeps what it knows.                         *)
Still(w) ==
  /\ handler'[w].pc = handler[w].pc /\ handler'[w].ev = handler[w].ev
  /\ handler'[w].byNumber = handler[w].byNumber /\ handler'[w].byLid = handler[w].byLid
  /\ handler'[w].contact = handler[w].contact /\ handler'[w].ticket = handler[w].ticket

LEMMA HandlerStays ==
  ASSUME ChatInv, ContactsEvolve, TicketsEvolve, TicketsOK', NEW w \in Workers, Still(w)
  PROVE  HandlerOK(w)'
<1>1. CASE handler[w].pc \in {"lid", "contact", "ticket", "create"}
  <2>1. PICK p \in People : p = Person[handler[w].ev.msg]
    BY <1>1, PersonOfEvent DEF ChatInv
  <2>2. PICK h : h = handler[w]
    OBVIOUS
  <2>3. HandlerOK(w)
    BY DEF ChatInv
  <2>4. h.pc \in {"lid", "contact"} => h.byNumber = None \/ Owns(h.byNumber, p)'
    BY <2>1, <2>2, <2>3, OwnsStays DEF HandlerOK
  <2>5. h.pc = "contact" => h.byLid = None \/ Owns(h.byLid, p)'
    BY <2>1, <2>2, <2>3, OwnsStays DEF HandlerOK
  <2>6. h.pc = "ticket" => Owns(h.contact, p)'
    BY <2>1, <2>2, <2>3, OwnsStays DEF HandlerOK
  <2>7. h.pc = "create" => Joined(h.ticket, h.contact, p)'
    BY <2>1, <2>2, <2>3, JoinedStays DEF HandlerOK, ChatInv, RowsOK
  <2>8. QED
    BY <2>1, <2>2, <2>4, <2>5, <2>6, <2>7 DEF HandlerOK, Still
<1>2. CASE handler[w].pc \notin {"lid", "contact", "ticket", "create"}
  BY <1>2 DEF HandlerOK, Still
<1>3. QED
  BY <1>1, <1>2

LEMMA SendStays ==
  ASSUME ChatInv, ContactsEvolve, TicketsEvolve, TicketsOK', NEW m \in Sent,
         sent'[m] = sent[m] \/ sent'[m].pc # "out"
  PROVE  SendOK(m)'
<1>1. Person[m] \in People
  BY InboundAssumption
<1>2. ASSUME sent[m].pc = "out" PROVE Joined(sent[m].ticket, sent[m].contact, Person[m])
  BY <1>2 DEF ChatInv, SendOK
<1>3. PICK s, p : s = sent[m] /\ p = Person[m]
  OBVIOUS
<1>4. s.pc = "out" => Joined(s.ticket, s.contact, p)'
  BY <1>1, <1>2, <1>3, JoinedStays DEF ChatInv, RowsOK
<1>5. QED
  BY <1>3, <1>4 DEF SendOK

(* A step is assembled from what it does to the rows, and from what the     *)
(* handlers and the sends that move know afterwards.                        *)
LEMMA Assemble ==
  ASSUME ChatInv, IInv', addr' = addr, ContactsEvolve, TicketsEvolve, RowsOK',
         \A w \in Workers : Still(w) \/ HandlerOK(w)',
         \A m \in Sent : sent'[m] = sent[m] \/ sent'[m].pc # "out" \/ SendOK(m)'
  PROVE  ChatInv'
<1>1. \A w \in Workers : HandlerOK(w)'
  BY HandlerStays DEF RowsOK
<1>2. \A m \in Sent : SendOK(m)'
  BY SendStays DEF RowsOK
<1>3. AddrOK'
  BY DEF ChatInv, AddrOK
<1>4. QED
  BY <1>1, <1>2, <1>3 DEF ChatInv

LEMMA RowsSame ==
  ASSUME RowsOK, UNCHANGED rows
  PROVE  ContactsEvolve /\ TicketsEvolve /\ RowsOK'
<1>1. UNCHANGED <<contacts, tickets, messages>>
  BY DEF rows
<1>2. ContactsEvolve /\ TicketsEvolve
  BY <1>1 DEF ContactsEvolve, TicketsEvolve
<1>3. ContactsOK'
  BY <1>1 DEF RowsOK, ContactsOK
<1>4. TicketsOK'
  BY <1>1 DEF RowsOK, TicketsOK, Kept, Used
<1>5. \A m \in Ids : MessageOK(m)'
  BY <1>1 DEF RowsOK, MessageOK, Kept, Used
<1>6. QED
  BY <1>2, <1>3, <1>4, <1>5 DEF RowsOK

(* A message stays right while its ticket and contact stay.                 *)
LEMMA MessageStays ==
  ASSUME NEW m \in Ids, MessageOK(m), IInv,
         \A t \in TicketIds : Kept(t) =>
           tickets'[t].st \in {"live", "closed"} /\ tickets'[t].contact = tickets[t].contact,
         \A c \in ContactIds : contacts[c].st = "used" =>
           contacts'[c].st = "used" /\ \A p \in People : Is(contacts[c], p) => Is(contacts'[c], p),
         messages'[m] # None =>
           messages[m] # None /\ messages'[m].ticket = messages[m].ticket
             /\ messages'[m].contact = messages[m].contact
  PROVE  MessageOK(m)'
<1> SUFFICES ASSUME messages'[m] # None PROVE MessageOK(m)'
  BY DEF MessageOK
<1>1. PICK t \in TicketIds : t = messages[m].ticket
  BY Typed DEF IInv, MessageRows
<1>2. t # None /\ Kept(t) /\ Person[m] \in People
  BY <1>1, InboundAssumption DEF MessageOK, Ids
<1>3. PICK c \in ContactIds : c = tickets[t].contact
  BY <1>1, <1>2, Typed DEF MessageOK, Used, IInv, TicketRows
<1>4. c # None /\ contacts[c].st = "used" /\ Is(contacts[c], Person[m])
  BY <1>1, <1>3, InboundAssumption DEF MessageOK, Used
<1>5. contacts'[c].st = "used" /\ Is(contacts'[c], Person[m])
  BY <1>2, <1>4
<1>6. tickets'[t].st \in {"live", "closed"} /\ tickets'[t].contact = c
  BY <1>2, <1>3
<1>7. messages'[m].contact \in {None, c}
  BY <1>1, <1>3 DEF MessageOK
<1>8. QED
  BY <1>1, <1>2, <1>4, <1>5, <1>6, <1>7 DEF MessageOK, Kept, Used

-----------------------------------------------------------------------------
(* The steps of a handler.                                                  *)

LEMMA NothingInHand ==
  ASSUME NEW w \in Workers, handler'[w].pc \in {"idle", "number", "last", "receipt", "ack"}
  PROVE  HandlerOK(w)'
BY DEF HandlerOK

LEMMA OthersStill ==
  ASSUME NEW w \in Workers, Others(w)
  PROVE  \A v \in Workers : v # w => Still(v)
BY DEF Others, Still

LEMMA GotoMoves ==
  ASSUME IInv, NEW w \in Workers, NEW h, Goto(w, h)
  PROVE  Others(w) /\ handler'[w] = h
BY Typed DEF IInv, Goto, Others

LEMMA NackMoves ==
  ASSUME IInv, NEW w \in Workers, Nack(w)
  PROVE  Others(w) /\ HandlerOK(w)'
<1>1. Others(w) /\ handler'[w] = Idle
  BY GotoMoves DEF Nack
<1>2. handler'[w].pc = "idle"
  BY <1>1 DEF Idle
<1>3. QED
  BY <1>1, <1>2, NothingInHand

LEMMA HandlerMoves ==
  ASSUME ChatInv, IInv', UNCHANGED <<addr, rows, sent>>,
         NEW w \in Workers, Others(w), HandlerOK(w)'
  PROVE  ChatInv'
<1>1. ContactsEvolve /\ TicketsEvolve /\ RowsOK'
  BY RowsSame DEF ChatInv
<1>2. QED
  BY <1>1, OthersStill, Assemble

LEMMA ChatTake ==
  ASSUME ChatInv, IInv', NEW w \in Workers, NEW e \in Events, Take(w, e)
  PROVE  ChatInv'
<1> DEFINE h == [Idle EXCEPT !.pc = IF e.kind = "message" THEN "number" ELSE "receipt",
                             !.ev = e, !.valid = TRUE]
<1>1. h.pc \in {"number", "receipt"} /\ Goto(w, h)
  BY DEF Take, Idle
<1> HIDE DEF h
<1>2. Others(w) /\ handler'[w] = h
  BY <1>1, GotoMoves DEF ChatInv
<1>3. HandlerOK(w)'
  BY <1>1, <1>2, NothingInHand
<1>4. QED
  BY <1>2, <1>3, HandlerMoves DEF Take

(* The address of an event and the rows it leads to are its person's.       *)
LEMMA FoundIsOwned ==
  ASSUME ChatInv, NEW m \in Inbox, NEW column \in {"number", "lid"},
         NEW c, c = OneOf(FoundBy(column, addr[m][column])), c # None
  PROVE  Owns(c, Person[m])
<1>1. c \in FoundBy(column, addr[m][column])
  BY OneOfType
<1>2. c \in ContactIds /\ contacts[c].st = "used"
      /\ addr[m][column] # None /\ contacts[c][column] = addr[m][column]
  BY <1>1 DEF FoundBy, Used
<1>3. Person[m] \in People /\ Is(addr[m], Person[m])
  BY InboundAssumption DEF ChatInv, AddrOK
<1>4. PICK q \in People : Is(contacts[c], q)
  BY <1>2 DEF ChatInv, RowsOK, ContactsOK
<1>5. Person[m] = q
  <2>1. CASE column = "number"
    BY <1>2, <1>3, <1>4, <2>1, OnePerson DEF Is
  <2>2. CASE column = "lid"
    BY <1>2, <1>3, <1>4, <2>2, OnePerson DEF Is
  <2>3. QED
    BY <2>1, <2>2
<1>6. QED
  BY <1>2, <1>4, <1>5 DEF Owns

LEMMA ChatFindByNumber ==
  ASSUME ChatInv, IInv', NEW w \in Workers, FindByNumber(w)
  PROVE  ChatInv'
<1> DEFINE h == handler[w]
           n == OneOf(FoundBy("number", addr[h.ev.msg].number))
<1>1. h \in Locals /\ h.pc = "number" /\ h.ev.msg \in Inbox /\ addr[h.ev.msg].number = addr[h.ev.msg]["number"]
  BY Typed, PersonOfEvent DEF ChatInv, IInv, FindByNumber
<1>2. n = None \/ Owns(n, Person[h.ev.msg])
  BY <1>1, FoundIsOwned
<1>3. Others(w) /\ handler'[w] = [h EXCEPT !.pc = "lid", !.byNumber = n]
  BY GotoMoves DEF FindByNumber, ChatInv
<1> HIDE DEF n
<1>4. handler'[w].pc = "lid" /\ handler'[w].byNumber = n /\ handler'[w].ev = h.ev
  BY <1>1, <1>3 DEF Locals
<1>5. UNCHANGED <<addr, rows, sent>>
  BY DEF FindByNumber
<1>6. n = None \/ (n \in ContactIds /\ contacts'[n].st # "unused"
                     /\ (contacts'[n].st = "used" => Is(contacts'[n], Person[h.ev.msg])))
  BY <1>2, <1>5 DEF Owns, rows
<1>7. HandlerOK(w)'
  BY <1>4, <1>6 DEF HandlerOK, Owns
<1>8. QED
  BY <1>3, <1>5, <1>7, HandlerMoves

LEMMA ChatFindByLid ==
  ASSUME ChatInv, IInv', NEW w \in Workers, FindByLid(w)
  PROVE  ChatInv'
<1> DEFINE h == handler[w]
           n == OneOf(FoundBy("lid", addr[h.ev.msg].lid))
<1>1. h \in Locals /\ h.pc = "lid" /\ h.ev.msg \in Inbox /\ addr[h.ev.msg].lid = addr[h.ev.msg]["lid"]
  BY Typed, PersonOfEvent DEF ChatInv, IInv, FindByLid
<1>2. n = None \/ Owns(n, Person[h.ev.msg])
  BY <1>1, FoundIsOwned
<1>3. h.byNumber = None \/ Owns(h.byNumber, Person[h.ev.msg])
  BY <1>1 DEF ChatInv, HandlerOK
<1>4. Others(w) /\ handler'[w] = [h EXCEPT !.pc = "contact", !.byLid = n]
  BY GotoMoves DEF FindByLid, ChatInv
<1> HIDE DEF n
<1>5. /\ handler'[w].pc = "contact" /\ handler'[w].byLid = n
      /\ handler'[w].byNumber = h.byNumber /\ handler'[w].ev = h.ev
  BY <1>1, <1>4 DEF Locals
<1>6. UNCHANGED <<addr, rows, sent>>
  BY DEF FindByLid
<1>7. \A c \in {n, h.byNumber} : c = None \/ (c \in ContactIds /\ contacts'[c].st # "unused"
         /\ (contacts'[c].st = "used" => Is(contacts'[c], Person[h.ev.msg])))
  BY <1>2, <1>3, <1>6 DEF Owns, rows
<1>8. HandlerOK(w)'
  BY <1>5, <1>7 DEF HandlerOK, Owns
<1>9. QED
  BY <1>4, <1>6, <1>8, HandlerMoves

(* One contact row is inserted, relabelled or left alone.                   *)
LEMMA ContactWritten ==
  ASSUME ChatInv, IInv', UNCHANGED <<addr, tickets, messages, sent>>, NEW w \in Workers, Others(w),
         NEW d \in ContactIds, NEW p \in People,
         \A c \in ContactIds \ {d} : contacts'[c] = contacts[c],
         \/ contacts'[d] = contacts[d]
         \/ contacts[d].st = "unused" /\ contacts'[d].st = "used" /\ Is(contacts'[d], p)
         \/ contacts[d].st = "used" /\ contacts'[d].st = "used"
              /\ Is(contacts[d], p) /\ Is(contacts'[d], p),
         HandlerOK(w)'
  PROVE  ChatInv'
<1>1. ASSUME NEW c \in ContactIds, contacts[c].st # "unused"
      PROVE  /\ contacts'[c].st = contacts[c].st
             /\ contacts'[c].st = "used" => \A q \in People : Is(contacts[c], q) => Is(contacts'[c], q)
  <2>1. CASE contacts'[c] = contacts[c]
    BY <2>1
  <2>2. CASE c = d /\ contacts[d].st = "used" /\ contacts'[d].st = "used" /\ Is(contacts[d], p) /\ Is(contacts'[d], p)
    <3>1. \A q \in People : Is(contacts[d], q) => q = p
      BY <2>2, OnePerson DEF Is
    <3>2. QED
      BY <2>2, <3>1
  <2>3. QED
    BY <1>1, <2>1, <2>2
<1>2. ContactsEvolve
  BY <1>1 DEF ContactsEvolve
<1>3. TicketsEvolve
  BY DEF TicketsEvolve
<1>4. ContactsOK'
  <2>1. ASSUME NEW c \in ContactIds, contacts'[c].st = "used" PROVE \E q \in People : Is(contacts'[c], q)
    <3>1. CASE contacts'[c] = contacts[c]
      BY <2>1, <3>1 DEF ChatInv, RowsOK, ContactsOK
    <3>2. CASE contacts'[c] # contacts[c]
      BY <3>2
    <3>3. QED
      BY <3>1, <3>2
  <2>2. QED
    BY <2>1 DEF ContactsOK
<1>5. TicketsOK'
  <2>1. \A c \in ContactIds : contacts[c].st = "used" => contacts'[c].st = "used"
    BY <1>1
  <2>2. ASSUME NEW t \in TicketIds
        PROVE  IF Kept(t) THEN Used(tickets[t].contact)' ELSE tickets'[t].contact = None
    <3>1. tickets[t].contact \in ContactIds \cup {None}
      BY Typed DEF ChatInv, IInv, TicketRows
    <3>2. QED
      BY <2>1, <3>1 DEF ChatInv, RowsOK, TicketsOK, Kept, Used
  <2>3. QED
    BY <2>2 DEF TicketsOK, Kept
<1>6. ASSUME NEW m \in Ids PROVE MessageOK(m)'
  <2>1. MessageOK(m) /\ IInv
    BY DEF ChatInv, RowsOK
  <2>2. \A t \in TicketIds : Kept(t) =>
           tickets'[t].st \in {"live", "closed"} /\ tickets'[t].contact = tickets[t].contact
    BY DEF Kept
  <2>3. QED
    BY <1>1, <2>1, <2>2, MessageStays
<1>7. QED
  BY <1>2, <1>3, <1>4, <1>5, <1>6, OthersStill, Assemble DEF RowsOK

(* The two ways CreateOrUpdate relabels a row keep its person.              *)
LEMMA Relabelled ==
  ASSUME ChatInv, NEW m \in Inbox, NEW d, Owns(d, Person[m]),
         NEW cs \in {contacts, SetLid(d, addr[m].lid), SetNumber(d, addr[m].number)}
  PROVE  /\ \A c \in ContactIds \ {d} : cs[c] = contacts[c]
         /\ \/ cs[d] = contacts[d]
            \/ /\ contacts[d].st = "used" /\ cs[d].st = "used"
               /\ Is(contacts[d], Person[m]) /\ Is(cs[d], Person[m])
<1> DEFINE p == Person[m]
<1>1. d \in ContactIds /\ contacts \in [ContactIds -> ContactRows] /\ contacts[d] \in ContactRows
  BY Typed DEF ChatInv, IInv, Owns
<1>2. Is(addr[m], p)
  BY DEF ChatInv, AddrOK
<1>3. CASE cs = contacts
  BY <1>3
<1>4. CASE cs = [contacts EXCEPT ![d].lid = addr[m].lid] /\ addr[m].lid # None /\ contacts[d].st = "used"
  <2>1. \A c \in ContactIds \ {d} : cs[c] = contacts[c]
    BY <1>1, <1>4
  <2>2. cs[d].st = "used" /\ cs[d].number = contacts[d].number /\ cs[d].lid = addr[m].lid
    BY <1>1, <1>4 DEF ContactRows
  <2>3. Is(contacts[d], p)
    BY <1>4 DEF Owns
  <2>4. Is(cs[d], p)
    BY <1>2, <2>2, <2>3 DEF Is
  <2>5. QED
    BY <1>4, <2>1, <2>2, <2>3, <2>4
<1>5. CASE cs = [contacts EXCEPT ![d].number = addr[m].number] /\ contacts[d].st = "used"
  <2>1. \A c \in ContactIds \ {d} : cs[c] = contacts[c]
    BY <1>1, <1>5
  <2>2. cs[d].st = "used" /\ cs[d].lid = contacts[d].lid /\ cs[d].number = addr[m].number
    BY <1>1, <1>5 DEF ContactRows
  <2>3. Is(contacts[d], p)
    BY <1>5 DEF Owns
  <2>4. Is(cs[d], p)
    BY <1>2, <2>2, <2>3 DEF Is
  <2>5. QED
    BY <1>5, <2>1, <2>2, <2>3, <2>4
<1>6. QED
  BY <1>3, <1>4, <1>5 DEF SetLid, SetNumber, Used

(* The write commits, and the handler goes on with the row, or rolls back.  *)
LEMMA ChatCommit ==
  ASSUME ChatInv, IInv', NEW w \in Workers, handler[w].pc = "contact",
         UNCHANGED <<addr, tickets, messages, sent>>,
         NEW cs, NEW d \in ContactIds, Commit(w, cs, d),
         NEW p \in People, p = Person[handler[w].ev.msg],
         \A c \in ContactIds \ {d} : cs[c] = contacts[c],
         cs[d].st # "unused" /\ (cs[d].st = "used" => Is(cs[d], p)),
         \/ cs[d] = contacts[d]
         \/ contacts[d].st = "unused" /\ cs[d].st = "used" /\ Is(cs[d], p)
         \/ contacts[d].st = "used" /\ cs[d].st = "used" /\ Is(contacts[d], p) /\ Is(cs[d], p)
  PROVE  ChatInv'
<1> DEFINE h == handler[w]
<1>0. h \in Locals /\ IInv
  BY Typed DEF ChatInv, IInv
<1>1. CASE contacts' = cs /\ Goto(w, [h EXCEPT !.pc = "ticket", !.contact = d])
  <2>1. Others(w) /\ handler'[w] = [h EXCEPT !.pc = "ticket", !.contact = d]
    BY <1>0, <1>1, GotoMoves
  <2>2. handler'[w].pc = "ticket" /\ handler'[w].contact = d /\ handler'[w].ev = h.ev
    BY <1>0, <2>1 DEF Locals
  <2>3. HandlerOK(w)'
    BY <1>1, <2>2 DEF HandlerOK, Owns
  <2>4. QED
    BY <1>1, <2>1, <2>3, ContactWritten
<1>2. CASE UNCHANGED contacts /\ Nack(w)
  BY <1>0, <1>2, NackMoves, HandlerMoves DEF rows
<1>3. QED
  BY <1>1, <1>2 DEF Commit

LEMMA ChatInsertNew ==
  ASSUME ChatInv, IInv', NEW w \in Workers, handler[w].pc = "contact", UNCHANGED <<addr, sent>>,
         InsertNew(w, addr[handler[w].ev.msg])
  PROVE  ChatInv'
<1>1. PICK m \in Inbox : m = handler[w].ev.msg /\ Person[m] \in People
  BY PersonOfEvent DEF ChatInv
<1>2. CASE UNCHANGED contacts /\ Nack(w)
  BY <1>2, NackMoves, HandlerMoves DEF InsertNew, rows, ChatInv
<1>3. ASSUME NEW c \in ContactIds, contacts[c].st = "unused",
             Commit(w, [contacts EXCEPT ![c] = [st |-> "used", number |-> addr[m].number,
                                                lid |-> addr[m].lid]], c)
      PROVE  ChatInv'
  <2> DEFINE cs == [contacts EXCEPT ![c] = [st |-> "used", number |-> addr[m].number, lid |-> addr[m].lid]]
  <2>1. contacts \in [ContactIds -> ContactRows]
    BY Typed DEF ChatInv, IInv
  <2>2. \A b \in ContactIds \ {c} : cs[b] = contacts[b]
    BY <2>1
  <2>3. cs[c].st = "used" /\ cs[c].number = addr[m].number /\ cs[c].lid = addr[m].lid
    BY <2>1
  <2>4. Is(cs[c], Person[m])
    BY <2>3 DEF ChatInv, AddrOK, Is
  <2>5. Commit(w, cs, c)
    BY <1>3
  <2> HIDE DEF cs
  <2>6. UNCHANGED <<tickets, messages>>
    BY DEF InsertNew
  <2>7. QED
    BY <1>1, <1>3, <2>2, <2>3, <2>4, <2>5, <2>6, ChatCommit
<1>4. QED
  BY <1>1, <1>2, <1>3 DEF InsertNew

(* Two rows of one person become one: the tickets and messages of the row   *)
(* that goes are given to the one that stays.                               *)
LEMMA ChatReassign ==
  ASSUME ChatInv, IInv', NEW w \in Workers, handler[w].pc = "contact", UNCHANGED <<addr, sent>>,
         NEW keep \in ContactIds, keep = handler[w].byNumber,
         NEW old \in ContactIds, old = handler[w].byLid, keep # old,
         ReassignAndDestroy(w, addr[handler[w].ev.msg])
  PROVE  ChatInv'
<1>1. PICK m \in Inbox : m = handler[w].ev.msg /\ Person[m] \in People
  BY PersonOfEvent DEF ChatInv
<1>2. PICK p \in People : p = Person[m]
  BY <1>1
<1>3. Owns(keep, p) /\ Owns(old, p)
  BY <1>1, <1>2, InboundAssumption DEF ChatInv, HandlerOK
<1>4. CASE UNCHANGED rows /\ Nack(w)
  BY <1>4, NackMoves, HandlerMoves DEF ChatInv
<1> DEFINE cs == SetLid(keep, addr[m].lid)
           moved == \/ \E t \in TicketIds : tickets[t].contact = old
                    \/ \E n \in Stored : messages[n].contact = old
           Merged ==
             /\ moved => Used(keep)
             /\ contacts' = [cs EXCEPT ![old] = [NoContact EXCEPT !.st = "deleted"]]
             /\ tickets' = [t \in TicketIds |->
                  IF tickets[t].contact = old THEN [tickets[t] EXCEPT !.contact = keep] ELSE tickets[t]]
             /\ messages' = [n \in Ids |->
                  IF n \in Stored /\ messages[n].contact = old
                    THEN [messages[n] EXCEPT !.contact = keep] ELSE messages[n]]
             /\ Goto(w, [handler[w] EXCEPT !.pc = "ticket", !.contact = keep])
<1>5. ASSUME Merged PROVE ChatInv'
  <2>0. /\ contacts \in [ContactIds -> ContactRows] /\ tickets \in [TicketIds -> TicketRows]
        /\ messages \in [Ids -> MessageRows \cup {None}] /\ handler[w] \in Locals
    BY Typed DEF ChatInv, IInv
  <2>1. /\ \A c \in ContactIds \ {keep} : cs[c] = contacts[c]
        /\ \/ cs[keep] = contacts[keep]
           \/ /\ contacts[keep].st = "used" /\ cs[keep].st = "used"
              /\ Is(contacts[keep], p) /\ Is(cs[keep], p)
    BY <1>2, <1>3, Relabelled
  <2>2. cs \in [ContactIds -> ContactRows]
    BY <1>2, SetType DEF ChatInv, IInv, TypeOK
  <2> HIDE DEF cs
  <2>3. /\ contacts'[old].st = "deleted" /\ contacts'[keep] = cs[keep]
        /\ \A c \in ContactIds \ {keep, old} : contacts'[c] = contacts[c]
    BY <1>5, <2>1, <2>2 DEF NoContact
  <2>4. \A r : \A q \in People : Is(r, p) /\ Is(r, q) => p = q
    BY OnePerson DEF Is
  <2>5. /\ contacts'[keep].st = contacts[keep].st
        /\ contacts[keep].st = "used" => Is(contacts[keep], p) /\ Is(contacts'[keep], p)
    BY <1>3, <2>1, <2>3 DEF Owns
  <2>6. ContactsEvolve
    <3>1. ASSUME NEW c \in ContactIds, contacts[c].st # "unused"
          PROVE  /\ contacts'[c].st # "unused"
                 /\ contacts'[c].st = "used" =>
                      /\ contacts[c].st = "used"
                      /\ \A q \in People : Is(contacts[c], q) => Is(contacts'[c], q)
      <4>1. CASE c = old
        BY <2>3, <4>1
      <4>2. CASE c = keep
        BY <2>4, <2>5, <3>1, <4>2
      <4>3. CASE c \notin {keep, old}
        BY <2>3, <3>1, <4>3
      <4>4. QED
        BY <4>1, <4>2, <4>3
    <3>2. QED
      BY <3>1 DEF ContactsEvolve
  <2>7. \A t \in TicketIds :
          /\ tickets'[t].st = tickets[t].st
          /\ tickets'[t].contact = IF tickets[t].contact = old THEN keep ELSE tickets[t].contact
    <3>1. \A t \in TicketIds : tickets[t] \in TicketRows /\
            tickets'[t] = IF tickets[t].contact = old THEN [tickets[t] EXCEPT !.contact = keep] ELSE tickets[t]
      BY <1>5, <2>0
    <3>2. \A t \in TicketIds : tickets[t].contact = old =>
            [tickets[t] EXCEPT !.contact = keep].contact = keep
              /\ [tickets[t] EXCEPT !.contact = keep].st = tickets[t].st
      BY <3>1 DEF TicketRows
    <3>3. QED
      BY <3>1, <3>2
  <2>8. \A t \in TicketIds : tickets[t].contact = old =>
          contacts[old].st = "used" /\ contacts[keep].st = "used"
    <3>1. SUFFICES ASSUME NEW t \in TicketIds, tickets[t].contact = old
                   PROVE  contacts[old].st = "used" /\ contacts[keep].st = "used"
      OBVIOUS
    <3>2. old # None /\ keep # None
      BY InboundAssumption
    <3>3. contacts[old].st = "used"
      BY <3>1, <3>2 DEF ChatInv, RowsOK, TicketsOK, Used
    <3>4. contacts[keep].st = "used"
      BY <1>5, <3>1 DEF Used
    <3>5. QED
      BY <3>3, <3>4
  <2>9. \A t \in TicketIds : tickets[t].contact = old =>
          Is(contacts[old], p) /\ Is(contacts'[keep], p) /\ contacts'[keep].st = "used"
    BY <1>3, <2>5, <2>8 DEF Owns
  <2>10. TicketsEvolve
    <3>1. SUFFICES ASSUME NEW t \in TicketIds, tickets[t].contact = old
                   PROVE  \A q \in People : Is(contacts[old], q) => Is(contacts'[keep], q)
      BY <2>3, <2>7 DEF TicketsEvolve
    <3>2. QED
      BY <2>4, <2>9, <3>1
  <2>11. ContactsOK'
    <3>1. ASSUME NEW c \in ContactIds, contacts'[c].st = "used" PROVE \E q \in People : Is(contacts'[c], q)
      <4>1. CASE c = keep
        BY <2>5, <3>1, <4>1
      <4>2. CASE c \notin {keep, old}
        BY <2>3, <3>1, <4>2 DEF ChatInv, RowsOK, ContactsOK
      <4>3. QED
        BY <2>3, <3>1, <4>1, <4>2
    <3>2. QED
      BY <3>1 DEF ContactsOK
  <2>12. \A c \in ContactIds : contacts[c].st = "used" /\ c # old =>
           contacts'[c].st = "used" /\ \A q \in People : Is(contacts[c], q) => Is(contacts'[c], q)
    BY <2>3, <2>4, <2>5
  <2>13. TicketsOK'
    <3>1. ASSUME NEW t \in TicketIds
          PROVE  IF Kept(t) THEN /\ tickets'[t].contact # None
                                 /\ contacts'[tickets'[t].contact].st = "used"
                 ELSE tickets'[t].contact = None
      <4>1. IF Kept(t) THEN Used(tickets[t].contact) ELSE tickets[t].contact = None
        BY DEF ChatInv, RowsOK, TicketsOK
      <4>2. CASE tickets[t].contact = old
        BY <2>7, <2>9, <4>1, <4>2, InboundAssumption DEF Used
      <4>3. CASE tickets[t].contact # old
        <5>1. tickets[t].contact \in ContactIds \cup {None}
          BY <2>0 DEF TicketRows
        <5>2. QED
          BY <2>7, <2>12, <4>1, <4>3, <5>1 DEF Used
      <4>4. QED
        BY <4>2, <4>3
    <3>2. QED
      BY <2>7, <3>1 DEF TicketsOK, Kept, Used
  <2>14. ASSUME NEW n \in Ids PROVE MessageOK(n)'
    <3>1. PICK t, c : t = messages[n].ticket /\ c = tickets[t].contact
      OBVIOUS
    <3>2. SUFFICES ASSUME messages'[n] # None PROVE MessageOK(n)'
      BY DEF MessageOK
    <3>3. /\ messages[n] # None /\ messages'[n].ticket = t
          /\ messages'[n].contact = IF messages[n].contact = old THEN keep ELSE messages[n].contact
      <4>1. messages'[n] = IF n \in Stored /\ messages[n].contact = old
                             THEN [messages[n] EXCEPT !.contact = keep] ELSE messages[n]
        BY <1>5
      <4>2. messages[n] # None /\ messages[n] \in MessageRows
        BY <2>0, <3>2, <4>1 DEF Stored
      <4>3. [messages[n] EXCEPT !.contact = keep].contact = keep
              /\ [messages[n] EXCEPT !.contact = keep].ticket = t
        BY <3>1, <4>2 DEF MessageRows
      <4>4. QED
        BY <3>1, <4>1, <4>2, <4>3 DEF Stored
    <3>4. /\ Kept(t) /\ Used(c) /\ Is(contacts[c], Person[n]) /\ messages[n].contact \in {None, c}
          /\ t \in TicketIds /\ c \in ContactIds /\ Person[n] \in People
      <4>1. MessageOK(n) /\ messages[n] \in MessageRows
        BY <2>0, <3>3 DEF ChatInv, RowsOK
      <4>2. t \in TicketIds /\ Person[n] \in People
        BY <3>1, <4>1, InboundAssumption DEF MessageRows, Ids
      <4>3. QED
        BY <2>0, <3>1, <3>3, <4>1, <4>2 DEF MessageOK, Used, TicketRows
    <3>5. CASE c = old
      <4>1. tickets'[t].contact = keep /\ tickets'[t].st = tickets[t].st
        BY <2>7, <3>1, <3>4, <3>5
      <4>2. contacts'[keep].st = "used" /\ Is(contacts'[keep], Person[n])
        BY <2>4, <2>9, <3>1, <3>4, <3>5
      <4>3. messages'[n].contact \in {None, keep} /\ keep # None
        BY <3>3, <3>4, <3>5, InboundAssumption
      <4>4. QED
        BY <3>3, <3>4, <4>1, <4>2, <4>3 DEF MessageOK, Kept, Used
    <3>6. CASE c # old
      <4>1. tickets'[t].contact = c /\ tickets'[t].st = tickets[t].st
        BY <2>7, <3>1, <3>4, <3>6
      <4>2. contacts'[c].st = "used" /\ Is(contacts'[c], Person[n])
        BY <2>12, <3>4, <3>6 DEF Used
      <4>3. messages'[n].contact \in {None, c}
        BY <3>3, <3>4, <3>6, InboundAssumption
      <4>4. QED
        BY <3>3, <3>4, <4>1, <4>2, <4>3 DEF MessageOK, Kept, Used
    <3>7. QED
      BY <3>5, <3>6
  <2>15. Others(w) /\ handler'[w] = [handler[w] EXCEPT !.pc = "ticket", !.contact = keep]
    BY <1>5, GotoMoves DEF ChatInv
  <2>16. /\ handler'[w].pc = "ticket" /\ handler'[w].contact = keep
         /\ handler'[w].ev = handler[w].ev
    BY <2>0, <2>15 DEF Locals
  <2>17. HandlerOK(w)'
    <3>1. contacts'[keep].st # "unused"
      BY <1>3, <2>5 DEF Owns
    <3>2. QED
      BY <1>1, <1>2, <2>5, <2>16, <3>1 DEF HandlerOK, Owns
  <2>18. RowsOK'
    BY <2>11, <2>13, <2>14 DEF RowsOK
  <2>19. QED
    BY <2>6, <2>10, <2>15, <2>17, <2>18, OthersStill, Assemble
<1>6. QED
  BY <1>1, <1>4, <1>5 DEF ReassignAndDestroy

LEMMA ChatWriteContact ==
  ASSUME ChatInv, IInv', NEW w \in Workers, WriteContact(w)
  PROVE  ChatInv'
<1>0. UNCHANGED <<addr, sent>> /\ handler[w].pc = "contact"
  BY DEF WriteContact
<1>1. PICK m \in Inbox : m = handler[w].ev.msg /\ Person[m] \in People
  BY <1>0, PersonOfEvent DEF ChatInv
<1>2. PICK n, l : n = handler[w].byNumber /\ l = handler[w].byLid
  OBVIOUS
<1>3. (n = None \/ Owns(n, Person[m])) /\ (l = None \/ Owns(l, Person[m]))
  BY <1>0, <1>1, <1>2 DEF ChatInv, HandlerOK
<1>4. ASSUME NEW d \in {n, l}, d # None,
             NEW cs \in {contacts, SetLid(d, addr[m].lid), SetNumber(d, addr[m].number)},
             Commit(w, cs, d), UNCHANGED <<tickets, messages>>
      PROVE  ChatInv'
  <2>1. Owns(d, Person[m])
    BY <1>3, <1>4
  <2>2. /\ \A c \in ContactIds \ {d} : cs[c] = contacts[c]
        /\ \/ cs[d] = contacts[d]
           \/ /\ contacts[d].st = "used" /\ cs[d].st = "used"
              /\ Is(contacts[d], Person[m]) /\ Is(cs[d], Person[m])
    BY <1>4, <2>1, Relabelled
  <2>3. d \in ContactIds /\ cs[d].st # "unused" /\ (cs[d].st = "used" => Is(cs[d], Person[m]))
    BY <2>1, <2>2 DEF Owns
  <2>4. QED
    BY <1>0, <1>1, <1>4, <2>2, <2>3, ChatCommit
<1>5. CASE n = None /\ l = None
  BY <1>0, <1>2, <1>5, ChatInsertNew DEF WriteContact
<1>6. CASE n = l /\ n # None
  BY <1>2, <1>4, <1>6 DEF WriteContact
<1>7. CASE n # None /\ l # None /\ n # l
  BY <1>0, <1>2, <1>3, <1>7, ChatReassign DEF WriteContact, Owns
<1>8. CASE n # None /\ l = None
  BY <1>1, <1>2, <1>4, <1>8 DEF WriteContact
<1>9. CASE n = None /\ l # None
  BY <1>1, <1>2, <1>4, <1>9 DEF WriteContact
<1>10. QED
  BY <1>5, <1>6, <1>7, <1>8, <1>9

(* Steps that leave contacts alone, keep what tickets are kept where they   *)
(* are, and write no message row but m.                                     *)
LEMMA MessageWritten ==
  ASSUME ChatInv, IInv', UNCHANGED <<addr, contacts, tickets>>, NEW m \in Ids,
         \A n \in Ids \ {m} : messages'[n] = messages[n],
         \A w \in Workers : Still(w) \/ HandlerOK(w)',
         \A n \in Sent : sent'[n] = sent[n] \/ sent'[n].pc # "out" \/ SendOK(n)',
         MessageOK(m)'
  PROVE  ChatInv'
<1>1. ContactsEvolve /\ TicketsEvolve
  BY DEF ContactsEvolve, TicketsEvolve
<1>2. ContactsOK' /\ TicketsOK'
  BY DEF ChatInv, RowsOK, ContactsOK, TicketsOK, Kept, Used
<1>3. ASSUME NEW n \in Ids \ {m} PROVE MessageOK(n)'
  BY <1>3 DEF ChatInv, RowsOK, MessageOK, Kept, Used
<1>4. QED
  BY <1>1, <1>2, <1>3, Assemble DEF RowsOK

(* What an upsert or a receipt may leave of a message row.                  *)
LEMMA SameChat ==
  ASSUME ChatInv, UNCHANGED <<contacts, tickets>>, NEW m \in Ids, messages[m] # None,
         messages'[m].ticket = messages[m].ticket, messages'[m].contact = messages[m].contact
  PROVE  MessageOK(m)'
BY DEF ChatInv, RowsOK, MessageOK, Kept, Used

LEMMA Upserted ==
  ASSUME ChatInv, UNCHANGED <<contacts, tickets>>, NEW m \in Ids, NEW t, NEW c,
         Joined(t, c, Person[m]), NEW k \in {None, c}, MayInsert(m, t, k), messages' = Upsert(m, t, k)
  PROVE  MessageOK(m)' /\ \A n \in Ids \ {m} : messages'[n] = messages[n]
<1>0. messages \in [Ids -> MessageRows \cup {None}] /\ t \in TicketIds /\ c \in ContactIds
  BY Typed DEF ChatInv, IInv, Joined
<1>1. CASE messages[m] # None
  <2>1. messages' = [messages EXCEPT ![m].ack = Max2(@, 0)] /\ messages[m] \in MessageRows
    BY <1>0, <1>1 DEF Upsert
  <2>2. messages'[m].ticket = messages[m].ticket /\ messages'[m].contact = messages[m].contact
    BY <1>0, <2>1 DEF MessageRows
  <2>3. QED
    BY <1>0, <1>1, <2>1, <2>2, SameChat
<1>2. CASE messages[m] = None
  <2>1. messages' = [messages EXCEPT ![m] = [ticket |-> t, contact |-> k, ack |-> 0]]
    BY <1>2 DEF Upsert
  <2>2. messages'[m].ticket = t /\ messages'[m].contact = k
    BY <1>0, <2>1
  <2>3. Kept(t) /\ (k = None \/ (k = c /\ Used(c)))
    BY <1>2 DEF MayInsert
  <2>4. Used(tickets[t].contact) /\ Is(contacts[tickets[t].contact], Person[m])
    BY <1>0, <2>3 DEF Joined, ChatInv, RowsOK, TicketsOK
  <2>5. k \in {None, tickets[t].contact}
    BY <2>3 DEF Joined, Used
  <2>6. QED
    BY <1>0, <2>1, <2>2, <2>3, <2>4, <2>5 DEF MessageOK, Kept, Used
<1>3. QED
  BY <1>1, <1>2

LEMMA ChatCreate ==
  ASSUME ChatInv, IInv', NEW w \in Workers, Create(w)
  PROVE  ChatInv'
<1> DEFINE h == handler[w]
<1>0. h.pc = "create" /\ UNCHANGED <<addr, contacts, tickets, sent>> /\ h \in Locals
  BY Typed DEF Create, ChatInv, IInv
<1>1. PICK m \in Ids : m = h.ev.msg
  BY <1>0, PersonOfEvent DEF ChatInv
<1>2. Joined(h.ticket, h.contact, Person[m])
  BY <1>0, <1>1 DEF ChatInv, HandlerOK
<1>3. CASE UNCHANGED messages /\ Nack(w)
  BY <1>0, <1>3, NackMoves, HandlerMoves DEF rows, ChatInv
<1>4. ASSUME NEW k \in {None, h.contact}, MayInsert(m, h.ticket, k),
             messages' = Upsert(m, h.ticket, k), Goto(w, [h EXCEPT !.pc = "last"])
      PROVE  ChatInv'
  <2>1. MessageOK(m)' /\ \A n \in Ids \ {m} : messages'[n] = messages[n]
    BY <1>0, <1>2, <1>4, Upserted
  <2>2. Others(w) /\ handler'[w] = [h EXCEPT !.pc = "last"]
    BY <1>4, GotoMoves DEF ChatInv
  <2>3. handler'[w].pc = "last"
    BY <1>0, <2>2 DEF Locals
  <2>4. HandlerOK(w)'
    BY <2>3, NothingInHand
  <2>5. QED
    BY <1>0, <2>1, <2>2, <2>4, OthersStill, MessageWritten
<1>5. QED
  BY <1>1, <1>3, <1>4 DEF Create

LEMMA ChatUpdateAck ==
  ASSUME ChatInv, IInv', NEW w \in Workers, UpdateAck(w)
  PROVE  ChatInv'
<1> DEFINE h == handler[w]
<1>0. /\ h.pc = "receipt" /\ UNCHANGED <<addr, contacts, tickets, sent>> /\ h \in Locals
      /\ messages \in [Ids -> MessageRows \cup {None}]
  BY Typed DEF UpdateAck, ChatInv, IInv
<1>1. PICK m \in Ids : m = h.ev.msg
  BY <1>0, EventFacts DEF ChatInv, IInv, Shape, Works
<1>2. Others(w) /\ handler'[w] = [h EXCEPT !.pc = "ack"]
  BY GotoMoves DEF UpdateAck, ChatInv
<1>3. handler'[w].pc = "ack"
  BY <1>0, <1>2 DEF Locals
<1>4. HandlerOK(w)'
  BY <1>3, NothingInHand
<1>5. CASE messages' = messages
  BY <1>0, <1>2, <1>4, <1>5, HandlerMoves DEF rows
<1>6. CASE messages[m] # None /\ messages' = [messages EXCEPT ![m].ack = h.ev.ack]
  <2>1. messages'[m].ticket = messages[m].ticket /\ messages'[m].contact = messages[m].contact
    BY <1>0, <1>6 DEF MessageRows
  <2>2. \A n \in Ids \ {m} : messages'[n] = messages[n]
    BY <1>0, <1>6
  <2>3. MessageOK(m)'
    BY <1>0, <1>6, <2>1, SameChat
  <2>4. QED
    BY <1>0, <1>2, <1>4, <2>2, <2>3, OthersStill, MessageWritten
<1>7. QED
  BY <1>1, <1>5, <1>6 DEF UpdateAck

LEMMA TicketWritten ==
  ASSUME ChatInv, IInv', UNCHANGED <<addr, contacts, messages, sent>>,
         NEW t \in TicketIds, \A u \in TicketIds \ {t} : tickets'[u] = tickets[u],
         tickets'[t].st \in {"live", "closed"},
         \/ tickets[t].st \in {"live", "closed"} /\ tickets'[t].contact = tickets[t].contact
         \/ tickets[t].st = "unused" /\ Used(tickets'[t].contact),
         \A w \in Workers : Still(w) \/ HandlerOK(w)'
  PROVE  ChatInv'
<1>1. ContactsEvolve /\ ContactsOK'
  BY DEF ContactsEvolve, ChatInv, RowsOK, ContactsOK
<1>2. TicketsEvolve
  BY DEF TicketsEvolve
<1>3. t # None
  BY InboundAssumption
<1>4. TicketsOK'
  <2>1. Used(tickets'[t].contact)
    BY <1>3 DEF ChatInv, RowsOK, TicketsOK, Kept
  <2>2. \A c : contacts'[c].st = contacts[c].st
    OBVIOUS
  <2>3. ASSUME NEW u \in TicketIds
        PROVE  IF u # None /\ tickets'[u].st \in {"live", "closed"}
               THEN tickets'[u].contact # None /\ contacts'[tickets'[u].contact].st = "used"
               ELSE tickets'[u].contact = None
    <3>1. CASE u = t
      BY <1>3, <2>1, <2>2, <3>1 DEF Used
    <3>2. CASE u # t
      BY <2>2, <3>2 DEF ChatInv, RowsOK, TicketsOK, Kept, Used
    <3>3. QED
      BY <3>1, <3>2
  <2>4. QED
    BY <2>3 DEF TicketsOK, Kept, Used
<1>5. ASSUME NEW m \in Ids PROVE MessageOK(m)'
  <2>1. MessageOK(m) /\ IInv
    BY DEF ChatInv, RowsOK
  <2>2. \A u \in TicketIds : Kept(u) =>
           tickets'[u].st \in {"live", "closed"} /\ tickets'[u].contact = tickets[u].contact
    BY DEF Kept
  <2>3. QED
    BY <2>1, <2>2, MessageStays
<1>6. QED
  BY <1>1, <1>2, <1>4, <1>5, Assemble DEF RowsOK

LEMMA ChatFindOrCreate ==
  ASSUME ChatInv, IInv', NEW w \in Workers, FindOrCreate(w)
  PROVE  ChatInv'
<1>0. /\ handler[w].pc = "ticket" /\ UNCHANGED <<addr, contacts, messages, sent>>
      /\ handler[w] \in Locals /\ tickets \in [TicketIds -> TicketRows]
  BY Typed DEF FindOrCreate, ChatInv, IInv
<1>1. PICK p \in People : p = Person[handler[w].ev.msg]
  BY <1>0, PersonOfEvent DEF ChatInv
<1>2. PICK c : c = handler[w].contact
  OBVIOUS
<1>3. Owns(c, p)
  BY <1>0, <1>1, <1>2 DEF ChatInv, HandlerOK
<1>4. CASE Nack(w) /\ UNCHANGED tickets
  BY <1>0, <1>4, NackMoves, HandlerMoves DEF rows, ChatInv
<1>5. ASSUME NEW t \in TicketIds, Goto(w, [handler[w] EXCEPT !.pc = "create", !.ticket = t])
      PROVE  /\ Others(w) /\ handler'[w].pc = "create" /\ handler'[w].ticket = t
             /\ handler'[w].contact = c /\ handler'[w].ev = handler[w].ev
  <2>1. Others(w) /\ handler'[w] = [handler[w] EXCEPT !.pc = "create", !.ticket = t]
    BY <1>5, GotoMoves DEF ChatInv
  <2>2. QED
    BY <1>0, <1>2, <2>1 DEF Locals
<1>6. ASSUME NEW t \in TicketIds, Goto(w, [handler[w] EXCEPT !.pc = "create", !.ticket = t]), Used(c),
             tickets'[t].contact = c, tickets'[t].st # "unused"
      PROVE  HandlerOK(w)'
  <2>1. Is(contacts'[c], p) /\ contacts'[c].st # "unused" /\ c \in ContactIds
    BY <1>0, <1>3, <1>6 DEF Owns, Used
  <2>2. Joined(t, c, p)'
    BY <1>6, <2>1 DEF Joined
  <2>3. QED
    BY <1>1, <1>5, <1>6, <2>2 DEF HandlerOK
<1>7. ASSUME NEW t \in TicketIds, Goto(w, [handler[w] EXCEPT !.pc = "create", !.ticket = t]), Used(c),
             t \in TicketsOf(c, "live"), UNCHANGED tickets
      PROVE  ChatInv'
  <2>1. tickets'[t].contact = c /\ tickets'[t].st # "unused"
    BY <1>7 DEF TicketsOf
  <2>2. QED
    BY <1>0, <1>5, <1>6, <1>7, <2>1, HandlerMoves DEF rows
<1>8. ASSUME NEW t \in TicketIds, Goto(w, [handler[w] EXCEPT !.pc = "create", !.ticket = t]), Used(c),
             t \in TicketsOf(c, "closed") \/ tickets[t].st = "unused",
             tickets' = [tickets EXCEPT ![t] = [st |-> "live", contact |-> c]]
      PROVE  ChatInv'
  <2>1. tickets'[t].st = "live" /\ tickets'[t].contact = c
    BY <1>0, <1>8
  <2>2. \A u \in TicketIds \ {t} : tickets'[u] = tickets[u]
    BY <1>0, <1>8
  <2>3. \/ tickets[t].st \in {"live", "closed"} /\ tickets'[t].contact = tickets[t].contact
        \/ tickets[t].st = "unused" /\ Used(tickets'[t].contact)
    BY <1>8, <2>1 DEF TicketsOf
  <2>4. HandlerOK(w)' /\ Others(w)
    BY <1>5, <1>6, <1>8, <2>1
  <2>5. QED
    BY <1>0, <2>1, <2>2, <2>3, <2>4, OthersStill, TicketWritten
<1>9. QED
  BY <1>2, <1>4, <1>7, <1>8 DEF FindOrCreate, TicketsOf

LEMMA ChatLastMessageAndAck ==
  ASSUME ChatInv, IInv', NEW w \in Workers, LastMessage(w) \/ Ack(w) \/ DbError(w)
  PROVE  ChatInv'
<1>1. UNCHANGED <<addr, rows, sent>>
  BY DEF LastMessage, Ack, DbError
<1>2. handler[w] \in Locals /\ IInv
  BY Typed DEF ChatInv, IInv
<1>3. CASE Nack(w)
  BY <1>1, <1>2, <1>3, NackMoves, HandlerMoves
<1>4. CASE Goto(w, Idle)
  <2>1. Others(w) /\ handler'[w].pc = "idle"
    BY <1>2, <1>4, GotoMoves DEF Idle
  <2>2. QED
    BY <1>1, <2>1, NothingInHand, HandlerMoves
<1>5. CASE Goto(w, [handler[w] EXCEPT !.pc = "ack"])
  <2>1. Others(w) /\ handler'[w] = [handler[w] EXCEPT !.pc = "ack"]
    BY <1>2, <1>5, GotoMoves
  <2>2. handler'[w].pc = "ack"
    BY <1>2, <2>1 DEF Locals
  <2>3. QED
    BY <1>1, <2>1, <2>2, NothingInHand, HandlerMoves
<1>6. QED
  BY <1>3, <1>4, <1>5 DEF LastMessage, Ack, DbError

-----------------------------------------------------------------------------
(* The steps of agents and the faults.                                      *)

LEMMA AllStill == handler' = handler => \A w \in Workers : Still(w)
BY DEF Still

LEMMA ChatSendRpc ==
  ASSUME ChatInv, IInv', NEW m \in Sent, NEW t \in TicketIds, SendRpc(m, t)
  PROVE  ChatInv'
<1> DEFINE c == tickets[t].contact
<1>0. UNCHANGED <<addr, rows, handler>> /\ UNCHANGED <<contacts, tickets>>
  BY DEF SendRpc, rows
<1>1. Kept(t) /\ c \in RowsOf(Person[m]) /\ Person[m] \in People
  BY InboundAssumption DEF SendRpc
<1>2. Used(c) /\ c \in ContactIds
  BY <1>1 DEF ChatInv, RowsOK, TicketsOK, RowsOf
<1>3. PICK q \in People : Is(contacts[c], q)
  BY <1>2 DEF ChatInv, RowsOK, ContactsOK, Used
<1>4. q = Person[m]
  BY <1>1, <1>3, OnePerson DEF RowsOf
<1>5. PICK d : d = c
  OBVIOUS
<1>6. Joined(t, d, Person[m])'
  BY <1>0, <1>1, <1>2, <1>3, <1>4, <1>5 DEF Joined, Kept, Used
<1>7. /\ sent'[m] = [pc |-> "out", ticket |-> t, contact |-> d]
      /\ \A n \in Sent : n # m => sent'[n] = sent[n]
  BY <1>5, Typed DEF SendRpc, ChatInv, IInv
<1>8. SendOK(m)'
  BY <1>6, <1>7 DEF SendOK
<1>9. ContactsEvolve /\ TicketsEvolve /\ RowsOK'
  BY <1>0, RowsSame DEF ChatInv
<1>10. QED
  BY <1>0, <1>7, <1>8, <1>9, AllStill, Assemble

LEMMA ChatSendRecord ==
  ASSUME ChatInv, IInv', NEW m \in Sent, SendRecord(m)
  PROVE  ChatInv'
<1>0. /\ UNCHANGED <<addr, handler, contacts, tickets>> /\ sent[m].pc = "out"
      /\ sent[m] \in Sends /\ m \in Ids
  BY Typed DEF SendRecord, ChatInv, IInv, Ids
<1>1. \A n \in Sent : sent'[n] = sent[n] \/ sent'[n].pc # "out"
  <2>1. sent'[m].pc = "done" /\ \A n \in Sent : n # m => sent'[n] = sent[n]
    BY <1>0, Typed DEF SendRecord, ChatInv, IInv, Sends
  <2>2. QED
    BY <2>1
<1>2. CASE messages' = messages
  <2>1. ContactsEvolve /\ TicketsEvolve /\ RowsOK'
    BY <1>0, <1>2, RowsSame DEF ChatInv, rows
  <2>2. QED
    BY <1>0, <1>1, <2>1, AllStill, Assemble
<1>3. CASE /\ MayInsert(m, sent[m].ticket, sent[m].contact)
           /\ messages' = Upsert(m, sent[m].ticket, sent[m].contact)
  <2>1. Joined(sent[m].ticket, sent[m].contact, Person[m])
    BY <1>0 DEF ChatInv, SendOK
  <2>2. MessageOK(m)' /\ \A n \in Ids \ {m} : messages'[n] = messages[n]
    BY <1>0, <1>3, <2>1, Upserted
  <2>3. QED
    BY <1>0, <1>1, <2>2, AllStill, MessageWritten
<1>4. QED
  BY <1>2, <1>3 DEF SendRecord

LEMMA ChatCloseTicket ==
  ASSUME ChatInv, IInv', NEW t \in TicketIds, CloseTicket(t)
  PROVE  ChatInv'
<1>1. tickets \in [TicketIds -> TicketRows]
  BY Typed DEF ChatInv, IInv
<1>2. tickets'[t].st = "closed" /\ tickets'[t].contact = tickets[t].contact
  BY <1>1 DEF CloseTicket, TicketRows
<1>3. \A u \in TicketIds \ {t} : tickets'[u] = tickets[u]
  BY <1>1 DEF CloseTicket
<1>4. QED
  BY <1>2, <1>3, AllStill, TicketWritten DEF CloseTicket

(* Rows are deleted with all that depends on them, and none is written.     *)
LEMMA ChatRemoval ==
  ASSUME ChatInv, IInv', UNCHANGED <<addr, handler, sent>>,
         \A c \in ContactIds : contacts'[c] = contacts[c] \/ contacts'[c].st = "deleted",
         \A t \in TicketIds :
           \/ /\ tickets'[t] = tickets[t]
              /\ Kept(t) => contacts'[tickets[t].contact] = contacts[tickets[t].contact]
           \/ tickets[t].st # "unused" /\ tickets'[t].st = "deleted" /\ tickets'[t].contact = None,
         \A m \in Ids : \/ messages'[m] = None
                        \/ /\ messages'[m] = messages[m]
                           /\ tickets'[messages[m].ticket] = tickets[messages[m].ticket]
  PROVE  ChatInv'
<1>1. ContactsEvolve
  BY DEF ContactsEvolve
<1>2. TicketsEvolve
  BY DEF TicketsEvolve
<1>3. ContactsOK'
  BY DEF ChatInv, RowsOK, ContactsOK
<1>4. TicketsOK'
  <2>1. ASSUME NEW t \in TicketIds
        PROVE  IF t # None /\ tickets'[t].st \in {"live", "closed"}
               THEN tickets'[t].contact # None /\ contacts'[tickets'[t].contact].st = "used"
               ELSE tickets'[t].contact = None
    BY DEF ChatInv, RowsOK, TicketsOK, Kept, Used
  <2>2. QED
    BY <2>1 DEF TicketsOK, Kept, Used
<1>5. ASSUME NEW m \in Ids PROVE MessageOK(m)'
  <2>1. SUFFICES ASSUME messages'[m] # None PROVE MessageOK(m)'
    BY DEF MessageOK
  <2>2. messages'[m] = messages[m] /\ tickets'[messages[m].ticket] = tickets[messages[m].ticket]
    BY <2>1
  <2>3. PICK t \in TicketIds : t = messages[m].ticket
    BY <2>1, <2>2, Typed DEF ChatInv, IInv, MessageRows
  <2>4. MessageOK(m) /\ t # None
    BY InboundAssumption DEF ChatInv, RowsOK
  <2>5. Kept(t) /\ Used(tickets[t].contact)
    BY <2>1, <2>2, <2>3, <2>4 DEF MessageOK
  <2>6. contacts'[tickets[t].contact] = contacts[tickets[t].contact]
    BY <2>2, <2>3, <2>5 DEF Kept
  <2>7. QED
    BY <2>1, <2>2, <2>3, <2>4, <2>5, <2>6 DEF MessageOK, Kept, Used
<1>6. QED
  BY <1>1, <1>2, <1>3, <1>4, <1>5, AllStill, Assemble DEF RowsOK

LEMMA ChatDeleteMessage ==
  ASSUME ChatInv, IInv', NEW m \in Ids, DeleteMessage(m)
  PROVE  ChatInv'
<1>1. \A n \in Ids : messages'[n] = None \/ messages'[n] = messages[n]
  BY DEF DeleteMessage, RemoveMessages
<1>2. QED
  BY <1>1, ChatRemoval DEF DeleteMessage

LEMMA ChatDeleteTicket ==
  ASSUME ChatInv, IInv', NEW t \in TicketIds, DeleteTicket(t)
  PROVE  ChatInv'
<1>0. tickets \in [TicketIds -> TicketRows] /\ tickets' = [tickets EXCEPT ![t] = [st |-> "deleted", contact |-> None]]
  BY Typed DEF ChatInv, IInv, DeleteTicket
<1>1. \A u \in TicketIds : \/ tickets'[u] = tickets[u]
                           \/ u = t /\ tickets'[u].st = "deleted" /\ tickets'[u].contact = None
  BY <1>0
<1>2. tickets[t].st # "unused"
  BY DEF DeleteTicket, Kept
<1>3. \A m \in Ids : messages'[m] = None \/ (messages'[m] = messages[m] /\ messages[m].ticket # t)
  BY DEF DeleteTicket, RemoveMessages, Stored
<1>4. \A m \in Ids : messages[m] # None => messages[m].ticket \in TicketIds
  BY Typed DEF ChatInv, IInv, MessageRows
<1>5. \A m \in Ids : \/ messages'[m] = None
                     \/ /\ messages'[m] = messages[m]
                        /\ tickets'[messages[m].ticket] = tickets[messages[m].ticket]
  BY <1>1, <1>3, <1>4
<1>6. QED
  BY <1>1, <1>2, <1>5, ChatRemoval DEF DeleteTicket

LEMMA ChatDeleteContact ==
  ASSUME ChatInv, IInv', NEW c \in ContactIds, DeleteContact(c)
  PROVE  ChatInv'
<1>0. /\ contacts \in [ContactIds -> ContactRows] /\ tickets \in [TicketIds -> TicketRows]
      /\ contacts' = [contacts EXCEPT ![c] = [NoContact EXCEPT !.st = "deleted"]]
      /\ tickets' = [t \in TicketIds |-> IF tickets[t].contact = c
                       THEN [st |-> "deleted", contact |-> None] ELSE tickets[t]]
      /\ UNCHANGED <<addr, handler, sent>>
  BY Typed DEF ChatInv, IInv, DeleteContact
<1>1. \A b \in ContactIds : contacts'[b] = contacts[b] \/ (b = c /\ contacts'[b].st = "deleted")
  BY <1>0 DEF NoContact
<1>2. ASSUME NEW t \in TicketIds
      PROVE  \/ /\ tickets'[t] = tickets[t]
                /\ Kept(t) => contacts'[tickets[t].contact] = contacts[tickets[t].contact]
             \/ tickets[t].st # "unused" /\ tickets'[t].st = "deleted" /\ tickets'[t].contact = None
  <2>1. CASE tickets[t].contact = c
    <3>1. c # None
      BY InboundAssumption
    <3>2. Kept(t)
      BY <2>1, <3>1 DEF ChatInv, RowsOK, TicketsOK
    <3>3. QED
      BY <1>0, <2>1, <3>2 DEF Kept
  <2>2. CASE tickets[t].contact # c
    <3>1. Kept(t) => tickets[t].contact \in ContactIds
      BY <1>0 DEF ChatInv, RowsOK, TicketsOK, Used, TicketRows
    <3>2. QED
      BY <1>0, <1>1, <2>2, <3>1
  <2>3. QED
    BY <2>1, <2>2
<1>3. \A m \in Ids : messages'[m] = None \/ (messages'[m] = messages[m] /\ tickets[messages[m].ticket].contact # c)
  BY DEF DeleteContact, RemoveMessages, Stored
<1>4. \A m \in Ids : messages[m] # None => messages[m].ticket \in TicketIds
  BY Typed DEF ChatInv, IInv, MessageRows
<1>5. \A m \in Ids : \/ messages'[m] = None
                     \/ /\ messages'[m] = messages[m]
                        /\ tickets'[messages[m].ticket] = tickets[messages[m].ticket]
  BY <1>0, <1>3, <1>4
<1>6. \A b \in ContactIds : contacts'[b] = contacts[b] \/ contacts'[b].st = "deleted"
  BY <1>1
<1>7. QED
  BY <1>0, <1>2, <1>5, <1>6, ChatRemoval

LEMMA ChatFaults ==
  ASSUME ChatInv, IInv', ConnectionLost \/ Crash
  PROVE  ChatInv'
<1>0. UNCHANGED <<addr, rows>>
  BY DEF ConnectionLost, Crash
<1>1. ContactsEvolve /\ TicketsEvolve /\ RowsOK'
  BY <1>0, RowsSame DEF ChatInv
<1>2. \A w \in Workers : Still(w) \/ HandlerOK(w)'
  <2>1. CASE Crash
    <3>1. \A w \in Workers : handler'[w].pc = "idle"
      BY <2>1 DEF Crash, Idle
    <3>2. QED
      BY <3>1, NothingInHand
  <2>2. ASSUME ConnectionLost, NEW w \in Workers PROVE Still(w)
    <3>1. handler'[w] = [handler[w] EXCEPT !.valid = FALSE] /\ handler[w] \in Locals
      BY <2>2, Typed DEF ConnectionLost, ChatInv, IInv
    <3>2. QED
      BY <3>1 DEF Still, Locals
  <2>3. QED
    BY <2>1, <2>2
<1>3. \A m \in Sent : sent'[m] = sent[m] \/ sent'[m].pc # "out"
  <2>1. CASE ConnectionLost
    BY <2>1 DEF ConnectionLost
  <2>2. ASSUME Crash, NEW m \in Sent PROVE sent'[m] = sent[m] \/ sent'[m].pc # "out"
    <3>1. sent[m] \in Sends /\ sent'[m] = IF sent[m].pc = "out" THEN [sent[m] EXCEPT !.pc = "done"] ELSE sent[m]
      BY <2>2, Typed DEF Crash, ChatInv, IInv
    <3>2. QED
      BY <3>1 DEF Sends
  <2>3. QED
    BY <2>1, <2>2
<1>4. QED
  BY <1>0, <1>1, <1>2, <1>3, Assemble

-----------------------------------------------------------------------------
LEMMA ChatInit == Init => ChatInv
<1> SUFFICES ASSUME Init PROVE ChatInv
  OBVIOUS
<1>1. AddrOK
  BY ResolveIs, InboundAssumption DEF Init, AddrOK
<1>2. RowsOK
  BY DEF Init, NoContact, NoTicket, RowsOK, ContactsOK, TicketsOK, MessageOK, Kept
<1>3. \A w \in Workers : HandlerOK(w)
  BY DEF Init, Idle, HandlerOK
<1>4. \A m \in Sent : SendOK(m)
  BY DEF Init, SendOK
<1>5. QED
  BY <1>1, <1>2, <1>3, <1>4, InitInv DEF ChatInv

LEMMA ChatNext == ChatInv /\ [Next]_vars => ChatInv'
<1> SUFFICES ASSUME ChatInv, [Next]_vars PROVE ChatInv'
  OBVIOUS
<1>0. IInv'
  BY NextInv DEF ChatInv
<1>1. ASSUME NEW w \in Workers, Handle(w) PROVE ChatInv'
  BY <1>0, <1>1, ChatFindByNumber, ChatFindByLid, ChatWriteContact, ChatFindOrCreate, ChatCreate,
     ChatLastMessageAndAck, ChatUpdateAck DEF Handle
<1>2. ASSUME NEW w \in Workers, NEW e \in Events, Take(w, e) PROVE ChatInv'
  BY <1>0, <1>2, ChatTake
<1>3. ASSUME NEW w \in Workers, DbError(w) PROVE ChatInv'
  BY <1>0, <1>3, ChatLastMessageAndAck
<1>4. ASSUME NEW m \in Sent, SendRecord(m) \/ \E t \in TicketIds : SendRpc(m, t) PROVE ChatInv'
  BY <1>0, <1>4, ChatSendRecord, ChatSendRpc
<1>5. ASSUME NEW t \in TicketIds, CloseTicket(t) \/ DeleteTicket(t) PROVE ChatInv'
  BY <1>0, <1>5, ChatCloseTicket, ChatDeleteTicket
<1>6. ASSUME NEW m \in Ids, DeleteMessage(m) PROVE ChatInv'
  BY <1>0, <1>6, ChatDeleteMessage
<1>7. ASSUME NEW c \in ContactIds, DeleteContact(c) PROVE ChatInv'
  BY <1>0, <1>7, ChatDeleteContact
<1>8. CASE ConnectionLost \/ Crash
  BY <1>0, <1>8, ChatFaults
<1>9. CASE UNCHANGED vars
  <2>1. UNCHANGED <<addr, rows, handler, sent>>
    BY <1>9 DEF vars
  <2>2. ContactsEvolve /\ TicketsEvolve /\ RowsOK'
    BY <2>1, RowsSame DEF ChatInv
  <2>3. QED
    BY <1>0, <2>1, <2>2, AllStill, Assemble
<1>10. QED
  BY <1>1, <1>2, <1>3, <1>4, <1>5, <1>6, <1>7, <1>8, <1>9 DEF Next

LEMMA ChatIsRight == ChatInv => RightChat
<1> SUFFICES ASSUME ChatInv, NEW m \in Stored
             PROVE  LET c == tickets[messages[m].ticket].contact
                    IN /\ Kept(messages[m].ticket) /\ Used(c) /\ c \in RowsOf(Person[m])
                       /\ messages[m].contact \in {None, c}
  BY DEF RightChat
<1> DEFINE t == messages[m].ticket
           c == tickets[t].contact
<1>1. m \in Ids /\ messages[m] # None
  BY DEF Stored
<1>2. Kept(t) /\ Used(c) /\ Is(contacts[c], Person[m]) /\ messages[m].contact \in {None, c}
  BY <1>1 DEF ChatInv, RowsOK, MessageOK
<1>3. t \in TicketIds
  BY <1>1, Typed DEF ChatInv, IInv, MessageRows
<1>4. c \in ContactIds
  BY <1>2, <1>3, Typed DEF ChatInv, IInv, TicketRows, Used
<1>5. c \in RowsOf(Person[m])
  BY <1>2, <1>4 DEF RowsOf, Is
<1>6. QED
  BY <1>2, <1>5

(* A stored message is in a ticket of the person it was exchanged with,     *)
(* whatever rows are inserted, relabelled, merged or deleted by concurrent  *)
(* handlers and agents, and whatever is redelivered.                        *)
THEOREM MessagesAreInTheirChat == Spec => []RightChat
BY ChatInit, ChatNext, ChatIsRight, PTL DEF Spec

-----------------------------------------------------------------------------
(* The refinement of ChatHistory.  Since every stored message is in its     *)
(* chat, the history of a person is a function of what is stored, and a     *)
(* step of Inbound stores one message, removes some, or forgets one event.  *)

Settled == {m \in Inbox : Message(m) \in gone}
Histories == [p \in People |-> {m \in Stored : InTicketOf(m, p)}]
HistoryVars == <<Histories, Settled, removed>>

HistoryOfStored == Histories = [p \in People |-> {m \in Stored : Person[m] = p}]

LEMMA HistoryIsStored == RightChat => HistoryOfStored
<1> SUFFICES ASSUME RightChat, NEW p \in People, NEW m \in Stored
             PROVE  InTicketOf(m, p) <=> Person[m] = p
  BY DEF HistoryOfStored, Histories
<1>1. Kept(messages[m].ticket) /\ tickets[messages[m].ticket].contact \in RowsOf(Person[m])
  BY DEF RightChat
<1>2. m \in Ids /\ Person[m] \in People
  BY InboundAssumption DEF Stored, Ids
<1>3. ASSUME NEW c \in RowsOf(Person[m]), c \in RowsOf(p) PROVE Person[m] = p
  BY <1>3 DEF RowsOf, Phone, LidDigits
<1>4. QED
  BY <1>1, <1>3 DEF InTicketOf

Same == Stored' = Stored /\ removed' = removed /\ Settled' = Settled

(* What a step does to the messages and to the events.                      *)
Stores(m) == m \in Ids \ Stored /\ Stored' = Stored \cup {m} /\ removed' = removed /\ Settled' = Settled
Takes(S)  == S \subseteq Stored /\ Stored' = Stored \ S /\ removed' = removed \cup S /\ Settled' = Settled
Forgets(m) == m \in Stored \cup removed /\ Settled' = Settled \cup {m} /\ Stored' = Stored /\ removed' = removed
Visible == \/ Same
           \/ \E m \in Ids : Stores(m) \/ Forgets(m)
           \/ \E S \in SUBSET Ids : Takes(S)

LEMMA VisibleRefines ==
  ASSUME HistoryOfStored, HistoryOfStored', Visible
  PROVE  [History!Next]_HistoryVars
<1>0. \A m \in Ids : Person[m] \in People
  BY InboundAssumption DEF Ids
<1>1. CASE Same
  BY <1>1 DEF Same, HistoryOfStored, HistoryVars
<1>2. ASSUME NEW m \in Ids, Stores(m) PROVE History!File(m)
  <2>1. m \notin Histories[Person[m]]
    BY <1>0, <1>2 DEF HistoryOfStored, Stores
  <2>2. Histories' = [Histories EXCEPT ![Person[m]] = @ \cup {m}]
    BY <1>0, <1>2 DEF HistoryOfStored, Stores
  <2>3. QED
    BY <1>2, <2>1, <2>2 DEF History!File, Histories, Settled, Stores
<1>3. ASSUME NEW S \in SUBSET Ids, Takes(S) PROVE History!Remove(S)
  <2>1. \A m \in S : m \in Histories[Person[m]]
    BY <1>0, <1>3 DEF HistoryOfStored, Takes
  <2>2. Histories' = [p \in People |-> Histories[p] \ S]
    BY <1>3 DEF HistoryOfStored, Takes
  <2>3. QED
    BY <1>3, <2>1, <2>2 DEF History!Remove, Histories, Settled, Takes
<1>4. ASSUME NEW m \in Ids, Forgets(m) PROVE History!Settle(m)
  <2>1. m \in Histories[Person[m]] \cup removed
    BY <1>0, <1>4 DEF HistoryOfStored, Forgets
  <2>2. Histories' = Histories
    BY <1>4 DEF HistoryOfStored, Forgets
  <2>3. QED
    BY <1>4, <2>1, <2>2 DEF History!Settle, Histories, Settled, Forgets
<1>5. QED
  BY <1>1, <1>2, <1>3, <1>4 DEF Visible, History!Next

LEMMA QuietIsSame ==
  ASSUME NEW w \in Workers, Quiet(w), Stored' = Stored, removed' = removed
  PROVE  Same
BY DEF Quiet, Same, Settled

LEMMA UpsertStores ==
  ASSUME IInv, NEW m \in Ids, NEW t \in TicketIds \cup {None}, NEW c \in ContactIds \cup {None},
         MayInsert(m, t, c), messages' = Upsert(m, t, c), removed' = removed, gone' = gone
  PROVE  Visible
<1>1. /\ messages'[m] # None
      /\ \A k \in Ids : messages[k] # None => messages'[k] # None
  BY UpsertType
<1>2. \A k \in Ids \ {m} : messages'[k] = messages[k]
  BY Typed DEF IInv, Upsert
<1>3. Stored' = Stored \cup {m}
  BY <1>1, <1>2 DEF Stored
<1>4. Settled' = Settled
  BY DEF Settled
<1>5. QED
  BY <1>3, <1>4 DEF Visible, Same, Stores, Stored

LEMMA RemovalTakes ==
  ASSUME NEW S \in SUBSET Stored, RemoveMessages(S), gone' = gone
  PROVE  Visible
<1>1. Stored' = Stored \ S /\ Settled' = Settled /\ removed' = removed \cup S
  BY DEF RemoveMessages, Stored, Settled
<1>2. S \in SUBSET Ids
  BY DEF Stored
<1>3. QED
  BY <1>1, <1>2 DEF Visible, Takes

LEMMA HandlerVisible ==
  ASSUME IInv, NEW w \in Workers, Handle(w) \/ DbError(w) \/ \E e \in Events : Take(w, e)
  PROVE  Visible
<1>1. Nack(w) => gone' = gone
  BY DEF Nack
<1>2. ASSUME WriteContact(w) PROVE Visible
  <2>1. Quiet(w) /\ Stored' = Stored
    BY <1>2, WriteContactQuiet
  <2>2. QED
    BY <1>2, <2>1, QuietIsSame DEF WriteContact, Visible
<1>3. ASSUME Create(w) PROVE Visible
  <2>1. /\ handler[w].ev.msg \in Ids
        /\ handler[w].ticket \in TicketIds \cup {None} /\ handler[w].contact \in ContactIds \cup {None}
    BY <1>3, Typed, PersonOfEvent DEF IInv, Create, Locals
  <2>2. PICK c \in ContactIds \cup {None} :
          IF MayInsert(handler[w].ev.msg, handler[w].ticket, c)
            THEN messages' = Upsert(handler[w].ev.msg, handler[w].ticket, c) /\ gone' = gone
            ELSE messages' = messages /\ gone' = gone
    <3>1. CASE handler[w].ev.msg \in FromMe
      BY <1>1, <1>3, <3>1 DEF Create
    <3>2. CASE handler[w].ev.msg \notin FromMe
      BY <1>1, <1>3, <2>1, <3>2 DEF Create
    <3>3. QED
      BY <3>1, <3>2
  <2>3. CASE MayInsert(handler[w].ev.msg, handler[w].ticket, c)
    BY <1>3, <2>1, <2>2, <2>3, UpsertStores DEF Create
  <2>4. CASE ~MayInsert(handler[w].ev.msg, handler[w].ticket, c)
    BY <1>3, <2>2, <2>4 DEF Create, Visible, Same, Stored, Settled
  <2>5. QED
    BY <2>3, <2>4
<1>4. ASSUME UpdateAck(w) PROVE Visible
  <2> DEFINE m == handler[w].ev.msg
  <2>1. messages \in [Ids -> MessageRows \cup {None}]
    BY Typed DEF IInv
  <2>2. \A k \in Ids : messages'[k] = None <=> messages[k] = None
    <3>1. CASE messages[m] = None
      BY <1>4, <3>1 DEF UpdateAck
    <3>2. CASE messages[m] # None
      <4>1. IInv'
        BY <1>4, UpdateAckStep
      <4>2. messages' = [messages EXCEPT ![m].ack = handler[w].ev.ack]
        BY <1>4, <3>2 DEF UpdateAck
      <4>3. handler[w].ev.msg \in Ids
        BY <1>4, EventFacts DEF IInv, Shape, Works, UpdateAck
      <4>4. messages[m] \in MessageRows
        BY <2>1, <3>2, <4>3
      <4> DEFINE row == [messages[m] EXCEPT !.ack = handler[w].ev.ack]
      <4>5. messages'[m] = row
        BY <2>1, <4>2, <4>3
      <4>6. row \in MessageRows
        BY <4>4, EventFacts, <1>4 DEF IInv, Shape, Works, UpdateAck, MessageRows
      <4>7. messages'[m] # None
        BY <4>5, <4>6, InboundAssumption
      <4>8. \A k \in Ids \ {m} : messages'[k] = messages[k]
        BY <2>1, <4>2
      <4>9. QED
        BY <3>2, <4>7, <4>8
    <3>3. QED
      BY <3>1, <3>2
  <2>3. Stored' = Stored
    BY <2>2 DEF Stored
  <2>4. QED
    BY <1>4, <2>3 DEF UpdateAck, Visible, Same, Settled
<1>5. ASSUME Ack(w) PROVE Visible
  <2>1. Stored' = Stored /\ removed' = removed
    BY <1>5 DEF Ack, Stored, rows
  <2>2. CASE handler[w].valid /\ handler[w].ev.kind = "message"
    <3>1. handler[w].ev.msg \in Inbox /\ handler[w].ev = Message(handler[w].ev.msg)
          /\ handler[w].ev.msg \in Ids
      BY <2>2, EventFacts DEF IInv, Shape, Works
    <3>2. handler[w].ev.msg \in Stored \cup removed
      BY <1>5, <2>2 DEF IInv, Durable, Ack, Done
    <3>3. gone' = gone \cup {Message(handler[w].ev.msg)}
      BY <1>5, <2>2, <3>1 DEF Ack
    <3>4. \A k \in Inbox : Message(k) = Message(handler[w].ev.msg) => k = handler[w].ev.msg
      BY DEF Message
    <3>5. Settled' = Settled \cup {handler[w].ev.msg}
      BY <3>1, <3>3, <3>4 DEF Settled
    <3>6. QED
      BY <2>1, <3>1, <3>2, <3>5 DEF Visible, Forgets
  <2>3. CASE ~(handler[w].valid /\ handler[w].ev.kind = "message")
    <3>1. \A k \in Inbox : Message(k) \in gone' <=> Message(k) \in gone
      BY <1>5, <2>3 DEF Ack, Message
    <3>2. QED
      BY <2>1, <3>1 DEF Visible, Same, Settled
  <2>4. QED
    BY <2>2, <2>3
<1>6. ASSUME FindByNumber(w) \/ FindByLid(w) \/ FindOrCreate(w) \/ LastMessage(w) \/ DbError(w)
             \/ \E e \in Events : Take(w, e)
      PROVE  Visible
  <2>1. UNCHANGED <<messages, removed, gone>>
    BY <1>1, <1>6 DEF FindByNumber, FindByLid, FindOrCreate, LastMessage, DbError, Take, rows
  <2>2. QED
    BY <2>1 DEF Visible, Same, Stored, Settled
<1>7. QED
  BY <1>2, <1>3, <1>4, <1>5, <1>6 DEF Handle

LEMMA HistoryStep ==
  ASSUME IInv, [Next]_vars
  PROVE  Visible
<1>1. ASSUME NEW w \in Workers, Handle(w) \/ DbError(w) \/ \E e \in Events : Take(w, e)
      PROVE  Visible
  BY <1>1, HandlerVisible
<1>2. ASSUME NEW m \in Sent, SendRecord(m) PROVE Visible
  <2>1. m \in Ids
    BY DEF Ids
  <2>2. sent[m].ticket \in TicketIds \cup {None} /\ sent[m].contact \in ContactIds \cup {None}
    BY Typed DEF IInv, Sends
  <2>3. CASE MayInsert(m, sent[m].ticket, sent[m].contact)
    BY <1>2, <2>1, <2>2, <2>3, UpsertStores DEF SendRecord
  <2>4. CASE ~MayInsert(m, sent[m].ticket, sent[m].contact)
    BY <1>2, <2>4 DEF SendRecord, Visible, Same, Stored, Settled
  <2>5. QED
    BY <2>3, <2>4
<1>3. ASSUME NEW m \in Ids, DeleteMessage(m) PROVE Visible
  BY <1>3, RemovalTakes DEF DeleteMessage
<1>4. ASSUME NEW t \in TicketIds, DeleteTicket(t) PROVE Visible
  BY <1>4, RemovalTakes DEF DeleteTicket
<1>5. ASSUME NEW c \in ContactIds, DeleteContact(c) PROVE Visible
  BY <1>5, RemovalTakes DEF DeleteContact
<1>6. ASSUME UNCHANGED <<messages, removed, gone>> PROVE Visible
  BY <1>6 DEF Visible, Same, Stored, Settled
<1>7. ASSUME NEW m \in Sent, NEW t \in TicketIds, SendRpc(m, t) PROVE Visible
  BY <1>6, <1>7 DEF SendRpc, rows
<1>8. ASSUME NEW t \in TicketIds, CloseTicket(t) PROVE Visible
  BY <1>6, <1>8 DEF CloseTicket
<1>9. CASE ConnectionLost \/ Crash \/ UNCHANGED vars
  BY <1>6, <1>9 DEF ConnectionLost, Crash, vars, rows
<1>10. QED
  BY <1>1, <1>2, <1>3, <1>4, <1>5, <1>7, <1>8, <1>9 DEF Next

(* Seen from the agents' side, the handlers, rows, merges, redeliveries and *)
(* faults of Inbound are one history per person: every step files a message *)
(* with its person, removes what an agent removes, or settles an event      *)
(* whose message is filed; and nothing else.                                *)
THEOREM ImplementsHistory == Spec => HistoryImplemented
<1>1. Init => History!Init
  BY DEF Init, History!Init, Stored
<1>2. ChatInv /\ ChatInv' /\ [Next]_vars => [History!Next]_HistoryVars
  <2> SUFFICES ASSUME ChatInv, ChatInv', [Next]_vars PROVE [History!Next]_HistoryVars
    OBVIOUS
  <2>1. HistoryOfStored
    BY ChatIsRight, HistoryIsStored
  <2>2. (ChatInv => HistoryOfStored)'
    BY ChatIsRight, HistoryIsStored, PTL
  <2>3. Visible
    BY HistoryStep DEF ChatInv
  <2>4. QED
    BY <2>1, <2>2, <2>3, VisibleRefines
<1>3. QED
  BY <1>1, <1>2, ChatInit, ChatNext, PTL DEF Spec, HistoryImplemented, History!Spec, HistoryVars, Histories, Settled
=============================================================================
