--------------------------- MODULE InboundProofs ---------------------------
(***************************************************************************)
(* Theorems about Inbound, for any number of people, messages, rows and    *)
(* concurrent handlers: the types, that an acknowledged message is stored  *)
(* or was removed by an agent, that storing it again keeps its ack, and    *)
(* that an event is always in exactly one place.                           *)
(***************************************************************************)
EXTENDS Inbound, TLAPS

PCs == {"idle", "number", "lid", "contact", "ticket", "create", "last", "receipt", "ack"}
Locals ==
  [pc : PCs, ev : Events \cup {None}, valid : BOOLEAN,
   byNumber : ContactIds \cup {None}, byLid : ContactIds \cup {None},
   contact : ContactIds \cup {None}, ticket : TicketIds \cup {None}]
ContactRows == [st : {"unused", "used", "deleted"}, number : Numbers \cup {None}, lid : People \cup {None}]
TicketRows  == [st : {"unused", "live", "closed", "deleted"}, contact : ContactIds \cup {None}]
Sends == [pc : {"no", "out", "done"}, ticket : TicketIds \cup {None}, contact : ContactIds \cup {None}]

(* What a handler works on agrees with where it is.                         *)
Works(h) ==
  /\ h.valid \/ h.pc # "idle" => h.ev \in Events
  /\ h.pc \in {"number", "lid", "contact", "ticket", "create", "last"} => h.ev.kind = "message"
  /\ h.pc = "receipt" => h.ev.kind = "receipt"

Shape == \A w \in Workers : Works(handler[w])

(* Stored once, whatever happened to it since.                              *)
Done == Stored \cup removed

Durable ==
  /\ NothingLost
  /\ \A w \in Workers :
       handler[w].pc \in {"last", "ack"} /\ handler[w].ev.kind = "message" => handler[w].ev.msg \in Done

IInv == TypeOK /\ Shape /\ Durable

-----------------------------------------------------------------------------
(* The data.                                                                *)

LEMMA EventFacts ==
  \A e \in Events :
    /\ e.kind \in {"message", "receipt"} /\ e.msg \in Ids /\ e.ack \in {0, 2, 3}
    /\ e.kind = "message" => e.msg \in Inbox /\ e = Message(e.msg)
<1> TAKE e \in Events
<1>1. CASE \E m \in Inbox : e = Message(m)
  BY <1>1 DEF Message, Ids
<1>2. CASE \E m \in FromMe \cup Sent, a \in Acks : e = Receipt(m, a)
  BY <1>2, InboundAssumption DEF Receipt, Ids
<1>3. QED
  BY <1>1, <1>2 DEF Events

LEMMA ResolveType ==
  ASSUME NEW p \in People, NEW f \in Forms
  PROVE  Resolve(p, f) \in [number : Numbers, lid : People \cup {None}]
<1>1. CASE f = "phone"
  BY <1>1 DEF Resolve, Numbers
<1>2. CASE f = "both"
  BY <1>2 DEF Resolve, Numbers
<1>3. CASE f = "lid"
  BY <1>3 DEF Resolve, Numbers
<1>4. QED
  BY <1>1, <1>2, <1>3, InboundAssumption

LEMMA OneOfType ==
  ASSUME NEW S PROVE OneOf(S) \in S \cup {None}
BY DEF OneOf

LEMMA IdleType == Idle \in Locals /\ Works(Idle)
BY DEF Idle, Locals, PCs, Works

LEMMA InitInv == Init => IInv
<1> SUFFICES ASSUME Init PROVE IInv
  OBVIOUS
<1>1. addr \in [Inbox -> [number : Numbers, lid : People \cup {None}]]
  <2>1. UNION {{Resolve(p, f) : f \in Forms} : p \in People}
          \subseteq [number : Numbers, lid : People \cup {None}]
    BY ResolveType
  <2>2. QED
    BY <2>1 DEF Init
<1>2. queue \subseteq Events
  BY DEF Init, Events
<1>3. handler \in [Workers -> Locals] /\ Shape
  BY IdleType DEF Init, Shape
<1>4. /\ contacts \in [ContactIds -> ContactRows]
      /\ tickets \in [TicketIds -> TicketRows]
      /\ sent \in [Sent -> Sends]
  BY DEF Init, NoContact, NoTicket, ContactRows, TicketRows, Sends
<1>5. TypeOK
  BY <1>1, <1>2, <1>3, <1>4, InboundAssumption
    DEF Init, TypeOK, Locals, PCs, ContactRows, TicketRows, Sends
<1>6. Durable
  BY DEF Init, Durable, NothingLost, Idle
<1>7. QED
  BY <1>3, <1>5, <1>6 DEF IInv
-----------------------------------------------------------------------------
(* Moves of a handler.                                                      *)

Others(w) == \A v \in Workers : v # w => handler'[v] = handler[v]

(* A step of one handler that stores or acknowledges nothing yet.           *)
Quiet(w) ==
  /\ handler' \in [Workers -> Locals] /\ Shape'
  /\ queue' \subseteq Events /\ gone' = gone
  /\ Others(w) /\ handler'[w].pc \notin {"last", "ack"}

LEMMA Typed ==
  ASSUME TypeOK
  PROVE  /\ handler \in [Workers -> Locals]
         /\ contacts \in [ContactIds -> ContactRows]
         /\ tickets \in [TicketIds -> TicketRows]
         /\ messages \in [Ids -> MessageRows \cup {None}]
         /\ sent \in [Sent -> Sends]
BY DEF TypeOK, Locals, PCs, ContactRows, TicketRows, Sends

LEMMA Move ==
  ASSUME IInv, NEW w \in Workers, NEW h \in Locals, Works(h), Goto(w, h)
  PROVE  handler' \in [Workers -> Locals] /\ Shape' /\ Others(w) /\ handler'[w] = h
<1>1. handler \in [Workers -> Locals]
  BY Typed DEF IInv
<1>2. handler' \in [Workers -> Locals] /\ Others(w) /\ handler'[w] = h
  BY <1>1 DEF Goto, Others
<1>3. \A v \in Workers : Works(handler'[v])
  BY <1>2 DEF Others, IInv, Shape
<1>4. QED
  BY <1>2, <1>3 DEF Shape

LEMMA QuietNack ==
  ASSUME IInv, NEW w \in Workers, Nack(w)
  PROVE  Quiet(w)
<1>1. handler' \in [Workers -> Locals] /\ Shape' /\ Others(w) /\ handler'[w] = Idle
  BY IdleType, Move DEF Nack
<1>2. queue' \subseteq Events /\ gone' = gone
  BY DEF IInv, TypeOK, Shape, Works, Nack
<1>3. QED
  BY <1>1, <1>2 DEF Quiet, Idle

LEMMA QuietMove ==
  ASSUME IInv, NEW w \in Workers, NEW h \in Locals, Works(h), Goto(w, h),
         h.pc \notin {"last", "ack"}, UNCHANGED <<queue, gone>>
  PROVE  Quiet(w)
<1>1. handler' \in [Workers -> Locals] /\ Shape' /\ Others(w) /\ handler'[w] = h
  BY Move
<1>2. QED
  BY <1>1 DEF Quiet, IInv, TypeOK

LEMMA StaysDurable ==
  ASSUME IInv, Done \subseteq Done', NEW w \in Workers, Others(w),
         handler'[w].pc \in {"last", "ack"} /\ handler'[w].ev.kind = "message"
           => handler'[w].ev.msg \in Done',
         \A m \in Inbox : Message(m) \in gone' => Message(m) \in gone \/ m \in Done'
  PROVE  Durable'
<1>1. NothingLost'
  BY DEF IInv, Durable, NothingLost, Done
<1>2. \A v \in Workers :
        handler'[v].pc \in {"last", "ack"} /\ handler'[v].ev.kind = "message" => handler'[v].ev.msg \in Done'
  BY DEF IInv, Durable, Others
<1>3. QED
  BY <1>1, <1>2 DEF Durable

LEMMA QuietDurable ==
  ASSUME IInv, Done \subseteq Done', NEW w \in Workers, Quiet(w)
  PROVE  Durable'
BY StaysDurable DEF Quiet

(* Assembles the invariant from the parts a step of a handler may disturb.   *)
LEMMA HandlerStep ==
  ASSUME IInv, handler' \in [Workers -> Locals], Shape', Durable',
         queue' \subseteq Events, gone' \subseteq Events,
         contacts' \in [ContactIds -> ContactRows], tickets' \in [TicketIds -> TicketRows],
         messages' \in [Ids -> MessageRows \cup {None}],
         UNCHANGED <<addr, sent, removed>>, faults' \in 0..MaxFaults
  PROVE  IInv'
<1>1. TypeOK'
  BY DEF IInv, TypeOK, Locals, PCs, ContactRows, TicketRows
<1>2. QED
  BY <1>1 DEF IInv

-----------------------------------------------------------------------------
(* The steps.                                                               *)

LEMMA TakeStep ==
  ASSUME IInv, NEW w \in Workers, NEW e \in Events, Take(w, e)
  PROVE  IInv'
<1> DEFINE h == [Idle EXCEPT !.pc = IF e.kind = "message" THEN "number" ELSE "receipt",
                             !.ev = e, !.valid = TRUE]
<1>1. h \in Locals /\ Works(h) /\ h.pc \notin {"last", "ack"} /\ Goto(w, h)
  BY EventFacts DEF Take, Idle, Locals, PCs, Works
<1> HIDE DEF h
<1>2. handler' \in [Workers -> Locals] /\ Shape' /\ Others(w) /\ handler'[w] = h
  BY <1>1, Move
<1>3. Durable'
  BY <1>1, <1>2, StaysDurable DEF Take, rows, Done, Stored
<1>4. QED
  BY <1>2, <1>3, Typed, HandlerStep DEF Take, rows, IInv, TypeOK

LEMMA AckStep ==
  ASSUME IInv, NEW w \in Workers, Ack(w)
  PROVE  IInv'
<1>1. handler' \in [Workers -> Locals] /\ Shape' /\ Others(w) /\ handler'[w] = Idle
  BY IdleType, Move DEF Ack
<1>2. gone' \subseteq gone \cup {handler[w].ev} /\ handler[w].ev \in Events /\ handler[w].pc = "ack"
  BY DEF Ack, IInv, Shape, Works
<1>3. Durable'
  <2>1. Done' = Done
    BY DEF Ack, rows, Done, Stored
  <2>2. \A m \in Inbox : Message(m) \in gone' => Message(m) \in gone \/ m \in Done'
    BY <1>2, <2>1 DEF IInv, Durable, Message
  <2>3. QED
    BY <1>1, <2>1, <2>2, StaysDurable DEF Idle
<1>4. QED
  BY <1>1, <1>2, <1>3, Typed, HandlerStep DEF Ack, rows, IInv, TypeOK

LEMMA FindByNumberStep ==
  ASSUME IInv, NEW w \in Workers, FindByNumber(w)
  PROVE  IInv'
<1> DEFINE c == OneOf(FoundBy("number", addr[handler[w].ev.msg].number))
           h == [handler[w] EXCEPT !.pc = "lid", !.byNumber = c]
<1>1. c \in ContactIds \cup {None}
  BY OneOfType DEF FoundBy
<1>2. handler[w] \in Locals /\ Works(handler[w]) /\ handler[w].pc = "number" /\ Goto(w, h)
  BY Typed DEF FindByNumber, IInv, Shape
<1> HIDE DEF c
<1>3. h \in Locals /\ Works(h) /\ h.pc = "lid"
  BY <1>1, <1>2 DEF Locals, PCs, Works
<1> HIDE DEF h
<1>4. Quiet(w)
  BY <1>2, <1>3, QuietMove DEF FindByNumber
<1>5. Durable'
  BY <1>4, QuietDurable DEF FindByNumber, rows, Done, Stored
<1>6. QED
  BY <1>4, <1>5, Typed, HandlerStep DEF FindByNumber, Quiet, rows, IInv, TypeOK

LEMMA FindByLidStep ==
  ASSUME IInv, NEW w \in Workers, FindByLid(w)
  PROVE  IInv'
<1> DEFINE c == OneOf(FoundBy("lid", addr[handler[w].ev.msg].lid))
           h == [handler[w] EXCEPT !.pc = "contact", !.byLid = c]
<1>1. c \in ContactIds \cup {None}
  BY OneOfType DEF FoundBy
<1>2. handler[w] \in Locals /\ Works(handler[w]) /\ handler[w].pc = "lid" /\ Goto(w, h)
  BY Typed DEF FindByLid, IInv, Shape
<1> HIDE DEF c
<1>3. h \in Locals /\ Works(h) /\ h.pc = "contact"
  BY <1>1, <1>2 DEF Locals, PCs, Works
<1> HIDE DEF h
<1>4. Quiet(w)
  BY <1>2, <1>3, QuietMove DEF FindByLid
<1>5. Durable'
  BY <1>4, QuietDurable DEF FindByLid, rows, Done, Stored
<1>6. QED
  BY <1>4, <1>5, Typed, HandlerStep DEF FindByLid, Quiet, rows, IInv, TypeOK

LEMMA SetType ==
  ASSUME IInv, NEW c \in ContactIds \cup {None}
  PROVE  /\ \A lid \in People \cup {None} : SetLid(c, lid) \in [ContactIds -> ContactRows]
         /\ \A number \in Numbers : SetNumber(c, number) \in [ContactIds -> ContactRows]
<1>1. contacts \in [ContactIds -> ContactRows]
  BY Typed DEF IInv
<1>2. ASSUME NEW lid \in People \cup {None} PROVE SetLid(c, lid) \in [ContactIds -> ContactRows]
  <2>1. CASE Used(c)
    <3>1. c \in ContactIds /\ [contacts[c] EXCEPT !.lid = lid] \in ContactRows
      BY <1>1, <2>1 DEF Used, ContactRows
    <3>2. QED
      BY <1>1, <3>1 DEF SetLid
  <2>2. CASE ~Used(c)
    BY <1>1, <2>2 DEF SetLid
  <2>3. QED
    BY <2>1, <2>2
<1>3. ASSUME NEW number \in Numbers PROVE SetNumber(c, number) \in [ContactIds -> ContactRows]
  <2>1. CASE Used(c)
    <3>1. c \in ContactIds /\ [contacts[c] EXCEPT !.number = number] \in ContactRows
      BY <1>1, <2>1 DEF Used, ContactRows
    <3>2. QED
      BY <1>1, <3>1 DEF SetNumber
  <2>2. CASE ~Used(c)
    BY <1>1, <2>2 DEF SetNumber
  <2>3. QED
    BY <2>1, <2>2
<1>4. QED
  BY <1>2, <1>3

LEMMA CommitQuiet ==
  ASSUME IInv, NEW w \in Workers, handler[w].pc = "contact",
         NEW cs \in [ContactIds -> ContactRows], NEW c \in ContactIds \cup {None}, Commit(w, cs, c)
  PROVE  Quiet(w) /\ contacts' \in [ContactIds -> ContactRows]
<1> DEFINE h == [handler[w] EXCEPT !.pc = "ticket", !.contact = c]
<1>1. handler[w] \in Locals /\ Works(handler[w]) /\ contacts \in [ContactIds -> ContactRows]
  BY Typed DEF IInv, Shape
<1>2. CASE Unique(cs)
  <2>1. contacts' = cs /\ Goto(w, h) /\ UNCHANGED <<queue, gone>>
    BY <1>2 DEF Commit
  <2>2. h \in Locals /\ Works(h) /\ h.pc = "ticket"
    BY <1>1 DEF Locals, PCs, Works
  <2> HIDE DEF h
  <2>3. QED
    BY <2>1, <2>2, QuietMove
<1>3. CASE ~Unique(cs)
  BY <1>1, <1>3, QuietNack DEF Commit
<1>4. QED
  BY <1>2, <1>3

(* Rewriting the contact of rows leaves them rows of the same messages.     *)
LEMMA ReassignQuiet ==
  ASSUME IInv, NEW w \in Workers, handler[w].pc = "contact",
         NEW req \in [number : Numbers, lid : People \cup {None}],
         handler[w].byNumber # None, handler[w].byLid # None, ReassignAndDestroy(w, req)
  PROVE  /\ Quiet(w) /\ Stored' = Stored
         /\ contacts' \in [ContactIds -> ContactRows] /\ tickets' \in [TicketIds -> TicketRows]
         /\ messages' \in [Ids -> MessageRows \cup {None}]
<1> DEFINE keep == handler[w].byNumber
           old  == handler[w].byLid
           cs   == SetLid(keep, req.lid)
           moved == \/ \E t \in TicketIds : tickets[t].contact = old
                    \/ \E m \in Stored : messages[m].contact = old
           h    == [handler[w] EXCEPT !.pc = "ticket", !.contact = keep]
<1>1. /\ handler[w] \in Locals /\ Works(handler[w])
      /\ contacts \in [ContactIds -> ContactRows] /\ tickets \in [TicketIds -> TicketRows]
      /\ messages \in [Ids -> MessageRows \cup {None}]
  BY Typed DEF IInv, Shape
<1>2. keep \in ContactIds /\ old \in ContactIds
  BY <1>1 DEF Locals
<1>3. cs \in [ContactIds -> ContactRows]
  BY <1>2, SetType
<1>4. CASE Unique(cs) /\ (moved => Used(keep))
  <2>1. /\ contacts' = [cs EXCEPT ![old] = [NoContact EXCEPT !.st = "deleted"]]
        /\ Goto(w, h) /\ UNCHANGED <<queue, gone>>
    BY <1>4 DEF ReassignAndDestroy
  <2>2. \A t \in TicketIds :
          tickets'[t] = tickets[t] \/ tickets'[t] = [tickets[t] EXCEPT !.contact = keep]
    BY <1>4 DEF ReassignAndDestroy
  <2>3. \A m \in Ids :
          \/ messages'[m] = messages[m]
          \/ m \in Stored /\ messages'[m] = [messages[m] EXCEPT !.contact = keep]
    BY <1>4 DEF ReassignAndDestroy
  <2>4. DOMAIN tickets' = TicketIds /\ DOMAIN messages' = Ids
        /\ tickets' = [t \in TicketIds |-> tickets'[t]] /\ messages' = [m \in Ids |-> messages'[m]]
    BY <1>4 DEF ReassignAndDestroy
  <2>5. h \in Locals /\ Works(h) /\ h.pc = "ticket"
    BY <1>1, <1>2 DEF Locals, PCs, Works
  <2>6. contacts' \in [ContactIds -> ContactRows]
    <3>1. [NoContact EXCEPT !.st = "deleted"] \in ContactRows
      BY DEF NoContact, ContactRows
    <3>2. QED
      BY <1>3, <2>1, <3>1
  <2>7. \A t \in TicketIds : tickets'[t] \in TicketRows
    <3> TAKE t \in TicketIds
    <3>1. tickets[t] \in TicketRows
      BY <1>1
    <3>2. [tickets[t] EXCEPT !.contact = keep] \in TicketRows
      BY <1>2, <3>1 DEF TicketRows
    <3>3. QED
      BY <2>2, <3>1, <3>2
  <2>8. \A m \in Ids : messages'[m] \in MessageRows \cup {None} /\ (messages'[m] = None <=> messages[m] = None)
    <3> TAKE m \in Ids
    <3>1. CASE messages'[m] = messages[m]
      BY <1>1, <3>1
    <3>2. CASE m \in Stored /\ messages'[m] = [messages[m] EXCEPT !.contact = keep]
      <4>1. messages[m] \in MessageRows
        BY <1>1, <3>2 DEF Stored
      <4>2. messages'[m] \in MessageRows
        BY <1>2, <3>2, <4>1 DEF MessageRows
      <4>3. QED
        BY <3>2, <4>2, InboundAssumption DEF Stored
    <3>3. QED
      BY <2>3, <3>1, <3>2
  <2> HIDE DEF h
  <2>9. Quiet(w)
    BY <2>1, <2>5, QuietMove
  <2>10. tickets' \in [TicketIds -> TicketRows]
    BY <2>4, <2>7
  <2>11. messages' \in [Ids -> MessageRows \cup {None}]
    BY <2>4, <2>8
  <2>12. Stored' = Stored
    BY <2>8 DEF Stored
  <2>13. QED
    BY <2>6, <2>9, <2>10, <2>11, <2>12
<1>5. CASE ~(Unique(cs) /\ (moved => Used(keep)))
  <2>1. UNCHANGED rows /\ Nack(w)
    BY <1>5 DEF ReassignAndDestroy
  <2>2. QED
    BY <1>1, <2>1, QuietNack DEF rows, Stored
<1>6. QED
  BY <1>4, <1>5

LEMMA WriteContactQuiet ==
  ASSUME IInv, NEW w \in Workers, WriteContact(w)
  PROVE  /\ Quiet(w) /\ Stored' = Stored
         /\ contacts' \in [ContactIds -> ContactRows] /\ tickets' \in [TicketIds -> TicketRows]
         /\ messages' \in [Ids -> MessageRows \cup {None}]
<1> DEFINE h   == handler[w]
           req == addr[h.ev.msg]
<1>1. /\ h \in Locals /\ Works(h) /\ h.pc = "contact"
      /\ contacts \in [ContactIds -> ContactRows] /\ tickets \in [TicketIds -> TicketRows]
      /\ messages \in [Ids -> MessageRows \cup {None}]
  BY Typed DEF IInv, Shape, WriteContact
<1>2. req \in [number : Numbers, lid : People \cup {None}]
  BY <1>1, EventFacts DEF Works, IInv, TypeOK
<1>3. h.byNumber \in ContactIds \cup {None} /\ h.byLid \in ContactIds \cup {None}
  BY <1>1 DEF Locals
<1>4. /\ Quiet(w) /\ Stored' = Stored
      /\ contacts' \in [ContactIds -> ContactRows] /\ tickets' \in [TicketIds -> TicketRows]
      /\ messages' \in [Ids -> MessageRows \cup {None}]
  <2>1. CASE h.byNumber = None /\ h.byLid = None
    <3>1. InsertNew(w, req)
      BY <2>1 DEF WriteContact
    <3>2. UNCHANGED <<tickets, messages>>
      BY <3>1 DEF InsertNew
    <3>3. CASE UNCHANGED contacts /\ Nack(w)
      BY <1>1, <3>2, <3>3, QuietNack DEF Stored
    <3>4. CASE \E c \in ContactIds :
                 Commit(w, [contacts EXCEPT ![c] =
                             [st |-> "used", number |-> req.number, lid |-> req.lid]], c)
      <4>1. PICK c \in ContactIds :
                 Commit(w, [contacts EXCEPT ![c] =
                             [st |-> "used", number |-> req.number, lid |-> req.lid]], c)
        BY <3>4
      <4> DEFINE cs == [contacts EXCEPT ![c] = [st |-> "used", number |-> req.number, lid |-> req.lid]]
      <4>2. cs \in [ContactIds -> ContactRows]
        <5>1. [st |-> "used", number |-> req.number, lid |-> req.lid] \in ContactRows
          BY <1>2 DEF ContactRows
        <5>2. QED
          BY <1>1, <5>1
      <4>3. Commit(w, cs, c)
        BY <4>1
      <4> HIDE DEF cs
      <4>4. QED
        BY <1>1, <3>2, <4>2, <4>3, CommitQuiet DEF Stored
    <3>5. QED
      BY <3>1, <3>3, <3>4 DEF InsertNew
  <2>2. CASE h.byNumber = h.byLid /\ h.byNumber # None
    <3>1. Commit(w, contacts, h.byNumber) /\ UNCHANGED <<tickets, messages>>
      BY <2>2 DEF WriteContact
    <3>2. QED
      BY <1>1, <1>3, <3>1, CommitQuiet DEF Stored
  <2>3. CASE h.byNumber # h.byLid /\ h.byNumber # None /\ h.byLid # None
    <3>1. ReassignAndDestroy(w, req)
      BY <2>3 DEF WriteContact
    <3>2. QED
      BY <1>1, <1>2, <2>3, <3>1, ReassignQuiet
  <2>4. CASE h.byNumber # None /\ h.byLid = None
    <3>1. Commit(w, SetLid(h.byNumber, req.lid), h.byNumber) /\ UNCHANGED <<tickets, messages>>
      BY <2>4 DEF WriteContact
    <3>2. SetLid(h.byNumber, req.lid) \in [ContactIds -> ContactRows]
      BY <1>2, <1>3, SetType
    <3>3. QED
      BY <1>1, <1>3, <3>1, <3>2, CommitQuiet DEF Stored
  <2>5. CASE h.byNumber = None /\ h.byLid # None
    <3>1. Commit(w, SetNumber(h.byLid, req.number), h.byLid) /\ UNCHANGED <<tickets, messages>>
      BY <2>5 DEF WriteContact
    <3>2. SetNumber(h.byLid, req.number) \in [ContactIds -> ContactRows]
      BY <1>2, <1>3, SetType
    <3>3. QED
      BY <1>1, <1>3, <3>1, <3>2, CommitQuiet DEF Stored
  <2>6. QED
    BY <2>1, <2>2, <2>3, <2>4, <2>5
<1>5. QED
  BY <1>4

LEMMA WriteContactStep ==
  ASSUME IInv, NEW w \in Workers, WriteContact(w)
  PROVE  IInv'
<1>1. /\ Quiet(w) /\ Stored' = Stored
      /\ contacts' \in [ContactIds -> ContactRows] /\ tickets' \in [TicketIds -> TicketRows]
      /\ messages' \in [Ids -> MessageRows \cup {None}]
  BY WriteContactQuiet
<1>2. Durable'
  BY <1>1, QuietDurable DEF WriteContact, Done
<1>3. QED
  BY <1>1, <1>2, HandlerStep DEF WriteContact, Quiet, IInv, TypeOK

LEMMA FindOrCreateStep ==
  ASSUME IInv, NEW w \in Workers, FindOrCreate(w)
  PROVE  IInv'
<1> DEFINE h == handler[w]
<1>1. /\ h \in Locals /\ Works(h) /\ h.pc = "ticket" /\ h.contact \in ContactIds \cup {None}
      /\ contacts \in [ContactIds -> ContactRows] /\ tickets \in [TicketIds -> TicketRows]
      /\ messages \in [Ids -> MessageRows \cup {None}]
  BY Typed DEF IInv, Shape, FindOrCreate, Locals
<1>2. ASSUME NEW t \in TicketIds, Goto(w, [h EXCEPT !.pc = "create", !.ticket = t]),
             UNCHANGED <<queue, gone>>
      PROVE  Quiet(w)
  <2> DEFINE k == [h EXCEPT !.pc = "create", !.ticket = t]
  <2>1. k \in Locals /\ Works(k) /\ k.pc = "create" /\ Goto(w, k)
    BY <1>1, <1>2 DEF Locals, PCs, Works
  <2> HIDE DEF k
  <2>2. QED
    BY <1>2, <2>1, QuietMove
<1>3. Quiet(w) /\ tickets' \in [TicketIds -> TicketRows]
  <2>1. CASE Nack(w) /\ UNCHANGED tickets
    BY <1>1, <2>1, QuietNack
  <2>2. CASE (\E t \in TicketsOf(h.contact, "live") :
                Goto(w, [h EXCEPT !.pc = "create", !.ticket = t]) /\ UNCHANGED <<queue, gone>>)
             /\ UNCHANGED tickets
    BY <1>1, <1>2, <2>2 DEF TicketsOf
  <2>3. CASE \E t \in TicketIds :
               /\ tickets' = [tickets EXCEPT ![t] = [st |-> "live", contact |-> h.contact]]
               /\ Goto(w, [h EXCEPT !.pc = "create", !.ticket = t]) /\ UNCHANGED <<queue, gone>>
    <3>1. [st |-> "live", contact |-> h.contact] \in TicketRows
      BY <1>1 DEF TicketRows
    <3>2. QED
      BY <1>1, <1>2, <2>3, <3>1
  <2>4. QED
    BY <2>1, <2>2, <2>3 DEF FindOrCreate
<1>4. Durable'
  BY <1>3, QuietDurable DEF FindOrCreate, Done, Stored
<1>5. QED
  BY <1>1, <1>3, <1>4, HandlerStep DEF FindOrCreate, Quiet, IInv, TypeOK

(* A row once stored is there after the upsert of any other.                *)
LEMMA UpsertType ==
  ASSUME IInv, NEW m \in Ids, NEW t \in TicketIds \cup {None}, NEW c \in ContactIds \cup {None}, MayInsert(m, t, c)
  PROVE  /\ Upsert(m, t, c) \in [Ids -> MessageRows \cup {None}]
         /\ Upsert(m, t, c)[m] # None
         /\ \A k \in Ids : messages[k] # None => Upsert(m, t, c)[k] # None
         /\ messages[m] # None => Upsert(m, t, c)[m].ack >= messages[m].ack
<1>1. messages \in [Ids -> MessageRows \cup {None}] /\ tickets \in [TicketIds -> TicketRows]
  BY Typed DEF IInv
<1>2. CASE messages[m] # None
  <2>1. messages[m] \in MessageRows /\ Max2(messages[m].ack, 0) = messages[m].ack
    BY <1>1, <1>2 DEF MessageRows, Max2
  <2>2. [messages[m] EXCEPT !.ack = Max2(messages[m].ack, 0)] \in MessageRows
    BY <2>1 DEF MessageRows
  <2>3. Upsert(m, t, c) = [messages EXCEPT ![m] = [messages[m] EXCEPT !.ack = Max2(messages[m].ack, 0)]]
    BY <1>2 DEF Upsert
  <2>4. [messages[m] EXCEPT !.ack = Max2(messages[m].ack, 0)].ack = messages[m].ack
        /\ messages[m].ack >= messages[m].ack
    BY <2>1 DEF MessageRows
  <2> DEFINE row == [messages[m] EXCEPT !.ack = Max2(messages[m].ack, 0)]
  <2>5. row \in MessageRows /\ row # None /\ row.ack >= messages[m].ack
    BY <2>2, <2>4, InboundAssumption
  <2>6. Upsert(m, t, c) = [messages EXCEPT ![m] = row]
    BY <2>3
  <2> HIDE DEF row
  <2>7. QED
    BY <1>1, <2>5, <2>6
<1>3. CASE messages[m] = None
  <2>1. t \in TicketIds
    BY <1>3 DEF MayInsert, Kept
  <2> DEFINE row == [ticket |-> t, contact |-> c, ack |-> 0]
  <2>2. row \in MessageRows
    BY <2>1 DEF MessageRows
  <2>3. Upsert(m, t, c) = [messages EXCEPT ![m] = row]
    BY <1>3 DEF Upsert
  <2> HIDE DEF row
  <2>4. QED
    BY <1>1, <1>3, <2>2, <2>3, InboundAssumption
<1>4. QED
  BY <1>2, <1>3

LEMMA CreateStep ==
  ASSUME IInv, NEW w \in Workers, Create(w)
  PROVE  IInv'
<1> DEFINE h == handler[w]
           k == [h EXCEPT !.pc = "last"]
<1>1. /\ h \in Locals /\ Works(h) /\ h.pc = "create" /\ h.ev.msg \in Inbox /\ h.ev.msg \in Ids
      /\ h.ticket \in TicketIds \cup {None} /\ h.contact \in ContactIds \cup {None}
      /\ contacts \in [ContactIds -> ContactRows] /\ tickets \in [TicketIds -> TicketRows]
      /\ messages \in [Ids -> MessageRows \cup {None}]
  BY Typed, EventFacts DEF IInv, Shape, Works, Create, Locals, Ids
<1>a. PICK m \in Ids, c \in ContactIds \cup {None} :
        /\ m = h.ev.msg
        /\ IF MayInsert(m, h.ticket, c)
             THEN messages' = Upsert(m, h.ticket, c) /\ Goto(w, k) /\ UNCHANGED <<queue, gone>>
             ELSE UNCHANGED messages /\ Nack(w)
  <2>1. CASE h.ev.msg \in FromMe
    BY <1>1, <2>1 DEF Create
  <2>2. CASE h.ev.msg \notin FromMe
    BY <1>1, <2>2 DEF Create
  <2>3. QED
    BY <2>1, <2>2
<1>2. CASE MayInsert(m, h.ticket, c)
  <2>1. messages' = Upsert(m, h.ticket, c) /\ Goto(w, k) /\ UNCHANGED <<queue, gone>>
    BY <1>a, <1>2
  <2>2. /\ messages' \in [Ids -> MessageRows \cup {None}] /\ messages'[m] # None
        /\ \A i \in Ids : messages[i] # None => messages'[i] # None
    BY <1>1, <1>2, <2>1, UpsertType
  <2>3. k \in Locals /\ Works(k) /\ k.ev.msg = m
    BY <1>a, <1>1 DEF Locals, PCs, Works
  <2> HIDE DEF k
  <2>4. handler' \in [Workers -> Locals] /\ Shape' /\ Others(w) /\ handler'[w] = k
    BY <2>1, <2>3, Move
  <2>5. Done \subseteq Done' /\ m \in Done'
    BY <1>1, <2>2 DEF Create, Done, Stored
  <2>6. Durable'
    BY <2>1, <2>3, <2>4, <2>5, StaysDurable
  <2>7. QED
    BY <1>1, <2>1, <2>2, <2>4, <2>6, HandlerStep DEF Create, IInv, TypeOK
<1>3. CASE ~MayInsert(m, h.ticket, c)
  <2>1. UNCHANGED messages /\ Nack(w)
    BY <1>a, <1>3
  <2>2. Quiet(w)
    BY <2>1, QuietNack
  <2>3. Durable'
    BY <2>1, <2>2, QuietDurable DEF Create, Done, Stored
  <2>4. QED
    BY <1>1, <2>1, <2>2, <2>3, HandlerStep DEF Create, Quiet, IInv, TypeOK
<1>4. QED
  BY <1>2, <1>3

LEMMA LastMessageStep ==
  ASSUME IInv, NEW w \in Workers, LastMessage(w)
  PROVE  IInv'
<1> DEFINE h == handler[w]
           k == [h EXCEPT !.pc = "ack"]
<1>1. h \in Locals /\ Works(h) /\ h.pc = "last" /\ UNCHANGED rows /\ Done' = Done
  BY Typed DEF IInv, Shape, LastMessage, rows, Done, Stored
<1>2. CASE Goto(w, k) /\ UNCHANGED <<queue, gone>>
  <2>1. k \in Locals /\ Works(k) /\ k.ev = h.ev
    BY <1>1 DEF Locals, PCs, Works
  <2> HIDE DEF k
  <2>2. handler' \in [Workers -> Locals] /\ Shape' /\ Others(w) /\ handler'[w] = k
    BY <1>2, <2>1, Move
  <2>3. Durable'
    BY <1>1, <1>2, <2>1, <2>2, StaysDurable DEF IInv, Durable
  <2>4. QED
    BY <1>2, <2>2, <2>3, Typed, HandlerStep DEF LastMessage, rows, IInv, TypeOK
<1>3. CASE Nack(w)
  <2>1. Quiet(w)
    BY <1>3, QuietNack
  <2>2. Durable'
    BY <1>1, <2>1, QuietDurable
  <2>3. QED
    BY <2>1, <2>2, Typed, HandlerStep DEF LastMessage, Quiet, rows, IInv, TypeOK
<1>4. QED
  BY <1>2, <1>3 DEF LastMessage

LEMMA UpdateAckStep ==
  ASSUME IInv, NEW w \in Workers, UpdateAck(w)
  PROVE  IInv'
<1> DEFINE h == handler[w]
           m == h.ev.msg
           k == [h EXCEPT !.pc = "ack"]
<1>1. /\ h \in Locals /\ Works(h) /\ h.pc = "receipt" /\ m \in Ids /\ h.ev.ack \in {0, 2, 3}
      /\ messages \in [Ids -> MessageRows \cup {None}] /\ Goto(w, k)
  BY Typed, EventFacts DEF IInv, Shape, Works, UpdateAck
<1>2. messages' \in [Ids -> MessageRows \cup {None}] /\ Stored' = Stored
  <2>1. CASE messages[m] = None
    BY <1>1, <2>1 DEF UpdateAck, Stored
  <2>2. CASE messages[m] # None
    <3> DEFINE row == [messages[m] EXCEPT !.ack = h.ev.ack]
    <3>1. messages[m] \in MessageRows
      BY <1>1, <2>2
    <3>2. row \in MessageRows
      BY <1>1, <3>1 DEF MessageRows
    <3>3. messages' = [messages EXCEPT ![m] = row]
      BY <2>2 DEF UpdateAck
    <3> HIDE DEF row
    <3>4. QED
      BY <1>1, <2>2, <3>2, <3>3, InboundAssumption DEF Stored
  <2>3. QED
    BY <2>1, <2>2
<1>3. k \in Locals /\ Works(k) /\ k.ev.kind = "receipt"
  BY <1>1 DEF Locals, PCs, Works
<1> HIDE DEF k
<1>4. handler' \in [Workers -> Locals] /\ Shape' /\ Others(w) /\ handler'[w] = k
  BY <1>1, <1>3, Move
<1>5. Durable'
  BY <1>2, <1>3, <1>4, StaysDurable DEF UpdateAck, Done
<1>6. QED
  BY <1>2, <1>4, <1>5, Typed, HandlerStep DEF UpdateAck, IInv, TypeOK

-----------------------------------------------------------------------------
(* Agents and faults.                                                       *)

LEMMA StillShaped ==
  ASSUME IInv, UNCHANGED <<handler, gone>>, Done \subseteq Done'
  PROVE  Shape' /\ Durable'
BY DEF IInv, Shape, Durable, NothingLost, Done

LEMMA SendRpcStep ==
  ASSUME IInv, NEW m \in Sent, NEW t \in TicketIds, SendRpc(m, t)
  PROVE  IInv'
<1>1. sent' \in [Sent -> Sends]
  <2>1. tickets[t].contact \in ContactIds \cup {None} /\ sent \in [Sent -> Sends]
    BY Typed DEF IInv, TicketRows
  <2>2. [pc |-> "out", ticket |-> t, contact |-> tickets[t].contact] \in Sends
    BY <2>1 DEF Sends
  <2>3. QED
    BY <2>1, <2>2 DEF SendRpc
<1>2. queue' \subseteq Events
  BY DEF SendRpc, IInv, TypeOK, Events
<1>3. Shape' /\ Durable'
  BY StillShaped DEF SendRpc, rows, Done, Stored
<1>4. TypeOK'
  BY <1>1, <1>2 DEF SendRpc, rows, IInv, TypeOK, Sends
<1>5. QED
  BY <1>3, <1>4 DEF IInv

LEMMA SendRecordStep ==
  ASSUME IInv, NEW m \in Sent, SendRecord(m)
  PROVE  IInv'
<1>1. /\ sent \in [Sent -> Sends] /\ messages \in [Ids -> MessageRows \cup {None}] /\ m \in Ids
      /\ sent[m].ticket \in TicketIds \cup {None} /\ sent[m].contact \in ContactIds \cup {None}
  BY Typed DEF IInv, Sends, Ids
<1>2. sent' \in [Sent -> Sends]
  <2>1. [sent[m] EXCEPT !.pc = "done"] \in Sends
    BY <1>1 DEF Sends
  <2>2. QED
    BY <1>1, <2>1 DEF SendRecord
<1>3. messages' \in [Ids -> MessageRows \cup {None}] /\ Done \subseteq Done'
  <2>1. CASE MayInsert(m, sent[m].ticket, sent[m].contact)
    <3>1. messages' = Upsert(m, sent[m].ticket, sent[m].contact)
      BY <2>1 DEF SendRecord
    <3>2. /\ messages' \in [Ids -> MessageRows \cup {None}]
          /\ \A k \in Ids : messages[k] # None => messages'[k] # None
      BY <1>1, <2>1, <3>1, UpsertType
    <3>3. QED
      BY <3>2 DEF SendRecord, Done, Stored
  <2>2. CASE ~MayInsert(m, sent[m].ticket, sent[m].contact)
    BY <1>1, <2>2 DEF SendRecord, Done, Stored
  <2>3. QED
    BY <2>1, <2>2
<1>4. Shape' /\ Durable'
  BY <1>3, StillShaped DEF SendRecord
<1>5. TypeOK'
  BY <1>2, <1>3 DEF SendRecord, IInv, TypeOK, Sends
<1>6. QED
  BY <1>4, <1>5 DEF IInv

LEMMA CloseTicketStep ==
  ASSUME IInv, NEW t \in TicketIds, CloseTicket(t)
  PROVE  IInv'
<1>1. tickets' \in [TicketIds -> TicketRows]
  <2>1. tickets \in [TicketIds -> TicketRows]
    BY Typed DEF IInv
  <2>2. [tickets[t] EXCEPT !.st = "closed"] \in TicketRows
    BY <2>1 DEF TicketRows
  <2>3. QED
    BY <2>1, <2>2 DEF CloseTicket
<1>2. Shape' /\ Durable'
  BY StillShaped DEF CloseTicket, Done, Stored
<1>3. TypeOK'
  BY <1>1 DEF CloseTicket, IInv, TypeOK, TicketRows
<1>4. QED
  BY <1>2, <1>3 DEF IInv

LEMMA Removal ==
  ASSUME IInv, NEW S \in SUBSET Stored, RemoveMessages(S)
  PROVE  /\ messages' \in [Ids -> MessageRows \cup {None}]
         /\ removed' \subseteq Ids /\ Done \subseteq Done'
<1>1. messages \in [Ids -> MessageRows \cup {None}]
  BY Typed DEF IInv
<1>2. QED
  BY <1>1 DEF RemoveMessages, IInv, TypeOK, Done, Stored

LEMMA FaultCounted ==
  ASSUME IInv, Fault PROVE faults' \in 0..MaxFaults
BY InboundAssumption DEF IInv, TypeOK, Fault

LEMMA DeleteMessageStep ==
  ASSUME IInv, NEW m \in Ids, DeleteMessage(m)
  PROVE  IInv'
<1>1. messages' \in [Ids -> MessageRows \cup {None}] /\ removed' \subseteq Ids /\ Done \subseteq Done'
  BY Removal DEF DeleteMessage
<1>2. Shape' /\ Durable'
  BY <1>1, StillShaped DEF DeleteMessage
<1>3. faults' \in 0..MaxFaults
  BY FaultCounted DEF DeleteMessage
<1>4. TypeOK'
  BY <1>1, <1>3 DEF DeleteMessage, IInv, TypeOK
<1>5. QED
  BY <1>2, <1>4 DEF IInv

LEMMA DeleteTicketStep ==
  ASSUME IInv, NEW t \in TicketIds, DeleteTicket(t)
  PROVE  IInv'
<1>1. messages' \in [Ids -> MessageRows \cup {None}] /\ removed' \subseteq Ids /\ Done \subseteq Done'
  BY Removal DEF DeleteTicket
<1>2. Shape' /\ Durable'
  BY <1>1, StillShaped DEF DeleteTicket
<1>3. faults' \in 0..MaxFaults
  BY FaultCounted DEF DeleteTicket
<1>4. tickets' \in [TicketIds -> TicketRows]
  BY Typed DEF IInv, DeleteTicket, TicketRows
<1>5. TypeOK'
  BY <1>1, <1>3, <1>4 DEF DeleteTicket, IInv, TypeOK, TicketRows
<1>6. QED
  BY <1>2, <1>5 DEF IInv

LEMMA DeleteContactStep ==
  ASSUME IInv, NEW c \in ContactIds, DeleteContact(c)
  PROVE  IInv'
<1>1. messages' \in [Ids -> MessageRows \cup {None}] /\ removed' \subseteq Ids /\ Done \subseteq Done'
  BY Removal DEF DeleteContact
<1>2. Shape' /\ Durable'
  BY <1>1, StillShaped DEF DeleteContact
<1>3. faults' \in 0..MaxFaults
  BY FaultCounted DEF DeleteContact
<1>4. tickets' \in [TicketIds -> TicketRows]
  BY Typed DEF IInv, DeleteContact, TicketRows
<1>5. contacts' \in [ContactIds -> ContactRows]
  <2>1. [NoContact EXCEPT !.st = "deleted"] \in ContactRows
    BY DEF NoContact, ContactRows
  <2>2. QED
    BY <2>1, Typed DEF IInv, DeleteContact
<1>6. TypeOK'
  BY <1>1, <1>3, <1>4, <1>5 DEF DeleteContact, IInv, TypeOK, TicketRows, ContactRows
<1>7. QED
  BY <1>2, <1>6 DEF IInv

LEMMA DbErrorStep ==
  ASSUME IInv, NEW w \in Workers, DbError(w)
  PROVE  IInv'
<1>1. UNCHANGED rows /\ Done' = Done /\ faults' \in 0..MaxFaults
  BY FaultCounted DEF DbError, rows, Done, Stored
<1>2. CASE Nack(w)
  <2>1. Quiet(w)
    BY <1>2, QuietNack
  <2>2. Durable'
    BY <1>1, <2>1, QuietDurable
  <2>3. QED
    BY <1>1, <2>1, <2>2, Typed, HandlerStep DEF DbError, Quiet, rows, IInv, TypeOK
<1>3. CASE /\ handler[w].pc = "receipt" /\ Goto(w, [handler[w] EXCEPT !.pc = "ack"])
           /\ UNCHANGED <<queue, gone>>
  <2> DEFINE k == [handler[w] EXCEPT !.pc = "ack"]
  <2>1. handler[w] \in Locals /\ Works(handler[w])
    BY Typed DEF IInv, Shape
  <2>2. k \in Locals /\ Works(k) /\ k.ev.kind = "receipt" /\ Goto(w, k)
    BY <1>3, <2>1 DEF Locals, PCs, Works
  <2> HIDE DEF k
  <2>3. handler' \in [Workers -> Locals] /\ Shape' /\ Others(w) /\ handler'[w] = k
    BY <2>2, Move
  <2>4. Durable'
    BY <1>1, <1>3, <2>2, <2>3, StaysDurable
  <2>5. QED
    BY <1>1, <1>3, <2>3, <2>4, Typed, HandlerStep DEF DbError, rows, IInv, TypeOK
<1>4. QED
  BY <1>2, <1>3 DEF DbError

LEMMA UnackedType == IInv => Unacked \subseteq Events
BY DEF IInv, Shape, Works, Unacked

LEMMA ConnectionLostStep ==
  ASSUME IInv, ConnectionLost
  PROVE  IInv'
<1>1. /\ queue' \subseteq Events /\ gone' = gone /\ Done' = Done
      /\ faults' \in 0..MaxFaults /\ handler \in [Workers -> Locals]
  BY UnackedType, FaultCounted, Typed DEF ConnectionLost, rows, Done, Stored, IInv, TypeOK
<1>2. \A v \in Workers :
        /\ handler'[v] \in Locals /\ Works(handler'[v])
        /\ handler'[v].pc = handler[v].pc /\ handler'[v].ev = handler[v].ev
  <2> TAKE v \in Workers
  <2>1. handler[v] \in Locals /\ Works(handler[v])
    BY <1>1 DEF IInv, Shape
  <2>2. handler'[v] = [handler[v] EXCEPT !.valid = FALSE]
    BY DEF ConnectionLost
  <2>3. QED
    BY <2>1, <2>2 DEF Locals, Works
<1>3. handler' \in [Workers -> Locals] /\ Shape'
  BY <1>2 DEF ConnectionLost, Shape
<1>4. Durable'
  BY <1>1, <1>2 DEF IInv, Durable, NothingLost, Done
<1>5. QED
  BY <1>1, <1>3, <1>4, Typed, HandlerStep DEF ConnectionLost, rows, IInv, TypeOK

LEMMA CrashStep ==
  ASSUME IInv, Crash
  PROVE  IInv'
<1>1. /\ queue' \subseteq Events /\ gone' = gone /\ Done' = Done /\ faults' \in 0..MaxFaults
  BY UnackedType, FaultCounted DEF Crash, rows, Done, Stored, IInv, TypeOK
<1>2. handler' \in [Workers -> Locals] /\ Shape' /\ \A w \in Workers : handler'[w].pc = "idle"
  BY IdleType DEF Crash, Shape, Idle
<1>3. Durable'
  BY <1>1, <1>2 DEF IInv, Durable, NothingLost, Done
<1>4. sent' \in [Sent -> Sends]
  <2>1. sent \in [Sent -> Sends]
    BY Typed DEF IInv
  <2>2. \A m \in Sent : [sent[m] EXCEPT !.pc = "done"] \in Sends
    BY <2>1 DEF Sends
  <2>3. QED
    BY <2>1, <2>2 DEF Crash
<1>5. TypeOK'
  BY <1>1, <1>2, <1>4 DEF Crash, rows, IInv, TypeOK, Locals, PCs, Sends
<1>6. QED
  BY <1>2, <1>3, <1>5 DEF IInv

-----------------------------------------------------------------------------
(* The theorems.                                                            *)

LEMMA NextInv == IInv /\ [Next]_vars => IInv'
<1> SUFFICES ASSUME IInv, [Next]_vars PROVE IInv'
  OBVIOUS
<1>1. ASSUME NEW w \in Workers, Handle(w) PROVE IInv'
  BY <1>1, FindByNumberStep, FindByLidStep, WriteContactStep, FindOrCreateStep, CreateStep,
     LastMessageStep, UpdateAckStep, AckStep DEF Handle
<1>2. ASSUME NEW w \in Workers, NEW e \in Events, Take(w, e) PROVE IInv'
  BY <1>2, TakeStep
<1>3. ASSUME NEW w \in Workers, DbError(w) PROVE IInv'
  BY <1>3, DbErrorStep
<1>4. ASSUME NEW m \in Sent, SendRecord(m) \/ \E t \in TicketIds : SendRpc(m, t) PROVE IInv'
  BY <1>4, SendRecordStep, SendRpcStep
<1>5. ASSUME NEW t \in TicketIds, CloseTicket(t) \/ DeleteTicket(t) PROVE IInv'
  BY <1>5, CloseTicketStep, DeleteTicketStep
<1>6. ASSUME NEW m \in Ids, DeleteMessage(m) PROVE IInv'
  BY <1>6, DeleteMessageStep
<1>7. ASSUME NEW c \in ContactIds, DeleteContact(c) PROVE IInv'
  BY <1>7, DeleteContactStep
<1>8. CASE ConnectionLost \/ Crash
  BY <1>8, ConnectionLostStep, CrashStep
<1>9. CASE UNCHANGED vars
  BY <1>9 DEF vars, rows, IInv, TypeOK, Shape, Durable, NothingLost, Done, Stored
<1>10. QED
  BY <1>1, <1>2, <1>3, <1>4, <1>5, <1>6, <1>7, <1>8, <1>9 DEF Next

LEMMA Invariance == Spec => []IInv
BY InitInv, NextInv, PTL DEF Spec

(* The types of the queue, the handlers and the rows.                       *)
THEOREM TypeCorrect == Spec => []TypeOK
<1>1. IInv => TypeOK
  BY DEF IInv
<1>2. QED
  BY <1>1, Invariance, PTL

(* An acknowledged message is stored or was removed by an agent, whatever   *)
(* failed, was redelivered or deleted in between.                           *)
THEOREM AcknowledgedIsStored == Spec => []NothingLost
<1>1. IInv => NothingLost
  BY DEF IInv, Durable
<1>2. QED
  BY <1>1, Invariance, PTL

(* A handler's step leaves the other handlers alone.                        *)
LEMMA OthersStay ==
  ASSUME IInv, NEW w \in Workers, Handle(w) \/ DbError(w) \/ \E e \in Events : Take(w, e)
  PROVE  Others(w)
<1>1. ASSUME NEW h, Goto(w, h) PROVE Others(w)
  BY <1>1, Typed DEF IInv, Goto, Others
<1>2. Nack(w) => Others(w)
  BY <1>1 DEF Nack
<1>3. ASSUME NEW cs, NEW c, Commit(w, cs, c) PROVE Others(w)
  BY <1>1, <1>2, <1>3 DEF Commit
<1>4. ASSUME NEW req, InsertNew(w, req) PROVE Others(w)
  BY <1>2, <1>3, <1>4 DEF InsertNew
<1>5. ASSUME NEW req, ReassignAndDestroy(w, req) PROVE Others(w)
  BY <1>1, <1>2, <1>5 DEF ReassignAndDestroy
<1>6. WriteContact(w) => Others(w)
  BY <1>3, <1>4, <1>5 DEF WriteContact
<1>7. FindOrCreate(w) => Others(w)
  BY <1>1, <1>2 DEF FindOrCreate
<1>8. Create(w) \/ LastMessage(w) \/ UpdateAck(w) \/ Ack(w) => Others(w)
  BY <1>1, <1>2 DEF Create, LastMessage, UpdateAck, Ack
<1>9. FindByNumber(w) \/ FindByLid(w) \/ DbError(w) \/ (\E e \in Events : Take(w, e)) => Others(w)
  BY <1>1, <1>2 DEF FindByNumber, FindByLid, DbError, Take
<1>10. QED
  BY <1>6, <1>7, <1>8, <1>9 DEF Handle

LEMMA OnlyCreate ==
  ASSUME IInv, Next, NEW w \in Workers, handler[w].pc = "create", handler'[w].pc = "last"
  PROVE  Create(w)
<1>1. handler' # handler
  OBVIOUS
<1>2. ASSUME NEW v \in Workers, Handle(v) \/ DbError(v) \/ \E e \in Events : Take(v, e)
      PROVE  Create(w)
  <2>1. v = w
    BY <1>2, OthersStay DEF Others
  <2>2. ~(\E e \in Events : Take(w, e))
    BY DEF Take
  <2>3. ~DbError(w)
    <3>1. Nack(w) => handler'[w].pc = "idle"
      BY Typed DEF IInv, Nack, Goto, Idle
    <3>2. QED
      BY <3>1 DEF DbError
  <2>4. ~(\/ FindByNumber(w) \/ FindByLid(w) \/ WriteContact(w) \/ FindOrCreate(w)
          \/ LastMessage(w) \/ UpdateAck(w) \/ Ack(w))
    BY DEF FindByNumber, FindByLid, WriteContact, FindOrCreate, LastMessage, UpdateAck, Ack
  <2>5. QED
    BY <1>2, <2>1, <2>2, <2>3, <2>4 DEF Handle
<1>3. ASSUME NEW m \in Sent, SendRecord(m) \/ \E t \in TicketIds : SendRpc(m, t) PROVE FALSE
  BY <1>1, <1>3 DEF SendRecord, SendRpc
<1>4. ASSUME NEW t \in TicketIds, CloseTicket(t) \/ DeleteTicket(t) PROVE FALSE
  BY <1>1, <1>4 DEF CloseTicket, DeleteTicket
<1>5. ASSUME NEW m \in Ids, DeleteMessage(m) PROVE FALSE
  BY <1>1, <1>5 DEF DeleteMessage
<1>6. ASSUME NEW c \in ContactIds, DeleteContact(c) PROVE FALSE
  BY <1>1, <1>6 DEF DeleteContact
<1>7. ~ConnectionLost
  <2>1. ASSUME ConnectionLost PROVE handler'[w].pc = handler[w].pc
    <3>1. handler[w] \in Locals /\ handler'[w] = [handler[w] EXCEPT !.valid = FALSE]
      BY <2>1, Typed DEF IInv, ConnectionLost
    <3>2. QED
      BY <3>1 DEF Locals
  <2>2. QED
    BY <2>1
<1>8. ~Crash
  BY DEF Crash, Idle
<1>9. QED
  BY <1>2, <1>3, <1>4, <1>5, <1>6, <1>7, <1>8 DEF Next

(* Storing a message again, as after a redelivery, never lowers its ack.    *)
THEOREM RedeliveryKeepsAck == Spec => UpsertKeepsAck
<1>1. IInv /\ [Next]_vars =>
        [\A w \in Workers : handler[w].pc = "create" /\ handler'[w].pc = "last" =>
           LET m == handler[w].ev.msg IN m \in Stored => messages'[m].ack >= messages[m].ack]_vars
  <2> SUFFICES ASSUME IInv, Next, NEW w \in Workers, handler[w].pc = "create", handler'[w].pc = "last",
                      handler[w].ev.msg \in Stored
               PROVE  messages'[handler[w].ev.msg].ack >= messages[handler[w].ev.msg].ack
    OBVIOUS
  <2>1. Create(w) /\ handler[w].ev.msg \in Ids /\ messages[handler[w].ev.msg] # None
    BY OnlyCreate DEF Stored
  <2>2. PICK c : MayInsert(handler[w].ev.msg, handler[w].ticket, c)
                 /\ messages' = Upsert(handler[w].ev.msg, handler[w].ticket, c)
    <3>1. ~Nack(w)
      BY Typed DEF IInv, Nack, Goto, Idle
    <3>2. QED
      BY <2>1, <3>1 DEF Create
  <2>3. messages' = Upsert(handler[w].ev.msg, handler[w].ticket, None)
        /\ MayInsert(handler[w].ev.msg, handler[w].ticket, None)
    BY <2>1, <2>2 DEF Upsert, MayInsert
  <2>4. handler[w].ticket \in TicketIds \cup {None}
    BY Typed DEF IInv, Locals
  <2>5. QED
    BY <2>1, <2>3, <2>4, UpsertType
<1>2. QED
  BY <1>1, Invariance, PTL DEF Spec, UpsertKeepsAck

-----------------------------------------------------------------------------
(* Where an event is.  Delivery "at least once" means that the broker never *)
(* forgets an event by itself and never hands it to two handlers that could *)
(* both acknowledge it.                                                     *)

Holds(w, e) == handler[w].valid /\ handler[w].ev = e
Held(e)     == \E w \in Workers : Holds(w, e)
Issued(e)   == e.msg \in Sent => sent[e.msg].pc # "no"

(* Every event that was published is in exactly one place: ready for        *)
(* delivery, forgotten because it was acknowledged, or in the hands of the  *)
(* one handler that can acknowledge it.                                     *)
EventIsInOnePlace ==
  \A e \in Events :
    /\ Issued(e) <=> e \in queue \/ e \in gone \/ Held(e)
    /\ ~(e \in queue /\ e \in gone)
    /\ Held(e) => e \notin queue /\ e \notin gone
    /\ \A w, v \in Workers : Holds(w, e) /\ Holds(v, e) => w = v

(* A handler that waits for a delivery has none to acknowledge.             *)
IdleIsFree == \A w \in Workers : handler[w].pc = "idle" => ~handler[w].valid

(* What a handler's step does to its delivery: it keeps it, gives it back   *)
(* or acknowledges it.                                                      *)
Keeps(w) == /\ queue' = queue /\ gone' = gone
            /\ handler'[w].valid = handler[w].valid /\ handler'[w].ev = handler[w].ev
            /\ handler'[w].pc # "idle"
GivesBack(w) == /\ queue' = IF handler[w].valid THEN queue \cup {handler[w].ev} ELSE queue
                /\ gone' = gone /\ handler'[w].valid = FALSE
Settles(w) == /\ gone' = IF handler[w].valid THEN gone \cup {handler[w].ev} ELSE gone
              /\ queue' = queue /\ handler'[w].valid = FALSE

LEMMA KeepsOrGivesBack ==
  ASSUME IInv, NEW w \in Workers, (Handle(w) /\ ~Ack(w)) \/ DbError(w)
  PROVE  Keeps(w) \/ GivesBack(w)
<1> DEFINE h == handler[w]
<1>0. h \in Locals /\ handler \in [Workers -> Locals]
  BY Typed DEF IInv
<1>1. Nack(w) => GivesBack(w)
  BY <1>0 DEF Nack, Goto, GivesBack, Idle
<1>2. ASSUME NEW g, Goto(w, g), g.valid = h.valid, g.ev = h.ev, g.pc # "idle", queue' = queue, gone' = gone
      PROVE  Keeps(w)
  BY <1>0, <1>2 DEF Goto, Keeps
<1>3. ASSUME NEW pc \in PCs \ {"idle"}, NEW n, Goto(w, [h EXCEPT !.pc = pc, !.byNumber = n]),
             queue' = queue, gone' = gone
      PROVE  Keeps(w)
  <2>1. [h EXCEPT !.pc = pc, !.byNumber = n].valid = h.valid
        /\ [h EXCEPT !.pc = pc, !.byNumber = n].ev = h.ev
        /\ [h EXCEPT !.pc = pc, !.byNumber = n].pc = pc
    BY <1>0 DEF Locals
  <2>2. QED
    BY <1>2, <1>3, <2>1
<1>4. ASSUME NEW pc \in PCs \ {"idle"}, NEW n, Goto(w, [h EXCEPT !.pc = pc, !.byLid = n]),
             queue' = queue, gone' = gone
      PROVE  Keeps(w)
  <2>1. [h EXCEPT !.pc = pc, !.byLid = n].valid = h.valid
        /\ [h EXCEPT !.pc = pc, !.byLid = n].ev = h.ev
        /\ [h EXCEPT !.pc = pc, !.byLid = n].pc = pc
    BY <1>0 DEF Locals
  <2>2. QED
    BY <1>2, <1>4, <2>1
<1>5. ASSUME NEW pc \in PCs \ {"idle"}, NEW c, Goto(w, [h EXCEPT !.pc = pc, !.contact = c]),
             queue' = queue, gone' = gone
      PROVE  Keeps(w)
  <2>1. [h EXCEPT !.pc = pc, !.contact = c].valid = h.valid
        /\ [h EXCEPT !.pc = pc, !.contact = c].ev = h.ev
        /\ [h EXCEPT !.pc = pc, !.contact = c].pc = pc
    BY <1>0 DEF Locals
  <2>2. QED
    BY <1>2, <1>5, <2>1
<1>6. ASSUME NEW pc \in PCs \ {"idle"}, NEW t, Goto(w, [h EXCEPT !.pc = pc, !.ticket = t]),
             queue' = queue, gone' = gone
      PROVE  Keeps(w)
  <2>1. [h EXCEPT !.pc = pc, !.ticket = t].valid = h.valid
        /\ [h EXCEPT !.pc = pc, !.ticket = t].ev = h.ev
        /\ [h EXCEPT !.pc = pc, !.ticket = t].pc = pc
    BY <1>0 DEF Locals
  <2>2. QED
    BY <1>2, <1>6, <2>1
<1>7. ASSUME NEW pc \in PCs \ {"idle"}, Goto(w, [h EXCEPT !.pc = pc]), queue' = queue, gone' = gone
      PROVE  Keeps(w)
  <2>1. [h EXCEPT !.pc = pc].valid = h.valid /\ [h EXCEPT !.pc = pc].ev = h.ev
        /\ [h EXCEPT !.pc = pc].pc = pc
    BY <1>0 DEF Locals
  <2>2. QED
    BY <1>2, <1>7, <2>1
<1>8. FindByNumber(w) => Keeps(w)
  BY <1>3 DEF FindByNumber, PCs
<1>9. FindByLid(w) => Keeps(w)
  BY <1>4 DEF FindByLid, PCs
<1>10. ASSUME NEW cs, NEW c, Commit(w, cs, c) PROVE Keeps(w) \/ GivesBack(w)
  BY <1>1, <1>5, <1>10 DEF Commit, PCs
<1>11. ASSUME NEW req, InsertNew(w, req) PROVE Keeps(w) \/ GivesBack(w)
  BY <1>1, <1>10, <1>11 DEF InsertNew
<1>12. ASSUME NEW req, ReassignAndDestroy(w, req) PROVE Keeps(w) \/ GivesBack(w)
  BY <1>1, <1>5, <1>12 DEF ReassignAndDestroy, PCs
<1>13. WriteContact(w) => Keeps(w) \/ GivesBack(w)
  BY <1>10, <1>11, <1>12 DEF WriteContact
<1>14. FindOrCreate(w) => Keeps(w) \/ GivesBack(w)
  BY <1>1, <1>6 DEF FindOrCreate, PCs
<1>15. Create(w) => Keeps(w) \/ GivesBack(w)
  BY <1>1, <1>7 DEF Create, PCs
<1>16. LastMessage(w) \/ UpdateAck(w) => Keeps(w) \/ GivesBack(w)
  BY <1>1, <1>7 DEF LastMessage, UpdateAck, PCs
<1>17. DbError(w) => Keeps(w) \/ GivesBack(w)
  BY <1>1, <1>7 DEF DbError, PCs
<1>18. QED
  BY <1>8, <1>9, <1>13, <1>14, <1>15, <1>16, <1>17 DEF Handle

LEMMA PlaceKept ==
  ASSUME EventIsInOnePlace, queue' = queue, gone' = gone,
         \A e \in Events : Issued(e)' <=> Issued(e),
         \A w \in Workers, e \in Events : Holds(w, e)' <=> Holds(w, e)
  PROVE  EventIsInOnePlace'
BY DEF EventIsInOnePlace, Held

(* One handler lets go of its delivery, the events it could acknowledge     *)
(* move to the queue or to what the broker has forgotten.                   *)
LEMMA PlaceMoved ==
  ASSUME IInv, EventIsInOnePlace, NEW w \in Workers, sent' = sent, Others(w),
         Keeps(w) \/ GivesBack(w) \/ Settles(w)
  PROVE  EventIsInOnePlace'
<1>1. \A e \in Events : Issued(e)' <=> Issued(e)
  BY DEF Issued
<1>2. \A v \in Workers, e \in Events : v # w => (Holds(v, e)' <=> Holds(v, e))
  BY DEF Others, Holds
<1>3. CASE Keeps(w)
  <2>1. \A e \in Events : Holds(w, e)' <=> Holds(w, e)
    BY <1>3 DEF Keeps, Holds
  <2>2. \A v \in Workers, e \in Events : Holds(v, e)' <=> Holds(v, e)
    BY <1>2, <2>1
  <2>3. QED
    BY <1>1, <1>3, <2>2, PlaceKept DEF Keeps
<1>4. CASE GivesBack(w) \/ Settles(w)
  <2>1. \A e \in Events : ~Holds(w, e)'
    BY <1>4 DEF GivesBack, Settles, Holds
  <2>2. CASE ~handler[w].valid
    <3>1. \A e \in Events : ~Holds(w, e)
      BY <2>2 DEF Holds
    <3>2. queue' = queue /\ gone' = gone
      BY <1>4, <2>2 DEF GivesBack, Settles
    <3>3. \A v \in Workers, e \in Events : Holds(v, e)' <=> Holds(v, e)
      BY <1>2, <2>1, <3>1
    <3>4. QED
      BY <1>1, <3>2, <3>3, PlaceKept
  <2>3. CASE handler[w].valid
    <3>1. PICK x \in Events : x = handler[w].ev
      BY <2>3 DEF IInv, Shape, Works
    <3>2. \A e \in Events : Holds(w, e) <=> e = x
      BY <2>3, <3>1 DEF Holds
    <3>3. \/ queue' = queue \cup {x} /\ gone' = gone
          \/ queue' = queue /\ gone' = gone \cup {x}
      BY <1>4, <2>3, <3>1 DEF GivesBack, Settles
    <3>4. ASSUME NEW e \in Events
          PROVE  /\ Issued(e)' <=> e \in queue' \/ e \in gone' \/ Held(e)'
                 /\ ~(e \in queue' /\ e \in gone')
                 /\ Held(e)' => e \notin queue' /\ e \notin gone'
                 /\ \A v, u \in Workers : Holds(v, e)' /\ Holds(u, e)' => v = u
      <4>0. /\ Issued(e) <=> e \in queue \/ e \in gone \/ Held(e)
            /\ ~(e \in queue /\ e \in gone)
            /\ Held(e) => e \notin queue /\ e \notin gone
            /\ \A v, u \in Workers : Holds(v, e) /\ Holds(u, e) => v = u
        BY DEF EventIsInOnePlace
      <4>1. CASE e = x
        <5>1. Held(e) /\ e \notin queue /\ e \notin gone
          BY <3>2, <4>0, <4>1 DEF Held
        <5>2. ~Held(e)'
          <6>1. \A v \in Workers : ~Holds(v, e)'
            BY <1>2, <2>1, <3>2, <4>0, <4>1
          <6>2. QED
            BY <6>1 DEF Held
        <5>3. \A v \in Workers : ~Holds(v, e)'
          BY <5>2 DEF Held
        <5>4. QED
          BY <1>1, <3>3, <4>0, <4>1, <5>1, <5>2, <5>3
      <4>2. CASE e # x
        <5>1. \A v \in Workers : Holds(v, e)' <=> Holds(v, e)
          BY <1>2, <2>1, <3>2, <4>2
        <5>2. Held(e)' <=> Held(e)
          BY <5>1 DEF Held
        <5>3. (e \in queue' <=> e \in queue) /\ (e \in gone' <=> e \in gone)
          BY <3>3, <4>2
        <5>4. QED
          BY <1>1, <4>0, <5>1, <5>2, <5>3
      <4>3. QED
        BY <4>1, <4>2
    <3>5. QED
      BY <3>4 DEF EventIsInOnePlace
  <2>4. QED
    BY <2>2, <2>3
<1>5. QED
  BY <1>3, <1>4

LEMMA PlaceTaken ==
  ASSUME IInv, EventIsInOnePlace, IdleIsFree, NEW w \in Workers, NEW x \in Events, Take(w, x)
  PROVE  EventIsInOnePlace'
<1>0. handler \in [Workers -> Locals]
  BY Typed DEF IInv
<1>1. x \in queue /\ queue' = queue \ {x} /\ gone' = gone /\ sent' = sent
  BY DEF Take
<1>2. \A v \in Workers, e \in Events : v # w => (Holds(v, e)' <=> Holds(v, e))
  BY OthersStay DEF Others, Holds
<1>3. \A e \in Events : Holds(w, e)' <=> e = x
  <2>1. handler'[w] = [Idle EXCEPT !.pc = IF x.kind = "message" THEN "number" ELSE "receipt",
                          !.ev = x, !.valid = TRUE]
    BY <1>0 DEF Take, Goto
  <2>2. handler'[w].valid = TRUE /\ handler'[w].ev = x
    BY <2>1 DEF Idle
  <2>3. QED
    BY <2>2 DEF Holds
<1>4. \A e \in Events : Issued(e)' <=> Issued(e)
  BY <1>1 DEF Issued
<1>5. ~Held(x)
  BY <1>1 DEF EventIsInOnePlace
<1>6. ASSUME NEW e \in Events
      PROVE  /\ Issued(e)' <=> e \in queue' \/ e \in gone' \/ Held(e)'
             /\ ~(e \in queue' /\ e \in gone')
             /\ Held(e)' => e \notin queue' /\ e \notin gone'
             /\ \A v, u \in Workers : Holds(v, e)' /\ Holds(u, e)' => v = u
  <2>0. /\ Issued(e) <=> e \in queue \/ e \in gone \/ Held(e)
        /\ ~(e \in queue /\ e \in gone)
        /\ Held(e) => e \notin queue /\ e \notin gone
        /\ \A v, u \in Workers : Holds(v, e) /\ Holds(u, e) => v = u
    BY DEF EventIsInOnePlace
  <2>1. CASE e = x
    <3>1. \A v \in Workers : Holds(v, e)' <=> v = w
      BY <1>2, <1>3, <1>5, <2>1 DEF Held
    <3>2. Held(e)'
      BY <3>1 DEF Held
    <3>3. QED
      BY <1>1, <1>4, <2>0, <2>1, <3>1, <3>2
  <2>2. CASE e # x
    <3>1. ~Holds(w, e)'
      BY <1>3, <2>2
    <3>3. ~Holds(w, e)
      BY DEF Take, IdleIsFree, Holds
    <3>4. \A v \in Workers : Holds(v, e)' <=> Holds(v, e)
      BY <1>2, <3>1, <3>3
    <3>5. Held(e)' <=> Held(e)
      BY <3>4 DEF Held
    <3>6. QED
      BY <1>1, <1>4, <2>0, <2>2, <3>4, <3>5
  <2>3. QED
    BY <2>1, <2>2
<1>7. QED
  BY <1>6 DEF EventIsInOnePlace

(* An agent's send publishes the receipts of a message nobody has seen yet. *)
LEMMA PlaceSent ==
  ASSUME IInv, EventIsInOnePlace, NEW m \in Sent, NEW t \in TicketIds, SendRpc(m, t)
  PROVE  EventIsInOnePlace'
<1> DEFINE new == {Receipt(m, a) : a \in Acks}
<1>1. /\ queue' = queue \cup new /\ gone' = gone /\ handler' = handler
      /\ sent[m].pc = "no" /\ sent'[m].pc = "out"
      /\ \A n \in Sent : n # m => sent'[n] = sent[n]
  BY Typed DEF SendRpc, IInv, Sends
<1>2. \A e \in Events : e \in new <=> e.msg = m
  <2>1. ASSUME NEW e \in Events, e.msg = m PROVE e \in new
    <3>1. CASE \E n \in Inbox : e = Message(n)
      BY <2>1, <3>1, InboundAssumption DEF Message
    <3>2. CASE \E n \in FromMe \cup Sent, a \in Acks : e = Receipt(n, a)
      BY <2>1, <3>2 DEF Receipt
    <3>3. QED
      BY <3>1, <3>2 DEF Events
  <2>2. \A e \in new : e.msg = m
    BY DEF Receipt
  <2>3. QED
    BY <2>1, <2>2
<1> HIDE DEF new
<1>3. \A e \in Events : e.msg = m => ~Issued(e) /\ Issued(e)'
  BY <1>1 DEF Issued
<1>4. \A e \in Events : e.msg # m => (Issued(e)' <=> Issued(e))
  BY <1>1 DEF Issued
<1>5. \A w \in Workers, e \in Events : Holds(w, e)' <=> Holds(w, e)
  BY <1>1 DEF Holds
<1>6. \A e \in Events : Held(e)' <=> Held(e)
  BY <1>5 DEF Held
<1>7. ASSUME NEW e \in Events
      PROVE  /\ Issued(e)' <=> e \in queue' \/ e \in gone' \/ Held(e)'
             /\ ~(e \in queue' /\ e \in gone')
             /\ Held(e)' => e \notin queue' /\ e \notin gone'
             /\ \A v, u \in Workers : Holds(v, e)' /\ Holds(u, e)' => v = u
  <2>0. /\ Issued(e) <=> e \in queue \/ e \in gone \/ Held(e)
        /\ ~(e \in queue /\ e \in gone)
        /\ Held(e) => e \notin queue /\ e \notin gone
        /\ \A v, u \in Workers : Holds(v, e) /\ Holds(u, e) => v = u
    BY DEF EventIsInOnePlace
  <2>1. CASE e.msg = m
    BY <1>1, <1>2, <1>3, <1>5, <1>6, <2>0, <2>1
  <2>2. CASE e.msg # m
    BY <1>1, <1>2, <1>4, <1>5, <1>6, <2>0, <2>2
  <2>3. QED
    BY <2>1, <2>2
<1>8. QED
  BY <1>7 DEF EventIsInOnePlace

(* A lost connection or a crash: what no handler can acknowledge any more   *)
(* is ready again.                                                          *)
LEMMA PlaceReturned ==
  ASSUME IInv, EventIsInOnePlace, ConnectionLost \/ Crash
  PROVE  EventIsInOnePlace'
<1>1. queue' = queue \cup Unacked /\ gone' = gone
  BY DEF ConnectionLost, Crash
<1>2. \A w \in Workers : handler'[w].valid = FALSE
  <2>1. CASE ConnectionLost
    <3>1. ASSUME NEW w \in Workers PROVE handler'[w].valid = FALSE
      <4>1. handler[w] \in Locals /\ handler'[w] = [handler[w] EXCEPT !.valid = FALSE]
        BY <2>1, Typed DEF ConnectionLost, IInv
      <4>2. QED
        BY <4>1 DEF Locals
    <3>2. QED
      BY <3>1
  <2>2. CASE Crash
    BY <2>2 DEF Crash, Idle
  <2>3. QED
    BY <2>1, <2>2
<1>3. \A e \in Events : e \in Unacked <=> Held(e)
  BY DEF Unacked, Held, Holds
<1>4. \A e \in Events : ~Held(e)' /\ \A w \in Workers : ~Holds(w, e)'
  BY <1>2 DEF Held, Holds
<1>5. \A e \in Events : Issued(e)' <=> Issued(e)
  <2>1. \A m \in Sent : sent'[m].pc = "no" <=> sent[m].pc = "no"
    <3>1. CASE ConnectionLost
      BY <3>1 DEF ConnectionLost
    <3>2. CASE Crash
      <4>1. ASSUME NEW m \in Sent PROVE sent'[m].pc = "no" <=> sent[m].pc = "no"
        <5>1. /\ sent[m] \in Sends
              /\ sent'[m] = IF sent[m].pc = "out" THEN [sent[m] EXCEPT !.pc = "done"] ELSE sent[m]
          BY <3>2, Typed DEF Crash, IInv
        <5>2. QED
          BY <5>1 DEF Sends
      <4>2. QED
        BY <4>1
    <3>3. QED
      BY <3>1, <3>2
  <2>2. QED
    BY <2>1 DEF Issued
<1>6. QED
  BY <1>1, <1>3, <1>4, <1>5 DEF EventIsInOnePlace

LEMMA FreeNext ==
  ASSUME IInv, IdleIsFree, [Next]_vars
  PROVE  IdleIsFree'
<1>1. ASSUME handler' = handler PROVE IdleIsFree'
  BY <1>1 DEF IdleIsFree
<1>2. ASSUME NEW w \in Workers, Others(w), handler'[w].pc # "idle" \/ ~handler'[w].valid
      PROVE  IdleIsFree'
  BY <1>2 DEF IdleIsFree, Others
<1>3. ASSUME NEW w \in Workers, Handle(w) \/ DbError(w) PROVE IdleIsFree'
  <2>1. CASE Ack(w)
    <3>1. handler'[w] = Idle
      BY <2>1, Typed DEF Ack, Goto, IInv
    <3>2. QED
      BY <1>2, <1>3, <3>1, OthersStay DEF Idle
  <2>2. CASE ~Ack(w)
    BY <1>2, <1>3, <2>2, OthersStay, KeepsOrGivesBack DEF Keeps, GivesBack
  <2>3. QED
    BY <2>1, <2>2
<1>4. ASSUME NEW w \in Workers, NEW e \in Events, Take(w, e) PROVE IdleIsFree'
  <2>1. handler'[w] = [Idle EXCEPT !.pc = IF e.kind = "message" THEN "number" ELSE "receipt",
                          !.ev = e, !.valid = TRUE]
    BY <1>4, Typed DEF Take, Goto, IInv
  <2>2. handler'[w].pc # "idle"
    BY <2>1 DEF Idle
  <2>3. QED
    BY <1>2, <1>4, <2>2, OthersStay
<1>5. CASE ConnectionLost
  <2>1. ASSUME NEW w \in Workers PROVE handler'[w].valid = FALSE
    <3>1. handler[w] \in Locals /\ handler'[w] = [handler[w] EXCEPT !.valid = FALSE]
      BY <1>5, Typed DEF ConnectionLost, IInv
    <3>2. QED
      BY <3>1 DEF Locals
  <2>2. QED
    BY <2>1 DEF IdleIsFree
<1>6. CASE Crash
  BY <1>6 DEF Crash, IdleIsFree, Idle
<1>7. ASSUME NEW m \in Sent, SendRecord(m) \/ \E t \in TicketIds : SendRpc(m, t) PROVE IdleIsFree'
  BY <1>1, <1>7 DEF SendRecord, SendRpc
<1>8. ASSUME NEW t \in TicketIds, CloseTicket(t) \/ DeleteTicket(t) PROVE IdleIsFree'
  BY <1>1, <1>8 DEF CloseTicket, DeleteTicket
<1>9. ASSUME NEW m \in Ids, DeleteMessage(m) PROVE IdleIsFree'
  BY <1>1, <1>9 DEF DeleteMessage
<1>10. ASSUME NEW c \in ContactIds, DeleteContact(c) PROVE IdleIsFree'
  BY <1>1, <1>10 DEF DeleteContact
<1>11. CASE UNCHANGED vars
  BY <1>1, <1>11 DEF vars
<1>12. QED
  BY <1>3, <1>4, <1>5, <1>6, <1>7, <1>8, <1>9, <1>10, <1>11 DEF Next

LEMMA PlaceNext ==
  ASSUME IInv, IdleIsFree, EventIsInOnePlace, [Next]_vars
  PROVE  EventIsInOnePlace'
<1>1. ASSUME queue' = queue, gone' = gone, handler' = handler,
             \A m \in Sent : sent'[m].pc = "no" <=> sent[m].pc = "no"
      PROVE  EventIsInOnePlace'
  <2>1. \A e \in Events : Issued(e)' <=> Issued(e)
    BY <1>1 DEF Issued
  <2>2. \A w \in Workers, e \in Events : Holds(w, e)' <=> Holds(w, e)
    BY <1>1 DEF Holds
  <2>3. QED
    BY <1>1, <2>1, <2>2, PlaceKept
<1>2. ASSUME NEW w \in Workers, Handle(w) \/ DbError(w) PROVE EventIsInOnePlace'
  <2>1. sent' = sent /\ Others(w)
    <3>1. Others(w)
      BY <1>2, OthersStay
    <3>2. sent' = sent
      BY <1>2 DEF Handle, DbError, FindByNumber, FindByLid, WriteContact, FindOrCreate, Create,
                  LastMessage, UpdateAck, Ack
    <3>3. QED
      BY <3>1, <3>2
  <2>2. CASE Ack(w)
    <3>1. Settles(w)
      BY <2>2, Typed DEF Ack, Goto, Settles, Idle, IInv
    <3>2. QED
      BY <2>1, <3>1, PlaceMoved
  <2>3. CASE ~Ack(w)
    BY <1>2, <2>1, <2>3, KeepsOrGivesBack, PlaceMoved
  <2>4. QED
    BY <2>2, <2>3
<1>3. ASSUME NEW w \in Workers, NEW e \in Events, Take(w, e) PROVE EventIsInOnePlace'
  BY <1>3, PlaceTaken
<1>4. ASSUME NEW m \in Sent, SendRecord(m) PROVE EventIsInOnePlace'
  <2>1. \A n \in Sent : sent'[n].pc = "no" <=> sent[n].pc = "no"
    BY <1>4, Typed DEF SendRecord, IInv, Sends
  <2>2. QED
    BY <1>1, <1>4, <2>1 DEF SendRecord
<1>5. ASSUME NEW m \in Sent, NEW t \in TicketIds, SendRpc(m, t) PROVE EventIsInOnePlace'
  BY <1>5, PlaceSent
<1>6. ASSUME NEW t \in TicketIds, CloseTicket(t) \/ DeleteTicket(t) PROVE EventIsInOnePlace'
  BY <1>1, <1>6 DEF CloseTicket, DeleteTicket
<1>7. ASSUME NEW m \in Ids, DeleteMessage(m) PROVE EventIsInOnePlace'
  BY <1>1, <1>7 DEF DeleteMessage
<1>8. ASSUME NEW c \in ContactIds, DeleteContact(c) PROVE EventIsInOnePlace'
  BY <1>1, <1>8 DEF DeleteContact
<1>9. CASE ConnectionLost \/ Crash
  BY <1>9, PlaceReturned
<1>10. CASE UNCHANGED vars
  BY <1>1, <1>10 DEF vars
<1>11. QED
  BY <1>2, <1>3, <1>4, <1>5, <1>6, <1>7, <1>8, <1>9, <1>10 DEF Next

LEMMA PlaceInit == Init => EventIsInOnePlace /\ IdleIsFree
<1> SUFFICES ASSUME Init PROVE EventIsInOnePlace /\ IdleIsFree
  OBVIOUS
<1>1. IdleIsFree
  BY DEF Init, IdleIsFree, Idle
<1>2. \A w \in Workers, e \in Events : ~Holds(w, e)
  BY DEF Init, Holds, Idle
<1>3. ASSUME NEW e \in Events PROVE Issued(e) <=> e \in queue
  <2>1. CASE \E m \in Inbox : e = Message(m)
    BY <2>1, InboundAssumption DEF Init, Issued, Message
  <2>2. CASE \E m \in FromMe, a \in Acks : e = Receipt(m, a)
    BY <2>2, InboundAssumption DEF Init, Issued, Receipt
  <2>3. CASE \E m \in Sent, a \in Acks : e = Receipt(m, a)
    <3>1. PICK m \in Sent, a \in Acks : e = Receipt(m, a)
      BY <2>3
    <3>2. e.msg = m /\ ~Issued(e)
      BY <3>1 DEF Init, Issued, Receipt
    <3>3. e.msg \notin Inbox
      BY <3>2, InboundAssumption
    <3>4. e \notin queue
      BY <3>3, InboundAssumption DEF Init, Message, Receipt
    <3>5. QED
      BY <3>2, <3>4
  <2>4. QED
    BY <2>1, <2>2, <2>3 DEF Events
<1>4. QED
  BY <1>1, <1>2, <1>3 DEF Init, EventIsInOnePlace, Held

(* However handlers fail, connections are lost and the backend restarts, no *)
(* published event is lost and none has two handlers that may settle it.    *)
THEOREM EventsAreConserved == Spec => []EventIsInOnePlace
BY PlaceInit, FreeNext, PlaceNext, Invariance, PTL DEF Spec
=============================================================================
