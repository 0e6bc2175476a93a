--------------------------- MODULE TicketsProofs ---------------------------
(* What holds of Tickets for every set of tickets, conversations, users and *)
(* requests: typing, the promise of the advisory lock, the absence of       *)
(* deadlock, the refinement of ConversationSlots, and the owner of a ticket *)
(* when requests do not overlap.                                            *)
EXTENDS Tickets, TLAPS

(* The locals of a request, as TypeOK types them.                           *)
Locals == [pc : PC, conv : Convs \cup {Null}, tid : TicketIds \cup {Null},
           set : Change, old : Status \cup {Keep, "deleted"},
           by : Users \cup {Null}, dto : Status \cup {Null}, held : SUBSET TicketIds]

LEMMA IdleType == Idle \in Locals
BY DEF Idle, Locals, PC, NoChange, Change

(* The columns an UPDATE or an INSERT writes have their types.              *)
LEMMA AppliedType ==
  ASSUME NEW r \in Row, NEW set \in Change, now \in 0..MaxNow
  PROVE  Applied(r, set) \in Row
<1>1. Put(set.status, r.status) \in Status \cup {"unused", "deleted"}
  BY DEF Row, Change, Put
<1>2. Put(set.user, r.user) \in Users \cup {Null}
  BY DEF Row, Change, Put
<1>3. Put(set.queue, r.queue) \in Queues \cup {Null}
  BY DEF Row, Change, Put
<1>4. Put(set.unread, r.unread) \in BOOLEAN
  BY Zenon DEF Row, Change, Put
<1>. HIDE DEF Put
<1> QED BY <1>1, <1>2, <1>3, <1>4 DEF Row, Applied

LEMMA NewRowType ==
  ASSUME NEW c \in Convs \cup {Null}, NEW set \in Change, now \in 0..MaxNow,
         set.status # Keep, set.user # Keep, set.unread # Keep
  PROVE  NewRow(c, set) \in Row
BY DEF Row, Change, NewRow

LEMMA ClaimType ==
  ASSUME NEW src \in {"inbound", "agent"}, Claim(src),
         via \in [TicketIds -> {"inbound", "agent", "none"}]
  PROVE  via' \in [TicketIds -> {"inbound", "agent", "none"}]
BY DEF Claim

LEMMA GotoType ==
  ASSUME NEW p \in Procs, NEW req \in Locals, proc \in [Procs -> Locals], Goto(p, req)
  PROVE  proc' \in [Procs -> Locals]
BY DEF Goto

(* The two ways a row is written keep the table well typed.                 *)
LEMMA UpdateRowType ==
  ASSUME NEW t \in TicketIds, NEW set \in Change, NEW src \in {"inbound", "agent"},
         TypeOK, UpdateRow(t, set, src)
  PROVE  rows' \in [TicketIds -> Row] /\ via' \in [TicketIds -> {"inbound", "agent", "none"}]
<1>1. Applied(rows[t], set) \in Row
  BY AppliedType DEF TypeOK
<1>2. rows' \in [TicketIds -> Row]
  BY <1>1 DEF UpdateRow, TypeOK
<1>3. QED
  BY <1>2, ClaimType DEF UpdateRow, TypeOK

LEMMA InsertRowType ==
  ASSUME NEW t \in TicketIds, NEW c \in Convs \cup {Null}, NEW set \in Change,
         NEW src \in {"inbound", "agent"},
         set.status # Keep, set.user # Keep, set.unread # Keep,
         TypeOK, InsertRow(t, c, set, src)
  PROVE  rows' \in [TicketIds -> Row] /\ via' \in [TicketIds -> {"inbound", "agent", "none"}]
<1>1. NewRow(c, set) \in Row
  BY NewRowType DEF TypeOK
<1>2. rows' \in [TicketIds -> Row]
  BY <1>1 DEF InsertRow, TypeOK
<1>3. QED
  BY <1>2, ClaimType DEF InsertRow, TypeOK

-----------------------------------------------------------------------------
(* What a request has decided to write is complete when it reaches its      *)
(* INSERT, and a FindOrCreate always knows its conversation.                *)
Ready(q) ==
  /\ q.pc \in {"foc_lock", "foc_find", "foc_recent", "foc_write"} =>
       q.conv \in Convs /\ q.set.unread # Keep
  /\ q.pc = "foc_write" /\ q.tid = Null => q.set.status # Keep /\ q.set.user # Keep
  /\ q.pc = "insert" => q.set.status # Keep /\ q.set.user # Keep /\ q.set.unread # Keep
  /\ q.pc \in {"write", "delete"} => q.tid # Null
  /\ q.pc = "reload" => q.tid # Null

TypeInv == TypeOK /\ \A p \in Procs : Ready(proc[p])

LEMMA TypeInit == Init => TypeInv
<1> SUFFICES ASSUME Init PROVE TypeInv
  OBVIOUS
<1>1. \A s \in {"unused", "deleted"} : NoRow(s) \in Row
  BY TicketsAssumption DEF NoRow, Row
<1>2. proc \in [Procs -> Locals] /\ \A p \in Procs : Ready(proc[p])
  BY IdleType DEF Init, Ready, Idle
<1>3. now \in 0..MaxNow
  BY TicketsAssumption DEF Init
<1>4. QED
  BY <1>1, <1>2, <1>3 DEF Init, TypeInv, TypeOK, Locals

(* Steps that only move a request on.                                       *)
LEMMA GotoInv ==
  ASSUME NEW p \in Procs, NEW req \in Locals, Ready(req), TypeInv, Goto(p, req),
         rows' \in [TicketIds -> Row], now' \in 0..MaxNow, users' \subseteq Users,
         lock' \in [Convs -> Procs \cup {Null}],
         via' \in [TicketIds -> {"inbound", "agent", "none"}]
  PROVE  TypeInv'
<1>1. proc \in [Procs -> Locals]
  BY DEF TypeInv, TypeOK, Locals
<1>2. proc' \in [Procs -> Locals]
  BY <1>1, GotoType
<1>3. \A q \in Procs : Ready(proc[q])'
  BY <1>1 DEF Goto, TypeInv, Ready
<1>4. QED
  BY <1>2, <1>3 DEF TypeInv, TypeOK, Locals

LEMMA IdleReady == Ready(Idle)
BY DEF Ready, Idle

LEMMA PlanType ==
  ASSUME NEW r \in Row, NEW a \in Users, NEW d \in UpdateData, r.status \in Status
  PROVE  Plan(r, a, d) \in Change
BY DEF Row, Change, UpdateData, Plan

LEMMA FocTypes ==
  ASSUME NEW p \in Procs, TypeInv, FindOrCreate(p)
  PROVE  TypeInv'
<1> DEFINE q == proc[p]
<1>0. q \in Locals /\ Ready(q)
  BY DEF TypeInv, TypeOK, Locals
<1>1. CASE FocLock(p)
  <2>1. [q EXCEPT !.pc = "foc_find"] \in Locals /\ Ready([q EXCEPT !.pc = "foc_find"])
    BY <1>0, <1>1 DEF FocLock, Locals, Ready, PC
  <2>2. QED
    BY <1>0, <1>1, <2>1, GotoInv DEF FocLock, TypeInv, TypeOK, Ready
<1>2. CASE FocFind(p)
  <2>1. ASSUME NEW t \in TicketIds, Goto(p, [q EXCEPT !.pc = "foc_write", !.tid = t])
        PROVE  TypeInv'
    <3>1. [q EXCEPT !.pc = "foc_write", !.tid = t] \in Locals
      BY <1>0 DEF Locals, PC
    <3>2. Ready([q EXCEPT !.pc = "foc_write", !.tid = t])
      BY <1>0, <1>2, TicketsAssumption DEF FocFind, Locals, Ready
    <3>3. QED
      BY <1>2, <2>1, <3>1, <3>2, GotoInv DEF FocFind, TypeInv, TypeOK
  <2>2. ASSUME Goto(p, [q EXCEPT !.pc = "foc_recent"]) PROVE TypeInv'
    <3>1. [q EXCEPT !.pc = "foc_recent"] \in Locals /\ Ready([q EXCEPT !.pc = "foc_recent"])
      BY <1>0, <1>2 DEF FocFind, Locals, Ready, PC
    <3>2. QED
      BY <1>2, <2>2, <3>1, GotoInv DEF FocFind, TypeInv, TypeOK
  <2>3. QED
    BY <1>2, <2>1, <2>2 DEF FocFind, Newest, LiveOf, Of
<1>3. CASE FocFindRecent(p)
  <2>1. ASSUME NEW tid \in TicketIds \cup {Null}, NEW old \in Status \cup {Keep},
               Goto(p, [q EXCEPT !.pc = "foc_write", !.tid = tid, !.old = old, !.set = Pending(@)])
        PROVE  TypeInv'
    <3> DEFINE req == [q EXCEPT !.pc = "foc_write", !.tid = tid, !.old = old, !.set = Pending(@)]
    <3>0. Pending(q.set) \in Change
      BY <1>0 DEF Locals, Change, Pending, Status
    <3>1. req \in Locals
      BY <1>0, <3>0 DEF Locals, PC
    <3>2. Ready(req)
      BY <1>0, <1>3, TicketsAssumption DEF FocFindRecent, Locals, Ready, Change, Pending
    <3> HIDE DEF req
    <3>3. Goto(p, req)
      BY <2>1 DEF req
    <3>4. QED
      BY <1>3, <3>1, <3>2, <3>3, GotoInv DEF FocFindRecent, TypeInv, TypeOK
  <2>2. \A t \in Newest(Recent(q.conv)) : t \in TicketIds /\ rows[t].status \in Status
    BY DEF Newest, Recent, Of, Exists
  <2>3. QED
    BY <1>3, <2>1, <2>2 DEF FocFindRecent
<1>4. ASSUME NEW t \in TicketIds, FocCommit(p, t),
             rows' \in [TicketIds -> Row], via' \in [TicketIds -> {"inbound", "agent", "none"}]
      PROVE  TypeInv'
  <2> DEFINE req == [Idle EXCEPT !.pc = "reload", !.tid = t, !.old = q.old]
  <2>1. req \in Locals
    BY <1>0, IdleType DEF Locals, PC
  <2>2. Ready(req)
    BY TicketsAssumption DEF Ready, Idle
  <2> HIDE DEF req
  <2>3. Goto(p, req)
    BY <1>4 DEF FocCommit, req
  <2>4. lock' \in [Convs -> Procs \cup {Null}]
    BY <1>4 DEF FocCommit, TypeInv, TypeOK
  <2>5. QED
    BY <1>4, <2>1, <2>2, <2>3, <2>4, GotoInv DEF FocCommit, TypeInv, TypeOK
<1>5. CASE FocUpdate(p)
  <2>1. q.tid \in TicketIds /\ q.set \in Change
    BY <1>0, <1>5 DEF FocUpdate, Locals
  <2>2. QED
    BY <1>4, <1>5, <2>1, UpdateRowType DEF FocUpdate, TypeInv
<1>6. CASE FocInsert(p)
  <2>1. /\ q.conv \in Convs /\ q.set \in Change
        /\ q.set.status # Keep /\ q.set.user # Keep /\ q.set.unread # Keep
    BY <1>0, <1>6 DEF FocInsert, Locals, Ready
  <2>2. QED
    BY <1>4, <1>6, <2>1, InsertRowType DEF FocInsert, TypeInv
<1>7. CASE FocInsertFails(p)
  <2>1. lock' \in [Convs -> Procs \cup {Null}]
    BY <1>7 DEF FocInsertFails, TypeInv, TypeOK
  <2>2. Goto(p, Idle) /\ UNCHANGED <<rows, now, users, via>>
    BY <1>7 DEF FocInsertFails, Fail
  <2>3. QED
    BY <2>1, <2>2, IdleType, IdleReady, GotoInv DEF TypeInv, TypeOK
<1>8. QED
  BY <1>1, <1>2, <1>3, <1>5, <1>6, <1>7 DEF FindOrCreate

LEMMA RequestTypes ==
  ASSUME NEW p \in Procs, TypeInv, Request(p)
  PROVE  TypeInv'
<1>0. /\ rows \in [TicketIds -> Row] /\ now \in 0..MaxNow /\ users \subseteq Users
      /\ lock \in [Convs -> Procs \cup {Null}]
      /\ via \in [TicketIds -> {"inbound", "agent", "none"}]
  BY DEF TypeInv, TypeOK
<1>a. /\ NoChange \in Change
      /\ \A t \in TicketIds : Exists(t) => rows[t].status \in Status
  BY DEF NoChange, Change, Exists
<1>1. ASSUME NEW c \in Convs, NEW fromMe \in FromMe, FocCall(p, c, fromMe) PROVE TypeInv'
  <2> DEFINE req == [Idle EXCEPT !.pc = "foc_lock", !.conv = c, !.set.unread = ~fromMe]
  <2>1. req \in Locals /\ Ready(req)
    BY TicketsAssumption DEF Idle, Locals, Ready, PC, NoChange, Change
  <2>2. Goto(p, req)
    BY <1>1 DEF FocCall
  <2> HIDE DEF req
  <2>3. QED
    BY <1>0, <1>1, <2>1, <2>2, GotoInv DEF FocCall
<1>2. ASSUME NEW c \in Convs, NEW u \in Users, NEW s \in Status, StoreCheck(p, c, u, s)
      PROVE  TypeInv'
  <2> DEFINE req == [Idle EXCEPT !.pc = "insert", !.conv = c,
                !.set = [status |-> s, user |-> u, queue |-> Keep, unread |-> FALSE]]
  <2>1. req \in Locals /\ Ready(req)
    BY TicketsAssumption DEF Idle, Locals, Ready, PC, NoChange, Change, Status
  <2>2. Goto(p, req)
    BY <1>2 DEF StoreCheck
  <2> HIDE DEF req
  <2>3. QED
    BY <1>0, <1>2, <2>1, <2>2, GotoInv DEF StoreCheck
<1>3. ASSUME NEW t \in TicketIds, NEW a \in Users, NEW d \in UpdateData, UpdateLoad(p, t, a, d)
      PROVE  TypeInv'
  <2> DEFINE plan == Plan(rows[t], a, d)
             req  == [Idle EXCEPT !.pc = "write", !.tid = t, !.by = a,
                                  !.old = rows[t].status, !.set = plan]
  <2>1. plan \in Change
    BY <1>0, <1>3, PlanType DEF UpdateLoad, Exists
  <2>2. Goto(p, req)
    BY <1>3 DEF UpdateLoad
  <2>3. req \in Locals /\ Ready(req)
    <3> HIDE DEF plan
    <3>1. QED
      BY <1>a, <1>3, <2>1, TicketsAssumption DEF UpdateLoad, Idle, Locals, Ready, PC
  <2> HIDE DEF req
  <2>4. QED
    BY <1>0, <1>3, <2>2, <2>3, GotoInv DEF UpdateLoad
<1>4. ASSUME NEW t \in TicketIds, NEW set \in TouchData, Touch(p, t, set) PROVE TypeInv'
  <2> DEFINE req == [Idle EXCEPT !.pc = "write", !.tid = t, !.old = rows[t].status, !.set = set]
  <2>1. set \in Change
    <3>1. \A q \in Queues : [NoChange EXCEPT !.queue = q] \in Change
      BY DEF NoChange, Change
    <3>2. [NoChange EXCEPT !.unread = FALSE] \in Change
      BY DEF NoChange, Change
    <3>3. QED
      BY <1>a, <3>1, <3>2 DEF TouchData
  <2>2. req \in Locals /\ Ready(req)
    BY <1>a, <1>4, <2>1, TicketsAssumption DEF Touch, Idle, Locals, Ready, PC
  <2>3. Goto(p, req)
    BY <1>4 DEF Touch
  <2> HIDE DEF req
  <2>4. QED
    BY <1>0, <1>4, <2>2, <2>3, GotoInv DEF Touch
<1>5. ASSUME NEW t \in TicketIds, DeleteLoad(p, t) PROVE TypeInv'
  <2> DEFINE req == [Idle EXCEPT !.pc = "delete", !.tid = t, !.dto = rows[t].status]
  <2>1. req \in Locals /\ Ready(req)
    BY <1>a, <1>5, TicketsAssumption DEF DeleteLoad, Idle, Locals, Ready, PC
  <2>2. Goto(p, req)
    BY <1>5 DEF DeleteLoad
  <2> HIDE DEF req
  <2>3. QED
    BY <1>0, <1>5, <2>1, <2>2, GotoInv DEF DeleteLoad
<1>6. ASSUME NEW u \in Users, PurgeBegin(p, u) PROVE TypeInv'
  <2> DEFINE mine == {t \in TicketIds : rows[t].status = "open" /\ rows[t].user = u}
             req  == [Idle EXCEPT !.pc = "purge", !.set.user = u, !.held = mine]
  <2>1. mine \in SUBSET TicketIds
    OBVIOUS
  <2>2. Goto(p, req)
    BY <1>6 DEF PurgeBegin
  <2>3. req \in Locals /\ Ready(req)
    <3> HIDE DEF mine
    <3>1. QED
      BY <2>1 DEF Idle, Locals, Ready, PC, NoChange, Change
  <2> HIDE DEF req
  <2>4. QED
    BY <1>0, <1>6, <2>2, <2>3, GotoInv DEF PurgeBegin
<1>7. QED
  BY <1>1, <1>2, <1>3, <1>4, <1>5, <1>6 DEF Request

LEMMA StepTypes ==
  ASSUME NEW p \in Procs, TypeInv, Step(p)
  PROVE  TypeInv'
<1> DEFINE q == proc[p]
<1>0. /\ rows \in [TicketIds -> Row] /\ now \in 0..MaxNow /\ users \subseteq Users
      /\ lock \in [Convs -> Procs \cup {Null}]
      /\ via \in [TicketIds -> {"inbound", "agent", "none"}]
      /\ q \in Locals /\ Ready(q)
  BY DEF TypeInv, TypeOK, Locals
<1>1. CASE FindOrCreate(p)
  BY <1>1, FocTypes
<1>2. CASE StoreInsert(p)
  <2>1. /\ q.conv \in Convs \cup {Null} /\ q.set \in Change
        /\ q.set.status # Keep /\ q.set.user # Keep /\ q.set.unread # Keep
    BY <1>0, <1>2 DEF StoreInsert, Locals, Ready
  <2>2. ASSUME NEW t \in TicketIds, InsertRow(t, q.conv, q.set, "agent"),
               Goto(p, [Idle EXCEPT !.pc = "reload", !.tid = t])
        PROVE  TypeInv'
    <3>1. [Idle EXCEPT !.pc = "reload", !.tid = t] \in Locals
      BY DEF Idle, Locals, PC, NoChange, Change
    <3>2. Ready([Idle EXCEPT !.pc = "reload", !.tid = t])
      BY TicketsAssumption DEF Idle, Ready
    <3>3. rows' \in [TicketIds -> Row] /\ via' \in [TicketIds -> {"inbound", "agent", "none"}]
      BY <2>1, <2>2, InsertRowType DEF TypeInv
    <3>4. QED
      BY <1>0, <1>2, <2>2, <3>1, <3>2, <3>3, GotoInv DEF StoreInsert
  <2>3. CASE Fail(p) /\ UNCHANGED <<rows, via>>
    BY <1>0, <1>2, <2>3, IdleType, IdleReady, GotoInv DEF StoreInsert, Fail
  <2>4. QED
    BY <1>2, <2>2, <2>3 DEF StoreInsert
<1>3. CASE UpdateWrite(p)
  <2> DEFINE req == [q EXCEPT !.pc = "reload", !.set = NoChange, !.by = Null]
  <2>1. q.tid \in TicketIds /\ q.set \in Change
    BY <1>0, <1>3 DEF UpdateWrite, Locals, Ready
  <2>2. CASE UpdateRow(q.tid, q.set, "agent") /\ Goto(p, req)
    <3>1. req \in Locals /\ Ready(req)
      <4>1. NoChange \in Change
        BY DEF NoChange, Change
      <4>2. QED
        BY <1>0, <2>1, <4>1, TicketsAssumption DEF Locals, Ready, PC
    <3>2. rows' \in [TicketIds -> Row] /\ via' \in [TicketIds -> {"inbound", "agent", "none"}]
      BY <2>1, <2>2, UpdateRowType DEF TypeInv
    <3> HIDE DEF req
    <3>3. QED
      BY <1>0, <1>3, <2>2, <3>1, <3>2, GotoInv DEF UpdateWrite
  <2>3. CASE Fail(p) /\ UNCHANGED <<rows, via>>
    BY <1>0, <1>3, <2>3, IdleType, IdleReady, GotoInv DEF UpdateWrite, Fail
  <2>4. QED
    BY <1>3, <2>2, <2>3 DEF UpdateWrite
<1>4. CASE DeleteWrite(p)
  <2>0. via' \in [TicketIds -> {"inbound", "agent", "none"}]
    BY <1>0, <1>4, ClaimType DEF DeleteWrite
  <2>1. CASE /\ rows' = [rows EXCEPT ![q.tid] = [NoRow("deleted") EXCEPT !.conv = rows[q.tid].conv]]
             /\ Goto(p, [q EXCEPT !.pc = "emit", !.old = "deleted"])
    <3>1. rows' \in [TicketIds -> Row]
      <4>1. q.tid \in TicketIds
        BY <1>0, <1>4 DEF DeleteWrite, Ready, Locals
      <4>2. [NoRow("deleted") EXCEPT !.conv = rows[q.tid].conv] \in Row
        <5>1. NoRow("deleted") \in Row /\ rows[q.tid].conv \in Convs \cup {Null}
          BY <1>0, <4>1, TicketsAssumption DEF Row, NoRow
        <5>2. \A r \in Row, c \in Convs \cup {Null} : [r EXCEPT !.conv = c] \in Row
          BY DEF Row
        <5>3. QED
          BY <5>1, <5>2
      <4>3. QED
        BY <1>0, <2>1, <4>1, <4>2
    <3>2. /\ [q EXCEPT !.pc = "emit", !.old = "deleted"] \in Locals
          /\ Ready([q EXCEPT !.pc = "emit", !.old = "deleted"])
      BY ZenonT(40), <1>0 DEF Locals, Ready, PC
    <3>3. QED
      BY <1>0, <1>4, <2>0, <2>1, <3>1, <3>2, GotoInv DEF DeleteWrite
  <2>2. CASE Fail(p) /\ rows' = rows
    BY <1>0, <1>4, <2>0, <2>2, IdleType, IdleReady, GotoInv DEF DeleteWrite, Fail
  <2>3. QED
    BY <1>4, <2>1, <2>2 DEF DeleteWrite
<1>5. CASE PurgeCommit(p)
  <2>1. via' \in [TicketIds -> {"inbound", "agent", "none"}]
    BY <1>0, <1>5, ClaimType DEF PurgeCommit
  <2>2. \A t \in TicketIds : /\ [rows[t] EXCEPT !.status = "pending", !.user = Null] \in Row
                             /\ [rows[t] EXCEPT !.user = Null] \in Row
    BY ZenonT(40), <1>0 DEF Row, Status
  <2>3. rows' \in [TicketIds -> Row] /\ users' \subseteq Users
    BY ZenonT(40), <1>0, <1>5, <2>2 DEF PurgeCommit
  <2>4. QED
    BY <1>0, <1>5, <2>1, <2>3, IdleType, IdleReady, GotoInv DEF PurgeCommit, Fail
<1>6. CASE Reload(p)
  <2>1. CASE Exists(q.tid) /\ Goto(p, [q EXCEPT !.pc = "emit", !.dto = rows[q.tid].status])
    <3>1. /\ [q EXCEPT !.pc = "emit", !.dto = rows[q.tid].status] \in Locals
          /\ Ready([q EXCEPT !.pc = "emit", !.dto = rows[q.tid].status])
      BY ZenonT(40), <1>0, <2>1 DEF Locals, Ready, PC, Exists
    <3>2. QED
      BY <1>0, <1>6, <2>1, <3>1, GotoInv DEF Reload
  <2>2. CASE Fail(p)
    BY <1>0, <1>6, <2>2, IdleType, IdleReady, GotoInv DEF Reload, Fail
  <2>3. QED
    BY <1>6, <2>1, <2>2 DEF Reload
<1>7. CASE Emit(p)
  BY <1>0, <1>7, IdleType, IdleReady, GotoInv DEF Emit, Fail
<1>8. QED
  BY <1>1, <1>2, <1>3, <1>4, <1>5, <1>6, <1>7 DEF Step

LEMMA TypeNext == TypeInv /\ [Next]_vars => TypeInv'
<1> SUFFICES ASSUME TypeInv, [Next]_vars PROVE TypeInv'
  OBVIOUS
<1>1. CASE \E p \in Procs : Request(p) \/ Step(p)
  BY <1>1, RequestTypes, StepTypes
<1>2. CASE Crash
  BY <1>2, IdleType, IdleReady DEF Crash, TypeInv, TypeOK, Locals, Ready
<1>3. CASE Tick
  BY <1>3, TicketsAssumption DEF Tick, TypeInv, TypeOK, Ready
<1>4. CASE UNCHANGED vars
  BY <1>4 DEF vars, TypeInv, TypeOK, Ready
<1>5. QED
  BY <1>1, <1>2, <1>3, <1>4 DEF Next

(* Every variable of the ticket service keeps its type in every behaviour,  *)
(* for any number of tickets, conversations, users and concurrent requests. *)
THEOREM TypeCorrect == Spec => []TypeOK
<1>1. TypeInv => TypeOK
  BY DEF TypeInv
<1>2. QED
  BY TypeInit, TypeNext, <1>1, PTL DEF Spec

-----------------------------------------------------------------------------
(* The promise of the advisory lock.  InboundUnique is not inductive: it    *)
(* also takes that the request which found no live ticket still holds the   *)
(* lock, so that no other inbound message claims one before it writes.      *)

Holding  == {"foc_find", "foc_recent", "foc_write"}
Promised(q) == q.pc = "foc_recent" \/ (q.pc = "foc_write" /\ q.set.status # Keep)

Good(p) ==
  LET q == proc[p] IN
  /\ q.pc \in Holding => lock[q.conv] = p
  /\ q.pc \in {"foc_lock", "foc_find", "foc_recent"} => q.set.status = Keep
  /\ Promised(q) => \A t \in TicketIds : via[t] = "inbound" => rows[t].conv # q.conv
  /\ q.pc = "foc_write" /\ q.tid # Null =>
       rows[q.tid].status # "unused" /\ rows[q.tid].conv = q.conv

ViaIsLive == \A t \in TicketIds : via[t] = "inbound" => Live(t)

IInv == TypeInv /\ ViaIsLive /\ InboundUnique /\ \A p \in Procs : Good(p)

(* What every step does to the table: a row keeps its conversation.         *)
ConvKept ==
  \A t \in TicketIds : rows[t].status # "unused" =>
    rows'[t].status # "unused" /\ rows'[t].conv = rows[t].conv

(* A step that makes no new inbound claim.                                  *)
Inherits ==
  \A t \in TicketIds : via'[t] = "inbound" =>
    via[t] = "inbound" /\ rows'[t].status \in LiveStatus /\ rows'[t].conv = rows[t].conv

LEMMA AgentInherits ==
  ASSUME Claim("agent"), ConvKept
  PROVE  Inherits
BY DEF Claim, ConvKept, Inherits, Live, LiveStatus

LEMMA UnchangedInherits ==
  ASSUME ViaIsLive, rows' = rows, via' = via
  PROVE  Inherits /\ ConvKept
BY DEF ViaIsLive, Inherits, ConvKept, Live

LEMMA UpdateRowKeepsConv ==
  ASSUME NEW t \in TicketIds, NEW set \in Change, NEW src, TypeOK, UpdateRow(t, set, src)
  PROVE  ConvKept
<1>1. /\ Applied(rows[t], set).conv = rows[t].conv
      /\ Applied(rows[t], set).status \in {rows[t].status, set.status}
      /\ Exists(t) => Applied(rows[t], set).status \in Status
  BY DEF Applied, Put, TypeOK, Row, Change, Exists
<1>2. QED
  BY <1>1 DEF UpdateRow, ConvKept, TypeOK, Exists, Status

LEMMA InsertRowKeepsConv ==
  ASSUME NEW t \in TicketIds, NEW c, NEW set, NEW src, TypeOK, InsertRow(t, c, set, src)
  PROVE  ConvKept
BY DEF InsertRow, ConvKept, TypeOK

(* One request moves, nothing new is claimed: it is enough to look at it.   *)
LEMMA OneMoves ==
  ASSUME IInv, TypeInv', Inherits, ConvKept, NEW p \in Procs, Good(p)',
         \A r \in Procs \ {p} : proc'[r] = proc[r],
         \A r \in Procs \ {p}, c \in Convs : lock[c] = r => lock'[c] = r
  PROVE  IInv'
<1>1. ViaIsLive'
  BY DEF Inherits, ViaIsLive, Live
<1>2. InboundUnique'
  BY DEF Inherits, InboundUnique, IInv
<1>3. ASSUME NEW r \in Procs \ {p} PROVE Good(r)'
  <2>1. Good(r) /\ proc'[r] = proc[r] /\ Ready(proc[r])
    BY DEF IInv, TypeInv
  <2>2. proc[r].tid \in TicketIds \cup {Null}
    BY DEF IInv, TypeInv, TypeOK
  <2>3. proc[r].pc \in Holding => proc[r].conv \in Convs
    BY <2>1 DEF Ready, Holding
  <2>4. (proc[r].pc \in Holding => lock[proc[r].conv] = r)'
    BY <2>1, <2>3 DEF Good
  <2>5. (Promised(proc[r]) => \A t \in TicketIds : via[t] = "inbound" => rows[t].conv # proc[r].conv)'
    BY <2>1 DEF Good, Inherits, Promised
  <2>6. (proc[r].pc = "foc_write" /\ proc[r].tid # Null =>
           rows[proc[r].tid].status # "unused" /\ rows[proc[r].tid].conv = proc[r].conv)'
    BY <2>1, <2>2 DEF Good, ConvKept
  <2>7. QED
    BY <2>1, <2>4, <2>5, <2>6 DEF Good
<1>4. QED
  BY <1>1, <1>2, <1>3 DEF IInv

(* A request outside FindOrCreate has nothing to promise.                   *)
LEMMA IdleGood ==
  ASSUME NEW p \in Procs, proc[p].pc \notin Holding \cup {"foc_lock"}
  PROVE  Good(p)
BY DEF Good, Holding, Promised

LEMMA IdleGoodNext ==
  ASSUME NEW p \in Procs, proc'[p].pc \notin Holding \cup {"foc_lock"}
  PROVE  Good(p)'
BY DEF Good, Holding, Promised

LEMMA GotoOthers ==
  ASSUME NEW p \in Procs, NEW req, TypeOK, Goto(p, req)
  PROVE  proc'[p] = req /\ \A r \in Procs \ {p} : proc'[r] = proc[r]
BY DEF Goto, TypeOK

LEMMA UniqueInit == Init => IInv
<1>1. ASSUME Init PROVE IInv
  <2>1. \A p \in Procs : proc[p].pc = "idle"
    BY <1>1 DEF Init, Idle
  <2>2. \A p \in Procs : Good(p)
    BY <2>1, IdleGood DEF Holding
  <2>3. QED
    BY <1>1, <2>2, TypeInit DEF Init, IInv, ViaIsLive, InboundUnique
<1>2. QED
  BY <1>1

LEMMA FocUnique ==
  ASSUME NEW p \in Procs, IInv, FindOrCreate(p)
  PROVE  IInv'
<1> DEFINE q == proc[p]
<1>0. /\ TypeOK /\ TypeInv' /\ q \in Locals /\ Ready(q) /\ Good(p)
  BY FocTypes DEF IInv, TypeInv, TypeOK, Locals
<1>1. CASE FocLock(p)
  <2>1. Inherits /\ ConvKept
    BY <1>1, UnchangedInherits DEF FocLock, IInv
  <2>2. /\ proc'[p] = [q EXCEPT !.pc = "foc_find"]
        /\ \A r \in Procs \ {p} : proc'[r] = proc[r]
    BY <1>0, <1>1, GotoOthers DEF FocLock
  <2>3. q.conv \in Convs /\ lock[q.conv] = Null /\ lock' = [lock EXCEPT ![q.conv] = p]
    BY <1>0, <1>1 DEF FocLock, Ready
  <2>4. Good(p)'
    BY <1>0, <1>1, <2>2, <2>3 DEF Good, FocLock, Promised, Holding, Locals, TypeOK
  <2>5. \A r \in Procs \ {p}, c \in Convs : lock[c] = r => lock'[c] = r
    BY <1>0, <2>3, TicketsAssumption DEF TypeOK
  <2>6. QED
    BY <1>0, <2>1, <2>2, <2>4, <2>5, OneMoves
<1>2. CASE FocFind(p)
  <2>1. Inherits /\ ConvKept
    BY <1>2, UnchangedInherits DEF FocFind, IInv
  <2>2. ASSUME NEW t \in TicketIds, Exists(t), rows[t].conv = q.conv,
               Goto(p, [q EXCEPT !.pc = "foc_write", !.tid = t])
        PROVE  IInv'
    <3>1. /\ proc'[p] = [q EXCEPT !.pc = "foc_write", !.tid = t]
          /\ \A r \in Procs \ {p} : proc'[r] = proc[r]
      BY <1>0, <2>2, GotoOthers
    <3>2. /\ proc'[p].pc = "foc_write" /\ proc'[p].tid = t
          /\ proc'[p].conv = q.conv /\ proc'[p].set = q.set
      BY <1>0, <3>1 DEF Locals
    <3>3. Good(p)'
      BY <1>0, <1>2, <2>2, <3>2 DEF Good, FocFind, Promised, Holding, Exists, Status
    <3>4. QED
      BY <1>0, <1>2, <2>1, <3>1, <3>3, OneMoves DEF FocFind
  <2>3. ASSUME LiveOf(q.conv) = {}, Goto(p, [q EXCEPT !.pc = "foc_recent"]) PROVE IInv'
    <3>1. /\ proc'[p] = [q EXCEPT !.pc = "foc_recent"]
          /\ \A r \in Procs \ {p} : proc'[r] = proc[r]
      BY <1>0, <2>3, GotoOthers
    <3>2. /\ proc'[p].pc = "foc_recent"
          /\ proc'[p].conv = q.conv /\ proc'[p].set = q.set
      BY <1>0, <3>1 DEF Locals
    <3>3. \A t \in TicketIds : via[t] = "inbound" => rows[t].conv # q.conv
      BY <2>3 DEF LiveOf, Of, Exists, Live, LiveStatus, Status, ViaIsLive, IInv
    <3>4. Good(p)'
      BY <1>0, <1>2, <3>2, <3>3 DEF Good, FocFind, Promised, Holding
    <3>5. QED
      BY <1>0, <1>2, <2>1, <3>1, <3>4, OneMoves DEF FocFind
  <2>4. QED
    BY <1>2, <2>2, <2>3 DEF FocFind, Newest, LiveOf, Of
<1>3. CASE FocFindRecent(p)
  <2>1. Inherits /\ ConvKept
    BY <1>3, UnchangedInherits DEF FocFindRecent, IInv
  <2>2. ASSUME NEW tid \in TicketIds \cup {Null}, NEW old,
               tid # Null => Exists(tid) /\ rows[tid].conv = q.conv,
               Goto(p, [q EXCEPT !.pc = "foc_write", !.tid = tid, !.old = old, !.set = Pending(@)])
        PROVE  IInv'
    <3>1. /\ proc'[p] = [q EXCEPT !.pc = "foc_write", !.tid = tid, !.old = old, !.set = Pending(@)]
          /\ \A r \in Procs \ {p} : proc'[r] = proc[r]
      BY <1>0, <2>2, GotoOthers
    <3>2. proc'[p].pc = "foc_write" /\ proc'[p].tid = tid /\ proc'[p].conv = q.conv
      BY <1>0, <3>1 DEF Locals
    <3>3. Good(p)'
      BY <1>0, <1>3, <2>2, <3>2 DEF Good, FocFindRecent, Promised, Holding, Exists, Status
    <3>4. QED
      BY <1>0, <1>3, <2>1, <3>1, <3>3, OneMoves DEF FocFindRecent
  <2>3. \A t \in Newest(Recent(q.conv)) : t \in TicketIds /\ Exists(t) /\ rows[t].conv = q.conv
    BY DEF Newest, Recent, Of
  <2>4. QED
    BY <1>3, <2>2, <2>3, TicketsAssumption DEF FocFindRecent
<1>4. ASSUME NEW t \in TicketIds, FocCommit(p, t), q.pc = "foc_write", ConvKept,
             \A u \in TicketIds : via'[u] = "inbound" =>
               \/ /\ via[u] = "inbound" /\ rows'[u].conv = rows[u].conv
                  /\ rows'[u].status \in LiveStatus
               \/ Promised(q) /\ u = t,
             Promised(q) => rows'[t].conv = q.conv,
             via'[t] = "inbound" => rows'[t].status \in LiveStatus
      PROVE  IInv'
  <2>1. /\ q.conv \in Convs /\ lock[q.conv] = p /\ lock' = [lock EXCEPT ![q.conv] = Null]
    BY <1>0, <1>4 DEF Good, Holding, FocCommit, Ready
  <2>2. /\ proc'[p] = [Idle EXCEPT !.pc = "reload", !.tid = t, !.old = q.old]
        /\ \A r \in Procs \ {p} : proc'[r] = proc[r]
    BY <1>0, <1>4, GotoOthers DEF FocCommit
  <2>3. Good(p)'
    BY <2>2, IdleGoodNext DEF Idle, Holding
  <2>4. \A r \in Procs \ {p}, c \in Convs : lock[c] = r => lock'[c] = r
    BY <1>0, <2>1 DEF TypeOK
  <2>5. CASE ~Promised(q)
    BY <1>0, <1>4, <2>2, <2>3, <2>4, <2>5, OneMoves DEF Inherits
  <2>6. CASE Promised(q)
    <3>1. \A u \in TicketIds : via[u] = "inbound" => rows[u].conv # q.conv
      BY <1>0, <2>6 DEF Good
    <3>2. \A u \in TicketIds : via'[u] = "inbound" =>
            u = t \/ (via[u] = "inbound" /\ rows'[u].conv = rows[u].conv /\ rows'[u].conv # q.conv)
      BY <1>4, <3>1
    <3>3. ViaIsLive'
      BY <1>4 DEF ViaIsLive, Live
    <3>4. InboundUnique'
      BY <1>4, <2>6, <3>2 DEF InboundUnique, IInv
    <3>5. ASSUME NEW r \in Procs \ {p} PROVE Good(r)'
      <4>1. Good(r) /\ proc'[r] = proc[r] /\ Ready(proc[r])
        BY <2>2 DEF IInv, TypeInv
      <4>2. proc[r].tid \in TicketIds \cup {Null}
        BY DEF IInv, TypeInv, TypeOK
      <4>3. proc[r].pc \in Holding => proc[r].conv # q.conv /\ proc[r].conv \in Convs
        BY <2>1, <4>1 DEF Good, Ready, Holding
      <4>4. (proc[r].pc \in Holding => lock[proc[r].conv] = r)'
        BY <2>4, <4>1, <4>3 DEF Good
      <4>5. (Promised(proc[r]) => \A u \in TicketIds : via[u] = "inbound" => rows[u].conv # proc[r].conv)'
        BY <1>4, <2>6, <3>2, <4>1, <4>3 DEF Good, Promised, Holding
      <4>6. (proc[r].pc = "foc_write" /\ proc[r].tid # Null =>
               rows[proc[r].tid].status # "unused" /\ rows[proc[r].tid].conv = proc[r].conv)'
        BY <1>4, <4>1, <4>2 DEF Good, ConvKept
      <4>7. QED
        BY <4>1, <4>4, <4>5, <4>6 DEF Good
    <3>6. QED
      BY <1>0, <2>3, <3>3, <3>4, <3>5 DEF IInv
  <2>7. QED
    BY <2>5, <2>6
<1>5. CASE FocUpdate(p)
  <2>1. q.pc = "foc_write" /\ q.tid \in TicketIds /\ q.set \in Change
    BY <1>0, <1>5 DEF FocUpdate, Locals
  <2>2. ConvKept
    BY <1>0, <1>5, <2>1, UpdateRowKeepsConv DEF FocUpdate
  <2>3. rows[q.tid].status # "unused" /\ rows[q.tid].conv = q.conv
    BY <1>0, <1>5, <2>1 DEF Good, FocUpdate
  <2>4. rows'[q.tid].conv = q.conv
    BY <2>1, <2>2, <2>3 DEF ConvKept
  <2>5. \A u \in TicketIds \ {q.tid} : rows'[u] = rows[u]
    BY <1>0, <1>5 DEF FocUpdate, UpdateRow, TypeOK
  <2>6. q.set.status = Keep => rows'[q.tid].status = rows[q.tid].status
    BY <1>0, <1>5, <2>1 DEF FocUpdate, UpdateRow, Applied, Put, TypeOK, Row
  <2>7. \A u \in TicketIds : via'[u] = "inbound" =>
          /\ rows'[u].status \in LiveStatus
          /\ (via[u] = "inbound" /\ Live(u)) \/ ~Live(u)
    BY <1>5 DEF FocUpdate, UpdateRow, Claim, LiveStatus, Live
  <2>8. \A u \in TicketIds : Live(u) => rows'[u].conv = rows[u].conv
    BY <2>2 DEF ConvKept, Live, LiveStatus
  <2>9. \A u \in TicketIds : via'[u] = "inbound" =>
          \/ /\ via[u] = "inbound" /\ rows'[u].conv = rows[u].conv
             /\ rows'[u].status \in LiveStatus
          \/ Promised(q) /\ u = q.tid
    BY <2>1, <2>5, <2>6, <2>7, <2>8 DEF Promised, Live
  <2>10. QED
    BY <1>4, <1>5, <2>1, <2>2, <2>4, <2>7, <2>9 DEF FocUpdate
<1>6. CASE FocInsert(p)
  <2>1. PICK t \in TicketIds : InsertRow(t, q.conv, q.set, "inbound") /\ FocCommit(p, t)
    BY <1>6 DEF FocInsert
  <2>2. q.pc = "foc_write" /\ Promised(q)
    BY <1>0, <1>6 DEF FocInsert, Ready, Promised
  <2>3. ConvKept
    BY <1>0, <2>1, InsertRowKeepsConv
  <2>4. rows' = [rows EXCEPT ![t] = NewRow(q.conv, q.set)]
    BY <2>1 DEF InsertRow
  <2>5. rows'[t].conv = q.conv /\ \A u \in TicketIds \ {t} : rows'[u] = rows[u]
    BY <1>0, <2>4 DEF TypeOK, NewRow
  <2>6. \A u \in TicketIds : via'[u] = "inbound" =>
          /\ rows'[u].status \in LiveStatus
          /\ (via[u] = "inbound" /\ Live(u)) \/ ~Live(u)
    BY <2>1 DEF InsertRow, Claim, LiveStatus, Live
  <2>7. \A u \in TicketIds : via'[u] = "inbound" =>
          \/ /\ via[u] = "inbound" /\ rows'[u].conv = rows[u].conv
             /\ rows'[u].status \in LiveStatus
          \/ Promised(q) /\ u = t
    BY <2>2, <2>5, <2>6 DEF Live
  <2>8. QED
    BY <1>4, <2>1, <2>2, <2>3, <2>5, <2>6, <2>7
<1>7. CASE FocInsertFails(p)
  <2>1. Inherits /\ ConvKept
    BY <1>7, UnchangedInherits DEF FocInsertFails, IInv
  <2>2. proc'[p] = Idle /\ \A r \in Procs \ {p} : proc'[r] = proc[r]
    BY <1>0, <1>7, GotoOthers DEF FocInsertFails, Fail
  <2>3. Good(p)'
    BY <2>2, IdleGoodNext DEF Idle, Holding
  <2>4. q.conv \in Convs /\ lock[q.conv] = p /\ lock' = [lock EXCEPT ![q.conv] = Null]
    BY <1>0, <1>7 DEF FocInsertFails, Ready, Good, Holding
  <2>5. \A r \in Procs \ {p}, c \in Convs : lock[c] = r => lock'[c] = r
    BY <1>0, <2>4 DEF TypeOK
  <2>6. QED
    BY <1>0, <2>1, <2>2, <2>3, <2>5, OneMoves
<1>8. QED
  BY <1>1, <1>2, <1>3, <1>5, <1>6, <1>7 DEF FindOrCreate

(* Every other step leaves the promises alone: it changes at most its own   *)
(* request, no lock, and claims nothing for an inbound message.             *)
LEMMA QuietStep ==
  ASSUME IInv, TypeInv', Inherits, ConvKept, lock' = lock, NEW p \in Procs, NEW req,
         Goto(p, req), req.pc \notin Holding,
         req.pc = "foc_lock" => req.set.status = Keep
  PROVE  IInv'
<1>1. /\ proc'[p] = req
      /\ \A r \in Procs \ {p} : proc'[r] = proc[r]
  BY GotoOthers DEF IInv, TypeInv
<1>2. Good(p)'
  BY <1>1 DEF Good, Holding, Promised
<1>3. QED
  BY <1>1, <1>2, OneMoves

LEMMA RequestUnique ==
  ASSUME NEW p \in Procs, IInv, Request(p)
  PROVE  IInv'
<1>0. TypeInv'
  BY RequestTypes DEF IInv
<1>1. UNCHANGED <<rows, via, lock>>
  BY DEF Request, FocCall, StoreCheck, UpdateLoad, Touch, DeleteLoad, PurgeBegin
<1>2. Inherits /\ ConvKept
  BY <1>1, UnchangedInherits DEF IInv
<1>3. ASSUME NEW req, Goto(p, req), req.pc \notin Holding,
             req.pc = "foc_lock" => req.set.status = Keep
      PROVE  IInv'
  BY <1>0, <1>1, <1>2, <1>3, QuietStep
<1>4. ASSUME NEW c \in Convs, NEW fromMe \in FromMe, FocCall(p, c, fromMe) PROVE IInv'
  <2> DEFINE req == [Idle EXCEPT !.pc = "foc_lock", !.conv = c, !.set.unread = ~fromMe]
  <2>1. req.pc = "foc_lock" /\ req.set.status = Keep
    BY DEF Idle, NoChange
  <2>2. Goto(p, req)
    BY <1>4 DEF FocCall
  <2> HIDE DEF req
  <2>3. QED
    BY <1>3, <2>1, <2>2 DEF Holding
<1>5. ASSUME NEW c \in Convs, NEW u \in Users, NEW s \in Status, StoreCheck(p, c, u, s) PROVE IInv'
  <2> DEFINE req == [Idle EXCEPT !.pc = "insert", !.conv = c,
                !.set = [status |-> s, user |-> u, queue |-> Keep, unread |-> FALSE]]
  <2>1. req.pc = "insert"
    BY DEF Idle
  <2>2. Goto(p, req)
    BY <1>5 DEF StoreCheck
  <2> HIDE DEF req
  <2>3. QED
    BY <1>3, <2>1, <2>2 DEF Holding
<1>6. ASSUME NEW t \in TicketIds, NEW a \in Users, NEW d \in UpdateData, UpdateLoad(p, t, a, d)
      PROVE  IInv'
  <2> DEFINE req == [Idle EXCEPT !.pc = "write", !.tid = t, !.by = a,
                                 !.old = rows[t].status, !.set = Plan(rows[t], a, d)]
  <2>1. req.pc = "write"
    BY DEF Idle
  <2>2. Goto(p, req)
    BY <1>6 DEF UpdateLoad
  <2> HIDE DEF req
  <2>3. QED
    BY <1>3, <2>1, <2>2 DEF Holding
<1>7. ASSUME NEW t \in TicketIds, NEW set \in TouchData, Touch(p, t, set) PROVE IInv'
  <2> DEFINE req == [Idle EXCEPT !.pc = "write", !.tid = t, !.old = rows[t].status, !.set = set]
  <2>1. req.pc = "write"
    BY DEF Idle
  <2>2. Goto(p, req)
    BY <1>7 DEF Touch
  <2> HIDE DEF req
  <2>3. QED
    BY <1>3, <2>1, <2>2 DEF Holding
<1>8. ASSUME NEW t \in TicketIds, DeleteLoad(p, t) PROVE IInv'
  <2> DEFINE req == [Idle EXCEPT !.pc = "delete", !.tid = t, !.dto = rows[t].status]
  <2>1. req.pc = "delete"
    BY DEF Idle
  <2>2. Goto(p, req)
    BY <1>8 DEF DeleteLoad
  <2> HIDE DEF req
  <2>3. QED
    BY <1>3, <2>1, <2>2 DEF Holding
<1>9. ASSUME NEW u \in Users, PurgeBegin(p, u) PROVE IInv'
  <2> DEFINE req == [Idle EXCEPT !.pc = "purge", !.set.user = u,
                       !.held = {t \in TicketIds : rows[t].status = "open" /\ rows[t].user = u}]
  <2>1. req.pc = "purge"
    BY DEF Idle
  <2>2. Goto(p, req)
    BY <1>9 DEF PurgeBegin
  <2> HIDE DEF req
  <2>3. QED
    BY <1>3, <2>1, <2>2 DEF Holding
<1>10. QED
  BY <1>4, <1>5, <1>6, <1>7, <1>8, <1>9 DEF Request

LEMMA StepUnique ==
  ASSUME NEW p \in Procs, IInv, Step(p)
  PROVE  IInv'
<1> DEFINE q == proc[p]
<1>0. /\ TypeOK /\ TypeInv' /\ q \in Locals /\ Ready(q)
  BY StepTypes DEF IInv, TypeInv, TypeOK, Locals
<1>a. Idle.pc = "idle" /\ \A t : [Idle EXCEPT !.pc = "reload", !.tid = t].pc = "reload"
  BY DEF Idle
<1>1. CASE FindOrCreate(p)
  BY <1>1, FocUnique
<1>2. CASE StoreInsert(p)
  <2>1. Inherits /\ ConvKept
    <3>1. CASE UNCHANGED <<rows, via>>
      BY <3>1, UnchangedInherits DEF IInv
    <3>2. CASE \E t \in TicketIds : InsertRow(t, q.conv, q.set, "agent")
      BY <1>0, <3>2, InsertRowKeepsConv, AgentInherits DEF InsertRow
    <3>3. QED
      BY <1>2, <3>1, <3>2 DEF StoreInsert
  <2>2. QED
    BY <1>0, <1>a, <1>2, <2>1, QuietStep DEF StoreInsert, Fail, Holding
<1>3. CASE UpdateWrite(p)
  <2>1. q.tid \in TicketIds /\ q.set \in Change
    BY <1>0, <1>3 DEF UpdateWrite, Locals, Ready
  <2>2. Inherits /\ ConvKept
    <3>1. CASE UNCHANGED <<rows, via>>
      BY <3>1, UnchangedInherits DEF IInv
    <3>2. CASE UpdateRow(q.tid, q.set, "agent")
      BY <1>0, <2>1, <3>2, UpdateRowKeepsConv, AgentInherits DEF UpdateRow
    <3>3. QED
      BY <1>3, <3>1, <3>2 DEF UpdateWrite
  <2>3. [q EXCEPT !.pc = "reload", !.set = NoChange, !.by = Null].pc = "reload"
    BY <1>0 DEF Locals
  <2>4. QED
    BY <1>0, <1>a, <1>3, <2>2, <2>3, QuietStep DEF UpdateWrite, Fail, Holding
<1>4. CASE DeleteWrite(p)
  <2>1. q.tid \in TicketIds
    BY <1>0, <1>4 DEF DeleteWrite, Locals, Ready
  <2>2. ConvKept
    BY <1>0, <1>4, <2>1 DEF DeleteWrite, ConvKept, TypeOK, NoRow
  <2>3. Inherits
    BY <1>4, <2>2, AgentInherits DEF DeleteWrite
  <2>4. [q EXCEPT !.pc = "emit", !.old = "deleted"].pc = "emit"
    BY <1>0 DEF Locals
  <2>5. QED
    BY <1>0, <1>a, <1>4, <2>2, <2>3, <2>4, QuietStep DEF DeleteWrite, Fail, Holding
<1>5. CASE PurgeCommit(p)
  <2>1. ConvKept
    <3>1. SUFFICES ASSUME NEW t \in TicketIds
                   PROVE  rows'[t].conv = rows[t].conv /\ rows'[t].status \in {rows[t].status, "pending"}
      BY DEF ConvKept
    <3>2. rows[t] \in Row
      BY <1>0 DEF TypeOK
    <3>3. rows'[t] \in {rows[t], [rows[t] EXCEPT !.user = Null],
                        [rows[t] EXCEPT !.status = "pending", !.user = Null]}
      BY <1>0, <1>5 DEF PurgeCommit, TypeOK
    <3>4. QED
      BY <3>2, <3>3 DEF Row
  <2>2. Inherits
    BY <1>5, <2>1, AgentInherits DEF PurgeCommit
  <2>3. QED
    BY <1>0, <1>a, <1>5, <2>1, <2>2, QuietStep DEF PurgeCommit, Fail, Holding
<1>6. CASE Emit(p)
  BY <1>0, <1>a, <1>6, UnchangedInherits, QuietStep DEF Emit, Fail, Holding, IInv
<1>7. CASE Reload(p)
  <2> DEFINE req == [q EXCEPT !.pc = "emit", !.dto = rows[q.tid].status]
  <2>1. Inherits /\ ConvKept
    BY <1>7, UnchangedInherits DEF Reload, IInv
  <2>2. req.pc = "emit"
    BY <1>0 DEF Locals
  <2>3. /\ q.pc = "reload" /\ lock' = lock
        /\ Goto(p, req) \/ Goto(p, Idle)
    BY <1>7 DEF Reload, Fail
  <2> HIDE DEF req
  <2>4. CASE Goto(p, req)
    BY <1>0, <2>1, <2>2, <2>3, <2>4, QuietStep DEF Holding
  <2>5. CASE Goto(p, Idle)
    BY <1>0, <1>a, <2>1, <2>3, <2>5, QuietStep DEF Holding
  <2>6. QED
    BY <2>3, <2>4, <2>5
<1>8. QED
  BY <1>1, <1>2, <1>3, <1>4, <1>5, <1>6, <1>7 DEF Step

LEMMA UniqueNext == IInv /\ [Next]_vars => IInv'
<1> SUFFICES ASSUME IInv, [Next]_vars PROVE IInv'
  OBVIOUS
<1>0. TypeInv'
  BY TypeNext DEF IInv
<1>1. CASE \E p \in Procs : Request(p) \/ Step(p)
  BY <1>1, RequestUnique, StepUnique
<1>2. CASE Crash
  <2>1. \A p \in Procs : proc'[p].pc = "idle"
    BY <1>2 DEF Crash, Idle
  <2>2. \A p \in Procs : Good(p)'
    BY <2>1, IdleGoodNext DEF Holding
  <2>3. QED
    BY <1>0, <1>2, <2>2 DEF Crash, IInv, ViaIsLive, InboundUnique, Live
<1>3. CASE Tick
  BY <1>0, <1>3 DEF Tick, IInv, ViaIsLive, InboundUnique, Live, Good, Promised
<1>4. CASE UNCHANGED vars
  BY <1>0, <1>4 DEF vars, IInv, ViaIsLive, InboundUnique, Live, Good, Promised
<1>5. QED
  BY <1>1, <1>2, <1>3, <1>4 DEF Next

(* However many requests run, interleave and crash, two live tickets of one *)
(* conversation are never both the work of inbound messages.                *)
THEOREM InboundUniqueness == Spec => []InboundUnique
<1>1. IInv => InboundUnique
  BY DEF IInv
<1>2. QED
  BY UniqueInit, UniqueNext, <1>1, PTL DEF Spec

-----------------------------------------------------------------------------
(* What FindOrCreateReturns rests on: no lock is left behind, and requests  *)
(* never wait for each other in a circle.                                   *)

(* An advisory lock is held exactly by the FindOrCreate that is between     *)
(* taking it and its commit: no early return, failed INSERT or crash leaks  *)
(* one, and nobody else ever holds it.                                      *)
LockIsHeld ==
  \A c \in Convs, p \in Procs :
    lock[c] = p <=> proc[p].pc \in Holding /\ proc[p].conv = c

(* Only the two-statement transaction of a user's deletion keeps row locks. *)
HeldByPurge == \A p \in Procs : proc[p].held # {} => proc[p].pc = "purge"

(* A request whose next statement would wait for nobody.                    *)
CanGo(p) ==
  LET q == proc[p] IN
  \/ q.pc \in {"foc_find", "foc_recent", "insert", "purge", "reload", "emit"}
  \/ q.pc = "foc_lock" /\ lock[q.conv] = Null
  \/ q.pc \in {"foc_write", "write", "delete"} /\ (q.tid = Null \/ Unlocked(q.tid))

(* However advisory and row locks are taken, some accepted request can go   *)
(* on: waiting never closes a circle.                                       *)
NoLockDeadlock ==
  (\E p \in Procs : proc[p].pc # "idle") => \E p \in Procs : CanGo(p)

LockInv == IInv /\ LockIsHeld /\ HeldByPurge

(* One request moves and no lock does.                                      *)
LEMMA LocksStay ==
  ASSUME LockInv, NEW p \in Procs, NEW req, Goto(p, req), lock' = lock,
         req.held # {} => req.pc = "purge",
         \/ req.pc \notin Holding /\ proc[p].pc \notin Holding
         \/ req.pc \in Holding /\ proc[p].pc \in Holding /\ req.conv = proc[p].conv
  PROVE  LockIsHeld' /\ HeldByPurge'
<1>1. /\ proc'[p] = req
      /\ \A r \in Procs \ {p} : proc'[r] = proc[r]
  BY GotoOthers DEF LockInv, IInv, TypeInv
<1>2. LockIsHeld'
  BY <1>1 DEF LockInv, LockIsHeld
<1>3. QED
  BY <1>1, <1>2 DEF LockInv, HeldByPurge

(* The holder of a conversation's lock commits or gives up.                 *)
LEMMA LockGiven ==
  ASSUME LockInv, NEW p \in Procs, NEW req, Goto(p, req), proc[p].pc = "foc_write",
         lock' = [lock EXCEPT ![proc[p].conv] = Null], req.held = {}, req.pc \notin Holding
  PROVE  LockIsHeld' /\ HeldByPurge'
<1>1. /\ proc'[p] = req
      /\ \A r \in Procs \ {p} : proc'[r] = proc[r]
  BY GotoOthers DEF LockInv, IInv, TypeInv
<1>2. proc[p].conv \in Convs /\ proc[p].pc \in Holding
  BY DEF LockInv, IInv, TypeInv, Ready, Holding
<1>3. lock[proc[p].conv] = p
  BY <1>2 DEF LockInv, LockIsHeld
<1>4. ASSUME NEW c \in Convs, NEW r \in Procs
      PROVE  lock'[c] = r <=> proc'[r].pc \in Holding /\ proc'[r].conv = c
  <2>1. lock'[c] = IF c = proc[p].conv THEN Null ELSE lock[c]
    BY DEF LockInv, IInv, TypeInv, TypeOK
  <2>2. r # Null
    BY TicketsAssumption
  <2>3. lock[c] = r <=> proc[r].pc \in Holding /\ proc[r].conv = c
    BY DEF LockInv, LockIsHeld
  <2>4. CASE r = p
    BY <1>1, <1>2, <2>1, <2>2, <2>3, <2>4
  <2>5. CASE r # p
    BY <1>1, <1>3, <2>1, <2>2, <2>3, <2>5
  <2>6. QED
    BY <2>4, <2>5
<1>5. QED
  BY <1>1, <1>4 DEF LockInv, LockIsHeld, HeldByPurge

(* A FindOrCreate is granted the free lock of its conversation.             *)
LEMMA LockTaken ==
  ASSUME LockInv, NEW p \in Procs, FocLock(p)
  PROVE  LockIsHeld' /\ HeldByPurge'
<1>0. proc[p] \in Locals /\ TypeOK /\ proc[p].conv \in Convs
  BY DEF LockInv, IInv, TypeInv, TypeOK, Locals, FocLock, Ready
<1>1. /\ proc'[p] = [proc[p] EXCEPT !.pc = "foc_find"]
      /\ \A r \in Procs \ {p} : proc'[r] = proc[r]
  BY <1>0, GotoOthers DEF FocLock
<1>2. proc'[p].pc = "foc_find" /\ proc'[p].conv = proc[p].conv /\ proc'[p].held = proc[p].held
  BY <1>0, <1>1 DEF Locals
<1>3. \A c \in Convs : lock'[c] = IF c = proc[p].conv THEN p ELSE lock[c]
  BY <1>0 DEF FocLock, TypeOK
<1>4. proc[p].pc \notin Holding /\ proc[p].pc # "purge" /\ lock[proc[p].conv] = Null
  BY DEF FocLock, Holding
<1>5. ASSUME NEW c \in Convs, NEW r \in Procs
      PROVE  lock'[c] = r <=> proc'[r].pc \in Holding /\ proc'[r].conv = c
  <2>1. r # Null
    BY TicketsAssumption
  <2>2. lock[c] = r <=> proc[r].pc \in Holding /\ proc[r].conv = c
    BY DEF LockInv, LockIsHeld
  <2>3. CASE r = p
    BY <1>2, <1>3, <1>4, <2>2, <2>3 DEF Holding
  <2>4. CASE r # p
    BY <1>1, <1>3, <1>4, <2>1, <2>2, <2>4
  <2>5. QED
    BY <2>3, <2>4
<1>6. LockIsHeld'
  BY <1>5 DEF LockIsHeld
<1>7. ASSUME NEW r \in Procs, proc'[r].held # {} PROVE proc'[r].pc = "purge"
  <2>1. proc[r].held # {} => proc[r].pc = "purge"
    BY DEF LockInv, HeldByPurge
  <2>2. QED
    BY <1>1, <1>2, <1>4, <1>7, <2>1
<1>8. QED
  BY <1>6, <1>7 DEF HeldByPurge

LEMMA FocLocks ==
  ASSUME NEW p \in Procs, LockInv, FindOrCreate(p)
  PROVE  LockIsHeld' /\ HeldByPurge'
<1> DEFINE q == proc[p]
<1>0. q \in Locals /\ (q.held # {} => q.pc = "purge")
  BY DEF LockInv, IInv, TypeInv, TypeOK, Locals, HeldByPurge
<1>1. CASE FocFind(p)
  <2>1. ASSUME NEW req \in {[q EXCEPT !.pc = "foc_recent"]}
                            \cup {[q EXCEPT !.pc = "foc_write", !.tid = t] : t \in TicketIds},
               Goto(p, req)
        PROVE  LockIsHeld' /\ HeldByPurge'
    <3>1. req.pc \in Holding /\ req.conv = q.conv /\ req.held = q.held
      BY <1>0, <2>1 DEF Locals, Holding
    <3>2. QED
      BY <1>0, <1>1, <2>1, <3>1, LocksStay DEF FocFind, Holding
  <2>2. QED
    BY <1>1, <2>1 DEF FocFind, Newest, LiveOf, Of
<1>2. CASE FocFindRecent(p)
  <2>1. ASSUME NEW tid, NEW old,
               Goto(p, [q EXCEPT !.pc = "foc_write", !.tid = tid, !.old = old, !.set = Pending(@)])
        PROVE  LockIsHeld' /\ HeldByPurge'
    <3> DEFINE req == [q EXCEPT !.pc = "foc_write", !.tid = tid, !.old = old, !.set = Pending(@)]
    <3>1. req.pc = "foc_write" /\ req.conv = q.conv /\ req.held = q.held
      BY <1>0 DEF Locals
    <3>2. Goto(p, req)
      BY <2>1
    <3> HIDE DEF req
    <3>3. QED
      BY <1>0, <1>2, <3>1, <3>2, LocksStay DEF FocFindRecent, Holding
  <2>2. QED
    BY <1>2, <2>1 DEF FocFindRecent
<1>3. ASSUME NEW t \in TicketIds, q.pc = "foc_write", FocCommit(p, t)
      PROVE  LockIsHeld' /\ HeldByPurge'
  <2> DEFINE req == [Idle EXCEPT !.pc = "reload", !.tid = t, !.old = q.old]
  <2>1. req.pc = "reload" /\ req.held = {}
    BY DEF Idle
  <2>2. Goto(p, req) /\ lock' = [lock EXCEPT ![q.conv] = Null]
    BY <1>3 DEF FocCommit
  <2> HIDE DEF req
  <2>3. QED
    BY <1>3, <2>1, <2>2, LockGiven DEF Holding
<1>4. CASE FocUpdate(p)
  BY <1>0, <1>3, <1>4 DEF FocUpdate, Locals
<1>5. CASE FocInsert(p)
  BY <1>3, <1>5 DEF FocInsert
<1>6. CASE FocInsertFails(p)
  <2>1. Idle.pc = "idle" /\ Idle.held = {}
    BY DEF Idle
  <2>2. QED
    BY <1>6, <2>1, LockGiven DEF FocInsertFails, Fail, Holding
<1>7. QED
  BY <1>1, <1>2, <1>4, <1>5, <1>6, LockTaken DEF FindOrCreate

LEMMA RequestLocks ==
  ASSUME NEW p \in Procs, LockInv, Request(p)
  PROVE  LockIsHeld' /\ HeldByPurge'
<1>1. lock' = lock /\ proc[p].pc = "idle"
  BY DEF Request, FocCall, StoreCheck, UpdateLoad, Touch, DeleteLoad, PurgeBegin, Accept
<1>2. ASSUME NEW req, Goto(p, req), req.pc \notin Holding, req.held # {} => req.pc = "purge"
      PROVE  LockIsHeld' /\ HeldByPurge'
  BY <1>1, <1>2, LocksStay DEF Holding
<1>3. ASSUME NEW c \in Convs, NEW fromMe \in FromMe, FocCall(p, c, fromMe)
      PROVE  LockIsHeld' /\ HeldByPurge'
  <2> DEFINE req == [Idle EXCEPT !.pc = "foc_lock", !.conv = c, !.set.unread = ~fromMe]
  <2>1. req.pc = "foc_lock" /\ req.held = {}
    BY DEF Idle
  <2>2. Goto(p, req)
    BY <1>3 DEF FocCall
  <2> HIDE DEF req
  <2>3. QED
    BY <1>2, <2>1, <2>2 DEF Holding
<1>4. ASSUME NEW c \in Convs, NEW u \in Users, NEW s \in Status, StoreCheck(p, c, u, s)
      PROVE  LockIsHeld' /\ HeldByPurge'
  <2> DEFINE req == [Idle EXCEPT !.pc = "insert", !.conv = c,
                !.set = [status |-> s, user |-> u, queue |-> Keep, unread |-> FALSE]]
  <2>1. req.pc = "insert" /\ req.held = {}
    BY DEF Idle
  <2>2. Goto(p, req)
    BY <1>4 DEF StoreCheck
  <2> HIDE DEF req
  <2>3. QED
    BY <1>2, <2>1, <2>2 DEF Holding
<1>5. ASSUME NEW t \in TicketIds, NEW a \in Users, NEW d \in UpdateData, UpdateLoad(p, t, a, d)
      PROVE  LockIsHeld' /\ HeldByPurge'
  <2> DEFINE req == [Idle EXCEPT !.pc = "write", !.tid = t, !.by = a,
                                 !.old = rows[t].status, !.set = Plan(rows[t], a, d)]
  <2>1. req.pc = "write" /\ req.held = {}
    BY DEF Idle
  <2>2. Goto(p, req)
    BY <1>5 DEF UpdateLoad
  <2> HIDE DEF req
  <2>3. QED
    BY <1>2, <2>1, <2>2 DEF Holding
<1>6. ASSUME NEW t \in TicketIds, NEW set \in TouchData, Touch(p, t, set)
      PROVE  LockIsHeld' /\ HeldByPurge'
  <2> DEFINE req == [Idle EXCEPT !.pc = "write", !.tid = t, !.old = rows[t].status, !.set = set]
  <2>1. req.pc = "write" /\ req.held = {}
    BY DEF Idle
  <2>2. Goto(p, req)
    BY <1>6 DEF Touch
  <2> HIDE DEF req
  <2>3. QED
    BY <1>2, <2>1, <2>2 DEF Holding
<1>7. ASSUME NEW t \in TicketIds, DeleteLoad(p, t)
      PROVE  LockIsHeld' /\ HeldByPurge'
  <2> DEFINE req == [Idle EXCEPT !.pc = "delete", !.tid = t, !.dto = rows[t].status]
  <2>1. req.pc = "delete" /\ req.held = {}
    BY DEF Idle
  <2>2. Goto(p, req)
    BY <1>7 DEF DeleteLoad
  <2> HIDE DEF req
  <2>3. QED
    BY <1>2, <2>1, <2>2 DEF Holding
<1>8. ASSUME NEW u \in Users, PurgeBegin(p, u)
      PROVE  LockIsHeld' /\ HeldByPurge'
  <2> DEFINE req == [Idle EXCEPT !.pc = "purge", !.set.user = u,
                       !.held = {t \in TicketIds : rows[t].status = "open" /\ rows[t].user = u}]
  <2>1. req.pc = "purge"
    BY DEF Idle
  <2>2. Goto(p, req)
    BY <1>8 DEF PurgeBegin
  <2> HIDE DEF req
  <2>3. QED
    BY <1>2, <2>1, <2>2 DEF Holding
<1>9. QED
  BY <1>3, <1>4, <1>5, <1>6, <1>7, <1>8 DEF Request

LEMMA StepLocks ==
  ASSUME NEW p \in Procs, LockInv, Step(p)
  PROVE  LockIsHeld' /\ HeldByPurge'
<1> DEFINE q == proc[p]
<1>0. q \in Locals /\ (q.held # {} => q.pc = "purge")
  BY DEF LockInv, IInv, TypeInv, TypeOK, Locals, HeldByPurge
<1>1. CASE FindOrCreate(p)
  BY <1>1, FocLocks
<1>2. CASE ~FindOrCreate(p)
  <2>1. lock' = lock /\ q.pc \notin Holding
    BY <1>2 DEF Step, StoreInsert, UpdateWrite, DeleteWrite, PurgeCommit, Reload, Emit, Holding
  <2>2. Idle.pc = "idle" /\ Idle.held = {}
    BY DEF Idle
  <2>3. PICK req : /\ Goto(p, req) /\ req.pc \notin Holding
                   /\ req.held # {} => req.pc = "purge"
    <3>1. CASE Goto(p, Idle)
      BY <2>2, <3>1 DEF Holding
    <3>2. CASE StoreInsert(p)
      <4>1. CASE \E t \in TicketIds : Goto(p, [Idle EXCEPT !.pc = "reload", !.tid = t])
        <5>1. PICK t \in TicketIds : Goto(p, [Idle EXCEPT !.pc = "reload", !.tid = t])
          BY <4>1
        <5> DEFINE req == [Idle EXCEPT !.pc = "reload", !.tid = t]
        <5>2. req.pc = "reload" /\ req.held = {} /\ Goto(p, req)
          BY <5>1 DEF Idle
        <5> HIDE DEF req
        <5>3. QED
          BY <5>2 DEF Holding
      <4>2. QED
        BY <3>1, <3>2, <4>1 DEF StoreInsert, Fail
    <3>3. CASE UpdateWrite(p)
      <4> DEFINE req == [q EXCEPT !.pc = "reload", !.set = NoChange, !.by = Null]
      <4>1. req.pc = "reload" /\ req.held = q.held
        BY <1>0 DEF Locals
      <4>2. q.held = {} /\ (Goto(p, req) \/ Goto(p, Idle))
        BY <1>0, <3>3 DEF UpdateWrite, Fail
      <4> HIDE DEF req
      <4>3. QED
        BY <3>1, <4>1, <4>2 DEF Holding
    <3>4. CASE DeleteWrite(p)
      <4> DEFINE req == [q EXCEPT !.pc = "emit", !.old = "deleted"]
      <4>1. req.pc = "emit" /\ req.held = q.held
        BY <1>0 DEF Locals
      <4>2. q.held = {} /\ (Goto(p, req) \/ Goto(p, Idle))
        BY <1>0, <3>4 DEF DeleteWrite, Fail
      <4> HIDE DEF req
      <4>3. QED
        BY <3>1, <4>1, <4>2 DEF Holding
    <3>5. CASE Reload(p)
      <4> DEFINE req == [q EXCEPT !.pc = "emit", !.dto = rows[q.tid].status]
      <4>1. req.pc = "emit" /\ req.held = q.held
        BY <1>0 DEF Locals
      <4>2. q.held = {} /\ (Goto(p, req) \/ Goto(p, Idle))
        BY <1>0, <3>5 DEF Reload, Fail
      <4> HIDE DEF req
      <4>3. QED
        BY <3>1, <4>1, <4>2 DEF Holding
    <3>6. CASE PurgeCommit(p) \/ Emit(p)
      BY <3>1, <3>6 DEF PurgeCommit, Emit, Fail
    <3>7. QED
      BY <1>2, <3>2, <3>3, <3>4, <3>5, <3>6 DEF Step
  <2>4. QED
    BY <2>1, <2>3, LocksStay
<1>3. QED
  BY <1>1, <1>2

LEMMA LockNext == LockInv /\ [Next]_vars => LockInv'
<1> SUFFICES ASSUME LockInv, [Next]_vars PROVE LockInv'
  OBVIOUS
<1>0. IInv'
  BY UniqueNext DEF LockInv
<1>1. CASE \E p \in Procs : Request(p) \/ Step(p)
  BY <1>0, <1>1, RequestLocks, StepLocks DEF LockInv
<1>2. CASE Crash
  <2>1. \A p \in Procs : proc'[p].pc = "idle" /\ proc'[p].held = {} /\ p # Null
    BY <1>2, TicketsAssumption DEF Crash, Idle
  <2>2. \A c \in Convs : lock'[c] = Null
    BY <1>2 DEF Crash
  <2>3. QED
    BY <1>0, <2>1, <2>2 DEF LockInv, LockIsHeld, HeldByPurge, Holding
<1>3. CASE Tick
  BY <1>0, <1>3 DEF Tick, LockInv, LockIsHeld, HeldByPurge
<1>4. CASE UNCHANGED vars
  BY <1>0, <1>4 DEF vars, LockInv, LockIsHeld, HeldByPurge
<1>5. QED
  BY <1>1, <1>2, <1>3, <1>4 DEF Next

LEMMA LockInit == Init => LockInv
<1> SUFFICES ASSUME Init PROVE LockInv
  OBVIOUS
<1>1. \A p \in Procs : proc[p].pc = "idle" /\ proc[p].held = {} /\ p # Null
  BY TicketsAssumption DEF Init, Idle
<1>2. QED
  BY <1>1, UniqueInit DEF Init, LockInv, LockIsHeld, HeldByPurge, Holding

(* A waiting request leads, in at most two hops, to one that can go on: the *)
(* lock's holder waits for no advisory lock, and a deletion waits for none. *)
LEMMA NoCircle == LockInv => NoLockDeadlock
<1> SUFFICES ASSUME LockInv, NEW p \in Procs, proc[p].pc # "idle"
             PROVE  \E r \in Procs : CanGo(r)
  BY DEF NoLockDeadlock
<1>1. TypeOK /\ \A r \in Procs : Ready(proc[r]) /\ proc[r].pc \in PC
  BY DEF LockInv, IInv, TypeInv, TypeOK
<1>2. ASSUME NEW r \in Procs, proc[r].pc \in {"foc_write", "write", "delete"}
      PROVE  \E s \in Procs : CanGo(s)
  <2>1. CASE Unlocked(proc[r].tid)
    BY <1>2, <2>1 DEF CanGo
  <2>2. CASE ~Unlocked(proc[r].tid)
    <3>1. PICK s \in Procs : proc[r].tid \in proc[s].held
      BY <2>2 DEF Unlocked
    <3>2. proc[s].pc = "purge"
      BY <3>1 DEF LockInv, HeldByPurge
    <3>3. QED
      BY <3>2 DEF CanGo
  <2>3. QED
    BY <2>1, <2>2
<1>3. CASE proc[p].pc = "foc_lock"
  <2>1. proc[p].conv \in Convs
    BY <1>1, <1>3 DEF Ready
  <2>2. CASE lock[proc[p].conv] = Null
    BY <1>3, <2>2 DEF CanGo
  <2>3. CASE lock[proc[p].conv] # Null
    <3>1. PICK r \in Procs : lock[proc[p].conv] = r
      BY <1>1, <2>1, <2>3 DEF TypeOK
    <3>2. proc[r].pc \in Holding
      BY <2>1, <3>1 DEF LockInv, LockIsHeld
    <3>3. QED
      BY <1>2, <3>2 DEF CanGo, Holding
  <2>4. QED
    BY <2>2, <2>3
<1>4. CASE proc[p].pc # "foc_lock"
  BY <1>1, <1>2, <1>4 DEF PC, CanGo
<1>5. QED
  BY <1>3, <1>4

(* No advisory lock is ever leaked or shared, for any number of requests,   *)
(* conversations and crashes.                                               *)
THEOREM LocksAreHeld == Spec => []LockIsHeld
<1>1. LockInv => LockIsHeld
  BY DEF LockInv
<1>2. QED
  BY LockInit, LockNext, <1>1, PTL DEF Spec

(* Requests that wait for advisory locks and for rows never wait for each   *)
(* other in a circle.                                                       *)
THEOREM LocksNeverDeadlock == Spec => []NoLockDeadlock
BY LockInit, LockNext, NoCircle, PTL DEF Spec

-----------------------------------------------------------------------------
(* Tickets implements ConversationSlots.  Seen through its slots, a step    *)
(* writes one row, and an id keeps no conversation until it is used.        *)

UnusedIsBare == \A t \in TicketIds : rows[t].status = "unused" => rows[t].conv = Null

Claimed(t, c) == via[t] = "inbound" /\ rows[t].conv = c

(* A step that leaves conversations and claims of all tickets alone.        *)
SameSlots ==
  \A u \in TicketIds : /\ rows'[u].conv = rows[u].conv
                       /\ via'[u] = "inbound" <=> via[u] = "inbound"

(* A step that touches those of one ticket, which gets a conversation only  *)
(* if it had none, and a claim only together with one.                      *)
OneRow(t) ==
  /\ \A u \in TicketIds \ {t} : /\ rows'[u].conv = rows[u].conv
                                /\ via'[u] = "inbound" <=> via[u] = "inbound"
  /\ rows'[t].conv # rows[t].conv => rows[t].conv = Null /\ via[t] # "inbound"
  /\ via'[t] = "inbound" /\ via[t] # "inbound" => rows'[t].conv \in Convs

LEMMA SlotOfClaimed ==
  ASSUME InboundUnique, NEW c
  PROVE  /\ \A t \in TicketIds : Claimed(t, c) => SlotOf(c) = t
         /\ SlotOf(c) # Null => \E t \in TicketIds : SlotOf(c) = t /\ Claimed(t, c)
         /\ (\A t \in TicketIds : ~Claimed(t, c)) => SlotOf(c) = Null
<1>1. ASSUME NEW t \in TicketIds, Claimed(t, c) PROVE SlotOf(c) = t
  <2>1. SlotOf(c) \in TicketIds /\ Claimed(SlotOf(c), c)
    BY <1>1, Zenon DEF SlotOf, Claimed
  <2>2. QED
    BY <1>1, <2>1 DEF InboundUnique, Claimed
<1>2. (\A t \in TicketIds : ~Claimed(t, c)) => SlotOf(c) = Null
  BY DEF SlotOf, Claimed
<1>3. QED
  BY <1>1, <1>2

LEMMA SlotOfClaimedNext ==
  ASSUME InboundUnique', NEW c
  PROVE  /\ \A t \in TicketIds : Claimed(t, c)' => SlotOf(c)' = t
         /\ SlotOf(c)' # Null => \E t \in TicketIds : SlotOf(c)' = t /\ Claimed(t, c)'
         /\ (\A t \in TicketIds : ~Claimed(t, c)') => SlotOf(c)' = Null
<1>1. ASSUME NEW t \in TicketIds, Claimed(t, c)' PROVE SlotOf(c)' = t
  <2>1. SlotOf(c)' \in TicketIds /\ via'[SlotOf(c)'] = "inbound" /\ rows'[SlotOf(c)'].conv = c
    BY <1>1, Zenon DEF SlotOf, Claimed
  <2>2. QED
    BY <1>1, <2>1 DEF InboundUnique, Claimed
<1>2. (\A t \in TicketIds : ~Claimed(t, c)') => SlotOf(c)' = Null
  BY DEF SlotOf, Claimed
<1>3. QED
  BY <1>1, <1>2

LEMMA SameSlotsStutters ==
  ASSUME InboundUnique, InboundUnique', SameSlots
  PROVE  /\ \A c \in Convs : SlotOf(c)' = SlotOf(c)
         /\ \A t \in TicketIds : rows'[t].conv = rows[t].conv
<1>1. ASSUME NEW c \in Convs PROVE SlotOf(c)' = SlotOf(c)
  <2>1. \A t \in TicketIds : Claimed(t, c)' <=> Claimed(t, c)
    BY DEF SameSlots, Claimed
  <2>2. CASE \E t \in TicketIds : Claimed(t, c)
    BY <2>1, <2>2, SlotOfClaimed, SlotOfClaimedNext
  <2>3. CASE \A t \in TicketIds : ~Claimed(t, c)
    BY <2>1, <2>3, SlotOfClaimed, SlotOfClaimedNext
  <2>4. QED
    BY <2>2, <2>3
<1>2. QED
  BY <1>1 DEF SameSlots

SlotsVars == <<[c \in Convs |-> SlotOf(c)], [t \in TicketIds |-> rows[t].conv]>>

(* A step on one row fills an empty slot, frees one, settles a new ticket   *)
(* or is invisible.                                                         *)
LEMMA OneRowMaps ==
  ASSUME InboundUnique, InboundUnique', TypeOK, TypeOK', NEW t \in TicketIds, OneRow(t)
  PROVE  [Slots!Next]_SlotsVars
<1>d. PICK d : d = rows'[t].conv
  OBVIOUS
<1>0. d \in Convs \cup {Null} /\ rows[t].conv \in Convs \cup {Null} /\ Null \notin TicketIds
  BY <1>d, TicketsAssumption DEF TypeOK, Row
<1>1. \A c \in Convs, u \in TicketIds \ {t} : Claimed(u, c)' <=> Claimed(u, c)
  BY DEF OneRow, Claimed
<1>2. ASSUME NEW c \in Convs, Claimed(t, c)' <=> Claimed(t, c) PROVE SlotOf(c)' = SlotOf(c)
  <2>1. CASE \E u \in TicketIds : Claimed(u, c)
    BY <1>1, <1>2, <2>1, SlotOfClaimed, SlotOfClaimedNext
  <2>2. CASE \A u \in TicketIds : ~Claimed(u, c)
    BY <1>1, <1>2, <2>2, SlotOfClaimed, SlotOfClaimedNext
  <2>3. QED
    BY <2>1, <2>2
<1>3. \A u \in TicketIds \ {t} : rows'[u].conv = rows[u].conv
  BY DEF OneRow
<1>4. CASE via'[t] = "inbound" /\ via[t] # "inbound"
  <2>1. d \in Convs /\ rows[t].conv \in {Null, d}
    BY <1>d, <1>4 DEF OneRow
  <2>2. Claimed(t, d)' /\ SlotOf(d)' = t
    BY <1>d, <1>4, SlotOfClaimedNext DEF Claimed
  <2>3. \A u \in TicketIds : ~Claimed(u, d)
    BY <1>1, <1>4, <2>1, <2>2 DEF Claimed, InboundUnique
  <2>4. SlotOf(d) = Null
    BY <2>3, SlotOfClaimed
  <2>5. \A c \in Convs \ {d} : SlotOf(c)' = SlotOf(c)
    BY <1>d, <1>2, <1>4 DEF Claimed
  <2>6. Slots!Fill(d, t)
    BY <1>d, <1>3, <2>1, <2>2, <2>4, <2>5 DEF Slots!Fill
  <2>7. QED
    BY <2>1, <2>6 DEF Slots!Next
<1>5. CASE via'[t] # "inbound" /\ via[t] = "inbound"
  <2>1. d = rows[t].conv
    BY <1>d, <1>5 DEF OneRow
  <2>2. \A c \in Convs \ {d} : SlotOf(c)' = SlotOf(c)
    BY <1>d, <1>2, <1>5, <2>1 DEF Claimed
  <2>3. CASE d \in Convs
    <3>1. Claimed(t, d) /\ SlotOf(d) = t
      BY <1>5, <2>1, SlotOfClaimed DEF Claimed
    <3>2. \A u \in TicketIds : ~Claimed(u, d)'
      BY <1>1, <1>5, <2>3, <3>1 DEF Claimed, InboundUnique
    <3>3. SlotOf(d)' = Null
      BY <3>2, SlotOfClaimedNext
    <3>4. Slots!Free(d)
      <4>1. \A u \in TicketIds : rows'[u].conv = rows[u].conv
        BY <1>d, <1>3, <2>1
      <4>2. t # Null
        BY <1>0
      <4>3. [c \in Convs |-> SlotOf(c)]' = [[c \in Convs |-> SlotOf(c)] EXCEPT ![d] = Null]
        BY <2>2, <2>3, <3>3
      <4>4. UNCHANGED [u \in TicketIds |-> rows[u].conv]
        BY <4>1
      <4>5. [c \in Convs |-> SlotOf(c)][d] # Null
        BY <2>3, <3>1, <4>2
      <4>6. QED
        BY <4>3, <4>4, <4>5 DEF Slots!Free
    <3>5. QED
      BY <2>3, <3>4 DEF Slots!Next
  <2>4. CASE d \notin Convs
    BY <1>d, <1>3, <2>1, <2>2, <2>4 DEF SlotsVars
  <2>5. QED
    BY <2>3, <2>4
<1>6. CASE via'[t] = "inbound" <=> via[t] = "inbound"
  <2>1. \A c \in Convs : Claimed(t, c)' <=> Claimed(t, c)
    BY <1>6 DEF OneRow, Claimed
  <2>2. \A c \in Convs : SlotOf(c)' = SlotOf(c)
    BY <1>2, <2>1
  <2>3. CASE d = rows[t].conv
    BY <1>d, <1>3, <2>2, <2>3 DEF SlotsVars
  <2>4. CASE d # rows[t].conv
    <3>1. d \in Convs /\ rows[t].conv = Null
      BY <1>d, <1>0, <2>4 DEF OneRow
    <3>2. Slots!Settle(d, t)
      BY <1>d, <1>3, <2>2, <3>1 DEF Slots!Settle
    <3>3. QED
      BY <3>1, <3>2 DEF Slots!Next
  <2>5. QED
    BY <2>3, <2>4
<1>7. QED
  BY <1>4, <1>5, <1>6

(* Writing one row is a step of that kind.                                  *)
LEMMA RowWriteMaps ==
  ASSUME IInv, NEW t \in TicketIds, NEW src \in {"inbound", "agent"}, Claim(src),
         \A u \in TicketIds \ {t} : rows'[u] = rows[u],
         rows'[t].conv # rows[t].conv => rows[t].conv = Null /\ ~Live(t),
         src = "inbound" => rows'[t].conv \in Convs
  PROVE  OneRow(t)
<1>1. \A u \in TicketIds : via[u] = "inbound" => Live(u)
  BY DEF IInv, ViaIsLive
<1>2. \A u \in TicketIds \ {t} : via'[u] = "inbound" <=> via[u] = "inbound"
  <2>1. \A u \in TicketIds \ {t} : rows'[u].status \in LiveStatus <=> Live(u)
    BY DEF Live
  <2>2. QED
    BY <1>1, <2>1 DEF Claim
<1>3. via'[t] = "inbound" /\ via[t] # "inbound" => src = "inbound"
  BY DEF Claim
<1>4. QED
  BY <1>1, <1>2, <1>3 DEF OneRow

LEMMA UpdateRowMaps ==
  ASSUME IInv, NEW t \in TicketIds, NEW set \in Change, NEW src \in {"inbound", "agent"},
         UpdateRow(t, set, src),
         src = "inbound" => rows[t].conv \in Convs
  PROVE  OneRow(t) /\ \A u \in TicketIds : rows'[u].conv = rows[u].conv
<1>1. TypeOK
  BY DEF IInv, TypeInv
<1>2. \A u \in TicketIds \ {t} : rows'[u] = rows[u]
  BY <1>1 DEF UpdateRow, TypeOK
<1>3. rows'[t].conv = rows[t].conv
  <2>1. Applied(rows[t], set).conv = rows[t].conv
    BY <1>1 DEF Applied, TypeOK, Row
  <2>2. QED
    BY <1>1, <2>1 DEF UpdateRow, TypeOK
<1>4. OneRow(t)
  BY <1>2, <1>3, RowWriteMaps DEF UpdateRow
<1>5. QED
  BY <1>2, <1>3, <1>4

LEMMA InsertRowMaps ==
  ASSUME IInv, UnusedIsBare, NEW t \in TicketIds, NEW c \in Convs \cup {Null}, NEW set \in Change,
         NEW src \in {"inbound", "agent"}, InsertRow(t, c, set, src), set.status # Keep,
         src = "inbound" => c \in Convs
  PROVE  OneRow(t) /\ UnusedIsBare'
<1>1. TypeOK
  BY DEF IInv, TypeInv
<1>2. \A u \in TicketIds \ {t} : rows'[u] = rows[u]
  BY <1>1 DEF InsertRow, TypeOK
<1>3. rows'[t].conv = c /\ rows'[t].status \in Status
  BY <1>1 DEF InsertRow, TypeOK, NewRow, Change
<1>4. rows[t].conv = Null /\ ~Live(t)
  BY DEF InsertRow, UnusedIsBare, Live, LiveStatus
<1>5. OneRow(t)
  BY <1>2, <1>3, <1>4, RowWriteMaps DEF InsertRow
<1>6. UnusedIsBare'
  BY <1>2, <1>3 DEF UnusedIsBare, Status
<1>7. QED
  BY <1>5, <1>6

(* What a step shows of the slots: nothing, or the write of one row.        *)
Visible == UnusedIsBare' /\ (SameSlots \/ \E t \in TicketIds : OneRow(t))

LEMMA ConvsKeptStayBare ==
  ASSUME UnusedIsBare, ConvKept, \A u \in TicketIds : rows'[u].conv = rows[u].conv
  PROVE  UnusedIsBare'
BY DEF UnusedIsBare, ConvKept

LEMMA UnchangedVisible ==
  ASSUME UnusedIsBare, UNCHANGED <<rows, via>>
  PROVE  Visible
BY DEF Visible, UnusedIsBare, SameSlots

LEMMA StepVisible ==
  ASSUME IInv, UnusedIsBare, NEW p \in Procs, Step(p)
  PROVE  Visible
<1> DEFINE q == proc[p]
<1>0. TypeOK /\ q \in Locals /\ Ready(q) /\ Good(p)
  BY DEF IInv, TypeInv, TypeOK, Locals
<1>1. CASE FocLock(p) \/ FocFind(p) \/ FocFindRecent(p) \/ FocInsertFails(p) \/ Reload(p) \/ Emit(p)
  BY <1>1, UnchangedVisible DEF FocLock, FocFind, FocFindRecent, FocInsertFails, Reload, Emit
<1>2. CASE FocUpdate(p)
  <2>1. /\ q.tid \in TicketIds /\ q.set \in Change
        /\ UpdateRow(q.tid, q.set, "inbound") /\ rows[q.tid].conv \in Convs
    BY <1>0, <1>2 DEF FocUpdate, Locals, Good, Ready
  <2>2. OneRow(q.tid) /\ \A u \in TicketIds : rows'[u].conv = rows[u].conv
    BY <2>1, UpdateRowMaps
  <2>3. QED
    BY <1>0, <2>1, <2>2, UpdateRowKeepsConv, ConvsKeptStayBare DEF Visible
<1>3. CASE FocInsert(p)
  <2>1. q.conv \in Convs /\ q.set \in Change /\ q.set.status # Keep
    BY <1>0, <1>3 DEF FocInsert, Locals, Ready
  <2>2. QED
    BY <1>3, <2>1, InsertRowMaps DEF FocInsert, Visible
<1>4. CASE StoreInsert(p)
  <2>1. q.conv \in Convs \cup {Null} /\ q.set \in Change /\ q.set.status # Keep
    BY <1>0, <1>4 DEF StoreInsert, Locals, Ready
  <2>2. CASE UNCHANGED <<rows, via>>
    BY <2>2, UnchangedVisible
  <2>3. CASE \E t \in TicketIds : InsertRow(t, q.conv, q.set, "agent")
    BY <2>1, <2>3, InsertRowMaps DEF Visible
  <2>4. QED
    BY <1>4, <2>2, <2>3 DEF StoreInsert
<1>5. CASE UpdateWrite(p)
  <2>1. q.tid \in TicketIds /\ q.set \in Change
    BY <1>0, <1>5 DEF UpdateWrite, Locals, Ready
  <2>2. CASE UNCHANGED <<rows, via>>
    BY <2>2, UnchangedVisible
  <2>3. CASE UpdateRow(q.tid, q.set, "agent")
    <3>1. OneRow(q.tid) /\ \A u \in TicketIds : rows'[u].conv = rows[u].conv
      BY <2>1, <2>3, UpdateRowMaps
    <3>2. QED
      BY <1>0, <2>1, <2>3, <3>1, UpdateRowKeepsConv, ConvsKeptStayBare DEF Visible
  <2>4. QED
    BY <1>5, <2>2, <2>3 DEF UpdateWrite
<1>6. CASE DeleteWrite(p)
  <2>1. q.tid \in TicketIds
    BY <1>0, <1>6 DEF DeleteWrite, Locals, Ready
  <2>2. Claim("agent") /\ \A u \in TicketIds \ {q.tid} : rows'[u] = rows[u]
    BY <1>0, <1>6, <2>1 DEF DeleteWrite, TypeOK
  <2>3. /\ rows'[q.tid].conv = rows[q.tid].conv
        /\ rows'[q.tid].status \in {"deleted", rows[q.tid].status}
    BY <1>0, <1>6, <2>1 DEF DeleteWrite, TypeOK, NoRow
  <2>4. OneRow(q.tid)
    BY <2>1, <2>2, <2>3, RowWriteMaps
  <2>5. UnusedIsBare'
    BY <2>2, <2>3 DEF UnusedIsBare
  <2>6. QED
    BY <2>1, <2>4, <2>5 DEF Visible
<1>7. CASE PurgeCommit(p)
  <2>1. ASSUME NEW t \in TicketIds
        PROVE  rows'[t].conv = rows[t].conv /\ rows'[t].status \in {rows[t].status, "pending"}
    <3>1. rows[t] \in Row
      BY <1>0 DEF TypeOK
    <3>2. rows'[t] \in {rows[t], [rows[t] EXCEPT !.user = Null],
                        [rows[t] EXCEPT !.status = "pending", !.user = Null]}
      BY <1>0, <1>7 DEF PurgeCommit, TypeOK
    <3>3. QED
      BY <3>1, <3>2 DEF Row
  <2>2. \A t \in TicketIds : via[t] = "inbound" => Live(t)
    BY DEF IInv, ViaIsLive
  <2>3. \A t \in TicketIds : via'[t] = "inbound" <=> via[t] = "inbound"
    BY <1>7, <2>1, <2>2 DEF PurgeCommit, Claim, Live, LiveStatus
  <2>4. SameSlots /\ UnusedIsBare'
    BY <2>1, <2>3 DEF SameSlots, UnusedIsBare
  <2>5. QED
    BY <2>4 DEF Visible
<1>8. QED
  BY <1>1, <1>2, <1>3, <1>4, <1>5, <1>6, <1>7 DEF Step, FindOrCreate

LEMMA NextVisible == IInv /\ UnusedIsBare /\ [Next]_vars => Visible
<1> SUFFICES ASSUME IInv, UnusedIsBare, [Next]_vars PROVE Visible
  OBVIOUS
<1>1. CASE \E p \in Procs : Step(p)
  BY <1>1, StepVisible
<1>2. CASE \E p \in Procs : Request(p)
  BY <1>2, UnchangedVisible DEF Request, FocCall, StoreCheck, UpdateLoad, Touch, DeleteLoad, PurgeBegin
<1>3. CASE Crash \/ Tick \/ UNCHANGED vars
  BY <1>3, UnchangedVisible DEF Crash, Tick, vars
<1>4. QED
  BY <1>1, <1>2, <1>3 DEF Next

SlotsInv == IInv /\ UnusedIsBare

LEMMA SlotsInitial == Init => SlotsInv /\ Slots!Init
<1> SUFFICES ASSUME Init PROVE SlotsInv /\ Slots!Init
  OBVIOUS
<1>1. \A t \in TicketIds : rows[t].conv = Null /\ via[t] # "inbound"
  BY DEF Init, NoRow
<1>2. \A c \in Convs : SlotOf(c) = Null
  BY <1>1 DEF SlotOf
<1>3. QED
  BY <1>1, <1>2, UniqueInit DEF SlotsInv, UnusedIsBare, Slots!Init

LEMMA SlotsStep == SlotsInv /\ [Next]_vars => SlotsInv' /\ [Slots!Next]_SlotsVars
<1> SUFFICES ASSUME SlotsInv, [Next]_vars PROVE SlotsInv' /\ [Slots!Next]_SlotsVars
  OBVIOUS
<1>1. IInv /\ IInv' /\ Visible
  BY UniqueNext, NextVisible DEF SlotsInv
<1>2. InboundUnique /\ InboundUnique' /\ TypeOK /\ TypeOK'
  BY <1>1 DEF IInv, TypeInv
<1>3. ASSUME SameSlots PROVE UNCHANGED SlotsVars
  BY <1>2, <1>3, SameSlotsStutters DEF SlotsVars
<1>4. ASSUME \E t \in TicketIds : OneRow(t) PROVE [Slots!Next]_SlotsVars
  BY <1>2, <1>4, OneRowMaps
<1>5. SlotsInv'
  BY <1>1 DEF SlotsInv, Visible
<1>6. QED
  BY <1>1, <1>3, <1>4, <1>5 DEF Visible

(* The ticket service implements ConversationSlots: whatever requests,      *)
(* crashes and user deletions do, a conversation's slot is filled only when *)
(* it is empty, and a ticket never moves to another conversation.           *)
THEOREM ImplementsSlots == Spec => SlotsImplemented
BY SlotsInitial, SlotsStep, PTL DEF Spec, SlotsImplemented, Slots!Spec, SlotsVars

-----------------------------------------------------------------------------
(* Requests that do not overlap: what a request read is still true when it  *)
(* writes.                                                                  *)

Serial == \A p, r \in Procs : p = r

IsOwned(r) == r.status = "open" => r.user # Null

(* Carrying out the change a request planned leaves an owned row.           *)
WouldOwn(r, set) == Put(set.status, r.status) = "open" => Put(set.user, r.user) # Null

Sound(p) ==
  LET q == proc[p] IN
  /\ q.pc \in {"foc_lock", "foc_find", "foc_recent"} => q.set.status = Keep /\ q.set.user = Keep
  /\ q.pc = "foc_write" => \/ q.set.status = "pending"
                           \/ q.tid # Null /\ q.set.status = Keep /\ q.set.user = Keep
  /\ q.pc = "insert" => q.set.user # Null
  /\ q.pc = "write" => /\ Exists(q.tid) => WouldOwn(rows[q.tid], q.set)
                       /\ q.by \notin Admins \cup {Null} => CanModify(q.by, rows[q.tid])
  /\ q.pc = "purge" => {t \in TicketIds : rows[t].status = "open" /\ rows[t].user = q.set.user}
                          \subseteq q.held

SerialInv == TypeInv /\ OpenIsOwned /\ \A p \in Procs : Sound(p)

(* A request that only reads, or is over, is sound if what it decided is.   *)
LEMMA ReadStep ==
  ASSUME Serial, SerialInv, TypeInv', UNCHANGED <<rows, users>>, NEW p \in Procs, Sound(p)'
  PROVE  SerialInv'
BY DEF Serial, SerialInv, OpenIsOwned

LEMMA WriteStep ==
  ASSUME Serial, SerialInv, TypeInv', NEW p \in Procs,
         proc'[p].pc \in {"idle", "reload", "emit"}, OpenIsOwned'
  PROVE  SerialInv'
<1>1. Sound(p)'
  BY DEF Sound
<1>2. QED
  BY <1>1 DEF Serial, SerialInv

LEMMA PlanOwns ==
  ASSUME NEW r \in Row, r.status \in Status, IsOwned(r), NEW a \in Users, NEW d \in UpdateData
  PROVE  WouldOwn(r, Plan(r, a, d))
BY TicketsAssumption DEF Row, IsOwned, UpdateData, WouldOwn, Plan, Put, Status

LEMMA AppliedOwns ==
  ASSUME NEW r \in Row, NEW set \in Change, WouldOwn(r, set)
  PROVE  IsOwned(Applied(r, set))
<1>1. /\ Applied(r, set).status = Put(set.status, r.status)
      /\ Applied(r, set).user = Put(set.user, r.user)
  BY DEF Applied, Row
<1>2. QED
  BY <1>1 DEF IsOwned, WouldOwn

LEMMA UpdateRowOwns ==
  ASSUME TypeOK, OpenIsOwned, NEW t \in TicketIds, NEW set \in Change, NEW src, UpdateRow(t, set, src),
         Exists(t) => WouldOwn(rows[t], set)
  PROVE  OpenIsOwned'
<1>1. Exists(t) => IsOwned(Applied(rows[t], set))
  BY AppliedOwns DEF TypeOK
<1>2. \A u \in TicketIds : rows'[u] = rows[u] \/ (u = t /\ Exists(t) /\ rows'[u] = Applied(rows[t], set))
  BY DEF UpdateRow, TypeOK
<1>3. QED
  BY <1>1, <1>2 DEF OpenIsOwned, IsOwned

LEMMA InsertRowOwns ==
  ASSUME TypeOK, OpenIsOwned, NEW t \in TicketIds, NEW c, NEW set \in Change, NEW src,
         InsertRow(t, c, set, src), set.status = "open" => set.user # Null
  PROVE  OpenIsOwned'
<1>1. IsOwned(NewRow(c, set))
  BY DEF IsOwned, NewRow
<1>2. \A u \in TicketIds : rows'[u] = rows[u] \/ rows'[u] = NewRow(c, set)
  BY DEF InsertRow, TypeOK
<1>3. QED
  BY <1>1, <1>2 DEF OpenIsOwned, IsOwned

LEMMA RequestSerial ==
  ASSUME Serial, SerialInv, NEW p \in Procs, Request(p)
  PROVE  SerialInv'
<1>0. TypeOK /\ TypeInv' /\ UNCHANGED <<rows, users>>
  BY RequestTypes DEF SerialInv, TypeInv, Request, FocCall, StoreCheck, UpdateLoad, Touch, DeleteLoad, PurgeBegin
<1>a. \A req : Goto(p, req) => proc'[p] = req
  BY <1>0, GotoOthers
<1>1. ASSUME NEW c \in Convs, NEW fromMe \in FromMe, FocCall(p, c, fromMe) PROVE Sound(p)'
  <2>1. proc'[p] = [Idle EXCEPT !.pc = "foc_lock", !.conv = c, !.set.unread = ~fromMe]
    BY <1>1, <1>a DEF FocCall
  <2>2. proc'[p].pc = "foc_lock" /\ proc'[p].set.status = Keep /\ proc'[p].set.user = Keep
    BY <2>1 DEF Idle, NoChange
  <2>3. QED
    BY <2>2 DEF Sound
<1>2. ASSUME NEW c \in Convs, NEW u \in Users, NEW s \in Status, StoreCheck(p, c, u, s)
      PROVE  Sound(p)'
  <2>1. proc'[p] = [Idle EXCEPT !.pc = "insert", !.conv = c,
                      !.set = [status |-> s, user |-> u, queue |-> Keep, unread |-> FALSE]]
    BY <1>2, <1>a DEF StoreCheck
  <2>2. proc'[p].pc = "insert" /\ proc'[p].set.user = u /\ u # Null
    BY <2>1, TicketsAssumption DEF Idle
  <2>3. QED
    BY <2>2 DEF Sound
<1>3. ASSUME NEW t \in TicketIds, NEW a \in Users, NEW d \in UpdateData, UpdateLoad(p, t, a, d)
      PROVE  Sound(p)'
  <2> DEFINE plan == Plan(rows[t], a, d)
  <2>1. WouldOwn(rows[t], plan)
    BY <1>0, <1>3, PlanOwns DEF UpdateLoad, Exists, SerialInv, OpenIsOwned, IsOwned, TypeOK
  <2> HIDE DEF plan
  <2>2. proc'[p] = [Idle EXCEPT !.pc = "write", !.tid = t, !.by = a, !.old = rows[t].status, !.set = plan]
    BY <1>3, <1>a DEF UpdateLoad, plan
  <2>3. proc'[p].pc = "write" /\ proc'[p].tid = t /\ proc'[p].by = a /\ proc'[p].set = plan
    BY <2>2 DEF Idle
  <2>4. (Exists(t) => WouldOwn(rows[t], plan))' /\ CanModify(a, rows[t])'
    BY <1>0, <1>3, <2>1 DEF UpdateLoad, CanModify, CanSee, WouldOwn, plan
  <2>5. QED
    BY <1>0, <1>3, <2>1, <2>3, <2>4 DEF Sound
<1>4. ASSUME NEW t \in TicketIds, NEW set \in TouchData, Touch(p, t, set) PROVE Sound(p)'
  <2>1. set.status = Keep /\ set.user = Keep
    BY <1>4 DEF TouchData, NoChange
  <2>2. proc'[p] = [Idle EXCEPT !.pc = "write", !.tid = t, !.old = rows[t].status, !.set = set]
    BY <1>4, <1>a DEF Touch
  <2>3. proc'[p].pc = "write" /\ proc'[p].tid = t /\ proc'[p].by = Null /\ proc'[p].set = set
    BY <2>2 DEF Idle
  <2>4. WouldOwn(rows[t], set)
    BY <2>1 DEF WouldOwn, Put, SerialInv, OpenIsOwned
  <2>5. QED
    BY <1>0, <2>3, <2>4 DEF Sound, WouldOwn
<1>5. ASSUME NEW t \in TicketIds, DeleteLoad(p, t) PROVE Sound(p)'
  <2>1. proc'[p] = [Idle EXCEPT !.pc = "delete", !.tid = t, !.dto = rows[t].status]
    BY <1>5, <1>a DEF DeleteLoad
  <2>2. proc'[p].pc = "delete"
    BY <2>1 DEF Idle
  <2>3. QED
    BY <2>2 DEF Sound
<1>6. ASSUME NEW u \in Users, PurgeBegin(p, u) PROVE Sound(p)'
  <2> DEFINE mine == {t \in TicketIds : rows[t].status = "open" /\ rows[t].user = u}
  <2>1. proc'[p] = [Idle EXCEPT !.pc = "purge", !.set.user = u, !.held = mine]
    BY <1>6, <1>a DEF PurgeBegin
  <2>2. proc'[p].pc = "purge" /\ proc'[p].set.user = u /\ proc'[p].held = mine
    <3> HIDE DEF mine
    <3>1. QED
      BY <2>1 DEF Idle, NoChange
  <2>3. QED
    BY <1>0, <2>2 DEF Sound
<1>7. QED
  BY <1>0, <1>1, <1>2, <1>3, <1>4, <1>5, <1>6, ReadStep DEF Request

LEMMA FocCommitEnds ==
  ASSUME TypeOK, NEW p \in Procs, NEW t, FocCommit(p, t)
  PROVE  proc'[p].pc = "reload"
<1>1. proc'[p] = [Idle EXCEPT !.pc = "reload", !.tid = t, !.old = proc[p].old]
  BY GotoOthers DEF FocCommit
<1>2. QED
  BY <1>1 DEF Idle

LEMMA StepSerial ==
  ASSUME Serial, SerialInv, NEW p \in Procs, Step(p)
  PROVE  SerialInv'
<1> DEFINE q == proc[p]
<1>0. /\ TypeOK /\ TypeInv' /\ q \in Locals /\ Ready(q) /\ Sound(p) /\ OpenIsOwned
  BY StepTypes DEF SerialInv, TypeInv, TypeOK, Locals
<1>a. \A req : Goto(p, req) => proc'[p] = req
  BY <1>0, GotoOthers
<1>b. Idle.pc = "idle" /\ \A t : [Idle EXCEPT !.pc = "reload", !.tid = t].pc = "reload"
  BY DEF Idle
<1>1. CASE FocLock(p)
  <2>1. proc'[p] = [q EXCEPT !.pc = "foc_find"]
    BY <1>1, <1>a DEF FocLock
  <2>2. proc'[p].pc = "foc_find" /\ proc'[p].set = q.set
    BY <1>0, <2>1 DEF Locals
  <2>3. Sound(p)'
    BY <1>0, <1>1, <2>2 DEF Sound, FocLock
  <2>4. QED
    BY <1>0, <1>1, <2>3, ReadStep DEF FocLock
<1>2. CASE FocFind(p)
  <2>1. ASSUME NEW t \in TicketIds, Goto(p, [q EXCEPT !.pc = "foc_write", !.tid = t]) PROVE Sound(p)'
    <3>0. proc'[p] = [q EXCEPT !.pc = "foc_write", !.tid = t] /\ t # Null
      BY <1>a, <2>1, TicketsAssumption
    <3>1. proc'[p].pc = "foc_write" /\ proc'[p].set = q.set /\ proc'[p].tid # Null
      BY <1>0, <3>0 DEF Locals
    <3>2. QED
      BY <1>0, <1>2, <3>1 DEF Sound, FocFind
  <2>2. ASSUME Goto(p, [q EXCEPT !.pc = "foc_recent"]) PROVE Sound(p)'
    <3>1. proc'[p].pc = "foc_recent" /\ proc'[p].set = q.set
      BY <1>0, <1>a, <2>2 DEF Locals
    <3>2. QED
      BY <1>0, <1>2, <3>1 DEF Sound, FocFind
  <2>3. Sound(p)'
    BY <1>2, <2>1, <2>2 DEF FocFind, Newest, LiveOf, Of
  <2>4. QED
    BY <1>0, <1>2, <2>3, ReadStep DEF FocFind
<1>3. CASE FocFindRecent(p)
  <2>1. ASSUME NEW tid, NEW old,
               Goto(p, [q EXCEPT !.pc = "foc_write", !.tid = tid, !.old = old, !.set = Pending(@)])
        PROVE  Sound(p)'
    <3>1. proc'[p].pc = "foc_write" /\ proc'[p].set = Pending(q.set)
      BY <1>0, <1>a, <2>1 DEF Locals
    <3>2. Pending(q.set).status = "pending"
      BY <1>0 DEF Pending, Locals, Change
    <3>3. QED
      BY <3>1, <3>2 DEF Sound
  <2>2. Sound(p)'
    BY <1>3, <2>1 DEF FocFindRecent
  <2>3. QED
    BY <1>0, <1>3, <2>2, ReadStep DEF FocFindRecent
<1>4. CASE FocUpdate(p)
  <2>1. q.tid \in TicketIds /\ q.set \in Change /\ UpdateRow(q.tid, q.set, "inbound")
    BY <1>0, <1>4 DEF FocUpdate, Locals
  <2>2. WouldOwn(rows[q.tid], q.set)
    BY <1>0, <1>4, <2>1, TicketsAssumption DEF FocUpdate, Sound, WouldOwn, Put, OpenIsOwned
  <2>3. proc'[p].pc = "reload"
    BY <1>0, <1>4, <2>1, FocCommitEnds DEF FocUpdate
  <2>4. QED
    BY <1>0, <2>1, <2>2, <2>3, UpdateRowOwns, WriteStep
<1>5. CASE FocInsert(p)
  <2>1. q.set \in Change /\ q.set.status = "pending"
    BY <1>0, <1>5 DEF FocInsert, Locals, Sound
  <2>2. proc'[p].pc = "reload"
    BY <1>0, <1>5, FocCommitEnds DEF FocInsert
  <2>3. OpenIsOwned'
    BY <1>0, <1>5, <2>1, InsertRowOwns DEF FocInsert
  <2>4. QED
    BY <1>0, <2>2, <2>3, WriteStep
<1>6. CASE FocInsertFails(p) \/ Emit(p)
  <2>1. proc'[p].pc = "idle" /\ rows' = rows
    BY <1>6, <1>a, <1>b DEF FocInsertFails, Emit, Fail
  <2>2. QED
    BY <1>0, <2>1, WriteStep DEF OpenIsOwned
<1>7. CASE StoreInsert(p)
  <2>1. proc'[p].pc \in {"idle", "reload"}
    BY <1>7, <1>a, <1>b DEF StoreInsert, Fail
  <2>2. q.set \in Change /\ q.set.user # Null
    BY <1>0, <1>7 DEF StoreInsert, Locals, Sound
  <2>3. OpenIsOwned'
    <3>1. CASE rows' = rows
      BY <1>0, <3>1 DEF OpenIsOwned
    <3>2. CASE \E t \in TicketIds : InsertRow(t, q.conv, q.set, "agent")
      BY <1>0, <2>2, <3>2, InsertRowOwns
    <3>3. QED
      BY <1>7, <3>1, <3>2 DEF StoreInsert
  <2>4. QED
    BY <1>0, <2>1, <2>3, WriteStep
<1>8. CASE UpdateWrite(p)
  <2>1. q.tid \in TicketIds /\ q.set \in Change
    BY <1>0, <1>8 DEF UpdateWrite, Locals, Ready
  <2>2. proc'[p].pc \in {"idle", "reload"}
    <3>1. [q EXCEPT !.pc = "reload", !.set = NoChange, !.by = Null].pc = "reload"
      BY <1>0 DEF Locals
    <3>2. QED
      BY <1>8, <1>a, <1>b, <3>1 DEF UpdateWrite, Fail
  <2>3. OpenIsOwned'
    <3>1. CASE rows' = rows
      BY <1>0, <3>1 DEF OpenIsOwned
    <3>2. CASE UpdateRow(q.tid, q.set, "agent")
      <4>1. Exists(q.tid) => WouldOwn(rows[q.tid], q.set)
        BY <1>0, <1>8 DEF UpdateWrite, Sound
      <4>2. QED
        BY <1>0, <2>1, <3>2, <4>1, UpdateRowOwns
    <3>3. QED
      BY <1>8, <3>1, <3>2 DEF UpdateWrite
  <2>4. QED
    BY <1>0, <2>2, <2>3, WriteStep
<1>9. CASE DeleteWrite(p)
  <2>1. proc'[p].pc \in {"idle", "emit"}
    <3>1. [q EXCEPT !.pc = "emit", !.old = "deleted"].pc = "emit"
      BY <1>0 DEF Locals
    <3>2. QED
      BY <1>9, <1>a, <1>b, <3>1 DEF DeleteWrite, Fail
  <2>2. q.tid \in TicketIds
    BY <1>0, <1>9 DEF DeleteWrite, Locals, Ready
  <2>3. \A u \in TicketIds : rows'[u] = rows[u] \/ rows'[u].status = "deleted"
    BY <1>0, <1>9, <2>2 DEF DeleteWrite, TypeOK, NoRow
  <2>4. OpenIsOwned'
    BY <1>0, <2>3 DEF OpenIsOwned
  <2>5. QED
    BY <1>0, <2>1, <2>4, WriteStep
<1>10. CASE PurgeCommit(p)
  <2>1. proc'[p].pc = "idle"
    BY <1>10, <1>a, <1>b DEF PurgeCommit, Fail
  <2>2. ASSUME NEW t \in TicketIds, rows'[t].status = "open" PROVE rows'[t].user # Null
    <3>1. rows[t] \in Row /\ (rows[t].status = "open" => rows[t].user # Null)
      BY <1>0 DEF TypeOK, OpenIsOwned
    <3>2. rows[t].status = "open" /\ rows[t].user = q.set.user => t \in q.held
      BY <1>0, <1>10 DEF PurgeCommit, Sound
    <3>3. CASE rows' = rows
      BY <2>2, <3>1, <3>3
    <3>4. CASE rows'[t] = IF t \in q.held
             THEN [rows[t] EXCEPT !.status = "pending", !.user = Null]
             ELSE IF rows[t].user = q.set.user THEN [rows[t] EXCEPT !.user = Null] ELSE rows[t]
      BY <2>2, <3>1, <3>2, <3>4 DEF Row
    <3>5. QED
      BY <1>10, <3>3, <3>4 DEF PurgeCommit
  <2>3. OpenIsOwned'
    BY <2>2 DEF OpenIsOwned
  <2>4. QED
    BY <1>0, <2>1, <2>3, WriteStep
<1>11. CASE Reload(p)
  <2>1. proc'[p].pc \in {"idle", "emit"} /\ rows' = rows
    <3>1. [q EXCEPT !.pc = "emit", !.dto = rows[q.tid].status].pc = "emit"
      BY <1>0 DEF Locals
    <3>2. QED
      BY <1>11, <1>a, <1>b, <3>1 DEF Reload, Fail
  <2>2. QED
    BY <1>0, <2>1, WriteStep DEF OpenIsOwned
<1>12. QED
  BY <1>1, <1>2, <1>3, <1>4, <1>5, <1>6, <1>7, <1>8, <1>9, <1>10, <1>11 DEF Step, FindOrCreate

LEMMA SerialInit == Init => SerialInv
<1> SUFFICES ASSUME Init PROVE SerialInv
  OBVIOUS
<1>1. \A p \in Procs : Sound(p)
  BY DEF Init, Idle, Sound
<1>2. QED
  BY <1>1, TypeInit DEF Init, SerialInv, OpenIsOwned, NoRow

LEMMA SerialNext == ASSUME Serial PROVE SerialInv /\ [Next]_vars => SerialInv'
<1> SUFFICES ASSUME SerialInv, [Next]_vars PROVE SerialInv'
  OBVIOUS
<1>0. TypeInv'
  BY TypeNext DEF SerialInv
<1>1. CASE \E p \in Procs : Request(p) \/ Step(p)
  BY <1>1, RequestSerial, StepSerial
<1>2. CASE Crash
  <2>1. \A p \in Procs : proc'[p].pc = "idle"
    BY <1>2 DEF Crash, Idle
  <2>2. \A p \in Procs : Sound(p)'
    BY <2>1 DEF Sound
  <2>3. QED
    BY <1>0, <1>2, <2>2 DEF Crash, SerialInv, OpenIsOwned
<1>3. CASE Tick \/ UNCHANGED vars
  BY <1>0, <1>3 DEF Tick, vars, SerialInv, OpenIsOwned, Sound, Exists, WouldOwn, CanModify, CanSee
<1>4. QED
  BY <1>1, <1>2, <1>3 DEF Next

(* When requests do not overlap, no sequence of legal ones, with user       *)
(* deletions and crashes among them, leaves an open ticket without owner.   *)
THEOREM OpenTicketsAreOwned == ASSUME Serial PROVE Spec => []OpenIsOwned
<1>1. SerialInv => OpenIsOwned
  BY DEF SerialInv
<1>2. SerialInv /\ [Next]_vars => SerialInv'
  BY SerialNext
<1>3. QED
  BY SerialInit, <1>1, <1>2, PTL DEF Spec

(* And none lets somebody who is not an admin take over a ticket another    *)
(* agent works on.                                                          *)
THEOREM OwnersAreRespected == ASSUME Serial PROVE Spec => OwnerIsRespected
<1> DEFINE Respects == \A p \in Procs, t \in TicketIds :
        ( /\ proc[p].pc = "write" /\ proc[p].by \notin Admins \cup {Null}
          /\ rows[t].status = "open" /\ rows[t].user # Null
          /\ rows'[t].user # rows[t].user ) => rows[t].user = proc[p].by
<1>1. SerialInv /\ [Next]_vars => Respects
  <2> SUFFICES ASSUME SerialInv, [Next]_vars, NEW p \in Procs, NEW t \in TicketIds,
                      proc[p].pc = "write", proc[p].by \notin Admins \cup {Null},
                      rows[t].status = "open", rows'[t].user # rows[t].user
               PROVE  rows[t].user = proc[p].by
    OBVIOUS
  <2>1. UpdateWrite(p)
    <3>1. \E r \in Procs : Step(r)
      BY DEF Next, vars, Crash, Tick, Request, FocCall, StoreCheck, UpdateLoad, Touch, DeleteLoad, PurgeBegin
    <3>2. Step(p)
      BY <3>1 DEF Serial
    <3>3. QED
      BY <3>2 DEF Step, FindOrCreate, FocLock, FocFind, FocFindRecent, FocUpdate, FocInsert,
                  FocInsertFails, StoreInsert, DeleteWrite, PurgeCommit, Reload, Emit
  <2>2. t = proc[p].tid
    BY <2>1 DEF UpdateWrite, UpdateRow, SerialInv, TypeInv, TypeOK
  <2>3. CanModify(proc[p].by, rows[t])
    BY <2>2 DEF SerialInv, Sound
  <2>4. QED
    BY <2>3 DEF CanModify
<1>2. SerialInv /\ [Next]_vars => SerialInv'
  BY SerialNext
<1>3. QED
  BY SerialInit, <1>1, <1>2, PTL DEF Spec, OwnerIsRespected
=============================================================================
