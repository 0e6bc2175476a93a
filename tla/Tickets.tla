------------------------------ MODULE Tickets ------------------------------
(***************************************************************************)
(* The tickets table of the backend and the requests that read and write   *)
(* it concurrently: FindOrCreate for inbound WhatsApp messages, the REST   *)
(* handlers of agents (store, update, delete), the helpers other services  *)
(* call, and the deletion of a user.                                       *)
(*                                                                         *)
(* Every request is a process that stops between its SQL statements, so    *)
(* what it read may be stale when it writes.  PostgreSQL runs these        *)
(* transactions at READ COMMITTED: a statement sees what is committed when *)
(* it starts, and the last statement of a transaction is the step at which *)
(* its writes become visible.                                              *)
(***************************************************************************)
EXTENDS Naturals, FiniteSets

CONSTANTS
  TicketIds,     (* ids of the BIGSERIAL column; an id is used at most once *)
  Convs,         (* conversations: (contact_id, whatsapp_id) pairs          *)
  Users, Admins, (* accounts, and those whose profile is "admin"            *)
  Queues,        (* department queues                                       *)
  UserQueues,    (* the queues each user is a member of                     *)
  Procs,         (* requests in flight                                      *)
  Requests,      (* the kinds of request of the workload                    *)
  FromMe,        (* whether inbound messages were sent from the phone       *)
  ReopenWindow,  (* two hours, in ticks of the clock                        *)
  MaxNow,        (* bound of the clock                                      *)
  Null,          (* SQL NULL, and a free lock                               *)
  Keep           (* a column an UPDATE does not mention                     *)

ASSUME TicketsAssumption ==
  /\ Null \notin Users \cup Queues \cup Convs \cup Procs \cup TicketIds
  /\ Keep \notin Users \cup Queues \cup {Null}
  /\ Keep \notin {"pending", "open", "closed"} /\ Keep \notin BOOLEAN
  /\ Admins \subseteq Users
  /\ FromMe \subseteq BOOLEAN
  /\ UserQueues \in [Users -> SUBSET Queues]
  /\ ReopenWindow \in Nat /\ MaxNow \in Nat

VARIABLES
  rows,   (* the table: id -> row, deleted and unused ids included          *)
  now,    (* the clock behind updated_at                                    *)
  users,  (* the users table                                                *)
  lock,   (* conversation -> request holding its advisory lock              *)
  proc,   (* request -> its program counter and locals                      *)
  via     (* history: who made a live ticket live, "inbound" or "agent"     *)

vars == <<rows, now, users, lock, proc, via>>

-----------------------------------------------------------------------------
Status == {"pending", "open", "closed"}
LiveStatus == {"pending", "open"}
PC == {"idle", "foc_lock", "foc_find", "foc_recent", "foc_write", "insert",
       "write", "delete", "purge", "reload", "emit"}

Row == [conv : Convs \cup {Null}, status : Status \cup {"unused", "deleted"},
        user : Users \cup {Null}, queue : Queues \cup {Null},
        unread : BOOLEAN, at : 0..MaxNow]
Change == [status : Status \cup {Keep}, user : Users \cup {Null, Keep},
           queue : Queues \cup {Keep}, unread : BOOLEAN \cup {Keep}]

NoRow(s) == [conv |-> Null, status |-> s, user |-> Null, queue |-> Null,
             unread |-> FALSE, at |-> 0]
NoChange == [status |-> Keep, user |-> Keep, queue |-> Keep, unread |-> Keep]
Idle == [pc |-> "idle", conv |-> Null, tid |-> Null, set |-> NoChange,
         by |-> Null, old |-> Keep, dto |-> Null, held |-> {}]

Exists(t) == rows[t].status \in Status
Live(t)   == rows[t].status \in LiveStatus
Of(c)     == {t \in TicketIds : Exists(t) /\ rows[t].conv = c}
(* Mutant: the first SELECT looks for open tickets only.                    *)
OpenOf(c) == {t \in Of(c) : rows[t].status = "open"}
LiveOf(c) == {t \in Of(c) : Live(t)}
Newest(S) == {t \in S : \A u \in S : rows[u].at <= rows[t].at}

(* Rows updated by a transaction that is still open keep every other writer *)
(* waiting.                                                                 *)
Unlocked(t) == \A p \in Procs : t \notin proc[p].held

Put(col, val) == IF col = Keep THEN val ELSE col
(* Mutant: the owner is assigned even when the UPDATE does not mention it.  *)
AppliedBlindly(r, set) == [r EXCEPT !.status = Put(set.status, @), !.user = set.user,
                                    !.queue = Put(set.queue, @), !.at = now]
Applied(r, set) == [r EXCEPT !.status = Put(set.status, @), !.user = Put(set.user, @),
                             !.queue = Put(set.queue, @), !.unread = Put(set.unread, @),
                             !.at = now]
NewRow(c, set) == [conv |-> c, status |-> set.status, user |-> set.user,
                   queue |-> Null, unread |-> set.unread, at |-> now]

(* The history variable follows the rows: a ticket that becomes live is     *)
(* claimed by src, one that stays live keeps its claim.                     *)
Claim(src) ==
  via' = [t \in TicketIds |->
            IF rows'[t].status \notin LiveStatus THEN "none"
            ELSE IF Live(t) THEN via[t] ELSE src]

(* UPDATE tickets SET ... WHERE id = t: no row, no effect and no error.     *)
UpdateRow(t, set, src) ==
  /\ Unlocked(t)
  /\ rows' = IF Exists(t) THEN [rows EXCEPT ![t] = Applied(@, set)] ELSE rows
  /\ Claim(src)

InsertRow(t, c, set, src) ==
  /\ rows[t].status = "unused"
  /\ rows' = [rows EXCEPT ![t] = NewRow(c, set)]
  /\ Claim(src)

(* Bound: once every id is used an INSERT fails, as when the sequence behind *)
(* the column is exhausted.                                                 *)
NoIdLeft == \A t \in TicketIds : rows[t].status # "unused"

Accept(p, kind) == kind \in Requests /\ proc[p].pc = "idle"
Goto(p, req)    == proc' = [proc EXCEPT ![p] = req]
Fail(p)         == Goto(p, Idle)

-----------------------------------------------------------------------------
(* FindOrCreate: one inbound message of conversation c.                     *)

FocCall(p, c, fromMe) ==
  /\ Accept(p, "foc")
  /\ Goto(p, [Idle EXCEPT !.pc = "foc_lock", !.conv = c, !.set.unread = ~fromMe])
  /\ UNCHANGED <<rows, now, users, lock, via>>

(* Mutant: the advisory lock is taken without waiting for its holder.       *)
FocLockAnyway(p) ==
  /\ proc[p].pc = "foc_lock"
  /\ lock' = [lock EXCEPT ![proc[p].conv] = p]
  /\ Goto(p, [proc[p] EXCEPT !.pc = "foc_find"])
  /\ UNCHANGED <<rows, now, users, via>>

FocLock(p) ==
  /\ proc[p].pc = "foc_lock" /\ lock[proc[p].conv] = Null
  /\ lock' = [lock EXCEPT ![proc[p].conv] = p]
  /\ Goto(p, [proc[p] EXCEPT !.pc = "foc_find"])
  /\ UNCHANGED <<rows, now, users, via>>

(* First SELECT: an open or pending ticket has its counter overwritten.     *)
FocFind(p) ==
  /\ proc[p].pc = "foc_find"
  /\ \/ \E t \in Newest(LiveOf(proc[p].conv)) :
          Goto(p, [proc[p] EXCEPT !.pc = "foc_write", !.tid = t])
     \/ /\ LiveOf(proc[p].conv) = {}
        /\ Goto(p, [proc[p] EXCEPT !.pc = "foc_recent"])
  /\ UNCHANGED <<rows, now, users, lock, via>>

(* Second SELECT: the newest ticket of the last two hours, whatever its     *)
(* status, is to be reopened; without one a ticket is to be created.        *)
Recent(c) == {t \in Of(c) : rows[t].at + ReopenWindow >= now}

Pending(set) == [set EXCEPT !.status = "pending", !.user = Null]

FocFindRecent(p) ==
  LET goPending(tid, old) ==
        Goto(p, [proc[p] EXCEPT !.pc = "foc_write", !.tid = tid, !.old = old,
                                !.set = Pending(@)])
  IN /\ proc[p].pc = "foc_recent"
     /\ \/ \E t \in Newest(Recent(proc[p].conv)) : goPending(t, rows[t].status)
        \/ Recent(proc[p].conv) = {} /\ goPending(Null, Keep)
     /\ UNCHANGED <<rows, now, users, lock, via>>

(* Mutant: a session-level lock, which the commit does not release.         *)
FocCommitLocked(p, t) ==
  /\ Goto(p, [Idle EXCEPT !.pc = "reload", !.tid = t, !.old = proc[p].old])
  /\ UNCHANGED <<now, users, lock>>

FocCommit(p, t) ==
  /\ lock' = [lock EXCEPT ![proc[p].conv] = Null]
  /\ Goto(p, [Idle EXCEPT !.pc = "reload", !.tid = t, !.old = proc[p].old])
  /\ UNCHANGED <<now, users>>

FocUpdate(p) ==
  /\ proc[p].pc = "foc_write" /\ proc[p].tid # Null
  /\ UpdateRow(proc[p].tid, proc[p].set, "inbound")
  /\ FocCommit(p, proc[p].tid)

FocInsert(p) ==
  /\ proc[p].pc = "foc_write" /\ proc[p].tid = Null
  /\ \E t \in TicketIds : /\ InsertRow(t, proc[p].conv, proc[p].set, "inbound")
                          /\ FocCommit(p, t)

FocInsertFails(p) ==
  /\ proc[p].pc = "foc_write" /\ proc[p].tid = Null /\ NoIdLeft
  /\ lock' = [lock EXCEPT ![proc[p].conv] = Null]
  /\ Fail(p)
  /\ UNCHANGED <<rows, now, users, via>>

-----------------------------------------------------------------------------
(* POST /tickets: a check, then an INSERT, and no lock.                     *)

StoreCheck(p, c, owner, s) ==
  /\ Accept(p, "store")
  /\ LiveOf(c) = {}
  /\ Goto(p, [Idle EXCEPT !.pc = "insert", !.conv = c,
                !.set = [status |-> s, user |-> owner, queue |-> Keep, unread |-> FALSE]])
  /\ UNCHANGED <<rows, now, users, lock, via>>

StoreInsert(p) ==
  /\ proc[p].pc = "insert"
  /\ \/ /\ proc[p].set.user \in users
        /\ \E t \in TicketIds :
             /\ InsertRow(t, proc[p].conv, proc[p].set, "agent")
             /\ Goto(p, [Idle EXCEPT !.pc = "reload", !.tid = t])
     \/ /\ proc[p].set.user \notin users \/ NoIdLeft
        /\ Fail(p) /\ UNCHANGED <<rows, via>>
  /\ UNCHANGED <<now, users, lock>>

-----------------------------------------------------------------------------
(* PUT /tickets/{id}: load, authorise and plan, then write by id.           *)

CanSee(a, r) ==
  \/ a \in Admins
  \/ r.user = a
  \/ a \in users /\ r.queue \in UserQueues[a]
  \/ r.status = "pending" /\ r.queue = Null

(* Mutant: whoever sees a ticket may change it.                             *)
CanModifySeen(a, r) == CanSee(a, r)

CanModify(a, r) ==
  \/ a \in Admins
  \/ CanSee(a, r) /\ (r.status = "pending" \/ r.user = a)

MayAssign(a, d) == d.status = "pending" \/ d.user \in {Keep, a} \/ a \in Admins

(* Mutant: accepting a ticket does not make the agent its owner.            *)
PlanUnowned(r, a, d) ==
  [status |-> IF d.status = r.status THEN Keep ELSE d.status,
   user   |-> IF d.status = "pending" THEN Null ELSE d.user,
   queue  |-> d.queue, unread |-> Keep]

Plan(r, a, d) ==
  [status |-> IF d.status = r.status THEN Keep ELSE d.status,
   user   |-> CASE d.status = "open" /\ d.user = Keep -> IF r.user = a THEN Keep ELSE a
                [] d.status = "pending" -> IF r.status = "pending" THEN Keep ELSE Null
                [] OTHER -> d.user,
   queue  |-> d.queue,
   unread |-> IF d.status = "open" /\ r.status # "open" /\ r.unread THEN FALSE ELSE Keep]

UpdateLoad(p, t, a, d) ==
  /\ Accept(p, "update") /\ Exists(t)
  /\ CanModify(a, rows[t]) /\ MayAssign(a, d)
  /\ Plan(rows[t], a, d) # NoChange
  /\ Goto(p, [Idle EXCEPT !.pc = "write", !.tid = t, !.by = a, !.old = rows[t].status,
                          !.set = Plan(rows[t], a, d)])
  /\ UNCHANGED <<rows, now, users, lock, via>>

(* UpdateLastMessage, UpdateQueue and SetMessagesAsRead are the same        *)
(* sequence without an actor.                                               *)
Touch(p, t, set) ==
  /\ Accept(p, "touch") /\ Exists(t)
  /\ Goto(p, [Idle EXCEPT !.pc = "write", !.tid = t, !.old = rows[t].status, !.set = set])
  /\ UNCHANGED <<rows, now, users, lock, via>>

UpdateWrite(p) ==
  /\ proc[p].pc = "write"
  /\ \/ /\ Exists(proc[p].tid) => proc[p].set.user \in users \cup {Null, Keep}
        /\ UpdateRow(proc[p].tid, proc[p].set, "agent")
        /\ Goto(p, [proc[p] EXCEPT !.pc = "reload", !.set = NoChange, !.by = Null])
     \/ /\ Exists(proc[p].tid) /\ proc[p].set.user \notin users \cup {Null, Keep}
        /\ Fail(p)
        /\ UNCHANGED <<rows, via>>
  /\ UNCHANGED <<now, users, lock>>

-----------------------------------------------------------------------------
(* DELETE /tickets/{id}, by an admin.                                       *)

DeleteLoad(p, t) ==
  /\ Accept(p, "delete") /\ Exists(t)
  /\ Goto(p, [Idle EXCEPT !.pc = "delete", !.tid = t, !.dto = rows[t].status])
  /\ UNCHANGED <<rows, now, users, lock, via>>

DeleteWrite(p) ==
  LET t == proc[p].tid IN
  /\ proc[p].pc = "delete" /\ Unlocked(t)
  /\ \/ /\ Exists(t)
        /\ rows' = [rows EXCEPT ![t] = [NoRow("deleted") EXCEPT !.conv = rows[t].conv]]
        /\ Goto(p, [proc[p] EXCEPT !.pc = "emit", !.old = "deleted"])
     \/ ~Exists(t) /\ Fail(p) /\ rows' = rows
  /\ Claim("agent")
  /\ UNCHANGED <<now, users, lock>>

(* Deleting a user: one transaction of two statements.  The first moves the *)
(* user's open tickets to pending and keeps them locked; the second deletes *)
(* the user, and ON DELETE SET NULL clears whatever else points to it.      *)
PurgeBegin(p, u) ==
  LET mine == {t \in TicketIds : rows[t].status = "open" /\ rows[t].user = u} IN
  /\ Accept(p, "purge") /\ u \in users
  /\ \A t \in mine : Unlocked(t)
  /\ Goto(p, [Idle EXCEPT !.pc = "purge", !.set.user = u, !.held = mine])
  /\ UNCHANGED <<rows, now, users, lock, via>>

PurgeCommit(p) ==
  LET u == proc[p].set.user IN
  /\ proc[p].pc = "purge" /\ Fail(p)
  /\ \/ /\ u \in users /\ users' = users \ {u}
        /\ rows' = [t \in TicketIds |->
             IF t \in proc[p].held
             THEN [rows[t] EXCEPT !.status = "pending", !.user = Null]
             ELSE IF rows[t].user = u THEN [rows[t] EXCEPT !.user = Null] ELSE rows[t]]
     \/ u \notin users /\ UNCHANGED <<rows, users>>
  /\ Claim("agent")
  /\ UNCHANGED <<now, lock>>

-----------------------------------------------------------------------------
(* The end of every request: reload the row and publish it.                 *)

Reload(p) ==
  LET t == proc[p].tid IN
  /\ proc[p].pc = "reload"
  /\ IF Exists(t) THEN Goto(p, [proc[p] EXCEPT !.pc = "emit", !.dto = rows[t].status])
                  ELSE Fail(p)
  /\ UNCHANGED <<rows, now, users, lock, via>>

Emit(p) ==
  /\ proc[p].pc = "emit" /\ Fail(p)
  /\ UNCHANGED <<rows, now, users, lock, via>>

(* The backend restarts: open transactions roll back, their locks go.       *)
Crash ==
  /\ "crash" \in Requests
  /\ proc' = [p \in Procs |-> Idle]
  /\ lock' = [c \in Convs |-> Null]
  /\ UNCHANGED <<rows, now, users, via>>

Tick ==
  /\ now < MaxNow /\ now' = now + 1
  /\ UNCHANGED <<rows, users, lock, proc, via>>

-----------------------------------------------------------------------------
Init ==
  /\ rows = [t \in TicketIds |-> NoRow("unused")]
  /\ now = 0
  /\ users = Users
  /\ lock = [c \in Convs |-> Null]
  /\ proc = [p \in Procs |-> Idle]
  /\ via = [t \in TicketIds |-> "none"]

(* What a PUT may carry: JSON null decodes to an absent field, so no client *)
(* can ask for a NULL owner or queue.                                       *)
UpdateData == [status : Status \cup {Keep}, user : Users \cup {Keep}, queue : Queues \cup {Keep}]
TouchData  == {NoChange, [NoChange EXCEPT !.unread = FALSE]}
                \cup {[NoChange EXCEPT !.queue = q] : q \in Queues}

FindOrCreate(p) == FocLock(p) \/ FocFind(p) \/ FocFindRecent(p) \/ FocUpdate(p)
                     \/ FocInsert(p) \/ FocInsertFails(p)
Step(p) == FindOrCreate(p) \/ StoreInsert(p) \/ UpdateWrite(p) \/ DeleteWrite(p)
             \/ PurgeCommit(p) \/ Reload(p) \/ Emit(p)

Request(p) ==
  \/ \E c \in Convs, fromMe \in FromMe : FocCall(p, c, fromMe)
  \/ \E c \in Convs, u \in Users, s \in Status : StoreCheck(p, c, u, s)
  \/ \E t \in TicketIds, a \in Users, d \in UpdateData : UpdateLoad(p, t, a, d)
  \/ \E t \in TicketIds, set \in TouchData : Touch(p, t, set)
  \/ \E t \in TicketIds : DeleteLoad(p, t)
  \/ \E u \in Users : PurgeBegin(p, u)

Next == (\E p \in Procs : Request(p) \/ Step(p)) \/ Tick \/ Crash

Spec == Init /\ [][Next]_vars

(* A request that was accepted keeps running, and PostgreSQL grants a       *)
(* waiting advisory lock in the order it was asked for.                     *)
FairSpec == Spec /\ \A p \in Procs : WF_vars(Step(p)) /\ SF_vars(FocLock(p))

-----------------------------------------------------------------------------
TypeOK ==
  /\ rows \in [TicketIds -> Row]
  /\ now \in 0..MaxNow
  /\ users \subseteq Users
  /\ lock \in [Convs -> Procs \cup {Null}]
  /\ proc \in [Procs -> [pc : PC, conv : Convs \cup {Null}, tid : TicketIds \cup {Null},
                        set : Change, old : Status \cup {Keep, "deleted"},
                        by : Users \cup {Null}, dto : Status \cup {Null}, held : SUBSET TicketIds]]
  /\ via \in [TicketIds -> {"inbound", "agent", "none"}]

(* The promise of the advisory lock: however requests interleave and crash, *)
(* a conversation never has two live tickets that inbound messages made     *)
(* live.  Agents can add another one (POST checks without the lock, PUT     *)
(* reopens without a check), FindOrCreate alone never does.                 *)
InboundUnique ==
  \A t, u \in TicketIds :
    via[t] = "inbound" /\ via[u] = "inbound" /\ rows[t].conv = rows[u].conv => t = u

(* Every inbound message that was accepted gets its answer: no interleaving *)
(* leaves the advisory lock held or a FindOrCreate waiting for ever.        *)
FindOrCreateReturns ==
  \A p \in Procs : proc[p].pc = "foc_lock" ~> proc[p].pc = "idle"

(* The ticket an inbound message holds live in each conversation, and the   *)
(* conversation of each ticket: the state of ConversationSlots.             *)
SlotOf(c) == IF \E t \in TicketIds : via[t] = "inbound" /\ rows[t].conv = c
             THEN CHOOSE t \in TicketIds : via[t] = "inbound" /\ rows[t].conv = c
             ELSE Null
Slots == INSTANCE ConversationSlots
           WITH slot <- [c \in Convs |-> SlotOf(c)],
                home <- [t \in TicketIds |-> rows[t].conv]

(* All of Tickets implements ConversationSlots: seen through its slots, the *)
(* backend only fills an empty slot, frees one, or files a new ticket.      *)
SlotsImplemented == Slots!Spec

-----------------------------------------------------------------------------
(* Two properties of requests that do not overlap.                          *)

(* An open ticket has an owner: accepting, transferring, returning a ticket *)
(* or deleting a user never leaves one that nobody works on.                *)
OpenIsOwned == \A t \in TicketIds : rows[t].status = "open" => rows[t].user # Null

(* Only an admin takes an open ticket away from the agent who works on it:  *)
(* a PUT by anyone else leaves its owner, or is its owner giving it back.   *)
OwnerIsRespected ==
  [][\A p \in Procs, t \in TicketIds :
        ( /\ proc[p].pc = "write" /\ proc[p].by \notin Admins \cup {Null}
          /\ rows[t].status = "open" /\ rows[t].user # Null
          /\ rows'[t].user # rows[t].user ) => rows[t].user = proc[p].by]_vars

-----------------------------------------------------------------------------
(* Two statements of the documentation.  The code keeps neither, so no run   *)
(* has them; the README shows how each is broken.                           *)

(* README: a message is related to the open or pending ticket there is, and *)
(* reopens a ticket or creates one only when there is none.                 *)
InboundRespectsLive ==
  [][\A p \in Procs :
        proc[p].pc = "foc_write" /\ proc[p].set.status = "pending" /\ proc'[p].pc = "reload"
          => LiveOf(proc[p].conv) = {}]_vars

(* The interface's error text: a contact has one open ticket at a time.     *)
OneLiveTicket ==
  \A t, u \in TicketIds : Live(t) /\ Live(u) /\ rows[t].conv = rows[u].conv => t = u
=============================================================================
