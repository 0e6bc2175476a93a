---------------------------- MODULE Connections ----------------------------
(***************************************************************************)
(* The WhatsApp connections: the rows an administrator creates, changes,   *)
(* starts, logs out and deletes, the session commands the backend          *)
(* publishes, the sessions of the worker that carry them out, and the      *)
(* lifecycle events that come back and move the status of the row.         *)
(*                                                                         *)
(* A step is one SQL statement, one publication or one handling of a       *)
(* delivery.  Every delivery has a goroutine of its own, so commands and   *)
(* events are handled in any order, and again when their ack is lost.      *)
(***************************************************************************)
EXTENDS Naturals, FiniteSets

CONSTANTS
  Conns,     (* connection ids                                             *)
  Reqs,      (* administrators' requests that run concurrently             *)
  Settings,  (* values of the advanced settings                            *)
  Blank,     (* AdvancedSettings{}                                         *)
  Workloads, (* what may happen in a run: the rows there are, its ids,     *)
             (* requests, settings and inputs, how many events are handled *)
             (* at the same time (the prefetch count), and how often a     *)
             (* process restarts                                           *)
  None

Statuses == {"OPENING", "qrcode", "CONNECTED", "DISCONNECTED"}
Row      == [status : Statuses, default : BOOLEAN, set : Settings]
Inputs   == {"create", "update", "start", "logout", "delete", "worker", "network",
             "default", "dberror", "unavailable", "backend"}

ASSUME ConnectionsAssumption ==
  /\ None \notin Conns \cup Reqs \cup Settings /\ Blank \in Settings
  /\ IsFiniteSet(Conns) /\ IsFiniteSet(Reqs)
  /\ Workloads \subseteq [rows : [Conns -> Row \cup {None}], conns : SUBSET Conns,
                           reqs : SUBSET Reqs, set : SUBSET Settings,
                           inputs : SUBSET Inputs, prefetch : Nat, restarts : Nat]

(* The unique index whatsapps_one_default of the schema holds of the rows  *)
(* a run starts with.                                                      *)
ASSUME OneDefaultAssumption ==
  \A w \in Workloads : \A c, d \in Conns :
    w.rows[c] # None /\ w.rows[d] # None /\ w.rows[c].default /\ w.rows[d].default => c = d

VARIABLES
  row,       (* committed row of each connection                           *)
  ids,       (* ids the sequence has given out                             *)
  tx,        (* request -> rows written by its open transaction            *)
  req,       (* request -> program counter and locals                      *)
  cmds,      (* worker.commands                                            *)
  events,    (* backend.wa-events                                          *)
  out,       (* event -> where its handler is                              *)
  fresh,     (* processes whose copy of the row has its current status     *)
  untold,    (* connections whose status nobody broadcast since it was     *)
             (* written                                                    *)
  failed,    (* connections whose status is that of a request that ended   *)
             (* with an error before it broadcast it                       *)
  boot,      (* settings of the rows StartAllSessions listed and has not   *)
             (* started                                                    *)
  sess,      (* connection -> session of the worker                        *)
  device,    (* connections with a paired device in the worker's store     *)
  restore,   (* devices AutoRestoreFromContainer has not come to           *)
  work,      (* the workload                                               *)
  restarts   (* restarts left                                              *)

rows    == <<row, ids, tx>>
telling == <<fresh, untold, failed>>
worker  == <<sess, device, restore>>
env     == <<work, restarts>>
vars    == <<rows, req, cmds, events, out, telling, boot, worker, env>>

-----------------------------------------------------------------------------
Kinds    == {"qr", "timeout", "connected", "loggedout", "retry", "restored"}
Event    == [kind : Kinds, conn : Conns]
Command  == [kind : {"start", "settings"}, conn : Conns, set : Settings]
              \cup [kind : {"stop", "logout"}, conn : Conns]
Session  == [st : {"none", "new", "restore", "qr", "dial", "on"}, set : Settings,
             killed : {"no", "stop", "logout"}]
Request  == [pc : {"idle", "load", "scan", "clear", "write", "commit", "reload",
                   "status", "command", "erase", "tell"},
             op : {"create", "update", "start", "logout", "delete"},
             conn : Conns \cup {None}, default : BOOLEAN \cup {None},
             new : Settings \cup {None}, match : SUBSET Conns,
             old : Settings \cup {None}, copy : Settings \cup {None}]

Idle      == [pc |-> "idle", op |-> "start", conn |-> None, default |-> None,
              new |-> None, match |-> {}, old |-> None, copy |-> None]
NoSession == [st |-> "none", set |-> Blank, killed |-> "no"]
Clean     == [c \in Conns |-> None]

ASSUME ConnectionsApart == Reqs \cap Event = {} /\ None \notin Row \cup BOOLEAN

Start(c, s)        == [kind |-> "start", conn |-> c, set |-> s]
UpdateSettings(c, s) == [kind |-> "settings", conn |-> c, set |-> s]
Stop(c)            == [kind |-> "stop", conn |-> c]
Logout(c)          == [kind |-> "logout", conn |-> c]

At(r, pc)  == req[r].pc = pc
Go(r, pc)  == req' = [req EXCEPT ![r].pc = pc]
Finish(r)  == req' = [req EXCEPT ![r] = Idle]

Flags  == IF "default" \in work.inputs THEN BOOLEAN ELSE {}
May(x) == x \in work.inputs

(* A publication is confirmed, or fails and the caller only logs it.       *)
Publish(m) ==
  \/ cmds' = cmds \cup {m}
  \/ May("unavailable") /\ UNCHANGED cmds

(* Rows a process works on; the transaction that wrote a row holds it.     *)
On(p)        == IF p \in Reqs THEN req[p].conn ELSE p.conn
Locked(c, r) == \E q \in Reqs \ {r} : tx[q][c] # None
View(r, c)   == IF tx[r][c] # None THEN tx[r][c] ELSE row[c]
IsDefault(w) == w # None /\ w.default

(* What a status written to a row means for those who hold a copy of it.   *)
Changed(p, c) ==
  /\ fresh' = {q \in fresh : On(q) # c} \cup {p}
  /\ untold' = untold \cup {c} /\ failed' = failed \ {c}

(* The request ends with an error: what it wrote it does not broadcast.    *)
Abandon(r) ==
  /\ fresh' = fresh \ {r} /\ UNCHANGED untold
  /\ failed' = IF r \in fresh THEN failed \cup {req[r].conn} ELSE failed

(* UpdateStatus, UpdateConnected, UpdateRetries, UpdateDisconnected: no    *)
(* error when the row is gone.                                             *)
WriteStatus(p, c, s) ==
  /\ ~Locked(c, None)
  /\ IF row[c] = None THEN UNCHANGED <<row, telling>>
     ELSE row' = [row EXCEPT ![c].status = s] /\ Changed(p, c)

(* A copy that is not fresh is broadcast all the same, and replaces on the  *)
(* screens what was broadcast before: that is not recorded.                *)
Broadcast(p, c) == untold' = IF p \in fresh THEN untold \ {c} ELSE untold

Init ==
  /\ work \in Workloads /\ restarts = work.restarts
  /\ row = work.rows /\ ids = {c \in Conns : row[c] # None} /\ tx = [r \in Reqs |-> Clean]
  /\ req = [r \in Reqs |-> Idle] /\ cmds = {} /\ events = {}
  /\ out = [e \in Event |-> "idle"] /\ fresh = {} /\ untold = {} /\ failed = {} /\ boot = Clean
  /\ sess = [c \in Conns |-> NoSession] /\ device = {} /\ restore = {}

-----------------------------------------------------------------------------
(* Requests.  Create and Update run a transaction; the others do not.      *)

Create(r) ==
  /\ May("create") /\ At(r, "idle")
  /\ \E c \in work.conns \ ids, d \in Flags \cup {FALSE}, s \in work.set :
       /\ ids' = ids \cup {c}
       /\ req' = [req EXCEPT ![r] = [Idle EXCEPT !.pc = IF d THEN "scan" ELSE "write",
                     !.op = "create", !.conn = c, !.default = d, !.new = s]]
  /\ UNCHANGED <<row, tx, cmds, events, out, telling, boot, worker, env>>

Begin(r) ==
  /\ At(r, "idle")
  /\ \E op \in work.inputs \cap {"update", "start", "logout", "delete"}, c \in ids,
        d \in Flags \cup {None}, s \in work.set \cup {None} :
       /\ op # "update" => d = None /\ s = None
       /\ req' = [req EXCEPT ![r] = [Idle EXCEPT !.pc = "load", !.op = op,
                     !.conn = c, !.default = d, !.new = s]]
  /\ UNCHANGED <<rows, cmds, events, out, telling, boot, worker, env>>

AfterLoad == [update |-> "scan", start |-> "status", logout |-> "command", delete |-> "command"]

(* Mutant: the copy that is published never read the settings.             *)
LoadPartly(r) ==
  LET c == req[r].conn IN
  /\ At(r, "load")
  /\ IF row[c] = None THEN Finish(r)
     ELSE req' = [req EXCEPT ![r].pc = AfterLoad[req[r].op]]
  /\ UNCHANGED <<rows, cmds, events, out, telling, boot, worker, env>>

(* loadByID: a missing row ends the request with a 404.                    *)
Load(r) ==
  LET c == req[r].conn IN
  /\ At(r, "load")
  /\ IF row[c] = None THEN Finish(r)
     ELSE req' = [req EXCEPT ![r].pc = AfterLoad[req[r].op],
                             ![r].old = row[c].set, ![r].copy = row[c].set]
  /\ UNCHANGED <<rows, cmds, events, out, telling, boot, worker, env>>

(* The statement that clears the default sees the rows that are default    *)
(* when it starts, waits for their locks, and clears those that still are. *)
ScanDefaults(r) ==
  /\ At(r, "scan")
  /\ req' = [req EXCEPT ![r].pc = IF req[r].default = TRUE THEN "clear" ELSE "write",
                        ![r].match = {c \in Conns \ {req[r].conn} : IsDefault(row[c])}]
  /\ UNCHANGED <<rows, cmds, events, out, telling, boot, worker, env>>

(* Mutant: the statement runs outside of the transaction.                  *)
ClearDefaultsAlone(r) ==
  /\ At(r, "clear") /\ \A c \in req[r].match : ~Locked(c, r)
  /\ row' = [c \in Conns |-> IF c \in req[r].match /\ IsDefault(row[c])
                               THEN [row[c] EXCEPT !.default = FALSE] ELSE row[c]]
  /\ Go(r, "write")
  /\ UNCHANGED <<tx, ids, cmds, events, out, telling, boot, worker, env>>

ClearDefaults(r) ==
  /\ At(r, "clear") /\ \A c \in req[r].match : ~Locked(c, r)
  /\ tx' = [tx EXCEPT ![r] = [c \in Conns |->
              IF c \in req[r].match /\ IsDefault(row[c])
                THEN [row[c] EXCEPT !.default = FALSE] ELSE @[c]]]
  /\ Go(r, "write")
  /\ UNCHANGED <<row, ids, cmds, events, out, telling, boot, worker, env>>

(* The row the request asks for; None when an update finds it gone.        *)
Asked(r) ==
  LET q == req[r]  w == row[q.conn] IN
  IF q.op = "create" THEN [status |-> "OPENING", default |-> q.default, set |-> q.new]
  ELSE IF w = None THEN None
  ELSE [w EXCEPT !.default = IF q.default = None THEN @ ELSE q.default,
                 !.set = IF q.new = None THEN @ ELSE q.new]

(* The unique index whatsapps_one_default: a row that is or may become the *)
(* default holds the statement up until its transaction has ended.         *)
Settled(r) ==
  \A c \in Conns \ {req[r].conn}, q \in Reqs \ {r} :
    tx[q][c] # None => ~IsDefault(row[c]) /\ ~IsDefault(tx[q][c])
Conflict(r) == \E c \in Conns \ {req[r].conn} : IsDefault(View(r, c))

Rollback(r) == tx' = [tx EXCEPT ![r] = Clean] /\ Finish(r)

Write(r) ==
  LET c == req[r].conn  w == Asked(r) IN
  /\ At(r, "write") /\ ~Locked(c, r) /\ (IsDefault(w) => Settled(r))
  /\ IF IsDefault(w) /\ Conflict(r) THEN Rollback(r)
     ELSE tx' = [tx EXCEPT ![r][c] = w] /\ Go(r, "commit")
  /\ UNCHANGED <<row, ids, cmds, events, out, telling, boot, worker, env>>

(* The name is taken, or one of the queues does not exist.                 *)
Refused(r) ==
  /\ At(r, "commit") /\ Rollback(r)
  /\ UNCHANGED <<row, ids, cmds, events, out, telling, boot, worker, env>>

(* A statement fails, or the request's context has ended.                  *)
RequestFails(r) ==
  /\ May("dberror")
  /\ req[r].pc \in {"load", "scan", "clear", "write", "commit", "reload", "status", "erase"}
  /\ Rollback(r) /\ Abandon(r)
  /\ UNCHANGED <<row, ids, cmds, events, out, boot, worker, env>>

Commit(r) ==
  LET c == req[r].conn IN
  /\ At(r, "commit")
  /\ row' = [d \in Conns |-> View(r, d)]
  /\ tx' = [tx EXCEPT ![r] = Clean]
  /\ IF req[r].op = "create" THEN Changed(r, c) ELSE UNCHANGED telling
  /\ Go(r, "reload")
  /\ UNCHANGED <<ids, cmds, events, out, boot, worker, env>>

Reload(r) ==
  LET c == req[r].conn IN
  /\ At(r, "reload")
  /\ IF row[c] = None THEN Finish(r) /\ fresh' = fresh \ {r}
     ELSE /\ req' = [req EXCEPT ![r].pc = "command", ![r].copy = row[c].set]
          /\ fresh' = fresh \cup {r}
  /\ UNCHANGED <<rows, cmds, events, out, untold, failed, boot, worker, env>>

(* startOrRestart writes before it publishes, sessionLogout after.         *)
SetOpening(r) ==
  /\ At(r, "status") /\ req[r].op = "start"
  /\ WriteStatus(r, req[r].conn, "OPENING") /\ Go(r, "command")
  /\ UNCHANGED <<ids, tx, cmds, events, out, boot, worker, env>>

SetDisconnected(r) ==
  /\ At(r, "status") /\ req[r].op = "logout"
  /\ WriteStatus(r, req[r].conn, "DISCONNECTED") /\ Go(r, "tell")
  /\ UNCHANGED <<ids, tx, cmds, events, out, boot, worker, env>>

(* Of the failures only startOrRestart tells the administrator, and ends.  *)
Sends(r, op, m, next) ==
  /\ At(r, "command") /\ req[r].op = op /\ Go(r, next) /\ Publish(m)
  /\ UNCHANGED <<rows, events, out, telling, boot, worker, env>>

SendCreated(r) == Sends(r, "create", Start(req[r].conn, req[r].copy), "tell")
SendLogout(r)  == Sends(r, "logout", Logout(req[r].conn), "status")
SendDeleted(r) == Sends(r, "delete", Logout(req[r].conn), "erase")

SendUpdated(r) ==
  LET q == req[r] IN
  /\ At(r, "command") /\ q.op = "update" /\ Go(r, "tell")
  /\ IF q.new # None /\ q.copy # q.old THEN Publish(UpdateSettings(q.conn, q.copy))
                                        ELSE UNCHANGED cmds
  /\ UNCHANGED <<rows, events, out, telling, boot, worker, env>>

SendStart(r) ==
  /\ At(r, "command") /\ req[r].op = "start" /\ Go(r, "tell")
  /\ cmds' = cmds \cup {Start(req[r].conn, req[r].copy)}
  /\ UNCHANGED <<rows, events, out, telling, boot, worker, env>>

SendFails(r) ==
  /\ May("unavailable") /\ At(r, "command") /\ req[r].op = "start"
  /\ Finish(r) /\ Abandon(r)
  /\ UNCHANGED <<rows, cmds, events, out, boot, worker, env>>

Erase(r) ==
  LET c == req[r].conn IN
  /\ At(r, "erase") /\ ~Locked(c, r)
  /\ row' = [row EXCEPT ![c] = None]
  /\ IF row[c] = None THEN Finish(r) ELSE Go(r, "tell")
  /\ UNCHANGED <<ids, tx, cmds, events, out, telling, boot, worker, env>>

Tell(r) ==
  /\ At(r, "tell") /\ req[r].op # "delete" /\ Finish(r)
  /\ Broadcast(r, req[r].conn) /\ fresh' = fresh \ {r}
  /\ UNCHANGED <<rows, cmds, events, out, failed, boot, worker, env>>

TellDeleted(r) ==
  /\ At(r, "tell") /\ req[r].op = "delete" /\ Finish(r)
  /\ untold' = untold \ {req[r].conn} /\ fresh' = fresh \ {r}
  /\ UNCHANGED <<rows, cmds, events, out, failed, boot, worker, env>>

-----------------------------------------------------------------------------
(* The consumer of the lifecycle events.                                   *)

Outcome == [qr |-> "qrcode", timeout |-> "DISCONNECTED", connected |-> "CONNECTED",
            loggedout |-> "DISCONNECTED", retry |-> "OPENING", restored |-> "OPENING"]

(* The broker keeps back what exceeds the prefetch count of the channel.   *)
Delivered(e) ==
  e \in events /\ out[e] = "idle" /\ Cardinality({d \in Event : out[d] # "idle"}) < work.prefetch

Move(e, to) == out' = [out EXCEPT ![e] = to]

(* The handler is done: the event goes, or it comes again, because its ack *)
(* was lost or because the worker published the same thing twice.          *)
Done(e) ==
  /\ Move(e, "idle")
  /\ \/ events' = events \ {e}
     \/ UNCHANGED events

(* A restored session: stopped when the row was disconnected meanwhile.  A *)
(* missing row is an error, so the event goes back to the queue.           *)
ShowRestored(e) ==
  /\ Delivered(e) /\ e.kind = "restored" /\ row[e.conn] # None
  /\ IF row[e.conn].status = "DISCONNECTED"
       THEN Publish(Stop(e.conn)) /\ Done(e)
       ELSE Move(e, "shown") /\ UNCHANGED <<cmds, events>>
  /\ UNCHANGED <<rows, req, telling, boot, worker, env>>

HandleStatus(e) ==
  /\ IF e.kind = "restored" THEN out[e] = "shown" ELSE Delivered(e)
  /\ WriteStatus(e, e.conn, Outcome[e.kind])
  /\ Move(e, "wrote")
  /\ UNCHANGED <<ids, tx, req, cmds, events, boot, worker, env>>

(* Mutant: a missing row ends the handler without a word to the worker.    *)
ReloadRowQuietly(e) ==
  /\ out[e] = "wrote"
  /\ IF row[e.conn] = None
       THEN Done(e) /\ UNCHANGED fresh
       ELSE Move(e, "loaded") /\ fresh' = fresh \cup {e} /\ UNCHANGED events
  /\ UNCHANGED <<rows, req, cmds, untold, failed, boot, worker, env>>

(* emitWhatsappSessionUpdate: the row is read again; when it is gone the   *)
(* worker is told to log the session out.                                  *)
ReloadRow(e) ==
  /\ out[e] = "wrote"
  /\ IF row[e.conn] = None
       THEN Publish(Logout(e.conn)) /\ Done(e) /\ UNCHANGED fresh
       ELSE Move(e, "loaded") /\ fresh' = fresh \cup {e} /\ UNCHANGED <<cmds, events>>
  /\ UNCHANGED <<rows, req, untold, failed, boot, worker, env>>

(* Mutant: the event of a handler that failed is acknowledged.             *)
HandlerDrops(e) ==
  /\ May("dberror") /\ out[e] = "wrote" /\ Move(e, "idle")
  /\ events' = events \ {e}
  /\ UNCHANGED <<rows, req, cmds, telling, boot, worker, env>>

(* The row cannot be read: an error, and the event comes again.            *)
HandlerFails(e) ==
  /\ May("dberror") /\ out[e] = "wrote" /\ Move(e, "idle")
  /\ UNCHANGED <<rows, req, cmds, events, telling, boot, worker, env>>

TellEvent(e) ==
  /\ out[e] = "loaded" /\ Done(e)
  /\ Broadcast(e, e.conn) /\ fresh' = fresh \ {e}
  /\ UNCHANGED <<rows, req, cmds, failed, boot, worker, env>>

-----------------------------------------------------------------------------
(* The worker.  Its sessions are those of module Sessions, a step per      *)
(* session: before it is registered nothing reaches it.                    *)

Registered(c) == sess[c].st \in {"qr", "dial", "on"}
Emit(K, c)    == events' = events \cup {[kind |-> k, conn |-> c] : k \in K}
Ends(c)       == sess' = [sess EXCEPT ![c] = NoSession]

(* DeviceMetaStore: a connection has one device; setting another one fails *)
(* on the unique connection id, which is logged.                           *)
SetDevice(c)    == device' = device \cup {c}
DeleteDevice(c) == device' = device \ {c}

Handled(m)    == \/ cmds' = cmds \ {m}
                 \/ UNCHANGED cmds

(* No command of the backend names a device, so a start pairs a new one.   *)
(* A client that is connected, paired or not, runs already; a connecting   *)
(* session is an error, and the command comes again.                       *)
StartSession(m) ==
  /\ m \in cmds /\ m.kind = "start"
  /\ \/ sess[m.conn].st \in {"qr", "on"} /\ UNCHANGED sess
     \/ /\ sess[m.conn].st = "none"
        /\ sess' = [sess EXCEPT ![m.conn] = [st |-> "new", set |-> m.set, killed |-> "no"]]
  /\ Handled(m)
  /\ UNCHANGED <<rows, req, events, out, telling, boot, device, restore, env>>

(* SendKill closes the kill channel, which a session reads once it is      *)
(* connected: one that pairs or dials goes on until that is over.          *)
Kill(c, how) ==
  CASE sess[c].st = "on" -> Ends(c)
    [] sess[c].st \in {"qr", "dial"} ->
         sess' = [sess EXCEPT ![c].killed = IF @ = "logout" THEN @ ELSE how]
    [] OTHER -> UNCHANGED sess

StopSession(m) ==
  /\ m \in cmds /\ m.kind = "stop"
  /\ Kill(m.conn, "stop") /\ Handled(m)
  /\ UNCHANGED <<rows, req, events, out, telling, boot, device, restore, env>>

LogoutSession(m) ==
  /\ m \in cmds /\ m.kind = "logout"
  /\ Kill(m.conn, "logout") /\ Handled(m) /\ DeleteDevice(m.conn)
  /\ UNCHANGED <<rows, req, events, out, telling, boot, restore, env>>

(* Without a registered session an error, and the command comes again.     *)
ApplySettings(m) ==
  /\ m \in cmds /\ m.kind = "settings" /\ Registered(m.conn)
  /\ sess' = [sess EXCEPT ![m.conn].set = m.set] /\ Handled(m)
  /\ UNCHANGED <<rows, req, events, out, telling, boot, device, restore, env>>

Register(c) ==
  /\ sess[c].st \in {"new", "restore"}
  /\ sess' = [sess EXCEPT ![c].st = IF @ = "new" THEN "qr" ELSE "dial"]
  /\ UNCHANGED <<rows, req, cmds, events, out, telling, boot, device, restore, env>>

PairingCode(c) ==
  /\ sess[c].st = "qr" /\ Emit({"qr"}, c)
  /\ UNCHANGED <<rows, req, cmds, out, telling, boot, worker, env>>

(* The session is connected, or, when it was killed meanwhile, ends at     *)
(* once; its handler may publish the connection before it is taken away.   *)
Connects(c, K) ==
  IF sess[c].killed = "no"
    THEN sess' = [sess EXCEPT ![c].st = "on"] /\ Emit(K \cup {"connected"}, c)
    ELSE Ends(c) /\ (Emit(K, c) \/ Emit(K \cup {"connected"}, c))

(* The device that was paired is stored, also after a logout.              *)
PairingEnds(c) ==
  /\ sess[c].st = "qr"
  /\ \/ Ends(c) /\ \E K \in {{}, {"timeout"}, {"retry"}} : Emit(K, c)
        /\ UNCHANGED device
     \/ Connects(c, {}) /\ SetDevice(c)
  /\ UNCHANGED <<rows, req, cmds, out, telling, boot, restore, env>>

(* A logout takes the identity of the device away, and none is stored.     *)
Dial(c) ==
  /\ sess[c].st = "dial"
  /\ \/ Ends(c) /\ Emit({"retry"}, c) /\ UNCHANGED device
     \/ /\ Connects(c, {"restored"})
        /\ IF sess[c].killed = "logout" THEN UNCHANGED device ELSE SetDevice(c)
  /\ UNCHANGED <<rows, req, cmds, out, telling, boot, restore, env>>

(* The link comes back, or the session is taken away from the worker.      *)
Reconnected(c) ==
  /\ May("network") /\ sess[c].st = "on" /\ Emit({"connected"}, c)
  /\ UNCHANGED <<rows, req, cmds, out, telling, boot, worker, env>>

Evicted(c) ==
  /\ May("network") /\ sess[c].st = "on" /\ Ends(c)
  /\ \/ Emit({"loggedout"}, c) /\ DeleteDevice(c)
     \/ Emit({"retry"}, c) /\ UNCHANGED device
  /\ UNCHANGED <<rows, req, cmds, out, telling, boot, restore, env>>

-----------------------------------------------------------------------------
(* Restarts.  What was not acknowledged is in the queues again.            *)

WorkerRestart ==
  /\ May("worker") /\ restarts > 0 /\ restarts' = restarts - 1
  /\ sess' = [c \in Conns |-> NoSession] /\ restore' = device
  /\ UNCHANGED <<rows, req, cmds, events, out, telling, boot, device, work>>

(* AutoRestoreFromContainer knows the device and not the settings; the     *)
(* commands are consumed meanwhile, and may have started the connection.   *)
AutoRestore(c) ==
  /\ c \in restore /\ restore' = restore \ {c}
  /\ IF sess[c].st = "none"
       THEN sess' = [sess EXCEPT ![c] = [st |-> "restore", set |-> Blank, killed |-> "no"]]
       ELSE UNCHANGED sess
  /\ UNCHANGED <<rows, req, cmds, events, out, telling, boot, device, env>>

(* Requests are lost, and with them their transactions and the sockets of  *)
(* those who listened; StartAllSessions lists what was not disconnected.   *)
BackendRestart ==
  /\ May("backend") /\ restarts > 0 /\ restarts' = restarts - 1
  /\ req' = [r \in Reqs |-> Idle] /\ tx' = [r \in Reqs |-> Clean]
  /\ out' = [e \in Event |-> "idle"] /\ fresh' = {} /\ untold' = {} /\ failed' = {}
  /\ boot' = [c \in Conns |-> IF row[c] # None /\ row[c].status # "DISCONNECTED"
                                THEN row[c].set ELSE None]
  /\ UNCHANGED <<row, ids, cmds, events, worker, work>>

StartAll(c) ==
  /\ boot[c] # None /\ boot' = [boot EXCEPT ![c] = None]
  /\ Publish(Start(c, boot[c]))
  /\ UNCHANGED <<rows, req, events, out, telling, worker, env>>

-----------------------------------------------------------------------------
Requesting(r) == Load(r) \/ ScanDefaults(r) \/ ClearDefaults(r) \/ Write(r)
  \/ Refused(r) \/ Commit(r) \/ Reload(r) \/ SetOpening(r) \/ SetDisconnected(r)
  \/ SendCreated(r) \/ SendUpdated(r) \/ SendStart(r) \/ SendFails(r) \/ SendLogout(r)
  \/ SendDeleted(r) \/ Erase(r) \/ Tell(r) \/ TellDeleted(r)
Handling(e) == ShowRestored(e) \/ HandleStatus(e) \/ ReloadRow(e) \/ TellEvent(e)
Obeying(m) == May("worker")
  /\ (StartSession(m) \/ StopSession(m) \/ LogoutSession(m) \/ ApplySettings(m))
Running(c) == Register(c) \/ PairingEnds(c) \/ Dial(c)

Next ==
  \/ \E r \in work.reqs : Create(r) \/ Begin(r) \/ Requesting(r) \/ RequestFails(r)
  \/ \E e \in Event : Handling(e) \/ HandlerFails(e)
  \/ \E m \in cmds : Obeying(m)
  \/ \E c \in Conns : Running(c) \/ PairingCode(c) \/ Reconnected(c) \/ Evicted(c)
                        \/ AutoRestore(c) \/ StartAll(c)
  \/ WorkerRestart \/ BackendRestart

Spec == Init /\ [][Next]_vars

(* Both processes keep running; a delivery does not fail, or lose its ack,  *)
(* for ever; pairing and dialling have deadlines.                          *)
FairSpec ==
  /\ Spec
  /\ WF_vars(\E r \in Reqs : Requesting(r))
  /\ WF_vars(\E e \in Event : Handling(e))
  /\ SF_vars(\E e \in Event : Handling(e) /\ events' # events)
  /\ WF_vars(\E m \in cmds : Obeying(m) /\ cmds' # cmds)
  /\ WF_vars(\E c \in Conns : Running(c) \/ AutoRestore(c) \/ StartAll(c))

-----------------------------------------------------------------------------
TypeOK ==
  /\ row \in [Conns -> Row \cup {None}] /\ ids \subseteq Conns
  /\ tx \in [Reqs -> [Conns -> Row \cup {None}]]
  /\ req \in [Reqs -> Request]
  /\ cmds \subseteq Command /\ events \subseteq Event
  /\ out \in [Event -> {"idle", "shown", "wrote", "loaded"}]
  /\ fresh \subseteq Reqs \cup Event /\ untold \subseteq Conns /\ failed \subseteq Conns
  /\ boot \in [Conns -> Settings \cup {None}]
  /\ sess \in [Conns -> Session] /\ device \subseteq Conns /\ restore \subseteq Conns
  /\ work \in Workloads /\ restarts \in 0..work.restarts

(* Once there is a default connection there stays one, whichever requests  *)
(* compete for it and fail on a name, a queue or the index, unless an      *)
(* administrator deletes it, says it is no default any more, or deletes    *)
(* the connection that another one is making the default just then.        *)
SomeDefault == \E c \in Conns : IsDefault(row[c])
GivenUp(c) ==
  \E r \in Reqs : req[r].conn = c
    /\ \/ At(r, "erase") /\ row'[c] = None
       \/ At(r, "commit") /\ req[r].op = "update" /\ req[r].default = FALSE
Overtaken == \E r \in Reqs : At(r, "commit") /\ row[req[r].conn] = None /\ req[r].op = "update"
DefaultKept ==
  [][SomeDefault /\ ~SomeDefault' =>
       Overtaken \/ \E c \in Conns : IsDefault(row[c]) /\ GivenUp(c)]_vars

(* Each status written to a row is broadcast: until somebody has done so,  *)
(* there is a request or a handler with that status whose broadcast is     *)
(* ahead, or an event that comes again and writes it again.  The exception *)
(* is a request that ends with an error, which the administrator sees:     *)
(* nobody broadcasts what it wrote before.  A copy that is older may be    *)
(* broadcast later and then stays on the screens.                          *)
Carries(r) ==
  \/ At(r, "tell")
  \/ At(r, "command") /\ req[r].op \in {"create", "start", "update"}
  \/ At(r, "reload") /\ req[r].op = "create"
Held(c) ==
  \/ \E r \in Reqs : r \in fresh /\ req[r].conn = c /\ Carries(r)
  \/ \E e \in events : e \in fresh /\ e.conn = c
StatusIsTold == \A c \in untold : row[c] # None /\ c \notin failed => Held(c)

(* A session whose row is deleted ends once it makes itself heard: the     *)
(* logout the deletion published may have come before the session was      *)
(* registered, and only an event read without a row brings another one.    *)
Heard(c) == \E e \in events : e.conn = c /\ e.kind # "restored" /\ out[e] # "loaded"
OrphanIsEnded ==
  \A c \in Conns :
    (c \in ids /\ row[c] = None /\ Heard(c) /\ sess[c].st # "none")
      ~> (row[c] # None \/ sess[c].st = "none")

(* "session restored for missing row, force logout": the event is handled  *)
(* and the worker told.  Not so in the code, as the README shows: the test  *)
(* for the missing row never succeeds, so no run has this.                 *)
RestoredOrphanIsHandled ==
  \A c \in Conns : LET e == [kind |-> "restored", conn |-> c] IN
    (e \in events /\ c \in ids /\ row[c] = None) ~> (e \notin events)
=============================================================================
