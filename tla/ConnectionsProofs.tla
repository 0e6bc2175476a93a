------------------------- MODULE ConnectionsProofs -------------------------
(* What holds of Connections for every set of connections, requests,       *)
(* settings and workloads: typing, the one default connection, requests    *)
(* that do not deadlock, and that a status written is a status somebody    *)
(* still broadcasts.                                                       *)
EXTENDS Connections, TLAPS

InTx(r) == req[r].pc \in {"scan", "clear", "write", "commit"}

(* What a request that is under way knows.                                 *)
Knows(r) ==
  /\ req[r].conn \in ids
  /\ req[r].op = "create" => req[r].default \in BOOLEAN /\ req[r].new \in Settings
  /\ InTx(r) \/ At(r, "reload") => req[r].op \in {"create", "update"}
  /\ At(r, "load") => req[r].op # "create"
  /\ At(r, "clear") => req[r].default = TRUE /\ req[r].conn \notin req[r].match
  /\ req[r].pc \in {"status", "command"} => req[r].copy \in Settings
Knowing == \A r \in Reqs : ~At(r, "idle") => Knows(r)

TypeInv == TypeOK /\ Knowing

-----------------------------------------------------------------------------
(* The transactions.                                                       *)

(* A connection that is being created has no row until the commit, and no  *)
(* request that found a row works on it.                                   *)
Creating(r) == req[r].op = "create" /\ InTx(r)
Updating(r) == req[r].op = "update" /\ InTx(r)
BornOnce ==
  /\ \A c \in Conns : row[c] # None => c \in ids
  /\ \A r \in Reqs : Creating(r) => row[req[r].conn] = None
  /\ \A r, q \in Reqs :
       r # q /\ Creating(r) /\ (Creating(q) \/ Updating(q)) => req[q].conn # req[r].conn

(* The rows a transaction wrote: its own, as asked for, and those that are *)
(* no default any more.  Their status is that of the committed row.        *)
Own(r, w) ==
  /\ At(r, "commit")
  /\ req[r].default # None => w.default = req[r].default
  /\ req[r].op = "update" /\ req[r].default = None => w.default = row[req[r].conn].default
Written(r, c) ==
  /\ req[r].pc \in {"write", "commit"}
  /\ \A q \in Reqs \ {r} : tx[q][c] = None
  /\ IF c = req[r].conn THEN Own(r, tx[r][c]) ELSE req[r].default = TRUE
  /\ (c # req[r].conn \/ req[r].op = "update") =>
        row[c] # None /\ tx[r][c].status = row[c].status
Transactions == \A r \in Reqs, c \in Conns : tx[r][c] # None => Written(r, c)

(* An update that wrote nothing found its row gone, and it stays gone.     *)
Empty == \A r \in Reqs : At(r, "commit") /\ tx[r][req[r].conn] = None =>
           req[r].op = "update" /\ row[req[r].conn] = None

RowInv == TypeInv /\ BornOnce /\ Transactions /\ Empty

-----------------------------------------------------------------------------
(* The statuses.                                                           *)

InHand == \A e \in Event : out[e] # "idle" => e \in events

(* A handler whose write is the last one finds its own status in the row.  *)
LastWrites ==
  \A e \in Event : e \in fresh /\ out[e] # "loaded" /\ row[e.conn] # None =>
                     row[e.conn].status = Outcome[e.kind]

TellInv == InHand /\ LastWrites /\ StatusIsTold

-----------------------------------------------------------------------------
(* The default connection, and the requests that compete for it.           *)

(* At most one connection is the default.                                  *)
AtMostOneDefault ==
  \A c, d \in Conns : IsDefault(row[c]) /\ IsDefault(row[d]) => c = d

(* A request changes rows other than its own only to take the default from *)
(* them; once it has asked for the default, nobody else is or becomes it.  *)
Cleared ==
  \A r \in Reqs, c \in Conns :
    tx[r][c] # None /\ c # req[r].conn => IsDefault(row[c]) /\ ~IsDefault(tx[r][c])
Chosen ==
  \A r \in Reqs, c \in Conns : c = req[r].conn /\ IsDefault(tx[r][c]) =>
    \A d \in Conns \ {c} :
      ~IsDefault(View(r, d)) /\ \A q \in Reqs \ {r} : ~IsDefault(tx[q][d])
DefaultInv == AtMostOneDefault /\ Cleared /\ Chosen

(* A transaction that wrote a row holds it until it ends.  A request waits *)
(* for the rows its next statement writes, and at the unique index.        *)
Holds(r) == \E c \in Conns : tx[r][c] # None
Waits(r) ==
  \/ At(r, "clear") /\ \E c \in req[r].match : Locked(c, r)
  \/ At(r, "write") /\ Locked(req[r].conn, r)
  \/ At(r, "write") /\ IsDefault(Asked(r)) /\ ~Settled(r)
  \/ req[r].pc \in {"status", "erase"} /\ Locked(req[r].conn, r)

(* Requests do not wait for each other in a circle: as long as a row is    *)
(* held, one of the transactions that hold rows does not wait.             *)
NoRequestDeadlock ==
  (\E c \in Conns : Locked(c, None)) => \E r \in Reqs : Holds(r) /\ ~Waits(r)

-----------------------------------------------------------------------------
(* Typing.                                                                 *)

LEMMA PublishType ==
  ASSUME NEW m \in Command, cmds \subseteq Command, Publish(m)
  PROVE  cmds' \subseteq Command
BY DEF Publish

LEMMA CommandTypes ==
  ASSUME NEW c \in Conns, NEW s \in Settings
  PROVE  {Start(c, s), UpdateSettings(c, s), Stop(c), Logout(c)} \subseteq Command
BY DEF Command, Start, UpdateSettings, Stop, Logout

LEMMA EmitType ==
  ASSUME NEW K \in SUBSET Kinds, NEW c \in Conns, events \subseteq Event, Emit(K, c)
  PROVE  events' \subseteq Event
BY DEF Emit, Event

LEMMA HandledType ==
  ASSUME NEW m, cmds \subseteq Command, Handled(m)
  PROVE  cmds' \subseteq Command
BY DEF Handled

LEMMA DoneType ==
  ASSUME NEW e \in Event, TypeOK, Done(e)
  PROVE  events' \subseteq Event /\ out' \in [Event -> {"idle", "shown", "wrote", "loaded"}]
BY DEF Done, Move, TypeOK

LEMMA WriteStatusType ==
  ASSUME NEW p \in Reqs \cup Event, NEW c \in Conns, NEW s \in Statuses, TypeOK,
         WriteStatus(p, c, s)
  PROVE  /\ row' \in [Conns -> Row \cup {None}]
         /\ fresh' \subseteq Reqs \cup Event /\ untold' \subseteq Conns /\ failed' \subseteq Conns
<1>1. CASE row[c] = None
  BY <1>1 DEF WriteStatus, TypeOK, telling
<1>2. CASE row[c] # None
  <2>1. row[c] \in Row /\ row' = [row EXCEPT ![c].status = s]
    BY <1>2 DEF WriteStatus, TypeOK
  <2>2. [row[c] EXCEPT !.status = s] \in Row
    BY <2>1 DEF Row
  <2>3. row' \in [Conns -> Row \cup {None}]
    BY <2>1, <2>2 DEF TypeOK
  <2>4. fresh' \subseteq Reqs \cup Event /\ untold' \subseteq Conns /\ failed' \subseteq Conns
    BY <1>2 DEF WriteStatus, Changed, TypeOK
  <2> QED BY <2>3, <2>4
<1> QED BY <1>1, <1>2

LEMMA InitType == Init => TypeInv
<1> SUFFICES ASSUME Init PROVE TypeInv
  OBVIOUS
<1>1. work \in [rows : [Conns -> Row \cup {None}], conns : SUBSET Conns, reqs : SUBSET Reqs,
                set : SUBSET Settings, inputs : SUBSET Inputs, prefetch : Nat, restarts : Nat]
  BY ConnectionsAssumption DEF Init
<1>2. row \in [Conns -> Row \cup {None}] /\ restarts \in 0..work.restarts
  BY <1>1 DEF Init
<1>3. tx \in [Reqs -> [Conns -> Row \cup {None}]] /\ boot \in [Conns -> Settings \cup {None}]
  BY DEF Init, Clean
<1>4. req \in [Reqs -> Request]
  BY DEF Init, Idle, Request
<1>5. sess \in [Conns -> Session]
  BY ConnectionsAssumption DEF Init, NoSession, Session
<1>6. TypeOK
  BY <1>2, <1>3, <1>4, <1>5 DEF Init, TypeOK
<1>7. Knowing
  BY DEF Knowing, Init, At, Idle
<1> QED BY <1>6, <1>7 DEF TypeInv

(* A step of request r leaves the others as they are.                      *)
LEMMA OthersKnow ==
  ASSUME NEW r \in Reqs, Knowing, ids \subseteq ids',
         \A q \in Reqs \ {r} : req'[q] = req[q],
         (~At(r, "idle") => Knows(r))'
  PROVE  Knowing'
<1> SUFFICES ASSUME NEW q \in Reqs PROVE (~At(q, "idle") => Knows(q))'
  BY DEF Knowing
<1>1. CASE q = r
  BY <1>1
<1>2. CASE q # r
  <2>1. req'[q] = req[q] /\ (~At(q, "idle") => Knows(q))
    BY <1>2 DEF Knowing
  <2> QED BY <2>1 DEF At, Knows, InTx
<1> QED BY <1>1, <1>2

(* Where a request goes and what it keeps.                                 *)
PCs == {"idle", "load", "scan", "clear", "write", "commit", "reload", "status",
        "command", "erase", "tell"}

LEMMA GoType ==
  ASSUME NEW r \in Reqs, NEW pc \in PCs, TypeOK, Go(r, pc)
  PROVE  /\ req' \in [Reqs -> Request]
         /\ req'[r] = [req[r] EXCEPT !.pc = pc]
         /\ \A q \in Reqs \ {r} : req'[q] = req[q]
<1>0. req \in [Reqs -> Request] /\ req[r] \in Request
  BY DEF TypeOK
<1>1. [req[r] EXCEPT !.pc = pc] \in Request
  BY <1>0 DEF Request, PCs
<1>2. req' = [req EXCEPT ![r] = [req[r] EXCEPT !.pc = pc]]
  BY DEF Go
<1> QED BY <1>0, <1>1, <1>2

LEMMA FinishType ==
  ASSUME NEW r \in Reqs, TypeOK, Finish(r)
  PROVE  /\ req' \in [Reqs -> Request]
         /\ req'[r] = Idle
         /\ \A q \in Reqs \ {r} : req'[q] = req[q]
BY DEF TypeOK, Request, Idle, Finish

LEMMA FinishKnows ==
  ASSUME NEW r \in Reqs, TypeInv, Finish(r), ids' = ids
  PROVE  req' \in [Reqs -> Request] /\ Knowing'
<1>1. (~At(r, "idle") => Knows(r))'
  BY FinishType DEF TypeInv, At, Idle
<1> QED BY <1>1, FinishType, OthersKnow DEF TypeInv

(* Going on without learning anything.                                     *)
LEMMA GoKnows ==
  ASSUME NEW r \in Reqs, NEW pc \in PCs, TypeInv, ~At(r, "idle"), Go(r, pc), ids' = ids,
         pc \notin {"load", "clear"},
         pc \in {"scan", "write", "commit", "reload"} => req[r].op \in {"create", "update"},
         pc \in {"status", "command"} => req[r].copy \in Settings
  PROVE  req' \in [Reqs -> Request] /\ Knowing'
<1>1. Knows(r)
  BY DEF TypeInv, Knowing
<1>2. /\ req' \in [Reqs -> Request] /\ \A q \in Reqs \ {r} : req'[q] = req[q]
      /\ req'[r] = [req[r] EXCEPT !.pc = pc]
  BY GoType DEF TypeInv
<1>3. req[r] \in Request
  BY DEF TypeInv, TypeOK
<1>4. /\ req'[r].pc = pc /\ req'[r].op = req[r].op /\ req'[r].conn = req[r].conn
      /\ req'[r].default = req[r].default /\ req'[r].new = req[r].new
      /\ req'[r].copy = req[r].copy
  BY <1>2, <1>3 DEF Request
<1>5. (~At(r, "idle") => Knows(r))'
  BY <1>1, <1>4 DEF At, Knows, InTx
<1> QED BY <1>2, <1>5, OthersKnow DEF TypeInv

LEMMA AskedType ==
  ASSUME NEW r \in Reqs, TypeInv, At(r, "write")
  PROVE  Asked(r) \in Row \cup {None}
<1> DEFINE c == req[r].conn
<1>1. Knows(r) /\ req[r] \in Request /\ ids \subseteq Conns
  BY DEF TypeInv, Knowing, At, TypeOK
<1>2. c \in Conns /\ row[c] \in Row \cup {None}
  BY <1>1 DEF Knows, TypeInv, TypeOK
<1>3. CASE req[r].op = "create"
  BY <1>1, <1>3 DEF Asked, Row, Statuses, Knows
<1>4. CASE req[r].op # "create" /\ row[c] = None
  BY <1>4 DEF Asked
<1>5. CASE req[r].op # "create" /\ row[c] # None
  <2>1. row[c] \in Row
    BY <1>2, <1>5
  <2>2. /\ req[r].default \in BOOLEAN \cup {None} /\ req[r].new \in Settings \cup {None}
    BY <1>1 DEF Request
  <2> DEFINE d == IF req[r].default = None THEN row[c].default ELSE req[r].default
             n == IF req[r].new = None THEN row[c].set ELSE req[r].new
  <2>3. d \in BOOLEAN /\ n \in Settings
    BY <2>1, <2>2 DEF Row
  <2>4. Asked(r) = [row[c] EXCEPT !.default = d, !.set = n]
    BY <1>5 DEF Asked
  <2> HIDE DEF d, n
  <2> QED BY <2>1, <2>3, <2>4 DEF Row
<1> QED BY <1>3, <1>4, <1>5

LEMMA RollbackType ==
  ASSUME NEW r \in Reqs, TypeInv, Rollback(r), ids' = ids
  PROVE  /\ tx' \in [Reqs -> [Conns -> Row \cup {None}]]
         /\ req' \in [Reqs -> Request] /\ Knowing'
<1>1. tx' \in [Reqs -> [Conns -> Row \cup {None}]]
  BY DEF Rollback, Clean, TypeInv, TypeOK
<1> QED BY <1>1, FinishKnows DEF Rollback

LEMMA AbandonType ==
  ASSUME NEW r \in Reqs, TypeOK, req[r].conn \in Conns, Abandon(r)
  PROVE  fresh' \subseteq Reqs \cup Event /\ untold' \subseteq Conns /\ failed' \subseteq Conns
BY DEF Abandon, TypeOK

LEMMA SendsType ==
  ASSUME NEW r \in Reqs, TypeInv, NEW op, NEW m \in Command, NEW next \in {"tell", "erase", "status"},
         Sends(r, op, m, next)
  PROVE  TypeInv'
<1>1. Knows(r) /\ req[r].copy \in Settings
  BY DEF Sends, At, TypeInv, Knowing, Knows
<1>2. req' \in [Reqs -> Request] /\ Knowing'
  BY <1>1, GoKnows DEF Sends, At, PCs, rows
<1>3. cmds' \subseteq Command
  BY PublishType DEF Sends, TypeInv, TypeOK
<1>4. TypeOK'
  BY <1>2, <1>3 DEF Sends, TypeInv, TypeOK, rows, telling, worker, env
<1> QED BY <1>2, <1>4 DEF TypeInv
LEMMA RequestType ==
  ASSUME NEW r \in Reqs, r \in work.reqs, TypeInv, Create(r) \/ Begin(r) \/ Requesting(r) \/ RequestFails(r)
  PROVE  TypeInv'
<1> DEFINE c == req[r].conn
<1>0. /\ TypeOK /\ ids \subseteq Conns /\ req[r] \in Request
      /\ (~At(r, "idle") => Knows(r) /\ c \in Conns)
  BY DEF TypeInv, Knowing, TypeOK, Knows
<1>1. CASE Create(r)
  <2>1. PICK k \in work.conns \ ids, d \in Flags \cup {FALSE}, s \in work.set :
          /\ ids' = ids \cup {k}
          /\ req' = [req EXCEPT ![r] = [Idle EXCEPT !.pc = IF d THEN "scan" ELSE "write",
                        !.op = "create", !.conn = k, !.default = d, !.new = s]]
    BY <1>1 DEF Create
  <2> DEFINE new == [Idle EXCEPT !.pc = IF d THEN "scan" ELSE "write",
                        !.op = "create", !.conn = k, !.default = d, !.new = s]
  <2>2. work \in Workloads
    BY <1>0 DEF TypeOK
  <2>3. k \in Conns /\ s \in Settings /\ d \in BOOLEAN
    BY <2>2, ConnectionsAssumption DEF Flags
  <2>4. /\ new \in Request /\ new.conn = k /\ new.op = "create" /\ new.default \in BOOLEAN
        /\ new.new \in Settings /\ new.pc \in {"scan", "write"}
    BY <2>3 DEF Idle, Request
  <2>5. req' = [req EXCEPT ![r] = new]
    BY <2>1
  <2> HIDE DEF new
  <2>6. req' \in [Reqs -> Request] /\ req'[r] = new /\ \A q \in Reqs \ {r} : req'[q] = req[q]
    BY <1>0, <2>4, <2>5 DEF TypeOK
  <2>7. (~At(r, "idle") => Knows(r))'
    <3>0. k \in ids'
      BY <2>1
    <3>1. /\ req'[r].conn \in ids' /\ req'[r].default \in BOOLEAN /\ req'[r].new \in Settings
          /\ req'[r].op = "create" /\ req'[r].pc \in {"scan", "write"}
      BY <2>4, <2>6, <3>0, Zenon
    <3>2. req'[r].pc \notin {"load", "clear", "status", "command"}
      BY <3>1
    <3> QED BY <3>1, <3>2, Zenon DEF Knows, At, InTx
  <2>8. Knowing'
    BY <2>1, <2>6, <2>7, OthersKnow DEF TypeInv
  <2>9. TypeOK'
    BY <1>0, <1>1, <2>1, <2>3, <2>6 DEF Create, TypeOK, telling, worker, env
  <2> QED BY <2>8, <2>9 DEF TypeInv
<1>2. CASE Begin(r)
  <2>1. PICK op \in work.inputs \cap {"update", "start", "logout", "delete"}, k \in ids,
             d \in Flags \cup {None}, s \in work.set \cup {None} :
          /\ op # "update" => d = None /\ s = None
          /\ req' = [req EXCEPT ![r] = [Idle EXCEPT !.pc = "load", !.op = op,
                        !.conn = k, !.default = d, !.new = s]]
    BY <1>2 DEF Begin
  <2> DEFINE new == [Idle EXCEPT !.pc = "load", !.op = op, !.conn = k, !.default = d, !.new = s]
  <2>2. work \in Workloads
    BY <1>0 DEF TypeOK
  <2>3. k \in Conns /\ s \in Settings \cup {None} /\ d \in BOOLEAN \cup {None}
    BY <1>0, <2>2, ConnectionsAssumption DEF Flags
  <2>4. new \in Request /\ new.conn = k /\ new.op # "create" /\ new.pc = "load"
    BY <2>3 DEF Idle, Request
  <2>5. req' = [req EXCEPT ![r] = new]
    BY <2>1
  <2> HIDE DEF new
  <2>6. req' \in [Reqs -> Request] /\ req'[r] = new /\ \A q \in Reqs \ {r} : req'[q] = req[q]
    BY <1>0, <2>4, <2>5 DEF TypeOK
  <2>7. ids' = ids
    BY <1>2 DEF Begin, rows
  <2>8. (~At(r, "idle") => Knows(r))'
    BY <2>4, <2>6, <2>7 DEF Knows, At, InTx
  <2>9. Knowing'
    BY <2>6, <2>7, <2>8, OthersKnow DEF TypeInv
  <2>10. TypeOK'
    BY <1>0, <1>2, <2>6 DEF Begin, TypeOK, rows, telling, worker, env
  <2> QED BY <2>9, <2>10 DEF TypeInv
<1>3. CASE Load(r)
  <2>1. ids' = ids /\ At(r, "load")
    BY <1>3 DEF Load, rows
  <2>2. CASE row[c] = None
    <3>1. req' \in [Reqs -> Request] /\ Knowing'
      BY <1>3, <2>1, <2>2, FinishKnows DEF Load
    <3> QED BY <1>0, <1>3, <3>1 DEF Load, TypeInv, TypeOK, rows, telling, worker, env
  <2>3. CASE row[c] # None
    <3>1. Knows(r) /\ c \in Conns /\ row[c] \in Row
      BY <1>0, <2>1, <2>3 DEF At, TypeOK
    <3>2. req[r].op \in {"update", "start", "logout", "delete"}
      BY <1>0, <2>1, <3>1 DEF Knows, Request
    <3> DEFINE to == AfterLoad[req[r].op]
               new == [req[r] EXCEPT !.pc = to, !.old = row[c].set, !.copy = row[c].set]
    <3>3. /\ to \in {"scan", "status", "command"}
          /\ (to = "scan" => req[r].op = "update")
      BY <3>2 DEF AfterLoad
    <3>4. req' = [req EXCEPT ![r] = new]
      BY <1>3, <2>3 DEF Load
    <3> HIDE DEF to
    <3>5. /\ new \in Request /\ new.conn = c /\ new.op = req[r].op /\ new.pc = to
          /\ new.copy \in Settings /\ new.default = req[r].default /\ new.new = req[r].new
      BY <1>0, <3>1, <3>3 DEF Request, Row
    <3> HIDE DEF new
    <3>6. req' \in [Reqs -> Request] /\ req'[r] = new /\ \A q \in Reqs \ {r} : req'[q] = req[q]
      BY <1>0, <3>4, <3>5 DEF TypeOK
    <3>7. (~At(r, "idle") => Knows(r))'
      BY <2>1, <3>1, <3>3, <3>5, <3>6 DEF Knows, At, InTx
    <3>8. Knowing'
      BY <2>1, <3>6, <3>7, OthersKnow DEF TypeInv
    <3> QED BY <1>0, <1>3, <3>6, <3>8 DEF Load, TypeInv, TypeOK, rows, telling, worker, env
  <2> QED BY <2>2, <2>3
<1>4. CASE ScanDefaults(r)
  <2> DEFINE to == IF req[r].default = TRUE THEN "clear" ELSE "write"
             m == {d \in Conns \ {c} : IsDefault(row[d])}
             new == [req[r] EXCEPT !.pc = to, !.match = m]
  <2>1. ids' = ids /\ At(r, "scan") /\ Knows(r) /\ req[r].op \in {"create", "update"}
    BY <1>0, <1>4 DEF ScanDefaults, rows, At, Knows, InTx
  <2>2. /\ to \in {"clear", "write"} /\ (to = "clear" => req[r].default = TRUE)
        /\ m \subseteq Conns /\ c \notin m
    OBVIOUS
  <2>3. req' = [req EXCEPT ![r] = new]
    BY <1>4 DEF ScanDefaults
  <2> HIDE DEF to, m
  <2>4. /\ new \in Request /\ new.conn = c /\ new.op = req[r].op /\ new.pc = to
        /\ new.match = m /\ new.default = req[r].default /\ new.new = req[r].new
    BY <1>0, <2>2 DEF Request
  <2> HIDE DEF new
  <2>5. req' \in [Reqs -> Request] /\ req'[r] = new /\ \A q \in Reqs \ {r} : req'[q] = req[q]
    BY <1>0, <2>3, <2>4 DEF TypeOK
  <2>6. (~At(r, "idle") => Knows(r))'
    BY <2>1, <2>2, <2>4, <2>5 DEF Knows, At, InTx
  <2>7. Knowing'
    BY <2>1, <2>5, <2>6, OthersKnow DEF TypeInv
  <2> QED BY <1>0, <1>4, <2>5, <2>7 DEF ScanDefaults, TypeInv, TypeOK, rows, telling, worker, env
<1>5. CASE ClearDefaults(r)
  <2>1. /\ Knows(r) /\ ids' = ids /\ req[r].op \in {"create", "update"}
    BY <1>0, <1>5 DEF ClearDefaults, At, Knows, InTx
  <2>2. req' \in [Reqs -> Request] /\ Knowing'
    BY <1>5, <2>1, GoKnows DEF ClearDefaults, At, PCs
  <2>3. \A d \in Conns : IsDefault(row[d]) => [row[d] EXCEPT !.default = FALSE] \in Row
    BY <1>0 DEF TypeOK, IsDefault, Row
  <2>4. tx' \in [Reqs -> [Conns -> Row \cup {None}]]
    BY <1>0, <1>5, <2>3 DEF ClearDefaults, TypeOK
  <2> QED BY <1>0, <1>5, <2>2, <2>4 DEF ClearDefaults, TypeInv, TypeOK, telling, worker, env
<1>6. CASE Write(r)
  <2>1. At(r, "write") /\ ids' = ids /\ Knows(r) /\ c \in Conns /\ req[r].op \in {"create", "update"}
    BY <1>0, <1>6 DEF Write, At, Knows, InTx
  <2>2. Asked(r) \in Row \cup {None}
    BY <2>1, AskedType
  <2>3. \/ Rollback(r)
        \/ tx' = [tx EXCEPT ![r][c] = Asked(r)] /\ Go(r, "commit")
    BY <1>6 DEF Write
  <2>4. req' \in [Reqs -> Request] /\ Knowing' /\ tx' \in [Reqs -> [Conns -> Row \cup {None}]]
    <3>1. CASE Rollback(r)
      BY <2>1, <3>1, RollbackType
    <3>2. CASE tx' = [tx EXCEPT ![r][c] = Asked(r)] /\ Go(r, "commit")
      <4>1. tx' \in [Reqs -> [Conns -> Row \cup {None}]]
        BY <1>0, <2>1, <2>2, <3>2 DEF TypeOK
      <4>2. req' \in [Reqs -> Request] /\ Knowing'
        BY <2>1, <3>2, GoKnows DEF At, PCs
      <4> QED BY <4>1, <4>2
    <3> QED BY <2>3, <3>1, <3>2
  <2> QED BY <1>0, <1>6, <2>4 DEF Write, TypeInv, TypeOK, telling, worker, env
<1>7. CASE Refused(r)
  <2>1. req' \in [Reqs -> Request] /\ Knowing' /\ tx' \in [Reqs -> [Conns -> Row \cup {None}]]
    BY <1>7, RollbackType DEF Refused
  <2> QED BY <1>0, <1>7, <2>1 DEF Refused, TypeInv, TypeOK, telling, worker, env
<1>8. CASE Commit(r)
  <2>1. At(r, "commit") /\ ids' = ids /\ Knows(r) /\ c \in Conns /\ req[r].op \in {"create", "update"}
    BY <1>0, <1>8 DEF Commit, At, Knows, InTx
  <2>2. req' \in [Reqs -> Request] /\ Knowing'
    BY <1>8, <2>1, GoKnows DEF Commit, At, PCs
  <2>3. row' \in [Conns -> Row \cup {None}] /\ tx' \in [Reqs -> [Conns -> Row \cup {None}]]
    BY <1>0, <1>8 DEF Commit, View, Clean, TypeOK
  <2>4. fresh' \subseteq Reqs \cup Event /\ untold' \subseteq Conns /\ failed' \subseteq Conns
    BY <1>0, <1>8, <2>1 DEF Commit, Changed, telling, TypeOK
  <2> QED BY <1>0, <1>8, <2>2, <2>3, <2>4 DEF Commit, TypeInv, TypeOK, worker, env
<1>9. CASE Reload(r)
  <2>1. At(r, "reload") /\ ids' = ids /\ Knows(r) /\ c \in Conns
    BY <1>0, <1>9 DEF Reload, rows, At
  <2>2. CASE row[c] = None
    <3>1. req' \in [Reqs -> Request] /\ Knowing'
      BY <1>9, <2>1, <2>2, FinishKnows DEF Reload
    <3> QED BY <1>0, <1>9, <2>2, <3>1 DEF Reload, TypeInv, TypeOK, rows, worker, env
  <2>3. CASE row[c] # None
    <3> DEFINE new == [req[r] EXCEPT !.pc = "command", !.copy = row[c].set]
    <3>1. row[c] \in Row /\ req' = [req EXCEPT ![r] = new] /\ fresh' = fresh \cup {r}
      BY <1>0, <1>9, <2>1, <2>3 DEF Reload, TypeOK
    <3>2. /\ new \in Request /\ new.conn = c /\ new.op = req[r].op /\ new.pc = "command"
          /\ new.copy \in Settings /\ new.default = req[r].default /\ new.new = req[r].new
      BY <1>0, <3>1 DEF Request, Row
    <3> HIDE DEF new
    <3>3. req' \in [Reqs -> Request] /\ req'[r] = new /\ \A q \in Reqs \ {r} : req'[q] = req[q]
      BY <1>0, <3>1, <3>2 DEF TypeOK
    <3>4. (~At(r, "idle") => Knows(r))'
      BY <2>1, <3>2, <3>3 DEF Knows, At, InTx
    <3>5. Knowing'
      BY <2>1, <3>3, <3>4, OthersKnow DEF TypeInv
    <3> QED BY <1>0, <1>9, <3>1, <3>3, <3>5 DEF Reload, TypeInv, TypeOK, rows, worker, env
  <2> QED BY <2>2, <2>3
<1>10. CASE SetOpening(r) \/ SetDisconnected(r)
  <2>1. PICK s \in Statuses, pc \in {"command", "tell"} : WriteStatus(r, c, s) /\ Go(r, pc)
    BY <1>10 DEF SetOpening, SetDisconnected, Statuses
  <2>2. /\ At(r, "status") /\ Knows(r) /\ c \in Conns /\ req[r].copy \in Settings
        /\ UNCHANGED <<ids, tx, cmds, events, out, boot, worker, env>>
    BY <1>0, <1>10 DEF SetOpening, SetDisconnected, At, Knows
  <2>3. /\ row' \in [Conns -> Row \cup {None}]
        /\ fresh' \subseteq Reqs \cup Event /\ untold' \subseteq Conns /\ failed' \subseteq Conns
    BY <1>0, <2>1, <2>2, WriteStatusType
  <2>4. req' \in [Reqs -> Request] /\ Knowing'
    BY <2>1, <2>2, GoKnows DEF At, PCs
  <2> QED BY <1>0, <2>2, <2>3, <2>4 DEF TypeInv, TypeOK, worker, env
<1>11. CASE SendCreated(r) \/ SendLogout(r) \/ SendDeleted(r)
  <2>1. At(r, "command") /\ c \in Conns /\ req[r].copy \in Settings
    BY <1>0, <1>11 DEF SendCreated, SendLogout, SendDeleted, Sends, At, Knows
  <2>2. Start(c, req[r].copy) \in Command /\ Logout(c) \in Command
    BY <2>1, CommandTypes
  <2> QED BY <1>11, <2>2, SendsType DEF SendCreated, SendLogout, SendDeleted
<1>12. CASE SendUpdated(r) \/ SendStart(r)
  <2>1. At(r, "command") /\ Knows(r) /\ c \in Conns /\ req[r].copy \in Settings /\ ids' = ids
    BY <1>0, <1>12 DEF SendUpdated, SendStart, At, Knows, rows
  <2>2. Start(c, req[r].copy) \in Command /\ UpdateSettings(c, req[r].copy) \in Command
    BY <2>1, CommandTypes
  <2>3. cmds' \subseteq Command
    BY <1>0, <1>12, <2>2, PublishType DEF SendUpdated, SendStart, TypeOK
  <2>4. Go(r, "tell")
    BY <1>12 DEF SendUpdated, SendStart
  <2>5. req' \in [Reqs -> Request] /\ Knowing'
    BY <2>1, <2>4, GoKnows DEF At, PCs
  <2> QED BY <1>0, <1>12, <2>3, <2>5
          DEF SendUpdated, SendStart, TypeInv, TypeOK, rows, telling, worker, env
<1>13. CASE SendFails(r)
  <2>1. req' \in [Reqs -> Request] /\ Knowing'
    BY <1>13, FinishKnows DEF SendFails, rows
  <2>2. fresh' \subseteq Reqs \cup Event /\ untold' \subseteq Conns /\ failed' \subseteq Conns
    BY <1>0, <1>13, AbandonType DEF SendFails, At
  <2> QED BY <1>0, <1>13, <2>1, <2>2 DEF SendFails, TypeInv, TypeOK, rows, worker, env
<1>14. CASE Erase(r)
  <2>1. At(r, "erase") /\ Knows(r) /\ c \in Conns /\ ids' = ids
    BY <1>0, <1>14 DEF Erase, At
  <2>2. req' \in [Reqs -> Request] /\ Knowing'
    <3>1. CASE Finish(r)
      BY <2>1, <3>1, FinishKnows
    <3>2. CASE Go(r, "tell")
      BY <2>1, <3>2, GoKnows DEF At, PCs
    <3> QED BY <1>14, <3>1, <3>2 DEF Erase
  <2>3. row' \in [Conns -> Row \cup {None}]
    BY <1>0, <1>14 DEF Erase, TypeOK
  <2> QED BY <1>0, <1>14, <2>2, <2>3 DEF Erase, TypeInv, TypeOK, telling, worker, env
<1>15. CASE Tell(r) \/ TellDeleted(r)
  <2>1. Finish(r) /\ UNCHANGED <<rows, cmds, events, out, boot, worker, env>>
    BY <1>15 DEF Tell, TellDeleted
  <2>2. req' \in [Reqs -> Request] /\ Knowing'
    BY <2>1, FinishKnows DEF rows
  <2>3. fresh' \subseteq Reqs \cup Event /\ untold' \subseteq Conns /\ failed' \subseteq Conns
    BY <1>0, <1>15 DEF Tell, TellDeleted, Broadcast, TypeOK
  <2> QED BY <1>0, <2>1, <2>2, <2>3 DEF TypeInv, TypeOK, rows, worker, env
<1>16. CASE RequestFails(r)
  <2>1. ~At(r, "idle") /\ Rollback(r) /\ Abandon(r) /\ ids' = ids
    BY <1>16 DEF RequestFails, At
  <2>2. req' \in [Reqs -> Request] /\ Knowing' /\ tx' \in [Reqs -> [Conns -> Row \cup {None}]]
    BY <2>1, RollbackType
  <2>3. fresh' \subseteq Reqs \cup Event /\ untold' \subseteq Conns /\ failed' \subseteq Conns
    BY <1>0, <2>1, AbandonType
  <2> QED BY <1>0, <1>16, <2>2, <2>3 DEF RequestFails, TypeInv, TypeOK, worker, env
<1> QED BY <1>1, <1>2, <1>3, <1>4, <1>5, <1>6, <1>7, <1>8, <1>9, <1>10, <1>11, <1>12,
           <1>13, <1>14, <1>15, <1>16 DEF Requesting
LEMMA KnowingKept ==
  ASSUME Knowing, UNCHANGED <<ids, req>>
  PROVE  Knowing'
BY DEF Knowing, Knows, At, InTx

LEMMA HandlerType ==
  ASSUME NEW e \in Event, TypeInv, Handling(e) \/ HandlerFails(e)
  PROVE  TypeInv'
<1>0. TypeOK /\ e.conn \in Conns /\ e.kind \in Kinds
  BY DEF TypeInv, Event
<1>1. Stop(e.conn) \in Command /\ Logout(e.conn) \in Command
  BY <1>0 DEF Command, Stop, Logout
<1>2. UNCHANGED <<ids, req>>
  BY DEF Handling, HandlerFails, ShowRestored, HandleStatus, ReloadRow, TellEvent, rows
<1>3. Knowing'
  BY <1>2, KnowingKept DEF TypeInv
<1>4. \A x \in {"idle", "shown", "wrote", "loaded"} :
        Move(e, x) => out' \in [Event -> {"idle", "shown", "wrote", "loaded"}]
  BY <1>0 DEF Move, TypeOK
<1>5. CASE ShowRestored(e)
  <2>1. cmds' \subseteq Command /\ events' \subseteq Event
    BY <1>0, <1>1, <1>5, PublishType, DoneType DEF ShowRestored, TypeOK
  <2>2. out' \in [Event -> {"idle", "shown", "wrote", "loaded"}]
    BY <1>0, <1>4, <1>5, DoneType DEF ShowRestored
  <2> QED BY <1>0, <1>3, <1>5, <2>1, <2>2 DEF ShowRestored, TypeInv, TypeOK, rows, telling, worker, env
<1>6. CASE HandleStatus(e)
  <2>1. Outcome[e.kind] \in Statuses
    BY <1>0 DEF Kinds, Outcome, Statuses
  <2>2. /\ row' \in [Conns -> Row \cup {None}]
        /\ fresh' \subseteq Reqs \cup Event /\ untold' \subseteq Conns /\ failed' \subseteq Conns
    BY <1>0, <1>6, <2>1, WriteStatusType DEF HandleStatus
  <2> QED BY <1>0, <1>3, <1>4, <1>6, <2>2 DEF HandleStatus, TypeInv, TypeOK, worker, env
<1>7. CASE ReloadRow(e)
  <2>1. cmds' \subseteq Command /\ events' \subseteq Event
    BY <1>0, <1>1, <1>7, PublishType, DoneType DEF ReloadRow, TypeOK
  <2>2. out' \in [Event -> {"idle", "shown", "wrote", "loaded"}]
    BY <1>0, <1>4, <1>7, DoneType DEF ReloadRow
  <2>3. fresh' \subseteq Reqs \cup Event
    BY <1>0, <1>7 DEF ReloadRow, TypeOK
  <2> QED BY <1>0, <1>3, <1>7, <2>1, <2>2, <2>3 DEF ReloadRow, TypeInv, TypeOK, rows, worker, env
<1>8. CASE TellEvent(e)
  <2>1. events' \subseteq Event /\ out' \in [Event -> {"idle", "shown", "wrote", "loaded"}]
    BY <1>0, <1>8, DoneType DEF TellEvent
  <2>2. fresh' \subseteq Reqs \cup Event /\ untold' \subseteq Conns /\ failed' \subseteq Conns
    BY <1>0, <1>8 DEF TellEvent, Broadcast, TypeOK
  <2> QED BY <1>0, <1>3, <1>8, <2>1, <2>2 DEF TellEvent, TypeInv, TypeOK, rows, worker, env
<1>9. CASE HandlerFails(e)
  BY <1>0, <1>3, <1>4, <1>9 DEF HandlerFails, TypeInv, TypeOK, rows, telling, worker, env
<1> QED BY <1>5, <1>6, <1>7, <1>8, <1>9 DEF Handling

(* The worker and the restarts: they leave the rows and the requests.      *)
WorkerStep(c) ==
  Running(c) \/ PairingCode(c) \/ Reconnected(c) \/ Evicted(c) \/ AutoRestore(c)

Killings == {"no", "stop", "logout"}

LEMMA SessionTypes ==
  ASSUME NEW c \in Conns, TypeOK, NEW st \in {"new", "restore", "qr", "dial", "on"},
         NEW s \in Settings, NEW k \in Killings,
         \/ UNCHANGED sess
         \/ Ends(c)
         \/ sess' = [sess EXCEPT ![c] = [st |-> st, set |-> s, killed |-> "no"]]
         \/ sess' = [sess EXCEPT ![c].st = st]
         \/ sess' = [sess EXCEPT ![c].set = s]
         \/ sess' = [sess EXCEPT ![c].killed = k]
  PROVE  sess' \in [Conns -> Session]
<1>1. sess \in [Conns -> Session] /\ sess[c] \in Session
  BY DEF TypeOK
<1>2. /\ NoSession \in Session /\ [st |-> st, set |-> s, killed |-> "no"] \in Session
      /\ [sess[c] EXCEPT !.st = st] \in Session /\ [sess[c] EXCEPT !.set = s] \in Session
      /\ [sess[c] EXCEPT !.killed = k] \in Session
  BY <1>1, ConnectionsAssumption DEF Session, NoSession, Killings
<1> QED BY <1>1, <1>2 DEF Ends

LEMMA KillType ==
  ASSUME NEW c \in Conns, NEW how \in {"stop", "logout"}, TypeOK, Kill(c, how)
  PROVE  sess' \in [Conns -> Session]
<1>0. /\ Blank \in Settings /\ "no" \in Killings /\ how \in Killings /\ "logout" \in Killings
      /\ "on" \in {"new", "restore", "qr", "dial", "on"}
  BY ConnectionsAssumption DEF Killings
<1>1. CASE Ends(c) \/ UNCHANGED sess
  BY <1>0, <1>1, SessionTypes
<1>2. CASE ~(Ends(c) \/ UNCHANGED sess)
  <2> DEFINE k == IF sess[c].killed = "logout" THEN "logout" ELSE how
  <2>1. sess[c].st \in {"qr", "dial"}
    BY <1>2 DEF Kill
  <2>2. sess' = [sess EXCEPT ![c].killed = k]
    BY <2>1 DEF Kill, TypeOK
  <2>3. k \in Killings
    BY <1>0
  <2> HIDE DEF k
  <2> QED BY <1>0, <2>2, <2>3, SessionTypes
<1> QED BY <1>1, <1>2

LEMMA ConnectsType ==
  ASSUME NEW c \in Conns, NEW K \in SUBSET Kinds, TypeOK, Connects(c, K)
  PROVE  /\ Ends(c) \/ sess' = [sess EXCEPT ![c].st = "on"]
         /\ events' \subseteq Event /\ events \subseteq events'
<1>1. K \cup {"connected"} \in SUBSET Kinds
  BY DEF Kinds
<1>2. \E L \in SUBSET Kinds : Emit(L, c)
  BY <1>1 DEF Connects
<1>3. events' \subseteq Event /\ events \subseteq events'
  BY <1>2, EmitType DEF Emit, TypeOK
<1> QED BY <1>3 DEF Connects

LEMMA ObeyingType ==
  ASSUME NEW m \in cmds, TypeInv, Obeying(m)
  PROVE  TypeInv'
<1>0. TypeOK /\ m \in Command /\ m.conn \in Conns
  BY DEF TypeInv, TypeOK, Command
<1>1. Knowing'
  BY KnowingKept DEF TypeInv, Obeying, StartSession, StopSession, LogoutSession, ApplySettings, rows
<1>2. cmds' \subseteq Command
  BY <1>0, HandledType DEF Obeying, StartSession, StopSession, LogoutSession, ApplySettings, TypeOK
<1>3. CASE StartSession(m)
  <2>1. m.set \in Settings
    BY <1>0, <1>3 DEF StartSession, Command
  <2>2. sess' \in [Conns -> Session]
    <3>1. \/ UNCHANGED sess
          \/ sess' = [sess EXCEPT ![m.conn] = [st |-> "new", set |-> m.set, killed |-> "no"]]
      BY <1>3 DEF StartSession
    <3> QED BY <1>0, <2>1, <3>1, SessionTypes DEF Killings
  <2> QED BY <1>0, <1>1, <1>2, <1>3, <2>2 DEF StartSession, TypeInv, TypeOK, rows, telling, env
<1>4. CASE StopSession(m)
  <2>1. sess' \in [Conns -> Session]
    BY <1>0, <1>4, KillType DEF StopSession
  <2> QED BY <1>0, <1>1, <1>2, <1>4, <2>1 DEF StopSession, TypeInv, TypeOK, rows, telling, env
<1>5. CASE LogoutSession(m)
  <2>1. sess' \in [Conns -> Session]
    BY <1>0, <1>5, KillType DEF LogoutSession
  <2>2. device' \subseteq Conns
    BY <1>0, <1>5 DEF LogoutSession, DeleteDevice, TypeOK
  <2> QED BY <1>0, <1>1, <1>2, <1>5, <2>1, <2>2 DEF LogoutSession, TypeInv, TypeOK, rows, telling, env
<1>6. CASE ApplySettings(m)
  <2>1. m.set \in Settings
    BY <1>0, <1>6 DEF ApplySettings, Command
  <2>2. sess' \in [Conns -> Session]
    <3>1. sess' = [sess EXCEPT ![m.conn].set = m.set]
      BY <1>6 DEF ApplySettings
    <3> QED BY <1>0, <2>1, <3>1, SessionTypes DEF Killings
  <2> QED BY <1>0, <1>1, <1>2, <1>6, <2>2 DEF ApplySettings, TypeInv, TypeOK, rows, telling, env
<1> QED BY <1>3, <1>4, <1>5, <1>6 DEF Obeying

LEMMA WorkerType ==
  ASSUME NEW c \in Conns, TypeInv, WorkerStep(c)
  PROVE  TypeInv'
<1>0. TypeOK
  BY DEF TypeInv
<1>1. UNCHANGED <<row, ids, tx, req, cmds, out, fresh, untold, failed, boot, work, restarts>>
  BY DEF WorkerStep, Running, Register, PairingEnds, Dial, PairingCode, Reconnected, Evicted,
         AutoRestore, rows, telling, worker, env
<1>2. Knowing'
  BY <1>1, KnowingKept DEF TypeInv
<1>3. device' \subseteq Conns /\ restore' \subseteq Conns
  BY <1>0 DEF WorkerStep, Running, Register, PairingEnds, Dial, PairingCode, Reconnected, Evicted,
              AutoRestore, SetDevice, DeleteDevice, worker, TypeOK
<1>4. events' \subseteq Event
  <2>1. CASE PairingEnds(c) \/ Dial(c)
    <3>1. \/ \E K \in SUBSET Kinds : Connects(c, K)
          \/ \E K \in SUBSET Kinds : Emit(K, c)
      BY <2>1 DEF PairingEnds, Dial, Kinds
    <3> QED BY <1>0, <3>1, ConnectsType, EmitType DEF TypeOK
  <2>2. CASE ~(PairingEnds(c) \/ Dial(c))
    BY <1>0, <2>2, EmitType DEF WorkerStep, Running, Register, PairingCode, Reconnected, Evicted,
                                AutoRestore, Kinds, TypeOK
  <2> QED BY <2>1, <2>2
<1>5. sess' \in [Conns -> Session]
  <2>1. PICK st \in {"new", "restore", "qr", "dial", "on"} :
          \/ UNCHANGED sess
          \/ Ends(c)
          \/ sess' = [sess EXCEPT ![c] = [st |-> st, set |-> Blank, killed |-> "no"]]
          \/ sess' = [sess EXCEPT ![c].st = st]
    <3>1. CASE Register(c)
      <4>1. \/ sess' = [sess EXCEPT ![c].st = "qr"]
            \/ sess' = [sess EXCEPT ![c].st = "dial"]
        BY <3>1 DEF Register
      <4> QED BY <4>1
    <3>2. CASE PairingEnds(c)
      <4>1. Ends(c) \/ sess' = [sess EXCEPT ![c].st = "on"]
        BY <1>0, <3>2, ConnectsType DEF PairingEnds, Kinds
      <4> QED BY <4>1
    <3>3. CASE Dial(c)
      <4>1. Ends(c) \/ sess' = [sess EXCEPT ![c].st = "on"]
        BY <1>0, <3>3, ConnectsType DEF Dial, Kinds
      <4> QED BY <4>1
    <3>4. CASE PairingCode(c) \/ Reconnected(c) \/ Evicted(c)
      BY <3>4 DEF PairingCode, Reconnected, Evicted, worker
    <3>5. CASE AutoRestore(c)
      <4>1. \/ UNCHANGED sess
            \/ sess' = [sess EXCEPT ![c] = [st |-> "restore", set |-> Blank, killed |-> "no"]]
        BY <3>5 DEF AutoRestore
      <4> QED BY <4>1
    <3> QED BY <3>1, <3>2, <3>3, <3>4, <3>5 DEF WorkerStep, Running
  <2> QED BY <1>0, <2>1, SessionTypes, ConnectionsAssumption DEF Killings
<1> QED BY <1>0, <1>1, <1>2, <1>3, <1>4, <1>5 DEF TypeInv, TypeOK

LEMMA RestartType ==
  ASSUME TypeInv, WorkerRestart \/ BackendRestart \/ \E c \in Conns : StartAll(c)
  PROVE  TypeInv'
<1>0. TypeOK
  BY DEF TypeInv
<1>1. work \in Workloads => work.restarts \in Nat
  BY ConnectionsAssumption
<1>2. CASE WorkerRestart
  <2>1. Knowing'
    BY <1>2, KnowingKept DEF WorkerRestart, TypeInv, rows
  <2>2. sess' \in [Conns -> Session]
    BY <1>2, ConnectionsAssumption DEF WorkerRestart, NoSession, Session
  <2>3. restarts' \in 0..work'.restarts
    BY <1>0, <1>1, <1>2 DEF WorkerRestart, TypeOK
  <2> QED BY <1>0, <1>2, <2>1, <2>2, <2>3 DEF WorkerRestart, TypeInv, TypeOK, rows, telling
<1>3. CASE BackendRestart
  <2>1. req' \in [Reqs -> Request]
    BY <1>3 DEF BackendRestart, Idle, Request
  <2>2. Knowing'
    BY <1>3 DEF BackendRestart, Knowing, At, Idle
  <2>3. tx' \in [Reqs -> [Conns -> Row \cup {None}]]
    BY <1>3 DEF BackendRestart, Clean
  <2>4. boot' \in [Conns -> Settings \cup {None}]
    BY <1>0, <1>3 DEF BackendRestart, TypeOK, Row
  <2>5. restarts' \in 0..work'.restarts
    BY <1>0, <1>1, <1>3 DEF BackendRestart, TypeOK
  <2>6. out' \in [Event -> {"idle", "shown", "wrote", "loaded"}]
    BY <1>3 DEF BackendRestart
  <2> QED BY <1>0, <1>3, <2>1, <2>2, <2>3, <2>4, <2>5, <2>6
          DEF BackendRestart, TypeInv, TypeOK, worker
<1>4. ASSUME NEW c \in Conns, StartAll(c) PROVE TypeInv'
  <2>1. Knowing'
    BY <1>4, KnowingKept DEF StartAll, TypeInv, rows
  <2>2. boot[c] \in Settings /\ boot' \in [Conns -> Settings \cup {None}]
    BY <1>0, <1>4 DEF StartAll, TypeOK
  <2>3. cmds' \subseteq Command
    BY <1>0, <1>4, <2>2, CommandTypes, PublishType DEF StartAll, TypeOK
  <2> QED BY <1>0, <1>4, <2>1, <2>2, <2>3 DEF StartAll, TypeInv, TypeOK, rows, telling, worker, env
<1> QED BY <1>2, <1>3, <1>4

LEMMA TypeNext == TypeInv /\ [Next]_vars => TypeInv'
<1> SUFFICES ASSUME TypeInv, [Next]_vars PROVE TypeInv'
  OBVIOUS
<1>1. CASE UNCHANGED vars
  <2>1. Knowing'
    BY <1>1, KnowingKept DEF TypeInv, vars, rows
  <2> QED BY <1>1, <2>1 DEF TypeInv, TypeOK, vars, rows, telling, worker, env
<1>2. ASSUME NEW r \in work.reqs, Create(r) \/ Begin(r) \/ Requesting(r) \/ RequestFails(r) PROVE TypeInv'
  <2>1. r \in Reqs
    BY ConnectionsAssumption DEF TypeInv, TypeOK
  <2> QED BY <1>2, <2>1, RequestType
<1>3. ASSUME NEW e \in Event, Handling(e) \/ HandlerFails(e) PROVE TypeInv'
  BY <1>3, HandlerType
<1>4. ASSUME NEW m \in cmds, Obeying(m) PROVE TypeInv'
  BY <1>4, ObeyingType
<1>5. ASSUME NEW c \in Conns, WorkerStep(c) PROVE TypeInv'
  BY <1>5, WorkerType
<1>6. WorkerRestart \/ BackendRestart \/ (\E c \in Conns : StartAll(c)) => TypeInv'
  BY RestartType
<1> QED BY <1>1, <1>2, <1>3, <1>4, <1>5, <1>6 DEF Next, WorkerStep

(* In every reachable state the rows, requests, queues, sessions and copies *)
(* have the types of the schema and of the messages, for any connections,  *)
(* requests, settings and workloads.                                       *)
THEOREM TypeCorrect == Spec => []TypeOK
<1>1. TypeInv => TypeOK
  BY DEF TypeInv
<1> QED BY <1>1, InitType, TypeNext, PTL DEF Spec
-----------------------------------------------------------------------------
(* The rows.  A step is that of a request that writes no row, the new      *)
(* status of a row nobody holds, or one of the steps of a transaction.     *)

OthersAsBefore(r) == \A q \in Reqs \ {r} : req'[q] = req[q] /\ tx'[q] = tx[q]
RowsAlike ==
  \A c \in Conns : \/ row'[c] = row[c]
                   \/ row[c] # None /\ row'[c] # None /\ \A q \in Reqs : tx[q][c] = None

LEMMA StillWritten ==
  ASSUME NEW q \in Reqs, NEW c \in Conns, Written(q, c), req'[q] = req[q], tx'[q] = tx[q],
         row'[c] = row[c], \A p \in Reqs \ {q} : tx'[p][c] = None
  PROVE  Written(q, c)'
BY DEF Written, Own, At

(* What a step of r must see to when it enters or stays in a transaction.  *)
Apart(r) ==
  /\ Creating(r) => row[req[r].conn] = None
  /\ \A q \in Reqs \ {r} :
       /\ Creating(r) /\ (Creating(q) \/ Updating(q)) => req[q].conn # req[r].conn
       /\ Updating(r) /\ Creating(q) => req[q].conn # req[r].conn

LEMMA BornKept ==
  ASSUME NEW r \in Reqs, TypeInv, BornOnce, \A q \in Reqs \ {r} : req'[q] = req[q],
         \A c \in Conns : row'[c] # None => c \in ids',
         \A q \in Reqs \ {r} : Creating(q) => row'[req[q].conn] = None,
         Apart(r)'
  PROVE  BornOnce'
<1>1. \A q \in Reqs \ {r} : (Creating(q)' <=> Creating(q)) /\ (Updating(q)' <=> Updating(q))
  BY DEF Creating, Updating, InTx
<1>2. \A q \in Reqs : Creating(q)' => row'[req'[q].conn] = None
  BY <1>1 DEF Apart
<1>3. ASSUME NEW p \in Reqs, NEW q \in Reqs, p # q, Creating(p)', Creating(q)' \/ Updating(q)'
      PROVE  req'[q].conn # req'[p].conn
  <2>1. CASE p = r
    BY <1>3, <2>1 DEF Apart
  <2>2. CASE q = r
    BY <1>3, <2>2 DEF Apart
  <2>3. CASE p # r /\ q # r
    BY <1>1, <1>3, <2>3 DEF BornOnce
  <2> QED BY <2>1, <2>2, <2>3
<1> QED BY <1>2, <1>3 DEF BornOnce

(* A request that is in the same transaction before and after.             *)
LEMMA StaysApart ==
  ASSUME NEW r \in Reqs, BornOnce, \A q \in Reqs \ {r} : req'[q] = req[q], row' = row,
         InTx(r), req'[r].op = req[r].op, req'[r].conn = req[r].conn
  PROVE  Apart(r)'
<1>1. \A q \in Reqs \ {r} : (Creating(q)' <=> Creating(q)) /\ (Updating(q)' <=> Updating(q))
  BY DEF Creating, Updating, InTx
<1>2. (Creating(r)' => Creating(r)) /\ (Updating(r)' => Updating(r))
  BY DEF Creating, Updating
<1> QED BY <1>1, <1>2 DEF Apart, BornOnce

LEMMA OutOfTx ==
  ASSUME NEW r \in Reqs, ~InTx(r)'
  PROVE  Apart(r)'
BY DEF Apart, Creating, Updating

(* A step of r outside of the writes of its transaction.                   *)
LEMMA LocalStep ==
  ASSUME NEW r \in Reqs, RowInv, TypeInv', OthersAsBefore(r), tx' = tx, ids \subseteq ids', RowsAlike,
         req[r].pc \notin {"write", "commit"}, req'[r].pc # "commit", Apart(r)'
  PROVE  RowInv'
<1>0. /\ TypeInv /\ BornOnce /\ Transactions /\ Empty
      /\ \A q \in Reqs \ {r} : req'[q] = req[q]
  BY DEF RowInv, OthersAsBefore
<1>1. \A c \in Conns : row'[c] = None <=> row[c] = None
  BY DEF RowsAlike
<1>2. \A q \in Reqs : ~At(q, "idle") => req[q].conn \in Conns
  BY <1>0 DEF TypeInv, TypeOK, Knowing, Knows
<1>3. BornOnce'
  <2>1. \A c \in Conns : row'[c] # None => c \in ids'
    BY <1>0, <1>1 DEF BornOnce
  <2>2. \A q \in Reqs \ {r} : Creating(q) => row'[req[q].conn] = None
    BY <1>0, <1>1, <1>2 DEF BornOnce, Creating, InTx, At
  <2> QED BY <1>0, <2>1, <2>2, BornKept
<1>4. Transactions'
  <2> SUFFICES ASSUME NEW q \in Reqs, NEW c \in Conns, tx'[q][c] # None PROVE Written(q, c)'
    BY DEF Transactions
  <2>1. tx[q][c] # None /\ Written(q, c)
    BY <1>0 DEF Transactions
  <2>2. q # r
    BY <2>1 DEF Written
  <2>3. row'[c] = row[c]
    BY <2>1 DEF RowsAlike
  <2>4. \A p \in Reqs \ {q} : tx'[p][c] = None
    BY <2>1 DEF Written
  <2>5. req'[q] = req[q] /\ tx'[q] = tx[q]
    BY <1>0, <2>2
  <2> QED BY <2>1, <2>3, <2>4, <2>5, StillWritten
<1>5. Empty'
  <2> SUFFICES ASSUME NEW q \in Reqs, At(q, "commit")', tx'[q][req'[q].conn] = None
               PROVE  req'[q].op = "update" /\ row'[req'[q].conn] = None
    BY DEF Empty
  <2>1. q # r /\ req'[q] = req[q] /\ At(q, "commit")
    BY <1>0 DEF At
  <2>2. req[q].op = "update" /\ row[req[q].conn] = None /\ req[q].conn \in Conns
    BY <1>0, <1>2, <2>1 DEF Empty, At
  <2> QED BY <1>1, <2>1, <2>2
<1> QED BY <1>3, <1>4, <1>5 DEF RowInv

(* A step of nobody's request, which at most writes a status.              *)
LEMMA QuietStep ==
  ASSUME RowInv, TypeInv', UNCHANGED <<ids, tx, req>>, RowsAlike
  PROVE  RowInv'
<1>0. TypeInv /\ BornOnce /\ Transactions /\ Empty
  BY DEF RowInv
<1>1. \A c \in Conns : row'[c] = None <=> row[c] = None
  BY DEF RowsAlike
<1>2. \A q \in Reqs : ~At(q, "idle") => req[q].conn \in Conns
  BY <1>0 DEF TypeInv, TypeOK, Knowing, Knows
<1>3. BornOnce'
  <2>1. \A q \in Reqs : (Creating(q)' <=> Creating(q)) /\ (Updating(q)' <=> Updating(q))
    BY DEF Creating, Updating, InTx
  <2>2. \A q \in Reqs : Creating(q) => req[q].conn \in Conns
    BY <1>2 DEF Creating, InTx, At
  <2> QED BY <1>0, <1>1, <2>1, <2>2 DEF BornOnce
<1>4. Transactions'
  <2> SUFFICES ASSUME NEW q \in Reqs, NEW c \in Conns, tx'[q][c] # None PROVE Written(q, c)'
    BY DEF Transactions
  <2>1. tx[q][c] # None /\ Written(q, c)
    BY <1>0 DEF Transactions
  <2>2. row'[c] = row[c] /\ \A p \in Reqs \ {q} : tx'[p][c] = None
    BY <2>1 DEF RowsAlike, Written
  <2> QED BY <2>1, <2>2, StillWritten
<1>5. Empty'
  BY <1>0, <1>1, <1>2 DEF Empty, At
<1> QED BY <1>3, <1>4, <1>5 DEF RowInv

LEMMA StatusAlike ==
  ASSUME NEW p, NEW c \in Conns, NEW s \in Statuses, TypeInv, None \notin Reqs, WriteStatus(p, c, s)
  PROVE  RowsAlike
<1>1. \A q \in Reqs : tx[q][c] = None
  BY DEF WriteStatus, Locked
<1>2. CASE row[c] = None
  BY <1>2 DEF WriteStatus, RowsAlike
<1>3. CASE row[c] # None
  <2>1. row[c] \in Row /\ row' = [row EXCEPT ![c].status = s]
    BY <1>3 DEF WriteStatus, TypeInv, TypeOK
  <2>2. [row[c] EXCEPT !.status = s] \in Row
    BY <2>1 DEF Row
  <2>3. /\ row'[c] = [row[c] EXCEPT !.status = s]
        /\ \A d \in Conns \ {c} : row'[d] = row[d]
    BY <2>1 DEF TypeInv, TypeOK
  <2> QED BY <1>1, <1>3, <2>2, <2>3, ConnectionsApart DEF RowsAlike
<1> QED BY <1>2, <1>3
(* The requests' steps that write no row.                                  *)
LEMMA LocalSteps ==
  ASSUME NEW r \in Reqs, RowInv, TypeInv',
         \/ Create(r) \/ Begin(r) \/ Load(r) \/ ScanDefaults(r) \/ Reload(r)
         \/ SetOpening(r) \/ SetDisconnected(r)
         \/ SendCreated(r) \/ SendUpdated(r) \/ SendStart(r) \/ SendFails(r) \/ SendLogout(r)
         \/ SendDeleted(r) \/ Tell(r) \/ TellDeleted(r)
  PROVE  RowInv'
<1> DEFINE c == req[r].conn
<1>0. /\ TypeInv /\ BornOnce /\ TypeOK /\ req \in [Reqs -> Request] /\ req[r] \in Request
      /\ \A q \in Reqs : ~At(q, "idle") => Knows(q) /\ req[q].conn \in ids /\ req[q].conn \in Conns
  BY DEF RowInv, TypeInv, Knowing, Knows, TypeOK
<1>1. CASE Create(r)
  <2>1. PICK k \in work.conns \ ids, d \in Flags \cup {FALSE}, s \in work.set :
          /\ ids' = ids \cup {k}
          /\ req' = [req EXCEPT ![r] = [Idle EXCEPT !.pc = IF d THEN "scan" ELSE "write",
                        !.op = "create", !.conn = k, !.default = d, !.new = s]]
    BY <1>1 DEF Create
  <2> DEFINE new == [Idle EXCEPT !.pc = IF d THEN "scan" ELSE "write",
                        !.op = "create", !.conn = k, !.default = d, !.new = s]
  <2>2. new.conn = k /\ new.op = "create" /\ new.pc \in {"scan", "write"}
    BY DEF Idle
  <2>3. req' = [req EXCEPT ![r] = new]
    BY <2>1
  <2> HIDE DEF new
  <2>4. req'[r] = new /\ \A q \in Reqs \ {r} : req'[q] = req[q]
    BY <1>0, <2>3
  <2>5. row' = row /\ tx' = tx /\ At(r, "idle")
    BY <1>1 DEF Create
  <2>6. work.conns \subseteq Conns
    BY <1>0, ConnectionsAssumption DEF TypeOK
  <2>7. row[k] = None /\ k \notin ids
    BY <1>0, <2>1, <2>6 DEF BornOnce
  <2>8. \A q \in Reqs : InTx(q) => req[q].conn # k
    BY <1>0, <2>7 DEF InTx, At
  <2>9. \A q \in Reqs \ {r} : InTx(q)' => req'[q].conn # k
    BY <2>4, <2>8 DEF InTx
  <2>10. Apart(r)'
    BY <2>2, <2>4, <2>5, <2>7, <2>9 DEF Apart, Creating, Updating
  <2>11. RowsAlike /\ OthersAsBefore(r)
    BY <2>4, <2>5 DEF RowsAlike, OthersAsBefore
  <2>12. req[r].pc \notin {"write", "commit"} /\ req'[r].pc # "commit"
    BY <2>2, <2>4, <2>5 DEF At
  <2>13. ids \subseteq ids'
    BY <2>1
  <2> QED BY <2>5, <2>10, <2>11, <2>12, <2>13, LocalStep
<1>2. CASE Begin(r)
  <2>1. PICK op \in work.inputs \cap {"update", "start", "logout", "delete"}, k \in ids,
             d \in Flags \cup {None}, s \in work.set \cup {None} :
          /\ op # "update" => d = None /\ s = None
          /\ req' = [req EXCEPT ![r] = [Idle EXCEPT !.pc = "load", !.op = op,
                        !.conn = k, !.default = d, !.new = s]]
    BY <1>2 DEF Begin
  <2> DEFINE new == [Idle EXCEPT !.pc = "load", !.op = op, !.conn = k, !.default = d, !.new = s]
  <2>2. new.pc = "load"
    BY DEF Idle
  <2>3. req' = [req EXCEPT ![r] = new]
    BY <2>1
  <2> HIDE DEF new
  <2>4. req'[r] = new /\ \A q \in Reqs \ {r} : req'[q] = req[q]
    BY <1>0, <2>3
  <2>5. UNCHANGED <<row, tx, ids>> /\ At(r, "idle")
    BY <1>2 DEF Begin, rows
  <2>6. RowsAlike /\ OthersAsBefore(r)
    BY <2>4, <2>5 DEF RowsAlike, OthersAsBefore
  <2>7. Apart(r)'
    BY <2>2, <2>4, OutOfTx DEF InTx
  <2>8. req[r].pc \notin {"write", "commit"} /\ req'[r].pc # "commit"
    BY <2>2, <2>4, <2>5 DEF At
  <2> QED BY <2>5, <2>6, <2>7, <2>8, LocalStep
<1>3. CASE Load(r)
  <2>1. UNCHANGED <<row, tx, ids>> /\ At(r, "load")
    BY <1>3 DEF Load, rows
  <2>2. /\ \A q \in Reqs \ {r} : req'[q] = req[q]
        /\ \/ ~InTx(r)' /\ req'[r].pc # "commit"
           \/ /\ row[c] # None /\ req'[r].conn = c /\ req'[r].op # "create"
              /\ req'[r].pc # "commit"
    <3>1. CASE row[c] = None
      <4>1. req' = [req EXCEPT ![r] = Idle]
        BY <1>3, <3>1 DEF Load, Finish
      <4> QED BY <1>0, <4>1 DEF Idle, InTx
    <3>2. CASE row[c] # None
      <4> DEFINE to == AfterLoad[req[r].op]
                 new == [req[r] EXCEPT !.pc = to, !.old = row[c].set, !.copy = row[c].set]
      <4>1. req[r].op \in {"update", "start", "logout", "delete"}
        BY <1>0, <2>1 DEF Knows, Request, At
      <4>2. to \in {"scan", "status", "command"}
        BY <4>1 DEF AfterLoad
      <4>3. req' = [req EXCEPT ![r] = new]
        BY <1>3, <3>2 DEF Load
      <4> HIDE DEF to
      <4>4. new.conn = c /\ new.op = req[r].op /\ new.pc = to
        BY <1>0 DEF Request
      <4> HIDE DEF new
      <4> QED BY <1>0, <3>2, <4>1, <4>2, <4>3, <4>4
    <3> QED BY <3>1, <3>2
  <2>3. RowsAlike /\ OthersAsBefore(r)
    BY <2>1, <2>2 DEF RowsAlike, OthersAsBefore
  <2>4. Apart(r)'
    <3>1. CASE ~InTx(r)'
      BY <3>1, OutOfTx
    <3>2. CASE row[c] # None /\ req'[r].conn = c /\ req'[r].op # "create"
      <4>1. \A q \in Reqs \ {r} : Creating(q)' => Creating(q) /\ req'[q].conn = req[q].conn
        BY <2>2 DEF Creating, InTx
      <4>2. \A q \in Reqs \ {r} : Creating(q)' => req'[q].conn # req'[r].conn
        BY <1>0, <3>2, <4>1 DEF BornOnce
      <4>3. ~Creating(r)'
        BY <3>2 DEF Creating
      <4> QED BY <4>2, <4>3 DEF Apart
    <3> QED BY <2>2, <3>1, <3>2
  <2>5. req[r].pc \notin {"write", "commit"} /\ req'[r].pc # "commit"
    BY <2>1, <2>2 DEF At
  <2> QED BY <2>1, <2>3, <2>4, <2>5, LocalStep
<1>4. CASE ScanDefaults(r)
  <2> DEFINE to == IF req[r].default = TRUE THEN "clear" ELSE "write"
             m == {d \in Conns \ {c} : IsDefault(row[d])}
             new == [req[r] EXCEPT !.pc = to, !.match = m]
  <2>1. UNCHANGED <<row, tx, ids>> /\ At(r, "scan")
    BY <1>4 DEF ScanDefaults, rows
  <2>2. req' = [req EXCEPT ![r] = new] /\ to \in {"clear", "write"}
    BY <1>4 DEF ScanDefaults
  <2> HIDE DEF to, m
  <2>3. new.conn = c /\ new.op = req[r].op /\ new.pc = to
    BY <1>0 DEF Request
  <2> HIDE DEF new
  <2>4. req'[r] = new /\ \A q \in Reqs \ {r} : req'[q] = req[q]
    BY <1>0, <2>2
  <2>5. RowsAlike /\ OthersAsBefore(r)
    BY <2>1, <2>4 DEF RowsAlike, OthersAsBefore
  <2>6. Apart(r)'
    BY <1>0, <2>1, <2>3, <2>4, StaysApart DEF InTx, At
  <2>7. req[r].pc \notin {"write", "commit"} /\ req'[r].pc # "commit"
    BY <2>1, <2>2, <2>3, <2>4 DEF At
  <2> QED BY <2>1, <2>5, <2>6, <2>7, LocalStep
<1>5. ASSUME RowsAlike, UNCHANGED <<tx, ids>>, req[r].pc \notin {"write", "commit"},
             Finish(r) \/ \E pc \in {"command", "status", "erase", "tell"} : Go(r, pc)
      PROVE  RowInv'
  <2>1. /\ \A q \in Reqs \ {r} : req'[q] = req[q]
        /\ req'[r].pc \in {"idle", "command", "status", "erase", "tell"}
    <3>1. CASE Finish(r)
      BY <1>0, <3>1, FinishType DEF Idle
    <3>2. ASSUME NEW pc \in {"command", "status", "erase", "tell"}, Go(r, pc)
          PROVE  (\A q \in Reqs \ {r} : req'[q] = req[q]) /\ req'[r].pc = pc
      BY <1>0, <3>2 DEF Go, Request
    <3> QED BY <1>5, <3>1, <3>2
  <2>2. Apart(r)' /\ OthersAsBefore(r)
    BY <1>5, <2>1, OutOfTx DEF InTx, OthersAsBefore
  <2> QED BY <1>5, <2>1, <2>2, LocalStep
<1>6. CASE Reload(r)
  <2>1. UNCHANGED <<row, tx, ids>> /\ At(r, "reload")
    BY <1>6 DEF Reload, rows
  <2>2. /\ \A q \in Reqs \ {r} : req'[q] = req[q]
        /\ req'[r].pc \in {"idle", "command"}
    <3>1. CASE row[c] = None
      BY <1>0, <1>6, <3>1, FinishType DEF Reload, Idle
    <3>2. CASE row[c] # None
      <4> DEFINE new == [req[r] EXCEPT !.pc = "command", !.copy = row[c].set]
      <4>1. req' = [req EXCEPT ![r] = new] /\ new.pc = "command"
        BY <1>0, <1>6, <3>2 DEF Reload, Request
      <4> HIDE DEF new
      <4> QED BY <1>0, <4>1
    <3> QED BY <3>1, <3>2
  <2>3. RowsAlike /\ OthersAsBefore(r)
    BY <2>1, <2>2 DEF RowsAlike, OthersAsBefore
  <2>4. Apart(r)'
    BY <2>2, OutOfTx DEF InTx
  <2>5. req[r].pc \notin {"write", "commit"} /\ req'[r].pc # "commit"
    BY <2>1, <2>2 DEF At
  <2> QED BY <2>1, <2>3, <2>4, <2>5, LocalStep
<1>7. CASE SetOpening(r) \/ SetDisconnected(r)
  <2>1. PICK s \in Statuses, pc \in {"command", "tell"} : WriteStatus(r, c, s) /\ Go(r, pc)
    BY <1>7 DEF SetOpening, SetDisconnected, Statuses
  <2>2. At(r, "status") /\ UNCHANGED <<tx, ids>>
    BY <1>7 DEF SetOpening, SetDisconnected
  <2>3. RowsAlike
    BY <1>0, <2>1, <2>2, StatusAlike, ConnectionsAssumption DEF At
  <2> QED BY <1>5, <2>1, <2>2, <2>3 DEF At
<1>8. CASE \/ SendCreated(r) \/ SendUpdated(r) \/ SendStart(r) \/ SendFails(r) \/ SendLogout(r)
           \/ SendDeleted(r) \/ Tell(r) \/ TellDeleted(r)
  <2>1. UNCHANGED <<row, tx, ids>> /\ req[r].pc \in {"command", "tell"}
    BY <1>8 DEF SendCreated, SendUpdated, SendStart, SendFails, SendLogout, SendDeleted, Sends,
                Tell, TellDeleted, rows, At
  <2>2. Finish(r) \/ \E pc \in {"command", "status", "erase", "tell"} : Go(r, pc)
    BY <1>8 DEF SendCreated, SendUpdated, SendStart, SendFails, SendLogout, SendDeleted, Sends,
                Tell, TellDeleted
  <2>3. RowsAlike
    BY <2>1 DEF RowsAlike
  <2> QED BY <1>5, <2>1, <2>2, <2>3
<1> QED BY <1>1, <1>2, <1>3, <1>4, <1>6, <1>7, <1>8

(* The steps of a transaction.                                             *)
LEMMA ClearStep ==
  ASSUME NEW r \in Reqs, RowInv, TypeInv', ClearDefaults(r)
  PROVE  RowInv'
<1> DEFINE c == req[r].conn
<1>0. /\ TypeInv /\ BornOnce /\ Transactions /\ Empty /\ TypeOK
      /\ Knows(r) /\ At(r, "clear") /\ c \in Conns /\ c \notin req[r].match /\ req[r].default = TRUE
  BY DEF RowInv, TypeInv, TypeOK, Knowing, Knows, ClearDefaults, At
<1>1. /\ row' = row /\ ids' = ids /\ Go(r, "write")
      /\ \A d \in req[r].match, q \in Reqs \ {r} : tx[q][d] = None
  BY DEF ClearDefaults, Locked
<1>2. /\ req'[r] = [req[r] EXCEPT !.pc = "write"] /\ \A q \in Reqs \ {r} : req'[q] = req[q]
  BY <1>0, <1>1, GoType DEF PCs
<1>3. /\ req'[r].pc = "write" /\ req'[r].op = req[r].op /\ req'[r].conn = c
      /\ req'[r].default = TRUE
  BY <1>0, <1>2 DEF TypeOK, Request
<1>4. /\ \A q \in Reqs \ {r} : tx'[q] = tx[q]
      /\ \A d \in Conns : tx'[r][d] = IF d \in req[r].match /\ IsDefault(row[d])
                                        THEN [row[d] EXCEPT !.default = FALSE] ELSE tx[r][d]
  BY <1>0 DEF ClearDefaults, TypeOK
<1>5. \A d \in Conns : tx[r][d] = None
  BY <1>0 DEF Transactions, Written, At
<1>6. BornOnce'
  <2>1. Apart(r)'
    BY <1>0, <1>1, <1>2, <1>3, StaysApart DEF InTx, At
  <2>2. \A d \in Conns : row'[d] # None => d \in ids'
    BY <1>0, <1>1 DEF BornOnce
  <2>3. \A q \in Reqs \ {r} : Creating(q) => row'[req[q].conn] = None
    BY <1>0, <1>1 DEF BornOnce
  <2> QED BY <1>0, <1>2, <2>1, <2>2, <2>3, BornKept
<1>7. Transactions'
  <2> SUFFICES ASSUME NEW q \in Reqs, NEW d \in Conns, tx'[q][d] # None PROVE Written(q, d)'
    BY DEF Transactions
  <2>1. CASE q = r
    <3>1. /\ d \in req[r].match /\ IsDefault(row[d]) /\ d # c
          /\ tx'[r][d] = [row[d] EXCEPT !.default = FALSE]
      BY <1>0, <1>4, <1>5, <2>1
    <3>2. row[d] # None /\ row[d] \in Row
      BY <1>0, <3>1 DEF IsDefault, TypeOK
    <3>3. tx'[r][d].status = row'[d].status
      BY <1>1, <3>1, <3>2 DEF Row
    <3>4. \A p \in Reqs \ {r} : tx'[p][d] = None
      BY <1>1, <1>4, <3>1
    <3> QED BY <1>1, <1>3, <2>1, <3>1, <3>2, <3>3, <3>4 DEF Written
  <2>2. CASE q # r
    <3>1. tx[q][d] # None /\ Written(q, d) /\ tx'[q] = tx[q] /\ req'[q] = req[q]
      BY <1>0, <1>2, <1>4, <2>2 DEF Transactions
    <3>2. d \notin req[r].match
      BY <1>1, <2>2, <3>1
    <3>3. \A p \in Reqs \ {q} : tx'[p][d] = None
      <4>1. \A p \in Reqs \ {q} : tx[p][d] = None
        BY <3>1 DEF Written
      <4>2. tx'[r][d] = tx[r][d]
        BY <1>4, <3>2
      <4> QED BY <1>4, <4>1, <4>2
    <3> QED BY <1>1, <3>1, <3>3, StillWritten
  <2> QED BY <2>1, <2>2
<1>8. Empty'
  <2> SUFFICES ASSUME NEW q \in Reqs, At(q, "commit")', tx'[q][req'[q].conn] = None
               PROVE  req'[q].op = "update" /\ row'[req'[q].conn] = None
    BY DEF Empty
  <2>1. q # r
    BY <1>3 DEF At
  <2>2. req'[q] = req[q] /\ tx'[q] = tx[q]
    BY <1>2, <1>4, <2>1
  <2> QED BY <1>0, <1>1, <2>2 DEF Empty, At
<1> QED BY <1>6, <1>7, <1>8 DEF RowInv

LEMMA RollbackStep ==
  ASSUME NEW r \in Reqs, RowInv, TypeInv', Rollback(r), UNCHANGED <<row, ids>>
  PROVE  RowInv'
<1>0. TypeInv /\ BornOnce /\ Transactions /\ Empty /\ TypeOK
  BY DEF RowInv, TypeInv
<1>1. req'[r].pc = "idle" /\ \A q \in Reqs \ {r} : req'[q] = req[q]
  BY <1>0, FinishType DEF Rollback, Idle
<1>2. (\A d \in Conns : tx'[r][d] = None) /\ \A q \in Reqs \ {r} : tx'[q] = tx[q]
  BY <1>0 DEF Rollback, Clean, TypeOK
<1>3. BornOnce'
  <2>1. Apart(r)'
    BY <1>1, OutOfTx DEF InTx
  <2>2. \A d \in Conns : row'[d] # None => d \in ids'
    BY <1>0 DEF BornOnce
  <2>3. \A q \in Reqs \ {r} : Creating(q) => row'[req[q].conn] = None
    BY <1>0 DEF BornOnce
  <2> QED BY <1>0, <1>1, <2>1, <2>2, <2>3, BornKept
<1>4. Transactions'
  <2> SUFFICES ASSUME NEW q \in Reqs, NEW d \in Conns, tx'[q][d] # None PROVE Written(q, d)'
    BY DEF Transactions
  <2>1. q # r /\ tx[q][d] # None /\ Written(q, d) /\ tx'[q] = tx[q] /\ req'[q] = req[q]
    BY <1>0, <1>1, <1>2 DEF Transactions
  <2>2. \A p \in Reqs \ {q} : tx'[p][d] = None
    BY <1>2, <2>1 DEF Written
  <2> QED BY <2>1, <2>2, StillWritten
<1>5. Empty'
  <2> SUFFICES ASSUME NEW q \in Reqs, At(q, "commit")', tx'[q][req'[q].conn] = None
               PROVE  req'[q].op = "update" /\ row'[req'[q].conn] = None
    BY DEF Empty
  <2>1. q # r
    BY <1>1 DEF At
  <2>2. req'[q] = req[q] /\ tx'[q] = tx[q]
    BY <1>1, <1>2, <2>1
  <2> QED BY <1>0, <2>2 DEF Empty, At
<1> QED BY <1>3, <1>4, <1>5 DEF RowInv
LEMMA WriteStep ==
  ASSUME NEW r \in Reqs, RowInv, TypeInv', Write(r)
  PROVE  RowInv'
<1> DEFINE c == req[r].conn
<1> PICK w : w = Asked(r)
  OBVIOUS
<1>0. /\ TypeInv /\ BornOnce /\ Transactions /\ Empty /\ TypeOK
      /\ Knows(r) /\ At(r, "write") /\ c \in Conns /\ row' = row /\ ids' = ids
      /\ \A q \in Reqs \ {r} : tx[q][c] = None
  BY DEF RowInv, TypeInv, TypeOK, Knowing, Knows, Write, At, Locked
<1>1. CASE Rollback(r)
  BY <1>0, <1>1, RollbackStep
<1>2. CASE tx' = [tx EXCEPT ![r][c] = w] /\ Go(r, "commit")
  <2>1. /\ req'[r] = [req[r] EXCEPT !.pc = "commit"] /\ \A q \in Reqs \ {r} : req'[q] = req[q]
    BY <1>0, <1>2, GoType DEF PCs
  <2>2. /\ req'[r].pc = "commit" /\ req'[r].op = req[r].op /\ req'[r].conn = c
        /\ req'[r].default = req[r].default
    BY <1>0, <2>1 DEF TypeOK, Request
  <2>3. /\ \A q \in Reqs \ {r} : tx'[q] = tx[q]
        /\ tx'[r][c] = w /\ \A d \in Conns \ {c} : tx'[r][d] = tx[r][d]
    BY <1>0, <1>2 DEF TypeOK
  <2>4. req[r].op \in {"create", "update"} /\ req[r] \in Request
    BY <1>0 DEF Knows, InTx, At, TypeOK
  <2>5. BornOnce'
    <3>1. Apart(r)'
      BY <1>0, <2>1, <2>2, StaysApart DEF InTx, At
    <3>2. \A d \in Conns : row'[d] # None => d \in ids'
      BY <1>0 DEF BornOnce
    <3>3. \A q \in Reqs \ {r} : Creating(q) => row'[req[q].conn] = None
      BY <1>0 DEF BornOnce
    <3> QED BY <1>0, <2>1, <3>1, <3>2, <3>3, BornKept
  <2>6. /\ req[r].op = "create" => w # None /\ w.default = req[r].default
        /\ req[r].op = "update" /\ w # None =>
             /\ row[c] # None /\ w.status = row[c].status
             /\ IF req[r].default = None THEN w.default = row[c].default
                                         ELSE w.default = req[r].default
        /\ w = None => row[c] = None /\ req[r].op = "update"
    <3>1. CASE req[r].op = "create"
      <4>1. w = [status |-> "OPENING", default |-> req[r].default, set |-> req[r].new]
        BY <3>1 DEF Asked
      <4>2. req[r].default \in BOOLEAN /\ req[r].new \in Settings
        BY <1>0, <3>1 DEF Knows
      <4>3. w \in Row
        BY <4>1, <4>2 DEF Row, Statuses
      <4>4. w.default = req[r].default
        BY <4>1
      <4> QED BY <3>1, <4>3, <4>4, ConnectionsApart
    <3>2. CASE req[r].op = "update"
      <4>1. CASE row[c] = None
        <5>1. w = None
          BY <3>2, <4>1 DEF Asked
        <5> QED BY <3>2, <4>1, <5>1
      <4>2. CASE row[c] # None
        <5>1. row[c] \in Row
          BY <1>0, <4>2 DEF TypeOK
        <5>2. /\ req[r].default \in BOOLEAN \cup {None} /\ req[r].new \in Settings \cup {None}
          BY <2>4 DEF Request
        <5> DEFINE d == IF req[r].default = None THEN row[c].default ELSE req[r].default
                   n == IF req[r].new = None THEN row[c].set ELSE req[r].new
        <5>3. d \in BOOLEAN /\ n \in Settings
          BY <5>1, <5>2 DEF Row
        <5>4. w = [row[c] EXCEPT !.default = d, !.set = n]
          BY <3>2, <4>2 DEF Asked
        <5>5. IF req[r].default = None THEN d = row[c].default ELSE d = req[r].default
          OBVIOUS
        <5> HIDE DEF d, n
        <5>6. w \in Row /\ w.status = row[c].status /\ w.default = d
          BY <5>1, <5>3, <5>4 DEF Row
        <5> QED BY <3>2, <4>2, <5>5, <5>6, ConnectionsApart
      <4> QED BY <4>1, <4>2
    <3> QED BY <2>4, <3>1, <3>2
  <2>7. Transactions'
    <3> SUFFICES ASSUME NEW q \in Reqs, NEW d \in Conns, tx'[q][d] # None PROVE Written(q, d)'
      BY DEF Transactions
    <3>1. CASE q = r /\ d = c
      <4>1. w # None /\ \A p \in Reqs \ {r} : tx'[p][d] = None
        BY <1>0, <2>3, <3>1
      <4>2. tx'[r][d] = w /\ d = req'[r].conn
        BY <2>2, <2>3, <3>1
      <4>3. /\ req[r].default # None => w.default = req[r].default
            /\ req[r].op = "update" /\ req[r].default = None => w.default = row[c].default
        BY <2>4, <2>6, <4>1
      <4>4. Own(r, tx[r][d])'
        BY <1>0, <2>2, <3>1, <4>2, <4>3 DEF Own, At
      <4>5. req[r].op = "update" => row[c] # None /\ w.status = row[c].status
        BY <2>6, <4>1
      <4> QED BY <1>0, <2>2, <3>1, <4>1, <4>2, <4>4, <4>5 DEF Written
    <3>2. CASE q = r /\ d # c
      <4>1. tx[r][d] # None /\ tx'[r][d] = tx[r][d] /\ Written(r, d)
        BY <1>0, <2>3, <3>2 DEF Transactions
      <4>2. \A p \in Reqs \ {r} : tx'[p][d] = None
        BY <2>3, <4>1 DEF Written
      <4> QED BY <1>0, <2>2, <3>2, <4>1, <4>2 DEF Written
    <3>3. CASE q # r
      <4>1. tx[q][d] # None /\ Written(q, d) /\ tx'[q] = tx[q] /\ req'[q] = req[q]
        BY <1>0, <2>1, <2>3, <3>3 DEF Transactions
      <4>2. d # c
        BY <1>0, <3>3, <4>1
      <4>3. \A p \in Reqs \ {q} : tx'[p][d] = None
        BY <2>3, <4>1, <4>2 DEF Written
      <4> QED BY <1>0, <4>1, <4>3, StillWritten
    <3> QED BY <3>1, <3>2, <3>3
  <2>8. Empty'
    <3> SUFFICES ASSUME NEW q \in Reqs, At(q, "commit")', tx'[q][req'[q].conn] = None
                 PROVE  req'[q].op = "update" /\ row'[req'[q].conn] = None
      BY DEF Empty
    <3>1. CASE q = r
      BY <1>0, <2>2, <2>3, <2>6, <3>1
    <3>2. CASE q # r
      <4>1. req'[q] = req[q] /\ tx'[q] = tx[q]
        BY <2>1, <2>3, <3>2
      <4> QED BY <1>0, <4>1 DEF Empty, At
    <3> QED BY <3>1, <3>2
  <2> QED BY <2>5, <2>7, <2>8 DEF RowInv
<1> QED BY <1>1, <1>2 DEF Write

LEMMA CommitStep ==
  ASSUME NEW r \in Reqs, RowInv, TypeInv', Commit(r)
  PROVE  RowInv'
<1> DEFINE c == req[r].conn
<1>0. /\ TypeInv /\ BornOnce /\ Transactions /\ Empty /\ TypeOK
      /\ Knows(r) /\ At(r, "commit") /\ c \in ids /\ c \in Conns /\ ids' = ids
      /\ req[r].op \in {"create", "update"}
  BY DEF RowInv, TypeInv, TypeOK, Knowing, Knows, Commit, At, InTx
<1>1. \A d \in Conns : row'[d] = IF tx[r][d] # None THEN tx[r][d] ELSE row[d]
  BY DEF Commit, View
<1>2. (\A d \in Conns : tx'[r][d] = None) /\ \A q \in Reqs \ {r} : tx'[q] = tx[q]
  BY <1>0 DEF Commit, Clean, TypeOK
<1>3. req'[r].pc = "reload" /\ \A q \in Reqs \ {r} : req'[q] = req[q]
  <2>1. Go(r, "reload")
    BY DEF Commit
  <2>2. req'[r] = [req[r] EXCEPT !.pc = "reload"] /\ \A q \in Reqs \ {r} : req'[q] = req[q]
    BY <1>0, <2>1, GoType DEF PCs
  <2>3. req[r] \in Request
    BY <1>0 DEF TypeOK
  <2> QED BY <2>2, <2>3 DEF Request
<1>4. \A d \in Conns : tx[r][d] # None =>
        Written(r, d) /\ (d # c \/ req[r].op = "update" => row[d] # None)
  BY <1>0 DEF Transactions, Written
<1>5. \A q \in Reqs : InTx(q) => req[q].conn \in Conns
  BY <1>0 DEF TypeInv, TypeOK, Knowing, Knows, InTx, At
<1>6. BornOnce'
  <2>1. Apart(r)'
    BY <1>3, OutOfTx DEF InTx
  <2>2. \A d \in Conns : row'[d] # None => d \in ids'
    BY <1>0, <1>1, <1>4 DEF BornOnce
  <2>3. ASSUME NEW q \in Reqs \ {r}, Creating(q) PROVE row'[req[q].conn] = None
    <3>1. req[q].conn \in Conns /\ row[req[q].conn] = None
      BY <1>0, <1>5, <2>3 DEF BornOnce, Creating
    <3>2. Creating(r) \/ Updating(r)
      BY <1>0 DEF Creating, Updating, InTx, At
    <3>3. req[q].conn # c
      BY <1>0, <2>3, <3>2 DEF BornOnce
    <3>4. tx[r][req[q].conn] = None
      BY <1>4, <3>1, <3>3
    <3> QED BY <1>1, <3>1, <3>4
  <2> QED BY <1>0, <1>3, <2>1, <2>2, <2>3, BornKept
<1>7. Transactions'
  <2> SUFFICES ASSUME NEW q \in Reqs, NEW d \in Conns, tx'[q][d] # None PROVE Written(q, d)'
    BY DEF Transactions
  <2>1. q # r /\ tx[q][d] # None /\ Written(q, d) /\ tx'[q] = tx[q] /\ req'[q] = req[q]
    BY <1>0, <1>2, <1>3 DEF Transactions
  <2>2. \A p \in Reqs \ {q} : tx[p][d] = None /\ tx'[p][d] = None
    BY <1>2, <2>1 DEF Written
  <2>3. row'[d] = row[d]
    BY <1>1, <2>1, <2>2
  <2> QED BY <2>1, <2>2, <2>3, StillWritten
<1>8. Empty'
  <2> SUFFICES ASSUME NEW q \in Reqs, At(q, "commit")', tx'[q][req'[q].conn] = None
               PROVE  req'[q].op = "update" /\ row'[req'[q].conn] = None
    BY DEF Empty
  <2>1. q # r
    BY <1>3 DEF At
  <2>2. req'[q] = req[q] /\ tx'[q] = tx[q]
    BY <1>2, <1>3, <2>1
  <2>3. /\ InTx(q) /\ req[q].op = "update" /\ row[req[q].conn] = None /\ req[q].conn \in Conns
    BY <1>0, <1>5, <2>2 DEF Empty, At, InTx
  <2>4. tx[r][req[q].conn] = None
    <3> SUFFICES ASSUME tx[r][req[q].conn] # None PROVE FALSE
      OBVIOUS
    <3>1. req[q].conn = c /\ req[r].op = "create"
      BY <1>0, <1>4, <2>3
    <3>2. Creating(r) /\ Updating(q)
      BY <1>0, <2>3, <3>1 DEF Creating, Updating, InTx, At
    <3> QED BY <1>0, <2>1, <3>1, <3>2 DEF BornOnce
  <2> QED BY <1>1, <2>2, <2>3, <2>4
<1> QED BY <1>6, <1>7, <1>8 DEF RowInv

LEMMA EraseStep ==
  ASSUME NEW r \in Reqs, RowInv, TypeInv', Erase(r)
  PROVE  RowInv'
<1> DEFINE c == req[r].conn
<1>0. /\ TypeInv /\ BornOnce /\ Transactions /\ Empty /\ TypeOK
      /\ At(r, "erase") /\ c \in Conns /\ ids' = ids /\ tx' = tx
      /\ \A q \in Reqs \ {r} : tx[q][c] = None
  BY DEF RowInv, TypeInv, TypeOK, Knowing, Knows, Erase, At, Locked
<1>1. row'[c] = None /\ \A d \in Conns \ {c} : row'[d] = row[d]
  BY <1>0 DEF Erase, TypeOK
<1>2. req'[r].pc \in {"idle", "tell"} /\ \A q \in Reqs \ {r} : req'[q] = req[q]
  <2>1. CASE Finish(r)
    BY <1>0, <2>1, FinishType DEF Idle
  <2>2. CASE Go(r, "tell")
    BY <1>0, <2>2, GoType DEF PCs, TypeOK, Request
  <2> QED BY <2>1, <2>2 DEF Erase
<1>3. \A q \in Reqs : ~At(q, "idle") => req[q].conn \in Conns
  BY <1>0 DEF TypeInv, TypeOK, Knowing, Knows
<1>4. BornOnce'
  <2>1. Apart(r)'
    BY <1>2, OutOfTx DEF InTx
  <2>2. \A d \in Conns : row'[d] # None => d \in ids'
    BY <1>0, <1>1 DEF BornOnce
  <2>3. \A q \in Reqs \ {r} : Creating(q) => row'[req[q].conn] = None
    BY <1>0, <1>1, <1>3 DEF BornOnce, Creating, InTx, At
  <2> QED BY <1>0, <1>2, <2>1, <2>2, <2>3, BornKept
<1>5. Transactions'
  <2> SUFFICES ASSUME NEW q \in Reqs, NEW d \in Conns, tx'[q][d] # None PROVE Written(q, d)'
    BY DEF Transactions
  <2>1. tx[q][d] # None /\ Written(q, d)
    BY <1>0 DEF Transactions
  <2>2. q # r
    BY <1>0, <2>1 DEF Written, At
  <2>3. req'[q] = req[q] /\ row'[d] = row[d] /\ \A p \in Reqs \ {q} : tx'[p][d] = None
    BY <1>0, <1>1, <1>2, <2>1, <2>2 DEF Written
  <2> QED BY <1>0, <2>1, <2>3, StillWritten
<1>6. Empty'
  <2> SUFFICES ASSUME NEW q \in Reqs, At(q, "commit")', tx'[q][req'[q].conn] = None
               PROVE  req'[q].op = "update" /\ row'[req'[q].conn] = None
    BY DEF Empty
  <2>1. q # r
    BY <1>2 DEF At
  <2>2. req'[q] = req[q] /\ At(q, "commit")
    BY <1>2, <2>1 DEF At
  <2>3. req[q].op = "update" /\ row[req[q].conn] = None /\ req[q].conn \in Conns
    BY <1>0, <1>3, <2>2 DEF Empty, At
  <2> QED BY <1>1, <2>2, <2>3
<1> QED BY <1>4, <1>5, <1>6 DEF RowInv

LEMMA RowInit == Init => RowInv
<1> SUFFICES ASSUME Init PROVE RowInv
  OBVIOUS
<1>1. TypeInv
  BY InitType
<1>2. \A r \in Reqs : req[r].pc = "idle"
  BY DEF Init, Idle
<1>3. BornOnce
  BY <1>2 DEF BornOnce, Creating, InTx, Init
<1>4. Transactions /\ Empty
  BY <1>2 DEF Transactions, Empty, At, Init, Clean
<1> QED BY <1>1, <1>3, <1>4 DEF RowInv

LEMMA RowNext == RowInv /\ [Next]_vars => RowInv'
<1> SUFFICES ASSUME RowInv, [Next]_vars PROVE RowInv'
  OBVIOUS
<1>0. TypeInv /\ TypeInv'
  BY TypeNext DEF RowInv
<1>1. ASSUME UNCHANGED <<row, ids, tx, req>> PROVE RowInv'
  <2>1. RowsAlike
    BY <1>1 DEF RowsAlike
  <2> QED BY <1>0, <1>1, <2>1, QuietStep
<1>2. CASE UNCHANGED vars
  BY <1>1, <1>2 DEF vars, rows
<1>3. ASSUME NEW r \in work.reqs, Create(r) \/ Begin(r) \/ Requesting(r) \/ RequestFails(r) PROVE RowInv'
  <2>1. r \in Reqs
    BY <1>0, ConnectionsAssumption DEF TypeInv, TypeOK
  <2>2. CASE Refused(r) \/ RequestFails(r)
    BY <1>0, <2>1, <2>2, RollbackStep DEF Refused, RequestFails
  <2>3. CASE ClearDefaults(r) \/ Write(r) \/ Commit(r) \/ Erase(r)
    BY <1>0, <2>1, <2>3, ClearStep, WriteStep, CommitStep, EraseStep
  <2> QED BY <1>0, <1>3, <2>1, <2>2, <2>3, LocalSteps DEF Requesting
<1>4. ASSUME NEW e \in Event, Handling(e) \/ HandlerFails(e) PROVE RowInv'
  <2>1. CASE HandleStatus(e)
    <3>1. e.conn \in Conns /\ Outcome[e.kind] \in Statuses
      BY DEF Event, Kinds, Outcome, Statuses
    <3>2. WriteStatus(e, e.conn, Outcome[e.kind]) /\ UNCHANGED <<ids, tx, req>>
      BY <2>1 DEF HandleStatus
    <3>3. RowsAlike
      BY <1>0, <3>1, <3>2, StatusAlike, ConnectionsAssumption
    <3> QED BY <1>0, <3>2, <3>3, QuietStep
  <2>2. CASE ShowRestored(e) \/ ReloadRow(e) \/ TellEvent(e) \/ HandlerFails(e)
    BY <1>1, <2>2 DEF ShowRestored, ReloadRow, TellEvent, HandlerFails, rows
  <2> QED BY <1>4, <2>1, <2>2 DEF Handling
<1>5. ASSUME NEW m \in cmds, Obeying(m) PROVE RowInv'
  BY <1>1, <1>5 DEF Obeying, StartSession, StopSession, LogoutSession, ApplySettings, rows
<1>6. ASSUME NEW c \in Conns, WorkerStep(c) \/ StartAll(c) PROVE RowInv'
  BY <1>1, <1>6 DEF WorkerStep, Running, Register, PairingEnds, Dial, PairingCode, Reconnected,
                    Evicted, AutoRestore, StartAll, rows
<1>7. CASE WorkerRestart
  BY <1>1, <1>7 DEF WorkerRestart, rows
<1>8. CASE BackendRestart
  <2>1. /\ \A q \in Reqs : req'[q].pc = "idle" /\ \A d \in Conns : tx'[q][d] = None
        /\ row' = row /\ ids' = ids
    BY <1>8 DEF BackendRestart, Idle, Clean
  <2>2. BornOnce'
    BY <2>1 DEF RowInv, BornOnce, Creating, InTx
  <2>3. Transactions' /\ Empty'
    BY <2>1 DEF Transactions, Empty, At
  <2> QED BY <1>0, <2>2, <2>3 DEF RowInv
<1> QED BY <1>2, <1>3, <1>4, <1>5, <1>6, <1>7, <1>8 DEF Next, WorkerStep
-----------------------------------------------------------------------------
(* The default connection.                                                 *)

LEMMA StatusKeepsDefault ==
  ASSUME NEW p, NEW c \in Conns, NEW s \in Statuses, TypeOK, WriteStatus(p, c, s), SomeDefault
  PROVE  SomeDefault'
<1>1. CASE row[c] = None
  BY <1>1 DEF WriteStatus, SomeDefault
<1>2. CASE row[c] # None
  <2>1. row[c] \in Row /\ row' = [row EXCEPT ![c].status = s]
    BY <1>2 DEF WriteStatus, TypeOK
  <2>2. [row[c] EXCEPT !.status = s] \in Row /\ [row[c] EXCEPT !.status = s].default = row[c].default
    BY <2>1 DEF Row
  <2>3. /\ row'[c] = [row[c] EXCEPT !.status = s]
        /\ \A d \in Conns \ {c} : row'[d] = row[d]
    BY <2>1 DEF TypeOK
  <2>4. \A d \in Conns : IsDefault(row[d]) => IsDefault(row'[d])
    BY <2>2, <2>3, ConnectionsApart DEF IsDefault
  <2> QED BY <2>4 DEF SomeDefault
<1> QED BY <1>1, <1>2

(* A commit takes the default away from a row only to give it to its own,  *)
(* unless it was asked to, or its own row was deleted meanwhile.           *)
LEMMA CommitKeepsDefault ==
  ASSUME NEW r \in Reqs, RowInv, Commit(r), NEW c \in Conns, IsDefault(row[c]), ~SomeDefault'
  PROVE  Overtaken \/ GivenUp(c)
<1> DEFINE d == req[r].conn
<1>0. /\ BornOnce /\ Transactions /\ Empty /\ TypeOK /\ Knows(r) /\ At(r, "commit")
      /\ d \in Conns /\ req[r] \in Request /\ req[r].op \in {"create", "update"}
  BY DEF RowInv, TypeInv, TypeOK, Knowing, Knows, Commit, At, InTx
<1>1. \A k \in Conns : row'[k] = IF tx[r][k] # None THEN tx[r][k] ELSE row[k]
  BY DEF Commit, View
<1>2. \A k \in Conns : ~IsDefault(row'[k])
  BY DEF SomeDefault
<1>3. tx[r][c] # None /\ ~IsDefault(tx[r][c]) /\ Written(r, c)
  BY <1>0, <1>1, <1>2 DEF Transactions
<1>4. CASE c = d
  <2>1. row[c] # None /\ row[c].default
    BY DEF IsDefault
  <2>2. req[r].op = "update"
    BY <1>0, <1>4, <2>1 DEF BornOnce, Creating, InTx, At
  <2>3. Own(r, tx[r][c])
    BY <1>3, <1>4 DEF Written
  <2>4. ~tx[r][c].default
    BY <1>3 DEF IsDefault
  <2>5. req[r].default # None
    BY <1>4, <2>1, <2>2, <2>3, <2>4 DEF Own
  <2>6. req[r].default \in BOOLEAN /\ req[r].default = tx[r][c].default
    BY <1>0, <2>3, <2>5 DEF Request, Own
  <2>7. req[r].default = FALSE
    BY <2>4, <2>6
  <2> QED BY <1>0, <1>4, <2>2, <2>7 DEF GivenUp
<1>5. CASE c # d
  <2>1. req[r].default = TRUE
    BY <1>3, <1>5 DEF Written
  <2>2. CASE tx[r][d] = None
    BY <1>0, <2>2 DEF Empty, Overtaken
  <2>3. CASE tx[r][d] # None
    <3>1. Own(r, tx[r][d])
      BY <1>0, <2>3 DEF Transactions, Written
    <3>2. req[r].default # None => tx[r][d].default = TRUE
      BY <2>1, <3>1 DEF Own
    <3>3. ~tx[r][d].default
      BY <1>0, <1>1, <1>2, <2>3 DEF IsDefault
    <3>4. req[r].default = None
      BY <3>2, <3>3
    <3> QED BY <2>1, <3>4, ConnectionsApart
  <2> QED BY <2>2, <2>3
<1> QED BY <1>4, <1>5

(* Whatever requests compete for it and whichever of them fail, there      *)
(* stays a default connection unless an administrator gives it up, or      *)
(* deletes the one that is to become it.                                   *)
THEOREM DefaultStays == Spec => DefaultKept
<1> DEFINE Kept == SomeDefault /\ ~SomeDefault' =>
                     Overtaken \/ \E c \in Conns : IsDefault(row[c]) /\ GivenUp(c)
<1>1. ASSUME RowInv, [Next]_vars PROVE Kept
  <2> SUFFICES ASSUME SomeDefault, ~SomeDefault'
               PROVE  Overtaken \/ \E c \in Conns : IsDefault(row[c]) /\ GivenUp(c)
    OBVIOUS
  <2>0. TypeOK
    BY <1>1 DEF RowInv, TypeInv
  <2>1. PICK c \in Conns : IsDefault(row[c])
    BY DEF SomeDefault
  <2>2. row' # row
    BY DEF SomeDefault
  <2>3. ASSUME NEW p, NEW k \in Conns, NEW s \in Statuses, WriteStatus(p, k, s) PROVE FALSE
    BY <2>0, <2>3, StatusKeepsDefault
  <2>4. ASSUME NEW r \in work.reqs, Create(r) \/ Begin(r) \/ Requesting(r) \/ RequestFails(r)
        PROVE  Overtaken \/ \E k \in Conns : IsDefault(row[k]) /\ GivenUp(k)
    <3>0. r \in Reqs /\ (~At(r, "idle") => req[r].conn \in Conns)
      BY <1>1, ConnectionsAssumption DEF RowInv, TypeInv, TypeOK, Knowing, Knows
    <3>1. SetOpening(r) \/ SetDisconnected(r) \/ Commit(r) \/ Erase(r)
      BY <2>2, <2>4 DEF RequestFails, Create, Begin, Requesting, Load, ScanDefaults, ClearDefaults, Write, Refused,
           Reload, SendCreated, SendUpdated, SendStart, SendFails, SendLogout, SendDeleted, Sends,
           Tell, TellDeleted, rows
    <3>2. CASE SetOpening(r) \/ SetDisconnected(r)
      <4>1. PICK s \in Statuses : WriteStatus(r, req[r].conn, s) /\ At(r, "status")
        BY <3>2 DEF SetOpening, SetDisconnected, Statuses
      <4> QED BY <2>3, <3>0, <4>1 DEF At
    <3>3. CASE Commit(r)
      BY <1>1, <2>1, <3>0, <3>3, CommitKeepsDefault
    <3>4. CASE Erase(r)
      <4>1. At(r, "erase") /\ req[r].conn \in Conns /\ row' = [row EXCEPT ![req[r].conn] = None]
        BY <3>0, <3>4 DEF Erase, At
      <4>2. row'[req[r].conn] = None /\ \A k \in Conns \ {req[r].conn} : row'[k] = row[k]
        BY <2>0, <4>1 DEF TypeOK
      <4>3. ~IsDefault(row'[c])
        BY <2>1 DEF SomeDefault
      <4>4. c = req[r].conn
        BY <2>1, <4>2, <4>3
      <4> QED BY <2>1, <3>0, <4>1, <4>2, <4>4 DEF GivenUp
    <3> QED BY <3>1, <3>2, <3>3, <3>4
  <2>5. ASSUME NEW e \in Event, Handling(e) \/ HandlerFails(e) PROVE FALSE
    <3>1. HandleStatus(e)
      BY <2>2, <2>5 DEF Handling, HandlerFails, ShowRestored, ReloadRow, TellEvent, rows
    <3>2. e.conn \in Conns /\ Outcome[e.kind] \in Statuses
      BY DEF Event, Kinds, Outcome, Statuses
    <3> QED BY <2>3, <3>1, <3>2 DEF HandleStatus
  <2>6. ASSUME NEW m \in cmds, Obeying(m) PROVE FALSE
    BY <2>2, <2>6 DEF Obeying, StartSession, StopSession, LogoutSession, ApplySettings, rows
  <2>7. ASSUME NEW k \in Conns, WorkerStep(k) \/ StartAll(k) PROVE FALSE
    BY <2>2, <2>7 DEF WorkerStep, Running, Register, PairingEnds, Dial, PairingCode, Reconnected,
                      Evicted, AutoRestore, StartAll, rows
  <2>8. ~WorkerRestart /\ ~BackendRestart /\ ~UNCHANGED vars
    BY <2>2 DEF WorkerRestart, BackendRestart, vars, rows
  <2> QED BY <1>1, <2>4, <2>5, <2>6, <2>7, <2>8 DEF Next, WorkerStep
<1>2. RowInv /\ [Next]_vars => [Kept]_vars
  BY <1>1
<1> QED BY <1>2, RowInit, RowNext, PTL DEF Spec, DefaultKept
-----------------------------------------------------------------------------
(* The competition for the default.                                        *)

LEMMA NothingWritten ==
  ASSUME NEW r \in Reqs, RowInv, req[r].pc \notin {"write", "commit"}
  PROVE  \A c \in Conns : tx[r][c] = None
BY DEF RowInv, Transactions, Written

(* A step that writes nothing in a transaction, makes no row the default   *)
(* and takes the default from no row a transaction holds.                  *)
LEMMA QuietDefaults ==
  ASSUME DefaultInv, tx' = tx,
         \A q \in Reqs : req'[q].conn = req[q].conn \/ \A c \in Conns : tx[q][c] = None,
         \A c \in Conns : IsDefault(row'[c]) => IsDefault(row[c]),
         \A q \in Reqs, c \in Conns : tx[q][c] # None /\ IsDefault(row[c]) => IsDefault(row'[c])
  PROVE  DefaultInv'
<1>1. AtMostOneDefault'
  BY DEF DefaultInv, AtMostOneDefault
<1>2. Cleared'
  BY DEF DefaultInv, Cleared
<1>3. Chosen'
  <2> SUFFICES ASSUME NEW q \in Reqs, NEW c \in Conns, c = req'[q].conn, IsDefault(tx'[q][c]),
                      NEW d \in Conns \ {c}
               PROVE  ~IsDefault(View(q, d))' /\ \A p \in Reqs \ {q} : ~IsDefault(tx'[p][d])
    BY DEF Chosen
  <2>1. tx[q][c] # None /\ IsDefault(tx[q][c])
    BY DEF IsDefault
  <2>2. c = req[q].conn
    BY <2>1
  <2>3. ~IsDefault(View(q, d)) /\ \A p \in Reqs \ {q} : ~IsDefault(tx[p][d])
    BY <2>1, <2>2 DEF DefaultInv, Chosen
  <2> QED BY <2>3 DEF View
<1> QED BY <1>1, <1>2, <1>3 DEF DefaultInv

LEMMA StatusDefaults ==
  ASSUME NEW p, NEW c \in Conns, NEW s \in Statuses, TypeOK, DefaultInv, WriteStatus(p, c, s),
         tx' = tx,
         \A q \in Reqs : req'[q].conn = req[q].conn \/ \A d \in Conns : tx[q][d] = None
  PROVE  DefaultInv'
<1>1. \A d \in Conns : IsDefault(row'[d]) <=> IsDefault(row[d])
  <2>1. CASE row[c] = None
    BY <2>1 DEF WriteStatus
  <2>2. CASE row[c] # None
    <3>1. row[c] \in Row /\ row' = [row EXCEPT ![c].status = s]
      BY <2>2 DEF WriteStatus, TypeOK
    <3>2. [row[c] EXCEPT !.status = s] \in Row /\ [row[c] EXCEPT !.status = s].default = row[c].default
      BY <3>1 DEF Row
    <3>3. row'[c] = [row[c] EXCEPT !.status = s] /\ \A d \in Conns \ {c} : row'[d] = row[d]
      BY <3>1 DEF TypeOK
    <3> QED BY <2>2, <3>2, <3>3, ConnectionsApart DEF IsDefault
  <2> QED BY <2>1, <2>2
<1> QED BY <1>1, QuietDefaults

(* A transaction that ends without a trace.                                *)
LEMMA RollbackDefaults ==
  ASSUME NEW r \in Reqs, TypeOK, DefaultInv, Rollback(r), row' = row
  PROVE  DefaultInv'
<1>1. /\ \A c \in Conns : tx'[r][c] = None
      /\ \A q \in Reqs \ {r} : tx'[q] = tx[q] /\ req'[q] = req[q]
  BY DEF Rollback, Finish, Clean, TypeOK
<1>2. AtMostOneDefault' /\ Cleared'
  BY <1>1 DEF DefaultInv, AtMostOneDefault, Cleared
<1>3. Chosen'
  <2> SUFFICES ASSUME NEW q \in Reqs, NEW c \in Conns, c = req'[q].conn, IsDefault(tx'[q][c]),
                      NEW d \in Conns \ {c}
               PROVE  ~IsDefault(View(q, d))' /\ \A p \in Reqs \ {q} : ~IsDefault(tx'[p][d])
    BY DEF Chosen
  <2>1. q # r /\ tx'[q] = tx[q] /\ req'[q] = req[q]
    BY <1>1 DEF IsDefault
  <2>2. ~IsDefault(View(q, d)) /\ \A p \in Reqs \ {q} : ~IsDefault(tx[p][d])
    BY <2>1 DEF DefaultInv, Chosen
  <2>3. \A p \in Reqs \ {q} : ~IsDefault(tx'[p][d])
    BY <1>1, <2>2 DEF IsDefault
  <2> QED BY <2>1, <2>2, <2>3 DEF View
<1> QED BY <1>2, <1>3 DEF DefaultInv

LEMMA ClearDefaultsKept ==
  ASSUME NEW r \in Reqs, RowInv, DefaultInv, ClearDefaults(r)
  PROVE  DefaultInv'
<1>0. /\ TypeOK /\ Knows(r) /\ At(r, "clear") /\ req[r].conn \notin req[r].match
      /\ \A d \in Conns : tx[r][d] = None
  BY NothingWritten DEF RowInv, TypeInv, Knowing, Knows, ClearDefaults, At
<1>1. /\ row' = row /\ \A q \in Reqs : req'[q].conn = req[q].conn
      /\ \A q \in Reqs \ {r} : tx'[q] = tx[q]
      /\ \A d \in Conns : tx'[r][d] = IF d \in req[r].match /\ IsDefault(row[d])
                                        THEN [row[d] EXCEPT !.default = FALSE] ELSE tx[r][d]
  BY <1>0 DEF ClearDefaults, Go, TypeOK, Request
<1>2. \A d \in Conns : /\ ~IsDefault(tx'[r][d])
                       /\ tx'[r][d] # None => d \in req[r].match /\ IsDefault(row[d])
  <2> SUFFICES ASSUME NEW d \in Conns, d \in req[r].match, IsDefault(row[d])
               PROVE  ~IsDefault(tx'[r][d])
    BY <1>0, <1>1 DEF IsDefault
  <2>1. row[d] \in Row
    BY <1>0 DEF IsDefault, TypeOK
  <2>2. tx'[r][d].default = FALSE
    BY <1>1, <2>1 DEF Row
  <2> QED BY <2>2 DEF IsDefault
<1>3. AtMostOneDefault'
  BY <1>1 DEF DefaultInv, AtMostOneDefault
<1>4. Cleared'
  <2> SUFFICES ASSUME NEW q \in Reqs, NEW c \in Conns, tx'[q][c] # None, c # req'[q].conn
               PROVE  IsDefault(row'[c]) /\ ~IsDefault(tx'[q][c])
    BY DEF Cleared
  <2>1. CASE q = r
    BY <1>1, <1>2, <2>1
  <2>2. CASE q # r
    BY <1>1, <2>2 DEF DefaultInv, Cleared
  <2> QED BY <2>1, <2>2
<1>5. Chosen'
  <2> SUFFICES ASSUME NEW q \in Reqs, NEW c \in Conns, c = req'[q].conn, IsDefault(tx'[q][c]),
                      NEW d \in Conns \ {c}
               PROVE  ~IsDefault(View(q, d))' /\ \A p \in Reqs \ {q} : ~IsDefault(tx'[p][d])
    BY DEF Chosen
  <2>1. q # r /\ tx'[q] = tx[q] /\ c = req[q].conn
    BY <1>1, <1>2
  <2>2. ~IsDefault(View(q, d)) /\ \A p \in Reqs \ {q} : ~IsDefault(tx[p][d])
    BY <2>1 DEF DefaultInv, Chosen
  <2> QED BY <1>1, <1>2, <2>1, <2>2 DEF View
<1> QED BY <1>3, <1>4, <1>5 DEF DefaultInv

(* Whoever passes the index finds no other default, and no transaction     *)
(* that may leave one.                                                     *)
LEMMA WriteDefaults ==
  ASSUME NEW r \in Reqs, RowInv, DefaultInv, Write(r)
  PROVE  DefaultInv'
<1> DEFINE k == req[r].conn
<1>0. TypeOK /\ At(r, "write") /\ k \in Conns /\ row' = row
  BY DEF RowInv, TypeInv, TypeOK, Knowing, Knows, Write, At
<1>1. CASE Rollback(r)
  BY <1>0, <1>1, RollbackDefaults
<1>2. CASE ~Rollback(r)
  <2>0. tx' = [tx EXCEPT ![r][k] = Asked(r)] /\ Go(r, "commit")
    BY <1>2 DEF Write
  <2>a. \A q \in Reqs : req'[q].conn = req[q].conn
    BY <1>0, <2>0 DEF Go, TypeOK, Request
  <2>b. /\ \A q \in Reqs \ {r} : tx[q][k] = None
        /\ IsDefault(Asked(r)) => Settled(r) /\ ~Conflict(r)
    BY <1>0, <1>2 DEF Write, Locked
  <2>1. /\ tx' = [tx EXCEPT ![r][k] = Asked(r)] /\ \A q \in Reqs : req'[q].conn = req[q].conn
        /\ \A q \in Reqs \ {r} : tx[q][k] = None
        /\ IsDefault(Asked(r)) => Settled(r) /\ ~Conflict(r)
    BY <2>0, <2>a, <2>b
  <2>2. /\ tx'[r][k] = Asked(r) /\ \A d \in Conns \ {k} : tx'[r][d] = tx[r][d]
        /\ \A q \in Reqs \ {r} : tx'[q] = tx[q]
    BY <1>0, <2>1 DEF TypeOK
  <2>3. AtMostOneDefault' /\ Cleared'
    BY <1>0, <2>1, <2>2 DEF DefaultInv, AtMostOneDefault, Cleared
  <2>4. Chosen'
    <3> SUFFICES ASSUME NEW q \in Reqs, NEW c \in Conns, c = req'[q].conn, IsDefault(tx'[q][c]),
                        NEW d \in Conns \ {c}
                 PROVE  ~IsDefault(View(q, d))' /\ \A p \in Reqs \ {q} : ~IsDefault(tx'[p][d])
      BY DEF Chosen
    <3>1. CASE q = r
      <4>1. c = k /\ IsDefault(Asked(r)) /\ Settled(r) /\ ~Conflict(r)
        BY <2>1, <2>2, <3>1
      <4>2. ~IsDefault(View(r, d))
        BY <4>1 DEF Conflict
      <4>3. View(r, d)' = View(r, d)
        BY <1>0, <2>2, <4>1 DEF View
      <4>4. \A p \in Reqs \ {r} : ~IsDefault(tx[p][d])
        BY <4>1 DEF Settled, IsDefault
      <4> QED BY <2>2, <3>1, <4>2, <4>3, <4>4
    <3>2. CASE q # r
      <4>1. tx'[q] = tx[q] /\ c = req[q].conn /\ IsDefault(tx[q][c])
        BY <2>1, <2>2, <3>2
      <4>2. ~IsDefault(View(q, d)) /\ \A p \in Reqs \ {q} : ~IsDefault(tx[p][d])
        BY <4>1 DEF DefaultInv, Chosen
      <4>3. c # k /\ ~Settled(r)
        BY <2>1, <3>2, <4>1 DEF IsDefault, Settled
      <4>4. ~IsDefault(tx'[r][d])
        BY <2>1, <2>2, <3>2, <4>2, <4>3
      <4> QED BY <1>0, <2>2, <4>1, <4>2, <4>4 DEF View
    <3> QED BY <3>1, <3>2
  <2> QED BY <2>3, <2>4 DEF DefaultInv
<1> QED BY <1>1, <1>2

LEMMA CommitDefaults ==
  ASSUME NEW r \in Reqs, RowInv, DefaultInv, Commit(r)
  PROVE  DefaultInv'
<1> DEFINE k == req[r].conn
<1>0. TypeOK /\ Transactions /\ k \in Conns
  BY DEF RowInv, TypeInv, TypeOK, Knowing, Knows, Commit, At
<1>1. /\ \A c \in Conns : row'[c] = View(r, c) /\ tx'[r][c] = None
      /\ \A q \in Reqs \ {r} : tx'[q] = tx[q] /\ \A c \in Conns : tx[q][c] # None => tx[r][c] = None
      /\ \A q \in Reqs : req'[q].conn = req[q].conn
  BY <1>0 DEF Commit, Clean, Go, TypeOK, Request, Transactions, Written
<1>2. AtMostOneDefault'
  <2> SUFFICES ASSUME NEW c \in Conns, NEW d \in Conns, c # d,
                      IsDefault(View(r, c)), IsDefault(View(r, d))
               PROVE  FALSE
    BY <1>1 DEF AtMostOneDefault
  <2>1. CASE IsDefault(tx[r][k])
    <3>1. \A e \in Conns \ {k} : ~IsDefault(View(r, e))
      BY <1>0, <2>1 DEF DefaultInv, Chosen
    <3> QED BY <3>1
  <2>2. CASE ~IsDefault(tx[r][k])
    <3>1. \A e \in Conns : ~IsDefault(tx[r][e])
      BY <2>2 DEF DefaultInv, Cleared, IsDefault
    <3>2. IsDefault(row[c]) /\ IsDefault(row[d])
      BY <3>1 DEF View
    <3> QED BY <3>2 DEF DefaultInv, AtMostOneDefault
  <2> QED BY <2>1, <2>2
<1>3. Cleared'
  <2> SUFFICES ASSUME NEW q \in Reqs, NEW c \in Conns, tx'[q][c] # None, c # req'[q].conn
               PROVE  IsDefault(row'[c]) /\ ~IsDefault(tx'[q][c])
    BY DEF Cleared
  <2>1. q # r /\ tx'[q] = tx[q] /\ row'[c] = row[c] /\ c # req[q].conn
    BY <1>1 DEF View
  <2> QED BY <2>1 DEF DefaultInv, Cleared
<1>4. Chosen'
  <2> SUFFICES ASSUME NEW q \in Reqs, NEW c \in Conns, c = req'[q].conn, IsDefault(tx'[q][c]),
                      NEW d \in Conns \ {c}
               PROVE  ~IsDefault(View(q, d))' /\ \A p \in Reqs \ {q} : ~IsDefault(tx'[p][d])
    BY DEF Chosen
  <2>1. q # r /\ tx'[q] = tx[q] /\ c = req[q].conn
    BY <1>1 DEF IsDefault
  <2>2. ~IsDefault(View(q, d)) /\ \A p \in Reqs \ {q} : ~IsDefault(tx[p][d])
    BY <2>1 DEF DefaultInv, Chosen
  <2>3. \A p \in Reqs \ {q} : ~IsDefault(tx'[p][d])
    BY <1>1, <2>2 DEF IsDefault
  <2>4. CASE tx[q][d] # None
    BY <2>1, <2>2, <2>3, <2>4 DEF View
  <2>5. CASE tx[q][d] = None
    <3>1. ~IsDefault(row[d]) /\ ~IsDefault(tx[r][d])
      BY <2>1, <2>2, <2>5 DEF View
    <3>2. ~IsDefault(View(r, d)) /\ row'[d] = View(r, d)
      BY <1>1, <3>1 DEF View
    <3> QED BY <2>1, <2>3, <2>5, <3>2 DEF View
  <2> QED BY <2>4, <2>5
<1> QED BY <1>2, <1>3, <1>4 DEF DefaultInv

LEMMA DefaultInit == Init => DefaultInv
<1> SUFFICES ASSUME Init PROVE DefaultInv
  OBVIOUS
<1>1. row = work.rows /\ work \in Workloads /\ \A r \in Reqs, c \in Conns : tx[r][c] = None
  BY DEF Init, Clean
<1> QED BY <1>1, OneDefaultAssumption
        DEF DefaultInv, AtMostOneDefault, Cleared, Chosen, IsDefault

LEMMA DefaultNext == RowInv /\ DefaultInv /\ [Next]_vars => DefaultInv'
<1> SUFFICES ASSUME RowInv, DefaultInv, [Next]_vars PROVE DefaultInv'
  OBVIOUS
<1>0. TypeOK
  BY DEF RowInv, TypeInv
<1>1. ASSUME UNCHANGED <<row, tx, req>> PROVE DefaultInv'
  BY <1>1, QuietDefaults
<1>2. CASE UNCHANGED vars
  BY <1>1, <1>2 DEF vars, rows
<1>3. ASSUME NEW r \in work.reqs, Create(r) \/ Begin(r) \/ Requesting(r) \/ RequestFails(r) PROVE DefaultInv'
  <2>0. r \in Reqs /\ (~At(r, "idle") => req[r].conn \in Conns)
    BY ConnectionsAssumption DEF RowInv, TypeInv, TypeOK, Knowing, Knows
  <2>1. CASE Refused(r) \/ RequestFails(r)
    BY <1>0, <2>0, <2>1, RollbackDefaults DEF Refused, RequestFails
  <2>2. CASE ClearDefaults(r) \/ Write(r) \/ Commit(r)
    BY <2>0, <2>2, ClearDefaultsKept, WriteDefaults, CommitDefaults
  <2>3. CASE ~(Refused(r) \/ RequestFails(r) \/ ClearDefaults(r) \/ Write(r) \/ Commit(r))
    <3>1. /\ req[r].pc \notin {"write", "commit"} /\ tx' = tx
          /\ \A q \in Reqs \ {r} : req'[q] = req[q]
      BY <1>0, <1>3, <2>0, <2>3 DEF TypeOK, Create, Begin, Requesting, Load, ScanDefaults, Reload,
         SetOpening, SetDisconnected, SendCreated, SendUpdated, SendStart, SendFails, SendLogout,
         SendDeleted, Sends, Erase, Tell, TellDeleted, At, Go, Finish, rows
    <3>2. \A q \in Reqs : req'[q].conn = req[q].conn \/ \A c \in Conns : tx[q][c] = None
      BY <2>0, <3>1, NothingWritten
    <3>3. CASE row' = row
      BY <3>1, <3>2, <3>3, QuietDefaults
    <3>4. CASE row' # row
      <4>1. SetOpening(r) \/ SetDisconnected(r) \/ Erase(r)
        BY <1>3, <2>3, <3>4 DEF Create, Begin, Requesting, Load, ScanDefaults,
           Reload, SendCreated, SendUpdated, SendStart, SendFails, SendLogout, SendDeleted, Sends,
           Tell, TellDeleted, rows
      <4>2. CASE SetOpening(r) \/ SetDisconnected(r)
        <5>1. PICK s \in Statuses : WriteStatus(r, req[r].conn, s) /\ At(r, "status")
          BY <4>2 DEF SetOpening, SetDisconnected, Statuses
        <5> QED BY <1>0, <2>0, <3>1, <3>2, <5>1, StatusDefaults DEF At
      <4>3. CASE Erase(r)
        <5>1. /\ req[r].conn \in Conns /\ row' = [row EXCEPT ![req[r].conn] = None]
              /\ \A q \in Reqs \ {r} : tx[q][req[r].conn] = None
          BY <2>0, <4>3 DEF Erase, At, Locked
        <5>2. row'[req[r].conn] = None /\ \A c \in Conns \ {req[r].conn} : row'[c] = row[c]
          BY <1>0, <5>1 DEF TypeOK
        <5>3. \A c \in Conns : tx[r][c] = None
          BY <2>0, <3>1, NothingWritten
        <5>4. \A c \in Conns : IsDefault(row'[c]) => IsDefault(row[c])
          BY <5>2 DEF IsDefault
        <5>5. \A q \in Reqs, c \in Conns : tx[q][c] # None /\ IsDefault(row[c]) => IsDefault(row'[c])
          BY <5>1, <5>2, <5>3
        <5> QED BY <3>1, <3>2, <5>4, <5>5, QuietDefaults
      <4> QED BY <4>1, <4>2, <4>3
    <3> QED BY <3>3, <3>4
  <2> QED BY <2>1, <2>2, <2>3
<1>4. ASSUME NEW e \in Event, Handling(e) \/ HandlerFails(e) PROVE DefaultInv'
  <2>1. CASE HandleStatus(e)
    <3>1. e.conn \in Conns /\ Outcome[e.kind] \in Statuses
      BY DEF Event, Kinds, Outcome, Statuses
    <3>2. WriteStatus(e, e.conn, Outcome[e.kind]) /\ UNCHANGED <<tx, req>>
      BY <2>1 DEF HandleStatus
    <3> QED BY <1>0, <3>1, <3>2, StatusDefaults
  <2>2. CASE ShowRestored(e) \/ ReloadRow(e) \/ TellEvent(e) \/ HandlerFails(e)
    BY <1>1, <2>2 DEF ShowRestored, ReloadRow, TellEvent, HandlerFails, rows
  <2> QED BY <1>4, <2>1, <2>2 DEF Handling
<1>5. ASSUME NEW m \in cmds, Obeying(m) PROVE DefaultInv'
  BY <1>1, <1>5 DEF Obeying, StartSession, StopSession, LogoutSession, ApplySettings, rows
<1>6. ASSUME NEW c \in Conns, WorkerStep(c) \/ StartAll(c) PROVE DefaultInv'
  BY <1>1, <1>6 DEF WorkerStep, Running, Register, PairingEnds, Dial, PairingCode, Reconnected,
                    Evicted, AutoRestore, StartAll, rows
<1>7. CASE WorkerRestart
  BY <1>1, <1>7 DEF WorkerRestart, rows
<1>8. CASE BackendRestart
  <2>1. row' = row /\ \A q \in Reqs, d \in Conns : tx'[q][d] = None
    BY <1>8 DEF BackendRestart, Clean
  <2>2. \A q \in Reqs, d \in Conns : ~IsDefault(tx'[q][d])
    BY <2>1 DEF IsDefault
  <2> QED BY <2>1, <2>2 DEF DefaultInv, AtMostOneDefault, Cleared, Chosen
<1> QED BY <1>2, <1>3, <1>4, <1>5, <1>6, <1>7, <1>8 DEF Next, WorkerStep

(* However many requests compete for it, commit, fail or are lost, at most *)
(* one connection is the default, and never two after each other's commit. *)
THEOREM OneDefault == Spec => []AtMostOneDefault
<1>1. Init => RowInv /\ DefaultInv
  BY RowInit, DefaultInit
<1>2. RowInv /\ DefaultInv /\ [Next]_vars => (RowInv /\ DefaultInv)'
  BY RowNext, DefaultNext
<1>3. DefaultInv => AtMostOneDefault
  BY DEF DefaultInv
<1> QED BY <1>1, <1>2, <1>3, PTL DEF Spec

(* Of the transactions that hold rows at most one has not written its own: *)
(* it took the default from the row that had it, which is one.             *)
LEMMA OneClears ==
  ASSUME RowInv, DefaultInv, NEW r \in Reqs, NEW q \in Reqs, Holds(r), Holds(q),
         ~At(r, "commit"), ~At(q, "commit")
  PROVE  r = q
<1>1. PICK c \in Conns : tx[r][c] # None
  BY DEF Holds
<1>2. PICK d \in Conns : tx[q][d] # None
  BY DEF Holds
<1>3. c # req[r].conn /\ d # req[q].conn
  BY <1>1, <1>2 DEF RowInv, Transactions, Written, Own
<1>4. IsDefault(row[c]) /\ IsDefault(row[d])
  BY <1>1, <1>2, <1>3 DEF DefaultInv, Cleared
<1>5. c = d
  BY <1>4 DEF DefaultInv, AtMostOneDefault
<1> QED BY <1>1, <1>2, <1>5 DEF RowInv, Transactions, Written

LEMMA SomebodyGoesOn == RowInv /\ DefaultInv => NoRequestDeadlock
<1> SUFFICES ASSUME RowInv, DefaultInv, NEW c \in Conns, Locked(c, None)
             PROVE  \E r \in Reqs : Holds(r) /\ ~Waits(r)
  BY DEF NoRequestDeadlock
<1>1. PICK r \in Reqs : tx[r][c] # None
  BY DEF Locked
<1>2. Holds(r)
  BY <1>1 DEF Holds
<1>3. \A q \in Reqs : Holds(q) => req[q].pc \in {"write", "commit"}
  BY NothingWritten DEF Holds
<1>4. CASE \E q \in Reqs : Holds(q) /\ At(q, "commit")
  BY <1>4 DEF Waits, At
<1>5. CASE ~\E q \in Reqs : Holds(q) /\ At(q, "commit")
  <2>1. \A q \in Reqs \ {r} : ~Holds(q)
    BY <1>2, <1>5, OneClears
  <2>2. req[r].conn \in Conns /\ At(r, "write")
    BY <1>2, <1>3, <1>5 DEF At, RowInv, TypeInv, TypeOK, Knowing, Knows
  <2>3. \A q \in Reqs \ {r}, d \in Conns : tx[q][d] = None
    BY <2>1 DEF Holds
  <2>4. ~Locked(req[r].conn, r) /\ Settled(r)
    BY <2>2, <2>3 DEF Locked, Settled
  <2> QED BY <1>2, <2>2, <2>4 DEF Waits, At
<1> QED BY <1>4, <1>5

(* Requests that create, change, make default and delete connections at    *)
(* the same time never wait for each other in a circle, for any number of  *)
(* them: whenever a row is held, some transaction that holds rows can go   *)
(* on, to its next write or to its commit.                                 *)
THEOREM RequestsGoOn == Spec => []NoRequestDeadlock
<1>1. Init => RowInv /\ DefaultInv
  BY RowInit, DefaultInit
<1>2. RowInv /\ DefaultInv /\ [Next]_vars => (RowInv /\ DefaultInv)'
  BY RowNext, DefaultNext
<1> QED BY <1>1, <1>2, SomebodyGoesOn, PTL DEF Spec
-----------------------------------------------------------------------------
(* Who tells a status.                                                     *)

(* A step of request r leaves a status in the hands it is in, unless they  *)
(* are its own.                                                            *)
LEMMA HeldByOthers ==
  ASSUME NEW r \in Reqs, NEW c \in Conns, Held(c), \A q \in Reqs \ {r} : req'[q] = req[q],
         events \subseteq events', \A p \in fresh \ {r} : On(p) = c => p \in fresh',
         events \subseteq Event,
         r \in fresh /\ req[r].conn = c /\ Carries(r) => Held(c)'
  PROVE  Held(c)'
<1>1. ASSUME NEW q \in Reqs, q \in fresh, req[q].conn = c, Carries(q) PROVE Held(c)'
  <2>1. CASE q = r
    BY <1>1, <2>1
  <2>2. CASE q # r
    <3>1. req'[q] = req[q] /\ On(q) = c
      BY <1>1, <2>2 DEF On
    <3>2. q \in fresh' /\ Carries(q)'
      BY <1>1, <2>2, <3>1 DEF Carries, At
    <3> QED BY <1>1, <3>1, <3>2 DEF Held
  <2> QED BY <2>1, <2>2
<1>2. ASSUME NEW e \in events, e \in fresh, e.conn = c PROVE Held(c)'
  <2>1. e \notin Reqs
    BY ConnectionsApart
  <2>2. On(e) = c /\ e # r
    BY <1>2, <2>1 DEF On
  <2>3. e \in fresh' /\ e \in events'
    BY <1>2, <2>2
  <2> QED BY <1>2, <2>3 DEF Held
<1> QED BY <1>1, <1>2 DEF Held

LEMMA HeldByOtherEvents ==
  ASSUME NEW e \in Event, NEW c \in Conns, Held(c), req' = req,
         events \ {e} \subseteq events', \A p \in fresh \ {e} : On(p) = c => p \in fresh',
         events \subseteq Event,
         e \in fresh /\ e \in events /\ e.conn = c => Held(c)'
  PROVE  Held(c)'
<1>0. e \notin Reqs
  BY ConnectionsApart
<1>1. ASSUME NEW q \in Reqs, q \in fresh, req[q].conn = c, Carries(q) PROVE Held(c)'
  <2>1. On(q) = c /\ q # e
    BY <1>0, <1>1 DEF On
  <2>2. q \in fresh' /\ Carries(q)'
    BY <1>1, <2>1 DEF Carries, At
  <2> QED BY <1>1, <2>2 DEF Held
<1>2. ASSUME NEW d \in events, d \in fresh, d.conn = c PROVE Held(c)'
  <2>1. CASE d = e
    BY <1>2, <2>1
  <2>2. CASE d # e
    <3>1. d \notin Reqs
      BY ConnectionsApart
    <3>2. On(d) = c
      BY <1>2, <3>1 DEF On
    <3> QED BY <1>2, <2>2, <3>2 DEF Held
  <2> QED BY <2>1, <2>2
<1> QED BY <1>1, <1>2 DEF Held

(* What WriteStatus does to the copies.                                    *)
LEMMA StatusFresh ==
  ASSUME NEW p \in Reqs \cup Event, NEW c \in Conns, NEW s \in Statuses, TypeOK, WriteStatus(p, c, s)
  PROVE  /\ \A d \in Conns \ {c} : row'[d] = row[d]
         /\ \A q \in fresh : On(q) # c => q \in fresh'
         /\ \A q \in fresh' : q = p \/ (q \in fresh /\ (On(q) # c \/ row[c] = None))
         /\ \A d \in untold' : d = c \/ d \in untold
         /\ \A d \in failed : d = c \/ d \in failed'
         /\ \/ row[c] = None /\ row'[c] = None
            \/ row[c] # None /\ row'[c].status = s /\ p \in fresh'
<1>1. CASE row[c] = None
  BY <1>1 DEF WriteStatus, telling
<1>2. CASE row[c] # None
  <2>1. row[c] \in Row /\ row' = [row EXCEPT ![c].status = s] /\ Changed(p, c)
    BY <1>2 DEF WriteStatus, TypeOK
  <2>2. /\ row'[c] = [row[c] EXCEPT !.status = s]
        /\ \A d \in Conns \ {c} : row'[d] = row[d]
    BY <2>1 DEF TypeOK
  <2>3. row'[c].status = s
    BY <2>1, <2>2 DEF Row
  <2> QED BY <1>2, <2>1, <2>2, <2>3 DEF Changed
<1> QED BY <1>1, <1>2

(* A step of no handler keeps the events in hand.                          *)
LEMMA InHandKept ==
  ASSUME InHand, out' = out, events \subseteq events'
  PROVE  InHand'
BY DEF InHand

LEMMA LastWritesKept ==
  ASSUME LastWrites, TypeOK, out' = out,
         \A e \in Event : e \in fresh' => e \in fresh,
         \A e \in Event : e \in fresh' /\ row'[e.conn] # None =>
            row[e.conn] # None /\ row'[e.conn].status = row[e.conn].status
  PROVE  LastWrites'
BY DEF LastWrites
(* A request writes a status.                                              *)
LEMMA RequestWrites ==
  ASSUME NEW r \in Reqs, TypeOK, TellInv, SetOpening(r) \/ SetDisconnected(r), req[r].conn \in Conns
  PROVE  TellInv'
<1> DEFINE k == req[r].conn
<1>0. InHand /\ LastWrites /\ StatusIsTold
  BY DEF TellInv
<1>1. PICK s \in Statuses :
        /\ WriteStatus(r, k, s) /\ At(r, "status")
        /\ \/ req[r].op = "start" /\ Go(r, "command")
           \/ Go(r, "tell")
        /\ UNCHANGED <<events, out, work>>
  BY DEF SetOpening, SetDisconnected, Statuses, env
<1>2. /\ \A q \in Reqs \ {r} : req'[q] = req[q]
      /\ req'[r].conn = k /\ Carries(r)' /\ ~Carries(r)
  BY <1>1 DEF Go, TypeOK, Request, Carries, At
<1>3. /\ \A d \in Conns \ {k} : row'[d] = row[d]
      /\ \A q \in fresh : On(q) # k => q \in fresh'
      /\ \A q \in fresh' : q = r \/ (q \in fresh /\ (On(q) # k \/ row[k] = None))
      /\ \A d \in untold' : d = k \/ d \in untold
      /\ \A d \in failed : d = k \/ d \in failed'
      /\ \/ row[k] = None /\ row'[k] = None
         \/ row[k] # None /\ row'[k].status = s /\ r \in fresh'
  BY <1>1, StatusFresh
<1>4. InHand'
  BY <1>0, <1>1, InHandKept
<1>5. LastWrites'
  <2>1. \A e \in Event : e # r /\ e \notin Reqs /\ On(e) = e.conn /\ e.conn \in Conns
    BY ConnectionsApart DEF On, Event
  <2>2. \A e \in Event : e \in fresh' => e \in fresh /\ (e.conn # k \/ row'[k] = None)
    BY <1>3, <2>1
  <2>3. \A e \in Event : e \in fresh' /\ row'[e.conn] # None => row'[e.conn] = row[e.conn]
    BY <1>3, <2>1, <2>2
  <2> QED BY <1>0, <1>1, <2>2, <2>3, LastWritesKept
<1>6. StatusIsTold'
  <2> SUFFICES ASSUME NEW c \in untold', row'[c] # None, c \notin failed' PROVE Held(c)'
    BY DEF StatusIsTold
  <2>1. c \in Conns
    BY <1>3 DEF TypeOK
  <2>2. CASE c = k
    BY <1>2, <1>3, <2>2 DEF Held
  <2>3. CASE c # k
    <3>1. c \in untold /\ row[c] # None /\ c \notin failed
      BY <1>3, <2>1, <2>3
    <3>2. Held(c)
      BY <1>0, <3>1 DEF StatusIsTold
    <3> QED BY <1>1, <1>2, <1>3, <2>1, <2>3, <3>2, HeldByOthers DEF TypeOK
  <2> QED BY <2>2, <2>3
<1> QED BY <1>4, <1>5, <1>6 DEF TellInv

(* A request commits.                                                      *)
LEMMA RequestCommits ==
  ASSUME NEW r \in Reqs, RowInv, TellInv, Commit(r)
  PROVE  TellInv'
<1> DEFINE k == req[r].conn
<1>0. /\ InHand /\ LastWrites /\ StatusIsTold /\ TypeOK /\ Transactions
      /\ At(r, "commit") /\ k \in Conns /\ req[r].op \in {"create", "update"}
      /\ UNCHANGED <<events, out, work>>
  BY DEF TellInv, RowInv, TypeInv, TypeOK, Knowing, Knows, Commit, At, InTx, env
<1>1. \A d \in Conns : row'[d] = IF tx[r][d] # None THEN tx[r][d] ELSE row[d]
  BY DEF Commit, View
<1>2. /\ \A q \in Reqs \ {r} : req'[q] = req[q]
      /\ req'[r].conn = k /\ req'[r].op = req[r].op /\ req'[r].pc = "reload" /\ ~Carries(r)
  BY <1>0 DEF Commit, Go, TypeOK, Request, Carries, At
<1>3. \A d \in Conns : row'[d] # None /\ (d # k \/ req[r].op = "update") =>
        row[d] # None /\ row'[d].status = row[d].status
  BY <1>0, <1>1 DEF Transactions, Written
<1>4. IF req[r].op = "create"
        THEN fresh' = {q \in fresh : On(q) # k} \cup {r} /\ untold' = untold \cup {k} /\ failed' = failed \ {k}
        ELSE UNCHANGED <<fresh, untold, failed>>
  BY DEF Commit, Changed, telling
<1>5. InHand'
  BY <1>0, InHandKept
<1>6. LastWrites'
  <2>1. \A e \in Event : e # r /\ e \notin Reqs /\ On(e) = e.conn /\ e.conn \in Conns
    BY ConnectionsApart DEF On, Event
  <2>2. \A e \in Event : e \in fresh' => e \in fresh /\ (e.conn # k \/ req[r].op = "update")
    BY <1>0, <1>4, <2>1
  <2>3. \A e \in Event : e \in fresh' /\ row'[e.conn] # None =>
          row[e.conn] # None /\ row'[e.conn].status = row[e.conn].status
    BY <1>3, <2>1, <2>2
  <2> QED BY <1>0, <2>2, <2>3, LastWritesKept
<1>7. StatusIsTold'
  <2> SUFFICES ASSUME NEW c \in untold', row'[c] # None, c \notin failed' PROVE Held(c)'
    BY DEF StatusIsTold
  <2>1. c \in Conns
    BY <1>0, <1>4 DEF TypeOK
  <2>2. CASE c = k /\ req[r].op = "create"
    <3>1. r \in fresh' /\ Carries(r)'
      BY <1>2, <1>4, <2>2 DEF Carries, At
    <3> QED BY <1>2, <2>2, <3>1 DEF Held
  <2>3. CASE c # k \/ req[r].op = "update"
    <3>1. c \in untold /\ row[c] # None /\ c \notin failed
      BY <1>0, <1>3, <1>4, <2>1, <2>3
    <3>2. Held(c)
      BY <1>0, <3>1 DEF StatusIsTold
    <3>3. \A p \in fresh \ {r} : On(p) = c => p \in fresh'
      BY <1>0, <1>4, <2>3
    <3> QED BY <1>0, <1>2, <2>1, <3>2, <3>3, HeldByOthers DEF TypeOK
  <2> QED BY <1>0, <2>2, <2>3
<1> QED BY <1>5, <1>6, <1>7 DEF TellInv

(* Any other step of a request: rows are at most erased, and the request   *)
(* keeps what it holds, or has broadcast it.                               *)
LEMMA RequestKeeps ==
  ASSUME NEW r \in Reqs, TypeOK, TellInv, UNCHANGED <<events, out, work>>,
         \A q \in Reqs \ {r} : req'[q] = req[q],
         \A d \in Conns : row'[d] \in {row[d], None},
         \A p \in fresh \ {r} : p \in fresh', fresh' \subseteq fresh \cup {r},
         untold' \subseteq untold, failed \subseteq failed',
         \A c \in untold' \ failed' :
           r \in fresh /\ req[r].conn = c /\ Carries(r) /\ row'[c] # None => Held(c)'
  PROVE  TellInv'
<1>0. InHand /\ LastWrites /\ StatusIsTold
  BY DEF TellInv
<1>1. InHand'
  BY <1>0, InHandKept
<1>2. LastWrites'
  <2>1. \A e \in Event : e # r /\ e.conn \in Conns
    BY ConnectionsApart DEF Event
  <2>2. \A e \in Event : e \in fresh' => e \in fresh
    BY <2>1
  <2>3. \A e \in Event : e \in fresh' /\ row'[e.conn] # None =>
          row[e.conn] # None /\ row'[e.conn].status = row[e.conn].status
    BY <2>1
  <2> QED BY <1>0, <2>2, <2>3, LastWritesKept
<1>3. StatusIsTold'
  <2> SUFFICES ASSUME NEW c \in untold', row'[c] # None, c \notin failed' PROVE Held(c)'
    BY DEF StatusIsTold
  <2>1. c \in Conns /\ c \in untold /\ row[c] # None /\ c \notin failed
    BY DEF TypeOK
  <2>2. Held(c)
    BY <1>0, <2>1 DEF StatusIsTold
  <2> QED BY <2>1, <2>2, HeldByOthers DEF TypeOK
<1> QED BY <1>1, <1>2, <1>3 DEF TellInv

LEMMA RequestTells ==
  ASSUME NEW r \in Reqs, r \in work.reqs, RowInv, TellInv, Create(r) \/ Begin(r) \/ Requesting(r) \/ RequestFails(r)
  PROVE  TellInv'
<1> DEFINE k == req[r].conn
<1>0. /\ TypeOK /\ req[r] \in Request
      /\ (~At(r, "idle") => Knows(r) /\ k \in Conns)
  BY DEF RowInv, TypeInv, TypeOK, Knowing, Knows
<1>1. CASE SetOpening(r) \/ SetDisconnected(r)
  <2>1. At(r, "status")
    BY <1>1 DEF SetOpening, SetDisconnected
  <2> QED BY <1>0, <1>1, <2>1, RequestWrites DEF At
<1>2. CASE Commit(r)
  BY <1>2, RequestCommits
<1>3. CASE Create(r) \/ Begin(r) \/ Load(r) \/ ScanDefaults(r) \/ ClearDefaults(r) \/ Write(r) \/ Refused(r)
  <2>1. UNCHANGED <<row, fresh, untold, failed, events, out, work>>
    BY <1>3 DEF Create, Begin, Load, ScanDefaults, ClearDefaults, Write, Refused, rows, telling, env
  <2>2. req[r].pc \in {"idle", "load", "scan", "clear", "write", "commit"}
    BY <1>3 DEF Create, Begin, Load, ScanDefaults, ClearDefaults, Write, Refused, At
  <2>3. ~Carries(r)
    BY <2>2 DEF Carries, At
  <2>4. \A q \in Reqs \ {r} : req'[q] = req[q]
    BY <1>0, <1>3 DEF Create, Begin, Load, ScanDefaults, ClearDefaults, Write, Refused, Rollback,
                      Finish, Go, TypeOK
  <2> QED BY <1>0, <2>1, <2>3, <2>4, RequestKeeps
<1>4. CASE Reload(r)
  <2>1. UNCHANGED <<row, untold, failed, events, out, work>> /\ At(r, "reload") /\ k \in Conns
    BY <1>0, <1>4 DEF Reload, rows, env, At
  <2>2. \A q \in Reqs \ {r} : req'[q] = req[q]
    BY <1>0, <1>4 DEF Reload, Finish, TypeOK
  <2>3. /\ \A p \in fresh \ {r} : p \in fresh'
        /\ fresh' \subseteq fresh \cup {r} /\ (row[k] # None => r \in fresh')
    BY <1>4 DEF Reload
  <2>4. ASSUME NEW c \in untold', r \in fresh, k = c, Carries(r), row'[c] # None PROVE Held(c)'
    <3>0. req[r].op = "create" /\ row[k] # None
      BY <2>1, <2>4 DEF Carries, At
    <3> DEFINE new == [req[r] EXCEPT !.pc = "command", !.copy = row[k].set]
    <3>1. req' = [req EXCEPT ![r] = new]
      BY <1>4, <3>0 DEF Reload
    <3>2. new.pc = "command" /\ new.op = "create" /\ new.conn = k
      BY <1>0, <3>0 DEF Request
    <3> HIDE DEF new
    <3>3. req'[r] = new
      BY <1>0, <3>1 DEF TypeOK
    <3>4. r \in fresh' /\ Carries(r)' /\ req'[r].conn = c
      BY <3>0, <2>3, <2>4, <3>2, <3>3 DEF Carries, At
    <3> QED BY <3>4 DEF Held
  <2>5. \A c \in untold' \ failed' :
          r \in fresh /\ req[r].conn = c /\ Carries(r) /\ row'[c] # None => Held(c)'
    BY <2>4
  <2>6. \A d \in Conns : row'[d] \in {row[d], None}
    BY <2>1
  <2> QED BY <1>0, <2>1, <2>2, <2>3, <2>5, <2>6, RequestKeeps
<1>5. CASE SendCreated(r) \/ SendUpdated(r) \/ SendStart(r)
  <2>1. UNCHANGED <<row, fresh, untold, failed, events, out, work>> /\ Go(r, "tell")
    BY <1>5 DEF SendCreated, SendUpdated, SendStart, Sends, rows, telling, env
  <2>2. /\ \A q \in Reqs \ {r} : req'[q] = req[q]
        /\ req'[r].pc = "tell" /\ req'[r].conn = k
    BY <1>0, <2>1 DEF Go, TypeOK, Request
  <2>3. r \in fresh => Held(k)'
    BY <2>1, <2>2 DEF Held, Carries, At
  <2> QED BY <1>0, <2>1, <2>2, <2>3, RequestKeeps
<1>6. CASE SendFails(r) \/ RequestFails(r)
  <2>1. UNCHANGED <<row, untold, events, out, work>> /\ Finish(r) /\ Abandon(r)
    BY <1>6 DEF SendFails, RequestFails, Rollback, Abandon, rows, env
  <2>2. \A q \in Reqs \ {r} : req'[q] = req[q]
    BY <1>0, <2>1 DEF Finish, TypeOK
  <2>3. /\ fresh' = fresh \ {r} /\ failed \subseteq failed'
        /\ (r \in fresh => k \in failed')
    BY <2>1 DEF Abandon
  <2> QED BY <1>0, <2>1, <2>2, <2>3, RequestKeeps
<1>7. CASE SendLogout(r) \/ SendDeleted(r) \/ Erase(r)
  <2>1. UNCHANGED <<fresh, untold, failed, events, out, work>> /\ ~At(r, "idle")
    BY <1>7 DEF SendLogout, SendDeleted, Sends, Erase, telling, env, At
  <2>2. \A q \in Reqs \ {r} : req'[q] = req[q]
    BY <1>0, <1>7 DEF SendLogout, SendDeleted, Sends, Erase, Finish, Go, TypeOK
  <2>3. ~Carries(r)
    BY <1>7 DEF SendLogout, SendDeleted, Sends, Erase, Carries, At
  <2>4. \A d \in Conns : row'[d] \in {row[d], None}
    BY <1>0, <1>7, <2>1 DEF SendLogout, SendDeleted, Sends, Erase, rows, TypeOK
  <2> QED BY <1>0, <2>1, <2>2, <2>3, <2>4, RequestKeeps
<1>8. CASE Tell(r) \/ TellDeleted(r)
  <2>1. UNCHANGED <<row, failed, events, out, work>> /\ Finish(r) /\ fresh' = fresh \ {r}
    BY <1>8 DEF Tell, TellDeleted, rows, env
  <2>2. \A q \in Reqs \ {r} : req'[q] = req[q]
    BY <1>0, <2>1 DEF Finish, TypeOK
  <2>3. untold' \subseteq untold /\ (r \in fresh => k \notin untold')
    BY <1>8 DEF Tell, TellDeleted, Broadcast
  <2> QED BY <1>0, <2>1, <2>2, <2>3, RequestKeeps
<1> QED BY <1>1, <1>2, <1>3, <1>4, <1>5, <1>6, <1>7, <1>8 DEF Requesting
(* A step of a handler.                                                    *)
LEMMA HandlerTells ==
  ASSUME NEW e \in Event, RowInv, TellInv, Handling(e) \/ HandlerFails(e)
  PROVE  TellInv'
<1> DEFINE k == e.conn
<1>0. /\ TypeOK /\ InHand /\ LastWrites /\ StatusIsTold /\ k \in Conns /\ e \notin Reqs /\ On(e) = k
      /\ events \subseteq Event /\ out \in [Event -> {"idle", "shown", "wrote", "loaded"}]
  BY ConnectionsApart DEF RowInv, TypeInv, TellInv, TypeOK, On, Event
<1>1. \A d \in Event : d \notin Reqs /\ On(d) = d.conn /\ d.conn \in Conns
  BY ConnectionsApart DEF On, Event
<1>2. UNCHANGED <<req, work>>
  BY DEF Handling, HandlerFails, ShowRestored, HandleStatus, ReloadRow, TellEvent, env
<1>3. /\ \A d \in Event \ {e} : out'[d] = out[d]
      /\ events \ {e} \subseteq events' /\ e \in events
      /\ out'[e] # "idle" => e \in events'
  BY <1>0 DEF Handling, HandlerFails, ShowRestored, HandleStatus, ReloadRow, TellEvent, Delivered,
              Done, Move, InHand
<1>4. InHand'
  BY <1>0, <1>3 DEF InHand
(* The handler writes.                                                     *)
<1>5. CASE HandleStatus(e)
  <2>1. /\ WriteStatus(e, k, Outcome[e.kind]) /\ events' = events /\ out[e] # "loaded"
        /\ out'[e] = "wrote"
    BY <1>0, <1>5 DEF HandleStatus, Delivered, Move
  <2>2. Outcome[e.kind] \in Statuses
    BY DEF Event, Kinds, Outcome, Statuses
  <2>3. /\ \A d \in Conns \ {k} : row'[d] = row[d]
        /\ \A q \in fresh : On(q) # k => q \in fresh'
        /\ \A q \in fresh' : q = e \/ (q \in fresh /\ (On(q) # k \/ row[k] = None))
        /\ \A d \in untold' : d = k \/ d \in untold
        /\ \A d \in failed : d = k \/ d \in failed'
        /\ \/ row[k] = None /\ row'[k] = None
           \/ row[k] # None /\ row'[k].status = Outcome[e.kind] /\ e \in fresh'
    BY <1>0, <2>1, <2>2, StatusFresh
  <2>4. LastWrites'
    <3> SUFFICES ASSUME NEW d \in Event, d \in fresh', out'[d] # "loaded", row'[d.conn] # None
                 PROVE  row'[d.conn].status = Outcome[d.kind]
      BY DEF LastWrites
    <3>1. CASE d = e
      BY <2>3, <3>1
    <3>2. CASE d # e
      <4>1. d \in fresh /\ out[d] # "loaded" /\ (d.conn # k \/ row[k] = None)
        BY <1>1, <1>3, <2>3, <3>2
      <4>2. row'[d.conn] = row[d.conn]
        BY <1>1, <2>3, <4>1
      <4> QED BY <1>0, <4>1, <4>2 DEF LastWrites
    <3> QED BY <3>1, <3>2
  <2>5. StatusIsTold'
    <3> SUFFICES ASSUME NEW c \in untold', row'[c] # None, c \notin failed' PROVE Held(c)'
      BY DEF StatusIsTold
    <3>1. c \in Conns
      BY <1>0, <2>3 DEF TypeOK
    <3>2. CASE c = k
      BY <1>3, <2>1, <2>3, <3>2 DEF Held
    <3>3. CASE c # k
      <4>1. c \in untold /\ row[c] # None /\ c \notin failed
        BY <2>3, <3>1, <3>3
      <4>2. Held(c)
        BY <1>0, <4>1 DEF StatusIsTold
      <4> QED BY <1>0, <1>2, <2>1, <2>3, <3>1, <3>3, <4>2, HeldByOtherEvents
    <3> QED BY <3>2, <3>3
  <2> QED BY <1>4, <2>4, <2>5 DEF TellInv
(* The handler reads, fails or tells: the rows stay.                       *)
<1>6. ASSUME row' = row, untold' \subseteq untold, failed' = failed,
             \A p \in fresh \ {e} : p \in fresh', fresh' \subseteq fresh \cup {e},
             e \in fresh' /\ out'[e] # "loaded" /\ row[k] # None => e \in fresh /\ out[e] # "loaded",
             \A c \in untold' : e \in fresh /\ c = k /\ row[c] # None => e \in fresh' /\ e \in events'
      PROVE  TellInv'
  <2>1. LastWrites'
    <3> SUFFICES ASSUME NEW d \in Event, d \in fresh', out'[d] # "loaded", row'[d.conn] # None
                 PROVE  row'[d.conn].status = Outcome[d.kind]
      BY DEF LastWrites
    <3>1. d \in fresh /\ out[d] # "loaded"
      BY <1>3, <1>6
    <3> QED BY <1>0, <1>6, <3>1 DEF LastWrites
  <2>2. StatusIsTold'
    <3> SUFFICES ASSUME NEW c \in untold', row'[c] # None, c \notin failed' PROVE Held(c)'
      BY DEF StatusIsTold
    <3>1. c \in Conns /\ c \in untold /\ row[c] # None /\ c \notin failed
      BY <1>0, <1>6 DEF TypeOK
    <3>2. Held(c)
      BY <1>0, <3>1 DEF StatusIsTold
    <3>3. e \in fresh /\ e.conn = c => Held(c)'
      BY <1>6, <3>1 DEF Held
    <3> QED BY <1>0, <1>2, <1>3, <1>6, <3>1, <3>2, <3>3, HeldByOtherEvents
  <2> QED BY <1>4, <2>1, <2>2 DEF TellInv
<1>7. CASE ShowRestored(e)
  <2>1. UNCHANGED <<row, fresh, untold, failed>> /\ out[e] = "idle" /\ e.kind = "restored" /\ row[k] # None
    BY <1>7 DEF ShowRestored, Delivered, rows, telling
  <2>2. e \in fresh => row[k].status = "OPENING"
    BY <1>0, <2>1 DEF LastWrites, Outcome
  <2>3. e \in fresh => e \in events'
    BY <1>3, <1>7, <2>2 DEF ShowRestored
  <2> QED BY <1>6, <2>1, <2>3
<1>8. CASE ReloadRow(e)
  <2>1. UNCHANGED <<row, untold, failed>> /\ out[e] = "wrote"
    BY <1>8 DEF ReloadRow, rows
  <2>2. CASE row[k] = None
    BY <1>6, <1>8, <2>1, <2>2 DEF ReloadRow
  <2>3. CASE row[k] # None
    <3>1. out'[e] = "loaded" /\ fresh' = fresh \cup {e} /\ events' = events
      BY <1>0, <1>8, <2>3 DEF ReloadRow, Move
    <3> QED BY <1>3, <1>6, <2>1, <3>1
  <2> QED BY <2>2, <2>3
<1>9. CASE TellEvent(e)
  <2>1. row' = row /\ failed' = failed /\ fresh' = fresh \ {e} /\ untold' \subseteq untold /\ (e \in fresh => k \notin untold')
    BY <1>9 DEF TellEvent, Broadcast, rows
  <2> QED BY <1>6, <2>1
<1>10. CASE HandlerFails(e)
  <2>1. UNCHANGED <<row, fresh, untold, failed, events>> /\ out[e] = "wrote"
    BY <1>10 DEF HandlerFails, rows, telling
  <2> QED BY <1>3, <1>6, <2>1
<1> QED BY <1>5, <1>7, <1>8, <1>9, <1>10 DEF Handling

(* What neither requests nor handlers do.                                  *)
LEMMA OthersTell ==
  ASSUME TypeOK, TellInv, UNCHANGED <<row, req, out, fresh, untold, failed, work>>, events \subseteq events'
  PROVE  TellInv'
<1>1. InHand' /\ LastWrites'
  BY InHandKept, LastWritesKept DEF TellInv
<1>2. ASSUME NEW c \in Conns, Held(c) PROVE Held(c)'
  BY <1>2 DEF Held, Carries, At
<1>3. StatusIsTold'
  BY <1>2 DEF TellInv, StatusIsTold, May, TypeOK
<1> QED BY <1>1, <1>3 DEF TellInv

LEMMA TellInit == Init => TellInv
BY DEF Init, TellInv, InHand, LastWrites, StatusIsTold

LEMMA TellNext == RowInv /\ TellInv /\ [Next]_vars => TellInv'
<1> SUFFICES ASSUME RowInv, TellInv, [Next]_vars PROVE TellInv'
  OBVIOUS
<1>0. TypeOK
  BY DEF RowInv, TypeInv
<1>1. CASE UNCHANGED vars
  BY <1>0, <1>1, OthersTell DEF vars, rows, telling, env
<1>2. ASSUME NEW r \in work.reqs, Create(r) \/ Begin(r) \/ Requesting(r) \/ RequestFails(r) PROVE TellInv'
  <2>1. r \in Reqs
    BY <1>0, ConnectionsAssumption DEF TypeOK
  <2> QED BY <1>2, <2>1, RequestTells
<1>3. ASSUME NEW e \in Event, Handling(e) \/ HandlerFails(e) PROVE TellInv'
  BY <1>3, HandlerTells
<1>4. ASSUME NEW m \in cmds, Obeying(m) PROVE TellInv'
  <2>1. UNCHANGED <<row, req, out, fresh, untold, failed, work>>
    BY <1>4 DEF Obeying, StartSession, StopSession, LogoutSession, ApplySettings, rows, telling, env
  <2>2. events \subseteq events'
    BY <1>4 DEF Obeying, StartSession, StopSession, LogoutSession, ApplySettings
  <2> QED BY <1>0, <2>1, <2>2, OthersTell
<1>5. ASSUME NEW c \in Conns, WorkerStep(c) \/ StartAll(c) PROVE TellInv'
  <2>1. UNCHANGED <<row, req, out, fresh, untold, failed, work>>
    BY <1>5 DEF WorkerStep, Running, Register, PairingEnds, Dial, PairingCode, Reconnected,
                Evicted, AutoRestore, StartAll, rows, telling, env
  <2>2. events \subseteq events'
    <3>1. CASE PairingEnds(c) \/ Dial(c)
      <4>1. \/ \E K \in SUBSET Kinds : Connects(c, K)
            \/ \E K \in SUBSET Kinds : Emit(K, c)
        BY <3>1 DEF PairingEnds, Dial, Kinds
      <4> QED BY <1>0, <4>1, ConnectsType DEF Emit
    <3>2. CASE ~(PairingEnds(c) \/ Dial(c))
      BY <1>5, <3>2 DEF WorkerStep, Running, Register, PairingCode, Reconnected,
                        Evicted, AutoRestore, StartAll, Emit
    <3> QED BY <3>1, <3>2
  <2> QED BY <1>0, <2>1, <2>2, OthersTell
<1>6. CASE WorkerRestart
  BY <1>0, <1>6, OthersTell DEF WorkerRestart, rows, telling
<1>7. CASE BackendRestart
  BY <1>7 DEF BackendRestart, TellInv, InHand, LastWrites, StatusIsTold
<1> QED BY <1>1, <1>2, <1>3, <1>4, <1>5, <1>6, <1>7 DEF Next, WorkerStep

(* However requests, handlers, failures and restarts cross, a status that  *)
(* was written and not broadcast since is in the hands of a request that   *)
(* has its broadcast ahead, or of an event that comes again, unless the    *)
(* request that wrote it ended with an error.                              *)
THEOREM StatusesAreTold == Spec => []StatusIsTold
<1>1. TellInv => StatusIsTold
  BY DEF TellInv
<1> QED BY <1>1, RowInit, RowNext, TellInit, TellNext, PTL DEF Spec
=============================================================================
