------------------------------ MODULE Sessions ------------------------------
(***************************************************************************)
(* The session manager of the worker: one goroutine and one WhatsApp       *)
(* client per started connection, three maps keyed by the connection and   *)
(* guarded by a mutex, the commands that start, stop and log out, the      *)
(* events of the client, and the shutdown of the process.                  *)
(*                                                                         *)
(* A step is what runs between two acquisitions of the mutex.  Goroutines  *)
(* clean up by connection id, so they may meet the entries of a successor. *)
(*                                                                         *)
(* Taking an event handler off a client waits for the handler's running    *)
(* calls (whatsmeow holds a lock of the client around both), and a running *)
(* call asks for the mutex.  Only Manager.Set waits while it holds the     *)
(* mutex, so `mutex' names the goroutine that does; everybody else keeps   *)
(* the mutex for the length of one step, which it takes when it is free.   *)
(***************************************************************************)
EXTENDS Integers, FiniteSets

CONSTANTS
  Conns,     (* connection ids                                              *)
  Gos,       (* session goroutines; each owns a client, a context and, when *)
             (* it is the first to register, a kill channel                 *)
  Handlers,  (* command handlers that run concurrently                      *)
  Inputs,    (* what the workload holds besides session.start               *)
  None

ASSUME SessionsAssumption ==
  None \notin Conns \cup Gos \cup Handlers /\ IsFiniteSet(Conns) /\ IsFiniteSet(Gos)

VARIABLES
  sessions,    (* connection -> goroutine whose session is registered       *)
  kills,       (* connection -> goroutine that made its kill channel        *)
  connecting,  (* connections that are being started                        *)
  closed,      (* kill channels that were closed, by the goroutine          *)
  cancelled,   (* goroutines whose session context is cancelled             *)
  client,      (* goroutine -> link of its client                           *)
  attached,    (* goroutines whose event handler is attached to the client  *)
  evicted,     (* goroutines whose event handler is publishing an eviction  *)
  receiving,   (* goroutines whose event handler is looking the session up  *)
  mutex,       (* goroutine inside Manager.Set, which holds the mutex       *)
  wg,          (* handlerWG                                                 *)
  go,          (* goroutine -> program counter and locals                   *)
  cmd,         (* command handler -> program counter and locals             *)
  shut,        (* Manager.Shutdown: program counter, sessions left, the one *)
               (* being disconnected                                        *)
  late         (* history: goroutines launched after Shutdown returned      *)

maps == <<sessions, kills, connecting>>
calls == <<evicted, receiving>>
ending == <<shut, late>>
vars == <<maps, mutex, closed, cancelled, client, attached, calls, wg, go, cmd, ending>>

-----------------------------------------------------------------------------
GoPC == {"new", "device", "set", "replace", "register", "dial", "pair", "scan", "wait",
         "clear", "delete", "detach", "cleanup", "done"}
Link == {"off", "on", "dropped"}

Locals == [pc : GoPC, conn : Conns \cup {None}, chan : Gos \cup {None},
           victim : Gos \cup {None}]

Unstarted == [pc |-> "new", conn |-> None, chan |-> None, victim |-> None]
NoCmd     == [pc |-> "idle", conn |-> None, sess |-> None]

Connected(g)   == g # None /\ client[g] = "on"
ShuttingDown   == shut.pc # "no"
Running(g)     == go[g].pc \notin {"new", "done"}
Run(g, pc)     == go' = [go EXCEPT ![g].pc = pc]
Handle(h, req) == cmd' = [cmd EXCEPT ![h] = req]

(* A step that takes the mutex and releases it leaves it as it found it.    *)
Locking == mutex = None /\ UNCHANGED mutex

(* The event handler of a client has calls that wait for the mutex.         *)
Busy(g) == g \in evicted \cup receiving

(* Its removal is under way: no event gets past it any more.                *)
Removing(g) ==
  \/ mutex # None /\ sessions[go[mutex].conn] = g
  \/ \E d \in Gos : go[d].victim = g
  \/ shut.at = g

(* Mutant: the lookup's result is not tested.                               *)
SendKillUnchecked(c) == Locking /\ closed' = closed \cup {kills[c]}

(* SendKill: closes the channel registered for the connection, if any.      *)
SendKill(c) ==
  Locking /\ closed' = IF kills[c] = None THEN closed ELSE closed \cup {kills[c]}

-----------------------------------------------------------------------------
(* session.start, and the restoring of stored sessions: looks at the maps,  *)
(* the last of which takes the flag.  A connection without a session is not *)
(* connected, so this look passes only where the command's own look at the  *)
(* link (IsConnected) passes too; the two are one step.                     *)

StartGet(h, c) ==
  /\ cmd[h].pc = "idle" /\ Locking /\ sessions[c] = None
  /\ Handle(h, [pc |-> "try", conn |-> c, sess |-> None])
  /\ UNCHANGED <<maps, closed, cancelled, client, attached, calls, wg, go, ending>>

MayConnect(c) == ~ShuttingDown /\ c \notin connecting /\ ~Connected(sessions[c])

TryStartConnect(h) ==
  LET c == cmd[h].conn IN
  /\ cmd[h].pc = "try" /\ Locking
  /\ IF MayConnect(c)
       THEN connecting' = connecting \cup {c} /\ Handle(h, [cmd[h] EXCEPT !.pc = "launch"])
       ELSE UNCHANGED connecting /\ Handle(h, NoCmd)
  /\ UNCHANGED <<sessions, kills, closed, cancelled, client, attached, calls, wg, go, ending>>

(* Mutant: the goroutine is started without counting it.                    *)
LaunchUncounted(h, g) ==
  /\ cmd[h].pc = "launch" /\ go[g].pc = "new"
  /\ go' = [go EXCEPT ![g].pc = "device", ![g].conn = cmd[h].conn]
  /\ late' = IF shut.pc = "returned" THEN late \cup {g} ELSE late
  /\ Handle(h, NoCmd)
  /\ UNCHANGED <<maps, mutex, closed, cancelled, client, attached, calls, wg, shut>>

(* Nothing here looks whether a shutdown has begun, or returned, meanwhile. *)
Launch(h, g) ==
  /\ cmd[h].pc = "launch" /\ go[g].pc = "new"
  /\ wg' = wg + 1
  /\ go' = [go EXCEPT ![g].pc = "device", ![g].conn = cmd[h].conn]
  /\ late' = IF shut.pc = "returned" THEN late \cup {g} ELSE late
  /\ Handle(h, NoCmd)
  /\ UNCHANGED <<maps, mutex, closed, cancelled, client, attached, calls, shut>>

(* session.stop.                                                            *)
Stop(h, c) ==
  /\ "stop" \in Inputs /\ cmd[h].pc = "idle" /\ kills[c] # None
  /\ SendKill(c)
  /\ UNCHANGED <<maps, cancelled, client, attached, calls, wg, go, cmd, ending>>

(* session.logout: logs the client it finds out, then kills the session.    *)
LogoutGet(h, c) ==
  /\ "logout" \in Inputs /\ cmd[h].pc = "idle" /\ Locking /\ sessions[c] # None
  /\ Handle(h, [pc |-> "logout", conn |-> c, sess |-> sessions[c]])
  /\ UNCHANGED <<maps, closed, cancelled, client, attached, calls, wg, go, ending>>

LogoutKill(h) ==
  /\ cmd[h].pc = "logout"
  /\ client' = [client EXCEPT ![cmd[h].sess] = IF @ = "on" THEN "off" ELSE @]
  /\ SendKill(cmd[h].conn)
  /\ Handle(h, NoCmd)
  /\ UNCHANGED <<maps, cancelled, attached, calls, wg, go, ending>>

-----------------------------------------------------------------------------
(* The goroutine of a session.                                              *)

ResolveDevice(g) ==
  /\ go[g].pc = "device"
  /\ \/ Run(g, "set") /\ attached' = attached \cup {g}
     \/ Run(g, "clear") /\ UNCHANGED attached
  /\ UNCHANGED <<maps, mutex, closed, cancelled, client, calls, wg, cmd, ending>>

(* Manager.Set takes the mutex and keeps it until it returns.               *)
SetLock(g) ==
  /\ go[g].pc = "set" /\ mutex = None
  /\ mutex' = g /\ Run(g, "replace")
  /\ UNCHANGED <<maps, closed, cancelled, client, attached, calls, wg, cmd, ending>>

(* Mutants: every registration is counted; a replaced client is             *)
(* disconnected but keeps its event handler.                                *)
SetCounted(g) ==
  LET c == go[g].conn IN
  /\ go[g].pc = "replace"
  /\ sessions' = [sessions EXCEPT ![c] = g] /\ connecting' = connecting \ {c}
  /\ attached' = attached \ {sessions[c]}
  /\ wg' = wg + 1
  /\ mutex' = None /\ Run(g, "register")
  /\ UNCHANGED <<kills, closed, cancelled, client, calls, cmd, ending>>

SetAttached(g) ==
  LET c == go[g].conn IN
  /\ go[g].pc = "replace"
  /\ sessions' = [sessions EXCEPT ![c] = g] /\ connecting' = connecting \ {c}
  /\ wg' = IF sessions[c] = None THEN wg + 1 ELSE wg
  /\ mutex' = None /\ Run(g, "register")
  /\ UNCHANGED <<kills, closed, cancelled, client, attached, calls, cmd, ending>>

(* A session it replaces is silenced and disconnected, and the count of     *)
(* registered sessions stays the same.  Silencing it waits for its handler, *)
(* which may wait for the mutex that is held here.                          *)
Set(g) ==
  LET c == go[g].conn
      old == sessions[c]
  IN /\ go[g].pc = "replace"
     /\ IF old # None
          THEN /\ ~Busy(old)
               /\ attached' = attached \ {old}
               /\ client' = [client EXCEPT ![old] = "off"]
               /\ wg' = wg
          ELSE wg' = wg + 1 /\ UNCHANGED <<attached, client>>
     /\ sessions' = [sessions EXCEPT ![c] = g]
     /\ connecting' = connecting \ {c}
     /\ mutex' = None /\ Run(g, "register")
     /\ UNCHANGED <<kills, closed, cancelled, calls, cmd, ending>>

(* A channel that is there already is shared, whoever made it.              *)
RegisterKill(g) ==
  LET c == go[g].conn
      chan == IF kills[c] = None THEN g ELSE kills[c]
  IN /\ go[g].pc = "register" /\ Locking
     /\ kills' = [kills EXCEPT ![c] = chan]
     /\ \E pc \in {"dial", "pair"} : go' = [go EXCEPT ![g].pc = pc, ![g].chan = chan]
     /\ UNCHANGED <<sessions, connecting, closed, cancelled, client, attached, calls, wg, cmd,
                    ending>>

(* runReconnect: up to three attempts; it looks at the context only.        *)
Dial(g) ==
  /\ go[g].pc = "dial"
  /\ \/ client' = [client EXCEPT ![g] = "on"] /\ Run(g, "wait")
     \/ Run(g, "clear") /\ UNCHANGED client
  /\ UNCHANGED <<maps, mutex, closed, cancelled, attached, calls, wg, cmd, ending>>

(* runQRPairing: the client connects, then waits for the phone.             *)
PairConnect(g) ==
  /\ go[g].pc = "pair"
  /\ \/ client' = [client EXCEPT ![g] = "on"] /\ Run(g, "scan")
     \/ Run(g, "clear") /\ UNCHANGED client
  /\ UNCHANGED <<maps, mutex, closed, cancelled, attached, calls, wg, cmd, ending>>

(* Paired; a timeout or an error, which kills the connection before the     *)
(* goroutine returns; or the channel of codes closes, which does not: the   *)
(* context was cancelled, or an event of another kind was the last.         *)
PairEnd(g) ==
  /\ go[g].pc = "scan"
  /\ \/ Run(g, "wait") /\ UNCHANGED <<mutex, closed>>
     \/ Run(g, "clear") /\ SendKill(go[g].conn)
     \/ Run(g, "clear") /\ UNCHANGED <<mutex, closed>>
  /\ UNCHANGED <<maps, cancelled, client, attached, calls, wg, cmd, ending>>

(* Mutant: the goroutine waits for its context and forgets the kill channel. *)
WaitContext(g) ==
  /\ go[g].pc = "wait" /\ g \in cancelled
  /\ Run(g, "clear")
  /\ UNCHANGED <<maps, mutex, closed, cancelled, client, attached, calls, wg, cmd, ending>>

Wait(g) ==
  /\ go[g].pc = "wait" /\ (go[g].chan \in closed \/ g \in cancelled)
  /\ Run(g, "clear")
  /\ UNCHANGED <<maps, mutex, closed, cancelled, client, attached, calls, wg, cmd, ending>>

(* The deferred calls, in the order they run; each works by connection id,  *)
(* the last one also gives the count of the goroutine back.                 *)
ClearConnecting(g) ==
  /\ go[g].pc = "clear" /\ Locking /\ Run(g, "delete")
  /\ cancelled' = cancelled \cup {g}
  /\ connecting' = connecting \ {go[g].conn}
  /\ UNCHANGED <<sessions, kills, closed, client, attached, calls, wg, cmd, ending>>

Delete(g) ==
  LET c == go[g].conn IN
  /\ go[g].pc = "delete" /\ Locking
  /\ IF sessions[c] = None THEN Run(g, "cleanup") /\ UNCHANGED <<sessions, cancelled>>
     ELSE /\ sessions' = [sessions EXCEPT ![c] = None]
          /\ cancelled' = cancelled \cup {sessions[c]}
          /\ go' = [go EXCEPT ![g].pc = "detach", ![g].victim = sessions[c]]
  /\ UNCHANGED <<kills, connecting, closed, client, attached, calls, wg, cmd, ending>>

(* The mutex is free again while this waits for the handler's calls.        *)
Detach(g) ==
  LET old == go[g].victim IN
  /\ go[g].pc = "detach" /\ ~Busy(old)
  /\ attached' = attached \ {old}
  /\ client' = [client EXCEPT ![old] = "off"]
  /\ wg' = wg - 1
  /\ go' = [go EXCEPT ![g].pc = "cleanup", ![g].victim = None]
  /\ UNCHANGED <<maps, mutex, closed, cancelled, calls, cmd, ending>>

CleanupKill(g) ==
  /\ go[g].pc = "cleanup" /\ Locking /\ Run(g, "done")
  /\ kills' = [kills EXCEPT ![go[g].conn] = None]
  /\ wg' = wg - 1
  /\ UNCHANGED <<sessions, connecting, closed, cancelled, client, attached, calls, cmd, ending>>

-----------------------------------------------------------------------------
(* The library: a link drops and comes back by itself; a link that was      *)
(* logged out, replaced or banned is gone; its event handler publishes the   *)
(* event and then kills the connection, whoever runs it by then.  A message *)
(* makes the handler look the session up; what the call does afterwards     *)
(* needs no mutex and always ends.                                          *)

Drop(g) ==
  /\ "drop" \in Inputs
  /\ client[g] = "on" /\ client' = [client EXCEPT ![g] = "dropped"]
  /\ UNCHANGED <<maps, mutex, closed, cancelled, attached, calls, wg, go, cmd, ending>>

Redial(g) ==
  /\ client[g] = "dropped" /\ client' = [client EXCEPT ![g] = "on"]
  /\ UNCHANGED <<maps, mutex, closed, cancelled, attached, calls, wg, go, cmd, ending>>

Evicted(g) ==
  /\ "evict" \in Inputs /\ client[g] = "on" /\ g \in attached /\ ~Removing(g)
  /\ client' = [client EXCEPT ![g] = "off"]
  /\ evicted' = evicted \cup {g}
  /\ UNCHANGED <<maps, mutex, closed, cancelled, attached, receiving, wg, go, cmd, ending>>

EvictedKill(g) ==
  /\ g \in evicted /\ evicted' = evicted \ {g}
  /\ SendKill(go[g].conn)
  /\ UNCHANGED <<maps, cancelled, client, attached, receiving, wg, go, cmd, ending>>

Receive(g) ==
  /\ "message" \in Inputs /\ client[g] = "on" /\ g \in attached /\ ~Removing(g)
  /\ receiving' = receiving \cup {g}
  /\ UNCHANGED <<maps, mutex, closed, cancelled, client, attached, evicted, wg, go, cmd, ending>>

ReceiveGet(g) ==
  /\ g \in receiving /\ Locking
  /\ receiving' = receiving \ {g}
  /\ UNCHANGED <<maps, closed, cancelled, client, attached, evicted, wg, go, cmd, ending>>

-----------------------------------------------------------------------------
(* Manager.Shutdown: kill every connection, then disconnect the sessions    *)
(* that were registered at that moment, one by one, then wait for the wait  *)
(* group.  The deadline bounds the last of these only.                      *)

ShutdownBegin ==
  /\ "shutdown" \in Inputs /\ shut.pc = "no" /\ Locking
  /\ shut' = [shut EXCEPT !.pc = "disconnect", !.left = {sessions[c] : c \in Conns} \ {None}]
  /\ closed' = closed \cup ({kills[c] : c \in Conns} \ {None})
  /\ kills' = [c \in Conns |-> None]
  /\ UNCHANGED <<sessions, connecting, cancelled, client, attached, calls, wg, go, cmd, late>>

ShutdownCancel(g) ==
  /\ shut.pc = "disconnect" /\ shut.at = None /\ g \in shut.left
  /\ shut' = [shut EXCEPT !.at = g]
  /\ cancelled' = cancelled \cup {g}
  /\ UNCHANGED <<maps, mutex, closed, client, attached, calls, wg, go, cmd, late>>

ShutdownOne(g) ==
  /\ shut.pc = "disconnect" /\ shut.at = g /\ ~Busy(g)
  /\ shut' = [shut EXCEPT !.at = None, !.left = @ \ {g}]
  /\ attached' = attached \ {g}
  /\ client' = [client EXCEPT ![g] = "off"]
  /\ UNCHANGED <<maps, mutex, closed, cancelled, calls, wg, go, cmd, late>>

ShutdownWait ==
  /\ shut.pc = "disconnect" /\ shut.left = {}
  /\ shut' = [shut EXCEPT !.pc = "wait"]
  /\ UNCHANGED <<maps, mutex, closed, cancelled, client, attached, calls, wg, go, cmd, late>>

ShutdownReturn ==
  /\ shut.pc = "wait"
  /\ \/ wg = 0 /\ shut' = [shut EXCEPT !.pc = "returned"]
     \/ shut' = [shut EXCEPT !.pc = "deadline"]
  /\ UNCHANGED <<maps, mutex, closed, cancelled, client, attached, calls, wg, go, cmd, late>>

-----------------------------------------------------------------------------
Init ==
  /\ sessions = [c \in Conns |-> None]
  /\ kills = [c \in Conns |-> None]
  /\ connecting = {} /\ closed = {} /\ cancelled = {} /\ attached = {}
  /\ evicted = {} /\ receiving = {} /\ mutex = None
  /\ client = [g \in Gos |-> "off"]
  /\ wg = 0
  /\ go = [g \in Gos |-> Unstarted]
  /\ cmd = [h \in Handlers |-> NoCmd]
  /\ shut = [pc |-> "no", left |-> {}, at |-> None]
  /\ late = {}

Session(g) == ResolveDevice(g) \/ SetLock(g) \/ Set(g) \/ RegisterKill(g) \/ Dial(g)
                \/ PairConnect(g) \/ PairEnd(g) \/ Wait(g) \/ ClearConnecting(g)
                \/ Delete(g) \/ Detach(g) \/ CleanupKill(g)
Starting(h) == TryStartConnect(h) \/ (\E g \in Gos : Launch(h, g))
Events(g) == Drop(g) \/ Redial(g) \/ Evicted(g) \/ Receive(g)
Handling(g) == EvictedKill(g) \/ ReceiveGet(g)
Shutdown == (\E g \in Gos : ShutdownCancel(g) \/ ShutdownOne(g)) \/ ShutdownWait \/ ShutdownReturn

Next ==
  \/ \E h \in Handlers : Starting(h) \/ LogoutKill(h)
       \/ \E c \in Conns : StartGet(h, c) \/ Stop(h, c) \/ LogoutGet(h, c)
  \/ \E g \in Gos : Session(g) \/ Events(g) \/ Handling(g)
  \/ ShutdownBegin \/ Shutdown

Spec == Init /\ [][Next]_vars

(* Goroutines keep running, also those of event handlers; pairing ends by   *)
(* the timeout of the QR code, and the wait of Shutdown by its deadline.    *)
(* No command and no event needs to come.                                   *)
FairSpec ==
  /\ Spec /\ WF_vars(Shutdown)
  /\ \A g \in Gos : WF_vars(Session(g)) /\ WF_vars(Handling(g))

-----------------------------------------------------------------------------
TypeOK ==
  /\ sessions \in [Conns -> Gos \cup {None}]
  /\ kills \in [Conns -> Gos \cup {None}]
  /\ connecting \subseteq Conns
  /\ closed \subseteq Gos /\ cancelled \subseteq Gos /\ attached \subseteq Gos
  /\ evicted \subseteq Gos /\ receiving \subseteq Gos /\ late \subseteq Gos
  /\ mutex \in Gos \cup {None}
  /\ client \in [Gos -> Link]
  /\ wg \in Nat
  /\ go \in [Gos -> Locals]
  /\ cmd \in [Handlers -> [pc : {"idle", "try", "launch", "logout"},
                           conn : Conns \cup {None}, sess : Gos \cup {None}]]
  /\ shut \in [pc : {"no", "disconnect", "wait", "returned", "deadline"},
               left : SUBSET Gos, at : Gos \cup {None}]

(* handlerWG counts the running goroutines and the registered sessions      *)
(* exactly, whoever replaces or deletes whose entry: it never goes negative *)
(* (a panic), and never stays up for a session that is gone.                *)
Alive      == {g \in Gos : Running(g)}
Registered == {c \in Conns : sessions[c] # None}
Deleting   == {g \in Gos : go[g].victim # None}
WaitGroupExact ==
  wg = Cardinality(Alive) + Cardinality(Registered) + Cardinality(Deleting)

(* Events of a connection are published once: a client that still has its   *)
(* handler is the registered one, is not registered yet, or somebody is on  *)
(* the way to detach it.                                                    *)
EventsOnce ==
  \A g \in attached :
    \/ sessions[go[g].conn] = g
    \/ go[g].pc \in {"set", "replace"}
    \/ \E d \in Gos : go[d].victim = g

(* Once Shutdown returned before its deadline, whatever still runs, has its *)
(* event handler attached or is inside a call of it was launched after that *)
(* return, by a session.start that had passed TryStartConnect.  Everything  *)
(* launched earlier is over for good, also the sessions that registered     *)
(* while Shutdown was disconnecting those it saw.                           *)
CleanShutdown ==
  shut.pc = "returned" =>
    attached \cup evicted \cup receiving \cup Alive \subseteq late

(* Manager.Set waits, with the mutex in its hands, for an event handler     *)
(* that waits for the mutex: nobody gets the mutex any more.                *)
Deadlocked ==
  /\ mutex # None
  /\ LET old == sessions[go[mutex].conn] IN old # None /\ Busy(old)

(* A session whose kill channel is closed ends, wherever it was, unless the *)
(* manager deadlocks in Set; nothing else keeps it from ending.             *)
KilledSessionsEnd ==
  \A g \in Gos : (go[g].chan \in closed) ~> (go[g].pc = "done" \/ Deadlocked)

(* StartSession answers "connection already running" or "already            *)
(* connecting": one session per connection.  Not an invariant of the code:  *)
(* the README shows how two come to run, so no run has it.                  *)
Active(g) == go[g].pc \in {"set", "replace", "register", "dial", "pair", "scan", "wait"}
OneSession == \A g, d \in Gos : Active(g) /\ Active(d) /\ go[g].conn = go[d].conn => g = d
=============================================================================
