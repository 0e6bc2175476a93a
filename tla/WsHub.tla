------------------------------- MODULE WsHub -------------------------------
(***************************************************************************)
(* The WebSocket hub of the backend: the two directions of the             *)
(* subscription map under one mutex, two goroutines per client (readPump   *)
(* in the handler of the request, writePump), publishers that offer frames *)
(* without blocking, and the shutdown.                                     *)
(*                                                                         *)
(* A step is what runs between two acquisitions of the mutex, or one       *)
(* operation on a client's channels.  A frame is named by what it carries. *)
(***************************************************************************)
EXTENDS Naturals, Sequences, FiniteSets

CONSTANTS
  Clients,   (* connections; each has its own Client                       *)
  Admins,    (* those whose user is an admin                               *)
  Tickets,   (* tickets, each with a channel                               *)
  Pubs,      (* publications, each by a goroutine of its own               *)
  Buffer,    (* ClientWriteBuffer                                          *)
  MaxFrames  (* frames that a client sends                                 *)

ASSUME HubAssumption ==
  Admins \subseteq Clients /\ Buffer \in Nat \ {0} /\ MaxFrames \in Nat
  /\ IsFiniteSet(Clients) /\ "notification" \notin Tickets /\ "system" \notin Tickets

ASSUME FramesApart == Pubs \cap {"connected", "error", "closing"} = {}

VARIABLES
  channels,   (* channel -> members: h.channels                            *)
  clients,    (* the keys of h.clients                                     *)
  subs,       (* client -> its channels in h.clients                       *)
  shutting,   (* shuttingDown                                              *)
  send,       (* client -> its send buffer                                 *)
  closed,     (* clients whose closed channel is closed                    *)
  gone,       (* clients whose connection was closed, by either end        *)
  handle,     (* client -> program counter of Handle and readPump          *)
  writer,     (* client -> program counter of writePump                    *)
  written,    (* history: client -> publications that went to the peer     *)
  pub,        (* publication -> program counter and targets                *)
  shut,       (* Shutdown: program counter and clients left                *)
  sees,       (* <<client, ticket>> that CanSee allows now                 *)
  saw         (* history: what CanSee ever allowed                         *)

maps  == <<channels, clients, subs>>
wires == <<send, closed, gone>>
vars  == <<maps, shutting, wires, handle, writer, written, pub, shut, sees, saw>>

-----------------------------------------------------------------------------
(* "notification" stands for the channels everybody may have, the lists of *)
(* tickets by status among them, and "system" for those nobody may         *)
(* subscribe to, invalid names included.                                   *)
Channels == Tickets \cup {"notification", "system"}
Frames   == Pubs \cup {"connected", "error", "closing"}
HandlePC == {"new", "refused", "accept", "hello", "read", "subscribe", "close", "teardown", "done"}

Idle == [pc |-> "new", channel |-> "system", frames |-> 0]

Init ==
  /\ channels = [ch \in Channels |-> {}] /\ clients = {} /\ subs = [c \in Clients |-> {}]
  /\ shutting = FALSE /\ send = [c \in Clients |-> <<>>] /\ closed = {} /\ gone = {}
  /\ handle = [c \in Clients |-> Idle] /\ writer = [c \in Clients |-> "new"]
  /\ written = [c \in Clients |-> {}]
  /\ pub = [p \in Pubs |-> [pc |-> "new", channel |-> "system", targets |-> {}, left |-> {}]]
  /\ shut = [pc |-> "no", left |-> {}]
  /\ sees \in SUBSET (Clients \X Tickets) /\ saw = sees

(* The clients whose connection is open: accepted and not closed.           *)
Open == {c \in Clients \ gone : handle[c].pc \notin {"new", "refused", "accept"}}

Goto(c, pc) == handle' = [handle EXCEPT ![c].pc = pc]

(* Mutant: a full buffer drops the frame.                                  *)
OfferLossy(c, f) ==
  \/ c \in closed /\ UNCHANGED <<send, closed>>
  \/ Len(send[c]) < Buffer /\ send' = [send EXCEPT ![c] = Append(@, f)] /\ UNCHANGED closed
  \/ c \notin closed /\ Len(send[c]) = Buffer /\ UNCHANGED <<send, closed>>

(* Mutant: the frame is queued whatever the buffer holds.                   *)
OfferUnbounded(c, f) == send' = [send EXCEPT ![c] = Append(@, f)] /\ UNCHANGED closed

(* The select of Publish and queueSystem: a closed client is skipped, a    *)
(* frame goes into the buffer (either, when both are possible), and a full *)
(* buffer closes the client.                                               *)
Offer(c, f) ==
  \/ c \in closed /\ UNCHANGED <<send, closed>>
  \/ Len(send[c]) < Buffer /\ send' = [send EXCEPT ![c] = Append(@, f)] /\ UNCHANGED closed
  \/ c \notin closed /\ Len(send[c]) = Buffer /\ closed' = closed \cup {c} /\ UNCHANGED send

-----------------------------------------------------------------------------
(* Handle: the check, the upgrade, the registration, the greeting.         *)

Request(c) ==
  /\ handle[c].pc = "new" /\ Goto(c, IF shutting THEN "refused" ELSE "accept")
  /\ UNCHANGED <<maps, shutting, wires, writer, written, pub, shut, sees, saw>>

RegisterClient(c) ==
  /\ handle[c].pc = "accept" /\ Goto(c, "hello")
  /\ clients' = clients \cup {c}
  /\ UNCHANGED <<channels, subs, shutting, wires, writer, written, pub, shut, sees, saw>>

Hello(c) ==
  /\ handle[c].pc = "hello" /\ Offer(c, "connected")
  /\ Goto(c, "read") /\ writer' = [writer EXCEPT ![c] = "run"]
  /\ UNCHANGED <<maps, shutting, gone, written, pub, shut, sees, saw>>

(* readPump: a frame of the peer.                                          *)
Reads(c) == handle[c].pc = "read" /\ c \notin gone /\ handle[c].frames < MaxFrames

(* authorizeSubscribe, for names that stand for their kind.                *)
Allowed(c, ch) ==
  \/ ch = "notification"
  \/ ch \in Tickets /\ (c \in Admins \/ <<c, ch>> \in sees)

(* Mutant: any ticket will do.                                              *)
AuthorizeAny(c, ch) ==
  /\ Reads(c) /\ ch \in Tickets
  /\ handle' = [handle EXCEPT ![c] = [pc |-> "subscribe", channel |-> ch, frames |-> @.frames + 1]]
  /\ UNCHANGED <<maps, shutting, wires, writer, written, pub, shut, sees, saw>>

Authorize(c, ch) ==
  /\ Reads(c) /\ Allowed(c, ch)
  /\ handle' = [handle EXCEPT ![c] = [pc |-> "subscribe", channel |-> ch, frames |-> @.frames + 1]]
  /\ UNCHANGED <<maps, shutting, wires, writer, written, pub, shut, sees, saw>>

(* The names nobody may have, tickets he may not see, and any ticket of an *)
(* agent when CanSee fails.                                                *)
Deny(c, ch) ==
  /\ Reads(c) /\ Offer(c, "error")
  /\ ch = "system" \/ (ch \in Tickets /\ c \notin Admins)
  /\ handle' = [handle EXCEPT ![c].frames = @ + 1]
  /\ UNCHANGED <<maps, shutting, gone, writer, written, pub, shut, sees, saw>>

BackToRead(c) == handle' = [handle EXCEPT ![c].pc = "read", ![c].channel = "system"]

(* Mutant: the client's own set is not kept.                               *)
SubscribeOneWay(c) ==
  /\ handle[c].pc = "subscribe" /\ BackToRead(c) /\ c \in clients
  /\ channels' = [channels EXCEPT ![handle[c].channel] = @ \cup {c}]
  /\ UNCHANGED <<clients, subs, shutting, wires, writer, written, pub, shut, sees, saw>>

Subscribe(c) ==
  LET ch == handle[c].channel IN
  /\ handle[c].pc = "subscribe" /\ BackToRead(c)
  /\ IF c \in clients
     THEN /\ subs' = [subs EXCEPT ![c] = @ \cup {ch}]
          /\ channels' = [channels EXCEPT ![ch] = @ \cup {c}]
     ELSE UNCHANGED <<subs, channels>>
  /\ UNCHANGED <<clients, shutting, wires, writer, written, pub, shut, sees, saw>>

Unsubscribe(c, ch) ==
  /\ Reads(c) /\ c \in clients /\ ch \in subs[c]
  /\ handle' = [handle EXCEPT ![c].frames = @ + 1]
  /\ subs' = [subs EXCEPT ![c] = @ \ {ch}]
  /\ channels' = [channels EXCEPT ![ch] = @ \ {c}]
  /\ UNCHANGED <<clients, shutting, wires, writer, written, pub, shut, sees, saw>>

(* The connection is closed: readPump ends, and closes the client.         *)
ReadError(c) ==
  /\ handle[c].pc = "read" /\ c \in gone /\ Goto(c, "close")
  /\ UNCHANGED <<maps, shutting, wires, writer, written, pub, shut, sees, saw>>

SignalClose(c) ==
  /\ handle[c].pc = "close" /\ Goto(c, "teardown") /\ closed' = closed \cup {c}
  /\ UNCHANGED <<maps, shutting, send, gone, writer, written, pub, shut, sees, saw>>

UnregisterClient(c) ==
  /\ handle[c].pc = "teardown" /\ Goto(c, "done")
  /\ channels' = [ch \in Channels |-> channels[ch] \ {c}]
  /\ clients' = clients \ {c} /\ subs' = [subs EXCEPT ![c] = {}]
  /\ UNCHANGED <<shutting, wires, writer, written, pub, shut, sees, saw>>

Reader(c) ==
  \/ RegisterClient(c) \/ Hello(c) \/ Subscribe(c) \/ ReadError(c) \/ SignalClose(c)
  \/ UnregisterClient(c)

-----------------------------------------------------------------------------
(* writePump.                                                              *)

Write(c) ==
  /\ writer[c] = "run" /\ send[c] # <<>> /\ c \notin gone
  /\ send' = [send EXCEPT ![c] = Tail(@)]
  /\ written' = [written EXCEPT ![c] = @ \cup ({Head(send[c])} \cap Pubs)]
  /\ UNCHANGED <<maps, shutting, closed, gone, handle, writer, pub, shut, sees, saw>>

(* Mutant: the connection is left to its peer.                              *)
WriterReturns(c) ==
  /\ writer[c] = "run" /\ (c \in closed \/ c \in gone) /\ writer' = [writer EXCEPT ![c] = "done"]
  /\ UNCHANGED <<maps, shutting, wires, handle, written, pub, shut, sees, saw>>

(* The client is closed, or its connection: the connection goes with the    *)
(* pump.                                                                   *)
WriterEnds(c) ==
  /\ writer[c] = "run" /\ (c \in closed \/ c \in gone)
  /\ writer' = [writer EXCEPT ![c] = "done"] /\ gone' = gone \cup {c}
  /\ UNCHANGED <<maps, shutting, send, closed, handle, written, pub, shut, sees, saw>>

(* A write fails: the frame was taken out of the buffer and is lost.       *)
WriteFails(c) ==
  /\ writer[c] = "run" /\ send[c] # <<>>
  /\ writer' = [writer EXCEPT ![c] = "done"] /\ gone' = gone \cup {c}
  /\ send' = [send EXCEPT ![c] = Tail(@)]
  /\ UNCHANGED <<maps, shutting, closed, handle, written, pub, shut, sees, saw>>

(* A ping is not answered.                                                 *)
PingFails(c) ==
  /\ writer[c] = "run" /\ c \notin gone
  /\ writer' = [writer EXCEPT ![c] = "done"] /\ gone' = gone \cup {c}
  /\ UNCHANGED <<maps, shutting, send, closed, handle, written, pub, shut, sees, saw>>

(* The peer leaves.                                                        *)
PeerLeaves(c) ==
  /\ c \in Open /\ gone' = gone \cup {c}
  /\ UNCHANGED <<maps, shutting, send, closed, handle, writer, written, pub, shut, sees, saw>>

-----------------------------------------------------------------------------
(* Publish: the flag, the members under the read lock, one offer each.     *)

Publish(p, ch) ==
  /\ pub[p].pc = "new"
  /\ pub' = [pub EXCEPT ![p].pc = IF shutting THEN "done" ELSE "snapshot", ![p].channel = ch]
  /\ UNCHANGED <<maps, shutting, wires, handle, writer, written, shut, sees, saw>>

Targets(p) ==
  /\ pub[p].pc = "snapshot"
  /\ pub' = [pub EXCEPT ![p] =
       [pc |-> "offer", channel |-> "system",
        targets |-> channels[pub[p].channel], left |-> channels[pub[p].channel]]]
  /\ UNCHANGED <<maps, shutting, wires, handle, writer, written, shut, sees, saw>>

OfferNext(p, c) ==
  /\ pub[p].pc = "offer" /\ c \in pub[p].left /\ Offer(c, p)
  /\ pub' = [pub EXCEPT ![p].left = @ \ {c}]
  /\ UNCHANGED <<maps, shutting, gone, handle, writer, written, shut, sees, saw>>

-----------------------------------------------------------------------------
(* Shutdown: tell everybody, wait for them to leave, close those who stay. *)

ShutdownBegin ==
  /\ shut.pc = "no" /\ shutting' = TRUE
  /\ shut' = [pc |-> "tell", left |-> {}]
  /\ UNCHANGED <<maps, wires, handle, writer, written, pub, sees, saw>>

ShutdownSnapshot ==
  /\ shut.pc = "tell" /\ shut' = [pc |-> "closing", left |-> clients]
  /\ UNCHANGED <<maps, shutting, wires, handle, writer, written, pub, sees, saw>>

(* The closing frame is offered; a full buffer is left alone.              *)
ShutdownTell(c) ==
  /\ shut.pc = "closing" /\ c \in shut.left /\ shut' = [shut EXCEPT !.left = @ \ {c}]
  /\ \/ (c \in closed \/ Len(send[c]) = Buffer) /\ UNCHANGED send
     \/ Len(send[c]) < Buffer /\ send' = [send EXCEPT ![c] = Append(@, "closing")]
  /\ UNCHANGED <<maps, shutting, closed, gone, handle, writer, written, pub, sees, saw>>

ShutdownReturn ==
  /\ shut.pc = "closing" /\ shut.left = {} /\ clients = {}
  /\ shut' = [shut EXCEPT !.pc = "ok"]
  /\ UNCHANGED <<maps, shutting, wires, handle, writer, written, pub, sees, saw>>

ForceCloseRemaining ==
  /\ shut.pc = "closing" /\ shut.left = {} /\ clients # {}
  /\ shut' = [pc |-> "force", left |-> clients]
  /\ UNCHANGED <<maps, shutting, wires, handle, writer, written, pub, sees, saw>>

ForceClose(c) ==
  /\ shut.pc = "force" /\ c \in shut.left /\ shut' = [shut EXCEPT !.left = @ \ {c}]
  /\ closed' = closed \cup {c} /\ gone' = gone \cup {c}
  /\ UNCHANGED <<maps, shutting, send, handle, writer, written, pub, sees, saw>>

Shutdown ==
  \/ ShutdownSnapshot \/ ShutdownReturn \/ ForceCloseRemaining
  \/ \E c \in Clients : ShutdownTell(c) \/ ForceClose(c)

(* A ticket changes hands: CanSee answers otherwise from now on.           *)
Reassign(c, t) ==
  /\ sees' = IF <<c, t>> \in sees THEN sees \ {<<c, t>>} ELSE sees \cup {<<c, t>>}
  /\ saw' = saw \cup sees'
  /\ UNCHANGED <<maps, shutting, wires, handle, writer, written, pub, shut>>

-----------------------------------------------------------------------------
Next ==
  \/ \E c \in Clients : Request(c) \/ Reader(c) \/ Write(c) \/ WriterEnds(c) \/ WriteFails(c)
                        \/ PingFails(c) \/ PeerLeaves(c)
  \/ \E c \in Clients, ch \in Channels : Authorize(c, ch) \/ Deny(c, ch) \/ Unsubscribe(c, ch)
  \/ \E c \in Clients, t \in Tickets : Reassign(c, t)
  \/ \E p \in Pubs : (\E ch \in Channels \ {"system"} : Publish(p, ch)) \/ Targets(p)
                     \/ (\E c \in Clients : OfferNext(p, c))
  \/ ShutdownBegin \/ Shutdown

Spec == Init /\ [][Next]_vars

(* The pumps, the publishers and the shutdown go on; peers need not.       *)
FairSpec ==
  /\ Spec /\ WF_vars(Shutdown)
  /\ \A c \in Clients : WF_vars(Reader(c)) /\ WF_vars(Write(c)) /\ WF_vars(WriterEnds(c))
  /\ \A p \in Pubs : WF_vars(Targets(p) \/ \E c \in Clients : OfferNext(p, c))

-----------------------------------------------------------------------------
(* The variables have their types; no buffer overflows.                    *)
TypeOK ==
  /\ channels \in [Channels -> SUBSET Clients] /\ clients \subseteq Clients
  /\ subs \in [Clients -> SUBSET Channels] /\ shutting \in BOOLEAN
  /\ send \in [Clients -> Seq(Frames)] /\ \A c \in Clients : Len(send[c]) <= Buffer
  /\ closed \subseteq Clients /\ gone \subseteq Clients
  /\ handle \in [Clients -> [pc : HandlePC, channel : Channels, frames : 0..MaxFrames]]
  /\ writer \in [Clients -> {"new", "run", "done"}] /\ written \in [Clients -> SUBSET Pubs]
  /\ pub \in [Pubs -> [pc : {"new", "snapshot", "offer", "done"}, channel : Channels,
                       targets : SUBSET Clients, left : SUBSET Clients]]
  /\ shut \in [pc : {"no", "tell", "closing", "ok", "force"}, left : SUBSET Clients]
  /\ sees \subseteq Clients \X Tickets /\ sees \subseteq saw

(* The two directions of the map agree, and only registered clients are in *)
(* them: a publisher finds no client that has left (subscribe, unsubscribe, *)
(* unregisterClient).                                                      *)
MapsAgree ==
  \A c \in Clients, ch \in Channels :
    /\ c \in channels[ch] <=> ch \in subs[c]
    /\ ch \in subs[c] => c \in clients

(* A subscriber misses no frame in silence: what was published to him was  *)
(* written, is in his buffer, or he is being disconnected: told to close,  *)
(* or his connection is closed, with the frame a failed write took out of  *)
(* the buffer (Publish, writePump).                                        *)
NothingMissed ==
  \A p \in Pubs, c \in Clients :
    c \in pub[p].targets \ pub[p].left =>
      \/ p \in written[c] \/ c \in closed \/ c \in gone
      \/ \E i \in 1..Len(send[c]) : send[c][i] = p

(* Nobody is subscribed to the system, nor to a ticket that he was at no   *)
(* moment allowed to see (authorizeSubscribe before subscribe in readPump, *)
(* in two steps).  It asks nothing of a subscription once it is made.      *)
SubscribersWereAllowed ==
  \A c \in Clients : \A ch \in subs[c] :
    ch = "notification" \/ (ch \in Tickets /\ (c \in Admins \/ <<c, ch>> \in saw))

(* A client that is told to close, for being slow or by the shutdown, or   *)
(* whose connection was closed, leaves the hub, although its readPump      *)
(* waits for the peer (writePump).                                         *)
ClosedClientLeaves ==
  \A c \in Clients : (c \in closed \cup gone) ~> (c \notin clients \cup Open)

(* The hub is a broadcast: a publication is owed to those it is still to   *)
(* be offered to and to those in whose buffer it waits, and those who were *)
(* told to close or whose connection is closed are cut off.                *)
Owed(p) == pub[p].left \cup {c \in Clients : \E i \in 1..Len(send[c]) : send[c][i] = p}
Cut == closed \cup gone
Mail == INSTANCE Broadcast WITH
  posted <- {p \in Pubs : pub[p].pc = "offer"}, owed <- [p \in Pubs |-> Owed(p)],
  received <- written, cut <- Cut
BroadcastImplemented == Mail!Spec
=============================================================================
