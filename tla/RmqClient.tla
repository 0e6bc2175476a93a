----------------------------- MODULE RmqClient -----------------------------
(***************************************************************************)
(* The broker client of the backend: one AMQP connection that a reconnect  *)
(* loop watches and replaces, a publish channel with confirms under a      *)
(* mutex, a reply queue with the calls that wait for an answer, a consumer *)
(* with its handlers, and the shutdown.                                    *)
(*                                                                         *)
(* A step is what runs between two acquisitions of a mutex or two reads of *)
(* the atomic state.  A channel, a reply queue and a subscription are      *)
(* named by the connection they belong to.                                 *)
(***************************************************************************)
EXTENDS Naturals, Sequences, FiniteSets

CONSTANTS
  Conns,     (* connections that can be dialled; each is used once         *)
  Jobs,      (* goroutines that publish or call, one message each          *)
  Kinds,     (* what the workload holds of "publish" and "call"            *)
  Queues,    (* queues the client consumes; each holds one message         *)
  Attempts,  (* ReconnectAttempts                                          *)
  None

ASSUME RmqAssumption ==
  /\ None \notin Conns \cup Jobs \cup Queues
  /\ IsFiniteSet(Jobs) /\ IsFiniteSet(Queues) /\ IsFiniteSet(Conns)
  /\ Attempts \in Nat \ {0} /\ Kinds \subseteq {"publish", "call"}

VARIABLES
  state,      (* the atomic state                                          *)
  conn,       (* c.conn                                                    *)
  publishCh,  (* connection of the publish channel and of its confirms     *)
  replyCh,    (* connection of the reply queue                             *)
  mutex,      (* the job that holds publishMu                              *)
  pending,    (* calls registered for a reply                              *)
  box,        (* call -> content of its reply channel, of capacity one     *)
  job,        (* job -> program counter and locals                         *)
  loop,       (* Start, then the reconnect loop                            *)
  cancelled,  (* runCtx                                                    *)
  shut,       (* program counter of Shutdown                               *)
  consumer,   (* queue -> program counter and subscription of runConsumer  *)
  running,    (* <<queue, subscription>> of the handlers that run          *)
  alive,      (* connections that are up                                   *)
  dialled,    (* connections that were ever up                             *)
  wire,       (* connection -> messages written to its socket              *)
  stored,     (* messages of jobs that reached the broker                  *)
  confirms,   (* connection -> the confirm in the Go channel, if any       *)
  ready       (* queues whose message can be delivered                     *)

channels == <<conn, publishCh, replyCh>>
calls    == <<pending, box>>
broker   == <<alive, dialled, wire, stored, confirms>>
consume  == <<consumer, running, ready>>
vars == <<state, channels, mutex, calls, job, loop, cancelled, shut, consume, broker>>

-----------------------------------------------------------------------------
States  == {"disconnected", "connecting", "connected", "disabled", "shutting"}
JobPC   == {"idle", "register", "lock", "send", "confirm", "reply", "done"}
LoopPC  == {"new", "check", "dial", "setup", "up", "top", "watch",
            "lost", "fail", "clear", "done"}
ShutPC  == {"no", "fail", "wait", "close", "join", "ok", "late"}
Outcome == {"none", "sent", "answered", "refused", "failed", "lost", "timeout", "panic"}
Confirm == [job : Jobs, ack : BOOLEAN]
Boxes   == {"empty", "reply", "lost", "shutting"}

NewJob == [pc |-> "idle", kind |-> "publish", replyTo |-> None, ch |-> None,
           confirmed |-> FALSE, out |-> "none"]

Init ==
  /\ state = "disconnected" /\ conn = None /\ publishCh = None /\ replyCh = None
  /\ mutex = None /\ pending = {} /\ box = [j \in Jobs |-> "empty"]
  /\ job = [j \in Jobs |-> NewJob]
  /\ loop = [pc |-> "new", conn |-> None, attempt |-> 0, starting |-> TRUE]
  /\ cancelled = FALSE /\ shut = "no"
  /\ consumer = [q \in Queues |-> [pc |-> "loop", ch |-> None]] /\ running = {} /\ ready = Queues
  /\ alive = {} /\ dialled = {} /\ wire = [k \in Conns |-> <<>>] /\ stored = {} /\ confirms = [k \in Conns |-> None]

GoTo(pc) == loop' = [loop EXCEPT !.pc = pc]

Serving(q, k) == consumer[q].ch = k /\ k \in alive

(* A connection goes.  Of what is on its wire the broker has taken a part; *)
(* what was delivered on it and not acknowledged is ready again.           *)
Close(k) ==
  /\ alive' = alive \ {k} /\ wire' = [wire EXCEPT ![k] = <<>>]
  /\ \E n \in 0..Len(wire[k]) : stored' = stored \cup {wire[k][i] : i \in 1..n}
  /\ ready' = ready \cup {q \in Queues : consumer[q].ch = k /\ <<q, k>> \in running}
  /\ UNCHANGED <<dialled, confirms>>

(* Mutant: the map is emptied before the calls are told.                   *)
FailPendingSilently(err) == box' = box /\ pending' = {}

(* failPendingRPCs: every registered call gets the error, unless its reply *)
(* is there already.                                                       *)
FailPending(err) ==
  /\ box' = [j \in Jobs |-> IF j \in pending /\ box[j] = "empty" THEN err ELSE box[j]]
  /\ pending' = {}

-----------------------------------------------------------------------------
(* Start and the reconnect loop.                                           *)

Start ==
  /\ loop.pc = "new" /\ state = "disconnected" /\ shut = "no"
  /\ state' = "connecting" /\ loop' = [loop EXCEPT !.pc = "check", !.attempt = 1]
  /\ UNCHANGED <<channels, mutex, calls, job, cancelled, shut, consume, broker>>

(* The loop gives up: the client is disabled for good, even if it was      *)
(* shutting down.                                                          *)
GiveUp ==
  state' = "disabled" /\ loop' = [loop EXCEPT !.pc = "done", !.starting = FALSE]

(* One attempt failed: the back-off, or the end of the attempts.           *)
NextAttempt ==
  \/ /\ loop.attempt < Attempts
     /\ loop' = [loop EXCEPT !.pc = "check", !.attempt = @ + 1] /\ UNCHANGED state
  \/ loop.attempt = Attempts /\ GiveUp

(* The context is looked at before each attempt and during the back-off:   *)
(* the caller's in Start, which may be cancelled, and runCtx afterwards.   *)
CheckContext ==
  /\ loop.pc = "check"
  /\ \/ (cancelled \/ loop.starting) /\ GiveUp
     \/ ~cancelled /\ GoTo("dial") /\ UNCHANGED state
  /\ UNCHANGED <<channels, mutex, calls, job, cancelled, shut, consume, broker>>

Dial(k) ==
  /\ loop.pc = "dial" /\ k \notin dialled
  /\ alive' = alive \cup {k} /\ dialled' = dialled \cup {k} /\ conn' = k
  /\ loop' = [loop EXCEPT !.pc = "setup", !.conn = k]
  /\ UNCHANGED <<state, publishCh, replyCh, mutex, calls, job, cancelled, shut, consume,
                 wire, stored, confirms>>

DialFails ==
  /\ loop.pc = "dial" /\ NextAttempt
  /\ UNCHANGED <<channels, mutex, calls, job, cancelled, shut, consume, broker>>

(* Mutant: the reply channel is opened and not kept.                        *)
SetupPublishOnly ==
  /\ loop.pc = "setup" /\ conn # None /\ conn \in alive /\ mutex = None
  /\ publishCh' = conn /\ replyCh' = replyCh /\ GoTo("up")
  /\ UNCHANGED <<state, conn, mutex, calls, job, cancelled, shut, consume, broker>>

(* setupChannels opens both channels before it keeps either.               *)
(* Nothing else sees them before that, so opening and keeping are one step. *)
SetupChannels ==
  /\ loop.pc = "setup" /\ conn # None /\ conn \in alive /\ mutex = None
  /\ publishCh' = conn /\ replyCh' = conn
  /\ GoTo("up")
  /\ UNCHANGED <<state, conn, mutex, calls, job, cancelled, shut, consume, broker>>

SetupFails ==
  /\ loop.pc = "setup"
  /\ Close(loop.conn) /\ conn' = None /\ NextAttempt
  /\ UNCHANGED <<publishCh, replyCh, mutex, calls, job, cancelled, shut, consumer, running>>

Up ==
  /\ loop.pc = "up" /\ state' = "connected"
  /\ loop' = [loop EXCEPT !.pc = "top", !.starting = FALSE]
  /\ UNCHANGED <<channels, mutex, calls, job, cancelled, shut, consume, broker>>

(* NotifyClose on a connection that is closed already returns a closed     *)
(* channel, which ends the loop as an orderly close does.                  *)
NotifyClose ==
  /\ loop.pc = "top"
  /\ loop' = IF conn \in alive
             THEN [loop EXCEPT !.pc = "watch", !.conn = conn]
             ELSE [loop EXCEPT !.pc = "done"]
  /\ UNCHANGED <<state, channels, mutex, calls, job, cancelled, shut, consume, broker>>

(* Mutant: the loop ends with the first lost connection.                   *)
WatchOnce ==
  /\ loop.pc = "watch" /\ (cancelled \/ loop.conn \notin alive) /\ GoTo("done")
  /\ UNCHANGED <<state, channels, mutex, calls, job, cancelled, shut, consume, broker>>

(* The select between runCtx and the close notification.                   *)
Watch ==
  /\ loop.pc = "watch"
  /\ \/ cancelled /\ GoTo("done")
     \/ /\ loop.conn \notin alive
        /\ GoTo(IF state = "shutting" THEN "done" ELSE "lost")
  /\ UNCHANGED <<state, channels, mutex, calls, job, cancelled, shut, consume, broker>>

Lost ==
  /\ loop.pc = "lost" /\ state' = "disconnected" /\ GoTo("fail")
  /\ UNCHANGED <<channels, mutex, calls, job, cancelled, shut, consume, broker>>

FailCalls ==
  /\ loop.pc = "fail" /\ FailPending("lost") /\ GoTo("clear")
  /\ UNCHANGED <<state, channels, mutex, job, cancelled, shut, consume, broker>>

(* The three clean-ups; the first needs publishMu, and a publisher holds   *)
(* that while it waits for its confirm.                                    *)
Clear ==
  /\ loop.pc = "clear" /\ mutex = None
  /\ conn' = None /\ publishCh' = None /\ replyCh' = None
  /\ state' = "connecting" /\ loop' = [loop EXCEPT !.pc = "check", !.attempt = 1]
  /\ UNCHANGED <<mutex, calls, job, cancelled, shut, consume, broker>>

Loop ==
  \/ CheckContext \/ (\E k \in Conns : Dial(k)) \/ DialFails \/ SetupChannels \/ SetupFails
  \/ Up \/ NotifyClose \/ Watch \/ Lost \/ FailCalls \/ Clear

-----------------------------------------------------------------------------
(* Shutdown, called once Start has returned.                               *)

ShutdownBegin ==
  /\ shut = "no" /\ ~loop.starting
  /\ state' = "shutting" /\ cancelled' = TRUE /\ shut' = "fail"
  /\ UNCHANGED <<channels, mutex, calls, job, loop, consume, broker>>

ShutdownFailCalls ==
  /\ shut = "fail" /\ FailPending("shutting") /\ shut' = "wait"
  /\ UNCHANGED <<state, channels, mutex, job, loop, cancelled, consume, broker>>

ShutdownWait ==
  /\ shut = "wait" /\ running = {} /\ shut' = "close"
  /\ UNCHANGED <<state, channels, mutex, calls, job, loop, cancelled, consume, broker>>

ShutdownClose ==
  /\ shut = "close"
  /\ publishCh' = None /\ replyCh' = None /\ conn' = None
  /\ IF conn = None THEN UNCHANGED <<broker, ready>>
                    ELSE Close(conn)
  /\ shut' = "join"
  /\ UNCHANGED <<state, mutex, calls, job, loop, cancelled, consumer, running>>

ShutdownReturn ==
  /\ shut = "join" /\ loop.pc \in {"new", "done"} /\ shut' = "ok"
  /\ UNCHANGED <<state, channels, mutex, calls, job, loop, cancelled, consume, broker>>

ShutdownLate ==
  /\ shut \in {"wait", "join"} /\ shut' = "late"
  /\ UNCHANGED <<state, channels, mutex, calls, job, loop, cancelled, consume, broker>>

-----------------------------------------------------------------------------
(* Publish and Call.                                                       *)

(* Mutant: a return path without the deferred unlock.                      *)
EndHolding(j, out) ==
  /\ job' = [job EXCEPT ![j].pc = "done", ![j].out = out]
  /\ mutex' = mutex /\ pending' = pending \ {j}

(* A job ends: the deferred calls release the mutex and forget the call.   *)
End(j, out) ==
  /\ job' = [job EXCEPT ![j].pc = "done", ![j].out = out]
  /\ mutex' = IF mutex = j THEN None ELSE mutex
  /\ pending' = pending \ {j}

Step(j, pc) == job' = [job EXCEPT ![j].pc = pc]

(* The state is read; a call reads the name of the reply queue too.        *)
Begin(j, kind) ==
  /\ job[j].pc = "idle" /\ ~loop.starting
  /\ IF state # "connected" \/ (kind = "call" /\ replyCh = None)
     THEN job' = [job EXCEPT ![j].pc = "done", ![j].out = "refused"]
     ELSE job' = [job EXCEPT ![j].kind = kind, ![j].replyTo = replyCh,
                             ![j].pc = IF kind = "call" THEN "register" ELSE "lock"]
  /\ UNCHANGED <<state, channels, mutex, calls, loop, cancelled, shut, consume, broker>>

Register(j) ==
  /\ job[j].pc = "register" /\ Step(j, "lock")
  /\ pending' = pending \cup {j}
  /\ UNCHANGED <<state, channels, mutex, box, loop, cancelled, shut, consume, broker>>

(* publishMu, the second look at the state and the test of the channel.    *)
Lock(j) ==
  /\ job[j].pc = "lock" /\ mutex = None
  /\ \/ /\ state # "connected" \/ publishCh = None
        /\ End(j, "refused")
     \/ /\ state = "connected" /\ publishCh # None
        /\ mutex' = j /\ Step(j, "send") /\ UNCHANGED pending
  /\ UNCHANGED <<state, channels, box, loop, cancelled, shut, consume, broker>>

(* The channel is read again to publish on it, and Shutdown, which does    *)
(* not take publishMu, may have set it to nil.                             *)
Send(j) ==
  /\ job[j].pc = "send"
  /\ \/ publishCh = None /\ End(j, "panic") /\ UNCHANGED wire
     \/ /\ publishCh # None /\ publishCh \notin alive
        /\ End(j, "failed") /\ UNCHANGED wire
     \/ /\ publishCh # None /\ publishCh \in alive
        /\ wire' = [wire EXCEPT ![publishCh] = Append(@, j)]
        /\ job' = [job EXCEPT ![j].pc = "confirm", ![j].ch = publishCh]
        /\ UNCHANGED <<mutex, pending>>
  /\ UNCHANGED <<state, channels, box, loop, cancelled, shut, consume,
                 alive, dialled, stored, confirms>>

(* Mutant: a negative confirm counts like a positive one.                  *)
ConfirmedUnchecked(j) ==
  LET k == job[j].ch IN
  /\ job[j].pc = "confirm" /\ confirms[k] # None
  /\ confirms' = [confirms EXCEPT ![k] = None]
  /\ job' = [job EXCEPT ![j].pc = IF job[j].kind = "call" THEN "reply" ELSE "done",
                        ![j].confirmed = TRUE]
  /\ mutex' = None
  /\ UNCHANGED <<state, channels, calls, loop, cancelled, shut, consume,
                 alive, dialled, wire, stored>>

(* The next confirm is taken for the answer to this message.               *)
Confirmed(j) ==
  LET k == job[j].ch IN
  /\ job[j].pc = "confirm" /\ confirms[k] # None
  /\ confirms' = [confirms EXCEPT ![k] = None]
  /\ \/ ~confirms[k].ack /\ End(j, "failed")
     \/ /\ confirms[k].ack /\ job[j].kind = "publish"
        /\ job' = [job EXCEPT ![j].pc = "done", ![j].out = "sent", ![j].confirmed = TRUE]
        /\ mutex' = None /\ UNCHANGED pending
     \/ /\ confirms[k].ack /\ job[j].kind = "call"
        /\ job' = [job EXCEPT ![j].pc = "reply", ![j].confirmed = TRUE]
        /\ mutex' = None /\ UNCHANGED pending
  /\ UNCHANGED <<state, channels, box, loop, cancelled, shut, consume,
                 alive, dialled, wire, stored>>

(* The library closes the confirms with the connection.                    *)
ConfirmsClosed(j) ==
  /\ job[j].pc = "confirm" /\ job[j].ch \notin alive /\ confirms[job[j].ch] = None
  /\ End(j, "lost")
  /\ UNCHANGED <<state, channels, box, loop, cancelled, shut, consume, broker>>

ConfirmTimeout(j) ==
  /\ job[j].pc = "confirm" /\ End(j, "timeout")
  /\ UNCHANGED <<state, channels, box, loop, cancelled, shut, consume, broker>>

TakeReply(j) ==
  /\ job[j].pc = "reply" /\ box[j] # "empty"
  /\ End(j, IF box[j] = "reply" THEN "answered" ELSE "lost")
  /\ UNCHANGED <<state, channels, box, loop, cancelled, shut, consume, broker>>

CallTimeout(j) ==
  /\ job[j].pc = "reply" /\ End(j, "timeout")
  /\ UNCHANGED <<state, channels, box, loop, cancelled, shut, consume, broker>>

Continue(j) ==
  \/ Register(j) \/ Lock(j) \/ Send(j) \/ Confirmed(j) \/ ConfirmsClosed(j)
  \/ ConfirmTimeout(j) \/ TakeReply(j) \/ CallTimeout(j)

-----------------------------------------------------------------------------
(* The broker and the library (external).                                  *)

(* A message on the wire is stored and confirmed, or refused.  The Go      *)
(* channel holds one confirm; the library waits to deliver the next.       *)
Accept(k, ack) ==
  /\ wire[k] # <<>> /\ confirms[k] = None
  /\ wire' = [wire EXCEPT ![k] = Tail(@)]
  /\ stored' = IF ack THEN stored \cup {Head(wire[k])} ELSE stored
  /\ confirms' = [confirms EXCEPT ![k] = [job |-> Head(wire[k]), ack |-> ack]]
  /\ UNCHANGED <<state, channels, mutex, calls, job, loop, cancelled, shut, consume,
                 alive, dialled>>

(* consumeReplies: a reply finds its call in the map, or is dropped.       *)
ReplyArrives(j) ==
  /\ j \in stored /\ job[j].kind = "call" /\ job[j].replyTo \in alive
  /\ j \in pending /\ box[j] = "empty"
  /\ box' = [box EXCEPT ![j] = "reply"]
  /\ UNCHANGED <<state, channels, mutex, pending, job, loop, cancelled, shut, consume, broker>>

Break(k) ==
  /\ k \in alive /\ Close(k)
  /\ UNCHANGED <<state, channels, mutex, calls, job, loop, cancelled, shut, consumer, running>>

-----------------------------------------------------------------------------
(* The consumers and their handlers.                                       *)

SetConsumer(q, pc, ch) == consumer' = [consumer EXCEPT ![q] = [pc |-> pc, ch |-> ch]]

(* Mutant: a consumer that finds the client disconnected ends.             *)
ConsumerEndsEarly(q) ==
  /\ consumer[q].pc = "loop" /\ (cancelled \/ state # "connected")
  /\ SetConsumer(q, "done", None)
  /\ UNCHANGED <<state, channels, mutex, calls, job, loop, cancelled, shut, running, ready, broker>>

(* The top of runConsumer: it ends, waits, or subscribes on the connection. *)
ConsumerEnds(q) ==
  /\ consumer[q].pc = "loop" /\ (cancelled \/ state \in {"shutting", "disabled"})
  /\ SetConsumer(q, "done", None)
  /\ UNCHANGED <<state, channels, mutex, calls, job, loop, cancelled, shut, running, ready, broker>>

Subscribe(q) ==
  /\ consumer[q].pc = "loop" /\ state = "connected" /\ conn # None /\ conn \in alive
  /\ SetConsumer(q, "serve", conn)
  /\ UNCHANGED <<state, channels, mutex, calls, job, loop, cancelled, shut, running, ready, broker>>

Dispatch(q) ==
  /\ consumer[q].pc = "serve" /\ Serving(q, consumer[q].ch) /\ q \in ready
  /\ ready' = ready \ {q} /\ running' = running \cup {<<q, consumer[q].ch>>}
  /\ UNCHANGED <<state, channels, mutex, calls, job, loop, cancelled, shut, consumer, broker>>

(* The deliveries end with the subscription, or runCtx is done and the     *)
(* channel is closed: what was not acknowledged goes back.                 *)
DispatchEnds(q) ==
  LET k == consumer[q].ch IN
  /\ consumer[q].pc = "serve" /\ (cancelled \/ ~Serving(q, k))
  /\ SetConsumer(q, "loop", None)
  /\ ready' = IF Serving(q, k) /\ <<q, k>> \in running THEN ready \cup {q} ELSE ready
  /\ UNCHANGED <<state, channels, mutex, calls, job, loop, cancelled, shut, running, broker>>

(* A handler returns: its acknowledgement counts while the subscription is *)
(* open.                                                                   *)
HandlerEnds(q, k, ok) ==
  /\ <<q, k>> \in running /\ running' = running \ {<<q, k>>}
  /\ ready' = IF Serving(q, k) /\ ~ok THEN ready \cup {q} ELSE ready
  /\ UNCHANGED <<state, channels, mutex, calls, job, loop, cancelled, shut, consumer, broker>>

Consumer(q) == ConsumerEnds(q) \/ Subscribe(q) \/ DispatchEnds(q)
Handler     == \E q \in Queues, k \in Conns, ok \in BOOLEAN : HandlerEnds(q, k, ok)

-----------------------------------------------------------------------------
Shutdown ==
  \/ ShutdownFailCalls \/ ShutdownWait \/ ShutdownClose \/ ShutdownReturn \/ ShutdownLate

Next ==
  \/ Start \/ Loop \/ ShutdownBegin \/ Shutdown \/ Handler
  \/ \E q \in Queues : Consumer(q) \/ Dispatch(q)
  \/ \E j \in Jobs : (\E kind \in Kinds : Begin(j, kind)) \/ Continue(j)
                     \/ ReplyArrives(j)
  \/ \E k \in Conns : (\E ack \in BOOLEAN : Accept(k, ack)) \/ Break(k)

Spec == Init /\ [][Next]_vars

(* The goroutines go on; the broker, the network and the workload need not. *)
FairSpec ==
  /\ Spec /\ WF_vars(Start) /\ WF_vars(Loop) /\ WF_vars(Shutdown) /\ WF_vars(Handler)
  /\ \A q \in Queues : WF_vars(Consumer(q))
  /\ \A j \in Jobs : WF_vars(Continue(j))

-----------------------------------------------------------------------------
(* The variables have their types, and a free mutex has no holder inside.  *)
TypeOK ==
  /\ state \in States
  /\ {conn, publishCh, replyCh} \subseteq Conns \cup {None}
  /\ mutex \in Jobs \cup {None} /\ pending \subseteq Jobs /\ box \in [Jobs -> Boxes]
  /\ job \in [Jobs -> [pc : JobPC, kind : {"publish", "call"}, replyTo : Conns \cup {None},
                       ch : Conns \cup {None}, confirmed : BOOLEAN, out : Outcome]]
  /\ loop \in [pc : LoopPC, conn : Conns \cup {None}, attempt : 0..Attempts, starting : BOOLEAN]
  /\ cancelled \in BOOLEAN /\ shut \in ShutPC
  /\ consumer \in [Queues -> [pc : {"loop", "serve", "done"}, ch : Conns \cup {None}]]
  /\ running \subseteq Queues \X Conns /\ ready \subseteq Queues
  /\ alive \subseteq dialled /\ dialled \subseteq Conns /\ stored \subseteq Jobs
  /\ wire \in [Conns -> Seq(Jobs)]
  /\ confirms \in [Conns -> Confirm \cup {None}]
  /\ \A j \in Jobs : job[j].pc \in {"send", "confirm"} <=> mutex = j

(* A confirmed message is in the broker, unless an earlier publisher on    *)
(* that channel gave up waiting and left its confirm behind (publishBytes). *)
ConfirmedIsStored ==
  \A j \in Jobs : job[j].confirmed =>
    \/ j \in stored
    \/ \E i \in Jobs \ {j} : job[i].out = "timeout" /\ job[i].ch = job[j].ch

(* A call that is no longer registered was told why: nobody who takes a    *)
(* call out of the map leaves it waiting (failPendingRPCs, Call).          *)
NoForgottenCall ==
  \A j \in Jobs : job[j].kind = "call" /\ job[j].pc \in {"lock", "send", "confirm", "reply"}
                    => j \in pending \/ box[j] # "empty"

(* While a connection is watched and not being shut down, the channel that *)
(* publishes and the queue that takes replies are both its own.            *)
ChannelsOfOneConnection ==
  loop.pc = "watch" /\ shut \in {"no", "fail", "wait"} =>
    conn = loop.conn /\ publishCh = conn /\ replyCh = conn /\ state \in {"connected", "shutting"}

(* A watched connection that is lost is replaced, or the client gives up   *)
(* or shuts down, although a publisher may hold publishMu (reconnectLoop). *)
LossIsRepaired ==
  \A k \in Conns : (loop.pc = "watch" /\ loop.conn = k /\ k \notin alive)
                     ~> (loop.conn # k \/ state = "disabled" \/ cancelled)

(* Once a connection stays up, the consumer is subscribed on it and on     *)
(* none other (runConsumer).                                               *)
ConsumerResumes ==
  <>[](state = "connected" /\ conn \in alive /\ ~cancelled)
    => <>[](\A q \in Queues : consumer[q].pc = "serve" /\ consumer[q].ch = conn)
=============================================================================
