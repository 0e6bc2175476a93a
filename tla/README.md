# A TLA+ project for whaticket-community

Whaticket is a shared WhatsApp inbox: agents answer customers' chats from one
web page. The repository holds a Go **backend** (REST API, WebSocket hub,
PostgreSQL), a Go **worker** that owns the WhatsApp clients (the `whatsmeow`
library), RabbitMQ between the two, and a React **frontend**. This directory
models the parts whose correctness depends on the order in which things happen,
checks them with TLC, and proves the main results with TLAPS.

## Inventory

| Part | State it keeps | Operations | Hard behaviour |
|---|---|---|---|
| Tickets `backend/internal/ticket` | `tickets` rows; advisory locks per (contact, connection); row locks | `FindOrCreate` for inbound messages, `POST/PUT/DELETE /tickets`, `UpdateLastMessage`, `UpdateQueue`, `SetMessagesAsRead`, list | several SQL statements per request, only `FindOrCreate` locks; update by id from a stale row; WebSocket events built from what the request saw |
| Users `backend/internal/user` | `users`, `user_queues` | CRUD; deleting a user rewrites his tickets | row locks of a deletion against the advisory lock |
| Contacts `contact` | `contacts` (unique number, unique lid) | `CreateOrUpdate` on each message, merge of number and LID rows, REST CRUD | two deliveries insert the same contact; merge inside a transaction; unique violations requeue the message |
| Messages `message` | `messages` (id of WhatsApp, ack, deleted) | inbound create, list + mark read, send, delete | send is an RPC to the worker followed by an insert; ack by `GREATEST` on insert, unconditional on receipt |
| WhatsApp connections `whatsapp` | `whatsapps` (status, session, qrcode, retries, default) | CRUD, start/restart, logout, bootstrap at boot | commands and events cross each other in queues; one default connection |
| Event consumer `waevents` | debounce timers of the greeting | one handler per event type: qr, connected, logged out, restored, message, receipt | 16 deliveries at a time, unordered; a handler error requeues; a receipt before its message |
| WebSocket hub `ws` | clients, channels, both directions of the subscription map | register, subscribe, publish, slow consumer, shutdown | non-blocking sends on bounded buffers, registration racing shutdown |
| Broker client `rmq` (the same files in backend and worker) | connection state, channels, pending RPCs, wait groups | start, publish with confirm, consume, call, reply, reconnect, shutdown | reconnection races shutdown; confirms are not matched; redelivery repeats an RPC's effect |
| Queues, settings, quick answers | their tables | CRUD | uniqueness by constraint |
| Auth `auth` | tokens (stateless), `token_version` of the user | login, refresh, logout, middleware | a token outlives a change of the user |
| Session manager `worker/internal/whatsmeow` | `sessions`, `kills`, `connecting`, `handlerWG` | start, stop, logout, pairing, reconnection, events, shutdown | goroutines that clean up by connection id, shared kill channels, `WaitGroup` counts |
| Commands `worker/internal/command` | - | session commands; RPCs to send, edit, delete, query | concurrent handlers, requeue on error |
| Device metadata `worker/internal/whatsmeow/devicemeta.go` | connection <-> device JID | set, get, delete, restore at boot | two unique keys, upsert on one |
| Link preview, media, config, health, migrations, `cmd/*` | files, HTTP | I/O and wiring | order of shutdown |
| Frontend `frontend/src` | reducers of tickets, messages, contacts | WebSocket events and page loads | an event between a page load and its answer |

How they interact. An inbound message is published by the session's event
handler, consumed by `waevents`, which upserts the contact, calls
`FindOrCreate`, stores the message and emits WebSocket events. An agent's REST
request changes a ticket or calls the worker by RPC. The backend sends
`session.start/stop/logout` commands; the worker answers with lifecycle events
that set the status of the `whatsapps` row.

What makes each part correct:

- *Tickets*: messages of a conversation go to one live ticket; an open ticket
  has an owner whom only an admin or himself can replace; no request blocks for ever.
- *Session manager*: events are published once; the wait group is exact, so it
  never panics; a killed session ends, unless the manager's mutex is lost; after a clean
  shutdown nothing runs but what was launched after it.
- *Broker client*: the publish channel and the reply queue belong to the live
  connection; what was confirmed is stored; a call that is forgotten was told why;
  a lost connection is replaced, and the consumer follows.
- *Inbound*: an acknowledged message is stored, in a ticket of its person; its ack
  never goes down; every message is stored in the end.
- *Connections*: there stays a default connection; each status that is written is
  broadcast; the session of a deleted row ends.
- *WebSocket hub*: the two maps agree, a subscriber misses nothing in silence, a
  closed client leaves.
- *Sending*: what is recorded was sent; a refused message was not; files arrive in
  order; a repetition needs a fault; replacing menus never loses the last one.

## Modules

| Module | Composes / abstract specification | Status |
|---|---|---|
| `Tickets` | implements `ConversationSlots` | checked, proved (type, inbound uniqueness, the refinement, owners when requests do not overlap, locks that neither leak nor deadlock) |
| `Sessions` | - | checked, proved (type, wait group, events, shutdown, the connecting flag) |
| `Inbound`: contact upsert and merge, message upsert, receipts, sends, redelivery, faults | implements `ChatHistory`; takes `FindOrCreate` as one step, as `Tickets` justifies | checked, proved (type, nothing lost, acks kept, right chat, events conserved, the refinement) |
| `RmqClient`: connection, reconnection, publishing, calls, consumers, shutdown | - | checked, proved (type, calls, channels, confirms, one connection) |
| `WsHub`: hub, clients, pumps, publishers, shutdown | implements `Broadcast` | checked, proved (type, maps, authorisation, nothing missed or delivered twice, closed clients attended, the refinement) |
| `Connections`: rows, requests, commands, lifecycle events, sessions, restarts | composes backend and worker over both queues; its sessions have fewer states than those of `Sessions`, and no refinement between the two is shown | checked, proved (type, default kept and single, no deadlock, statuses told) |
| `Outbound`: sends, files, menu and greeting, every worker RPC, replies, faults | composes backend and worker over `worker.rpc`; the client's side of a call is that of `RmqClient`, coarser | checked, proved (all its properties) |

Each `MC` module gives the constants of its module their values for TLC. What is
left: a composition of `Tickets` with the frontend's reducers (its lists are
rendered from events and page loads), and the CRUD of the remaining tables, which
has no behaviour beyond a statement.

## Tickets

`Tickets.tla` models the ticket service. A request is a process with a program
counter; a step is one SQL statement (or one transaction, at its commit), and what a
request read earlier stays in its locals.

| Action | Code |
|---|---|
| `FocCall`, `FocLock`, `FocFind`, `FocFindRecent`, `FocUpdate`, `FocInsert`, `FocInsertFails` | `findorcreate.go`: the transaction under `pg_advisory_xact_lock`, its three SELECTs and its one write; the lock goes with the commit |
| `StoreCheck`, `StoreInsert` | `POST /tickets`: look for a live ticket (409), insert |
| `UpdateLoad`, `UpdateWrite` | `PUT /tickets/{id}`: load, authorise (`CanModify`, `MayAssign`), plan the change (`Plan`), write by id |
| `DeleteLoad`, `DeleteWrite` | `DELETE /tickets/{id}` |
| `Touch` | `UpdateLastMessage`, `UpdateQueue`, `SetMessagesAsRead` |
| `PurgeBegin`, `PurgeCommit` | deleting a user: his open tickets go back to pending under row locks, in one transaction |
| `Reload`, `Emit` | reading the row back for the answer and the WebSocket event |
| `Crash` | the backend restarts: requests vanish, advisory locks are released, rows stay |
| `Tick` | the clock behind "two hours" |

`via` is a history variable: whether a message or an agent made a ticket live.

| Run | Instance | Shows |
|---|---|---|
| `tickets_concurrent` | 2 tickets, 1 conversation, 2 requests of any kind, user deletion, restarts | `InboundUnique`: messages never hold two live tickets of a conversation; `SlotsImplemented`: the table implements `ConversationSlots`; `FindOrCreateReturns` |
| `tickets_serial` | 1 request at a time by one agent or one admin, a queue, user deletion | `OpenIsOwned`, `OwnerIsRespected` for sequences of legal requests |

*Bounds.* Two requests suffice for every pairwise race. Two tickets are the one a
request found and the one that another made live meanwhile; ids are used once, and an
insert without an id left fails, as an insert may (`FocInsertFails`).
`ReopenWindow` and `MaxNow` are the two hours and the clock: one tick tells
recent from old.

*Fairness.* Weak fairness of each request's steps: a goroutine with an open
transaction continues, and PostgreSQL grants a lock whose holder has gone.
Advisory locks are granted in FIFO order, which strong fairness of `FocLock` stands for.
Nothing says a request must arrive or a crash must stop.

*Proved* (`TicketsProofs.tla`, for any tickets, conversations, requests, users,
queues and clock bound). `TypeCorrect`; `InboundUniqueness`. The uniqueness
is not inductive: a request about to write may already have lost the race. The
strengthening says that a request past `FocFind` holds the lock of its
conversation, that no two requests hold the same lock, and that what it
found, no inbound-made live ticket, stays true while it holds the lock,
because every other step either works under the lock or marks its ticket as
an agent's.
`ImplementsSlots` (`SlotsImplemented`): the slot of a conversation is a function
of its rows, so a step that writes no row stutters, and one that writes a row
moves one slot the way `ConversationSlots` allows; the invariant added is that an id
not used yet has no row (`UnusedIsBare`). `OpenTicketsAreOwned` and
`OwnersAreRespected` (`OpenIsOwned`, `OwnerIsRespected`) assume that at most one
request exists at a time, as `tickets_serial` does: then what a request read is still
true when it writes (`Sound`). The assumption is needed: a ticket opened for a user
while his deletion commits is left open without an owner.
`LocksAreHeld` and `LocksNeverDeadlock` are the safety half of
`FindOrCreateReturns`. Their invariant, `LockInv`, is the one above and two facts:
an advisory lock is held exactly by the request between `FocLock` and its commit
(`LockIsHeld`), so no early return, failed insert or restart leaks it, and only the
transaction of a user's deletion keeps row locks from one step to another
(`HeldByPurge`). Then nobody waits in a circle: who waits for an advisory lock waits for
a request that at most waits for a row, and who waits for a row waits for a deletion of a
user, which waits for nobody (`NoCircle`).

## Sessions

`Sessions.tla` models `Manager` and the goroutines of `session.go`. A step is
what runs between two acquisitions of the mutex; goroutines are the
identities of client, context and kill channel, so "the session of
connection 5" is whichever goroutine is in `sessions` at that moment.

One method waits while it holds the mutex: `Manager.Set` takes the event handler off
the client it replaces (`manager.go:58-69`), which waits for calls of that handler that are
running, and these ask for the mutex (`SendKill`, `Get`). So `Set` is two steps,
`mutex` names the goroutine between them, and every other step that takes the mutex
is one that waits until it is free (`Locking`). `evicted` and `receiving` are the
handlers that have yet to ask for it. `Delete` and `Shutdown` take handlers off
as well, but after they released it.

| Action | Code |
|---|---|
| `StartGet`, `TryStartConnect`, `Launch` | `handleSessionStart`, `StartSession`: the looks at the session, then the goroutine. A connection that is not in `sessions` is not connected either, so the two looks before `TryStartConnect` are one step |
| `Stop`, `LogoutGet`, `LogoutKill` | `handleSessionStop`, `handleSessionLogout` |
| `ResolveDevice`, `SetLock`, `Set`, `RegisterKill`, `Dial`, `PairConnect`, `PairEnd`, `Wait` | `sessionGoroutine`, `runReconnect`, `runQRPairing`; `PairEnd` has the closed QR channel, which returns without killing the connection, beside the timeout and the error, which kill it |
| `ClearConnecting`, `Delete`, `Detach`, `CleanupKill` | the deferred calls in the order they run; the last also gives back the goroutine's count |
| `Drop`, `Redial` | the library loses a link and dials again (external) |
| `Evicted`, `EvictedKill` | `dispatch` of LoggedOut, StreamReplaced, TemporaryBan: publish, then kill by id |
| `Receive`, `ReceiveGet` | `dispatch` of a message: the handler looks up its session |
| `ShutdownBegin`, `ShutdownCancel`, `ShutdownOne`, `ShutdownWait`, `ShutdownReturn` | `Manager.Shutdown`: its context bounds the wait only, not the loop that takes the handlers off |

| Run | Instance | Shows |
|---|---|---|
| `sessions` | 1 connection, 2 goroutines; stop, logout, drop, evict, message, shutdown | `WaitGroupExact`, `EventsOnce`, `CleanShutdown`, `KilledSessionsEnd` |

*What the properties say.* `CleanShutdown` holds in every state after a `Shutdown` that
returned before its deadline: what runs, publishes or has a handler attached
was launched after that return. The exception is in the code: `StartSession` looks at the
shutdown in `TryStartConnect` and not again when it launches (`session.go:45-50`), and the
worker shuts the manager down before the broker's consumers (`main.go:132-135`).
`late` is the history variable that names these goroutines. What the property
forbids is that one that was launched earlier survives: replaced, registered during the shutdown
or missed by its loop. `KilledSessionsEnd` says that a session whose kill channel
is closed ends, or that the manager is deadlocked in `Set` (`Deadlocked`); nothing else,
no successor, lost link, pairing or shutdown, keeps it from ending.

*Bounds.* Connections share the mutex, the wait group and the shutdown; one
connection shows the races within it, and the proofs cover more. Two goroutines are an old
one that cleans up and its successor, and enough for a shared kill channel and for the
deadlock. The worker starts any
number of goroutines; the bound is that no further one is launched when `Gos` is
used up, so the run does not check deadlock: a worker without commands is at rest.

*Fairness.* `FairSpec` has weak fairness of each goroutine, of each running call of an
event handler (the Go scheduler) and of the shutdown. Weak fairness is enough for the
mutex, since it is held across steps by `Set` only. Pairing ends because the QR codes run
out. No command, event or reconnection has to happen.

*Proved* (`SessionsProofs.tla`, for any finite sets of connections and
goroutines). The invariant `IInv` adds to the type what the program counters say
(`Shape`): a victim exists exactly between `Delete` and `Detach`, a
registered goroutine is past `Set` and knows its connection, an attached one is past
`ResolveDevice`. With it `WaitGroupExact` is inductive, by adding or
removing one element of the three counted sets; `EventsOnce` is inductive
relative to it. `ShutdownIsClean` (`CleanShutdown`): when `Shutdown` returns, a zero
count empties the three sets, and with them goes every handler; afterwards a
goroutine can only begin with `Launch`, which puts it into `late`.
`StartsAreNotRefusedForEver`: while a connection is
marked as connecting, a handler is about to launch its goroutine, or a goroutine of
that connection has yet to register or to run `ClearConnecting` (`FlagIsLowered`).
A leaked mark would make `StartSession` refuse the connection until the worker
restarts; the theorem covers failed look-ups of the device, kills and shutdown at
every point in between.

## Inbound

`Inbound.tla` models what happens to the events the worker publishes: RabbitMQ
delivers each at least once, up to 16 at a time, so the queue is a set and any
number of handlers run. A handler's SQL statements and transactions are its
steps; an error in a message handler puts the delivery back.

| Action | Code |
|---|---|
| `Take`, `Ack`, `Nack` | `dispatchLoop`, `dispatchDelivery` of `rmq/consumer.go` |
| `FindByNumber`, `FindByLid`, `WriteContact` | `contact.CreateOrUpdate`: the two lookups, and `merge` at its commit, with the two unique indexes |
| `FindOrCreate` | the call of `ticket.FindOrCreate`, one step, because it holds the conversation's lock (`Tickets`) |
| `Create`, `LastMessage` | `message.Create`: the upsert; then the row is read back and the ticket's text is set |
| `UpdateAck` | `handleReceipt`, `updateAckWithRetry` |
| `SendRpc`, `SendRecord` | `POST /messages/{ticketId}`: the RPC, then the same upsert |
| `CloseTicket`, `DeleteMessage`, `DeleteTicket`, `DeleteContact` | the agents' requests, with the cascades of the schema |
| `DbError`, `ConnectionLost`, `Crash` | a statement fails; the broker takes back what is unacknowledged while the handlers go on; the backend dies |

A person has a number and a LID, and an event carries one of them or both
(`Resolve`, from `resolveContactJID` and `jidToNumber`): with a LID only, its
digits become the number, so one person may get two contact rows. `removed` is a
history variable, the messages that an agent deleted, alone or by a cascade. An
acknowledgement of a delivery from a lost connection has no effect (`valid`).

| Run | Instance | Shows |
|---|---|---|
| `inbound` | 2 people, 3 messages in every form of address, 2 handlers, deletions, 1 fault | `NothingLost`; `RightChat`: a stored message is in a ticket of the person it was exchanged with; `HistoryImplemented`: the tables implement `ChatHistory` |
| `inbound_redelivery` | 1 person, 2 messages, 1 sent by an agent, receipts, 1 fault | `UpsertKeepsAck`; `EveryMessageStored` when the person's events name both addresses, so it says nothing of the merge of two rows |
| `inbound_ack` | 2 handlers | finding: receipts in the wrong order lower an ack |

*Bounds.* A race needs two handlers; a third message is what makes the two rows
of a person meet, or another person's chat stand by. Row ids are used once. `MaxFaults`
bounds crashes, lost connections, errors and deletions together: one at
each possible moment. A step is refused when ids run out, so the runs do not check
deadlock; a backend without events is at rest anyway.

*Fairness.* `FairSpec`: a handler goes on (weak fairness of `Handle`), and the
broker delivers each event again and again while it is ready (strong
fairness of `Take`, since other deliveries may take the handlers in turn).
Sends, deletions and faults never have to happen.

*Proved* (`InboundProofs.tla`, for any number of people, messages, rows and
handlers). `TypeCorrect`, `AcknowledgedIsStored` (`NothingLost`) and
`RedeliveryKeepsAck`. `NothingLost` alone is not inductive: the
strengthening (`Durable`) adds that a handler past `Create` has its
message stored or removed, and `Shape` that a handler works on an event of the kind
its program counter says. The lemmas sort the steps into those of one handler
that acknowledge nothing (`Quiet`), the upsert, the acknowledgement and the steps of the
others, which never shrink what is stored or removed.
`EventsAreConserved`: a published event is ready, acknowledged, or held by the one
handler that may acknowledge it (`EventIsInOnePlace`), so at-least-once delivery is
kept by the handlers too. A step of a handler keeps its delivery, gives it back or
settles it; a lost connection and a restart give back all that is held at once. It
needs `IdleIsFree`: a handler that waits for work has nothing left to acknowledge.
`InboundChatProofs.tla` proves `MessagesAreInTheirChat` (`RightChat`). What a handler
holds is a row it found some steps ago, so the invariant says what such a row can have
become: a contact found for a person is still that person's or is deleted
(`ContactsEvolve`), and a ticket found for a contact still belongs to it, or to
the row it was merged into, unless either was deleted (`TicketsEvolve`).
`ImplementsHistory` (`HistoryImplemented`) maps the tables to one history per person: the
stored messages whose ticket belongs to a contact of that person. `ChatHistory` only
lets a message enter the history of its own person, leave it by an agent's hand, and be
settled once it is in it or was removed. A merge rewrites and deletes contact rows
and must therefore map to a stutter, which is where `RightChat`'s invariant
is used; a deletion of a ticket or a contact maps to one removal of all its messages.

*Left out.* Events that a filter drops (groups, broadcasts, messages without id
or sender, echoes of the farewell text) and undecodable ones, which are
acknowledged or rejected without a write; a panic in a handler, which rejects
its delivery; texts, names, the read flag and unread counters. The queue menu
and its debounced greeting are in `Outbound`.

## RmqClient

`RmqClient.tla` models the broker client of `backend/internal/rmq`; the worker has
the same files. A connection is used once, and a publish channel, a reply queue or
a subscription is named by the connection it belongs to, so "the channel is of
another connection" can be said. Delivered confirms are a Go channel of capacity
one per connection, and what was written to a socket need not have arrived.

| Action | Code |
|---|---|
| `Start`, `CheckContext`, `Dial`, `DialFails`, `SetupChannels`, `SetupFails`, `Up` | `Start` and `connectWithRetry` of `client.go`, for the first connection and every later one; opening the channels (lines 251-295) and keeping them in the client (297-305) is one step, since nobody else sees them before they are kept |
| `NotifyClose`, `Watch`, `Lost`, `FailCalls`, `Clear` | `reconnectLoop`: the select, `failPendingRPCs`, and the clean-up that needs `publishMu` |
| `ShutdownBegin`, `ShutdownFailCalls`, `ShutdownWait`, `ShutdownClose`, `ShutdownReturn`, `ShutdownLate` | `Shutdown`; `Late` is its context ending |
| `Begin`, `Register`, `Lock`, `Send`, `Confirmed`, `ConfirmsClosed`, `ConfirmTimeout` | `publishBytes` of `publisher.go`, and `Call` of `rpc_client.go` around it |
| `TakeReply`, `CallTimeout` | the select of `Call` |
| `ConsumerEnds`, `Subscribe`, `Dispatch`, `DispatchEnds`, `HandlerEnds` | `runConsumer`, `dispatchLoop`, `dispatchDelivery` of `consumer.go` |
| `Accept`, `ReplyArrives`, `Break` | the broker, the worker and the network (external) |

| Run | Instance | Shows |
|---|---|---|
| `rmq_publish` | 2 connections, 2 jobs that publish or call, one attempt per connection | `ConfirmedIsStored`, `NoForgottenCall`, `ChannelsOfOneConnection` |
| `rmq_reconnect` | 2 connections, 1 job, 1 queue, 2 attempts | `LossIsRepaired`, `ConsumerResumes` |

*Bounds.* Two connections are the lost one and its successor; two jobs are the
one that gave up on a confirm and the one that finds it, or a publisher and a call.
The consumer shares only the state and the connection with the publishers, so
it is checked with one job. When the connections are used up, dialling fails, which
the code allows at any time.

*Fairness.* The goroutines go on: the loop, the shutdown, the jobs, the
consumers and the handlers, each by weak fairness. The broker never has to
accept, answer or stay up, and nobody has to publish; that is why
`ConsumerResumes` is conditional on a connection that stays up.

*What the properties say.* `ConfirmedIsStored` has the exception the code has: a
confirm that comes after its publisher gave up is read by the next one on that
channel. `NoForgottenCall` is the promise behind `failPendingRPCs`: a call waits
only while it is in the map or has its answer. It does not say that the answer comes: a
call that registers after `failPendingRPCs` waits on a reply queue that is gone until its
deadline, in the code and in the model.

*Proved* (`RmqClientProofs.tla`, for any connections, jobs, queues and attempts).
`TypeCorrect`, `NobodyForgetsACall`, `ChannelsBelongTogether`, `ConfirmsAreTrue`.
The type contains who holds `publishMu`: exactly the publisher between its lock and
its confirm. The channels agree because the fields of a client are set together in
`SetupChannels` and cleared together under that mutex, except by the shutdown. That a confirm is true needs an
account of every message: it is on a connection at most once (`OnceInv`), and while
it is there its publisher waits for it on that connection, or somebody on that
connection gave up (`OwnedInv`), so the confirm a publisher reads on a connection where nobody
gave up is its own. `NoConnectionLeaks`: a connection that is up is the one in
`c.conn` (`OneConnection`); so a failed set-up, a reconnection or the
shutdown never loses one that nobody would close, and consumers are never split
between two. Its invariant, `ConnInv`, says what the loop knows of the field at each
of its steps: it dials only when the field is empty, and the shutdown may empty it
behind its back.

## WsHub

`WsHub.tla` models `Hub`, `Client`, the handler and the shutdown. A client has a
program counter for the handler and `readPump` and one for `writePump`; a
publisher takes its targets under the mutex and offers to each without it.

| Action | Code |
|---|---|
| `Request`, `RegisterClient`, `Hello` | `Handle`: the look at the shutdown, the upgrade, `registerClient`, the connected frame |
| `Authorize`, `Deny`, `Subscribe`, `Unsubscribe`, `ReadError` | `readPump` and `authorizeSubscribe`; the check and the subscription are two steps |
| `SignalClose`, `UnregisterClient` | the deferred calls of `readPump` |
| `Write`, `WriterEnds`, `WriteFails`, `PingFails` | `writePump`: a frame; the end with a close frame, because the client is closed or its connection; a write that fails, whose frame has left the buffer and is lost; a ping that fails. Each end of the pump closes the connection (`gone`) |
| `Publish`, `Targets`, `OfferNext` | `Hub.Publish`: snapshot, then a non-blocking send to each; a full buffer closes the client |
| `ShutdownBegin`, `ShutdownSnapshot`, `ShutdownTell`, `ShutdownReturn`, `ForceCloseRemaining`, `ForceClose` | `Hub.Shutdown` |
| `PeerLeaves`, `Reassign` | the browser goes; a ticket changes hands, so that `CanSee` answers otherwise |

| Run | Instance | Shows |
|---|---|---|
| `ws_hub` | 1 client, 1 ticket, 2 publications, a buffer of 1, 2 frames of the client | `MapsAgree`, `NothingMissed`, `SubscribersWereAllowed`, `ClosedClientLeaves` |

A client is cut off when it is told to close (`closed`) or its connection is closed by
either end (`gone`). A frame that is being written counts as in the buffer until it is
written or lost, and it is lost in the step that closes the connection.
"notification" stands for every channel that everybody may have, the ticket lists by status
included (`authz.go:56-59`), and "system" for every name that is refused.
`Deny` may also meet an agent who may see the ticket, since `CanSee` can fail.
`SubscribersWereAllowed` is about the way in: a subscription that was once allowed is kept
when the ticket changes hands, in the code as in the model.
`NothingMissed` and the refinement promise nothing to a client that is cut off, and no
property forbids that a client registers after the shutdown took its snapshot.

*Bounds.* Clients share the mutex and the maps and nothing else, and each step
under the mutex is atomic, so one client shows every race with publishers and the
shutdown; the proofs cover the others. With a buffer of one, the second
publication finds it full.

*Fairness.* Weak fairness of the pumps, of publishers that started and of the
shutdown. A peer need not send, read to the end or leave.

*Proved* (`WsHubProofs.tla`, for any clients, tickets, publications and buffer size).
`TypeCorrect`, `MapsAlwaysAgree`, `SubscriptionsAreAllowed`, `NoFrameIsMissed`.
The maps agree by one lemma per way a step may change them. Authorisation
needs that a client between check and subscription was once allowed the
channel in its hand (`Checked`). That nothing is missed needs an account of each
publication: a client that was offered it and did not write it still has it in
its buffer, or is cut off (`Accounted`); the lemma about `Offer` says that a buffer
loses nothing when a frame is added.
`EachIsDeliveredOnce`: a publication is buffered for or written to only who was
subscribed when it was published, and once (`DeliveredOnce`); it assumes that a
publication is not one of the hub's own frames (`FramesApart`). `ImplementsBroadcast`
puts the two together: every step of the hub posts a publication to the clients then
subscribed, delivers it to one of them, cuts one off, loses what one that is cut off was owed, or
changes nothing of that (`Broadcast`). `ClosedAreAttended` is the safety half of
`ClosedClientLeaves`: while a client that was told to close is registered or
connected, one of its own goroutines has its next step before it, whatever the
peer does (`ClosedIsAttended`).

*Left out.* The period of pings and the deadlines (`PingFails` at any time stands for
them), the content of frames, the origin check and the token.

## Connections

`Connections.tla` composes both processes over their two queues: administrators'
requests with their transactions, the commands, the sessions of the worker, the
lifecycle events and their handlers, restarts of either process. A session is
coarser than in `Sessions`: one per connection, registered or not.

| Action | Code |
|---|---|
| `Create`, `Begin`, `Load`, `ScanDefaults`, `ClearDefaults`, `Write`, `Refused`, `Commit`, `Reload`, `SendCreated`, `SendUpdated` | `POST /whatsapp` and `PUT /whatsapp/{id}`: the transaction that keeps one default, its unique index, the re-read after the commit, the command with the new row or the new settings |
| `SetOpening`, `SendStart`, `SendFails` | `POST` (start) and `PUT` (restart) `/whatsappsession/{id}`: write OPENING, then publish `session.start` |
| `SendLogout`, `SetDisconnected` | `DELETE /whatsappsession/{id}`: publish `session.logout` first, write DISCONNECTED afterwards |
| `SendDeleted`, `Erase`, `TellDeleted` | `DELETE /whatsapp/{id}` |
| `Tell` | the WebSocket event of a request, with the copy it holds |
| `RequestFails` | a database error, or a client that went away, at any statement of a request: also at the re-read after the commit of a create or an update (`service.go:110-113`, `196-199`), when the row stays and nothing is published or broadcast |
| `ShowRestored`, `HandleStatus`, `ReloadRow`, `TellEvent`, `HandlerFails` | `waevents/lifecycle.go`; `HandlerFails` is an error, hence a redelivery |
| `StartSession`, `StopSession`, `LogoutSession`, `ApplySettings` | `worker/internal/command/handlers.go` |
| `Register`, `PairingCode`, `PairingEnds`, `Dial`, `Reconnected`, `Evicted` | `session.go` and `events.go`, with the device store of `devicemeta.go` |
| `WorkerRestart`, `AutoRestore`, `BackendRestart`, `StartAll` | `AutoRestoreFromContainer`, `StartAllSessions` |

`POST /whatsappsession/{id}/pairphone` is a call of the worker and part of `Outbound`.
A kill (`Kill`, from stop or logout) ends a connected session at once. One that pairs or
dials does not look at its kill channel: it goes on emitting codes, may pair, and stores the
device it paired with even after a logout deleted the connection's device
(`session.go:179-212`); it ends when the QR codes run out, when dialling fails, or right after
it connected (`Connects`). A start that finds a client connected, be it only for
pairing, is acknowledged without effect; one that finds a session that dials is refused and comes again.

| Run | Instance | Shows |
|---|---|---|
| `conns` | seven workloads: two requests that compete for the default; deletion against pairing; a request and two handlers at a time, and two requests and one handler, that write one status while statements and publications fail; restarts; advanced settings; neither broker nor database | `StatusIsTold`, `DefaultKept` |
| `conns_life` | deletion against a session that starts and pairs, without and with a restart of the worker | `OrphanIsEnded` |

*What the properties say.* `StatusIsTold`: a status that was written is broadcast at
least once. Until somebody did so, a request or a handler that holds that very status
(`fresh`) has its broadcast before it, or an event is not acknowledged that will
write it again. The exception is a request that ended with an error after it had
written (`failed`): nobody broadcasts for it, and the administrator has the error. The
property does not say that the screens show the row's status afterwards; see below for
the stale copy. `OrphanIsEnded` is about sessions that make themselves heard
by an event other than `restored`, which the code does not handle for a missing row.

*Bounds.* A workload turns on the inputs of one difficulty, because all of them
at once are out of reach; each has up to two connections, two requests and one
restart, and one event is handled at a time, two where handlers race (`prefetch`; the
code's is 16). Queues are sets: a second
equal command or event would do what the first does, and a redelivery is a delivery
that stays in the queue.

*Fairness* (`FairSpec`). Both processes go on; a delivery is not lost or refused
for ever while it can succeed (strong fairness of a handling that removes its event,
weak fairness of an obeyed command); pairing and dialling have deadlines. A statement
may fail, but no request, failure, link loss or restart has to happen.

*Proved* (`ConnectionsProofs.tla`, for any connections, requests, settings and
workloads). `TypeCorrect`; `DefaultStays` (`DefaultKept`); `StatusesAreTold`
(`StatusIsTold`). The default rests on `RowInv`: a row in a transaction is in no
other (`Transactions`), its status is the committed one, a request that clears
another's default is making its own row the default, an update that wrote nothing found its
row gone (`Empty`), and a connection has no row, and nobody who saw one, before
the commit that creates it (`BornOnce`). `OneDefault`: there is at most one default among
the committed rows (`AtMostOneDefault`), if there is in the first state, which
`OneDefaultAssumption` takes from the index `whatsapps_one_default` of the schema
(`migrations/00003_whatsapps.sql:27`); the step that could break it is a commit, `DefaultInv` adds what an open transaction
knows: it changed a row other than its own only to take the default from it (`Cleared`),
and once it wrote its own as the default, no other row that it sees, and none that another
transaction has written, is one (`Chosen`). `RequestsGoOn`: as long as a row is locked,
a transaction that holds rows can go on (`NoRequestDeadlock`). One that is about to
commit waits for nobody; and of those that have yet to write their own row only one can
hold others, since there is one default to take.
The statuses rest on `TellInv`: the last
writer or a later reader still has a broadcast before it (`Carries`), or its event is not
acknowledged (`Held`), or the writer ended with an error, and a handler whose write is the last finds its own status in the row
(`LastWrites`), so a restored event is not dropped as stopped while its status is untold.

*Left out.* The names and texts of rows, the queues of a connection beyond
the failure they may cause, the retry counter, the QR code's content.

## Outbound

`Outbound.tla` composes the callers in the backend (an agent's request, the files
of a multipart request, the debounced menu, the greeting of a department) with the
RPC server of the worker over the queue `worker.rpc` and the reply queue. The
client's side of a call is that of `RmqClient`, coarser: a lost connection fails every
call that waits.

| Action | Code |
|---|---|
| `Send`, `BadFile`, `Answer`, `Store`, `HangUp` | `message/send.go`: the call, the translated error, the row, the request's context |
| `ReadTicket` | a customer's message finds its ticket without a department and an agent; the row is not read again |
| `Schedule`, `Fire`, `Forget` | the debouncer of `waevents/queue_logic.go`; a timer that fired waits for its lock, then deletes the ticket's entry, whoever made it |
| `Choose`, `Greet`, `GiveUp` | a customer's choice: the department is stored, then the greeting is sent; a call of a timer times out |
| `UpdateTicket` | the ticket gets a department or an agent by `PUT /tickets/{id}`, or loses it when either is deleted (`ON DELETE SET NULL`) |
| `Take` | a goroutine of `rpc_server.go` gets a delivery |
| `CheckSession`, `CheckRequest`, `UploadMedia`, `SendMessage`, `Ask` | `command/send.go`, `modify.go`, `query.go`, by the list of steps each kind has |
| `Panic`, `Replied`, `NotReplied`, `Settle` | the reply is published, then the delivery settled; what happens when it cannot be published |
| `WorkerLinkLost`, `WorkerLinkUp`, `WorkerCrash`, `SessionDown`, `SessionUp`, `BackendLinkLost`, `BackendLinkUp`, `BackendCrash` | faults |

| Run | Instance | Shows |
|---|---|---|
| `outbound` | a text; two files of one request; each other RPC; three menus without a fault, two with one; a menu and a choice | `RecordedWasSent`, `RefusedIsUnsent`, `RepeatNeedsFault`, `FilesInOrder`, `OthersAreOrphans`, `MenuNotLost` |

*What the properties say.* `RefusedIsUnsent` rests on an assumption about the library:
that the errors which the worker reports as rejections (`Rejections`, from
`mapSendError`) leave nothing with the customer. `RecordedWasSent` is one direction only: a
message may be with the customer and in no row. `RepeatNeedsFault` bounds what a customer receives by one and
the number of faults, so no timeout, reply or reconnection repeats a call by itself; it does
not keep a repetition from coming after a fault, which the requeue of a request
whose reply cannot be published brings about. `OthersAreOrphans` says where a second menu can come
from: a pending timer is the one in the map, which the next message
stops, or one whose entry the callback of an earlier timer deleted (`orphans`).
`MenuNotLost` says that replacing timers never loses the last one: it has a timer, a call was
attempted for it, or a restart of the backend dropped its timer, which lives in
memory only (`lost`).

*Bounds.* Two goroutines, since two deliveries of one call are the race; two
faults (one with several timers), so a repetition can itself be disturbed. A call
is delivered at most once more than there are faults. Calls of different
requests meet only in the queue. No fairness is assumed: every property is a
safety property. The system stops when all is settled, so deadlock is not checked.

*Proved* (`OutboundProofs.tla`, for any workloads, files, menus, goroutines and
number of faults): every property of the run. The steps are first reduced to
relations, one per actor (a caller's program counter, its row and what it was
told; a goroutine's delivery, the replies). The invariant says where each
delivery is: ready, held by one goroutine, or settled (`CallsInv`), that
deliveries beyond the first are paid for by a counted return (`PaidInv`), what a
goroutine knows about what it sent (`HandlersInv`), what a reply (`RepliesInv`) and
a row (`RowsInv`) say of it. `MenuNotLost` rests on the order in
which messages ask (`AskedInv`): a timer is stopped only by a later message, whose
own timer is then armed. `PendingMenusAreTracked` (`OthersAreOrphans`) and
`NoMenuIsLost` hold for any number of messages.

*Left out.* The content of messages and media, the preview of a link, the
validation of a form; the rate of uploads.

## What the code does not keep

These are statements one might expect of the code and that it does not keep. The
first is recorded as a finding with its run; the others are counterexamples met
while modelling, which the stated properties leave room for.

- *An ack may go down* (`inbound_ack`): receipts handled in the wrong order.
- *Two live tickets*. An agent's POST between the search and the insert of an
  inbound message gives a conversation a second live ticket (`FocFindRecent`,
  `StoreInsert`, `FocInsert`); so does, without any race, reopening a closed ticket by
  PUT after another was made (`StoreCheck`, `StoreInsert`, `UpdateWrite`). That is
  why `InboundUnique` speaks of tickets that messages made live.
- *The session manager deadlocks* when a session is replaced while an event handler of
  its client is running: `Set` holds the mutex and waits for the handler, which waits for the
  mutex (`manager.go:58-69`, `events.go`). Nobody gets the mutex any more, so no session starts
  or ends, and `Shutdown`, which takes it first, does not return even at its deadline. In the model:
  two goroutines, a message for the first between `SetLock` and `Set` of the second (`Deadlocked`).
- *A goroutine starts after `Shutdown` returned*, attaches its handler and publishes:
  its command had passed `TryStartConnect` before (`session.go:45-50`). It ends with the process.
- *Two sessions of one connection* run when a second start passes its two looks
  before the first registers, and the first has cleared `connecting` by the time
  of the third.
- *A message that is requeued for ever*: once a person has one contact by LID
  and one by number, the merge gives the LID to the second row before it deletes the
  first, which the unique index refuses. `EveryMessageStored` therefore has workloads
  whose events name both addresses.
- *A restored session of a deleted connection* is not logged out: `Show` reports a
  missing row as an application error that `errors.Is` does not match
  (`lifecycle.go:197`), so the event is requeued for ever. `RestoredOrphanIsHandled`
  in `Connections` states what the log line says; `conns_life` would refute it with
  the worker's restart.
- *The screens keep an old status*. A start writes OPENING, the worker's QR code is
  written and broadcast, and then the request broadcasts the OPENING it holds
  (`handler.go:171-180`; the logout the same, `216-226`). Nobody broadcasts the row again until the next event.
- *A committed connection that nobody is told of*: the re-read after the commit fails, so
  neither `session.start` nor a broadcast follows (`service.go:110-113`); the answer is an error.
- *A device survives its logout*: a session that was pairing when it was logged out
  stores the device it pairs with afterwards (`session.go:193`), and a restart of the worker restores it.
- *The menu is sent twice* when a timer that fired deletes its successor's entry and
  a third is armed beside it (`Fire` of the first, `Schedule` of the second, `Forget` of
  the first, `Schedule` of the third).
- *The menu is sent beside the greeting*: a chosen department does not cancel a pending
  menu, since `SendDebouncer.Cancel` has no caller, and a message that read the ticket before
  the choice was stored schedules one afterwards.
- *A menu is lost* with a restart of the backend, since its message is acknowledged.
- *A subscription outlives the right to it*: a ticket that changes hands takes nobody out
  of its channel (`ws/client.go:68`).
- *A call without a deadline may wait for ever* when an error reply cannot be published:
  the delivery is acknowledged all the same (`rpc_server.go:148`).
- *A request stays in `worker.rpc`* after its caller timed out or hung up: the customer
  may still get what the agent was told had failed.
- *Requests the two sides write differently*: mark-read sends `messageIds` where the
  worker reads `ids` and so is always refused, the phone pairing's code is read
  under another name, and the answers of check-number and contact-info are arrays
  that the backend decodes as objects.
- *A connection outlives `Shutdown`* when the loop's dial has passed its look at the
  context: it completes after `Shutdown` has closed what was in `c.conn`, the loop
  sets up channels and ends, and nobody closes the new one (`client.go:203`).
  `OneConnection` holds all the same, since the new one is in `c.conn`.
- *The reconnect loop ends* when the connection is lost before `NotifyClose` is
  called (`client.go:330`), and it may overwrite the state the shutdown has set
  (`client.go:327`).

## What is only model-checked, and what is not modelled

Liveness (`FindOrCreateReturns`, `KilledSessionsEnd`, `EveryMessageStored`,
`LossIsRepaired`, `ConsumerResumes`, `ClosedClientLeaves`, `OrphanIsEnded`) is
model-checked only, because the prover does not handle fairness. Every
other property of a passing run is also a theorem. Of three of the liveness properties
what can be said without fairness is a theorem too: `LocksNeverDeadlock` for
`FindOrCreateReturns`, `ClosedAreAttended` for `ClosedClientLeaves`,
`EventsAreConserved` for `EveryMessageStored`. That a step which is before a
goroutine is ENABLED, and that it is taken, is left to those runs.

Some invariants are theorems and not properties of a run, since each follows from, or
stands beside, one that is: `LockIsHeld`, `NoLockDeadlock`, `FlagIsLowered`,
`EventIsInOnePlace`, `OneConnection`, `DeliveredOnce`, `BroadcastImplemented`,
`ClosedIsAttended`, `AtMostOneDefault`, `NoRequestDeadlock`. They are defined in the
proof modules, next to their proofs.

Not modelled: the CRUD of queues, settings and quick answers, whose uniqueness
is a constraint of the database; authentication, which is stateless but for a version
number compared on each request; media, link previews, health, configuration and
wiring, which are I/O; the frontend's reducers and rendering. Within the modelled
parts: SQL itself (a statement is atomic), the contents of messages, HTTP and JWT
parsing, the WhatsApp protocol inside `whatsmeow`, and group tickets of
`FindOrCreate`: no caller passes a group contact.

## Running

    tlc -config tickets_concurrent.cfg MCTickets
    tlc -config sessions.cfg MCSessions
    tlc -config inbound.cfg MCInbound
    tlc -config rmq_publish.cfg MCRmqClient
    tlc -config ws_hub.cfg MCWsHub
    tlc -config conns.cfg MCConnections
    tlc -config outbound.cfg MCOutbound
    tlapm TicketsProofs.tla
    tlapm SessionsProofs.tla
    tlapm InboundProofs.tla
    tlapm InboundChatProofs.tla
    tlapm WsHubProofs.tla
    tlapm OutboundProofs.tla
    tlapm RmqClientProofs.tla
    tlapm ConnectionsProofs.tla

`PROJECT.json` lists the runs, the mutants that break each property, the source
lines each definition stands for, the findings, and the hazards of the code.
