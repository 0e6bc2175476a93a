------------------------------ MODULE Outbound ------------------------------
(***************************************************************************)
(* What leaves for the customer: an agent's text, the files of one request, *)
(* the department menu that a debounced timer sends, and the other calls   *)
(* of the worker's RPC interface.  The backend calls the worker through    *)
(* the queue worker.rpc; the worker runs a goroutine per delivery, sends   *)
(* to WhatsApp, replies and only then settles the delivery, so a fault in  *)
(* between repeats what a customer already received.                       *)
(*                                                                         *)
(* The registration of a call and its confirm are in RmqClient; here a     *)
(* lost connection of the backend fails every call that waits.             *)
(***************************************************************************)
EXTENDS Naturals, Sequences, FiniteSets

CONSTANTS
  Loads,      (* workloads: for each, the calls it makes and their kinds    *)
  Rows,       (* calls of agents, which store a row once they are answered  *)
  Files,      (* the files of one multipart request, in the order of the form *)
  Menus,      (* the timers Schedule starts for one ticket, in that order   *)
  Picks,      (* greetings to a customer who chose a department             *)
  Handlers,   (* goroutines of the worker's RPC server                      *)
  Budget(_),  (* bound of what may go wrong in a workload                   *)
  MaxFaults,  (* the largest of them                                        *)
  None

Calls   == UNION {DOMAIN l : l \in Loads}
MenuSet == {Menus[i] : i \in DOMAIN Menus}
FileSet == {Files[i] : i \in DOMAIN Files}
(* A delivery comes again only after a fault.                               *)
MaxTry  == MaxFaults + 1

ASSUME OutboundAssumption ==
  /\ Rows \subseteq Calls /\ MenuSet \subseteq Calls /\ Picks \subseteq Calls
  /\ Rows \cap MenuSet = {} /\ Picks \cap (Rows \cup MenuSet) = {}
  /\ FileSet \subseteq Rows
  /\ Files \in Seq(Calls) /\ Menus \in Seq(Calls)
  /\ \A i, j \in DOMAIN Menus : Menus[i] = Menus[j] => i = j
  /\ MaxFaults \in Nat /\ \A l \in Loads : Budget(l) \in 0..MaxFaults
  /\ None \notin Calls

VARIABLES
  load,     (* the workload: call -> kind, chosen at the start              *)
  caller,   (* call -> where the backend's goroutine is, what it was told,  *)
            (*   and the message id its row was stored with                 *)
  entry,    (* the debouncer's map: the timer tracked for the ticket        *)
  orphans,  (* history: timers whose entry another one's callback deleted   *)
  assigned, (* the ticket has a department or an agent                      *)
  link,     (* the backend is connected and has a reply queue               *)
  queue,    (* worker.rpc: deliveries that are ready                        *)
  handler,  (* goroutine -> its delivery, what is left to do, its result    *)
  wlink,    (* the worker is connected                                      *)
  live,     (* the session is logged in and connected to WhatsApp           *)
  replies,  (* replies on the backend's reply queue                         *)
  tries,    (* history: how often each call was delivered                   *)
  sent,     (* history: the ids under which the customer received it        *)
  again,    (* history: how often a fault put the delivery back             *)
  faults

backend == <<caller, entry, orphans, assigned, link, replies>>
worker  == <<queue, handler, wlink, live, tries, sent, again>>
vars == <<load, backend, worker, faults>>

Active == DOMAIN load
Fault  == faults < Budget(load) /\ faults' = faults + 1

-----------------------------------------------------------------------------
(* The interface: what the worker does for each kind of call, step by step. *)
(* Every step but the last only checks or prepares.                         *)
TextSteps     == <<"session", "jid", "send">>
MediaSteps    == <<"session", "jid", "data", "upload", "send">>
ImageSteps    == MediaSteps
AudioSteps    == MediaSteps
VideoSteps    == MediaSteps
DocumentSteps == MediaSteps
StickerSteps  == MediaSteps
ContactSteps  == <<"session", "jid", "send">>
LocationSteps == <<"session", "jid", "send">>
DeleteSteps   == <<"session", "jid", "id", "send">>
EditSteps     == <<"session", "jid", "id", "send">>
ReactSteps    == <<"session", "jid", "id", "send">>
(* The backend names the ids messageIds and the worker reads ids.           *)
MarkReadSteps == <<"session", "jid", "never">>
NumberSteps   == <<"session", "ask">>
PictureSteps  == <<"session", "jid", "ask">>
InfoSteps     == <<"session", "jid", "ask">>
PresenceSteps == <<"session", "state", "ask">>
TypingSteps   == <<"session", "jid", "state", "ask">>
PairSteps     == <<"unpaired", "phone", "pair">>

Steps ==
  [text |-> TextSteps, image |-> ImageSteps, audio |-> AudioSteps, video |-> VideoSteps,
   document |-> DocumentSteps, sticker |-> StickerSteps, contact |-> ContactSteps,
   location |-> LocationSteps, delete |-> DeleteSteps, edit |-> EditSteps,
   react |-> ReactSteps, markRead |-> MarkReadSteps, checkNumber |-> NumberSteps,
   profilePic |-> PictureSteps, contactInfo |-> InfoSteps, presence |-> PresenceSteps,
   chatPresence |-> TypingSteps, pairPhone |-> PairSteps]

(* The functions of the backend that make the calls, and those of agents.   *)
MessageKinds == {"text", "image", "audio", "video", "document", "sticker", "contact", "location"}
ChangeKinds  == {"delete", "edit", "react", "markRead"}
QueryKinds   == {"checkNumber", "profilePic", "contactInfo", "presence", "chatPresence", "pairPhone"}
FileKinds    == {"image", "audio", "video", "document"}

ASSUME KindsAssumption ==
  \A l \in Loads : \A c \in DOMAIN l :
    /\ l[c] \in MessageKinds \cup ChangeKinds \cup QueryKinds
    /\ c \in Rows => l[c] \in FileKinds \cup {"text"}
    /\ c \in MenuSet \cup Picks => l[c] = "text"

(* The worker answers these two with an array, the backend decodes an object *)
Undecodable == {"checkNumber", "contactInfo"}

Results == {"ok", "refused", "internal"}
Told    == Results \cup {"none", "unavailable", "timeout", "gone"}

(* Mutant: an error in the reply envelope is not looked at.                 *)
TranslateUnchecked(kind, res) == "ok"
Translate(kind, res) == IF res = "ok" /\ kind \in Undecodable THEN "unavailable" ELSE res

-----------------------------------------------------------------------------
(* The backend's side of a call.                                            *)

Waiting(c) == caller[c].pc = "waiting"
Ends(c, what) == caller' = [caller EXCEPT ![c].pc = "done", ![c].told = what]

(* Call: refused without a connection; published; or the publish reports an *)
(* error, although the broker may have the request.                         *)
Call(c) ==
  \/ ~link /\ Ends(c, "unavailable") /\ UNCHANGED <<queue, faults>>
  \/ /\ link
     /\ caller' = [caller EXCEPT ![c].pc = "waiting"]
     /\ queue' = queue \cup {c}
     /\ UNCHANGED faults
  \/ /\ link /\ Fault
     /\ Ends(c, "unavailable")
     /\ queue' \in {queue, queue \cup {c}}

Called(c) ==
  /\ Call(c)
  /\ UNCHANGED <<load, entry, orphans, assigned, link, replies, handler, wlink, live, tries, sent, again>>

Before(c) == {Files[i] : i \in {j \in DOMAIN Files : \E k \in DOMAIN Files : Files[k] = c /\ j < k}}

(* Mutant: the files of a request are dispatched side by side.              *)
DispatchAll(c) == caller[c].pc = "idle"
(* A file is dispatched once the ones before it are stored; an error ends   *)
(* the request.                                                             *)
Dispatch(c) ==
  /\ caller[c].pc = "idle"
  /\ \A f \in Before(c) : caller[f].row # 0

(* POST /messages/{ticketId}, and every other call that no timer makes.     *)
Timed == MenuSet \cup Picks
Send(c) == c \in Active \ Timed /\ Dispatch(c) /\ Called(c)

(* A file that cannot be read ends the request before the call.             *)
BadFile(c) ==
  /\ c \in Active \cap FileSet /\ Dispatch(c)
  /\ Ends(c, "refused")
  /\ UNCHANGED <<load, entry, orphans, assigned, link, replies, worker, faults>>

(* The reply whose correlation id is pending; any other one is dropped.     *)
Answer(r) ==
  LET told == Translate(load[r.call], r.res) IN
  /\ r \in replies /\ replies' = replies \ {r}
  /\ \/ /\ Waiting(r.call) /\ r.call \in Rows /\ told = "ok"
        /\ caller' = [caller EXCEPT ![r.call].pc = "storing", ![r.call].id = r.id]
     \/ Waiting(r.call) /\ (r.call \notin Rows \/ told # "ok") /\ Ends(r.call, told)
     \/ ~Waiting(r.call) /\ UNCHANGED caller
  /\ UNCHANGED <<load, entry, orphans, assigned, link, worker, faults>>

(* The media is uploaded if that succeeds, then the message is created.     *)
Store(c) ==
  /\ caller[c].pc = "storing"
  /\ \/ /\ caller' = [caller EXCEPT ![c].pc = "done", ![c].told = "ok", ![c].row = caller[c].id]
        /\ UNCHANGED faults
     \/ Fault /\ Ends(c, "internal")
  /\ UNCHANGED <<load, entry, orphans, assigned, link, replies, worker>>

(* Agents' requests have no timeout: they end when the agent hangs up.      *)
HangUp(c) ==
  /\ c \notin Timed /\ caller[c].pc \in {"waiting", "storing"}
  /\ Fault /\ Ends(c, "gone")
  /\ UNCHANGED <<load, entry, orphans, assigned, link, replies, worker>>

-----------------------------------------------------------------------------
(* A customer writes in a ticket that has no department and no agent: a     *)
(* choice assigns the department and greets, anything else asks for the     *)
(* menu, which a timer sends.  The ticket is the one FindOrCreate returned, *)
(* and is not read again.                                                   *)

ReadTicket(c) ==
  /\ c \in Active \cap Timed /\ caller[c].pc = "idle" /\ ~assigned
  /\ caller' = [caller EXCEPT ![c].pc = "asked"]
  /\ UNCHANGED <<load, entry, orphans, assigned, link, replies, worker, faults>>

(* PUT /tickets/{id} gives the ticket a department or an agent; the         *)
(* deletion of either leaves it without.  It matters as long as a message   *)
(* still has to look at the ticket.                                         *)
UpdateTicket ==
  /\ \E c \in Active \cap Timed : caller[c].pc = "idle"
  /\ assigned' \in BOOLEAN
  /\ UNCHANGED <<load, caller, entry, orphans, link, replies, worker, faults>>

MenuAt(i, pc) == Menus[i] \in Active /\ caller[Menus[i]].pc = pc
Scheduled(i)  == Menus[i] \in Active /\ caller[Menus[i]].pc \notin {"idle", "asked"}
(* The timers are numbered in the order in which they are started.          *)
NextTimer(i)  == MenuAt(i, "asked") /\ \A j \in 1..(i - 1) : Menus[j] \in Active => Scheduled(j)
Only(changed) == UNCHANGED <<load, assigned, link, replies, worker, faults, changed>>

Stopped == [c \in Calls |-> IF c = entry /\ caller[c].pc = "armed"
                            THEN [caller[c] EXCEPT !.pc = "stopped"] ELSE caller[c]]

(* Mutant: the timer in the map is replaced and goes on.                    *)
ScheduleBeside(i) ==
  /\ NextTimer(i)
  /\ caller' = [caller EXCEPT ![Menus[i]].pc = "armed"]
  /\ entry' = Menus[i]
  /\ Only(orphans)

(* A message asks for the menu: under the lock, the timer in the map is     *)
(* stopped, which does nothing to one that fired, and replaced.             *)
Schedule(i) ==
  /\ NextTimer(i)
  /\ caller' = [Stopped EXCEPT ![Menus[i]].pc = "armed"]
  /\ entry' = Menus[i]
  /\ Only(orphans)

(* Three seconds later the callback starts and waits for the lock.          *)
Fire(i) ==
  /\ MenuAt(i, "armed")
  /\ caller' = [caller EXCEPT ![Menus[i]].pc = "fired"]
  /\ Only(<<entry, orphans>>)

(* Mutant: the callback cancels the entry instead of deleting it.           *)
ForgetCancels(i) ==
  /\ MenuAt(i, "fired")
  /\ caller' = [Stopped EXCEPT ![Menus[i]].pc = "greet"]
  /\ entry' = None
  /\ Only(orphans)

(* It deletes the ticket's entry, whichever timer that is by now.           *)
Forget(i) ==
  /\ MenuAt(i, "fired")
  /\ caller' = [caller EXCEPT ![Menus[i]].pc = "greet"]
  /\ entry' = None /\ orphans' = orphans \cup ({entry} \ {None, Menus[i]})
  /\ Only(<<>>)

(* UpdateQueue, then the greeting; a timer that waits is not cancelled.     *)
Choose(c) ==
  /\ c \in Active \cap Picks /\ caller[c].pc = "asked"
  /\ \/ assigned' = TRUE /\ caller' = [caller EXCEPT ![c].pc = "greet"] /\ UNCHANGED faults
     \/ Fault /\ Ends(c, "internal") /\ UNCHANGED assigned
  /\ UNCHANGED <<load, entry, orphans, link, replies, worker>>

Greet(c) == c \in Active /\ caller[c].pc = "greet" /\ Called(c)

(* Mutant: the call is published again when its time is over.               *)
GiveUpAgain(c) ==
  /\ c \in Timed /\ Waiting(c)
  /\ queue' = queue \cup {c}
  /\ UNCHANGED <<load, backend, handler, wlink, live, tries, sent, again, faults>>

(* The call gives up after ten seconds; its request stays in the queue.     *)
GiveUp(c) ==
  /\ c \in Timed /\ Waiting(c)
  /\ Ends(c, "timeout")
  /\ Only(<<entry, orphans>>)

-----------------------------------------------------------------------------
(* The worker's RPC server.                                                 *)

IdleHandler == [call |-> None, id |-> 0, todo |-> <<>>, res |-> "none",
                pc |-> "idle", valid |-> FALSE]
Running(h) == handler[h].pc = "run"
Doing(h, step) == Running(h) /\ handler[h].todo # <<>> /\ Head(handler[h].todo) = step
SetHandler(h, new) == handler' = [handler EXCEPT ![h] = new]
Passes(h) == SetHandler(h, [handler[h] EXCEPT !.todo = Tail(@)])
Returns(h, res) == SetHandler(h, [handler[h] EXCEPT !.todo = <<>>, !.res = res, !.pc = "reply"])

Unmoved == UNCHANGED <<load, backend, wlink, live>>

Take(h, c) ==
  /\ wlink /\ c \in queue /\ handler[h].pc = "idle" /\ tries[c] < MaxTry
  /\ queue' = queue \ {c}
  /\ tries' = [tries EXCEPT ![c] = @ + 1]
  /\ SetHandler(h, [call |-> c, id |-> tries'[c], todo |-> Steps[load[c]], res |-> "none",
                    pc |-> "run", valid |-> TRUE])
  /\ Unmoved /\ UNCHANGED <<sent, again, faults>>

(* requireLiveSession, and the opposite that pairing asks for.              *)
CheckSession(h) ==
  /\ \/ Doing(h, "session")  /\ IF live THEN Passes(h) ELSE Returns(h, "refused")
     \/ Doing(h, "unpaired") /\ IF live THEN Returns(h, "refused")
                                ELSE Passes(h) \/ Returns(h, "refused")
  /\ Unmoved /\ UNCHANGED <<queue, tries, sent, again, faults>>

(* Whether the request's fields are usable.                                 *)
CheckRequest(h) ==
  /\ \/ (\E s \in {"jid", "id", "data", "state", "phone"} : Doing(h, s))
          /\ (Passes(h) \/ Returns(h, "refused"))
     \/ Doing(h, "never") /\ Returns(h, "refused")
  /\ Unmoved /\ UNCHANGED <<queue, tries, sent, again, faults>>

UploadMedia(h) ==
  /\ Doing(h, "upload")
  /\ (live /\ Passes(h)) \/ Returns(h, "refused")
  /\ Unmoved /\ UNCHANGED <<queue, tries, sent, again, faults>>

(* The errors of whatsmeow's SendMessage.  That the rejections leave nothing *)
(* with the customer is the library's promise, and an assumption here.      *)
Rejections == {"serverReturnedError", "notConnected", "notLoggedIn"}

(* Mutant: every error of SendMessage is reported as a rejection.           *)
MapSendErrorCoarse(err) == "refused"
(* An error that is not a rejection does not tell whether the message left. *)
MapSendError(err) == IF err \in Rejections THEN "refused" ELSE "internal"

SendMessage(h) ==
  LET c == handler[h].call
      received == sent' = [sent EXCEPT ![c] = @ \cup {handler[h].id}]
  IN /\ Doing(h, "send")
     /\ \/ live /\ received /\ Returns(h, "ok") /\ UNCHANGED faults
        \/ /\ \E err \in Rejections \cup {"other"} : Returns(h, MapSendError(err))
           /\ UNCHANGED <<sent, faults>>
        \/ live /\ Fault /\ received /\ Returns(h, MapSendError("other"))
     /\ Unmoved /\ UNCHANGED <<queue, tries, again>>

(* A query, or a step that no customer receives.                            *)
Ask(h) ==
  /\ \/ Doing(h, "ask")  /\ ((live /\ Returns(h, "ok")) \/ Returns(h, "internal"))
     \/ Doing(h, "pair") /\ (Returns(h, "ok") \/ Returns(h, "refused"))
  /\ Unmoved /\ UNCHANGED <<queue, tries, sent, again, faults>>

(* A panic is answered like an error, and the delivery does not come back.  *)
Panic(h) ==
  /\ Running(h) /\ Fault
  /\ Returns(h, "internal")
  /\ Unmoved /\ UNCHANGED <<queue, tries, sent, again>>

(* A reply to a reply queue that is gone is dropped by the broker.          *)
Reply(h) == [call |-> handler[h].call, id |-> handler[h].id, res |-> handler[h].res]
Arrived(h) == IF link THEN replies \cup {Reply(h)} ELSE replies
Done(h)   == SetHandler(h, [handler[h] EXCEPT !.pc = "settle"])
(* Mutant: the request is put back whatever became of its channel.          *)
RequeueAnyway(h) ==
  /\ SetHandler(h, IdleHandler)
  /\ queue' = queue \cup {handler[h].call} /\ again' = [again EXCEPT ![handler[h].call] = @ + 1]
Requeue(h) ==
  /\ SetHandler(h, IdleHandler)
  /\ IF handler[h].valid
     THEN queue' = queue \cup {handler[h].call} /\ again' = [again EXCEPT ![handler[h].call] = @ + 1]
     ELSE UNCHANGED <<queue, again>>

Replied(h) ==
  /\ handler[h].pc = "reply" /\ wlink
  /\ replies' = Arrived(h)
  /\ Done(h)
  /\ UNCHANGED <<load, caller, entry, orphans, assigned, link, queue, wlink, live, tries, sent, again, faults>>

(* A result that cannot be published puts the request back, and it is       *)
(* carried out again; an error that cannot be published is only logged.     *)
AfterFailedReply(h) ==
  \/ handler[h].res = "ok" /\ Requeue(h)
  \/ handler[h].res # "ok" /\ Done(h) /\ UNCHANGED <<queue, again>>

(* The publish reports an error: there is no connection, or the confirm did *)
(* not come, in which case the reply may have arrived.                      *)
NotReplied(h) ==
  /\ handler[h].pc = "reply"
  /\ \/ ~wlink /\ UNCHANGED <<replies, faults>>
     \/ wlink /\ Fault /\ replies' \in {replies, Arrived(h)}
  /\ AfterFailedReply(h)
  /\ UNCHANGED <<load, caller, entry, orphans, assigned, link, wlink, live, tries, sent>>

(* Ack, or the panic's Nack without requeue; on a channel that is gone      *)
(* neither has an effect.                                                   *)
Settle(h) ==
  /\ handler[h].pc = "settle"
  /\ SetHandler(h, IdleHandler)
  /\ Unmoved /\ UNCHANGED <<queue, tries, sent, again, faults>>

-----------------------------------------------------------------------------
(* Connections, restarts and the session.                                   *)

Held == {handler[h].call : h \in {g \in Handlers : handler[g].valid /\ handler[g].pc # "idle"}}

(* Deliveries that were not settled come back.                              *)
Returned ==
  /\ queue' = queue \cup Held
  /\ again' = [c \in Calls |-> IF c \in Held THEN again[c] + 1 ELSE again[c]]

WorkerLinkLost ==
  /\ wlink /\ Fault /\ wlink' = FALSE
  /\ Returned
  /\ handler' = [h \in Handlers |-> [handler[h] EXCEPT !.valid = FALSE]]
  /\ UNCHANGED <<load, backend, live, tries, sent>>

WorkerLinkUp ==
  /\ ~wlink /\ wlink' = TRUE
  /\ UNCHANGED <<load, backend, queue, handler, live, tries, sent, again, faults>>

WorkerCrash ==
  /\ Fault /\ wlink' = TRUE /\ live' = FALSE
  /\ Returned
  /\ handler' = [h \in Handlers |-> IdleHandler]
  /\ UNCHANGED <<load, backend, tries, sent>>

SessionDown ==
  /\ live /\ Fault /\ live' = FALSE
  /\ UNCHANGED <<load, backend, queue, handler, wlink, tries, sent, again>>

SessionUp ==
  /\ ~live /\ live' = TRUE
  /\ UNCHANGED <<load, backend, queue, handler, wlink, tries, sent, again, faults>>

(* failPendingRPCs: every call that waits is told.                          *)
BackendLinkLost ==
  /\ link /\ Fault /\ link' = FALSE
  /\ caller' = [c \in Calls |-> IF Waiting(c)
                  THEN [caller[c] EXCEPT !.pc = "done", !.told = "unavailable"] ELSE caller[c]]
  /\ replies' = {}
  /\ UNCHANGED <<load, entry, orphans, assigned, worker>>

BackendLinkUp ==
  /\ ~link /\ link' = TRUE
  /\ UNCHANGED <<load, caller, entry, orphans, assigned, replies, worker, faults>>

(* Timers and requests live in memory only; a customer's message that was   *)
(* not acknowledged comes back.                                             *)
Restarted(x) ==
  IF x.pc = "asked" THEN [x EXCEPT !.pc = "idle"]
  ELSE IF x.pc \in {"armed", "fired", "greet"} THEN [x EXCEPT !.pc = "lost"]
  ELSE IF x.pc \in {"waiting", "storing"} THEN [x EXCEPT !.pc = "done", !.told = "gone"]
  ELSE x
BackendCrash ==
  /\ Fault
  /\ caller' = [c \in Calls |-> Restarted(caller[c])]
  /\ entry' = None /\ orphans' = {} /\ replies' = {} /\ link' = TRUE
  /\ UNCHANGED <<load, assigned, worker>>

-----------------------------------------------------------------------------
Init ==
  /\ load \in Loads
  /\ caller = [c \in Calls |-> [pc |-> "idle", told |-> "none", id |-> 0, row |-> 0]]
  /\ entry = None /\ orphans = {} /\ assigned = FALSE /\ link = TRUE /\ queue = {}
  /\ handler = [h \in Handlers |-> IdleHandler]
  /\ wlink = TRUE /\ live \in BOOLEAN
  /\ replies = {}
  /\ tries = [c \in Calls |-> 0] /\ sent = [c \in Calls |-> {}] /\ again = [c \in Calls |-> 0]
  /\ faults = 0

Handle(h) ==
  \/ CheckSession(h) \/ CheckRequest(h) \/ UploadMedia(h) \/ SendMessage(h) \/ Ask(h)
  \/ Panic(h) \/ Replied(h) \/ NotReplied(h) \/ Settle(h)

Next ==
  \/ \E c \in Active : Send(c) \/ BadFile(c) \/ Store(c) \/ HangUp(c)
  \/ \E c \in Active : ReadTicket(c) \/ Choose(c) \/ Greet(c) \/ GiveUp(c)
  \/ UpdateTicket
  \/ \E r \in replies : Answer(r)
  \/ \E i \in DOMAIN Menus : Schedule(i) \/ Fire(i) \/ Forget(i)
  \/ \E h \in Handlers : Handle(h) \/ \E c \in Active : Take(h, c)
  \/ WorkerLinkLost \/ WorkerLinkUp \/ WorkerCrash \/ SessionDown \/ SessionUp
  \/ BackendLinkLost \/ BackendLinkUp \/ BackendCrash

Spec == Init /\ [][Next]_vars

-----------------------------------------------------------------------------
TypeOK ==
  /\ load \in Loads
  /\ caller \in [Calls -> [pc : {"idle", "asked", "armed", "stopped", "fired", "greet", "lost",
                                 "waiting", "storing", "done"},
                           told : Told, id : 0..MaxTry, row : 0..MaxTry]]
  /\ entry \in MenuSet \cup {None} /\ orphans \subseteq MenuSet
  /\ assigned \in BOOLEAN /\ link \in BOOLEAN /\ wlink \in BOOLEAN /\ live \in BOOLEAN
  /\ queue \subseteq Calls
  /\ \A h \in Handlers :
       /\ handler[h].call \in Calls \cup {None} /\ handler[h].id \in 0..MaxTry
       /\ handler[h].pc \in {"idle", "run", "reply", "settle"}
       /\ handler[h].res \in Results \cup {"none"} /\ handler[h].valid \in BOOLEAN
       /\ handler[h].pc = "run" => handler[h].todo # <<>> /\ handler[h].res = "none"
  /\ replies \subseteq [call : Calls, id : 1..MaxTry, res : Results]
  /\ tries \in [Calls -> 0..MaxTry] /\ again \in [Calls -> 0..MaxFaults]
  /\ sent \in [Calls -> SUBSET (1..MaxTry)]
  /\ faults \in 0..MaxFaults

(* A row of an agent's message carries the id of a message the customer     *)
(* received, whichever attempt was answered and whatever was repeated.      *)
RecordedWasSent == \A c \in Calls : caller[c].row # 0 => caller[c].row \in sent[c]

(* When the worker refuses a call, and no fault made it come twice, the     *)
(* customer received nothing: the agent may safely send it again.           *)
RefusedIsUnsent ==
  \A c \in Calls : caller[c].told = "refused" /\ again[c] = 0 => sent[c] = {}

(* A customer receives a message twice only after a fault, and at most once *)
(* more for each: whatever gives up, crashes or reconnects, no call is      *)
(* carried out again without one.                                           *)
RepeatNeedsFault == \A c \in Calls : Cardinality(sent[c]) <= 1 + faults

(* No file of a request reaches the customer before the ones in front of it *)
(* are stored: they arrive in the order of the form, repeats aside, and an  *)
(* error leaves a prefix.                                                   *)
FilesInOrder == \A c \in Calls : sent[c] # {} => \A f \in Before(c) : caller[f].row # 0

(* A burst of messages has one timer pending, the one in the map, which the *)
(* next message replaces.  The others are those whose entry the callback of *)
(* an earlier timer deleted, and only they bring a second menu (Schedule).  *)
OthersAreOrphans ==
  \A c \in MenuSet : caller[c].pc = "armed" => c = entry \/ c \in orphans

(* The last message that asked for the menu has a timer, or a call was made *)
(* for it, whether or not it succeeded, or a restart of the backend lost    *)
(* the timer: replacing a timer, even one that fired and then deletes its   *)
(* successor's entry, never loses the last one.                             *)
MenuNotLost ==
  \A i \in DOMAIN Menus : Scheduled(i) =>
    \E j \in i..Len(Menus) : Scheduled(j) /\ caller[Menus[j]].pc # "stopped"
=============================================================================
