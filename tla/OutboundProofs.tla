--------------------------- MODULE OutboundProofs ---------------------------
(***************************************************************************)
(* What holds of Outbound for any workloads, files, menus, handlers and    *)
(* bounds of faults: the types, and the promises about what a customer     *)
(* receives.  The types need to know that a list of steps which is not yet *)
(* carried out ends with one that is more than a check.                    *)
(***************************************************************************)
EXTENDS Outbound, FiniteSetTheorems, TLAPS

StepNames  == {"session", "unpaired", "jid", "id", "data", "state", "phone", "upload",
               "never", "send", "ask", "pair"}
CheckSteps == {"session", "unpaired", "jid", "id", "data", "state", "phone", "upload"}
AllKinds   == MessageKinds \cup ChangeKinds \cup QueryKinds
SendKinds  == FileKinds \cup {"text"}

(* What is left to do is never nothing, and a message is never sent by a    *)
(* step that only asks.                                                    *)
TodoOK(t)   == t \in Seq(StepNames) /\ t # <<>> /\ t[Len(t)] \notin CheckSteps
OnlySends(t) == \A i \in 1..Len(t) : t[i] \notin {"ask", "pair"}

Delivery == [call : Calls \cup {None}, id : 0..MaxTry, todo : Seq(StepNames),
             res : Results \cup {"none"}, pc : {"idle", "run", "reply", "settle"}, valid : BOOLEAN]
Places   == {"idle", "asked", "armed", "stopped", "fired", "greet", "lost",
             "waiting", "storing", "done"}
Caller   == [pc : Places, told : Told, id : 0..MaxTry, row : 0..MaxTry]

LEMMA StepsOfKind ==
  ASSUME NEW k \in AllKinds
  PROVE  TodoOK(Steps[k]) /\ (k \in SendKinds => OnlySends(Steps[k]))
<1> USE DEF TodoOK, OnlySends, StepNames, CheckSteps
<1>1. TodoOK(TextSteps) /\ OnlySends(TextSteps)
  BY DEF TextSteps
<1>2. TodoOK(MediaSteps) /\ OnlySends(MediaSteps)
  BY DEF MediaSteps
<1>3. TodoOK(ContactSteps) /\ TodoOK(LocationSteps)
  BY DEF ContactSteps, LocationSteps
<1>4. TodoOK(DeleteSteps) /\ TodoOK(EditSteps) /\ TodoOK(ReactSteps)
  BY DEF DeleteSteps, EditSteps, ReactSteps
<1>5. TodoOK(MarkReadSteps) /\ TodoOK(NumberSteps) /\ TodoOK(PictureSteps)
  BY DEF MarkReadSteps, NumberSteps, PictureSteps
<1>6. TodoOK(InfoSteps) /\ TodoOK(PresenceSteps) /\ TodoOK(TypingSteps) /\ TodoOK(PairSteps)
  BY DEF InfoSteps, PresenceSteps, TypingSteps, PairSteps
<1> HIDE DEF TodoOK, OnlySends
<1> QED BY <1>1, <1>2, <1>3, <1>4, <1>5, <1>6
        DEF Steps, AllKinds, SendKinds, MessageKinds, ChangeKinds, QueryKinds, FileKinds,
            ImageSteps, AudioSteps, VideoSteps, DocumentSteps, StickerSteps

LEMMA TailOfTodo ==
  ASSUME NEW t, TodoOK(t), Head(t) \in CheckSteps
  PROVE  TodoOK(Tail(t)) /\ (OnlySends(t) => OnlySends(Tail(t)))
<1>1. /\ t \in Seq(StepNames) /\ t # <<>> /\ Len(t) \in Nat /\ Len(t) > 0
      /\ Head(t) = t[1] /\ t[Len(t)] \notin CheckSteps
  BY DEF TodoOK
<1>2. Len(t) # 1
  BY <1>1
<1>3. /\ Tail(t) \in Seq(StepNames) /\ Len(Tail(t)) = Len(t) - 1
      /\ \A i \in 1..Len(t) - 1 : Tail(t)[i] = t[i + 1]
  BY <1>1
<1>4. Tail(t)[Len(t) - 1] = t[Len(t)] /\ Tail(t) # <<>>
  <2>1. Len(t) - 1 \in 1..Len(t) - 1 /\ (Len(t) - 1) + 1 = Len(t)
    BY <1>1, <1>2
  <2>2. Tail(t)[Len(t) - 1] = t[(Len(t) - 1) + 1]
    BY <1>3, <2>1
  <2>3. Len(Tail(t)) # 0
    BY <1>3, <2>1
  <2> QED BY <2>1, <2>2, <2>3
<1>5. ASSUME OnlySends(t), NEW i \in 1..Len(Tail(t))
      PROVE  Tail(t)[i] \notin {"ask", "pair"}
  <2>1. i \in 1..Len(t) - 1 /\ i + 1 \in 1..Len(t)
    BY <1>1, <1>3
  <2> QED BY <1>3, <1>5, <2>1 DEF OnlySends
<1> QED BY <1>3, <1>4, <1>1, <1>5 DEF TodoOK, OnlySends

LEMMA KindOfCall ==
  ASSUME load \in Loads, NEW c \in Active
  PROVE  /\ load[c] \in AllKinds /\ c \in Calls /\ c # None
         /\ c \in Rows => load[c] \in SendKinds
         /\ c \in MenuSet \cup Picks => load[c] = "text"
BY KindsAssumption, OutboundAssumption DEF Active, Calls, AllKinds, SendKinds

-----------------------------------------------------------------------------
(* The strengthened type invariant, in the parts that steps disturb.        *)
Answers == [call : Calls, id : 1..MaxTry, res : Results]
CallersOK ==
  /\ caller \in [Calls -> Caller] /\ entry \in MenuSet \cup {None} /\ orphans \subseteq MenuSet
  /\ assigned \in BOOLEAN /\ link \in BOOLEAN
  /\ replies \subseteq Answers /\ \A r \in replies : r.call \in Active
DeliveryOK(x) ==
  /\ x \in Delivery
  /\ x.pc = "run" => TodoOK(x.todo) /\ x.res = "none"
  /\ x.pc \in {"reply", "settle"} => x.res \in Results
  /\ x.pc # "idle" => x.call \in Active /\ x.id \in 1..tries[x.call]
  /\ x.valid => wlink
HandlersOK == handler \in [Handlers -> Delivery] /\ \A h \in Handlers : DeliveryOK(handler[h])
QueueOK ==
  /\ queue \subseteq Active /\ wlink \in BOOLEAN /\ live \in BOOLEAN
  /\ tries \in [Calls -> 0..MaxTry] /\ sent \in [Calls -> SUBSET (1..MaxTry)]
FaultsOK ==
  /\ load \in Loads /\ faults \in 0..Budget(load)
  /\ again \in [Calls -> Nat] /\ \A c \in Calls : again[c] <= faults
TypeInv == CallersOK /\ HandlersOK /\ QueueOK /\ FaultsOK

LEMMA Bounds ==
  ASSUME load \in Loads
  PROVE  /\ MaxFaults \in Nat /\ MaxTry \in Nat /\ MaxTry > 0
         /\ Budget(load) \in 0..MaxFaults /\ Active \subseteq Calls
BY OutboundAssumption DEF MaxTry, Active, Calls

LEMMA TypeInvImplies == TypeInv => TypeOK
<1> SUFFICES ASSUME TypeInv PROVE TypeOK
  OBVIOUS
<1>1. load \in Loads /\ faults \in 0..Budget(load) /\ Budget(load) \in 0..MaxFaults /\ Active \subseteq Calls
  BY Bounds DEF TypeInv, FaultsOK
<1>2. faults \in 0..MaxFaults
  BY <1>1, OutboundAssumption
<1>3. again \in [Calls -> 0..MaxFaults]
  BY <1>2, OutboundAssumption DEF TypeInv, FaultsOK
<1>4. \A h \in Handlers :
       /\ handler[h].call \in Calls \cup {None} /\ handler[h].id \in 0..MaxTry
       /\ handler[h].pc \in {"idle", "run", "reply", "settle"}
       /\ handler[h].res \in Results \cup {"none"} /\ handler[h].valid \in BOOLEAN
       /\ (handler[h].pc = "run" => handler[h].todo # <<>> /\ handler[h].res = "none")
  BY DEF TypeInv, HandlersOK, DeliveryOK, Delivery, TodoOK
<1> QED BY <1>1, <1>2, <1>3, <1>4 DEF TypeInv, CallersOK, QueueOK, Caller, Places, Answers, TypeOK

LEMMA IdleOK == IdleHandler \in Delivery
BY OutboundAssumption DEF IdleHandler, Delivery, MaxTry

LEMMA SetHandlerOK ==
  ASSUME HandlersOK, QueueOK, NEW h \in Handlers, NEW new \in Delivery, SetHandler(h, new),
         UNCHANGED <<load, wlink>>, tries' \in [Calls -> 0..MaxTry],
         \A c \in Calls : tries[c] <= tries'[c], load \in Loads,
         new.pc = "run" => TodoOK(new.todo) /\ new.res = "none",
         new.pc \in {"reply", "settle"} => new.res \in Results,
         new.pc # "idle" => new.call \in Active /\ new.id \in 1..tries'[new.call],
         new.valid => wlink
  PROVE  HandlersOK'
<1>1. handler' \in [Handlers -> Delivery] /\ handler'[h] = new
      /\ \A g \in Handlers \ {h} : handler'[g] = handler[g]
  BY DEF SetHandler, HandlersOK
<1>2. Active' = Active /\ Active \subseteq Calls
  BY Bounds DEF Active
<1>3. ASSUME NEW g \in Handlers \ {h}
      PROVE  DeliveryOK(handler[g])'
  <2>1. DeliveryOK(handler[g]) /\ handler'[g] = handler[g]
    BY <1>1 DEF HandlersOK
  <2>2. handler[g].pc # "idle" => handler[g].id \in 1..tries'[handler[g].call]
    <3>1. ASSUME handler[g].pc # "idle"
          PROVE  /\ handler[g].call \in Calls /\ handler[g].id \in 1..tries[handler[g].call]
                 /\ tries[handler[g].call] \in Nat /\ tries'[handler[g].call] \in Nat
                 /\ tries[handler[g].call] <= tries'[handler[g].call]
      BY <2>1, <1>2, <3>1, Bounds DEF DeliveryOK, QueueOK
    <3> QED BY <3>1
  <2> QED BY <2>1, <2>2, <1>2 DEF DeliveryOK
<1>4. DeliveryOK(handler[h])'
  BY <1>1, <1>2 DEF DeliveryOK
<1> QED BY <1>1, <1>3, <1>4 DEF HandlersOK

LEMMA TriesKept ==
  ASSUME QueueOK, UNCHANGED tries
  PROVE  tries' \in [Calls -> 0..MaxTry] /\ \A c \in Calls : tries[c] <= tries'[c]
BY OutboundAssumption DEF QueueOK, MaxTry

LEMMA ReturnsOK ==
  ASSUME TypeInv, NEW h \in Handlers, Running(h), NEW res \in Results, Returns(h, res),
         UNCHANGED <<load, wlink, tries>>
  PROVE  HandlersOK'
<1>a. <<>> \in Seq(StepNames)
  OBVIOUS
<1>0. PICK none \in Seq(StepNames) : none = <<>>
  BY <1>a, Zenon
<1> DEFINE new == [handler[h] EXCEPT !.todo = none, !.res = res, !.pc = "reply"]
<1>1. DeliveryOK(handler[h]) /\ handler[h] \in Delivery /\ handler[h].pc = "run"
  BY DEF TypeInv, HandlersOK, Running
<1>2. /\ new \in Delivery /\ new.res = res /\ new.pc = "reply" /\ new.call = handler[h].call
      /\ new.id = handler[h].id /\ new.valid = handler[h].valid
  BY <1>1 DEF Delivery
<1>3. SetHandler(h, new)
  BY <1>0 DEF Returns
<1>4. tries'[new.call] = tries[handler[h].call]
  BY <1>2
<1> HIDE DEF new
<1> QED BY <1>1, <1>2, <1>3, <1>4, SetHandlerOK, TriesKept DEF DeliveryOK, TypeInv, FaultsOK

LEMMA PassesOK ==
  ASSUME TypeInv, NEW h \in Handlers, NEW s \in CheckSteps, Doing(h, s), Passes(h),
         UNCHANGED <<load, wlink, tries>>
  PROVE  HandlersOK'
<1> DEFINE new == [handler[h] EXCEPT !.todo = Tail(@)]
<1>1. DeliveryOK(handler[h]) /\ handler[h] \in Delivery /\ handler[h].pc = "run"
      /\ Head(handler[h].todo) \in CheckSteps
  BY DEF TypeInv, HandlersOK, Running, Doing
<1>2. TodoOK(Tail(handler[h].todo)) /\ Tail(handler[h].todo) \in Seq(StepNames)
  BY <1>1, TailOfTodo DEF DeliveryOK, TodoOK
<1>3. /\ new \in Delivery /\ new.todo = Tail(handler[h].todo) /\ new.res = handler[h].res
      /\ new.pc = "run" /\ new.call = handler[h].call
      /\ new.id = handler[h].id /\ new.valid = handler[h].valid
  BY <1>1, <1>2 DEF Delivery
<1>4. SetHandler(h, new)
  BY DEF Passes
<1>5. tries'[new.call] = tries[handler[h].call]
  BY <1>3
<1> HIDE DEF new
<1> QED BY <1>1, <1>2, <1>3, <1>4, <1>5, SetHandlerOK, TriesKept DEF DeliveryOK, TypeInv, FaultsOK

-----------------------------------------------------------------------------
(* The steps of the worker.                                                 *)
LEMMA TypeTake ==
  ASSUME TypeInv, NEW h \in Handlers, NEW c \in Active, Take(h, c)
  PROVE  TypeInv'
<1> DEFINE new == [call |-> c, id |-> tries[c] + 1, todo |-> Steps[load[c]], res |-> "none",
                   pc |-> "run", valid |-> TRUE]
<1>0. load \in Loads
  BY DEF TypeInv, FaultsOK
<1>1. /\ load[c] \in AllKinds /\ c \in Calls /\ TodoOK(Steps[load[c]])
  BY <1>0, KindOfCall, StepsOfKind
<1>2. /\ tries[c] \in 0..MaxTry /\ tries[c] < MaxTry /\ tries' = [tries EXCEPT ![c] = tries[c] + 1]
      /\ wlink
  BY <1>1 DEF Take, TypeInv, QueueOK
<1>3. tries[c] + 1 \in 1..MaxTry /\ tries'[c] = tries[c] + 1
  BY <1>0, <1>1, <1>2, Bounds DEF TypeInv, QueueOK
<1>4. tries' \in [Calls -> 0..MaxTry] /\ \A d \in Calls : tries[d] <= tries'[d]
  BY <1>0, <1>1, <1>2, <1>3, Bounds DEF TypeInv, QueueOK
<1>5. new \in Delivery
  BY <1>0, <1>1, <1>3, Bounds DEF Delivery, TodoOK
<1>6. SetHandler(h, new)
  BY <1>3 DEF Take
<1>7. UNCHANGED <<load, wlink>>
  BY DEF Take, Unmoved
<1>8. HandlersOK'
  <2>1. /\ new.pc = "run" /\ new.todo = Steps[load[c]] /\ new.res = "none" /\ new.call = c
        /\ new.id = tries[c] + 1 /\ new.valid = TRUE
    OBVIOUS
  <2> HIDE DEF new
  <2>2. new.id \in 1..tries'[new.call]
    BY <1>3, <2>1
  <2> QED BY <2>1, <2>2, <1>0, <1>1, <1>2, <1>4, <1>5, <1>6, <1>7, SetHandlerOK DEF TypeInv
<1>9. QueueOK'
  BY <1>4, <1>7 DEF Take, Unmoved, TypeInv, QueueOK, Active
<1> QED BY <1>8, <1>9 DEF Take, Unmoved, backend, TypeInv, CallersOK, FaultsOK, Active

LEMMA TypeCheck ==
  ASSUME TypeInv, NEW h \in Handlers, CheckSession(h) \/ CheckRequest(h) \/ UploadMedia(h)
  PROVE  TypeInv'
<1>1. /\ Unmoved /\ UNCHANGED <<queue, tries, sent, again, faults>>
  BY DEF CheckSession, CheckRequest, UploadMedia
<1>2. UNCHANGED <<load, wlink, tries>>
  BY <1>1 DEF Unmoved
<1>3. \/ Running(h) /\ Returns(h, "refused")
      \/ \E s \in CheckSteps : Doing(h, s) /\ Passes(h)
  <2>1. CASE CheckSession(h)
    BY <2>1 DEF CheckSession, CheckSteps, Doing
  <2>2. CASE CheckRequest(h)
    BY <2>2 DEF CheckRequest, CheckSteps, Doing
  <2>3. CASE UploadMedia(h)
    BY <2>3 DEF UploadMedia, CheckSteps, Doing
  <2> QED BY <2>1, <2>2, <2>3
<1>4. "refused" \in Results
  BY DEF Results
<1>5. HandlersOK'
  BY <1>2, <1>3, <1>4, ReturnsOK, PassesOK
<1> QED BY <1>1, <1>5 DEF Unmoved, backend, TypeInv, CallersOK, QueueOK, FaultsOK, Active

(* What a fault adds up to.                                                 *)
LEMMA FaultBound ==
  ASSUME FaultsOK, Fault
  PROVE  faults' \in 0..Budget(load) /\ faults' = faults + 1
BY Bounds DEF FaultsOK, Fault

LEMMA FaultsKept ==
  ASSUME FaultsOK, UNCHANGED <<load, again>>, Fault \/ UNCHANGED faults
  PROVE  FaultsOK'
<1>1. faults' \in 0..Budget(load) /\ faults <= faults' /\ faults \in Nat
  BY Bounds, FaultBound DEF FaultsOK
<1>2. again' = again /\ load' = load
  OBVIOUS
<1>3. \A c \in Calls : again[c] \in Nat /\ again[c] <= faults
  BY DEF FaultsOK
<1>4. \A c \in Calls : again[c] <= faults'
  BY <1>1, <1>3, Bounds DEF FaultsOK
<1> QED BY <1>1, <1>2, <1>4 DEF FaultsOK

LEMMA TypeSend ==
  ASSUME TypeInv, NEW h \in Handlers, SendMessage(h)
  PROVE  TypeInv'
<1>1. UNCHANGED <<load, caller, entry, orphans, assigned, link, replies, wlink, live, queue, tries, again>>
  BY DEF SendMessage, Unmoved, backend
<1>2. Running(h) /\ \E res \in Results : Returns(h, res)
  BY DEF SendMessage, Doing, MapSendError, Results, Rejections
<1>3. HandlersOK'
  BY <1>1, <1>2, ReturnsOK
<1>4. /\ handler[h].call \in Calls /\ handler[h].id \in 1..tries[handler[h].call]
      /\ tries[handler[h].call] \in 0..MaxTry
  BY <1>2, Bounds DEF TypeInv, HandlersOK, DeliveryOK, QueueOK, FaultsOK, Running
<1>5. handler[h].id \in 1..MaxTry
  BY <1>4, Bounds DEF TypeInv, FaultsOK
<1>6. sent' = sent \/ sent' = [sent EXCEPT ![handler[h].call] = @ \cup {handler[h].id}]
  BY DEF SendMessage
<1>7. sent' \in [Calls -> SUBSET (1..MaxTry)]
  BY <1>4, <1>5, <1>6 DEF TypeInv, QueueOK
<1>8. Fault \/ UNCHANGED faults
  BY DEF SendMessage
<1> QED BY <1>1, <1>3, <1>7, <1>8, FaultsKept DEF TypeInv, CallersOK, QueueOK, Active

LEMMA TypeAsk ==
  ASSUME TypeInv, NEW h \in Handlers, Ask(h) \/ Panic(h)
  PROVE  TypeInv'
<1>1. /\ UNCHANGED <<load, caller, entry, orphans, assigned, link, replies, wlink, live, queue, tries, sent, again>>
      /\ Fault \/ UNCHANGED faults
  BY DEF Ask, Panic, Unmoved, backend
<1>2. Running(h) /\ \E res \in Results : Returns(h, res)
  BY DEF Ask, Panic, Doing, Results
<1>3. HandlersOK'
  BY <1>1, <1>2, ReturnsOK
<1> QED BY <1>1, <1>3, FaultsKept DEF TypeInv, CallersOK, QueueOK, Active

LEMMA DoneOK ==
  ASSUME TypeInv, NEW h \in Handlers, handler[h].pc = "reply", Done(h),
         UNCHANGED <<load, wlink, tries>>
  PROVE  HandlersOK'
<1> DEFINE new == [handler[h] EXCEPT !.pc = "settle"]
<1>1. DeliveryOK(handler[h]) /\ handler[h] \in Delivery
  BY DEF TypeInv, HandlersOK
<1>2. /\ new \in Delivery /\ new.res = handler[h].res /\ new.pc = "settle"
      /\ new.call = handler[h].call /\ new.id = handler[h].id /\ new.valid = handler[h].valid
  BY <1>1 DEF Delivery
<1>3. SetHandler(h, new)
  BY DEF Done
<1>4. tries'[new.call] = tries[handler[h].call]
  BY <1>2
<1> HIDE DEF new
<1> QED BY <1>1, <1>2, <1>3, <1>4, SetHandlerOK, TriesKept DEF DeliveryOK, TypeInv, FaultsOK

LEMMA IdledOK ==
  ASSUME TypeInv, NEW h \in Handlers, SetHandler(h, IdleHandler), UNCHANGED <<load, wlink, tries>>
  PROVE  HandlersOK'
<1> DEFINE new == IdleHandler
<1>1. new \in Delivery /\ new.pc = "idle" /\ new.valid = FALSE /\ SetHandler(h, new)
  BY IdleOK DEF IdleHandler
<1> HIDE DEF new
<1> QED BY <1>1, SetHandlerOK, TriesKept DEF TypeInv, FaultsOK

LEMMA ArrivedOK ==
  ASSUME TypeInv, NEW h \in Handlers, handler[h].pc = "reply"
  PROVE  Arrived(h) \subseteq Answers /\ \A r \in Arrived(h) : r.call \in Active
<1>1. /\ handler[h].call \in Active /\ handler[h].id \in 1..tries[handler[h].call]
      /\ handler[h].res \in Results /\ Active \subseteq Calls
  BY Bounds DEF TypeInv, HandlersOK, DeliveryOK, FaultsOK
<1>2. tries[handler[h].call] \in 0..MaxTry /\ MaxTry \in Nat
  BY <1>1, Bounds DEF TypeInv, QueueOK, FaultsOK
<1>3. handler[h].id \in 1..MaxTry
  BY <1>1, <1>2
<1>4. Reply(h) \in Answers /\ Reply(h).call \in Active
  BY <1>1, <1>3 DEF Reply, Answers
<1> QED BY <1>4 DEF Arrived, TypeInv, CallersOK

LEMMA TypeReply ==
  ASSUME TypeInv, NEW h \in Handlers, Replied(h) \/ NotReplied(h) \/ Settle(h)
  PROVE  TypeInv'
<1>0. DeliveryOK(handler[h]) /\ Active \subseteq Calls /\ wlink \in BOOLEAN
  BY Bounds DEF TypeInv, HandlersOK, FaultsOK, QueueOK
<1>1. CASE Replied(h)
  <2>1. HandlersOK'
    BY <1>1, DoneOK DEF Replied
  <2> QED BY <1>1, <2>1, ArrivedOK DEF Replied, TypeInv, CallersOK, QueueOK, FaultsOK, Active
<1>2. CASE Settle(h)
  <2>1. UNCHANGED <<load, wlink, tries>> /\ SetHandler(h, IdleHandler)
    BY <1>2 DEF Settle, Unmoved
  <2>2. HandlersOK'
    BY <2>1, IdledOK
  <2> QED BY <1>2, <2>2 DEF Settle, Unmoved, backend, TypeInv, CallersOK, QueueOK, FaultsOK, Active
<1>3. CASE NotReplied(h)
  <2>1. /\ UNCHANGED <<load, caller, entry, orphans, assigned, link, wlink, live, tries, sent>>
        /\ handler[h].pc = "reply" /\ AfterFailedReply(h)
        /\ replies' \in {replies, Arrived(h)}
        /\ UNCHANGED faults \/ Fault
    BY <1>3 DEF NotReplied
  <2>2. CallersOK'
    BY <2>1, ArrivedOK DEF TypeInv, CallersOK, Active
  <2>3. CASE Done(h) /\ UNCHANGED <<queue, again>>
    <3>1. HandlersOK'
      BY <2>1, <2>3, DoneOK
    <3>2. FaultsOK'
      BY <2>1, <2>3, FaultsKept DEF TypeInv
    <3> QED BY <2>1, <2>2, <2>3, <3>1, <3>2 DEF TypeInv, QueueOK, Active
  <2>4. CASE Requeue(h)
    <3>1. HandlersOK'
      BY <2>1, <2>4, IdledOK DEF Requeue
    <3>2. handler[h].call \in Active
      BY <1>0, <2>1 DEF DeliveryOK
    <3>3. CASE ~handler[h].valid
      <4>1. UNCHANGED <<queue, again>>
        BY <2>4, <3>3 DEF Requeue
      <4>2. FaultsOK'
        BY <2>1, <4>1, FaultsKept DEF TypeInv
      <4> QED BY <2>1, <2>2, <3>1, <4>1, <4>2 DEF TypeInv, QueueOK, Active
    <3>4. CASE handler[h].valid
      <4>1. /\ queue' = queue \cup {handler[h].call}
            /\ again' = [again EXCEPT ![handler[h].call] = @ + 1]
        BY <2>4, <3>4 DEF Requeue
      <4>2. wlink /\ Fault
        BY <1>0, <1>3, <3>4 DEF DeliveryOK, NotReplied
      <4>3. faults' \in 0..Budget(load) /\ faults' = faults + 1 /\ faults \in Nat
        BY <4>2, FaultBound, Bounds DEF TypeInv, FaultsOK
      <4>4. /\ again \in [Calls -> Nat] /\ \A c \in Calls : again[c] <= faults
            /\ handler[h].call \in Calls
        BY <3>2, <1>0 DEF TypeInv, FaultsOK
      <4>5. again' \in [Calls -> Nat] /\ \A c \in Calls : again'[c] <= faults'
        BY <4>1, <4>3, <4>4
      <4>6. load' = load /\ load \in Loads
        BY <2>1 DEF TypeInv, FaultsOK
      <4>7. FaultsOK'
        BY <4>3, <4>5, <4>6 DEF FaultsOK
      <4> QED BY <2>1, <2>2, <3>1, <3>2, <4>1, <4>7 DEF TypeInv, QueueOK, Active
    <3> QED BY <3>3, <3>4
  <2> QED BY <2>1, <2>3, <2>4 DEF AfterFailedReply
<1> QED BY <1>1, <1>2, <1>3

(* Deliveries come back together, each by the same fault.                   *)
LEMMA ReturnedOK ==
  ASSUME TypeInv, Fault, Returned, UNCHANGED load
  PROVE  FaultsOK' /\ queue' \subseteq Active'
<1>1. faults' \in 0..Budget(load) /\ faults' = faults + 1 /\ faults \in Nat
  BY FaultBound, Bounds DEF TypeInv, FaultsOK
<1>2. again \in [Calls -> Nat] /\ \A c \in Calls : again[c] <= faults
  BY DEF TypeInv, FaultsOK
<1>3. again' = [c \in Calls |-> IF c \in Held THEN again[c] + 1 ELSE again[c]]
  BY DEF Returned
<1>4. again' \in [Calls -> Nat] /\ \A c \in Calls : again'[c] <= faults'
  BY <1>1, <1>2, <1>3
<1>5. Held \subseteq Active
  BY DEF Held, TypeInv, HandlersOK, DeliveryOK
<1> QED BY <1>1, <1>4, <1>5 DEF FaultsOK, TypeInv, QueueOK, Returned, Active

LEMMA TypeLinks ==
  ASSUME TypeInv, WorkerLinkLost \/ WorkerLinkUp \/ WorkerCrash \/ SessionDown \/ SessionUp
  PROVE  TypeInv'
<1>1. CASE WorkerLinkLost
  <2>1. /\ Fault /\ Returned /\ UNCHANGED <<load, caller, entry, orphans, assigned, link, replies, live, tries, sent>>
        /\ wlink' = FALSE
        /\ handler' = [h \in Handlers |-> [handler[h] EXCEPT !.valid = FALSE]]
    BY <1>1 DEF WorkerLinkLost, backend
  <2>2. FaultsOK' /\ queue' \subseteq Active'
    BY <2>1, ReturnedOK
  <2>3. ASSUME NEW h \in Handlers
        PROVE  handler'[h] \in Delivery /\ DeliveryOK(handler[h])'
    <3>1. handler[h] \in Delivery /\ DeliveryOK(handler[h])
      BY DEF TypeInv, HandlersOK
    <3>2. handler'[h] = [handler[h] EXCEPT !.valid = FALSE]
      BY <2>1
    <3>3. /\ handler'[h] \in Delivery /\ handler'[h].valid = FALSE
          /\ handler'[h].pc = handler[h].pc /\ handler'[h].call = handler[h].call
          /\ handler'[h].id = handler[h].id /\ handler'[h].todo = handler[h].todo
          /\ handler'[h].res = handler[h].res
      BY <3>1, <3>2 DEF Delivery
    <3> QED BY <2>1, <3>1, <3>3 DEF DeliveryOK, Active
  <2>4. HandlersOK'
    BY <2>1, <2>3 DEF HandlersOK
  <2> QED BY <2>1, <2>2, <2>4 DEF TypeInv, CallersOK, QueueOK, Active
<1>2. CASE WorkerCrash
  <2>1. /\ Fault /\ Returned /\ UNCHANGED <<load, caller, entry, orphans, assigned, link, replies, tries, sent>>
        /\ wlink' = TRUE /\ live' = FALSE /\ handler' = [h \in Handlers |-> IdleHandler]
    BY <1>2 DEF WorkerCrash, backend
  <2>2. FaultsOK' /\ queue' \subseteq Active'
    BY <2>1, ReturnedOK
  <2>3. IdleHandler.pc = "idle" /\ IdleHandler.valid = FALSE
    BY DEF IdleHandler
  <2>4. HandlersOK'
    BY <2>1, <2>3, IdleOK DEF HandlersOK, DeliveryOK
  <2> QED BY <2>1, <2>2, <2>4 DEF TypeInv, CallersOK, QueueOK, Active
<1>3. CASE WorkerLinkUp
  <2>1. /\ UNCHANGED <<load, caller, entry, orphans, assigned, link, replies, queue, handler, live, tries, sent, again, faults>>
        /\ wlink' = TRUE
    BY <1>3 DEF WorkerLinkUp, backend
  <2>2. HandlersOK'
    BY <2>1 DEF TypeInv, HandlersOK, DeliveryOK, Active
  <2> QED BY <2>1, <2>2 DEF TypeInv, CallersOK, QueueOK, FaultsOK, Active
<1>4. CASE SessionDown \/ SessionUp
  <2>1. /\ UNCHANGED <<load, caller, entry, orphans, assigned, link, replies, queue, handler, wlink, tries, sent, again>>
        /\ Fault \/ UNCHANGED faults
        /\ live' \in BOOLEAN
    BY <1>4 DEF SessionDown, SessionUp, backend
  <2>2. HandlersOK'
    BY <2>1 DEF TypeInv, HandlersOK, DeliveryOK, Active
  <2> QED BY <2>1, <2>2, FaultsKept DEF TypeInv, CallersOK, QueueOK, Active
<1> QED BY <1>1, <1>2, <1>3, <1>4

-----------------------------------------------------------------------------
(* The steps of the backend.                                                *)
LEMMA EndsOK ==
  ASSUME caller \in [Calls -> Caller], NEW c \in Calls, NEW what \in Told, Ends(c, what)
  PROVE  /\ caller' \in [Calls -> Caller]
         /\ caller'[c].pc = "done" /\ caller'[c].told = what
         /\ caller'[c].row = caller[c].row /\ caller'[c].id = caller[c].id
         /\ \A d \in Calls \ {c} : caller'[d] = caller[d]
<1>1. caller[c] \in Caller
  OBVIOUS
<1>2. /\ [caller[c] EXCEPT !.pc = "done", !.told = what] \in Caller
      /\ [caller[c] EXCEPT !.pc = "done", !.told = what].pc = "done"
      /\ [caller[c] EXCEPT !.pc = "done", !.told = what].told = what
      /\ [caller[c] EXCEPT !.pc = "done", !.told = what].row = caller[c].row
      /\ [caller[c] EXCEPT !.pc = "done", !.told = what].id = caller[c].id
  BY <1>1 DEF Caller, Places
<1>3. /\ caller'[c] = [caller[c] EXCEPT !.pc = "done", !.told = what]
      /\ caller' = [caller EXCEPT ![c] = [caller[c] EXCEPT !.pc = "done", !.told = what]]
  BY DEF Ends
<1> QED BY <1>2, <1>3

LEMMA MovesOK ==
  ASSUME caller \in [Calls -> Caller], NEW c \in Calls,
         NEW pc \in Places,
         caller' = [caller EXCEPT ![c].pc = pc]
  PROVE  /\ caller' \in [Calls -> Caller]
         /\ caller'[c].pc = pc /\ caller'[c].told = caller[c].told
         /\ caller'[c].row = caller[c].row /\ caller'[c].id = caller[c].id
         /\ \A d \in Calls \ {c} : caller'[d] = caller[d]
<1>1. caller[c] \in Caller
  OBVIOUS
<1>2. /\ [caller[c] EXCEPT !.pc = pc] \in Caller
      /\ [caller[c] EXCEPT !.pc = pc].pc = pc
      /\ [caller[c] EXCEPT !.pc = pc].told = caller[c].told
      /\ [caller[c] EXCEPT !.pc = pc].row = caller[c].row
      /\ [caller[c] EXCEPT !.pc = pc].id = caller[c].id
  BY <1>1 DEF Caller, Places
<1>3. caller'[c] = [caller[c] EXCEPT !.pc = pc]
  OBVIOUS
<1> QED BY <1>2, <1>3

(* What a step may do to a caller and its request, all that the invariants   *)
(* below need of the code of the backend.                                   *)
Early == {"idle", "asked", "armed", "stopped", "fired", "greet", "lost"}
RowStep(c) ==
  /\ \/ caller'[c].row = caller[c].row
     \/ caller[c].pc = "storing" /\ caller'[c].row = caller[c].id
  /\ caller'[c].pc = "storing" =>
       \/ caller[c].pc = "storing" /\ caller'[c].id = caller[c].id
       \/ c \in Rows /\ \E r \in replies : r.call = c /\ r.id = caller'[c].id /\ r.res = "ok"
PcStep(c) ==
  /\ caller[c].pc \notin Early => caller'[c].pc \notin Early
  /\ caller[c].pc = "done" => caller'[c].pc = "done"
  /\ caller[c].pc = "idle" /\ caller'[c].pc # "idle" => c \in Timed \/ Dispatch(c)
QueueStep(c) ==
  c \in queue' \ queue =>
    /\ caller[c].pc \in {"idle", "greet"} /\ caller'[c].pc \notin Early
    /\ caller[c].pc = "idle" => c \notin Timed /\ Dispatch(c)
Tracked(c) == c = entry \/ c \in orphans
MenuKept(c) ==
  c \in MenuSet =>
    /\ caller'[c].pc \in {"idle", "asked"} <=> caller[c].pc \in {"idle", "asked"}
    /\ caller'[c].pc = "stopped" <=> caller[c].pc = "stopped"
    /\ caller'[c].pc = "armed" => caller[c].pc = "armed" /\ (Tracked(c) => Tracked(c)')
ToldStep(c) ==
  caller'[c].told = "refused" =>
    \/ caller[c].told = "refused"
    \/ /\ caller'[c].pc = "done" /\ (c \in queue' => c \in queue)
       /\ \/ caller[c].pc = "idle"
          \/ \E r \in replies : r.call = c /\ r.res = "refused"
CallerStep(c) == RowStep(c) /\ PcStep(c) /\ QueueStep(c) /\ ToldStep(c)

LEMMA UntouchedStep ==
  ASSUME NEW c \in Calls, caller'[c] = caller[c], c \in queue' => c \in queue,
         caller[c].pc = "armed" /\ Tracked(c) => Tracked(c)'
  PROVE  CallerStep(c) /\ MenuKept(c)
BY DEF CallerStep, RowStep, PcStep, QueueStep, ToldStep, MenuKept

LEMMA StoppedOK ==
  ASSUME caller \in [Calls -> Caller]
  PROVE  /\ Stopped \in [Calls -> Caller]
         /\ \A c \in Calls :
              \/ Stopped[c] = caller[c]
              \/ /\ c = entry /\ caller[c].pc = "armed" /\ Stopped[c].pc = "stopped"
                 /\ Stopped[c].row = caller[c].row /\ Stopped[c].id = caller[c].id
                 /\ Stopped[c].told = caller[c].told
<1>1. ASSUME NEW c \in Calls
      PROVE  /\ Stopped[c] \in Caller
             /\ \/ Stopped[c] = caller[c]
                \/ /\ c = entry /\ caller[c].pc = "armed" /\ Stopped[c].pc = "stopped"
                   /\ Stopped[c].row = caller[c].row /\ Stopped[c].id = caller[c].id
                   /\ Stopped[c].told = caller[c].told
  <2>1. caller[c] \in Caller
    OBVIOUS
  <2>2. CASE c = entry /\ caller[c].pc = "armed"
    <3>1. Stopped[c] = [caller[c] EXCEPT !.pc = "stopped"]
      BY <2>2 DEF Stopped
    <3> QED BY <2>1, <2>2, <3>1 DEF Caller, Places
  <2>3. CASE ~(c = entry /\ caller[c].pc = "armed")
    BY <2>1, <2>3 DEF Stopped
  <2> QED BY <2>2, <2>3
<1>2. Stopped = [c \in Calls |-> Stopped[c]]
  BY DEF Stopped
<1> QED BY <1>1, <1>2

(* Calls as the worker and the broker see them: a backend step changes at   *)
(* most the queue, by a call that was made.                                 *)
LEMMA BackendKeeps ==
  ASSUME TypeInv, UNCHANGED <<load, handler, wlink, live, tries, sent, again>>,
         Fault \/ UNCHANGED faults, CallersOK',
         \E c \in Active : queue' \in {queue, queue \cup {c}}
  PROVE  TypeInv'
<1>1. HandlersOK'
  BY DEF TypeInv, HandlersOK, DeliveryOK, Active
<1>2. QueueOK'
  BY DEF TypeInv, QueueOK, Active
<1> QED BY <1>1, <1>2, FaultsKept DEF TypeInv

LEMMA CalledOK ==
  ASSUME TypeInv, NEW c \in Active, Called(c)
  PROVE  /\ TypeInv'
         /\ caller'[c].pc \in {"waiting", "done"} /\ caller'[c].row = caller[c].row
         /\ caller'[c].told \in {caller[c].told, "unavailable"}
         /\ \A d \in Calls \ {c} : caller'[d] = caller[d]
         /\ queue' \in {queue, queue \cup {c}}
<1>1. /\ UNCHANGED <<load, entry, orphans, assigned, link, replies, handler, wlink, live, tries, sent, again>>
      /\ Fault \/ UNCHANGED faults
      /\ queue' \in {queue, queue \cup {c}}
      /\ Ends(c, "unavailable") \/ caller' = [caller EXCEPT ![c].pc = "waiting"]
  BY DEF Called, Call
<1>2. c \in Calls /\ caller \in [Calls -> Caller] /\ "unavailable" \in Told
  BY Bounds DEF TypeInv, FaultsOK, CallersOK, Told
<1>3. /\ caller' \in [Calls -> Caller]
      /\ caller'[c].pc \in {"waiting", "done"} /\ caller'[c].row = caller[c].row
      /\ caller'[c].told \in {caller[c].told, "unavailable"}
      /\ \A d \in Calls \ {c} : caller'[d] = caller[d]
  BY <1>1, <1>2, EndsOK, MovesOK DEF Places
<1>4. CallersOK'
  BY <1>1, <1>3 DEF TypeInv, CallersOK, Active
<1> QED BY <1>1, <1>3, <1>4, BackendKeeps


LEMMA StepCalls ==
  ASSUME TypeInv, NEW c \in Active, Send(c) \/ Greet(c)
  PROVE  TypeInv' /\ \A d \in Calls : CallerStep(d) /\ MenuKept(d)
<1>1. Called(c) /\ c \in Calls
  BY Bounds DEF Send, Greet, TypeInv, FaultsOK
<1>2. /\ TypeInv'
      /\ caller'[c].pc \in {"waiting", "done"} /\ caller'[c].row = caller[c].row
      /\ caller'[c].told \in {caller[c].told, "unavailable"}
      /\ \A d \in Calls \ {c} : caller'[d] = caller[d]
      /\ queue' \in {queue, queue \cup {c}}
  BY <1>1, CalledOK
<1>3. \/ caller[c].pc = "idle" /\ c \notin Timed /\ Dispatch(c)
      \/ caller[c].pc = "greet"
  BY DEF Send, Greet, Dispatch
<1>4. CallerStep(c) /\ MenuKept(c)
  BY <1>2, <1>3 DEF CallerStep, RowStep, PcStep, QueueStep, ToldStep, MenuKept, Early, Timed
<1>5. \A d \in Calls \ {c} : CallerStep(d) /\ MenuKept(d)
  BY <1>1, <1>2, UntouchedStep DEF Tracked, Called
<1> QED BY <1>2, <1>4, <1>5

(* The steps that end a call without the worker.                            *)
LEMMA StepEnds ==
  ASSUME TypeInv, NEW c \in Active,
         BadFile(c) \/ HangUp(c) \/ GiveUp(c) \/ (Store(c) /\ Ends(c, "internal"))
  PROVE  TypeInv' /\ \A d \in Calls : CallerStep(d) /\ MenuKept(d)
<1>1. /\ UNCHANGED <<load, entry, orphans, assigned, link, replies, queue, handler, wlink, live, tries, sent, again>>
      /\ Fault \/ UNCHANGED faults
      /\ \E what \in Told : Ends(c, what) /\ (what = "refused" => BadFile(c))
  BY DEF BadFile, HangUp, GiveUp, Store, worker, Only, Told, Results
<1>2. c \in Calls /\ caller \in [Calls -> Caller]
  BY Bounds DEF TypeInv, FaultsOK, CallersOK
<1>3. /\ caller' \in [Calls -> Caller]
      /\ caller'[c].pc = "done" /\ caller'[c].row = caller[c].row
      /\ caller'[c].told = "refused" => BadFile(c)
      /\ \A d \in Calls \ {c} : caller'[d] = caller[d]
  BY <1>1, <1>2, EndsOK
<1>4. /\ caller[c].pc = "idle" => c \in FileSet /\ Dispatch(c)
      /\ caller[c].pc \notin {"asked", "stopped", "done"}
      /\ BadFile(c) => caller[c].pc = "idle"
  BY DEF BadFile, HangUp, GiveUp, Waiting, Store, Dispatch
<1>5. c \in FileSet => c \notin MenuSet
  BY OutboundAssumption
<1>6. CallerStep(c) /\ MenuKept(c)
  BY <1>1, <1>3, <1>4, <1>5 DEF CallerStep, RowStep, PcStep, QueueStep, ToldStep, MenuKept, Early, Timed
<1>7. \A d \in Calls \ {c} : CallerStep(d) /\ MenuKept(d)
  BY <1>1, <1>3, UntouchedStep DEF Tracked
<1>8. CallersOK'
  BY <1>1, <1>3 DEF TypeInv, CallersOK, Active
<1> QED BY <1>1, <1>6, <1>7, <1>8, BackendKeeps

LEMMA StepStore ==
  ASSUME TypeInv, NEW c \in Active, Store(c)
  PROVE  TypeInv' /\ \A d \in Calls : CallerStep(d) /\ MenuKept(d)
<1>1. CASE Ends(c, "internal")
  BY <1>1, StepEnds DEF Store
<1>2. CASE ~Ends(c, "internal")
  <2>1. /\ UNCHANGED <<load, entry, orphans, assigned, link, replies, queue, handler, wlink, live, tries, sent, again, faults>>
        /\ caller[c].pc = "storing"
        /\ caller' = [caller EXCEPT ![c].pc = "done", ![c].told = "ok", ![c].row = caller[c].id]
    BY <1>2 DEF Store, worker
  <2>2. c \in Calls /\ caller \in [Calls -> Caller] /\ caller[c] \in Caller /\ "ok" \in Told
    BY Bounds DEF TypeInv, FaultsOK, CallersOK, Told, Results
  <2>3. caller'[c] = [caller[c] EXCEPT !.pc = "done", !.told = "ok", !.row = caller[c].id]
    BY <2>1, <2>2
  <2>4. /\ caller'[c] \in Caller /\ caller'[c].pc = "done" /\ caller'[c].row = caller[c].id
        /\ caller'[c].told = "ok"
    BY <2>2, <2>3 DEF Caller, Places
  <2>5. caller' \in [Calls -> Caller] /\ \A d \in Calls \ {c} : caller'[d] = caller[d]
    BY <2>1, <2>2, <2>3, <2>4
  <2>6. CallersOK'
    BY <2>1, <2>5 DEF TypeInv, CallersOK, Active
  <2>7. CallerStep(c) /\ MenuKept(c)
    BY <2>1, <2>4 DEF CallerStep, RowStep, PcStep, QueueStep, ToldStep, MenuKept, Early
  <2>8. \A d \in Calls \ {c} : CallerStep(d) /\ MenuKept(d)
    BY <2>1, <2>5, UntouchedStep DEF Tracked
  <2> QED BY <2>1, <2>6, <2>7, <2>8, BackendKeeps
<1> QED BY <1>1, <1>2

LEMMA StepAnswer ==
  ASSUME TypeInv, NEW r \in replies, Answer(r)
  PROVE  TypeInv' /\ \A d \in Calls : CallerStep(d) /\ MenuKept(d)
<1> DEFINE c == r.call
           told == Translate(load[c], r.res)
<1>1. /\ UNCHANGED <<load, entry, orphans, assigned, link, queue, handler, wlink, live, tries, sent, again, faults>>
      /\ replies' \subseteq replies
  BY DEF Answer, worker
<1>2. /\ c \in Active /\ c \in Calls /\ caller \in [Calls -> Caller] /\ caller[c] \in Caller
      /\ r \in Answers /\ r.id \in 0..MaxTry
  BY Bounds DEF TypeInv, FaultsOK, CallersOK, Answers
<1>3. told \in Told /\ (told = "ok" => r.res = "ok") /\ (told = "refused" => r.res = "refused")
  BY <1>2 DEF Translate, Told, Answers, Results
<1>4. \/ /\ caller[c].pc = "waiting" /\ c \in Rows /\ told = "ok"
         /\ caller' = [caller EXCEPT ![c].pc = "storing", ![c].id = r.id]
      \/ caller[c].pc = "waiting" /\ Ends(c, told)
      \/ UNCHANGED caller
  BY DEF Answer, Waiting
<1> HIDE DEF told
<1>5. CASE UNCHANGED caller
  <2>1. CallersOK'
    BY <1>1, <1>5 DEF TypeInv, CallersOK, Active
  <2>2. \A d \in Calls : CallerStep(d) /\ MenuKept(d)
    BY <1>1, <1>5, UntouchedStep DEF Tracked
  <2> QED BY <1>1, <1>2, <2>1, <2>2, BackendKeeps
<1>6. CASE caller[c].pc = "waiting" /\ Ends(c, told)
  <2>1. /\ caller' \in [Calls -> Caller]
        /\ caller'[c].pc = "done" /\ caller'[c].row = caller[c].row
        /\ caller'[c].told = told
        /\ \A d \in Calls \ {c} : caller'[d] = caller[d]
    BY <1>2, <1>3, <1>6, EndsOK
  <2>2. CallersOK'
    BY <1>1, <2>1 DEF TypeInv, CallersOK, Active
  <2>3. CallerStep(c) /\ MenuKept(c)
    BY <1>1, <1>3, <1>6, <2>1 DEF CallerStep, RowStep, PcStep, QueueStep, ToldStep, MenuKept, Early
  <2>4. \A d \in Calls \ {c} : CallerStep(d) /\ MenuKept(d)
    BY <1>1, <2>1, UntouchedStep DEF Tracked
  <2> QED BY <1>1, <1>2, <2>2, <2>3, <2>4, BackendKeeps
<1>7. CASE /\ caller[c].pc = "waiting" /\ c \in Rows /\ told = "ok"
           /\ caller' = [caller EXCEPT ![c].pc = "storing", ![c].id = r.id]
  <2>1. caller'[c] = [caller[c] EXCEPT !.pc = "storing", !.id = r.id]
    BY <1>2, <1>7
  <2>2. /\ caller'[c] \in Caller /\ caller'[c].pc = "storing" /\ caller'[c].row = caller[c].row
        /\ caller'[c].id = r.id /\ caller'[c].told = caller[c].told
    BY <1>2, <2>1 DEF Caller, Places
  <2>3. caller' \in [Calls -> Caller] /\ \A d \in Calls \ {c} : caller'[d] = caller[d]
    BY <1>2, <1>7, <2>2
  <2>4. CallersOK'
    BY <1>1, <2>3 DEF TypeInv, CallersOK, Active
  <2>5. CallerStep(c) /\ MenuKept(c)
    BY <1>1, <1>3, <1>7, <2>2 DEF CallerStep, RowStep, PcStep, QueueStep, ToldStep, MenuKept, Early
  <2>6. \A d \in Calls \ {c} : CallerStep(d) /\ MenuKept(d)
    BY <1>1, <2>3, UntouchedStep DEF Tracked
  <2> QED BY <1>1, <1>2, <2>4, <2>5, <2>6, BackendKeeps
<1> QED BY <1>4, <1>5, <1>6, <1>7

LEMMA MenusAreTimed ==
  ASSUME NEW i \in DOMAIN Menus
  PROVE  Menus[i] \in MenuSet /\ Menus[i] \in Timed /\ Menus[i] \in Calls /\ Menus[i] \notin Picks
BY OutboundAssumption DEF MenuSet, Timed

LEMMA StepSchedule ==
  ASSUME TypeInv, NEW i \in DOMAIN Menus, Schedule(i)
  PROVE  /\ TypeInv' /\ \A d \in Calls : CallerStep(d)
         /\ caller'[Menus[i]].pc = "armed"
         /\ \A d \in Calls \ {Menus[i]} :
              caller'[d].pc \in {"idle", "asked"} <=> caller[d].pc \in {"idle", "asked"}
<1> DEFINE m == Menus[i]
<1>1. /\ UNCHANGED <<load, assigned, link, replies, queue, handler, wlink, live, tries, sent, again, faults>>
      /\ caller' = [Stopped EXCEPT ![m].pc = "armed"] /\ entry' = m /\ orphans' = orphans
      /\ m \in Active /\ caller[m].pc = "asked"
  BY DEF Schedule, NextTimer, Only, MenuAt, worker
<1>2. m \in MenuSet /\ m \in Timed /\ m \in Calls /\ m \notin Picks
  BY MenusAreTimed
<1>3. caller \in [Calls -> Caller]
  BY DEF TypeInv, CallersOK
<1>4. /\ Stopped \in [Calls -> Caller]
      /\ \A c \in Calls :
           \/ Stopped[c] = caller[c]
           \/ /\ c = entry /\ caller[c].pc = "armed" /\ Stopped[c].pc = "stopped"
              /\ Stopped[c].row = caller[c].row /\ Stopped[c].id = caller[c].id
              /\ Stopped[c].told = caller[c].told
  BY <1>3, StoppedOK
<1>5. Stopped[m] = caller[m] /\ Stopped[m] \in Caller
  BY <1>1, <1>2, <1>4
<1>6. caller'[m] = [caller[m] EXCEPT !.pc = "armed"] /\ caller[m] \in Caller
  BY <1>1, <1>2, <1>4, <1>5
<1>7. /\ caller'[m] \in Caller /\ caller'[m].pc = "armed" /\ caller'[m].row = caller[m].row
      /\ caller'[m].told = caller[m].told
  BY <1>6 DEF Caller, Places
<1>8. caller' \in [Calls -> Caller] /\ \A d \in Calls \ {m} : caller'[d] = Stopped[d]
  BY <1>1, <1>2, <1>4, <1>7
<1>9. CallersOK'
  BY <1>1, <1>2, <1>8 DEF TypeInv, CallersOK, Active
<1>10. TypeInv'
  BY <1>1, <1>9, BackendKeeps
<1>11. ASSUME NEW d \in Calls
       PROVE  CallerStep(d)
  <2>1. CASE d = m
    BY <2>1, <1>1, <1>2, <1>7 DEF CallerStep, RowStep, PcStep, QueueStep, ToldStep, Early
  <2>2. CASE d # m
    BY <2>2, <1>1, <1>4, <1>8 DEF CallerStep, RowStep, PcStep, QueueStep, ToldStep, Early
  <2> QED BY <2>1, <2>2
<1>12. \A d \in Calls \ {m} :
         caller'[d].pc \in {"idle", "asked"} <=> caller[d].pc \in {"idle", "asked"}
  BY <1>4, <1>8
<1> QED BY <1>1, <1>7, <1>10, <1>11, <1>12

LEMMA StepTimer ==
  ASSUME TypeInv, NEW i \in DOMAIN Menus, Fire(i) \/ Forget(i)
  PROVE  TypeInv' /\ \A d \in Calls : CallerStep(d) /\ MenuKept(d)
<1> DEFINE m == Menus[i]
<1>1. /\ UNCHANGED <<load, assigned, link, replies, queue, handler, wlink, live, tries, sent, again, faults>>
      /\ entry' \in {entry, None} /\ orphans' \in SUBSET (orphans \cup ({entry} \ {None})) /\ m \in Active
      /\ \A d \in Calls \ {m} : Tracked(d) => Tracked(d)'
      /\ \/ caller[m].pc = "armed" /\ caller' = [caller EXCEPT ![m].pc = "fired"]
         \/ caller[m].pc = "fired" /\ caller' = [caller EXCEPT ![m].pc = "greet"]
  BY OutboundAssumption DEF Fire, Forget, Only, MenuAt, worker, Tracked
<1>2. m \in MenuSet /\ m \in Calls /\ m \notin Picks
  BY MenusAreTimed
<1>3. caller \in [Calls -> Caller]
  BY DEF TypeInv, CallersOK
<1>4. /\ caller' \in [Calls -> Caller]
      /\ caller'[m].pc \in {"fired", "greet"} /\ caller'[m].row = caller[m].row
      /\ caller'[m].told = caller[m].told
      /\ \A d \in Calls \ {m} : caller'[d] = caller[d]
  BY <1>1, <1>2, <1>3, MovesOK DEF Places
<1>5. CallersOK'
  BY <1>1, <1>4 DEF TypeInv, CallersOK, Active
<1>6. CallerStep(m) /\ MenuKept(m)
  BY <1>1, <1>2, <1>4 DEF CallerStep, RowStep, PcStep, QueueStep, ToldStep, MenuKept, Early
<1>7. \A d \in Calls \ {m} : CallerStep(d) /\ MenuKept(d)
  BY <1>1, <1>4, UntouchedStep DEF Tracked
<1> QED BY <1>1, <1>5, <1>6, <1>7, BackendKeeps

(* A message reads the ticket, and a choice acts on what it read.           *)
LEMMA StepMessage ==
  ASSUME TypeInv, NEW c \in Active, ReadTicket(c) \/ Choose(c)
  PROVE  TypeInv' /\ \A d \in Calls : CallerStep(d) /\ MenuKept(d)
<1>1. /\ UNCHANGED <<load, entry, orphans, link, replies, queue, handler, wlink, live, tries, sent, again>>
      /\ Fault \/ UNCHANGED faults
      /\ assigned' \in {assigned, TRUE} /\ c \in Timed
      /\ \/ /\ caller[c].pc = "idle" /\ caller' = [caller EXCEPT ![c].pc = "asked"]
         \/ /\ caller[c].pc = "asked" /\ c \in Picks
            /\ caller' = [caller EXCEPT ![c].pc = "greet"] \/ Ends(c, "internal")
  BY DEF ReadTicket, Choose, worker, Timed
<1>2. c \in Calls /\ caller \in [Calls -> Caller] /\ (c \in Picks => c \notin MenuSet)
  BY Bounds, OutboundAssumption DEF TypeInv, FaultsOK, CallersOK
<1>3. "internal" \in Told /\ "asked" \in Places /\ "greet" \in Places
  BY DEF Told, Results, Places
<1>4. /\ caller' \in [Calls -> Caller] /\ caller'[c].row = caller[c].row
      /\ \A d \in Calls \ {c} : caller'[d] = caller[d]
      /\ \/ caller[c].pc = "idle" /\ caller'[c].pc = "asked" /\ caller'[c].told = caller[c].told
         \/ /\ caller[c].pc = "asked" /\ c \in Picks /\ caller'[c].pc = "greet"
            /\ caller'[c].told = caller[c].told
         \/ caller[c].pc = "asked" /\ c \in Picks /\ caller'[c].pc = "done" /\ caller'[c].told = "internal"
  <2>1. CASE caller' = [caller EXCEPT ![c].pc = "asked"] /\ caller[c].pc = "idle"
    BY <2>1, <1>2, <1>3, MovesOK DEF Places
  <2>2. CASE caller' = [caller EXCEPT ![c].pc = "greet"] /\ caller[c].pc = "asked" /\ c \in Picks
    BY <2>2, <1>2, <1>3, MovesOK DEF Places
  <2>3. CASE Ends(c, "internal") /\ caller[c].pc = "asked" /\ c \in Picks
    BY <2>3, <1>2, <1>3, EndsOK
  <2> QED BY <1>1, <2>1, <2>2, <2>3
<1>5. CallersOK'
  BY <1>1, <1>4 DEF TypeInv, CallersOK, Active
<1>6. CallerStep(c)
  BY <1>1, <1>4 DEF CallerStep, RowStep, PcStep, QueueStep, ToldStep, Early
<1>7. MenuKept(c)
  BY <1>2, <1>4 DEF MenuKept
<1>8. \A d \in Calls \ {c} : CallerStep(d) /\ MenuKept(d)
  BY <1>1, <1>4, UntouchedStep DEF Tracked
<1> QED BY <1>1, <1>5, <1>6, <1>7, <1>8, BackendKeeps

LEMMA StepUpdate ==
  ASSUME TypeInv, UpdateTicket
  PROVE  TypeInv' /\ \A d \in Calls : CallerStep(d) /\ MenuKept(d)
<1>1. /\ UNCHANGED <<load, caller, entry, orphans, link, replies, queue, handler, wlink, live, tries, sent, again, faults>>
      /\ assigned' \in BOOLEAN /\ \E c \in Active : TRUE
  BY DEF UpdateTicket, worker
<1>2. CallersOK'
  BY <1>1 DEF TypeInv, CallersOK, Active
<1>3. \A d \in Calls : CallerStep(d) /\ MenuKept(d)
  BY <1>1, UntouchedStep DEF Tracked
<1> QED BY <1>1, <1>2, <1>3, BackendKeeps

LEMMA StepFails ==
  ASSUME TypeInv, BackendLinkLost \/ BackendLinkUp \/ BackendCrash
  PROVE  TypeInv' /\ \A d \in Calls : CallerStep(d) /\ MenuKept(d)
<1>1. /\ UNCHANGED <<load, assigned, queue, handler, wlink, live, tries, sent, again>>
      /\ Fault \/ UNCHANGED faults
      /\ entry' \in {entry, None} /\ orphans' \in {orphans, {}}
      /\ replies' \in {replies, {}} /\ link' \in BOOLEAN
  BY DEF BackendLinkLost, BackendLinkUp, BackendCrash, worker
<1>2. caller \in [Calls -> Caller]
  BY DEF TypeInv, CallersOK
<1>a. \/ UNCHANGED <<entry, orphans>> \/ BackendCrash
  BY DEF BackendLinkLost, BackendLinkUp
<1>3. ASSUME NEW d \in Calls
      PROVE  /\ caller'[d] \in Caller
             /\ \/ caller'[d] = caller[d] /\ (BackendCrash => caller[d].pc # "armed")
                \/ /\ caller[d].pc \in {"armed", "fired", "greet", "waiting", "storing"}
                   /\ caller'[d].pc = "done"
                   /\ caller'[d].row = caller[d].row /\ caller'[d].told \in {"gone", "unavailable"}
                \/ /\ caller[d].pc = "asked" /\ caller'[d].pc = "idle"
                   /\ caller'[d].row = caller[d].row /\ caller'[d].told = caller[d].told
                \/ /\ caller[d].pc \in {"armed", "fired", "greet"} /\ caller'[d].pc = "lost"
                   /\ caller'[d].row = caller[d].row /\ caller'[d].told = caller[d].told
  <2>1. caller[d] \in Caller /\ "gone" \in Told /\ "unavailable" \in Told
    BY <1>2 DEF Told
  <2>2. CASE BackendCrash
    <3>1. caller'[d] = Restarted(caller[d])
      BY <2>2 DEF BackendCrash
    <3>2. CASE caller[d].pc = "asked"
      <4>1. caller'[d] = [caller[d] EXCEPT !.pc = "idle"]
        BY <3>1, <3>2 DEF Restarted
      <4> QED BY <2>1, <3>2, <4>1 DEF Caller, Places
    <3>3. CASE caller[d].pc \in {"armed", "fired", "greet"}
      <4>1. caller'[d] = [caller[d] EXCEPT !.pc = "lost"]
        BY <3>1, <3>3 DEF Restarted
      <4> QED BY <2>1, <3>3, <4>1 DEF Caller, Places
    <3>4. CASE caller[d].pc \in {"waiting", "storing"}
      <4>1. caller'[d] = [caller[d] EXCEPT !.pc = "done", !.told = "gone"]
        BY <3>1, <3>4 DEF Restarted
      <4> QED BY <2>1, <3>4, <4>1 DEF Caller, Places
    <3>5. CASE caller[d].pc \notin {"asked", "armed", "fired", "greet", "waiting", "storing"}
      <4>1. caller'[d] = caller[d]
        BY <3>1, <3>5 DEF Restarted
      <4> QED BY <2>1, <3>5, <4>1
    <3> QED BY <3>2, <3>3, <3>4, <3>5
  <2>3. CASE BackendLinkUp /\ ~BackendCrash
    BY <2>1, <2>3 DEF BackendLinkUp
  <2>4. CASE BackendLinkLost /\ ~BackendCrash
    <3>1. \/ caller'[d] = caller[d]
          \/ /\ caller[d].pc = "waiting"
             /\ caller'[d] = [caller[d] EXCEPT !.pc = "done", !.told = "unavailable"]
      BY <2>4 DEF BackendLinkLost, Waiting
    <3> QED BY <2>1, <2>4, <3>1 DEF Caller, Places
  <2> QED BY <2>2, <2>3, <2>4
<1>4. caller' = [d \in Calls |-> caller'[d]]
  BY <1>2 DEF BackendLinkLost, BackendLinkUp, BackendCrash
<1>5. caller' \in [Calls -> Caller]
  BY <1>3, <1>4
<1>6. CallersOK'
  BY <1>1, <1>5 DEF TypeInv, CallersOK, Active
<1>7. ASSUME NEW d \in Calls
      PROVE  CallerStep(d) /\ MenuKept(d)
  <2>1. CallerStep(d)
    BY <1>1, <1>3 DEF CallerStep, RowStep, PcStep, QueueStep, ToldStep, Early
  <2>2. MenuKept(d)
    BY <1>a, <1>3 DEF MenuKept, Tracked
  <2> QED BY <2>1, <2>2
<1>8. TypeInv'
  <2>1. CASE \E c \in Active : TRUE
    BY <1>1, <1>6, <2>1, BackendKeeps
  <2>2. CASE ~\E c \in Active : TRUE
    <3>1. HandlersOK' /\ QueueOK'
      BY <1>1 DEF TypeInv, HandlersOK, DeliveryOK, QueueOK, Active
    <3> QED BY <1>1, <1>6, <3>1, FaultsKept DEF TypeInv
  <2> QED BY <2>1, <2>2
<1> QED BY <1>1, <1>7, <1>8

-----------------------------------------------------------------------------
(* All steps together.                                                      *)
WorkerStep ==
  \/ \E h \in Handlers : Handle(h) \/ \E c \in Active : Take(h, c)
  \/ WorkerLinkLost \/ WorkerLinkUp \/ WorkerCrash \/ SessionDown \/ SessionUp
BackendStep ==
  \/ \E c \in Active : Send(c) \/ BadFile(c) \/ Store(c) \/ HangUp(c)
  \/ \E c \in Active : ReadTicket(c) \/ Choose(c) \/ Greet(c) \/ GiveUp(c)
  \/ UpdateTicket
  \/ \E r \in replies : Answer(r)
  \/ \E i \in DOMAIN Menus : Schedule(i) \/ Fire(i) \/ Forget(i)
  \/ BackendLinkLost \/ BackendLinkUp \/ BackendCrash

LEMMA NextIs == Next <=> WorkerStep \/ BackendStep
BY DEF Next, WorkerStep, BackendStep

LEMMA TypeWorker ==
  ASSUME TypeInv, WorkerStep
  PROVE  TypeInv' /\ UNCHANGED <<load, caller, entry, orphans, assigned>>
<1>1. TypeInv'
  BY TypeTake, TypeCheck, TypeSend, TypeAsk, TypeReply, TypeLinks DEF WorkerStep, Handle
<1>2. UNCHANGED <<load, caller, entry, orphans, assigned>>
  BY DEF WorkerStep, Handle, Take, CheckSession, CheckRequest, UploadMedia, SendMessage, Ask,
         Panic, Replied, NotReplied, Settle, WorkerLinkLost, WorkerLinkUp, WorkerCrash,
         SessionDown, SessionUp, Unmoved, backend
<1> QED BY <1>1, <1>2

LEMMA TypeBackend ==
  ASSUME TypeInv, BackendStep
  PROVE  /\ TypeInv' /\ \A d \in Calls : CallerStep(d)
         /\ (\E i \in DOMAIN Menus : Schedule(i)) \/ (\A d \in Calls : MenuKept(d))
<1>1. ASSUME NEW c \in Active,
             \/ Send(c) \/ BadFile(c) \/ Store(c) \/ HangUp(c)
             \/ ReadTicket(c) \/ Choose(c) \/ Greet(c) \/ GiveUp(c)
      PROVE  TypeInv' /\ \A d \in Calls : CallerStep(d) /\ MenuKept(d)
  BY <1>1, StepCalls, StepEnds, StepStore, StepMessage
<1>3. ASSUME NEW r \in replies, Answer(r)
      PROVE  TypeInv' /\ \A d \in Calls : CallerStep(d) /\ MenuKept(d)
  BY <1>3, StepAnswer
<1>4. ASSUME NEW i \in DOMAIN Menus, Fire(i) \/ Forget(i)
      PROVE  TypeInv' /\ \A d \in Calls : CallerStep(d) /\ MenuKept(d)
  BY <1>4, StepTimer
<1>5. ASSUME NEW i \in DOMAIN Menus, Schedule(i)
      PROVE  TypeInv' /\ \A d \in Calls : CallerStep(d)
  BY <1>5, StepSchedule
<1> QED BY <1>1, <1>3, <1>4, <1>5, StepUpdate, StepFails DEF BackendStep

LEMMA TypeInit == Init => TypeInv
<1> SUFFICES ASSUME Init PROVE TypeInv
  OBVIOUS
<1>1. load \in Loads /\ Budget(load) \in 0..MaxFaults /\ MaxFaults \in Nat /\ 0 \in 0..MaxTry
  BY Bounds DEF Init
<1>2. caller \in [Calls -> Caller]
  <2>1. [pc |-> "idle", told |-> "none", id |-> 0, row |-> 0] \in Caller
    BY <1>1 DEF Caller, Places, Told
  <2> QED BY <2>1 DEF Init
<1>3. handler \in [Handlers -> Delivery] /\ \A h \in Handlers : DeliveryOK(handler[h])
  BY IdleOK DEF Init, IdleHandler, DeliveryOK
<1>4. 0 \in 0..Budget(load) /\ 0 \in Nat
  BY <1>1
<1>5. FaultsOK
  BY <1>1, <1>4 DEF Init, FaultsOK
<1> QED BY <1>1, <1>2, <1>3, <1>5 DEF Init, TypeInv, CallersOK, HandlersOK, QueueOK

LEMMA TypeStep == ASSUME TypeInv, [Next]_vars PROVE TypeInv'
<1>1. CASE Next
  BY <1>1, NextIs, TypeWorker, TypeBackend
<1>2. CASE UNCHANGED vars
  <2>1. UNCHANGED <<load, caller, entry, orphans, assigned, link, replies, queue, handler, wlink, live,
                    tries, sent, again, faults>>
    BY <1>2 DEF vars, backend, worker
  <2>2. HandlersOK'
    BY <2>1 DEF TypeInv, HandlersOK, DeliveryOK, Active
  <2> QED BY <2>1, <2>2 DEF TypeInv, CallersOK, QueueOK, FaultsOK, Active
<1> QED BY <1>1, <1>2

LEMMA AlwaysTypeInv == Spec => []TypeInv
BY TypeInit, TypeStep, PTL DEF Spec

(* Every call, delivery, reply and history keeps its type, and a goroutine  *)
(* that runs always has a step left: the worker never ends without a result.*)
THEOREM TypeCorrect == Spec => []TypeOK
BY AlwaysTypeInv, TypeInvImplies, PTL

-----------------------------------------------------------------------------
(* What a step of the worker may do to a goroutine, to a call's deliveries, *)
(* to what the customer received and to the replies.                        *)
Keeps(h) ==
  /\ handler[h].pc # "idle"
  /\ handler'[h].call = handler[h].call /\ handler'[h].id = handler[h].id
Sends(h) == handler[h].id \in sent'[handler[h].call]
HandlerStep(h) ==
  handler'[h].pc # "idle" =>
    \/ /\ Keeps(h)
       /\ handler'[h].pc = "run" =>
            /\ handler[h].pc = "run"
            /\ OnlySends(handler[h].todo) => OnlySends(handler'[h].todo)
       /\ handler'[h].res = "ok" =>
            \/ handler[h].res = "ok"
            \/ handler[h].pc = "run" /\ (OnlySends(handler[h].todo) => Sends(h))
       /\ handler'[h].res = "refused" =>
            \/ handler[h].res = "refused" /\ handler[h].pc # "run"
            \/ handler[h].pc = "run" /\ handler'[h].pc = "reply" /\ UNCHANGED sent
    \/ /\ handler[h].pc = "idle" /\ handler'[h].pc = "run"
       /\ handler'[h].call \in queue /\ handler'[h].id = tries[handler'[h].call] + 1
       /\ tries'[handler'[h].call] = tries[handler'[h].call] + 1
       /\ handler'[h].todo = Steps[load[handler'[h].call]]

In(c, q) == IF c \in q THEN 1 ELSE 0
RunsFor(h, c) == handler[h].pc # "idle" /\ handler[h].call = c
DeliveryStep(c) ==
  /\ c \in queue' => c \in queue \/ \E h \in Handlers : RunsFor(h, c)
  /\ tries'[c] + In(c, queue') + again[c] <= tries[c] + In(c, queue) + again'[c]
  /\ tries[c] <= tries'[c] /\ again[c] <= again'[c]
  /\ sent[c] \subseteq sent'[c]
  /\ \A n \in sent'[c] \ sent[c] :
       \E h \in Handlers : RunsFor(h, c) /\ handler[h].pc = "run" /\ handler[h].id = n
                           /\ handler'[h].pc # "run"
RepliesStep ==
  \A r \in replies' \ replies :
    \E h \in Handlers : handler[h].pc = "reply" /\ r = Reply(h)
WorkerRel ==
  /\ \A h \in Handlers : HandlerStep(h)
  /\ \A c \in Calls : DeliveryStep(c)
  /\ RepliesStep

LEMMA SetsOne ==
  ASSUME handler \in [Handlers -> Delivery], NEW h \in Handlers, NEW new, SetHandler(h, new)
  PROVE  handler'[h] = new /\ \A g \in Handlers \ {h} : handler'[g] = handler[g]
BY DEF SetHandler

(* The lists of the types, once for all goroutines.                         *)
LEMMA HandlerTypes ==
  ASSUME TypeInv, NEW h \in Handlers
  PROVE  /\ handler \in [Handlers -> Delivery] /\ handler[h] \in Delivery
         /\ handler[h].pc # "idle" => /\ handler[h].call \in Active /\ handler[h].call \in Calls
                                      /\ handler[h].id \in 1..tries[handler[h].call]
         /\ handler[h].pc = "run" => TodoOK(handler[h].todo) /\ handler[h].res = "none"
BY Bounds DEF TypeInv, HandlersOK, DeliveryOK, FaultsOK

LEMMA OtherHandler ==
  ASSUME TypeInv, NEW h \in Handlers, handler'[h] = handler[h]
  PROVE  HandlerStep(h)
<1>1. handler[h].res = "refused" => handler[h].pc # "run"
  BY HandlerTypes
<1> QED BY <1>1 DEF HandlerStep, Keeps

LEMMA StillDelivery ==
  ASSUME TypeInv, UNCHANGED <<queue, tries, sent, again>>, NEW c \in Calls
  PROVE  DeliveryStep(c)
<1>1. tries[c] \in Nat /\ again[c] \in Nat /\ In(c, queue) \in Nat
  BY Bounds DEF TypeInv, QueueOK, FaultsOK, In
<1> QED BY <1>1 DEF DeliveryStep

LEMMA ReturnsStep ==
  ASSUME TypeInv, NEW h \in Handlers, Running(h), NEW res \in Results, Returns(h, res),
         res = "ok" => (OnlySends(handler[h].todo) => Sends(h)),
         res = "refused" => UNCHANGED sent
  PROVE  (\A g \in Handlers : HandlerStep(g)) /\ handler'[h].pc = "reply"
<1>1. handler \in [Handlers -> Delivery] /\ handler[h] \in Delivery /\ handler[h].pc = "run"
  BY HandlerTypes DEF Running
<1> DEFINE new == [handler[h] EXCEPT !.todo = <<>>, !.res = res, !.pc = "reply"]
<1>2. new.res = res /\ new.pc = "reply" /\ new.call = handler[h].call /\ new.id = handler[h].id
  BY <1>1 DEF Delivery
<1>3. SetHandler(h, new)
  BY DEF Returns
<1> HIDE DEF new
<1>4. handler'[h] = new /\ \A g \in Handlers \ {h} : handler'[g] = handler[g]
  BY <1>1, <1>3, SetsOne
<1>5. HandlerStep(h)
  BY <1>1, <1>2, <1>4 DEF HandlerStep, Keeps
<1> QED BY <1>2, <1>4, <1>5, OtherHandler

LEMMA PassesStep ==
  ASSUME TypeInv, NEW h \in Handlers, NEW s \in CheckSteps, Doing(h, s), Passes(h)
  PROVE  \A g \in Handlers : HandlerStep(g)
<1>1. /\ handler \in [Handlers -> Delivery] /\ handler[h] \in Delivery /\ handler[h].pc = "run"
      /\ TodoOK(handler[h].todo) /\ handler[h].res = "none" /\ Head(handler[h].todo) \in CheckSteps
  BY HandlerTypes DEF Doing, Running
<1> DEFINE new == [handler[h] EXCEPT !.todo = Tail(@)]
<1>2. /\ new.res = handler[h].res /\ new.pc = handler[h].pc /\ new.call = handler[h].call
      /\ new.id = handler[h].id /\ new.todo = Tail(handler[h].todo)
  BY <1>1 DEF Delivery
<1>3. SetHandler(h, new)
  BY DEF Passes
<1> HIDE DEF new
<1>4. handler'[h] = new /\ \A g \in Handlers \ {h} : handler'[g] = handler[g]
  BY <1>1, <1>3, SetsOne
<1>5. OnlySends(handler[h].todo) => OnlySends(Tail(handler[h].todo))
  BY <1>1, TailOfTodo
<1>6. HandlerStep(h)
  BY <1>1, <1>2, <1>4, <1>5 DEF HandlerStep, Keeps
<1> QED BY <1>4, <1>6, OtherHandler

LEMMA DoneStep ==
  ASSUME TypeInv, NEW h \in Handlers, handler[h].pc = "reply", Done(h)
  PROVE  \A g \in Handlers : HandlerStep(g)
<1>1. handler \in [Handlers -> Delivery] /\ handler[h] \in Delivery
  BY HandlerTypes
<1> DEFINE new == [handler[h] EXCEPT !.pc = "settle"]
<1>2. new.res = handler[h].res /\ new.pc = "settle" /\ new.call = handler[h].call /\ new.id = handler[h].id
  BY <1>1 DEF Delivery
<1>3. SetHandler(h, new)
  BY DEF Done
<1> HIDE DEF new
<1>4. handler'[h] = new /\ \A g \in Handlers \ {h} : handler'[g] = handler[g]
  BY <1>1, <1>3, SetsOne
<1>5. HandlerStep(h)
  BY <1>1, <1>2, <1>4 DEF HandlerStep, Keeps
<1> QED BY <1>4, <1>5, OtherHandler

LEMMA IdledStep ==
  ASSUME TypeInv, NEW h \in Handlers, SetHandler(h, IdleHandler)
  PROVE  \A g \in Handlers : HandlerStep(g)
<1>1. handler'[h] = IdleHandler /\ \A g \in Handlers \ {h} : handler'[g] = handler[g]
  BY HandlerTypes, SetsOne
<1>2. HandlerStep(h)
  BY <1>1 DEF HandlerStep, IdleHandler
<1> QED BY <1>1, <1>2, OtherHandler

LEMMA RelTake ==
  ASSUME TypeInv, NEW h \in Handlers, NEW c \in Active, Take(h, c)
  PROVE  WorkerRel
<1> DEFINE new == [call |-> c, id |-> tries'[c], todo |-> Steps[load[c]], res |-> "none",
                   pc |-> "run", valid |-> TRUE]
<1>1. /\ SetHandler(h, new) /\ c \in queue /\ handler[h].pc = "idle" /\ c \in Calls
      /\ tries' = [tries EXCEPT ![c] = @ + 1] /\ queue' = queue \ {c}
      /\ UNCHANGED <<sent, again, replies>>
  BY Bounds DEF Take, Unmoved, backend, TypeInv, FaultsOK
<1>2. tries'[c] = tries[c] + 1 /\ tries \in [Calls -> Nat] /\ again \in [Calls -> Nat]
  BY <1>1, Bounds DEF TypeInv, QueueOK, FaultsOK
<1>3. /\ new.call = c /\ new.id = tries[c] + 1 /\ new.todo = Steps[load[c]] /\ new.res = "none"
      /\ new.pc = "run"
  BY <1>2
<1> HIDE DEF new
<1>4. handler'[h] = new /\ \A g \in Handlers \ {h} : handler'[g] = handler[g]
  BY <1>1, HandlerTypes, SetsOne
<1>5. HandlerStep(h)
  BY <1>1, <1>2, <1>3, <1>4 DEF HandlerStep
<1>6. \A g \in Handlers : HandlerStep(g)
  BY <1>4, <1>5, OtherHandler
<1>7. ASSUME NEW d \in Calls
      PROVE  DeliveryStep(d)
  <2>1. tries[d] \in Nat /\ again[d] \in Nat
    BY <1>2
  <2>2. CASE d = c
    BY <2>1, <2>2, <1>1, <1>2 DEF DeliveryStep, In
  <2>3. CASE d # c
    <3>1. tries'[d] = tries[d] /\ (d \in queue' <=> d \in queue)
      BY <2>3, <1>1, <1>2
    <3>2. In(d, queue') = In(d, queue) /\ In(d, queue) \in Nat
      BY <3>1 DEF In
    <3> QED BY <2>1, <3>1, <3>2, <1>1 DEF DeliveryStep
  <2> QED BY <2>2, <2>3
<1> QED BY <1>1, <1>6, <1>7 DEF WorkerRel, RepliesStep

LEMMA RelCheck ==
  ASSUME TypeInv, NEW h \in Handlers,
         CheckSession(h) \/ CheckRequest(h) \/ UploadMedia(h) \/ Ask(h) \/ Panic(h)
  PROVE  WorkerRel
<1>1. UNCHANGED <<queue, tries, sent, again, replies>>
  BY DEF CheckSession, CheckRequest, UploadMedia, Ask, Panic, Unmoved, backend
<1>2. \/ \E res \in {"refused", "internal"} : Running(h) /\ Returns(h, res)
      \/ \E s \in CheckSteps : Doing(h, s) /\ Passes(h)
      \/ \E s \in {"ask", "pair"} : Doing(h, s) /\ Returns(h, "ok")
  <2>1. CASE CheckSession(h)
    BY <2>1 DEF CheckSession, CheckSteps, Doing
  <2>2. CASE CheckRequest(h)
    BY <2>2 DEF CheckRequest, CheckSteps, Doing
  <2>3. CASE UploadMedia(h)
    BY <2>3 DEF UploadMedia, CheckSteps, Doing
  <2>4. CASE Ask(h)
    BY <2>4 DEF Ask, Doing
  <2>5. CASE Panic(h)
    BY <2>5 DEF Panic
  <2> QED BY <2>1, <2>2, <2>3, <2>4, <2>5
<1>3. ASSUME NEW s \in {"ask", "pair"}, Doing(h, s)
      PROVE  Running(h) /\ ~OnlySends(handler[h].todo)
  <2>1. /\ Running(h) /\ handler[h].todo \in Seq(StepNames) /\ handler[h].todo # <<>>
        /\ Head(handler[h].todo) = s
    BY <1>3, HandlerTypes DEF Doing, Running, TodoOK
  <2>2. 1 \in 1..Len(handler[h].todo) /\ handler[h].todo[1] = s
    BY <2>1
  <2> QED BY <2>1, <2>2 DEF OnlySends
<1>4. \A g \in Handlers : HandlerStep(g)
  <2>1. CASE \E res \in {"refused", "internal"} : Running(h) /\ Returns(h, res)
    BY <2>1, <1>1, ReturnsStep DEF Results
  <2>2. CASE \E s \in CheckSteps : Doing(h, s) /\ Passes(h)
    BY <2>2, PassesStep
  <2>3. CASE \E s \in {"ask", "pair"} : Doing(h, s) /\ Returns(h, "ok")
    BY <2>3, <1>3, ReturnsStep DEF Results
  <2> QED BY <1>2, <2>1, <2>2, <2>3
<1>5. \A c \in Calls : DeliveryStep(c)
  BY <1>1, StillDelivery
<1> QED BY <1>1, <1>4, <1>5 DEF WorkerRel, RepliesStep

LEMMA RelSend ==
  ASSUME TypeInv, NEW h \in Handlers, SendMessage(h)
  PROVE  WorkerRel
<1> DEFINE c == handler[h].call
<1>1. /\ UNCHANGED <<queue, tries, again, replies>> /\ Running(h)
      /\ sent' = sent \/ sent' = [sent EXCEPT ![c] = @ \cup {handler[h].id}]
      /\ \/ Returns(h, "ok") /\ sent' = [sent EXCEPT ![c] = @ \cup {handler[h].id}]
         \/ Returns(h, "refused") /\ UNCHANGED sent
         \/ Returns(h, "internal")
  BY DEF SendMessage, Unmoved, backend, Doing, MapSendError, Rejections
<1>2. c \in Calls /\ handler[h].pc = "run" /\ sent \in [Calls -> SUBSET (1..MaxTry)]
  BY <1>1, HandlerTypes DEF Running, TypeInv, QueueOK
<1>3. (\A g \in Handlers : HandlerStep(g)) /\ handler'[h].pc = "reply"
  <2>1. CASE Returns(h, "ok") /\ sent' = [sent EXCEPT ![c] = @ \cup {handler[h].id}]
    <3>1. Sends(h)
      BY <2>1, <1>2 DEF Sends
    <3> QED BY <2>1, <3>1, <1>1, ReturnsStep DEF Results
  <2>2. CASE Returns(h, "refused") /\ UNCHANGED sent
    BY <2>2, <1>1, ReturnsStep DEF Results
  <2>3. CASE Returns(h, "internal")
    BY <2>3, <1>1, ReturnsStep DEF Results
  <2> QED BY <1>1, <2>1, <2>2, <2>3
<1>4. ASSUME NEW d \in Calls
      PROVE  DeliveryStep(d)
  <2>1. tries[d] \in Nat /\ again[d] \in Nat /\ In(d, queue) \in Nat
    BY Bounds DEF TypeInv, QueueOK, FaultsOK, In
  <2>2. sent[d] \subseteq sent'[d] /\ \A n \in sent'[d] \ sent[d] : d = c /\ n = handler[h].id
    BY <1>1, <1>2
  <2> QED BY <2>1, <2>2, <1>1, <1>2, <1>3 DEF DeliveryStep, RunsFor
<1> QED BY <1>1, <1>3, <1>4 DEF WorkerRel, RepliesStep

(* A delivery that comes back is paid for by the count of its returns.      *)
LEMMA RequeuedOK ==
  ASSUME TypeInv, NEW c \in Calls, c \in Held, queue' = queue \/ c \in queue',
         again'[c] = again[c] + 1, UNCHANGED <<tries, sent>>
  PROVE  DeliveryStep(c)
<1>1. tries[c] \in Nat /\ again[c] \in Nat /\ In(c, queue) \in {0, 1} /\ In(c, queue') \in {0, 1}
  BY Bounds DEF TypeInv, QueueOK, FaultsOK, In
<1>2. In(c, queue') <= In(c, queue) + 1
  BY <1>1
<1>3. \E h \in Handlers : RunsFor(h, c)
  BY DEF Held, RunsFor
<1>4. tries'[c] + In(c, queue') + again[c] <= tries[c] + In(c, queue) + again'[c]
  BY <1>1, <1>2
<1> QED BY <1>1, <1>3, <1>4 DEF DeliveryStep

LEMMA RelReply ==
  ASSUME TypeInv, NEW h \in Handlers, Replied(h) \/ NotReplied(h) \/ Settle(h)
  PROVE  WorkerRel
<1>1. CASE Replied(h)
  <2>1. /\ UNCHANGED <<queue, tries, sent, again>> /\ Done(h) /\ handler[h].pc = "reply"
        /\ replies' = Arrived(h)
    BY <1>1 DEF Replied
  <2>2. RepliesStep
    BY <2>1 DEF RepliesStep, Arrived
  <2> QED BY <2>1, <2>2, DoneStep, StillDelivery DEF WorkerRel
<1>2. CASE Settle(h)
  <2>1. UNCHANGED <<queue, tries, sent, again, replies>> /\ SetHandler(h, IdleHandler)
    BY <1>2 DEF Settle, Unmoved, backend
  <2> QED BY <2>1, IdledStep, StillDelivery DEF WorkerRel, RepliesStep
<1>3. CASE NotReplied(h)
  <2>1. /\ UNCHANGED <<tries, sent>> /\ handler[h].pc = "reply" /\ AfterFailedReply(h)
        /\ replies' \in {replies, Arrived(h)}
    BY <1>3 DEF NotReplied
  <2>2. RepliesStep
    BY <2>1 DEF RepliesStep, Arrived
  <2>3. CASE Done(h) /\ UNCHANGED <<queue, again>>
    BY <2>1, <2>2, <2>3, DoneStep, StillDelivery DEF WorkerRel
  <2>4. CASE Requeue(h)
    <3>1. \A g \in Handlers : HandlerStep(g)
      BY <2>4, IdledStep DEF Requeue
    <3>2. CASE ~handler[h].valid
      <4>1. UNCHANGED <<queue, again>>
        BY <2>4, <3>2 DEF Requeue
      <4> QED BY <2>1, <2>2, <3>1, <4>1, StillDelivery DEF WorkerRel
    <3>3. CASE handler[h].valid
      <4> DEFINE c == handler[h].call
      <4>1. /\ queue' = queue \cup {c} /\ again' = [again EXCEPT ![c] = @ + 1]
            /\ again \in [Calls -> Nat] /\ tries \in [Calls -> Nat]
        BY <2>4, <3>3, Bounds DEF Requeue, TypeInv, QueueOK, FaultsOK
      <4>2. c \in Calls /\ c \in Held
        BY <2>1, <3>3, HandlerTypes DEF Held
      <4>3. DeliveryStep(c)
        BY <2>1, <4>1, <4>2, RequeuedOK
      <4>4. ASSUME NEW d \in Calls \ {c}
            PROVE  DeliveryStep(d)
        <5>1. again'[d] = again[d] /\ (d \in queue' <=> d \in queue)
          BY <4>1
        <5>2. In(d, queue') = In(d, queue) /\ In(d, queue) \in Nat /\ again[d] \in Nat /\ tries[d] \in Nat
          BY <4>1, <5>1 DEF In
        <5> QED BY <2>1, <5>1, <5>2 DEF DeliveryStep
      <4> QED BY <2>2, <3>1, <4>3, <4>4 DEF WorkerRel
    <3> QED BY <3>2, <3>3
  <2> QED BY <2>1, <2>3, <2>4 DEF AfterFailedReply
<1> QED BY <1>1, <1>2, <1>3

LEMMA ReturnedStep ==
  ASSUME TypeInv, Returned, UNCHANGED <<tries, sent>>, NEW c \in Calls
  PROVE  DeliveryStep(c)
<1>1. /\ queue' = queue \cup Held
      /\ again'[c] = IF c \in Held THEN again[c] + 1 ELSE again[c]
  BY DEF Returned
<1>2. CASE c \in Held
  BY <1>1, <1>2, RequeuedOK
<1>3. CASE c \notin Held
  <2>1. again'[c] = again[c] /\ (c \in queue' <=> c \in queue)
    BY <1>1, <1>3
  <2>2. In(c, queue') = In(c, queue) /\ In(c, queue) \in Nat /\ again[c] \in Nat /\ tries[c] \in Nat
    BY <2>1, Bounds DEF In, TypeInv, QueueOK, FaultsOK
  <2> QED BY <2>1, <2>2 DEF DeliveryStep
<1> QED BY <1>2, <1>3

LEMMA RelLinks ==
  ASSUME TypeInv, WorkerLinkLost \/ WorkerLinkUp \/ WorkerCrash \/ SessionDown \/ SessionUp
  PROVE  WorkerRel
<1>1. UNCHANGED <<tries, sent, replies>>
  BY DEF WorkerLinkLost, WorkerLinkUp, WorkerCrash, SessionDown, SessionUp, backend
<1>2. Returned \/ UNCHANGED <<queue, again>>
  BY DEF WorkerLinkLost, WorkerLinkUp, WorkerCrash, SessionDown, SessionUp
<1>3. \A c \in Calls : DeliveryStep(c)
  BY <1>1, <1>2, StillDelivery, ReturnedStep
<1>4. ASSUME NEW h \in Handlers
      PROVE  HandlerStep(h)
  <2>1. handler[h] \in Delivery
    BY HandlerTypes
  <2>2. CASE handler'[h] = handler[h]
    BY <2>2, OtherHandler
  <2>3. CASE WorkerLinkLost
    <3>1. handler'[h] = [handler[h] EXCEPT !.valid = FALSE]
      BY <2>3 DEF WorkerLinkLost
    <3>2. /\ handler'[h].pc = handler[h].pc /\ handler'[h].call = handler[h].call
          /\ handler'[h].id = handler[h].id /\ handler'[h].todo = handler[h].todo
          /\ handler'[h].res = handler[h].res
      BY <2>1, <3>1 DEF Delivery
    <3>3. handler[h].res = "refused" => handler[h].pc # "run"
      BY HandlerTypes
    <3> QED BY <3>2, <3>3 DEF HandlerStep, Keeps
  <2>4. CASE WorkerCrash
    <3>1. handler'[h].pc = "idle"
      BY <2>4 DEF WorkerCrash, IdleHandler
    <3> QED BY <3>1 DEF HandlerStep
  <2>5. CASE WorkerLinkUp \/ SessionDown \/ SessionUp
    <3>1. handler' = handler
      BY <2>5 DEF WorkerLinkUp, SessionDown, SessionUp
    <3> QED BY <3>1, OtherHandler
  <2> QED BY <2>3, <2>4, <2>5
<1> QED BY <1>1, <1>3, <1>4 DEF WorkerRel, RepliesStep

LEMMA RelWorker == ASSUME TypeInv, WorkerStep PROVE WorkerRel
BY RelTake, RelCheck, RelSend, RelReply, RelLinks DEF WorkerStep, Handle

(* A step of the backend leaves the worker alone, and only takes replies    *)
(* away.                                                                    *)
LEMMA RelBackend ==
  ASSUME TypeInv, BackendStep
  PROVE  UNCHANGED <<load, handler, wlink, live, tries, sent, again>> /\ replies' \subseteq replies
BY DEF BackendStep, Send, Greet, Called, BadFile, Store, HangUp, ReadTicket, UpdateTicket, Choose, GiveUp, Answer, Schedule,
       Fire, Forget, BackendLinkLost, BackendLinkUp, BackendCrash, Only, worker

LEMMA RelStutter ==
  ASSUME TypeInv, UNCHANGED vars
  PROVE  WorkerRel /\ UNCHANGED <<load, caller, entry, orphans, assigned>>
<1>1. UNCHANGED <<load, caller, entry, orphans, assigned, replies, queue, handler, tries, sent, again>>
  BY DEF vars, backend, worker
<1> QED BY <1>1, OtherHandler, StillDelivery DEF WorkerRel, RepliesStep

-----------------------------------------------------------------------------
(* The invariants.  A request is out from its publish on: in the queue,     *)
(* with a goroutine, or received.                                           *)
Out(c) == c \in queue \/ sent[c] # {} \/ \E h \in Handlers : RunsFor(h, c)

CallsInv == \A c \in Calls : Out(c) => caller[c].pc \notin Early
FilesInv == \A c \in Calls : caller[c].pc # "idle" => c \in Timed \/ \A f \in Before(c) : caller[f].row # 0
(* Each delivery is the first or was paid for by a return.                  *)
Late(c)  == IF caller[c].pc \in Early THEN 0 ELSE 1
PaidInv  == \A c \in Calls : /\ tries[c] + In(c, queue) <= again[c] + Late(c)
                             /\ sent[c] \subseteq 1..tries[c]
(* What a goroutine says of its delivery is true of the customer.           *)
HandlersInv ==
  /\ \A h \in Handlers : handler[h].pc # "idle" =>
       /\ handler[h].pc = "run" => handler[h].id \notin sent[handler[h].call]
       /\ handler[h].pc = "run" /\ handler[h].call \in Rows => OnlySends(handler[h].todo)
       /\ handler[h].res = "ok" /\ handler[h].call \in Rows => handler[h].id \in sent[handler[h].call]
       /\ handler[h].res = "refused" => handler[h].id \notin sent[handler[h].call]
  /\ \A g, h \in Handlers : g # h /\ handler[g].pc # "idle" /\ RunsFor(h, handler[g].call) =>
       handler[g].id # handler[h].id
RepliesInv ==
  \A r \in replies :
    /\ r.id <= tries[r.call]
    /\ r.res = "ok" /\ r.call \in Rows => r.id \in sent[r.call]
    /\ r.res = "refused" => r.id \notin sent[r.call]
    /\ \A h \in Handlers : handler[h].pc = "run" /\ handler[h].call = r.call => handler[h].id # r.id
RowsInv ==
  \A c \in Calls : /\ caller[c].pc = "storing" => caller[c].id \in sent[c]
                   /\ caller[c].row # 0 => caller[c].row \in sent[c]
(* A refused call has an attempt that ended without reaching the customer.  *)
Refusal(c) == \E n \in 1..tries[c] \ sent[c] :
                \A h \in Handlers : handler[h].pc = "run" /\ handler[h].call = c => handler[h].id # n
RefusedInv == \A c \in Calls : caller[c].told = "refused" =>
                caller[c].pc = "done" /\ (~Out(c) \/ Refusal(c))

Inv == /\ TypeInv /\ CallsInv /\ FilesInv /\ PaidInv
       /\ HandlersInv /\ RepliesInv /\ RowsInv /\ RefusedInv

LEMMA OutWorker ==
  ASSUME TypeInv, WorkerRel, NEW c \in Calls, Out(c)'
  PROVE  Out(c)
<1>1. CASE c \in queue'
  BY <1>1 DEF WorkerRel, DeliveryStep, Out
<1>2. CASE sent'[c] # {}
  <2>1. PICK n \in sent'[c] : TRUE
    BY <1>2
  <2>2. n \in sent[c] \/ \E h \in Handlers : RunsFor(h, c)
    BY <2>1 DEF WorkerRel, DeliveryStep
  <2> QED BY <2>2 DEF Out
<1>3. CASE (\E h \in Handlers : RunsFor(h, c))'
  <2>1. PICK h \in Handlers : handler'[h].pc # "idle" /\ handler'[h].call = c
    BY <1>3 DEF RunsFor
  <2>2. HandlerStep(h)
    BY DEF WorkerRel
  <2>3. RunsFor(h, c) \/ c \in queue
    BY <2>1, <2>2 DEF HandlerStep, Keeps, RunsFor
  <2> QED BY <2>3 DEF Out
<1> QED BY <1>1, <1>2, <1>3 DEF Out

LEMMA OutBackend ==
  ASSUME UNCHANGED <<handler, sent>>, NEW c \in Calls, Out(c)'
  PROVE  Out(c) \/ c \in queue' \ queue
BY DEF Out, RunsFor

LEMMA CallsWorker ==
  ASSUME TypeInv, WorkerRel, UNCHANGED <<load, caller, entry, orphans, assigned>>, CallsInv, FilesInv
  PROVE  CallsInv' /\ FilesInv'
<1>1. CallsInv'
  BY OutWorker DEF CallsInv
<1>2. FilesInv'
  BY DEF FilesInv, Timed, MenuSet, Before
<1> QED BY <1>1, <1>2

LEMMA CallsBackend ==
  ASSUME Inv, BackendStep
  PROVE  CallsInv' /\ FilesInv'
<1>1. /\ UNCHANGED <<load, handler, tries, sent, again>> /\ TypeInv
      /\ \A c \in Calls : CallerStep(c)
  BY RelBackend, TypeBackend DEF Inv
<1>2. ASSUME NEW c \in Calls, Out(c)'
      PROVE  caller'[c].pc \notin Early
  <2>1. CallerStep(c) /\ (Out(c) \/ c \in queue' \ queue)
    BY <1>1, <1>2, OutBackend
  <2>2. Out(c) => caller[c].pc \notin Early
    BY DEF Inv, CallsInv
  <2> QED BY <2>1, <2>2 DEF CallerStep, PcStep, QueueStep
<1>3. ASSUME NEW c \in Calls, caller[c].row # 0
      PROVE  caller'[c].row # 0
  <2>1. caller[c].pc = "storing" => caller[c].id \in sent[c]
    BY DEF Inv, RowsInv
  <2>2. sent[c] \subseteq 1..MaxTry
    BY <1>1 DEF TypeInv, QueueOK
  <2>3. caller[c].pc = "storing" => caller[c].id # 0
    BY <2>1, <2>2
  <2> QED BY <1>1, <1>3, <2>3 DEF CallerStep, RowStep
<1>4. ASSUME NEW c \in Calls, caller'[c].pc # "idle", c \notin Timed, NEW f \in Before(c)
      PROVE  caller'[f].row # 0
  <2>1. f \in Calls
    BY OutboundAssumption DEF Before
  <2>2. caller[f].row # 0
    BY <1>1, <1>4 DEF CallerStep, PcStep, Dispatch, Inv, FilesInv
  <2> QED BY <2>1, <2>2, <1>3
<1> QED BY <1>2, <1>4 DEF CallsInv, FilesInv, Timed, MenuSet, Before

LEMMA PaidWorker ==
  ASSUME Inv, WorkerRel, UNCHANGED <<load, caller, entry, orphans, assigned>>, TypeInv'
  PROVE  PaidInv'
<1> SUFFICES ASSUME NEW c \in Calls
             PROVE  /\ tries'[c] + In(c, queue') <= again'[c] + Late(c)
                    /\ sent'[c] \subseteq 1..tries'[c]
  BY DEF PaidInv, In, Late, Early
<1>1. /\ tries[c] \in Nat /\ again[c] \in Nat /\ In(c, queue) \in Nat /\ Late(c) \in Nat
      /\ tries'[c] \in Nat /\ again'[c] \in Nat /\ In(c, queue') \in Nat
  BY Bounds DEF Inv, TypeInv, QueueOK, FaultsOK, In, Late
<1>2. DeliveryStep(c)
  BY DEF WorkerRel
<1>3. tries[c] + In(c, queue) <= again[c] + Late(c) /\ sent[c] \subseteq 1..tries[c]
  BY DEF Inv, PaidInv
<1>4. tries'[c] + In(c, queue') <= again'[c] + Late(c)
  BY <1>1, <1>2, <1>3 DEF DeliveryStep
<1>5. ASSUME NEW n \in sent'[c]
      PROVE  n \in 1..tries'[c]
  <2>1. n \in 1..tries[c]
    BY <1>2, <1>3, HandlerTypes DEF DeliveryStep, RunsFor, Inv
  <2> QED BY <2>1, <1>1, <1>2 DEF DeliveryStep
<1> QED BY <1>4, <1>5

LEMMA PaidBackend ==
  ASSUME Inv, BackendStep
  PROVE  PaidInv'
<1>1. /\ UNCHANGED <<load, handler, tries, sent, again>> /\ TypeInv /\ TypeInv'
      /\ \A c \in Calls : CallerStep(c)
  BY RelBackend, TypeBackend DEF Inv
<1> SUFFICES ASSUME NEW c \in Calls
             PROVE  tries[c] + In(c, queue)' <= again[c] + Late(c)'
  BY <1>1 DEF Inv, PaidInv, In, Late, Early
<1>2. /\ tries[c] \in Nat /\ again[c] \in Nat /\ In(c, queue) \in {0, 1} /\ Late(c) \in {0, 1}
      /\ In(c, queue)' \in {0, 1} /\ Late(c)' \in {0, 1}
  BY Bounds, <1>1 DEF TypeInv, QueueOK, FaultsOK, In, Late
<1>3. tries[c] + In(c, queue) <= again[c] + Late(c)
  BY DEF Inv, PaidInv
<1>4. CASE c \in queue' \ queue
  <2>1. Late(c) = 0 /\ Late(c)' = 1 /\ In(c, queue) = 0 /\ In(c, queue)' = 1
    BY <1>1, <1>4 DEF CallerStep, QueueStep, Late, In, Early
  <2> QED BY <2>1, <1>2, <1>3
<1>5. CASE c \notin queue' \ queue
  <2>1. In(c, queue)' <= In(c, queue) /\ Late(c) <= Late(c)'
    BY <1>1, <1>5 DEF CallerStep, PcStep, Late, In, Early
  <2> QED BY <2>1, <1>2, <1>3
<1> QED BY <1>4, <1>5

(* One goroutine at a time takes a delivery.                                *)
OneTaken ==
  \A g, h \in Handlers :
    /\ handler[g].pc = "idle" /\ handler'[g].pc # "idle"
    /\ handler[h].pc = "idle" /\ handler'[h].pc # "idle"
    => g = h

LEMMA OnlyOneTaken ==
  ASSUME TypeInv, WorkerStep \/ UNCHANGED vars
  PROVE  OneTaken
<1>1. ASSUME NEW h \in Handlers, Handle(h) \/ \E c \in Active : Take(h, c)
      PROVE  \A g \in Handlers \ {h} : handler'[g] = handler[g]
  <2>1. \E new : SetHandler(h, new)
    BY <1>1 DEF Handle, Take, CheckSession, CheckRequest, UploadMedia, SendMessage, Ask, Panic,
                Replied, NotReplied, Settle, Passes, Returns, Done, AfterFailedReply, Requeue
  <2> QED BY <2>1, HandlerTypes, SetsOne
<1>2. ASSUME \/ WorkerLinkLost \/ WorkerLinkUp \/ WorkerCrash \/ SessionDown \/ SessionUp
             \/ UNCHANGED vars,
             NEW h \in Handlers, handler'[h].pc # "idle"
      PROVE  handler[h].pc # "idle"
  <2>1. CASE WorkerLinkLost
    <3>1. handler'[h] = [handler[h] EXCEPT !.valid = FALSE] /\ handler[h] \in Delivery
      BY <2>1, HandlerTypes DEF WorkerLinkLost
    <3> QED BY <1>2, <3>1 DEF Delivery
  <2>2. CASE WorkerCrash
    BY <1>2, <2>2 DEF WorkerCrash, IdleHandler
  <2>3. CASE WorkerLinkUp \/ SessionDown \/ SessionUp \/ UNCHANGED vars
    BY <1>2, <2>3 DEF WorkerLinkUp, SessionDown, SessionUp, vars, worker
  <2> QED BY <1>2, <2>1, <2>2, <2>3
<1> QED BY <1>1, <1>2 DEF WorkerStep, OneTaken

(* An id that no running goroutine carries is not newly received.           *)
LEMMA NotNewlySent ==
  ASSUME WorkerRel, NEW c \in Calls, NEW n, n \notin sent[c],
         \A g \in Handlers : RunsFor(g, c) /\ handler[g].pc = "run" /\ handler[g].id = n =>
           handler'[g].pc = "run"
  PROVE  n \notin sent'[c]
BY DEF WorkerRel, DeliveryStep

LEMMA HandlersWorker ==
  ASSUME Inv, WorkerRel, OneTaken, UNCHANGED load, TypeInv'
  PROVE  HandlersInv'
<1>0. TypeInv
  BY DEF Inv
<1>1. ASSUME NEW h \in Handlers, handler'[h].pc # "idle", Keeps(h)
      PROVE  /\ handler'[h].pc = "run" => handler'[h].id \notin sent'[handler'[h].call]
             /\ handler'[h].pc = "run" /\ handler'[h].call \in Rows => OnlySends(handler'[h].todo)
             /\ handler'[h].res = "ok" /\ handler'[h].call \in Rows => handler'[h].id \in sent'[handler'[h].call]
             /\ handler'[h].res = "refused" => handler'[h].id \notin sent'[handler'[h].call]
  <2> DEFINE c == handler[h].call
             n == handler[h].id
  <2>1. /\ handler[h].pc # "idle" /\ handler'[h].call = c /\ handler'[h].id = n /\ c \in Calls
        /\ HandlerStep(h) /\ sent[c] \subseteq sent'[c]
    BY <1>0, <1>1, HandlerTypes DEF Keeps, WorkerRel, DeliveryStep
  <2>2. /\ handler[h].pc = "run" => n \notin sent[c]
        /\ handler[h].pc = "run" /\ c \in Rows => OnlySends(handler[h].todo)
        /\ handler[h].res = "ok" /\ c \in Rows => n \in sent[c]
        /\ handler[h].res = "refused" => n \notin sent[c]
    BY <2>1 DEF Inv, HandlersInv
  <2>3. \A g \in Handlers \ {h} : RunsFor(g, c) => handler[g].id # n
    BY <2>1 DEF Inv, HandlersInv, RunsFor
  <2>4. /\ handler'[h].pc = "run" =>
             handler[h].pc = "run" /\ (OnlySends(handler[h].todo) => OnlySends(handler'[h].todo))
        /\ handler'[h].res = "ok" =>
             \/ handler[h].res = "ok"
             \/ handler[h].pc = "run" /\ (OnlySends(handler[h].todo) => Sends(h))
        /\ handler'[h].res = "refused" =>
             \/ handler[h].res = "refused" /\ handler[h].pc # "run"
             \/ handler[h].pc = "run" /\ handler'[h].pc = "reply" /\ UNCHANGED sent
    BY <1>1, <2>1 DEF HandlerStep
  <2>5. ASSUME n \notin sent[c], handler[h].pc = "run" => handler'[h].pc = "run"
        PROVE  n \notin sent'[c]
    BY <2>1, <2>3, <2>5, NotNewlySent
  <2>6. handler'[h].pc = "run" => n \notin sent'[c]
    BY <2>2, <2>4, <2>5
  <2>7. handler'[h].res = "refused" => n \notin sent'[c]
    BY <2>2, <2>4, <2>5
  <2>8. handler'[h].res = "ok" /\ c \in Rows => n \in sent'[c]
    BY <2>1, <2>2, <2>4 DEF Sends
  <2> QED BY <2>1, <2>2, <2>4, <2>6, <2>7, <2>8
<1>2. ASSUME NEW h \in Handlers, handler'[h].pc # "idle", ~Keeps(h)
      PROVE  /\ handler'[h].id \notin sent'[handler'[h].call]
             /\ handler'[h].id = tries[handler'[h].call] + 1
             /\ handler'[h].pc = "run" /\ handler'[h].res = "none" /\ handler[h].pc = "idle"
             /\ handler'[h].call \in Rows => OnlySends(handler'[h].todo)
  <2> DEFINE c == handler'[h].call
  <2>1. /\ handler[h].pc = "idle" /\ handler'[h].pc = "run" /\ c \in queue
        /\ handler'[h].id = tries[c] + 1 /\ handler'[h].todo = Steps[load[c]]
    BY <1>2 DEF WorkerRel, HandlerStep
  <2>2. c \in Active /\ c \in Calls /\ tries[c] \in Nat /\ sent[c] \subseteq 1..tries[c]
    BY <1>0, <2>1, Bounds DEF TypeInv, QueueOK, FaultsOK, Inv, PaidInv
  <2>3. \A n \in sent'[c] : n \in 1..tries[c]
    <3>1. ASSUME NEW n \in sent'[c] \ sent[c]
          PROVE  n \in 1..tries[c]
      BY <1>0, <2>2, HandlerTypes DEF WorkerRel, DeliveryStep, RunsFor
    <3> QED BY <3>1, <2>2
  <2>4. handler'[h].id \notin sent'[c]
    BY <2>1, <2>2, <2>3
  <2>5. handler'[h].res = "none"
    BY <2>1 DEF TypeInv, HandlersOK, DeliveryOK
  <2>6. load \in Loads
    BY <1>0 DEF TypeInv, FaultsOK
  <2>7. c \in Rows => OnlySends(Steps[load[c]])
    BY <2>2, <2>6, KindOfCall, StepsOfKind
  <2> QED BY <2>1, <2>4, <2>5, <2>7
<1>3. ASSUME NEW g \in Handlers, NEW h \in Handlers, g # h, handler'[g].pc # "idle",
             handler'[h].pc # "idle", handler'[h].call = handler'[g].call
      PROVE  handler'[g].id # handler'[h].id
  <2>1. CASE Keeps(g) /\ Keeps(h)
    BY <1>3, <2>1 DEF Keeps, Inv, HandlersInv, RunsFor
  <2>2. ASSUME NEW x \in Handlers, NEW y \in Handlers, Keeps(x), ~Keeps(y), handler'[y].pc # "idle",
               handler'[x].call = handler'[y].call
        PROVE  handler'[x].id # handler'[y].id
    <3>0. /\ handler[x].pc # "idle" /\ handler'[x].call = handler[x].call
          /\ handler'[x].id = handler[x].id
      BY <2>2 DEF Keeps
    <3>a. handler[x].call \in Calls /\ handler[x].id \in 1..tries[handler[x].call]
      BY <1>0, <3>0, HandlerTypes
    <3>b. tries[handler[x].call] \in Nat
      BY <1>0, <3>a, Bounds DEF TypeInv, QueueOK, FaultsOK
    <3>1. handler'[x].id \in 1..tries[handler'[x].call] /\ tries[handler'[x].call] \in Nat
      BY <3>0, <3>a, <3>b
    <3>2. handler'[y].id = tries[handler'[y].call] + 1
      BY <1>2, <2>2
    <3> QED BY <2>2, <3>1, <3>2
  <2>3. ~(~Keeps(g) /\ ~Keeps(h))
    BY <1>2, <1>3 DEF OneTaken
  <2> QED BY <1>3, <2>1, <2>2, <2>3
<1> QED BY <1>1, <1>2, <1>3 DEF HandlersInv, RunsFor

LEMMA RepliesWorker ==
  ASSUME Inv, WorkerRel, UNCHANGED load, TypeInv'
  PROVE  RepliesInv'
<1>0. TypeInv
  BY DEF Inv
<1> SUFFICES ASSUME NEW r \in replies'
             PROVE  /\ r.id <= tries'[r.call]
                    /\ r.res = "ok" /\ r.call \in Rows => r.id \in sent'[r.call]
                    /\ r.res = "refused" => r.id \notin sent'[r.call]
                    /\ \A h \in Handlers : handler'[h].pc = "run" /\ handler'[h].call = r.call =>
                         handler'[h].id # r.id
  BY DEF RepliesInv
<1> DEFINE c == r.call
           n == r.id
<1>1. /\ c \in Calls /\ n \in Nat /\ tries[c] \in Nat /\ tries'[c] \in Nat
      /\ tries[c] <= tries'[c] /\ sent[c] \subseteq sent'[c]
  BY <1>0, Bounds DEF TypeInv, CallersOK, Answers, QueueOK, FaultsOK, WorkerRel, DeliveryStep
<1>2. /\ n <= tries[c]
      /\ r.res = "ok" /\ c \in Rows => n \in sent[c]
      /\ r.res = "refused" => n \notin sent[c]
      /\ \A h \in Handlers : RunsFor(h, c) /\ handler[h].pc = "run" => handler[h].id # n
  <2>1. CASE r \in replies
    BY <2>1 DEF Inv, RepliesInv, RunsFor
  <2>2. CASE r \notin replies
    <3>1. PICK h \in Handlers : handler[h].pc = "reply" /\ r = Reply(h)
      BY <2>2 DEF WorkerRel, RepliesStep
    <3>2. c = handler[h].call /\ n = handler[h].id /\ r.res = handler[h].res /\ n \in 1..tries[c]
      BY <1>0, <3>1, HandlerTypes DEF Reply
    <3>3. \A g \in Handlers : RunsFor(g, c) /\ handler[g].pc = "run" => handler[g].id # n
      BY <3>1, <3>2 DEF Inv, HandlersInv, RunsFor
    <3>4. /\ handler[h].res = "ok" /\ handler[h].call \in Rows => handler[h].id \in sent[handler[h].call]
          /\ handler[h].res = "refused" => handler[h].id \notin sent[handler[h].call]
      BY <3>1 DEF Inv, HandlersInv
    <3> QED BY <1>1, <3>2, <3>3, <3>4
  <2> QED BY <2>1, <2>2
<1>3. r.res = "refused" => n \notin sent'[c]
  BY <1>1, <1>2, NotNewlySent
<1>4. ASSUME NEW h \in Handlers, handler'[h].pc = "run", handler'[h].call = c
      PROVE  handler'[h].id # n
  <2>1. HandlerStep(h)
    BY DEF WorkerRel
  <2>2. \/ handler[h].pc = "run" /\ RunsFor(h, c) /\ handler'[h].id = handler[h].id
        \/ handler'[h].id = tries[c] + 1
    BY <1>4, <2>1 DEF HandlerStep, Keeps, RunsFor
  <2> QED BY <1>1, <1>2, <2>2
<1> QED BY <1>1, <1>2, <1>3, <1>4

LEMMA RowsWorker ==
  ASSUME Inv, WorkerRel, UNCHANGED caller
  PROVE  RowsInv'
BY DEF Inv, RowsInv, WorkerRel, DeliveryStep

LEMMA RefusedWorker ==
  ASSUME Inv, WorkerRel, UNCHANGED caller, TypeInv'
  PROVE  RefusedInv'
<1>0. TypeInv
  BY DEF Inv
<1> SUFFICES ASSUME NEW c \in Calls, caller[c].told = "refused"
             PROVE  caller[c].pc = "done" /\ (~Out(c)' \/ Refusal(c)')
  BY DEF RefusedInv
<1>1. caller[c].pc = "done" /\ (~Out(c) \/ Refusal(c))
  BY DEF Inv, RefusedInv
<1>2. ASSUME Refusal(c)
      PROVE  Refusal(c)'
  <2>1. PICK n \in 1..tries[c] \ sent[c] :
          \A h \in Handlers : handler[h].pc = "run" /\ handler[h].call = c => handler[h].id # n
    BY <1>2 DEF Refusal
  <2>2. tries[c] \in Nat /\ tries'[c] \in Nat /\ tries[c] <= tries'[c]
    BY <1>0, Bounds DEF TypeInv, QueueOK, FaultsOK, WorkerRel, DeliveryStep
  <2>3. n \notin sent'[c]
    BY <2>1, NotNewlySent DEF RunsFor
  <2>4. ASSUME NEW h \in Handlers, handler'[h].pc = "run", handler'[h].call = c
        PROVE  handler'[h].id # n
    <3>1. HandlerStep(h)
      BY DEF WorkerRel
    <3>2. \/ handler[h].pc = "run" /\ handler[h].call = c /\ handler'[h].id = handler[h].id
          \/ handler'[h].id = tries[c] + 1
      BY <2>4, <3>1 DEF HandlerStep, Keeps
    <3> QED BY <2>1, <2>2, <3>2
  <2>5. n \in 1..tries'[c]
    BY <2>1, <2>2
  <2> QED BY <2>3, <2>4, <2>5 DEF Refusal
<1> QED BY <1>0, <1>1, <1>2, OutWorker

LEMMA HandlersBackend ==
  ASSUME Inv, BackendStep
  PROVE  HandlersInv' /\ RepliesInv'
<1>1. UNCHANGED <<load, handler, tries, sent, again>> /\ replies' \subseteq replies
  BY RelBackend DEF Inv
<1> QED BY <1>1 DEF Inv, HandlersInv, RepliesInv, RunsFor

LEMMA RowsBackend ==
  ASSUME Inv, BackendStep
  PROVE  RowsInv'
<1> SUFFICES ASSUME NEW c \in Calls
             PROVE  /\ caller'[c].pc = "storing" => caller'[c].id \in sent[c]
                    /\ caller'[c].row # 0 => caller'[c].row \in sent[c]
  BY RelBackend DEF Inv, RowsInv
<1>1. RowStep(c)
  BY TypeBackend DEF Inv, CallerStep
<1>2. /\ caller[c].pc = "storing" => caller[c].id \in sent[c]
      /\ caller[c].row # 0 => caller[c].row \in sent[c]
  BY DEF Inv, RowsInv
<1>3. \A r \in replies : r.res = "ok" /\ r.call \in Rows => r.id \in sent[r.call]
  BY DEF Inv, RepliesInv
<1> QED BY <1>1, <1>2, <1>3 DEF RowStep

LEMMA RefusedBackend ==
  ASSUME Inv, BackendStep
  PROVE  RefusedInv'
<1>1. /\ UNCHANGED <<load, handler, tries, sent, again>> /\ TypeInv
      /\ \A c \in Calls : CallerStep(c)
  BY RelBackend, TypeBackend DEF Inv
<1> SUFFICES ASSUME NEW c \in Calls, caller'[c].told = "refused"
             PROVE  caller'[c].pc = "done" /\ (~Out(c)' \/ Refusal(c)')
  BY DEF RefusedInv
<1>2. Refusal(c) => Refusal(c)'
  BY <1>1 DEF Refusal
<1>3. CASE caller[c].told = "refused"
  <2>1. caller[c].pc = "done" /\ (~Out(c) \/ Refusal(c))
    BY <1>3 DEF Inv, RefusedInv
  <2>2. caller'[c].pc = "done" /\ c \notin queue' \ queue
    BY <1>1, <2>1 DEF CallerStep, PcStep, QueueStep
  <2> QED BY <1>1, <1>2, <2>1, <2>2, OutBackend
<1>4. CASE /\ caller'[c].pc = "done" /\ (c \in queue' => c \in queue)
           /\ caller[c].pc = "idle"
  <2>1. ~Out(c)
    BY <1>4 DEF Inv, CallsInv, Early
  <2> QED BY <1>1, <1>4, <2>1, OutBackend
<1>5. CASE caller'[c].pc = "done" /\ \E r \in replies : r.call = c /\ r.res = "refused"
  <2>1. PICK r \in replies : r.call = c /\ r.res = "refused"
    BY <1>5
  <2>2. /\ r.id <= tries[c] /\ r.id \notin sent[c]
        /\ \A h \in Handlers : handler[h].pc = "run" /\ handler[h].call = c => handler[h].id # r.id
    BY <2>1 DEF Inv, RepliesInv
  <2>3. r.id \in 1..tries[c]
    BY <1>1, <2>2, Bounds DEF TypeInv, CallersOK, Answers, QueueOK, FaultsOK
  <2>4. Refusal(c)
    BY <2>2, <2>3 DEF Refusal
  <2> QED BY <1>2, <1>5, <2>4
<1> QED BY <1>1, <1>3, <1>4, <1>5 DEF CallerStep, ToldStep

LEMMA InvInit == Init => Inv
<1> SUFFICES ASSUME Init PROVE Inv
  OBVIOUS
<1>1. TypeInv
  BY TypeInit
<1>2. \A h \in Handlers : handler[h].pc = "idle"
  BY DEF Init, IdleHandler
<1>3. \A c \in Calls : /\ caller[c].pc = "idle" /\ caller[c].told = "none" /\ caller[c].row = 0
                       /\ tries[c] = 0 /\ again[c] = 0 /\ sent[c] = {} /\ c \notin queue
  BY DEF Init
<1>4. \A c \in Calls : ~Out(c)
  BY <1>2, <1>3 DEF Out, RunsFor
<1>5. CallsInv /\ FilesInv /\ PaidInv
  BY <1>3, <1>4, OutboundAssumption DEF CallsInv, FilesInv, PaidInv, In, Late, Early
<1>6. HandlersInv /\ RepliesInv /\ RowsInv /\ RefusedInv
  BY <1>2, <1>3 DEF HandlersInv, RepliesInv, RowsInv, RefusedInv, Init
<1> QED BY <1>1, <1>5, <1>6 DEF Inv

LEMMA InvStep == ASSUME Inv, [Next]_vars PROVE Inv'
<1>1. TypeInv /\ TypeInv'
  BY TypeStep DEF Inv
<1>2. CASE BackendStep
  BY <1>1, <1>2, CallsBackend, PaidBackend, HandlersBackend, RowsBackend, RefusedBackend DEF Inv
<1>3. CASE WorkerStep \/ UNCHANGED vars
  <2>1. WorkerRel /\ UNCHANGED <<load, caller, entry, orphans, assigned>> /\ OneTaken
    BY <1>1, <1>3, RelWorker, TypeWorker, RelStutter, OnlyOneTaken
  <2> QED BY <1>1, <2>1, CallsWorker, PaidWorker, HandlersWorker, RepliesWorker, RowsWorker,
             RefusedWorker DEF Inv
<1> QED BY <1>2, <1>3, NextIs

LEMMA AlwaysInv == Spec => []Inv
BY InvInit, InvStep, PTL DEF Spec

-----------------------------------------------------------------------------
(* What the customer receives.                                              *)

(* handleMessageSend stores the id that the worker answered, and a worker   *)
(* answers one only after the message was accepted: a row always has a      *)
(* message behind it, whatever is lost, repeated or restarted.              *)
THEOREM RecordsAreTrue == Spec => []RecordedWasSent
<1>1. Inv => RecordedWasSent
  BY DEF Inv, RowsInv, RecordedWasSent
<1> QED BY <1>1, AlwaysInv, PTL

(* A refusal that comes from the worker, and from a request that was not    *)
(* repeated, leaves nothing with the customer.                              *)
THEOREM RefusalIsHonest == Spec => []RefusedIsUnsent
<1>1. ASSUME Inv, NEW c \in Calls, caller[c].told = "refused", again[c] = 0
      PROVE  sent[c] = {}
  <2>1. ~Out(c) \/ Refusal(c)
    BY <1>1 DEF Inv, RefusedInv
  <2>2. /\ tries[c] + In(c, queue) <= again[c] + Late(c) /\ sent[c] \subseteq 1..tries[c]
        /\ tries[c] \in Nat /\ In(c, queue) \in Nat /\ Late(c) \in {0, 1}
    BY <1>1, Bounds DEF Inv, PaidInv, TypeInv, QueueOK, FaultsOK, In, Late
  <2>3. tries[c] \in {0, 1}
    BY <1>1, <2>2
  <2>4. CASE Refusal(c)
    <3>1. PICK n \in 1..tries[c] : n \notin sent[c]
      BY <2>4 DEF Refusal
    <3>2. \A m \in 1..tries[c] : m = n
      BY <2>3, <3>1
    <3>3. \A m \in sent[c] : m \in 1..tries[c] /\ m # n
      BY <2>2, <3>1
    <3> QED BY <3>2, <3>3
  <2> QED BY <2>1, <2>4 DEF Out
<1>2. Inv => RefusedIsUnsent
  BY <1>1 DEF RefusedIsUnsent
<1> QED BY <1>2, AlwaysInv, PTL

(* What reaches the customer again was put back by a fault, each time by    *)
(* another one.                                                             *)
THEOREM RepeatsAreCounted == Spec => []RepeatNeedsFault
<1>1. ASSUME Inv, NEW c \in Calls
      PROVE  Cardinality(sent[c]) <= 1 + faults
  <2>1. /\ tries[c] + In(c, queue) <= again[c] + Late(c) /\ sent[c] \subseteq 1..tries[c]
        /\ tries[c] \in Nat /\ again[c] \in Nat /\ In(c, queue) \in Nat /\ Late(c) \in {0, 1}
        /\ again[c] <= faults /\ faults \in Nat
    BY <1>1, Bounds DEF Inv, PaidInv, TypeInv, QueueOK, FaultsOK, In, Late
  <2>2. tries[c] <= 1 + faults
    BY <2>1
  <2>3. IsFiniteSet(1..tries[c]) /\ Cardinality(1..tries[c]) = tries[c]
    <3>1. tries[c] \in Int /\ 1 \in Int
      BY <2>1
    <3>2. IsFiniteSet(1..tries[c])
          /\ Cardinality(1..tries[c]) = IF 1 > tries[c] THEN 0 ELSE tries[c] - 1 + 1
      BY <3>1, FS_Interval, Zenon
    <3>3. (IF 1 > tries[c] THEN 0 ELSE tries[c] - 1 + 1) = tries[c]
      BY <2>1
    <3> QED BY <3>2, <3>3
  <2>4. Cardinality(sent[c]) <= Cardinality(1..tries[c]) /\ IsFiniteSet(sent[c])
    BY <2>1, <2>3, FS_Subset
  <2>5. Cardinality(sent[c]) \in Nat
    BY <2>4, FS_CardinalityType
  <2> QED BY <2>1, <2>2, <2>3, <2>4, <2>5
<1>2. Inv => RepeatNeedsFault
  BY <1>1 DEF RepeatNeedsFault
<1> QED BY <1>2, AlwaysInv, PTL

(* The loop of handleMessageSend goes on only after a file was stored.      *)
THEOREM FilesKeepTheirOrder == Spec => []FilesInOrder
<1>1. ASSUME Inv, NEW c \in Calls, sent[c] # {}, NEW f \in Before(c)
      PROVE  caller[f].row # 0
  <2>1. caller[c].pc # "idle"
    BY <1>1 DEF Inv, CallsInv, Out, Early
  <2>2. c \in FileSet
    BY DEF Before, FileSet
  <2>3. c \notin Timed
    BY <2>2, OutboundAssumption DEF Timed
  <2> QED BY <1>1, <2>1, <2>3 DEF Inv, FilesInv
<1>2. Inv => FilesInOrder
  BY <1>1 DEF FilesInOrder
<1> QED BY <1>2, AlwaysInv, PTL

-----------------------------------------------------------------------------
(* The menu: timers start in order, so when one does, every earlier one did *)
(* and no later one.                                                        *)
AskedInv  == \A i \in DOMAIN Menus : Scheduled(i) =>
               \A k \in 1..(i - 1) : Menus[k] \in Active => Scheduled(k)
MenusInv  == TypeInv /\ AskedInv /\ MenuNotLost /\ OthersAreOrphans

LEMMA MenuIndices ==
  /\ Menus \in Seq(Calls) /\ Len(Menus) \in Nat /\ DOMAIN Menus = 1..Len(Menus)
  /\ \A i, j \in DOMAIN Menus : Menus[i] = Menus[j] => i = j
  /\ \A i \in DOMAIN Menus : Menus[i] \in Calls /\ Menus[i] \in MenuSet
BY OutboundAssumption DEF MenuSet

LEMMA MenusUntouched ==
  ASSUME MenusInv, UNCHANGED load,
         \A d \in Calls : MenuKept(d)
  PROVE  AskedInv' /\ MenuNotLost' /\ OthersAreOrphans'
<1>1. ASSUME NEW i \in DOMAIN Menus
      PROVE  /\ Scheduled(i)' <=> Scheduled(i)
             /\ caller'[Menus[i]].pc = "stopped" <=> caller[Menus[i]].pc = "stopped"
  BY MenuIndices DEF Scheduled, MenuKept, Active
<1>2. \A i \in DOMAIN Menus : \A k \in 1..(i - 1) : k \in DOMAIN Menus
  BY MenuIndices
<1>3. Active' = Active
  BY DEF Active
<1>4. AskedInv'
  BY <1>1, <1>2, <1>3 DEF MenusInv, AskedInv
<1>5. \A i \in DOMAIN Menus : \A j \in i..Len(Menus) : j \in DOMAIN Menus
  BY MenuIndices
<1>6. MenuNotLost'
  BY <1>1, <1>3, <1>5 DEF MenusInv, MenuNotLost
<1>7. \A c \in MenuSet : c \in Calls
  BY MenuIndices DEF MenuSet
<1>8. OthersAreOrphans'
  BY <1>7 DEF MenusInv, OthersAreOrphans, MenuKept, Tracked
<1> QED BY <1>4, <1>6, <1>8

LEMMA MenusScheduled ==
  ASSUME MenusInv, NEW i \in DOMAIN Menus, Schedule(i)
  PROVE  AskedInv' /\ MenuNotLost' /\ OthersAreOrphans'
<1>1. /\ Active' = Active /\ Menus[i] \in Active /\ caller[Menus[i]].pc = "asked"
      /\ \A k \in 1..(i - 1) : Menus[k] \in Active => Scheduled(k)
  BY DEF Schedule, NextTimer, Only, MenuAt, Active
<1>2. /\ caller'[Menus[i]].pc = "armed"
      /\ \A d \in Calls \ {Menus[i]} :
           caller'[d].pc \in {"idle", "asked"} <=> caller[d].pc \in {"idle", "asked"}
  BY StepSchedule DEF MenusInv
<1>3. /\ Len(Menus) \in Nat /\ DOMAIN Menus = 1..Len(Menus)
      /\ \A k \in DOMAIN Menus : Menus[k] \in Calls /\ (Menus[k] = Menus[i] => k = i)
  BY MenuIndices
<1>4. \A k \in DOMAIN Menus \ {i} : Scheduled(k)' <=> Scheduled(k)
  BY <1>1, <1>2, <1>3 DEF Scheduled
<1>5. Scheduled(i)' /\ ~Scheduled(i) /\ caller'[Menus[i]].pc # "stopped"
  BY <1>1, <1>2 DEF Scheduled
<1>6. \A k \in DOMAIN Menus : k > i => ~Scheduled(k)
  <2>1. ASSUME NEW k \in DOMAIN Menus, k > i, Scheduled(k)
        PROVE  FALSE
    <3>1. i \in 1..(k - 1)
      BY <2>1, <1>3
    <3> QED BY <2>1, <3>1, <1>1, <1>5 DEF MenusInv, AskedInv
  <2> QED BY <2>1
<1>7. AskedInv'
  <2>1. ASSUME NEW k \in DOMAIN Menus, Scheduled(k)', NEW j \in 1..(k - 1), Menus[j] \in Active'
        PROVE  Scheduled(j)'
    <3>1. j \in DOMAIN Menus /\ j < k
      BY <1>3
    <3>2. CASE j = i
      BY <3>2, <1>5
    <3>3. CASE j # i /\ k = i
      <4>1. Scheduled(j)
        BY <1>1, <2>1, <3>3
      <4> QED BY <3>1, <3>3, <4>1, <1>4
    <3>4. CASE j # i /\ k # i
      <4>1. Scheduled(k)
        BY <2>1, <3>4, <1>4
      <4>2. Scheduled(j)
        BY <4>1, <2>1, <1>1 DEF MenusInv, AskedInv
      <4> QED BY <3>1, <3>4, <4>2, <1>4
    <3> QED BY <3>2, <3>3, <3>4
  <2> QED BY <2>1 DEF AskedInv
<1>8. ASSUME NEW k \in DOMAIN Menus, Scheduled(k)'
      PROVE  i \in k..Len(Menus)
  <2>1. k <= i
    BY <1>3, <1>4, <1>6, <1>8
  <2> QED BY <2>1, <1>3
<1>9. MenuNotLost'
  BY <1>1, <1>5, <1>8 DEF MenuNotLost
<1>10. OthersAreOrphans'
  <2>1. ASSUME NEW d \in MenuSet, caller'[d].pc = "armed", d # Menus[i]
        PROVE  d \in orphans'
    <3>1. d \in Calls /\ Menus[i] \in Calls /\ Menus[i] # None
      BY OutboundAssumption DEF MenuSet
    <3>2. caller \in [Calls -> Caller]
      BY DEF MenusInv, TypeInv, CallersOK
    <3>3. Stopped \in [Calls -> Caller]
      BY <3>2, StoppedOK
    <3>4. caller'[d] = Stopped[d] /\ orphans' = orphans
      BY <2>1, <3>1, <3>3 DEF Schedule, Only
    <3>5. Stopped[d] = caller[d] /\ ~(d = entry /\ caller[d].pc = "armed")
      <4>1. \/ Stopped[d] = caller[d]
            \/ Stopped[d].pc = "stopped"
        BY <3>1, <3>2, StoppedOK
      <4>2. d = entry /\ caller[d].pc = "armed" => Stopped[d] = [caller[d] EXCEPT !.pc = "stopped"]
        BY <3>1 DEF Stopped
      <4>3. caller[d] \in Caller
        BY <3>1, <3>2
      <4>4. d = entry /\ caller[d].pc = "armed" => Stopped[d].pc = "stopped"
        BY <4>2, <4>3 DEF Caller, Places
      <4> QED BY <2>1, <3>4, <4>1, <4>4
    <3> QED BY <2>1, <3>4, <3>5 DEF MenusInv, OthersAreOrphans
  <2>2. entry' = Menus[i]
    BY DEF Schedule
  <2> QED BY <2>1, <2>2 DEF OthersAreOrphans
<1> QED BY <1>7, <1>9, <1>10

LEMMA AlwaysMenusInv == Spec => []MenusInv
<1>1. Init => MenusInv
  <2>1. Init => \A i \in DOMAIN Menus : ~Scheduled(i)
    BY MenuIndices DEF Init, Scheduled
  <2>2. Init => OthersAreOrphans
    BY OutboundAssumption DEF Init, OthersAreOrphans
  <2> QED BY <2>1, <2>2, TypeInit DEF MenusInv, AskedInv, MenuNotLost
<1>2. MenusInv /\ [Next]_vars => MenusInv'
  <2> SUFFICES ASSUME MenusInv, [Next]_vars PROVE MenusInv'
    OBVIOUS
  <2>1. TypeInv /\ TypeInv'
    BY TypeStep DEF MenusInv
  <2>2. CASE BackendStep
    <3>1. UNCHANGED load
      BY <2>1, <2>2, RelBackend
    <3> QED BY <2>1, <2>2, <3>1, TypeBackend, MenusUntouched, MenusScheduled DEF MenusInv
  <2>3. CASE WorkerStep \/ UNCHANGED vars
    <3>1. UNCHANGED <<load, caller, entry, orphans>>
      BY <2>1, <2>3, TypeWorker, RelStutter
    <3>2. \A d \in Calls : MenuKept(d)
      BY <3>1 DEF MenuKept, Tracked
    <3> QED BY <2>1, <3>1, <3>2, MenusUntouched DEF MenusInv
  <2> QED BY <2>2, <2>3, NextIs
<1> QED BY <1>1, <1>2, PTL DEF Spec

(* Schedule's debounce: however timers are replaced, and whichever entry    *)
(* the callback of a replaced one deletes, the last message that asked for  *)
(* the menu keeps a timer, or a call was attempted for it, or a restart of  *)
(* the backend lost its timer.                                              *)
THEOREM NoMenuIsLost == Spec => []MenuNotLost
BY AlwaysMenusInv, PTL DEF MenusInv

(* At most one timer of a ticket can still be stopped by its next message:  *)
(* the others that run had their entry deleted by the callback of another.  *)
THEOREM PendingMenusAreTracked == Spec => []OthersAreOrphans
BY AlwaysMenusInv, PTL DEF MenusInv

=============================================================================
