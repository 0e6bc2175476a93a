---------------------------- MODULE WsHubProofs ----------------------------
(***************************************************************************)
(* For any clients, tickets, publications and buffer size: the hub's types, *)
(* the agreement of its two maps, the subscriptions that were allowed, and *)
(* the frames that reach whoever was subscribed, and nobody else or twice, *)
(* which makes the hub a Broadcast.                                        *)
(***************************************************************************)
EXTENDS WsHub, TLAPS

(* The parts of the type invariant that the two halves of a step disturb.  *)
MapsOK ==
  /\ channels \in [Channels -> SUBSET Clients] /\ clients \subseteq Clients
  /\ subs \in [Clients -> SUBSET Channels] /\ shutting \in BOOLEAN
WiresOK ==
  /\ send \in [Clients -> Seq(Frames)] /\ \A c \in Clients : Len(send[c]) <= Buffer
  /\ closed \subseteq Clients /\ gone \subseteq Clients
PumpsOK ==
  /\ handle \in [Clients -> [pc : HandlePC, channel : Channels, frames : 0..MaxFrames]]
  /\ writer \in [Clients -> {"new", "run", "done"}] /\ written \in [Clients -> SUBSET Pubs]
PubsOK ==
  pub \in [Pubs -> [pc : {"new", "snapshot", "offer", "done"}, channel : Channels,
                    targets : SUBSET Clients, left : SUBSET Clients]]
RestOK ==
  /\ shut \in [pc : {"no", "tell", "closing", "ok", "force"}, left : SUBSET Clients]
  /\ sees \subseteq Clients \X Tickets /\ sees \subseteq saw

LEMMA TypeParts == TypeOK <=> MapsOK /\ WiresOK /\ PumpsOK /\ PubsOK /\ RestOK
BY DEF TypeOK, MapsOK, WiresOK, PumpsOK, PubsOK, RestOK

(* What an offer may do to the buffers: nothing, one frame more where there *)
(* is room, or the client is closed.                                       *)
LEMMA OfferType ==
  ASSUME WiresOK, NEW c \in Clients, NEW f \in Frames, Offer(c, f)
  PROVE  /\ send' \in [Clients -> Seq(Frames)]
         /\ \A d \in Clients : Len(send'[d]) <= Buffer
         /\ closed' \subseteq Clients
<1>1. CASE UNCHANGED <<send, closed>>
  BY <1>1 DEF WiresOK
<1>2. CASE Len(send[c]) < Buffer /\ send' = [send EXCEPT ![c] = Append(@, f)] /\ UNCHANGED closed
  <2>1. send[c] \in Seq(Frames)
    BY DEF WiresOK
  <2>2. /\ Append(send[c], f) \in Seq(Frames)
        /\ Len(Append(send[c], f)) = Len(send[c]) + 1 /\ Len(send[c]) \in Nat
    BY <2>1
  <2>3. Len(Append(send[c], f)) <= Buffer
    BY <1>2, <2>2, HubAssumption
  <2> QED BY <1>2, <2>2, <2>3 DEF WiresOK
<1>3. CASE closed' = closed \cup {c} /\ UNCHANGED send
  BY <1>3 DEF WiresOK
<1> QED BY <1>1, <1>2, <1>3 DEF Offer

LEMMA WriteType ==
  ASSUME WiresOK, NEW c \in Clients, send[c] # <<>>, send' = [send EXCEPT ![c] = Tail(@)]
  PROVE  /\ send' \in [Clients -> Seq(Frames)]
         /\ \A d \in Clients : Len(send'[d]) <= Buffer
<1>1. send[c] \in Seq(Frames) /\ Len(send[c]) <= Buffer
  BY DEF WiresOK
<1>2. /\ Tail(send[c]) \in Seq(Frames)
      /\ Len(Tail(send[c])) = Len(send[c]) - 1 /\ Len(send[c]) \in Nat
  BY <1>1
<1>3. Len(Tail(send[c])) <= Buffer
  BY <1>1, <1>2, HubAssumption
<1> QED BY <1>2, <1>3 DEF WiresOK

LEMMA GotoType ==
  ASSUME PumpsOK, NEW c \in Clients, NEW pc \in HandlePC, Goto(c, pc)
  PROVE  handle' \in [Clients -> [pc : HandlePC, channel : Channels, frames : 0..MaxFrames]]
BY DEF PumpsOK, Goto

-----------------------------------------------------------------------------
LEMMA TypeInit == Init => TypeOK
<1> SUFFICES ASSUME Init PROVE TypeOK
  OBVIOUS
<1>1. MapsOK
  BY DEF Init, MapsOK, Channels
<1>2. WiresOK
  BY HubAssumption DEF Init, WiresOK
<1>3. PumpsOK
  BY HubAssumption DEF Init, PumpsOK, Idle, HandlePC, Channels
<1>4. PubsOK
  BY DEF Init, PubsOK, Channels
<1>5. RestOK
  BY DEF Init, RestOK
<1> QED BY <1>1, <1>2, <1>3, <1>4, <1>5, TypeParts

LEMMA TypeReader ==
  ASSUME TypeOK, NEW c \in Clients, Request(c) \/ Reader(c)
  PROVE  TypeOK'
<1> USE TypeParts, HubAssumption
<1>1. CASE Request(c)
  <2>0. PICK pc \in {"refused", "accept"} : Goto(c, pc)
    <3>1. CASE shutting
      BY <1>1, <3>1 DEF Request
    <3>2. CASE ~shutting
      BY <1>1, <3>2 DEF Request
    <3> QED BY <3>1, <3>2
  <2>1. PumpsOK'
    BY <1>1, <2>0, GotoType DEF Request, PumpsOK, HandlePC
  <2> QED BY <1>1, <2>1 DEF TypeOK, PumpsOK, Request, maps, wires
<1>2. CASE RegisterClient(c)
  <2>1. PumpsOK'
    BY <1>2, GotoType DEF RegisterClient, PumpsOK, HandlePC
  <2> QED BY <1>2, <2>1 DEF TypeOK, PumpsOK, RegisterClient, maps, wires
<1>3. CASE Hello(c)
  <2>1. "connected" \in Frames
    BY DEF Frames
  <2>2. WiresOK'
    BY <1>3, <2>1, OfferType DEF Hello, WiresOK
  <2>3. PumpsOK'
    BY <1>3 DEF Hello, Goto, PumpsOK, HandlePC
  <2> QED BY <1>3, <2>2, <2>3 DEF TypeOK, WiresOK, PumpsOK, Hello, maps
<1>4. CASE Subscribe(c)
  <2>1. handle[c].channel \in Channels
    BY DEF TypeOK
  <2>2. MapsOK'
    BY <1>4, <2>1 DEF Subscribe, MapsOK
  <2>3. PumpsOK'
    BY ZenonT(40), <1>4 DEF Subscribe, BackToRead, PumpsOK, HandlePC, Channels
  <2> QED BY <1>4, <2>2, <2>3 DEF TypeOK, MapsOK, PumpsOK, Subscribe, wires
<1>5. CASE ReadError(c)
  <2>1. PumpsOK'
    BY <1>5, GotoType DEF ReadError, PumpsOK, HandlePC
  <2> QED BY <1>5, <2>1 DEF TypeOK, PumpsOK, ReadError, maps, wires
<1>6. CASE SignalClose(c)
  <2>1. PumpsOK'
    BY <1>6, GotoType DEF SignalClose, PumpsOK, HandlePC
  <2> QED BY <1>6, <2>1 DEF TypeOK, PumpsOK, SignalClose, maps
<1>7. CASE UnregisterClient(c)
  <2>1. MapsOK'
    BY <1>7 DEF UnregisterClient, MapsOK
  <2>2. PumpsOK'
    BY <1>7 DEF UnregisterClient, Goto, PumpsOK, HandlePC
  <2> QED BY <1>7, <2>1, <2>2 DEF TypeOK, MapsOK, PumpsOK, UnregisterClient, wires
<1> QED BY <1>1, <1>2, <1>3, <1>4, <1>5, <1>6, <1>7 DEF Reader

LEMMA TypeWriter ==
  ASSUME TypeOK, NEW c \in Clients,
         Write(c) \/ WriterEnds(c) \/ WriteFails(c) \/ PingFails(c) \/ PeerLeaves(c)
  PROVE  TypeOK'
<1> USE TypeParts
<1>1. CASE Write(c)
  <2>1. WiresOK'
    BY <1>1, WriteType DEF Write, WiresOK
  <2>2. PumpsOK'
    BY <1>1 DEF Write, PumpsOK
  <2> QED BY <1>1, <2>1, <2>2 DEF TypeOK, WiresOK, PumpsOK, Write, maps
<1>2. CASE WriterEnds(c)
  BY <1>2 DEF TypeOK, WriterEnds, maps
<1>3. CASE WriteFails(c)
  <2>1. WiresOK'
    BY <1>3, WriteType DEF WriteFails, WiresOK
  <2>2. PumpsOK'
    BY <1>3 DEF WriteFails, PumpsOK
  <2> QED BY <1>3, <2>1, <2>2 DEF TypeOK, WiresOK, PumpsOK, WriteFails, maps
<1>4. CASE PingFails(c)
  BY <1>4 DEF TypeOK, PingFails, maps
<1>5. CASE PeerLeaves(c)
  BY <1>5 DEF TypeOK, PeerLeaves, maps
<1> QED BY <1>1, <1>2, <1>3, <1>4, <1>5

LEMMA TypeFrame ==
  ASSUME TypeOK, NEW c \in Clients, NEW ch \in Channels,
         Authorize(c, ch) \/ Deny(c, ch) \/ Unsubscribe(c, ch)
  PROVE  TypeOK'
<1> USE TypeParts
<1>0. handle[c].frames \in 0..MaxFrames
  BY DEF TypeOK
<1>a. Reads(c) => handle[c].frames + 1 \in 0..MaxFrames
  BY <1>0, HubAssumption DEF Reads
<1>1. CASE Authorize(c, ch)
  <2>1. handle' = [handle EXCEPT ![c] = [pc |-> "subscribe", channel |-> ch,
                                         frames |-> handle[c].frames + 1]]
    BY <1>1 DEF Authorize, TypeOK
  <2>2. [pc |-> "subscribe", channel |-> ch, frames |-> handle[c].frames + 1]
          \in [pc : HandlePC, channel : Channels, frames : 0..MaxFrames]
    BY <1>1, <1>a DEF Authorize, HandlePC
  <2>3. PumpsOK'
    BY <1>1, <2>1, <2>2 DEF Authorize, PumpsOK
  <2> QED BY <1>1, <2>3 DEF TypeOK, PumpsOK, Authorize, maps, wires
<1>2. CASE Deny(c, ch)
  <2>1. "error" \in Frames
    BY DEF Frames
  <2>2. WiresOK'
    BY <1>2, <2>1, OfferType DEF Deny, WiresOK
  <2>3. PumpsOK'
    BY <1>2, <1>a DEF Deny, PumpsOK
  <2> QED BY <1>2, <2>2, <2>3 DEF TypeOK, WiresOK, PumpsOK, Deny, maps
<1>3. CASE Unsubscribe(c, ch)
  <2>1. PumpsOK'
    BY <1>3, <1>a DEF Unsubscribe, PumpsOK
  <2>2. MapsOK'
    BY <1>3 DEF Unsubscribe, MapsOK
  <2> QED BY <1>3, <2>1, <2>2 DEF TypeOK, MapsOK, PumpsOK, Unsubscribe, wires
<1> QED BY <1>1, <1>2, <1>3

LEMMA TypePublisher ==
  ASSUME TypeOK, NEW p \in Pubs,
         \/ \E ch \in Channels : Publish(p, ch)
         \/ Targets(p)
         \/ \E c \in Clients : OfferNext(p, c)
  PROVE  TypeOK'
<1> USE TypeParts
<1>1. ASSUME NEW ch \in Channels, Publish(p, ch)
      PROVE  TypeOK'
  <2>1. PubsOK'
    BY ZenonT(40), <1>1 DEF Publish, PubsOK
  <2> QED BY <1>1, <2>1 DEF TypeOK, PubsOK, Publish, maps, wires
<1>2. CASE Targets(p)
  <2>1. channels[pub[p].channel] \subseteq Clients
    BY DEF TypeOK
  <2>2. PubsOK'
    BY <1>2, <2>1 DEF Targets, PubsOK, Channels
  <2> QED BY <1>2, <2>2 DEF TypeOK, PubsOK, Targets, maps, wires
<1>3. ASSUME NEW c \in Clients, OfferNext(p, c)
      PROVE  TypeOK'
  <2>1. p \in Frames
    BY DEF Frames
  <2>2. WiresOK'
    BY <1>3, <2>1, OfferType DEF OfferNext, WiresOK
  <2>3. PubsOK'
    BY <1>3 DEF OfferNext, PubsOK
  <2> QED BY <1>3, <2>2, <2>3 DEF TypeOK, WiresOK, PubsOK, OfferNext, maps
<1> QED BY <1>1, <1>2, <1>3

LEMMA TypeShutdown ==
  ASSUME TypeOK, ShutdownBegin \/ Shutdown
  PROVE  TypeOK'
<1> USE TypeParts
<1>1. CASE ShutdownBegin
  BY <1>1 DEF TypeOK, ShutdownBegin, maps, wires
<1>2. CASE ShutdownSnapshot
  BY <1>2 DEF TypeOK, ShutdownSnapshot, maps, wires
<1>3. CASE ShutdownReturn
  BY <1>3 DEF TypeOK, ShutdownReturn, maps, wires
<1>4. CASE ForceCloseRemaining
  BY <1>4 DEF TypeOK, ForceCloseRemaining, maps, wires
<1>5. ASSUME NEW c \in Clients, ShutdownTell(c)
      PROVE  TypeOK'
  <2>1. send' = send \/ (Len(send[c]) < Buffer /\ send' = [send EXCEPT ![c] = Append(@, "closing")])
    BY <1>5 DEF ShutdownTell
  <2>2. send[c] \in Seq(Frames) /\ "closing" \in Frames
    BY DEF TypeOK, Frames
  <2>3. /\ Append(send[c], "closing") \in Seq(Frames)
        /\ Len(Append(send[c], "closing")) = Len(send[c]) + 1 /\ Len(send[c]) \in Nat
    BY <2>2
  <2>4. Len(send[c]) < Buffer => Len(Append(send[c], "closing")) <= Buffer
    BY <2>3, HubAssumption
  <2>5. WiresOK'
    BY <1>5, <2>1, <2>3, <2>4 DEF WiresOK, ShutdownTell
  <2>6. RestOK'
    BY <1>5 DEF RestOK, ShutdownTell
  <2> QED BY <1>5, <2>5, <2>6 DEF TypeOK, WiresOK, RestOK, ShutdownTell, maps
<1>6. ASSUME NEW c \in Clients, ForceClose(c)
      PROVE  TypeOK'
  BY <1>6 DEF TypeOK, ForceClose, maps
<1> QED BY <1>1, <1>2, <1>3, <1>4, <1>5, <1>6 DEF Shutdown

LEMMA TypeReassign ==
  ASSUME TypeOK, NEW c \in Clients, NEW t \in Tickets, Reassign(c, t)
  PROVE  TypeOK'
BY DEF TypeOK, Reassign, maps, wires

LEMMA TypeStep == TypeOK /\ [Next]_vars => TypeOK'
<1> SUFFICES ASSUME TypeOK, [Next]_vars PROVE TypeOK'
  OBVIOUS
<1>1. CASE UNCHANGED vars
  BY <1>1 DEF vars, maps, wires, TypeOK
<1>2. CASE Next
  BY <1>2, TypeReader, TypeWriter, TypeFrame, TypePublisher, TypeShutdown, TypeReassign
     DEF Next
<1> QED BY <1>1, <1>2

(* The variables have their types, whatever the numbers of clients, tickets *)
(* and publications, and no buffer holds more than ClientWriteBuffer.      *)
THEOREM TypeCorrect == Spec => []TypeOK
BY TypeInit, TypeStep, PTL DEF Spec

-----------------------------------------------------------------------------
(* The two maps change together in subscribe, unsubscribe and               *)
(* unregisterClient, and a registration adds a client without channels.    *)
LEMMA MapsStep == TypeOK /\ MapsAgree /\ [Next]_vars => MapsAgree'
<1> SUFFICES ASSUME TypeOK, MapsAgree, [Next]_vars PROVE MapsAgree'
  OBVIOUS
<1>1. CASE UNCHANGED maps
  BY <1>1 DEF maps, MapsAgree
<1>2. ASSUME NEW c \in Clients, RegisterClient(c)
      PROVE  MapsAgree'
  BY <1>2 DEF RegisterClient, MapsAgree
<1>3. ASSUME NEW c \in Clients, Subscribe(c)
      PROVE  MapsAgree'
  <2>1. handle[c].channel \in Channels
    BY DEF TypeOK
  <2>2. CASE c \in clients
    <3> DEFINE ch == handle[c].channel
    <3>1. /\ subs' = [subs EXCEPT ![c] = @ \cup {ch}]
          /\ channels' = [channels EXCEPT ![ch] = @ \cup {c}]
          /\ clients' = clients
      BY <1>3, <2>2 DEF Subscribe
    <3>2. ch \in Channels
      BY <2>1
    <3> HIDE DEF ch
    <3> QED BY <2>2, <3>1, <3>2 DEF MapsAgree, TypeOK
  <2>3. CASE c \notin clients
    BY <1>3, <2>3 DEF Subscribe, MapsAgree
  <2> QED BY <2>2, <2>3
<1>4. ASSUME NEW c \in Clients, UnregisterClient(c)
      PROVE  MapsAgree'
  BY <1>4 DEF UnregisterClient, MapsAgree, TypeOK
<1>5. ASSUME NEW c \in Clients, NEW ch \in Channels, Unsubscribe(c, ch)
      PROVE  MapsAgree'
  BY <1>5 DEF Unsubscribe, MapsAgree, TypeOK
<1>6. UNCHANGED maps
      \/ (\E c \in Clients : RegisterClient(c) \/ Subscribe(c) \/ UnregisterClient(c))
      \/ (\E c \in Clients, ch \in Channels : Unsubscribe(c, ch))
  BY DEF Next, vars, Reader, Request, Hello, ReadError, SignalClose, Write, WriterEnds, WriteFails, PingFails,
         PeerLeaves, Authorize, Deny, Publish, Targets, OfferNext, ShutdownBegin, Shutdown,
         ShutdownSnapshot, ShutdownReturn, ForceCloseRemaining, ShutdownTell, ForceClose, Reassign
<1> QED BY <1>1, <1>2, <1>3, <1>4, <1>5, <1>6

(* The two directions of the subscription map agree whatever clients come   *)
(* and go, and a client that left is in neither.                           *)
THEOREM MapsAlwaysAgree == Spec => []MapsAgree
<1>1. Init => MapsAgree
  BY DEF Init, MapsAgree
<1> QED BY <1>1, MapsStep, TypeCorrect, PTL DEF Spec

-----------------------------------------------------------------------------
(* What a client may ever have been allowed; a client between its check and *)
(* its subscription has been.                                              *)
Granted(c, ch, ever) ==
  ch = "notification" \/ (ch \in Tickets /\ (c \in Admins \/ <<c, ch>> \in ever))
Checked ==
  \A c \in Clients : handle[c].pc = "subscribe" => Granted(c, handle[c].channel, saw)
AllowedInv == SubscribersWereAllowed /\ Checked

LEMMA AllowedStep == TypeOK /\ AllowedInv /\ [Next]_vars => AllowedInv'
<1> SUFFICES ASSUME TypeOK, AllowedInv, [Next]_vars PROVE AllowedInv'
  OBVIOUS
<1>0. \A c \in Clients : \A ch \in subs[c] : Granted(c, ch, saw)
  BY DEF AllowedInv, SubscribersWereAllowed, Granted
<1>1. saw \subseteq saw'
  BY DEF Next, vars, Reader, Request, RegisterClient, Hello, Subscribe, ReadError, SignalClose,
         UnregisterClient, Write, WriterEnds, WriteFails, PingFails, PeerLeaves, Authorize, Deny, Unsubscribe,
         Publish, Targets, OfferNext, ShutdownBegin, Shutdown, ShutdownSnapshot, ShutdownReturn,
         ForceCloseRemaining, ShutdownTell, ForceClose, Reassign
<1>2. \A c \in Clients, ch \in Channels : Granted(c, ch, saw) => Granted(c, ch, saw')
  BY <1>1 DEF Granted
<1>3. SUFFICES ASSUME NEW d \in Clients
      PROVE  /\ \A ch \in subs'[d] : ch \in subs[d] \/ Granted(d, ch, saw')
             /\ handle'[d].pc = "subscribe" =>
                  \/ handle[d].pc = "subscribe" /\ handle'[d].channel = handle[d].channel
                  \/ Granted(d, handle'[d].channel, saw')
  <2>1. TypeOK'
    BY TypeStep
  <2>2. \A c \in Clients : subs[c] \subseteq Channels /\ subs'[c] \subseteq Channels
    BY <2>1 DEF TypeOK
  <2>3. \A c \in Clients : \A ch \in subs'[c] : Granted(c, ch, saw')
    BY <1>0, <1>2, <1>3, <2>2
  <2>4. \A c \in Clients : handle[c].channel \in Channels
    BY DEF TypeOK
  <2>5. ASSUME NEW c \in Clients, handle'[c].pc = "subscribe"
        PROVE  Granted(c, handle'[c].channel, saw')
    <3>1. CASE handle[c].pc = "subscribe" /\ handle'[c].channel = handle[c].channel
      <4>1. Granted(c, handle[c].channel, saw)
        BY <3>1 DEF AllowedInv, Checked
      <4> QED BY <3>1, <4>1, <2>4, <1>2
    <3> QED BY <1>3, <2>5, <3>1
  <2> QED BY <2>3, <2>5 DEF AllowedInv, SubscribersWereAllowed, Checked, Granted
<1>4. CASE UNCHANGED <<handle, subs>>
  BY <1>4
<1>5. ASSUME NEW c \in Clients,
             UNCHANGED subs, handle' = [handle EXCEPT ![c].pc = handle'[c].pc],
             handle'[c].pc # "subscribe"
      PROVE  /\ \A ch \in subs'[d] : ch \in subs[d]
             /\ handle'[d].pc = "subscribe" =>
                  handle[d].pc = "subscribe" /\ handle'[d].channel = handle[d].channel
  BY <1>5 DEF TypeOK
<1>6. ASSUME NEW c \in Clients, Request(c) \/ RegisterClient(c) \/ Hello(c) \/ ReadError(c) \/ SignalClose(c)
      PROVE  UNCHANGED subs /\ handle' = [handle EXCEPT ![c].pc = handle'[c].pc]
             /\ handle'[c].pc # "subscribe"
  <2>1. UNCHANGED subs /\ \E pc \in HandlePC \ {"subscribe"} : Goto(c, pc)
    BY <1>6 DEF Request, RegisterClient, Hello, ReadError, SignalClose, maps, HandlePC
  <2> QED BY <2>1 DEF Goto, TypeOK
<1>7. ASSUME NEW c \in Clients, Subscribe(c)
      PROVE  /\ \A ch \in subs'[d] : ch \in subs[d] \/ Granted(d, ch, saw')
             /\ handle'[d].pc = "subscribe" =>
                  handle[d].pc = "subscribe" /\ handle'[d].channel = handle[d].channel
  <2>1. Granted(c, handle[c].channel, saw')
    BY <1>7 DEF AllowedInv, Checked, Subscribe, Granted
  <2>2. /\ \A e \in Clients \ {c} : handle'[e] = handle[e]
        /\ handle'[c].pc = "read"
    BY <1>7 DEF Subscribe, BackToRead, TypeOK
  <2>3. \/ subs' = subs
        \/ subs' = [subs EXCEPT ![c] = @ \cup {handle[c].channel}]
    BY <1>7 DEF Subscribe
  <2>4. \A ch \in subs'[d] : ch \in subs[d] \/ Granted(d, ch, saw')
    <3> DEFINE new == handle[c].channel
    <3>1. subs' = subs \/ subs' = [subs EXCEPT ![c] = @ \cup {new}]
      BY <2>3
    <3>2. Granted(c, new, saw')
      BY <2>1
    <3>3. subs'[d] \subseteq subs[d] \/ (d = c /\ subs'[d] = subs[d] \cup {new})
      <4> HIDE DEF new
      <4> QED BY <3>1 DEF TypeOK
    <3> HIDE DEF new
    <3> QED BY <3>2, <3>3
  <2> QED BY <2>2, <2>4
<1>8. ASSUME NEW c \in Clients, UnregisterClient(c)
      PROVE  /\ \A ch \in subs'[d] : ch \in subs[d]
             /\ handle'[d].pc = "subscribe" =>
                  handle[d].pc = "subscribe" /\ handle'[d].channel = handle[d].channel
  BY <1>8 DEF UnregisterClient, Goto, TypeOK
<1>9. ASSUME NEW c \in Clients, NEW ch \in Channels, Authorize(c, ch)
      PROVE  /\ UNCHANGED subs
             /\ handle'[d].pc = "subscribe" =>
                  \/ handle[d].pc = "subscribe" /\ handle'[d].channel = handle[d].channel
                  \/ Granted(d, handle'[d].channel, saw')
  <2>1. Granted(c, ch, saw')
    BY <1>9 DEF Authorize, Allowed, Granted, TypeOK
  <2>2. handle'[c].channel = ch /\ \A e \in Clients \ {c} : handle'[e] = handle[e]
    BY <1>9 DEF Authorize, TypeOK
  <2>3. UNCHANGED subs
    BY <1>9 DEF Authorize, maps
  <2>4. CASE d = c
    BY <2>1, <2>2, <2>3, <2>4
  <2>5. CASE d # c
    BY <2>2, <2>3, <2>5
  <2> QED BY <2>4, <2>5
<1>10. ASSUME NEW c \in Clients, NEW ch \in Channels, Deny(c, ch) \/ Unsubscribe(c, ch)
      PROVE  /\ \A x \in subs'[d] : x \in subs[d]
             /\ handle'[d].pc = "subscribe" =>
                  handle[d].pc = "subscribe" /\ handle'[d].channel = handle[d].channel
  <2>1. \/ subs' = subs
        \/ subs' = [subs EXCEPT ![c] = @ \ {ch}]
    BY <1>10 DEF Deny, Unsubscribe, maps
  <2>2. handle' = [handle EXCEPT ![c].frames = @ + 1]
    BY <1>10 DEF Deny, Unsubscribe
  <2> QED BY <2>1, <2>2 DEF TypeOK
<1>11. \/ UNCHANGED <<handle, subs>>
       \/ \E c \in Clients : Request(c) \/ Reader(c)
       \/ \E c \in Clients, ch \in Channels : Authorize(c, ch) \/ Deny(c, ch) \/ Unsubscribe(c, ch)
  BY DEF Next, vars, maps, Write, WriterEnds, WriteFails, PingFails, PeerLeaves, Publish, Targets, OfferNext,
         ShutdownBegin, Shutdown, ShutdownSnapshot, ShutdownReturn, ForceCloseRemaining,
         ShutdownTell, ForceClose, Reassign
<1> QED BY <1>4, <1>5, <1>6, <1>7, <1>8, <1>9, <1>10, <1>11 DEF Reader

(* Nobody is subscribed to a ticket that he was never allowed to see, nor   *)
(* to a channel of the system, though the check and the subscription are   *)
(* two steps and the ticket may change hands in between.                   *)
THEOREM SubscriptionsAreAllowed == Spec => []SubscribersWereAllowed
<1>1. Init => AllowedInv
  BY DEF Init, AllowedInv, SubscribersWereAllowed, Checked, Idle
<1>2. AllowedInv => SubscribersWereAllowed
  BY DEF AllowedInv
<1> QED BY <1>1, <1>2, AllowedStep, TypeCorrect, PTL DEF Spec

-----------------------------------------------------------------------------
(* A publication that was offered to a client: where it is now.            *)
InBuffer(c, p) == \E i \in 1..Len(send[c]) : send[c][i] = p
Accounted(c, p) == p \in written[c] \/ c \in Cut \/ InBuffer(c, p)

(* An offer leaves the frame in the buffer or the client closed, and takes  *)
(* nothing away from anybody.                                              *)
LEMMA OfferAccounts ==
  ASSUME WiresOK, NEW c \in Clients, NEW f \in Frames, Offer(c, f)
  PROVE  /\ c \in closed' \/ InBuffer(c, f)'
         /\ closed \subseteq closed'
         /\ \A d \in Clients, p \in Pubs : InBuffer(d, p) => InBuffer(d, p)'
<1>0. send[c] \in Seq(Frames) /\ Len(send[c]) \in Nat
  BY DEF WiresOK
<1>1. CASE c \in closed /\ UNCHANGED <<send, closed>>
  BY <1>1 DEF InBuffer
<1>2. CASE Len(send[c]) < Buffer /\ send' = [send EXCEPT ![c] = Append(@, f)] /\ UNCHANGED closed
  <2>1. /\ send'[c] = Append(send[c], f)
        /\ \A d \in Clients \ {c} : send'[d] = send[d]
    BY <1>2 DEF WiresOK
  <2>2. /\ Len(send'[c]) = Len(send[c]) + 1 /\ send'[c][Len(send[c]) + 1] = f
        /\ \A i \in 1..Len(send[c]) : send'[c][i] = send[c][i]
    BY <1>0, <2>1
  <2>3. Len(send[c]) + 1 \in 1..Len(send'[c]) /\ \A i \in 1..Len(send[c]) : i \in 1..Len(send'[c])
    BY <1>0, <2>2
  <2> QED BY <1>2, <2>1, <2>2, <2>3 DEF InBuffer
<1>3. CASE closed' = closed \cup {c} /\ UNCHANGED send
  BY <1>3 DEF InBuffer
<1> QED BY <1>1, <1>2, <1>3 DEF Offer

LEMMA WriteAccounts ==
  ASSUME TypeOK, NEW c \in Clients, Write(c)
  PROVE  \A d \in Clients, p \in Pubs : Accounted(d, p) => Accounted(d, p)'
<1>1. /\ send' = [send EXCEPT ![c] = Tail(@)] /\ send[c] # <<>> /\ send[c] \in Seq(Frames)
      /\ written' = [written EXCEPT ![c] = @ \cup ({Head(send[c])} \cap Pubs)]
      /\ Cut' = Cut
  BY DEF Write, TypeOK, Cut
<1>2. /\ send'[c] = Tail(send[c]) /\ \A d \in Clients \ {c} : send'[d] = send[d]
      /\ \A d \in Clients : written[d] \subseteq written'[d]
  BY <1>1 DEF TypeOK
<1>3. ASSUME NEW p \in Pubs, InBuffer(c, p)
      PROVE  Accounted(c, p)'
  <2>1. PICK i \in 1..Len(send[c]) : send[c][i] = p
    BY <1>3 DEF InBuffer
  <2>2. CASE i = 1
    <3>1. Head(send[c]) = p
      BY <2>1, <2>2, <1>1
    <3> QED BY <3>1, <1>1 DEF Accounted, TypeOK
  <2>3. CASE i # 1
    <3>1. /\ Len(send[c]) \in Nat /\ i - 1 \in 1..(Len(send[c]) - 1)
          /\ Len(Tail(send[c])) = Len(send[c]) - 1
      BY <2>1, <2>3, <1>1
    <3>2. Tail(send[c])[i - 1] = send[c][(i - 1) + 1]
      BY <3>1, <1>1
    <3>3. send'[c][i - 1] = p /\ i - 1 \in 1..Len(send'[c])
      BY <3>1, <3>2, <2>1, <1>2
    <3>4. InBuffer(c, p)'
      BY <3>3 DEF InBuffer
    <3> QED BY <3>4 DEF Accounted
  <2> QED BY <2>2, <2>3
<1>4. \A d \in Clients \ {c}, p \in Pubs : InBuffer(d, p) => InBuffer(d, p)'
  BY <1>2 DEF InBuffer
<1> QED BY <1>1, <1>2, <1>3, <1>4 DEF Accounted

LEMMA AccountedStep ==
  ASSUME TypeOK, [Next]_vars
  PROVE  \A d \in Clients, p \in Pubs : Accounted(d, p) => Accounted(d, p)'
<1>0. WiresOK
  BY TypeParts
<1>1. CASE UNCHANGED <<send, written>> /\ Cut \subseteq Cut'
  BY <1>1 DEF Accounted, InBuffer
<1>2. ASSUME NEW c \in Clients, NEW f \in Frames, Offer(c, f), UNCHANGED <<written, gone>>
      PROVE  \A d \in Clients, p \in Pubs : Accounted(d, p) => Accounted(d, p)'
  BY <1>0, <1>2, OfferAccounts DEF Accounted, Cut
<1>3. ASSUME NEW c \in Clients, ShutdownTell(c)
      PROVE  \A d \in Clients, p \in Pubs : Accounted(d, p) => Accounted(d, p)'
  <2>1. "closing" \in Frames
    BY DEF Frames
  <2>2. CASE UNCHANGED send
    BY <1>3, <2>2 DEF ShutdownTell, Accounted, InBuffer, Cut
  <2>3. CASE Len(send[c]) < Buffer /\ send' = [send EXCEPT ![c] = Append(@, "closing")]
    <3>1. Offer(c, "closing") /\ UNCHANGED <<written, gone>>
      BY <1>3, <2>3 DEF Offer, ShutdownTell
    <3> QED BY <3>1, <2>1, <1>2
  <2> QED BY <1>3, <2>2, <2>3 DEF ShutdownTell
<1>4. ASSUME NEW c \in Clients, Hello(c) \/ (\E ch \in Channels : Deny(c, ch))
               \/ (\E p \in Pubs : OfferNext(p, c))
      PROVE  \E f \in Frames : Offer(c, f) /\ UNCHANGED <<written, gone>>
  BY <1>4 DEF Hello, Deny, OfferNext, Frames
<1>5. \/ UNCHANGED <<send, written>> /\ Cut \subseteq Cut'
      \/ \E c \in Clients : Hello(c) \/ Write(c) \/ WriteFails(c) \/ ShutdownTell(c)
      \/ \E c \in Clients, ch \in Channels : Deny(c, ch)
      \/ \E p \in Pubs, c \in Clients : OfferNext(p, c)
  BY DEF Next, vars, wires, Reader, Request, RegisterClient, Subscribe, ReadError, SignalClose,
         UnregisterClient, WriterEnds, PingFails, PeerLeaves, Authorize, Unsubscribe,
         Publish, Targets, ShutdownBegin, Shutdown, ShutdownSnapshot, ShutdownReturn,
         ForceCloseRemaining, ForceClose, Reassign, Cut
<1>6. ASSUME NEW c \in Clients, WriteFails(c)
      PROVE  \A d \in Clients, p \in Pubs : Accounted(d, p) => Accounted(d, p)'
  <2>1. /\ c \in Cut' /\ Cut \subseteq Cut' /\ written' = written
        /\ \A d \in Clients \ {c} : send'[d] = send[d]
    BY <1>6 DEF WriteFails, Cut, TypeOK
  <2> QED BY <2>1 DEF Accounted, InBuffer
<1> QED BY <1>1, <1>2, <1>3, <1>4, <1>5, <1>6, WriteAccounts

LEMMA MissedStep == TypeOK /\ NothingMissed /\ [Next]_vars => NothingMissed'
<1> SUFFICES ASSUME TypeOK, NothingMissed, [Next]_vars,
                    NEW p \in Pubs, NEW c \in Clients, c \in pub'[p].targets \ pub'[p].left
             PROVE  Accounted(c, p)'
  BY DEF NothingMissed, Accounted, InBuffer, Cut
<1>1. CASE c \in pub[p].targets \ pub[p].left
  <2>1. Accounted(c, p)
    BY <1>1 DEF NothingMissed, Accounted, InBuffer, Cut
  <2> QED BY <2>1, AccountedStep
<1>2. CASE c \notin pub[p].targets \ pub[p].left
  <2>1. ASSUME NEW q \in Pubs, NEW ch \in Channels, Publish(q, ch)
        PROVE  FALSE
    BY <1>2, <2>1 DEF Publish, TypeOK
  <2>2. ASSUME NEW q \in Pubs, Targets(q)
        PROVE  FALSE
    <3>1. pub'[q].targets = pub'[q].left
      BY <2>2 DEF Targets, TypeOK
    <3>2. \A r \in Pubs \ {q} : pub'[r] = pub[r]
      BY <2>2 DEF Targets, TypeOK
    <3> QED BY <3>1, <3>2, <1>2
  <2>3. ASSUME NEW q \in Pubs, NEW d \in Clients, OfferNext(q, d)
        PROVE  Accounted(c, p)'
    <3>1. q = p /\ d = c
      BY <2>3, <1>2 DEF OfferNext, TypeOK
    <3>2. Offer(c, p) /\ p \in Frames /\ WiresOK
      BY <2>3, <3>1, TypeParts DEF OfferNext, Frames
    <3> QED BY <3>2, OfferAccounts DEF Accounted, Cut
  <2>4. \/ pub' = pub
        \/ \E q \in Pubs : (\E ch \in Channels : Publish(q, ch)) \/ Targets(q)
                            \/ (\E d \in Clients : OfferNext(q, d))
    BY DEF Next, vars, Reader, Request, RegisterClient, Hello, Subscribe, ReadError, SignalClose,
           UnregisterClient, Write, WriterEnds, WriteFails, PingFails, PeerLeaves, Authorize, Deny, Unsubscribe,
           ShutdownBegin, Shutdown, ShutdownSnapshot, ShutdownReturn,
           ForceCloseRemaining, ShutdownTell, ForceClose, Reassign
  <2> QED BY <1>2, <2>1, <2>2, <2>3, <2>4
<1> QED BY <1>1, <1>2

(* A subscriber misses no frame in silence: what was published to him was   *)
(* written, is in his buffer, or he is being disconnected.                 *)
THEOREM NoFrameIsMissed == Spec => []NothingMissed
<1>1. Init => NothingMissed
  BY DEF Init, NothingMissed
<1> QED BY <1>1, MissedStep, TypeCorrect, PTL DEF Spec

-----------------------------------------------------------------------------
(* Each publication reaches nobody but the clients that were subscribed    *)
(* when it was published, and each of them once.                           *)
DeliveredOnce ==
  \A c \in Clients, p \in Pubs :
    /\ InBuffer(c, p) \/ p \in written[c] => c \in pub[p].targets \ pub[p].left
    /\ InBuffer(c, p) => p \notin written[c]
    /\ \A i, j \in 1..Len(send[c]) : send[c][i] = p /\ send[c][j] = p => i = j
Addressed ==
  \A p \in Pubs : pub[p].left \subseteq pub[p].targets
                 /\ (pub[p].pc # "offer" => pub[p].targets = {})

(* Who still has to do with a client: the request that registered it, and  *)
(* the writer, from the greeting until the connection goes.                *)
Pumps ==
  \A c \in Clients :
    /\ c \in clients <=> handle[c].pc \in {"hello", "read", "subscribe", "close", "teardown"}
    /\ c \in gone \/ handle[c].pc \in {"new", "refused", "accept", "hello", "read", "subscribe"}
    /\ c \in gone \/ (handle[c].pc \in {"read", "subscribe"} => writer[c] = "run")

(* A client that is told to close, or whose connection was closed, is      *)
(* never left alone with its connection or its subscriptions: a goroutine  *)
(* of its own is about to take the next step of its end, and none of them  *)
(* waits for the peer.                                                     *)
ClosedIsAttended ==
  \A c \in Cut : c \in clients \cup Open =>
    \/ handle[c].pc \in {"hello", "subscribe", "close", "teardown"}
    \/ handle[c].pc = "read" /\ (c \in gone \/ writer[c] = "run")

Once(c, p) == \A i, j \in 1..Len(send[c]) : send[c][i] = p /\ send[c][j] = p => i = j

(* An offer adds at most the frame it offers, to the client it offers it.  *)
LEMMA OfferAdds ==
  ASSUME WiresOK, NEW c \in Clients, NEW f \in Frames, Offer(c, f),
         NEW d \in Clients, NEW p \in Pubs
  PROVE  /\ InBuffer(d, p)' => InBuffer(d, p) \/ (d = c /\ p = f)
         /\ Once(d, p) /\ (d = c /\ p = f => ~InBuffer(d, p)) => Once(d, p)'
<1>1. CASE UNCHANGED send
  BY <1>1 DEF InBuffer, Once
<1>2. CASE send' = [send EXCEPT ![c] = Append(@, f)]
  <2>1. send[c] \in Seq(Frames) /\ send'[c] = Append(send[c], f)
        /\ \A e \in Clients \ {c} : send'[e] = send[e]
    BY <1>2 DEF WiresOK
  <2>2. CASE d # c
    BY <2>1, <2>2 DEF InBuffer, Once
  <2>3. CASE d = c
    <3>1. /\ Len(send[c]) \in Nat /\ Len(send'[c]) = Len(send[c]) + 1
          /\ send'[c][Len(send[c]) + 1] = f
          /\ \A i \in 1..Len(send[c]) : send'[c][i] = send[c][i]
      BY <2>1
    <3>2. \A i \in 1..Len(send'[c]) : i = Len(send[c]) + 1 \/ i \in 1..Len(send[c])
      BY <3>1
    <3>3. InBuffer(c, p)' => InBuffer(c, p) \/ p = f
      BY <3>1, <3>2 DEF InBuffer
    <3>4. ASSUME Once(c, p), p = f => ~InBuffer(c, p),
                 NEW i \in 1..Len(send'[c]), NEW j \in 1..Len(send'[c]),
                 send'[c][i] = p, send'[c][j] = p
          PROVE  i = j
      <4>1. CASE p = f
        <5>1. i = Len(send[c]) + 1 /\ j = Len(send[c]) + 1
          BY <3>1, <3>2, <3>4, <4>1 DEF InBuffer
        <5> QED BY <5>1
      <4>2. CASE p # f
        <5>1. i \in 1..Len(send[c]) /\ j \in 1..Len(send[c])
          BY <3>1, <3>2, <3>4, <4>2
        <5> QED BY <3>1, <3>4, <5>1 DEF Once
      <4> QED BY <4>1, <4>2
    <3>5. Once(c, p) /\ (p = f => ~InBuffer(c, p)) => Once(c, p)'
      BY <3>4 DEF Once
    <3> QED BY <2>3, <3>3, <3>5
  <2> QED BY <2>2, <2>3
<1> QED BY <1>1, <1>2 DEF Offer

(* The writer takes the first frame, and there is no second one of it.     *)
LEMMA WriteTakes ==
  ASSUME TypeOK, NEW c \in Clients, Write(c) \/ WriteFails(c),
         NEW d \in Clients, NEW p \in Pubs, Once(d, p)
  PROVE  /\ Once(d, p)' /\ (InBuffer(d, p)' => InBuffer(d, p))
         /\ p \in written'[d] => p \in written[d] \/ (InBuffer(d, p) /\ ~InBuffer(d, p)')
<1>1. /\ send[c] \in Seq(Frames) /\ send[c] # <<>> /\ send'[c] = Tail(send[c])
      /\ \A e \in Clients \ {c} : send'[e] = send[e] /\ written'[e] = written[e]
      /\ written'[c] \subseteq written[c] \cup {Head(send[c])}
  BY DEF Write, WriteFails, TypeOK
<1>2. CASE d # c
  <2>1. send'[d] = send[d] /\ written'[d] = written[d]
    BY <1>1, <1>2
  <2>2. (InBuffer(d, p)' <=> InBuffer(d, p)) /\ (Once(d, p)' <=> Once(d, p))
    BY <2>1 DEF InBuffer, Once
  <2> QED BY <2>1, <2>2
<1>3. CASE d = c
  <2>1. /\ Len(send[c]) \in Nat \ {0} /\ Len(send'[c]) = Len(send[c]) - 1
        /\ \A i \in 1..Len(send'[c]) : send'[c][i] = send[c][i + 1]
        /\ Head(send[c]) = send[c][1]
    BY <1>1
  <2>2. /\ 1 \in 1..Len(send[c])
        /\ \A i \in 1..Len(send'[c]) : i + 1 \in 1..Len(send[c]) /\ i + 1 # 1
        /\ \A i, j \in 1..Len(send'[c]) : i + 1 = j + 1 => i = j
    BY <2>1
  <2>3. InBuffer(c, p)' => InBuffer(c, p)
    BY <2>1, <2>2 DEF InBuffer
  <2>a. \A i, j \in 1..Len(send[c]) : send[c][i] = p /\ send[c][j] = p => i = j
    BY <1>3 DEF Once
  <2>4. Once(c, p)'
    <3> SUFFICES ASSUME NEW i \in 1..Len(send'[c]), NEW j \in 1..Len(send'[c]),
                        send'[c][i] = p, send'[c][j] = p
                 PROVE  i = j
      BY DEF Once
    <3>1. /\ i + 1 \in 1..Len(send[c]) /\ send[c][i + 1] = p
          /\ j + 1 \in 1..Len(send[c]) /\ send[c][j + 1] = p
      BY <2>1, <2>2
    <3>2. i + 1 = j + 1
      BY <2>a, <3>1
    <3> QED BY <2>2, <3>2
  <2>5. Head(send[c]) = p => InBuffer(c, p) /\ ~InBuffer(c, p)'
    BY <1>3, <2>1, <2>2 DEF InBuffer, Once
  <2>6. p \in written'[c] => p \in written[c] \/ Head(send[c]) = p
    BY <1>1
  <2> QED BY <1>3, <2>3, <2>4, <2>5, <2>6
<1> QED BY <1>2, <1>3

DeliveryInv == DeliveredOnce /\ Addressed

LEMMA DeliveryParts ==
  DeliveredOnce <=>
    \A c \in Clients, p \in Pubs :
      /\ InBuffer(c, p) \/ p \in written[c] => c \in pub[p].targets \ pub[p].left
      /\ InBuffer(c, p) => p \notin written[c]
      /\ Once(c, p)
BY DEF DeliveredOnce, Once

LEMMA DeliveryStep == TypeOK /\ DeliveryInv /\ [Next]_vars => DeliveryInv'
<1> SUFFICES ASSUME TypeOK, DeliveryInv, [Next]_vars PROVE DeliveryInv'
  OBVIOUS
<1>0. /\ WiresOK /\ Addressed
      /\ \A c \in Clients, p \in Pubs :
           /\ InBuffer(c, p) \/ p \in written[c] => c \in pub[p].targets \ pub[p].left
           /\ InBuffer(c, p) => p \notin written[c]
           /\ Once(c, p)
  BY TypeParts, DeliveryParts DEF DeliveryInv
<1>a. (\A c \in Clients, p \in Pubs :
         /\ InBuffer(c, p) \/ p \in written[c] => c \in pub[p].targets \ pub[p].left
         /\ InBuffer(c, p) => p \notin written[c]
         /\ Once(c, p))' => DeliveredOnce'
  BY DEF DeliveredOnce, Once
<1>1. CASE UNCHANGED <<send, written, pub>>
  BY <1>1 DEF DeliveryInv, DeliveredOnce, Addressed, InBuffer
<1>2. ASSUME NEW c \in Clients, NEW f \in Frames \ Pubs, Offer(c, f), UNCHANGED <<written, pub>>
      PROVE  DeliveryInv'
  <2>1. \A d \in Clients, p \in Pubs :
          (InBuffer(d, p)' => InBuffer(d, p)) /\ (Once(d, p) => Once(d, p)')
    BY <1>0, <1>2, OfferAdds
  <2> QED BY <1>0, <1>2, <1>a, <2>1 DEF DeliveryInv, Addressed
<1>3. ASSUME NEW q \in Pubs, NEW c \in Clients, OfferNext(q, c)
      PROVE  DeliveryInv'
  <2>1. /\ q \in Frames /\ Offer(c, q) /\ written' = written /\ c \in pub[q].left
        /\ pub[q].pc = "offer"
    BY <1>3 DEF OfferNext, Frames
  <2>2. /\ \A p \in Pubs \ {q} : pub'[p] = pub[p]
        /\ pub'[q].left = pub[q].left \ {c} /\ pub'[q].targets = pub[q].targets
        /\ pub'[q].pc = "offer"
    BY <1>3, <2>1 DEF OfferNext, TypeOK
  <2>3. c \in pub[q].targets
    BY <1>0, <2>1 DEF Addressed
  <2>4. ~InBuffer(c, q) /\ q \notin written[c]
    BY <1>0, <2>1
  <2>5. \A d \in Clients, p \in Pubs :
          (InBuffer(d, p)' => InBuffer(d, p) \/ (d = c /\ p = q)) /\ Once(d, p)'
    BY <1>0, <2>1, <2>4, OfferAdds
  <2>6. \A d \in Clients, p \in Pubs :
          d \in pub[p].targets \ pub[p].left => d \in pub'[p].targets \ pub'[p].left
    BY <2>2
  <2>7. c \in pub'[q].targets \ pub'[q].left
    BY <2>2, <2>3
  <2>8. DeliveredOnce'
    BY <1>0, <1>a, <2>1, <2>4, <2>5, <2>6, <2>7
  <2>9. Addressed'
    BY <1>0, <2>2 DEF Addressed
  <2> QED BY <2>8, <2>9 DEF DeliveryInv
<1>4. ASSUME NEW c \in Clients, Write(c) \/ WriteFails(c)
      PROVE  DeliveryInv'
  <2>1. pub' = pub
    BY <1>4 DEF Write, WriteFails
  <2>2. \A d \in Clients, p \in Pubs :
          /\ Once(d, p)' /\ (InBuffer(d, p)' => InBuffer(d, p))
          /\ p \in written'[d] => p \in written[d] \/ (InBuffer(d, p) /\ ~InBuffer(d, p)')
    BY <1>0, <1>4, WriteTakes
  <2>3. DeliveredOnce'
    BY <1>0, <1>a, <2>1, <2>2
  <2> QED BY <1>0, <2>1, <2>3 DEF DeliveryInv, Addressed
<1>5. ASSUME NEW q \in Pubs, (\E ch \in Channels : Publish(q, ch)) \/ Targets(q)
      PROVE  DeliveryInv'
  <2>0. UNCHANGED <<send, written>> /\ pub[q].pc \in {"new", "snapshot"}
    BY <1>5 DEF Publish, Targets, wires
  <2>a. \A p \in Pubs \ {q} : pub'[p] = pub[p]
    BY <1>5 DEF Publish, Targets, TypeOK
  <2>1. /\ UNCHANGED <<send, written>> /\ pub[q].pc \in {"new", "snapshot"}
        /\ \A p \in Pubs \ {q} : pub'[p] = pub[p]
    BY <2>0, <2>a
  <2>2. \/ pub'[q].targets = pub[q].targets /\ pub'[q].left = pub[q].left /\ pub'[q].pc # "offer"
        \/ pub'[q].targets = pub'[q].left /\ pub'[q].pc = "offer"
    BY <1>5 DEF Publish, Targets, TypeOK
  <2>3. pub[q].targets = {}
    BY <1>0, <2>1 DEF Addressed
  <2>4. \A c \in Clients : ~InBuffer(c, q) /\ q \notin written[c]
    BY <1>0, <2>3
  <2>5. \A c \in Clients, p \in Pubs : (InBuffer(c, p)' <=> InBuffer(c, p)) /\ (Once(c, p)' <=> Once(c, p))
    BY <2>1 DEF InBuffer, Once
  <2>6. DeliveredOnce'
    BY <1>0, <1>a, <2>1, <2>4, <2>5
  <2>7. Addressed'
    BY <1>0, <2>1, <2>2, <2>3 DEF Addressed
  <2> QED BY <2>6, <2>7 DEF DeliveryInv
<1>6. ASSUME NEW c \in Clients,
             Hello(c) \/ (\E ch \in Channels : Deny(c, ch)) \/ ShutdownTell(c)
      PROVE  UNCHANGED <<written, pub>> /\ (UNCHANGED send \/ \E f \in Frames \ Pubs : Offer(c, f))
  <2>1. {"connected", "error", "closing"} \subseteq Frames \ Pubs
    BY FramesApart DEF Frames
  <2>2. CASE Hello(c) \/ \E ch \in Channels : Deny(c, ch)
    BY <2>1, <2>2 DEF Hello, Deny
  <2>3. CASE ShutdownTell(c)
    BY <2>1, <2>3 DEF ShutdownTell, Offer
  <2> QED BY <1>6, <2>2, <2>3
<1>7. \/ UNCHANGED <<send, written, pub>>
      \/ \E c \in Clients : Hello(c) \/ Write(c) \/ WriteFails(c) \/ ShutdownTell(c)
      \/ \E c \in Clients, ch \in Channels : Deny(c, ch)
      \/ \E p \in Pubs : (\E ch \in Channels : Publish(p, ch)) \/ Targets(p)
                          \/ \E c \in Clients : OfferNext(p, c)
  BY DEF Next, vars, wires, Reader, Request, RegisterClient, Subscribe, ReadError, SignalClose,
         UnregisterClient, WriterEnds, PingFails, PeerLeaves, Authorize, Unsubscribe,
         ShutdownBegin, Shutdown, ShutdownSnapshot, ShutdownReturn,
         ForceCloseRemaining, ForceClose, Reassign
<1> QED BY <1>1, <1>2, <1>3, <1>4, <1>5, <1>6, <1>7

LEMMA DeliveryStart == Init => DeliveryInv
<1> SUFFICES ASSUME Init PROVE DeliveryInv
  OBVIOUS
<1>1. \A c \in Clients : Len(send[c]) = 0 /\ written[c] = {}
  BY DEF Init
<1>2. DeliveredOnce
  BY <1>1 DEF DeliveredOnce, InBuffer
<1>3. Addressed
  BY DEF Init, Addressed
<1> QED BY <1>2, <1>3 DEF DeliveryInv

(* A publication reaches only clients that were subscribed to its channel  *)
(* when it was published, and each of them at most once, whatever the      *)
(* pumps, other publishers and the shutdown do in between.                 *)
THEOREM EachIsDeliveredOnce == Spec => []DeliveredOnce
<1>2. DeliveryInv => DeliveredOnce
  BY DEF DeliveryInv
<1> QED BY <1>2, DeliveryStart, DeliveryStep, TypeCorrect, PTL DEF Spec

-----------------------------------------------------------------------------
(* The hub implements the broadcast.                                       *)

Posted == {p \in Pubs : pub[p].pc = "offer"}
Debts  == [p \in Pubs |-> Owed(p)]

LEMMA OwedIs ==
  ASSUME NEW p \in Pubs
  PROVE  Owed(p) = pub[p].left \cup {c \in Clients : InBuffer(c, p)}
BY DEF Owed, InBuffer

LEMMA MailInit == Init => Mail!Init
<1> SUFFICES ASSUME Init PROVE Mail!Init
  OBVIOUS
<1>1. \A p \in Pubs : pub[p].pc = "new" /\ Owed(p) = {}
  BY DEF Init, Owed
<1>2. {p \in Pubs : pub[p].pc = "offer"} = {}
  BY <1>1
<1>3. [p \in Pubs |-> Owed(p)] = [p \in Pubs |-> {}]
  BY <1>1
<1>4. written = [c \in Clients |-> {}] /\ Cut = {}
  BY DEF Init, Cut
<1> QED BY <1>2, <1>3, <1>4 DEF Mail!Init

(* Who is owed what, and what the peers have, stays as it is: at most a    *)
(* client is told to close.                                                *)
LEMMA MailStays ==
  ASSUME Posted' = Posted, Debts' = Debts, written' = written,
         Cut' = Cut \/ \E c \in Clients : Cut' = Cut \cup {c}
  PROVE  [Mail!Next]_(Mail!mail)
<1>1. CASE Cut' = Cut
  BY <1>1 DEF Mail!mail, Posted, Debts
<1>2. ASSUME NEW c \in Clients, Cut' = Cut \cup {c} PROVE Mail!CutOff(c)
  BY <1>2 DEF Mail!CutOff, Posted, Debts
<1> QED BY <1>1, <1>2 DEF Mail!Next

(* An offer of anything but a publication.                                 *)
LEMMA OfferStays ==
  ASSUME WiresOK, NEW c \in Clients, NEW f \in Frames \ Pubs, Offer(c, f),
         UNCHANGED <<pub, written, gone>>
  PROVE  [Mail!Next]_(Mail!mail)
<1>1. \A d \in Clients, p \in Pubs : InBuffer(d, p)' <=> InBuffer(d, p)
  BY OfferAdds, OfferAccounts
<1>2. \A p \in Pubs : Owed(p)' = Owed(p)
  <2> SUFFICES ASSUME NEW p \in Pubs PROVE Owed(p)' = Owed(p)
    OBVIOUS
  <2>1. Owed(p)' = pub[p].left \cup {d \in Clients : InBuffer(d, p)'}
    BY DEF Owed, InBuffer
  <2> QED BY <1>1, <2>1, OwedIs
<1>3. Posted' = Posted /\ Debts' = Debts
  BY <1>2 DEF Posted, Debts
<1>4. Cut' = Cut \/ Cut' = Cut \cup {c}
  BY DEF Offer, Cut
<1> QED BY <1>3, <1>4, MailStays

LEMMA OfferNextMail ==
  ASSUME TypeOK, DeliveryInv, NEW q \in Pubs, NEW c \in Clients, OfferNext(q, c)
  PROVE  [Mail!Next]_(Mail!mail)
<1>1. /\ WiresOK /\ q \in Frames /\ Offer(c, q) /\ written' = written /\ gone' = gone /\ c \in pub[q].left
      /\ pub[q].pc = "offer"
  BY TypeParts DEF OfferNext, Frames
<1>2. /\ \A p \in Pubs \ {q} : pub'[p] = pub[p]
      /\ pub'[q].left = pub[q].left \ {c} /\ pub'[q].pc = "offer"
  BY <1>1 DEF OfferNext, TypeOK
<1>3. \A d \in Clients, p \in Pubs : d # c \/ p # q => (InBuffer(d, p)' <=> InBuffer(d, p))
  BY <1>1, OfferAdds, OfferAccounts
<1>4. ~InBuffer(c, q)
  BY <1>1, DeliveryParts DEF DeliveryInv
<1>5. Posted' = Posted
  BY <1>1, <1>2 DEF Posted
<1>6. \A p \in Pubs : Owed(p)' = pub'[p].left \cup {d \in Clients : InBuffer(d, p)'}
  BY DEF Owed, InBuffer
<1>7. \A p \in Pubs \ {q} : Owed(p)' = Owed(p)
  BY <1>2, <1>3, <1>6, OwedIs
<1>8. CASE InBuffer(c, q)'
  <2>0. /\ Owed(q) = pub[q].left \cup {d \in Clients : InBuffer(d, q)}
        /\ Owed(q)' = (pub[q].left \ {c}) \cup {d \in Clients : InBuffer(d, q)'}
    BY <1>2, <1>6, OwedIs
  <2>a. \A d \in Clients \ {c} : InBuffer(d, q)' <=> InBuffer(d, q)
    BY <1>3
  <2>1. Owed(q)' = Owed(q)
    BY <1>1, <1>8, <2>0, <2>a
  <2>2. Debts' = Debts
    BY <1>7, <2>1 DEF Debts
  <2>3. Cut' = Cut \/ Cut' = Cut \cup {c}
    BY <1>1 DEF Offer, Cut
  <2> QED BY <1>1, <1>5, <2>2, <2>3, MailStays
<1>9. CASE ~InBuffer(c, q)'
  <2>1. Owed(q)' = Owed(q) \ {c} /\ c \in Owed(q)
    BY <1>1, <1>2, <1>3, <1>4, <1>6, <1>9, OwedIs
  <2>2. Debts' = [Debts EXCEPT ![q] = @ \ {c}] /\ c \in Debts[q]
    BY <1>7, <2>1 DEF Debts
  <2>3. c \in closed'
    BY <1>1, <1>9, OfferAccounts
  <2>4. Cut' = Cut \cup {c}
    BY <1>1, <2>3 DEF Offer, Cut
  <2>5. Mail!Lose(c, q)
    BY <1>1, <1>5, <2>2, <2>4 DEF Mail!Lose, Posted, Debts
  <2> QED BY <2>5 DEF Mail!Next
<1> QED BY <1>8, <1>9

(* The writer takes a frame out of a buffer: nobody else waits for it      *)
(* there, and it waits there no more.                                      *)
LEMMA TakeOwed ==
  ASSUME TypeOK, DeliveryInv, NEW c \in Clients, NEW f, f = Head(send[c]),
         send[c] # <<>>, send' = [send EXCEPT ![c] = Tail(@)], pub' = pub
  PROVE  /\ f \in Pubs => Debts' = [Debts EXCEPT ![f] = @ \ {c}] /\ c \in Debts[f]
         /\ f \notin Pubs => Debts' = Debts
         /\ Posted' = Posted
<1>0. /\ send[c] \in Seq(Frames) /\ send[c] # <<>> /\ pub' = pub
      /\ send' = [send EXCEPT ![c] = Tail(@)]
  BY DEF TypeOK
<1>1. /\ Len(send[c]) \in Nat \ {0} /\ f = send[c][1] /\ 1 \in 1..Len(send[c])
      /\ send'[c] = Tail(send[c]) /\ Len(send'[c]) = Len(send[c]) - 1
      /\ \A i \in 1..Len(send'[c]) : send'[c][i] = send[c][i + 1]
      /\ \A d \in Clients \ {c} : send'[d] = send[d]
  BY <1>0 DEF TypeOK
<1>2. \A d \in Clients, p \in Pubs : d # c \/ p # f => (InBuffer(d, p)' <=> InBuffer(d, p))
  <2> SUFFICES ASSUME NEW d \in Clients, NEW p \in Pubs, d # c \/ p # f
               PROVE  InBuffer(d, p)' <=> InBuffer(d, p)
    OBVIOUS
  <2>1. CASE d # c
    BY <1>1, <2>1 DEF InBuffer
  <2>2. CASE d = c /\ p # f
    <3>1. \A i \in 1..Len(send'[c]) : i + 1 \in 1..Len(send[c])
      BY <1>1
    <3>2. \A i \in 1..Len(send[c]) : i # 1 => i - 1 \in 1..Len(send'[c]) /\ (i - 1) + 1 = i
      BY <1>1
    <3>3. ASSUME InBuffer(c, p) PROVE InBuffer(c, p)'
      <4>1. PICK i \in 1..Len(send[c]) : send[c][i] = p
        BY <3>3 DEF InBuffer
      <4>2. i - 1 \in 1..Len(send'[c]) /\ send'[c][i - 1] = p
        BY <1>1, <2>2, <3>2, <4>1
      <4> QED BY <4>2 DEF InBuffer
    <3>4. InBuffer(c, p)' => InBuffer(c, p)
      BY <1>1, <3>1 DEF InBuffer
    <3> QED BY <2>2, <3>3, <3>4
  <2> QED BY <2>1, <2>2
<1>3. \A p \in Pubs : Owed(p)' = pub[p].left \cup {d \in Clients : InBuffer(d, p)'}
  BY <1>0 DEF Owed, InBuffer
<1>4. \A p \in Pubs \ {f} : Owed(p)' = Owed(p)
  BY <1>2, <1>3, OwedIs
<1>5. Posted' = Posted
  BY <1>0 DEF Posted
<1>6. CASE f \in Pubs
  <2>1. /\ InBuffer(c, f) /\ c \notin pub[f].left /\ Once(c, f)
    BY <1>1, <1>6, DeliveryParts DEF InBuffer, DeliveryInv
  <2>2. ~InBuffer(c, f)'
    <3>1. \A i \in 1..Len(send'[c]) : i + 1 \in 1..Len(send[c]) /\ i + 1 # 1
      BY <1>1
    <3> QED BY <1>1, <2>1, <3>1 DEF InBuffer, Once
  <2>3. Owed(f)' = Owed(f) \ {c} /\ c \in Owed(f)
    BY <1>2, <1>3, <1>6, <2>1, <2>2, OwedIs
  <2>4. Debts' = [Debts EXCEPT ![f] = @ \ {c}] /\ c \in Debts[f]
    BY <1>4, <1>6, <2>3 DEF Debts
  <2> QED BY <1>5, <1>6, <2>4
<1>7. CASE f \notin Pubs
  <2>2. Debts' = Debts
    BY <1>4, <1>7 DEF Debts
  <2> QED BY <1>5, <1>7, <2>2
<1> QED BY <1>6, <1>7

LEMMA WriteMail ==
  ASSUME TypeOK, DeliveryInv, NEW c \in Clients, Write(c) \/ WriteFails(c)
  PROVE  [Mail!Next]_(Mail!mail)
<1>a. PICK f : f = Head(send[c])
  OBVIOUS
<1>1. /\ f \in Pubs => Debts' = [Debts EXCEPT ![f] = @ \ {c}] /\ c \in Debts[f]
      /\ f \notin Pubs => Debts' = Debts
      /\ Posted' = Posted
  BY <1>a, TakeOwed DEF Write, WriteFails
<1>2. CASE Write(c)
  <2>1. Cut' = Cut /\ written' = [written EXCEPT ![c] = @ \cup ({f} \cap Pubs)]
    BY <1>a, <1>2 DEF Write, Cut
  <2>2. CASE f \in Pubs
    <3>1. written' = [written EXCEPT ![c] = @ \cup {f}]
      BY <2>1, <2>2
    <3>2. Mail!Receive(c, f)
      BY <1>1, <2>1, <2>2, <3>1 DEF Mail!Receive, Posted, Debts
    <3> QED BY <2>2, <3>2 DEF Mail!Next
  <2>3. CASE f \notin Pubs
    <3>1. written' = written
      BY <2>1, <2>3 DEF TypeOK
    <3> QED BY <1>1, <2>1, <2>3, <3>1, MailStays
  <2> QED BY <2>2, <2>3
<1>3. CASE WriteFails(c)
  <2>1. Cut' = Cut \cup {c} /\ written' = written
    BY <1>3 DEF WriteFails, Cut
  <2>2. CASE f \in Pubs
    <3>1. Mail!Lose(c, f)
      BY <1>1, <2>1, <2>2 DEF Mail!Lose, Posted, Debts
    <3> QED BY <2>2, <3>1 DEF Mail!Next
  <2>3. CASE f \notin Pubs
    BY <1>1, <2>1, <2>3, MailStays
  <2> QED BY <2>2, <2>3
<1> QED BY <1>2, <1>3

LEMMA PublishMail ==
  ASSUME TypeOK, DeliveryInv, NEW q \in Pubs, (\E ch \in Channels : Publish(q, ch)) \/ Targets(q)
  PROVE  [Mail!Next]_(Mail!mail)
<1>1. UNCHANGED <<send, written, Cut>> /\ pub[q].pc \in {"new", "snapshot"}
  BY DEF Publish, Targets, wires, Cut
<1>2. \A p \in Pubs \ {q} : pub'[p] = pub[p]
  BY DEF Publish, Targets, TypeOK
<1>3. /\ \A p \in Pubs : Owed(p)' = pub'[p].left \cup {d \in Clients : InBuffer(d, p)}
      /\ \A p \in Pubs \ {q} : Owed(p)' = Owed(p)
  BY <1>1, <1>2, OwedIs DEF Owed, InBuffer
<1>4. CASE \E ch \in Channels : Publish(q, ch)
  <2>0. PICK pc \in {"done", "snapshot"}, ch \in Channels :
          pub' = [pub EXCEPT ![q].pc = pc, ![q].channel = ch]
    <3>1. PICK ch \in Channels : Publish(q, ch)
      BY <1>4
    <3>2. CASE shutting
      BY <3>1, <3>2 DEF Publish
    <3>3. CASE ~shutting
      BY <3>1, <3>3 DEF Publish
    <3> QED BY <3>2, <3>3
  <2>1. pub'[q].pc # "offer" /\ pub'[q].left = pub[q].left
    BY <2>0 DEF TypeOK
  <2>2. Owed(q)' = Owed(q)
    BY <1>3, <2>1, OwedIs
  <2>3. Debts' = Debts /\ Posted' = Posted
    BY <1>1, <1>2, <1>3, <2>1, <2>2 DEF Debts, Posted
  <2> QED BY <1>1, <2>3, MailStays
<1>5. CASE Targets(q)
  <2>1. PICK S \in SUBSET Clients : pub'[q].left = S /\ pub'[q].pc = "offer"
    BY <1>5 DEF Targets, TypeOK
  <2>2. \A d \in Clients : ~InBuffer(d, q)
    BY <1>1, DeliveryParts DEF DeliveryInv, Addressed
  <2>3. Owed(q)' = S
    BY <1>3, <2>1, <2>2
  <2>4. Debts' = [Debts EXCEPT ![q] = S]
    BY <1>3, <2>3 DEF Debts
  <2>5. q \notin Posted /\ Posted' = Posted \cup {q}
    BY <1>1, <1>2, <2>1 DEF Posted
  <2>6. Mail!Post(q, S)
    BY <1>1, <2>4, <2>5 DEF Mail!Post, Posted, Debts
  <2> QED BY <2>6 DEF Mail!Next
<1> QED BY <1>4, <1>5

LEMMA MailStep == TypeOK /\ DeliveryInv /\ [Next]_vars => [Mail!Next]_(Mail!mail)
<1> SUFFICES ASSUME TypeOK, DeliveryInv, [Next]_vars PROVE [Mail!Next]_(Mail!mail)
  OBVIOUS
<1>0. WiresOK
  BY TypeParts
<1>1. ASSUME UNCHANGED <<send, written, pub>>,
             Cut' = Cut \/ \E c \in Clients : Cut' = Cut \cup {c}
      PROVE  [Mail!Next]_(Mail!mail)
  <2>1. Posted' = Posted /\ Debts' = Debts
    BY <1>1 DEF Posted, Debts, Owed
  <2> QED BY <1>1, <2>1, MailStays
<1>2. ASSUME NEW c \in Clients,
             \/ SignalClose(c) \/ ForceClose(c) \/ WriterEnds(c) \/ PingFails(c) \/ PeerLeaves(c)
      PROVE  [Mail!Next]_(Mail!mail)
  <2>1. UNCHANGED <<send, written, pub>> /\ Cut' = Cut \cup {c}
    BY <1>2 DEF SignalClose, ForceClose, WriterEnds, PingFails, PeerLeaves, Cut
  <2> QED BY <1>1, <2>1
<1>3. ASSUME NEW c \in Clients,
             Hello(c) \/ (\E ch \in Channels : Deny(c, ch)) \/ ShutdownTell(c)
      PROVE  [Mail!Next]_(Mail!mail)
  <2>1. {"connected", "error", "closing"} \subseteq Frames \ Pubs
    BY FramesApart DEF Frames
  <2>2. CASE Hello(c) \/ \E ch \in Channels : Deny(c, ch)
    BY <1>0, <2>1, <2>2, OfferStays DEF Hello, Deny
  <2>3. CASE ShutdownTell(c)
    <3>1. UNCHANGED <<written, pub, Cut, gone>> /\ (UNCHANGED send \/ Offer(c, "closing"))
      BY <2>3 DEF ShutdownTell, Offer, Cut
    <3> QED BY <1>0, <1>1, <2>1, <3>1, OfferStays
  <2> QED BY <1>3, <2>2, <2>3
<1>4. ASSUME NEW q \in Pubs, NEW c \in Clients, OfferNext(q, c)
      PROVE  [Mail!Next]_(Mail!mail)
  BY <1>4, OfferNextMail
<1>5. ASSUME NEW c \in Clients, Write(c) \/ WriteFails(c)
      PROVE  [Mail!Next]_(Mail!mail)
  BY <1>5, WriteMail
<1>6. ASSUME NEW q \in Pubs, (\E ch \in Channels : Publish(q, ch)) \/ Targets(q)
      PROVE  [Mail!Next]_(Mail!mail)
  BY <1>6, PublishMail
<1>7. \/ UNCHANGED <<send, written, pub, Cut>>
      \/ \E c \in Clients : \/ SignalClose(c) \/ ForceClose(c) \/ WriterEnds(c) \/ PingFails(c)
                            \/ PeerLeaves(c) \/ Hello(c) \/ Write(c) \/ WriteFails(c)
                            \/ ShutdownTell(c)
      \/ \E c \in Clients, ch \in Channels : Deny(c, ch)
      \/ \E p \in Pubs : (\E ch \in Channels : Publish(p, ch)) \/ Targets(p)
                          \/ \E c \in Clients : OfferNext(p, c)
  BY DEF Next, vars, wires, Reader, Request, RegisterClient, Subscribe, ReadError,
         UnregisterClient, Authorize, Unsubscribe, Cut,
         ShutdownBegin, Shutdown, ShutdownSnapshot, ShutdownReturn, ForceCloseRemaining, Reassign
<1> QED BY <1>1, <1>2, <1>3, <1>4, <1>5, <1>6, <1>7

(* Whatever pumps, publishers, agents and the shutdown do in between, the  *)
(* hub is a broadcast: a publication comes once to each of those who were  *)
(* subscribed when it was made, to nobody else, and is lost only for those *)
(* who are being disconnected.                                             *)
THEOREM ImplementsBroadcast == Spec => BroadcastImplemented
<1>1. Init => DeliveryInv
  BY DeliveryStart
<1> QED BY <1>1, MailInit, MailStep, DeliveryStep, TypeInit, TypeStep, PTL
        DEF Spec, BroadcastImplemented, Mail!Spec

-----------------------------------------------------------------------------
Live == {"hello", "read", "subscribe", "close", "teardown"}

(* A step of one client's goroutines leaves those of the others alone.     *)
LEMMA PumpsStep == TypeOK /\ Pumps /\ [Next]_vars => Pumps'
<1> SUFFICES ASSUME TypeOK, Pumps, [Next]_vars PROVE Pumps'
  OBVIOUS
<1> DEFINE Pump(c) ==
      /\ c \in clients <=> handle[c].pc \in Live
      /\ c \in gone \/ handle[c].pc \in {"new", "refused", "accept", "hello", "read", "subscribe"}
      /\ c \in gone \/ (handle[c].pc \in {"read", "subscribe"} => writer[c] = "run")
<1>0. (\A c \in Clients : Pump(c)) /\ ((\A c \in Clients : Pump(c))' => Pumps')
  BY DEF Pumps, Live
<1>1. CASE UNCHANGED <<clients, handle, writer>> /\ gone \subseteq gone'
  BY <1>1 DEF Pumps
<1>2. ASSUME NEW c \in Clients,
             \A d \in Clients \ {c} : /\ handle'[d] = handle[d] /\ writer'[d] = writer[d]
                                      /\ (d \in clients' <=> d \in clients)
                                      /\ (d \in gone => d \in gone'),
             Pump(c)'
      PROVE  Pumps'
  BY <1>0, <1>2
<1>3. ASSUME NEW c \in Clients, Request(c) \/ ReadError(c) \/ SignalClose(c)
      PROVE  Pumps'
  <2>1. PICK pc \in {"refused", "accept", "close", "teardown"} :
          /\ Goto(c, pc) /\ UNCHANGED <<clients, writer, gone>>
          /\ pc \in {"refused", "accept"} <=> handle[c].pc = "new"
          /\ c \in gone \/ pc \in {"refused", "accept"}
    BY <1>0, <1>3 DEF Request, ReadError, SignalClose, maps, wires
  <2>2. handle'[c].pc = pc /\ \A d \in Clients \ {c} : handle'[d] = handle[d]
    BY <2>1 DEF Goto, TypeOK
  <2>3. handle[c].pc \in {"new", "read", "close"}
    BY <1>3 DEF Request, ReadError, SignalClose
  <2>4. Pump(c)'
    BY <1>0, <2>1, <2>2, <2>3 DEF Live
  <2> QED BY <1>2, <2>1, <2>2, <2>4
<1>4. ASSUME NEW c \in Clients, RegisterClient(c)
      PROVE  Pumps'
  <2>1. handle'[c].pc = "hello" /\ \A d \in Clients \ {c} : handle'[d] = handle[d]
    BY <1>4 DEF RegisterClient, Goto, TypeOK
  <2>2. clients' = clients \cup {c} /\ gone' = gone /\ writer' = writer
    BY <1>4 DEF RegisterClient, wires
  <2>3. Pump(c)'
    BY <2>1, <2>2 DEF Live
  <2> QED BY <1>2, <2>1, <2>2, <2>3
<1>5. ASSUME NEW c \in Clients, Hello(c)
      PROVE  Pumps'
  <2>1. handle[c].pc = "hello" /\ handle'[c].pc = "read" /\ \A d \in Clients \ {c} : handle'[d] = handle[d]
    BY <1>5 DEF Hello, Goto, TypeOK
  <2>2. /\ clients' = clients /\ gone' = gone /\ writer'[c] = "run"
        /\ \A d \in Clients \ {c} : writer'[d] = writer[d]
    BY <1>5 DEF Hello, TypeOK, maps
  <2>3. Pump(c)'
    BY <1>0, <2>1, <2>2 DEF Live
  <2> QED BY <1>2, <2>1, <2>2, <2>3
<1>6. ASSUME NEW c \in Clients, Subscribe(c) \/ \E ch \in Channels : Authorize(c, ch) \/ Deny(c, ch) \/ Unsubscribe(c, ch)
      PROVE  Pumps'
  <2>1. /\ handle[c].pc \in {"read", "subscribe"} /\ UNCHANGED <<clients, writer, gone>>
    BY <1>6 DEF Subscribe, Authorize, Deny, Unsubscribe, Reads, maps, wires
  <2>2. /\ \A d \in Clients \ {c} : handle'[d] = handle[d]
        /\ handle'[c].pc \in {"read", "subscribe"}
    BY <1>6, <2>1 DEF Subscribe, BackToRead, Authorize, Deny, Unsubscribe, Reads, TypeOK
  <2>3. Pump(c)'
    BY <1>0, <2>1, <2>2 DEF Live
  <2> QED BY <1>2, <2>1, <2>2, <2>3
<1>7. ASSUME NEW c \in Clients, UnregisterClient(c)
      PROVE  Pumps'
  <2>1. handle[c].pc = "teardown" /\ handle'[c].pc = "done" /\ \A d \in Clients \ {c} : handle'[d] = handle[d]
    BY <1>7 DEF UnregisterClient, Goto, TypeOK
  <2>2. clients' = clients \ {c} /\ UNCHANGED <<gone, writer>>
    BY <1>7 DEF UnregisterClient, wires
  <2>3. Pump(c)'
    BY <1>0, <2>1, <2>2 DEF Live
  <2> QED BY <1>2, <2>1, <2>2, <2>3
<1>8. ASSUME NEW c \in Clients, WriterEnds(c) \/ WriteFails(c) \/ PingFails(c)
      PROVE  Pumps'
  <2>1. /\ UNCHANGED <<clients, handle>> /\ gone' = gone \cup {c}
        /\ \A d \in Clients \ {c} : writer'[d] = writer[d]
    BY <1>8 DEF WriterEnds, WriteFails, PingFails, maps, TypeOK
  <2>2. Pump(c)'
    BY <1>0, <2>1
  <2> QED BY <1>2, <2>1, <2>2
<1>9. \/ UNCHANGED <<clients, handle, writer>> /\ gone \subseteq gone'
      \/ \E c \in Clients : Request(c) \/ Reader(c) \/ WriterEnds(c) \/ WriteFails(c) \/ PingFails(c)
      \/ \E c \in Clients, ch \in Channels : Authorize(c, ch) \/ Deny(c, ch) \/ Unsubscribe(c, ch)
  BY DEF Next, vars, maps, wires, Write, PeerLeaves, Publish, Targets, OfferNext,
         ShutdownBegin, Shutdown, ShutdownSnapshot, ShutdownReturn, ShutdownTell,
         ForceCloseRemaining, ForceClose, Reassign
<1> QED BY <1>1, <1>3, <1>4, <1>5, <1>6, <1>7, <1>8, <1>9 DEF Reader

(* A client that was told to close, for being slow or by the shutdown, or  *)
(* whose connection was closed, is never forgotten: while it is registered *)
(* or its connection is open, one of its own goroutines can take the next  *)
(* step that ends it.                                                      *)
THEOREM ClosedAreAttended == Spec => []ClosedIsAttended
<1>1. Init => Pumps
  BY DEF Init, Pumps, Idle
<1>2. TypeOK /\ Pumps => ClosedIsAttended
  BY DEF Pumps, ClosedIsAttended, TypeOK, Open, Cut
<1> QED BY <1>1, <1>2, PumpsStep, TypeCorrect, PTL DEF Spec
=============================================================================
