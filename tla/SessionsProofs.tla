--------------------------- MODULE SessionsProofs ---------------------------
(***************************************************************************)
(* The session manager for any number of connections, goroutines and       *)
(* command handlers: its type, the exactness of its wait group, the two    *)
(* consequences, single publication of events and a clean shutdown, and    *)
(* that no connection stays marked as connecting with nobody at work.      *)
(***************************************************************************)
EXTENDS Sessions, FiniteSetTheorems, TLAPS

(* What the program counters say about the other locals and the maps, calls, ending, Locking.      *)
Shape ==
  /\ \A g \in Gos : /\ go[g].pc = "detach" <=> go[g].victim # None
                    /\ go[g].pc # "new" => go[g].conn \in Conns
  /\ \A h \in Handlers : /\ cmd[h].pc # "idle" => cmd[h].conn \in Conns
                         /\ cmd[h].pc = "logout" => cmd[h].sess \in Gos
  /\ \A c \in Conns : sessions[c] # None =>
       /\ go[sessions[c]].conn = c
       /\ go[sessions[c]].pc \notin {"new", "device", "set", "replace"}
  /\ \A g \in attached : go[g].pc \notin {"new", "device"}
  /\ evicted \cup receiving \subseteq attached

IInv == TypeOK /\ Shape /\ WaitGroupExact

-----------------------------------------------------------------------------
(* Counting.                                                                *)

LEMMA GrowByOne ==
  ASSUME NEW S, NEW T, NEW x, IsFiniteSet(S), x \notin S, T = S \cup {x}
  PROVE  Cardinality(T) = Cardinality(S) + 1
BY FS_AddElement

LEMMA ShrinkByOne ==
  ASSUME NEW S, NEW T, NEW x, IsFiniteSet(S), x \in S, T = S \ {x}
  PROVE  Cardinality(T) = Cardinality(S) - 1
BY FS_RemoveElement

(* The counted sets are finite, so their sizes are natural numbers.         *)
LEMMA CountsFinite ==
  /\ IsFiniteSet(Alive) /\ IsFiniteSet(Registered) /\ IsFiniteSet(Deleting)
  /\ Cardinality(Alive) \in Nat
  /\ Cardinality(Registered) \in Nat
  /\ Cardinality(Deleting) \in Nat
<1>1. IsFiniteSet(Alive) /\ IsFiniteSet(Registered) /\ IsFiniteSet(Deleting)
  <2>1. Alive \subseteq Gos /\ Registered \subseteq Conns /\ Deleting \subseteq Gos
    BY DEF Alive, Registered, Deleting
  <2>2. QED
    BY <2>1, SessionsAssumption, FS_Subset
<1>2. QED
  BY <1>1, FS_CardinalityType

(* A step that moves none of the three sets keeps the count exact.          *)
LEMMA SameCount ==
  ASSUME WaitGroupExact, Alive' = Alive, Registered' = Registered,
         Deleting' = Deleting, wg' = wg
  PROVE  WaitGroupExact'
BY DEF WaitGroupExact

-----------------------------------------------------------------------------
LEMMA ShapeInit == Init => IInv
<1> SUFFICES ASSUME Init PROVE IInv
  OBVIOUS
<1>1. TypeOK /\ Shape
  BY SessionsAssumption DEF Init, TypeOK, Shape, Unstarted, NoCmd, Locals, GoPC, Link
<1>2. Alive = {} /\ Registered = {} /\ Deleting = {}
  BY DEF Init, Alive, Running, Unstarted, Registered, Deleting
<1>3. QED
  BY <1>1, <1>2, FS_EmptySet DEF IInv, WaitGroupExact, Init

-----------------------------------------------------------------------------
(* Steps of command handlers, clients and the shutdown leave the goroutines *)
(* and the registered sessions alone, except that Launch starts one.        *)

LEMMA QuietCount ==
  ASSUME WaitGroupExact, UNCHANGED <<sessions, go, wg>>
  PROVE  WaitGroupExact'
BY SameCount DEF Alive, Running, Registered, Deleting

LEMMA HandlerStep ==
  ASSUME IInv, NEW h \in Handlers, NEW c \in Conns,
         \/ StartGet(h, c) \/ TryStartConnect(h)
         \/ Stop(h, c) \/ LogoutGet(h, c) \/ LogoutKill(h)
  PROVE  IInv'
<1>1. UNCHANGED <<sessions, go, wg>>
  BY DEF StartGet, TryStartConnect, Stop, LogoutGet, LogoutKill, maps, calls, ending, Locking
<1>2. TypeOK' /\ Shape'
  <2>2. CASE StartGet(h, c)
    <3>1. cmd' = [cmd EXCEPT ![h] = [pc |-> "try", conn |-> c, sess |-> None]]
      BY <2>2 DEF StartGet, Handle
    <3>2. TypeOK'
      BY <1>1, <2>2, <3>1, SessionsAssumption DEF IInv, TypeOK, StartGet, maps, calls, ending, Locking
    <3>3. \A k \in Handlers : cmd'[k] = IF k = h THEN [pc |-> "try", conn |-> c, sess |-> None] ELSE cmd[k]
      BY <3>1 DEF IInv, TypeOK
    <3>4. Shape'
      BY <1>1, <2>2, <3>3 DEF IInv, Shape, StartGet, calls
    <3>5. QED
      BY <3>2, <3>4
  <2>3. CASE TryStartConnect(h)
    BY SMTT(30), <1>1, <2>3, SessionsAssumption DEF IInv, TypeOK, Shape, TryStartConnect, maps, calls, ending, Locking, Handle, NoCmd, SendKill, MayConnect, Link
  <2>4. CASE Stop(h, c)
    BY <1>1, <2>4, SessionsAssumption DEF IInv, TypeOK, Shape, Stop, maps, calls, ending, Locking, Handle, NoCmd, SendKill, MayConnect, Link
  <2>5. CASE LogoutGet(h, c)
    BY <1>1, <2>5, SessionsAssumption DEF IInv, TypeOK, Shape, LogoutGet, maps, calls, ending, Locking, Handle, NoCmd, SendKill, MayConnect, Link
  <2>6. CASE LogoutKill(h)
    BY <1>1, <2>6, SessionsAssumption DEF IInv, TypeOK, Shape, LogoutKill, maps, calls, ending, Locking, Handle, NoCmd, SendKill, MayConnect, Link
  <2>7. QED
    BY <2>2, <2>3, <2>4, <2>5, <2>6
<1>3. QED
  BY <1>1, <1>2, QuietCount DEF IInv

LEMMA LaunchStep ==
  ASSUME IInv, NEW h \in Handlers, NEW g \in Gos, Launch(h, g)
  PROVE  IInv'
<1>a. /\ go[g] \in Locals /\ go[g].pc = "new" /\ go[g].victim = None /\ cmd[h].conn \in Conns
      /\ cmd \in [Handlers -> [pc : {"idle", "try", "launch", "logout"},
                              conn : Conns \cup {None}, sess : Gos \cup {None}]]
  BY DEF IInv, TypeOK, Shape, Launch
<1>b. \A d \in Gos : go'[d] = IF d = g THEN [go[g] EXCEPT !.pc = "device", !.conn = cmd[h].conn] ELSE go[d]
  BY DEF IInv, TypeOK, Launch
<1>c. \A k \in Handlers : cmd'[k] = IF k = h THEN NoCmd ELSE cmd[k]
  BY <1>a DEF Launch, Handle
<1>d. go' \in [Gos -> Locals] /\ cmd' \in [Handlers -> [pc : {"idle", "try", "launch", "logout"},
                              conn : Conns \cup {None}, sess : Gos \cup {None}]]
  BY <1>a DEF IInv, TypeOK, Launch, Handle, NoCmd, Locals, GoPC
<1>e. TypeOK'
  BY <1>d DEF IInv, TypeOK, Launch, maps, calls, ending, Locking
<1>f. Shape'
  <2>0. /\ sessions' = sessions /\ attached' = attached /\ UNCHANGED calls
        /\ g \notin attached
    BY <1>a DEF IInv, Shape, TypeOK, Launch, maps, calls, ending, Locking
  <2>1. \A d \in Gos : /\ go'[d].pc = "detach" <=> go'[d].victim # None
                       /\ go'[d].pc # "new" => go'[d].conn \in Conns
    <3>1. go'[g].pc = "device" /\ go'[g].victim = None /\ go'[g].conn \in Conns
      BY <1>a DEF IInv, TypeOK, Launch, Locals
    <3>2. \A d \in Gos : d # g => go'[d] = go[d]
      BY <1>b
    <3>3. QED
      BY <3>1, <3>2 DEF IInv, Shape
  <2>2. \A k \in Handlers : /\ cmd'[k].pc # "idle" => cmd'[k].conn \in Conns
                            /\ cmd'[k].pc = "logout" => cmd'[k].sess \in Gos
    BY <1>c DEF IInv, Shape, NoCmd
  <2>3. ASSUME NEW c \in Conns, sessions[c] # None
        PROVE  go'[sessions[c]].conn = c /\ go'[sessions[c]].pc \notin {"new", "device", "set", "replace"}
    <3>1. sessions[c] \in Gos /\ sessions[c] # g
      BY <1>a, <2>3 DEF IInv, TypeOK, Shape
    <3>2. QED
      BY <1>b, <2>3, <3>1 DEF IInv, Shape
  <2>4. \A d \in attached : go'[d].pc \notin {"new", "device"}
    BY <1>b, <2>0 DEF IInv, TypeOK, Shape
  <2>5. QED
    BY <2>0, <2>1, <2>2, <2>3, <2>4 DEF IInv, Shape, calls
<1>1. TypeOK' /\ Shape'
  BY <1>e, <1>f
<1>2. /\ g \notin Alive /\ Alive' = Alive \cup {g}
      /\ Registered' = Registered /\ Deleting' = Deleting
  BY DEF IInv, TypeOK, Locals, Shape, Launch, maps, calls, ending, Locking, Alive, Running, Registered, Deleting
<1>3. Cardinality(Alive') = Cardinality(Alive) + 1
  BY <1>2, CountsFinite, GrowByOne
<1>4. wg' = wg + 1
  BY DEF Launch
<1>5. QED
  BY <1>1, <1>2, <1>3, <1>4, CountsFinite DEF IInv, WaitGroupExact

LEMMA ClientStep ==
  ASSUME IInv, NEW g \in Gos, Events(g) \/ Handling(g)
  PROVE  IInv'
<1>1. UNCHANGED <<sessions, go, wg>>
  BY DEF Events, Handling, Drop, Redial, Evicted, EvictedKill, Receive, ReceiveGet, maps, calls, ending, Locking
<1>2. TypeOK' /\ Shape'
  <2>1. CASE Drop(g)
    BY <1>1, <2>1 DEF IInv, TypeOK, Shape, Drop, maps, calls, ending, Link
  <2>2. CASE Redial(g)
    BY <1>1, <2>2 DEF IInv, TypeOK, Shape, Redial, maps, calls, ending, Link
  <2>3. CASE Evicted(g)
    BY <1>1, <2>3 DEF IInv, TypeOK, Shape, Evicted, maps, calls, ending, Link
  <2>4. CASE EvictedKill(g)
    BY <1>1, <2>4, SessionsAssumption DEF IInv, TypeOK, Shape, EvictedKill, maps, calls, ending, Locking, SendKill
  <2>5. CASE Receive(g)
    BY <1>1, <2>5 DEF IInv, TypeOK, Shape, Receive, maps, calls, ending
  <2>6. CASE ReceiveGet(g)
    BY <1>1, <2>6 DEF IInv, TypeOK, Shape, ReceiveGet, maps, calls, ending, Locking
  <2>7. QED
    BY <2>1, <2>2, <2>3, <2>4, <2>5, <2>6 DEF Events, Handling
<1>3. QED
  BY <1>1, <1>2, QuietCount DEF IInv

LEMMA ShutdownStep ==
  ASSUME IInv, ShutdownBegin \/ Shutdown
  PROVE  IInv'
<1>1. UNCHANGED <<sessions, go, wg>>
  BY DEF ShutdownBegin, Shutdown, ShutdownCancel, ShutdownOne, ShutdownWait, ShutdownReturn, maps, calls, ending, Locking
<1>2. TypeOK' /\ Shape'
  <2>1. CASE ShutdownBegin
    <3>1. Shape'
      BY <1>1, <2>1 DEF IInv, Shape, ShutdownBegin, calls
    <3>2. /\ {sessions[c] : c \in Conns} \ {None} \subseteq Gos
          /\ {kills[c] : c \in Conns} \ {None} \subseteq Gos
      BY DEF IInv, TypeOK
    <3>3. TypeOK'
      BY <1>1, <2>1, <3>2 DEF IInv, TypeOK, ShutdownBegin, calls, Locking
    <3>4. QED
      BY <3>1, <3>3
  <2>2. ASSUME NEW g \in Gos, ShutdownCancel(g) PROVE TypeOK' /\ Shape'
    BY <1>1, <2>2 DEF IInv, TypeOK, Shape, ShutdownCancel, maps, calls
  <2>4. ASSUME NEW g \in Gos, ShutdownOne(g) PROVE TypeOK' /\ Shape'
    BY <1>1, <2>4 DEF IInv, TypeOK, Shape, ShutdownOne, Busy, maps, calls, Link
  <2>3. CASE ShutdownWait \/ ShutdownReturn
    BY <1>1, <2>3 DEF IInv, TypeOK, Shape, ShutdownWait, ShutdownReturn, maps, calls, ending, Locking
  <2>5. QED
    BY <2>1, <2>2, <2>3, <2>4 DEF Shutdown
<1>3. QED
  BY <1>1, <1>2, QuietCount DEF IInv

-----------------------------------------------------------------------------
(* Steps of a session goroutine.                                            *)

(* A goroutine that goes on running is counted as before.                   *)
LEMMA Advance ==
  ASSUME IInv, NEW g \in Gos, Running(g), go[g].pc # "detach",
         NEW pc \in GoPC \ {"new", "device", "detach", "done"},
         pc \in {"set", "replace"} => go[g].pc \in {"device", "set"},
         NEW chan \in Gos \cup {None},
         go' = [go EXCEPT ![g].pc = pc, ![g].chan = chan],
         UNCHANGED <<sessions, cmd, wg, calls>>, attached' \in {attached, attached \cup {g}}
  PROVE  Shape' /\ WaitGroupExact' /\ go' \in [Gos -> Locals]
<1>1. go \in [Gos -> Locals] /\ go[g] \in Locals
  BY DEF IInv, TypeOK
<1>2. \A d \in Gos : /\ go'[d].conn = go[d].conn /\ go'[d].victim = go[d].victim
                     /\ go'[d].pc = IF d = g THEN pc ELSE go[d].pc
  BY <1>1 DEF Locals
<1>3. go' \in [Gos -> Locals]
  BY <1>1 DEF Locals
<1>4. Alive' = Alive /\ Registered' = Registered /\ Deleting' = Deleting
  BY ZenonT(40), <1>2 DEF Alive, Running, Registered, Deleting
<1>5. Shape'
  <2>1. \A d \in Gos : /\ go'[d].pc = "detach" <=> go'[d].victim # None
                       /\ go'[d].pc # "new" => go'[d].conn \in Conns
    <3>1. ASSUME NEW d \in Gos, d # g
          PROVE  /\ go'[d].pc = "detach" <=> go'[d].victim # None
                 /\ go'[d].pc # "new" => go'[d].conn \in Conns
      <4>1. /\ go[d].pc = "detach" <=> go[d].victim # None
            /\ go[d].pc # "new" => go[d].conn \in Conns
        BY DEF IInv, Shape
      <4>2. go'[d].pc = go[d].pc /\ go'[d].victim = go[d].victim /\ go'[d].conn = go[d].conn
        BY <1>2, <3>1
      <4>3. QED
        BY <4>1, <4>2
    <3>2. go'[g].pc = pc /\ go'[g].victim = None /\ go'[g].conn \in Conns
      <4>1. go[g].victim = None /\ go[g].conn \in Conns
        BY DEF IInv, Shape, Running
      <4>2. QED
        BY <1>2, <4>1
    <3>3. QED
      BY <3>1, <3>2
  <2>2. \A c \in Conns : sessions'[c] # None =>
          /\ go'[sessions'[c]].conn = c
          /\ go'[sessions'[c]].pc \notin {"new", "device", "set", "replace"}
    BY <1>2 DEF IInv, TypeOK, Shape
  <2>3. \A d \in attached' : go'[d].pc \notin {"new", "device"}
    BY <1>2 DEF IInv, TypeOK, Shape
  <2>4. evicted' \cup receiving' \subseteq attached'
    BY DEF IInv, Shape, calls
  <2>5. QED
    BY <2>1, <2>2, <2>3, <2>4 DEF IInv, Shape
<1>6. QED
  BY <1>3, <1>4, <1>5, SameCount DEF IInv

LEMMA Proceed ==
  ASSUME IInv, NEW g \in Gos, Running(g), go[g].pc # "detach",
         NEW pc \in GoPC \ {"new", "device", "detach", "done"},
         pc \in {"set", "replace"} => go[g].pc \in {"device", "set"},
         Run(g, pc), UNCHANGED <<sessions, cmd, wg, calls>>, attached' \in {attached, attached \cup {g}}
  PROVE  Shape' /\ WaitGroupExact' /\ go' \in [Gos -> Locals]
<1>1. go[g].chan \in Gos \cup {None} /\ go' = [go EXCEPT ![g].pc = pc, ![g].chan = go[g].chan]
  BY DEF IInv, TypeOK, Run, Locals
<1>2. QED
  BY <1>1, Advance

LEMMA ResolveDeviceStep ==
  ASSUME IInv, NEW g \in Gos, ResolveDevice(g)
  PROVE  IInv'
<1>0. Running(g) /\ go[g].pc # "detach" /\ UNCHANGED <<sessions, cmd, wg, calls>>
      /\ attached' \in {attached, attached \cup {g}}
  BY DEF ResolveDevice, Running, maps, calls, ending, Locking
<1>1. Shape' /\ WaitGroupExact' /\ go' \in [Gos -> Locals]
  <2>1. \E pc \in {"set", "clear"} : Run(g, pc) /\ (pc \in {"set", "replace"} => go[g].pc \in {"device", "set"})
    BY DEF ResolveDevice
  <2>2. QED
    BY <1>0, <2>1, Proceed DEF GoPC
<1>2. TypeOK'
  BY <1>1, SessionsAssumption DEF IInv, TypeOK, Shape, ResolveDevice, maps, calls, ending, Locking, Link
<1>3. QED
  BY <1>1, <1>2 DEF IInv

LEMMA DialStep ==
  ASSUME IInv, NEW g \in Gos, Dial(g)
  PROVE  IInv'
<1>0. Running(g) /\ go[g].pc # "detach" /\ UNCHANGED <<sessions, cmd, wg, calls>>
      /\ attached' \in {attached, attached \cup {g}}
  BY DEF Dial, Running, maps, calls, ending, Locking
<1>1. Shape' /\ WaitGroupExact' /\ go' \in [Gos -> Locals]
  <2>1. \E pc \in {"wait", "clear"} : Run(g, pc) /\ (pc \in {"set", "replace"} => go[g].pc \in {"device", "set"})
    BY DEF Dial
  <2>2. QED
    BY <1>0, <2>1, Proceed DEF GoPC
<1>2. TypeOK'
  BY <1>1, SessionsAssumption DEF IInv, TypeOK, Shape, Dial, maps, calls, ending, Locking, Link
<1>3. QED
  BY <1>1, <1>2 DEF IInv

LEMMA SetLockStep ==
  ASSUME IInv, NEW g \in Gos, SetLock(g)
  PROVE  IInv'
<1>0. Running(g) /\ go[g].pc # "detach" /\ UNCHANGED <<sessions, cmd, wg, calls>>
      /\ attached' \in {attached, attached \cup {g}}
  BY DEF SetLock, Running, maps
<1>1. Shape' /\ WaitGroupExact' /\ go' \in [Gos -> Locals]
  BY <1>0, Proceed DEF GoPC, SetLock
<1>2. TypeOK'
  BY <1>1 DEF IInv, TypeOK, SetLock, maps, calls, ending
<1>3. QED
  BY <1>1, <1>2 DEF IInv

LEMMA PairConnectStep ==
  ASSUME IInv, NEW g \in Gos, PairConnect(g)
  PROVE  IInv'
<1>0. Running(g) /\ go[g].pc # "detach" /\ UNCHANGED <<sessions, cmd, wg, calls>>
      /\ attached' \in {attached, attached \cup {g}}
  BY DEF PairConnect, Running, maps, calls, ending, Locking
<1>1. Shape' /\ WaitGroupExact' /\ go' \in [Gos -> Locals]
  <2>1. \E pc \in {"scan", "clear"} : Run(g, pc) /\ (pc \in {"set", "replace"} => go[g].pc \in {"device", "set"})
    BY DEF PairConnect
  <2>2. QED
    BY <1>0, <2>1, Proceed DEF GoPC
<1>2. TypeOK'
  BY <1>1, SessionsAssumption DEF IInv, TypeOK, Shape, PairConnect, maps, calls, ending, Locking, Link
<1>3. QED
  BY <1>1, <1>2 DEF IInv

LEMMA PairEndStep ==
  ASSUME IInv, NEW g \in Gos, PairEnd(g)
  PROVE  IInv'
<1>0. Running(g) /\ go[g].pc # "detach" /\ UNCHANGED <<sessions, cmd, wg, calls>>
      /\ attached' \in {attached, attached \cup {g}}
  BY DEF PairEnd, Running, maps, calls, ending, Locking
<1>1. Shape' /\ WaitGroupExact' /\ go' \in [Gos -> Locals]
  <2>1. \E pc \in {"wait", "clear"} : Run(g, pc) /\ (pc \in {"set", "replace"} => go[g].pc \in {"device", "set"})
    BY DEF PairEnd
  <2>2. QED
    BY <1>0, <2>1, Proceed DEF GoPC
<1>2. TypeOK'
  BY <1>1, SessionsAssumption DEF IInv, TypeOK, Shape, PairEnd, maps, calls, ending, Locking, Link, SendKill
<1>3. QED
  BY <1>1, <1>2 DEF IInv

LEMMA WaitStep ==
  ASSUME IInv, NEW g \in Gos, Wait(g)
  PROVE  IInv'
<1>0. Running(g) /\ go[g].pc # "detach" /\ UNCHANGED <<sessions, cmd, wg, calls>>
      /\ attached' \in {attached, attached \cup {g}}
  BY DEF Wait, Running, maps, calls, ending, Locking
<1>1. Shape' /\ WaitGroupExact' /\ go' \in [Gos -> Locals]
  <2>1. \E pc \in {"clear"} : Run(g, pc) /\ (pc \in {"set", "replace"} => go[g].pc \in {"device", "set"})
    BY DEF Wait
  <2>2. QED
    BY <1>0, <2>1, Proceed DEF GoPC
<1>2. TypeOK'
  BY <1>1, SessionsAssumption DEF IInv, TypeOK, Shape, Wait, maps, calls, ending, Locking, Link
<1>3. QED
  BY <1>1, <1>2 DEF IInv

LEMMA ClearConnectingStep ==
  ASSUME IInv, NEW g \in Gos, ClearConnecting(g)
  PROVE  IInv'
<1>0. Running(g) /\ go[g].pc # "detach" /\ UNCHANGED <<sessions, cmd, wg, calls>>
      /\ attached' \in {attached, attached \cup {g}}
  BY DEF ClearConnecting, Running, maps, calls, ending, Locking
<1>1. Shape' /\ WaitGroupExact' /\ go' \in [Gos -> Locals]
  <2>1. \E pc \in {"delete"} : Run(g, pc) /\ (pc \in {"set", "replace"} => go[g].pc \in {"device", "set"})
    BY DEF ClearConnecting
  <2>2. QED
    BY <1>0, <2>1, Proceed DEF GoPC
<1>2. TypeOK'
  BY <1>1, SessionsAssumption DEF IInv, TypeOK, Shape, ClearConnecting, maps, calls, ending, Locking, Link
<1>3. QED
  BY <1>1, <1>2 DEF IInv

LEMMA RegisterKillStep ==
  ASSUME IInv, NEW g \in Gos, RegisterKill(g)
  PROVE  IInv'
<1> DEFINE chan == IF kills[go[g].conn] = None THEN g ELSE kills[go[g].conn]
<1>0. /\ Running(g) /\ go[g].pc # "detach" /\ UNCHANGED <<sessions, cmd, wg, calls>>
      /\ attached' \in {attached, attached \cup {g}} /\ go[g].conn \in Conns
  BY DEF RegisterKill, Running, IInv, Shape
<1>1. chan \in Gos
  BY <1>0 DEF IInv, TypeOK
<1>2. \E pc \in {"dial", "pair"} : go' = [go EXCEPT ![g].pc = pc, ![g].chan = chan]
  BY DEF RegisterKill
<1> HIDE DEF chan
<1>3. Shape' /\ WaitGroupExact' /\ go' \in [Gos -> Locals]
  BY <1>0, <1>1, <1>2, Advance DEF GoPC
<1>4. TypeOK'
  BY <1>0, <1>1, <1>3, SessionsAssumption DEF IInv, TypeOK, RegisterKill, calls, ending, Locking, chan
<1>5. QED
  BY <1>3, <1>4 DEF IInv

LEMMA SetStep ==
  ASSUME IInv, NEW g \in Gos, Set(g)
  PROVE  IInv'
<1> DEFINE c == go[g].conn
<1>0. c \in Conns
  BY DEF IInv, Shape, Set
<1>a. go[g] \in Locals /\ go' \in [Gos -> Locals]
  BY SMTT(30) DEF IInv, TypeOK, Locals, Set, Run, GoPC
<1>b. \A d \in Gos : go'[d] = IF d = g THEN [go[g] EXCEPT !.pc = "register"] ELSE go[d]
  BY <1>a DEF IInv, TypeOK, Set, Run
<1>c. \A e \in Conns : sessions'[e] = IF e = c THEN g ELSE sessions[e]
  BY DEF IInv, TypeOK, Set
<1>d. TypeOK'
  BY <1>0, <1>a, SessionsAssumption DEF IInv, TypeOK, Set, Link, calls, ending
<1>e. /\ \A d \in Gos : d # g => go'[d] = go[d]
      /\ go'[g].conn = c /\ go'[g].victim = go[g].victim /\ go'[g].pc = "register"
  BY <1>a, <1>b DEF Locals
<1>f. Shape'
  <2>0. go[g].pc = "replace" /\ UNCHANGED <<cmd, calls>> /\ attached' \subseteq attached
    BY DEF Set
  <2>a. evicted' \cup receiving' \subseteq attached'
    BY DEF IInv, Shape, Set, Busy, calls
  <2>1. \A d \in Gos : /\ go'[d].pc = "detach" <=> go'[d].victim # None
                       /\ go'[d].pc # "new" => go'[d].conn \in Conns
    BY <1>0, <1>e, <2>0 DEF IInv, Shape
  <2>2. ASSUME NEW e \in Conns, sessions'[e] # None
        PROVE  go'[sessions'[e]].conn = e /\ go'[sessions'[e]].pc \notin {"new", "device", "set", "replace"}
    <3>1. CASE e = c
      BY <1>0, <1>c, <1>e, <3>1
    <3>2. CASE e # c
      <4>1. sessions'[e] = sessions[e] /\ sessions[e] \in Gos \ {g}
        BY <1>c, <2>0, <2>2, <3>2 DEF IInv, TypeOK, Shape
      <4>2. QED
        BY <1>e, <2>2, <4>1 DEF IInv, Shape
    <3>3. QED
      BY <3>1, <3>2
  <2>3. \A d \in attached : go'[d].pc \notin {"new", "device"}
    BY <1>e, <2>0 DEF IInv, TypeOK, Shape
  <2>4. QED
    BY <2>0, <2>a, <2>1, <2>2, <2>3 DEF IInv, Shape
<1>1. TypeOK' /\ Shape'
  BY <1>d, <1>f
<1>2. Alive' = Alive /\ Deleting' = Deleting /\ Registered' = Registered \cup {c}
  BY <1>0, SessionsAssumption DEF IInv, TypeOK, Locals, Set, Run, Alive, Running, Deleting, Registered
<1>3. CASE sessions[c] # None
  <2>1. Registered' = Registered /\ wg' = wg
    BY <1>0, <1>2, <1>3 DEF Set, Registered
  <2>2. QED
    BY <1>1, <1>2, <2>1, SameCount DEF IInv
<1>4. CASE sessions[c] = None
  <2>1. c \notin Registered /\ wg' = wg + 1
    BY <1>4 DEF Set, Registered
  <2>2. Cardinality(Registered') = Cardinality(Registered) + 1
    BY <1>2, <2>1, CountsFinite, GrowByOne
  <2>3. QED
    BY <1>1, <1>2, <2>1, <2>2, CountsFinite DEF IInv, WaitGroupExact
<1>5. QED
  BY <1>3, <1>4

LEMMA DeleteStep ==
  ASSUME IInv, NEW g \in Gos, Delete(g)
  PROVE  IInv'
<1> DEFINE c == go[g].conn
<1>0. c \in Conns /\ go[g].victim = None
  BY DEF IInv, Shape, Delete
<1>a. go[g] \in Locals /\ sessions[c] \in Gos \cup {None}
  BY <1>0 DEF IInv, TypeOK
<1>b. /\ \A d \in Gos : d # g => go'[d] = go[d]
      /\ go'[g].conn = go[g].conn /\ go'[g].pc \in {"cleanup", "detach"}
      /\ go'[g].pc = "detach" <=> go'[g].victim # None
  <2>1. CASE sessions[c] = None
    <3>1. go' = [go EXCEPT ![g].pc = "cleanup"]
      BY <2>1 DEF Delete, Run
    <3>2. QED
      BY <1>0, <1>a, <3>1 DEF IInv, TypeOK, Locals
  <2>2. CASE sessions[c] # None
    <3>1. go' = [go EXCEPT ![g].pc = "detach", ![g].victim = sessions[c]]
      BY <2>2 DEF Delete, Run
    <3>2. QED
      BY <1>0, <1>a, <2>2, <3>1 DEF IInv, TypeOK, Locals
  <2>3. QED
    BY <2>1, <2>2
<1>c. \A e \in Conns : sessions'[e] = IF e = c THEN None ELSE sessions[e]
  BY <1>0 DEF IInv, TypeOK, Delete
<1>d. go' \in [Gos -> Locals]
  BY <1>a DEF IInv, TypeOK, Locals, Delete, Run, GoPC
<1>e. TypeOK'
  BY <1>a, <1>d DEF IInv, TypeOK, Delete, calls, ending, Locking
<1>f. Shape'
  <2>0. attached' = attached /\ UNCHANGED calls /\ cmd' = cmd /\ go[g].pc = "delete"
    BY DEF Delete
  <2>4. \A d \in Gos : /\ go'[d].pc = "detach" <=> go'[d].victim # None
                       /\ go'[d].pc # "new" => go'[d].conn \in Conns
    BY <1>0, <1>b DEF IInv, Shape
  <2>5. ASSUME NEW e \in Conns, sessions'[e] # None
        PROVE  go'[sessions'[e]].conn = e /\ go'[sessions'[e]].pc \notin {"new", "device", "set", "replace"}
    <3>1. sessions'[e] = sessions[e] /\ sessions[e] \in Gos
      BY <1>c, <2>5 DEF IInv, TypeOK
    <3>2. QED
      BY <1>b, <2>0, <2>5, <3>1 DEF IInv, Shape
  <2>6. \A d \in attached : go'[d].pc \notin {"new", "device"}
    BY <1>b, <2>0 DEF IInv, TypeOK, Shape
  <2>7. QED
    BY <2>0, <2>4, <2>5, <2>6 DEF IInv, Shape, calls
<1>1. TypeOK' /\ Shape'
  BY <1>e, <1>f
<1>2. Alive' = Alive /\ wg' = wg
  BY DEF IInv, TypeOK, Locals, Delete, Run, Alive, Running
<1>3. CASE sessions[c] = None
  <2>1. Registered' = Registered /\ Deleting' = Deleting
    BY <1>3 DEF IInv, TypeOK, Locals, Delete, Run, Registered, Deleting
  <2>2. QED
    BY <1>1, <1>2, <2>1, SameCount DEF IInv
<1>4. CASE sessions[c] # None
  <2>1. /\ c \in Registered /\ Registered' = Registered \ {c}
        /\ g \notin Deleting /\ Deleting' = Deleting \cup {g}
    BY <1>0, <1>4 DEF IInv, TypeOK, Locals, Delete, Registered, Deleting
  <2>2. Cardinality(Registered') = Cardinality(Registered) - 1
    BY <2>1, CountsFinite, ShrinkByOne
  <2>3. Cardinality(Deleting') = Cardinality(Deleting) + 1
    BY <2>1, CountsFinite, GrowByOne
  <2>4. QED
    BY <1>1, <1>2, <2>2, <2>3, CountsFinite DEF IInv, WaitGroupExact
<1>5. QED
  BY <1>3, <1>4

LEMMA DetachStep ==
  ASSUME IInv, NEW g \in Gos, Detach(g)
  PROVE  IInv'
<1>1. /\ g \in Deleting /\ Deleting' = Deleting \ {g}
      /\ Alive' = Alive /\ Registered' = Registered /\ wg' = wg - 1
  BY DEF IInv, TypeOK, Locals, Shape, Detach, maps, calls, ending, Locking, Alive, Running, Registered, Deleting
<1>2. Cardinality(Deleting') = Cardinality(Deleting) - 1
  BY <1>1, CountsFinite, ShrinkByOne
<1>3. Cardinality(Deleting) > 0
  BY <1>1, CountsFinite, FS_EmptySet
<1>4. WaitGroupExact' /\ wg' \in Nat
  BY <1>1, <1>2, <1>3, CountsFinite DEF IInv, WaitGroupExact
<1>5. TypeOK' /\ Shape'
  BY <1>4, SessionsAssumption DEF IInv, TypeOK, Locals, Shape, Detach, maps, calls, ending, Locking, GoPC, Link
<1>6. QED
  BY <1>4, <1>5 DEF IInv

LEMMA CleanupKillStep ==
  ASSUME IInv, NEW g \in Gos, CleanupKill(g)
  PROVE  IInv'
<1>1. /\ g \in Alive /\ Alive' = Alive \ {g}
      /\ Deleting' = Deleting /\ Registered' = Registered /\ wg' = wg - 1
  BY DEF IInv, TypeOK, Locals, CleanupKill, Run, maps, calls, ending, Locking, Alive, Running, Registered, Deleting
<1>2. Cardinality(Alive') = Cardinality(Alive) - 1
  BY <1>1, CountsFinite, ShrinkByOne
<1>3. Cardinality(Alive) > 0
  BY <1>1, CountsFinite, FS_EmptySet
<1>4. WaitGroupExact' /\ wg' \in Nat
  BY <1>1, <1>2, <1>3, CountsFinite DEF IInv, WaitGroupExact
<1>a. /\ go[g] \in Locals /\ go[g].pc = "cleanup" /\ go' \in [Gos -> Locals]
      /\ \A d \in Gos : go'[d] = IF d = g THEN [go[g] EXCEPT !.pc = "done"] ELSE go[d]
  BY DEF IInv, TypeOK, Locals, CleanupKill, Run, GoPC
<1>b. TypeOK'
  BY <1>4, <1>a, SessionsAssumption DEF IInv, TypeOK, CleanupKill, maps, calls, ending, Locking
<1>c. \A d \in Gos : /\ go'[d].conn = go[d].conn /\ go'[d].victim = go[d].victim
                     /\ go'[d].pc = IF d = g THEN "done" ELSE go[d].pc
  BY <1>a DEF Locals
<1>d. Shape'
  BY <1>a, <1>c DEF IInv, TypeOK, Shape, CleanupKill, calls
<1>5. TypeOK' /\ Shape'
  BY <1>b, <1>d
<1>6. QED
  BY <1>4, <1>5 DEF IInv

LEMMA InvariantNext == IInv /\ [Next]_vars => IInv'
<1> SUFFICES ASSUME IInv, [Next]_vars PROVE IInv'
  OBVIOUS
<1>1. ASSUME NEW h \in Handlers, Starting(h) \/ LogoutKill(h)
                 \/ \E c \in Conns : StartGet(h, c) \/ Stop(h, c) \/ LogoutGet(h, c)
      PROVE  IInv'
  <2>1. CASE \E g \in Gos : Launch(h, g)
    BY <2>1, LaunchStep
  <2>2. CASE TryStartConnect(h) \/ LogoutKill(h)
    <3>1. cmd[h].conn \in Conns
      BY <2>2 DEF IInv, Shape, TryStartConnect, LogoutKill
    <3>2. QED
      BY <2>2, <3>1, HandlerStep
  <2>3. QED
    BY <1>1, <2>1, <2>2, HandlerStep DEF Starting
<1>2. ASSUME NEW g \in Gos, Session(g)
      PROVE  IInv'
  BY <1>2, ResolveDeviceStep, SetStep, RegisterKillStep, DialStep, PairConnectStep, PairEndStep,
     WaitStep, ClearConnectingStep, DeleteStep, DetachStep, CleanupKillStep, SetLockStep
     DEF Session
<1>3. ASSUME NEW g \in Gos, Events(g) \/ Handling(g)
      PROVE  IInv'
  BY <1>3, ClientStep
<1>4. CASE ShutdownBegin \/ Shutdown
  BY <1>4, ShutdownStep
<1>5. CASE UNCHANGED vars
  <2>1. UNCHANGED <<sessions, go, wg>> /\ TypeOK' /\ Shape'
    BY <1>5 DEF vars, maps, calls, ending, Locking, IInv, TypeOK, Locals, Shape
  <2>2. QED
    BY <2>1, QuietCount DEF IInv
<1>6. QED
  BY <1>1, <1>2, <1>3, <1>4, <1>5 DEF Next

LEMMA InvariantHolds == Spec => []IInv
BY ShapeInit, InvariantNext, PTL DEF Spec

(* Every variable keeps its type; wg, in particular, never goes negative.   *)
THEOREM TypeCorrect == Spec => []TypeOK
<1>1. IInv => TypeOK
  BY DEF IInv
<1>2. QED
  BY InvariantHolds, <1>1, PTL

(* handlerWG always equals the number of running goroutines, registered     *)
(* sessions and deletions under way.                                        *)
THEOREM WaitGroupCorrect == Spec => []WaitGroupExact
<1>1. IInv => WaitGroupExact
  BY DEF IInv
<1>2. QED
  BY InvariantHolds, <1>1, PTL

-----------------------------------------------------------------------------
(* A step that moves no entry of sessions, detaches or leaves handlers      *)
(* alone, and keeps what EventsOnce reads of the goroutines, preserves it.  *)

LEMMA QuietEvents ==
  ASSUME IInv, EventsOnce, sessions' = sessions, attached' \subseteq attached,
         \A d \in Gos : /\ go'[d].victim = go[d].victim
                        /\ d \in attached => go'[d].conn = go[d].conn
                        /\ go[d].pc \in {"set", "replace"} => go'[d].pc \in {"set", "replace"}
  PROVE  EventsOnce'
<1>1. ASSUME NEW g \in attached'
      PROVE  \/ sessions'[go'[g].conn] = g
             \/ go'[g].pc \in {"set", "replace"}
             \/ \E d \in Gos : go'[d].victim = g
  <2>1. g \in attached /\ g \in Gos /\ go'[g].conn = go[g].conn
    BY <1>1 DEF IInv, TypeOK
  <2>2. QED
    BY <2>1 DEF EventsOnce
<1>2. QED
  BY <1>1 DEF EventsOnce

LEMMA RunKeeps ==
  ASSUME IInv, NEW g \in Gos, NEW pc, Run(g, pc),
         go[g].pc \in {"set", "replace"} => pc = "replace"
  PROVE  \A d \in Gos : /\ go'[d].victim = go[d].victim
                        /\ d \in attached => go'[d].conn = go[d].conn
                        /\ go[d].pc \in {"set", "replace"} => go'[d].pc \in {"set", "replace"}
BY DEF IInv, TypeOK, Locals, Run

LEMMA GoroutineEvents ==
  ASSUME IInv, EventsOnce, NEW g \in Gos, Session(g)
  PROVE  EventsOnce'
<1>1. CASE ResolveDevice(g)
  <2>1. CASE Run(g, "set") /\ attached' = attached \cup {g}
    <3>1. go'[g].pc = "set" /\ \A d \in Gos : d # g => go'[d] = go[d]
      BY <2>1 DEF IInv, TypeOK, Locals, Run
    <3>2. go'[g].victim = go[g].victim /\ go'[g].conn = go[g].conn /\ sessions' = sessions
      BY <1>1, <2>1 DEF IInv, TypeOK, Locals, Run, ResolveDevice, maps, calls, ending, Locking
    <3>3. g \notin attached
      BY <1>1 DEF IInv, Shape, ResolveDevice
    <3>4. ASSUME NEW d \in attached', d # g
          PROVE  \/ sessions'[go'[d].conn] = d
                 \/ go'[d].pc \in {"set", "replace"}
                 \/ \E e \in Gos : go'[e].victim = d
      <4>1. d \in attached /\ d \in Gos
        BY <2>1, <3>4 DEF IInv, TypeOK
      <4>2. \A e \in Gos : go'[e].victim = go[e].victim
        BY <3>1, <3>2
      <4>3. QED
        BY <3>1, <3>2, <3>4, <4>1, <4>2 DEF EventsOnce
    <3>5. QED
      BY <3>1, <3>4 DEF EventsOnce
  <2>2. CASE Run(g, "clear") /\ UNCHANGED attached
    BY <1>1, <2>2, RunKeeps, QuietEvents DEF ResolveDevice, maps, calls, ending, Locking
  <2>3. QED
    BY <1>1, <2>1, <2>2 DEF ResolveDevice
<1>2. CASE Set(g)
  <2> DEFINE c == go[g].conn
  <2>1. c \in Conns /\ go[g].victim = None
    BY <1>2 DEF IInv, Shape, Set
  <2>2. sessions' = [sessions EXCEPT ![c] = g] /\ attached' = attached \ {sessions[c]}
    BY <1>2, SessionsAssumption DEF IInv, TypeOK, Set
  <2>3. \A d \in Gos : /\ go'[d].victim = go[d].victim /\ go'[d].conn = go[d].conn
                       /\ d # g => go'[d] = go[d]
    BY <1>2 DEF IInv, TypeOK, Locals, Set, Run
  <2>4. ASSUME NEW d \in attached'
        PROVE  \/ sessions'[go'[d].conn] = d
               \/ go'[d].pc \in {"set", "replace"}
               \/ \E e \in Gos : go'[e].victim = d
    <3>1. d \in attached /\ d \in Gos /\ d # sessions[c]
      BY <2>2, <2>4 DEF IInv, TypeOK
    <3>2. CASE d = g
      BY <2>1, <2>2, <2>3, <3>2 DEF IInv, TypeOK
    <3>3. CASE d # g
      <4>1. CASE sessions[go[d].conn] = d
        <5>1. go[d].conn # c /\ go[d].conn \in Conns
          BY <3>1, <4>1 DEF IInv, Shape
        <5>2. QED
          BY <2>1, <2>2, <2>3, <3>1, <4>1, <5>1 DEF IInv, TypeOK
      <4>2. CASE go[d].pc \in {"set", "replace"}
        BY <2>3, <3>1, <3>3, <4>2
      <4>3. CASE \E e \in Gos : go[e].victim = d
        BY <2>3, <4>3
      <4>4. QED
        BY <3>1, <4>1, <4>2, <4>3 DEF EventsOnce
    <3>4. QED
      BY <3>2, <3>3
  <2>5. QED
    BY <2>4 DEF EventsOnce
<1>3. CASE RegisterKill(g)
  <2>1. \A d \in Gos : /\ go'[d].victim = go[d].victim
                       /\ d \in attached => go'[d].conn = go[d].conn
                       /\ go[d].pc \in {"set", "replace"} => go'[d].pc \in {"set", "replace"}
    BY <1>3 DEF IInv, TypeOK, Locals, RegisterKill
  <2>2. QED
    BY <1>3, <2>1, QuietEvents DEF RegisterKill
<1>4. CASE Dial(g)
  BY <1>4, RunKeeps, QuietEvents DEF Dial, maps, calls, ending, Locking
<1>5. CASE PairConnect(g)
  BY <1>5, RunKeeps, QuietEvents DEF PairConnect, maps, calls, ending, Locking
<1>6. CASE PairEnd(g)
  BY <1>6, RunKeeps, QuietEvents DEF PairEnd, maps, calls, ending, Locking
<1>7. CASE Wait(g)
  BY <1>7, RunKeeps, QuietEvents DEF Wait, maps, calls, ending, Locking
<1>8. CASE ClearConnecting(g)
  BY <1>8, RunKeeps, QuietEvents DEF ClearConnecting
<1>9. CASE Delete(g)
  <2> DEFINE c == go[g].conn
  <2>1. c \in Conns /\ go[g].victim = None /\ attached' = attached
    BY <1>9 DEF IInv, Shape, Delete
  <2>2. CASE sessions[c] = None
    BY <1>9, <2>2, RunKeeps, QuietEvents DEF Delete
  <2>3. CASE sessions[c] # None
    <3>1. /\ sessions' = [sessions EXCEPT ![c] = None]
          /\ go' = [go EXCEPT ![g].pc = "detach", ![g].victim = sessions[c]]
      BY <1>9, <2>3 DEF Delete
    <3>2. /\ go'[g].victim = sessions[c] /\ go'[g].conn = go[g].conn
          /\ \A d \in Gos : d # g => go'[d] = go[d]
      BY <3>1 DEF IInv, TypeOK, Locals
    <3>3. ASSUME NEW d \in attached
          PROVE  \/ sessions'[go'[d].conn] = d
                 \/ go'[d].pc \in {"set", "replace"}
                 \/ \E e \in Gos : go'[e].victim = d
      <4>0. d \in Gos /\ go'[d].conn = go[d].conn
        BY <3>2 DEF IInv, TypeOK
      <4>1. CASE sessions[go[d].conn] = d /\ go[d].conn = c
        BY <3>2, <4>1
      <4>2. CASE sessions[go[d].conn] = d /\ go[d].conn # c
        <5>1. go[d].conn \in Conns
          BY <4>0 DEF IInv, Shape
        <5>2. QED
          BY <3>1, <4>0, <4>2, <5>1 DEF IInv, TypeOK
      <4>3. CASE go[d].pc \in {"set", "replace"}
        <5>1. d # g
          BY <1>9, <4>3 DEF Delete
        <5>2. QED
          BY <3>2, <4>0, <4>3, <5>1
      <4>4. CASE \E e \in Gos : go[e].victim = d
        <5>1. PICK e \in Gos : go[e].victim = d
          BY <4>4
        <5>2. e # g
          BY <2>1, <4>0, <5>1, SessionsAssumption
        <5>3. QED
          BY <3>2, <5>1, <5>2
      <4>5. QED
        BY <4>1, <4>2, <4>3, <4>4 DEF EventsOnce
    <3>4. QED
      BY <2>1, <3>3 DEF EventsOnce
  <2>4. QED
    BY <2>2, <2>3
<1>10. CASE Detach(g)
  <2>1. /\ sessions' = sessions /\ attached' = attached \ {go[g].victim}
        /\ go' = [go EXCEPT ![g].pc = "cleanup", ![g].victim = None] /\ go[g].pc = "detach"
    BY <1>10 DEF Detach, maps, calls, ending, Locking
  <2>2. /\ go'[g].conn = go[g].conn /\ \A d \in Gos : d # g => go'[d] = go[d]
    BY <2>1 DEF IInv, TypeOK, Locals
  <2>3. ASSUME NEW d \in attached'
        PROVE  \/ sessions'[go'[d].conn] = d
               \/ go'[d].pc \in {"set", "replace"}
               \/ \E e \in Gos : go'[e].victim = d
    <3>1. d \in attached /\ d \in Gos /\ d # go[g].victim /\ go'[d].conn = go[d].conn
      BY <2>1, <2>2, <2>3 DEF IInv, TypeOK
    <3>2. go[d].pc \in {"set", "replace"} => go'[d].pc \in {"set", "replace"}
      BY <2>1, <2>2, <3>1
    <3>3. \A e \in Gos : go[e].victim = d => go'[e].victim = d
      BY <2>2, <3>1
    <3>4. QED
      BY <2>1, <3>1, <3>2, <3>3 DEF EventsOnce
  <2>4. QED
    BY <2>3 DEF EventsOnce
<1>11. CASE CleanupKill(g)
  BY <1>11, RunKeeps, QuietEvents DEF CleanupKill
<1>12. CASE SetLock(g)
  BY <1>12, RunKeeps, QuietEvents DEF SetLock, maps
<1>13. QED
  BY <1>1, <1>2, <1>3, <1>4, <1>5, <1>6, <1>7, <1>8, <1>9, <1>10, <1>11, <1>12 DEF Session

LEMMA EventsNext == IInv /\ EventsOnce /\ [Next]_vars => EventsOnce'
<1> SUFFICES ASSUME IInv, EventsOnce, [Next]_vars PROVE EventsOnce'
  OBVIOUS
<1>1. ASSUME go' = go, sessions' = sessions, attached' \subseteq attached
      PROVE  EventsOnce'
  BY <1>1, QuietEvents
<1>2. ASSUME NEW h \in Handlers, NEW g \in Gos, Launch(h, g)
      PROVE  EventsOnce'
  <2>1. sessions' = sessions /\ attached' = attached /\ g \notin attached
    BY <1>2 DEF IInv, Shape, Launch, maps, calls, ending, Locking
  <2>2. \A d \in Gos : /\ go'[d].victim = go[d].victim
                       /\ d \in attached => go'[d].conn = go[d].conn
                       /\ go[d].pc \in {"set", "replace"} => go'[d].pc \in {"set", "replace"}
    BY <1>2, <2>1 DEF IInv, TypeOK, Locals, Launch
  <2>3. QED
    BY <2>1, <2>2, QuietEvents
<1>3. ASSUME NEW h \in Handlers, NEW c \in Conns,
             StartGet(h, c) \/ Stop(h, c) \/ LogoutGet(h, c)
      PROVE  EventsOnce'
  BY <1>1, <1>3 DEF StartGet, Stop, LogoutGet, maps, calls, ending, Locking
<1>4. ASSUME NEW h \in Handlers, Starting(h) \/ LogoutKill(h)
      PROVE  EventsOnce'
  BY <1>1, <1>2, <1>4 DEF Starting, TryStartConnect, LogoutKill, maps, calls, ending, Locking
<1>5. ASSUME NEW g \in Gos, Events(g) \/ Handling(g)
      PROVE  EventsOnce'
  BY <1>1, <1>5 DEF Events, Handling, Drop, Redial, Evicted, EvictedKill, Receive, ReceiveGet, maps, calls, ending, Locking
<1>6. CASE ShutdownBegin \/ Shutdown
  BY <1>1, <1>6 DEF ShutdownBegin, Shutdown, ShutdownCancel, ShutdownOne, ShutdownWait, ShutdownReturn, maps, calls, ending, Locking
<1>7. CASE UNCHANGED vars
  BY <1>1, <1>7 DEF vars, maps, calls, ending, Locking
<1>8. QED
  BY <1>3, <1>4, <1>5, <1>6, <1>7, GoroutineEvents DEF Next

(* Whatever sessions replace each other and whoever deletes whose entry,    *)
(* an attached event handler belongs to the registered session, to one not  *)
(* registered yet, or to one somebody is about to detach.                   *)
THEOREM EventsPublishedOnce == Spec => []EventsOnce
<1>1. Init => EventsOnce
  BY DEF Init, EventsOnce
<1>2. QED
  BY <1>1, InvariantHolds, EventsNext, PTL DEF Spec

LEMMA NothingLeft ==
  ASSUME IInv, EventsOnce, wg = 0
  PROVE  attached = {} /\ \A g \in Gos : ~Running(g)
<1>1. Cardinality(Alive) = 0 /\ Cardinality(Registered) = 0 /\ Cardinality(Deleting) = 0
  BY CountsFinite DEF IInv, WaitGroupExact
<1>2. Alive = {} /\ Registered = {} /\ Deleting = {}
  BY <1>1, CountsFinite, FS_EmptySet
<1>3. \A g \in Gos : ~Running(g)
  BY <1>2 DEF Alive
<1>4. ASSUME NEW g \in attached PROVE FALSE
  <2>1. g \in Gos /\ go[g].pc # "new"
    BY <1>4 DEF IInv, TypeOK, Shape
  <2>2. go[g].pc = "done" /\ go[g].conn \in Conns
    BY <1>3, <2>1 DEF Running, IInv, Shape
  <2>3. sessions[go[g].conn] = None
    BY <1>2, <2>2 DEF Registered
  <2>4. \A d \in Gos : go[d].victim = None
    BY <1>2 DEF Deleting
  <2>5. QED
    BY <1>4, <2>1, <2>2, <2>3, <2>4, SessionsAssumption DEF EventsOnce
<1>5. QED
  BY <1>3, <1>4

(* Steps other than Shutdown's return and the launches after it start no    *)
(* goroutine and attach no handler but that of a running one.               *)
LEMMA CleanNext == IInv /\ EventsOnce /\ CleanShutdown /\ [Next]_vars => CleanShutdown'
<1> SUFFICES ASSUME IInv, EventsOnce, CleanShutdown, [Next]_vars PROVE CleanShutdown'
  OBVIOUS
<1>0. evicted' \cup receiving' \subseteq attached'
  <2>1. IInv'
    BY InvariantNext
  <2>2. QED
    BY <2>1 DEF IInv, Shape
<1> SUFFICES ASSUME shut'.pc = "returned" PROVE attached' \cup Alive' \subseteq late'
  BY <1>0 DEF CleanShutdown
<1>1. ASSUME shut' = shut, late \subseteq late', attached' \subseteq attached \cup late', Alive' \subseteq Alive \cup late'
      PROVE  attached' \cup Alive' \subseteq late'
  BY <1>1 DEF CleanShutdown
<1>2. ASSUME go' = go, shut' = shut, late' = late, attached' \subseteq attached
      PROVE  attached' \cup Alive' \subseteq late'
  <2>1. Alive' = Alive
    BY <1>2 DEF Alive, Running
  <2>2. QED
    BY <1>1, <1>2, <2>1
<1>3. ASSUME NEW h \in Handlers, NEW g \in Gos, Launch(h, g)
      PROVE  attached' \cup Alive' \subseteq late'
  <2>1. shut' = shut /\ attached' = attached /\ late' = late \cup {g}
    BY <1>3 DEF Launch
  <2>2. \A d \in Gos : d # g => go'[d] = go[d]
    BY <1>3 DEF Launch, IInv, TypeOK
  <2>3. Alive' \subseteq Alive \cup late'
    BY <2>1, <2>2 DEF Alive, Running
  <2>4. QED
    BY <1>1, <2>1, <2>3
<1>4. ASSUME NEW h \in Handlers, NEW c \in Conns, StartGet(h, c) \/ Stop(h, c) \/ LogoutGet(h, c)
      PROVE  attached' \cup Alive' \subseteq late'
  BY <1>2, <1>4 DEF StartGet, Stop, LogoutGet, maps, ending
<1>5. ASSUME NEW h \in Handlers, Starting(h) \/ LogoutKill(h)
      PROVE  attached' \cup Alive' \subseteq late'
  BY <1>2, <1>3, <1>5 DEF Starting, TryStartConnect, LogoutKill, maps, ending
<1>6. ASSUME NEW g \in Gos, Events(g) \/ Handling(g)
      PROVE  attached' \cup Alive' \subseteq late'
  BY <1>2, <1>6 DEF Events, Handling, Drop, Redial, Evicted, EvictedKill, Receive, ReceiveGet,
     maps, ending
<1>7. ASSUME NEW g \in Gos, Session(g)
      PROVE  attached' \cup Alive' \subseteq late'
  <2>1. g \in Alive
    BY <1>7 DEF Session, Alive, Running, ResolveDevice, SetLock, Set, RegisterKill, Dial,
       PairConnect, PairEnd, Wait, ClearConnecting, Delete, Detach, CleanupKill
  <2>2. shut' = shut /\ late' = late /\ attached' \subseteq attached \cup {g}
    BY <1>7 DEF Session, ResolveDevice, SetLock, Set, RegisterKill, Dial, PairConnect, PairEnd,
       Wait, ClearConnecting, Delete, Detach, CleanupKill, ending
  <2>3. \A d \in Gos : d # g => go'[d] = go[d]
    BY <1>7 DEF IInv, TypeOK, Session, ResolveDevice, SetLock, Set, RegisterKill, Dial,
       PairConnect, PairEnd, Wait, ClearConnecting, Delete, Detach, CleanupKill, Run
  <2>4. Alive' \subseteq Alive \cup {g}
    BY <2>3 DEF Alive, Running
  <2>5. QED
    BY <2>1, <2>2, <2>4 DEF CleanShutdown
<1>8. CASE ShutdownBegin \/ ShutdownWait \/ \E g \in Gos : ShutdownCancel(g) \/ ShutdownOne(g)
  BY <1>8 DEF ShutdownBegin, ShutdownWait, ShutdownCancel, ShutdownOne, IInv, TypeOK
<1>9. CASE ShutdownReturn
  <2>1. wg = 0 /\ go' = go /\ attached' = attached
    BY <1>9 DEF ShutdownReturn, IInv, TypeOK
  <2>2. attached' = {} /\ \A g \in Gos : go'[g].pc \in {"new", "done"}
    BY <2>1, NothingLeft DEF Running
  <2>3. QED
    BY <2>2 DEF Alive, Running
<1>10. CASE UNCHANGED vars
  BY <1>2, <1>10 DEF vars, ending
<1>11. QED
  BY <1>4, <1>5, <1>6, <1>7, <1>8, <1>9, <1>10 DEF Next, Shutdown

(* Whatever runs, is attached to a client or handles an event once Shutdown *)
(* returned before its deadline was launched after that return.             *)
THEOREM ShutdownIsClean == Spec => []CleanShutdown
<1>1. Init => CleanShutdown
  BY DEF Init, CleanShutdown
<1>2. QED
  BY <1>1, InvariantHolds, EventsPublishedOnce, CleanNext, PTL DEF Spec

-----------------------------------------------------------------------------
(* The connecting flag refuses every session.start of its connection.       *)

Clears(g, c) == go[g].conn = c /\ go[g].pc \in {"device", "set", "replace", "clear"}

(* Somebody always lowers the flag of a connection again: the handler about *)
(* to launch its goroutine, or a goroutine that has yet to register its     *)
(* session or to run its deferred calls.  No failure, kill, replacement or  *)
(* shutdown leaves a connection "already connecting" with nobody at work.   *)
FlagIsLowered ==
  \A c \in connecting :
    \/ \E h \in Handlers : cmd[h].pc = "launch" /\ cmd[h].conn = c
    \/ \E g \in Gos : Clears(g, c)

LEMMA FlagStays ==
  ASSUME FlagIsLowered, connecting' \subseteq connecting, connecting \subseteq Conns,
         \A h \in Handlers, c \in connecting' :
           cmd[h].pc = "launch" /\ cmd[h].conn = c =>
             \/ cmd'[h].pc = "launch" /\ cmd'[h].conn = c
             \/ \E g \in Gos : go'[g].conn = c /\ go'[g].pc \in {"device", "set", "replace", "clear"},
         \A g \in Gos, c \in connecting' :
           Clears(g, c) => go'[g].conn = c /\ go'[g].pc \in {"device", "set", "replace", "clear"}
  PROVE  FlagIsLowered'
<1>1. ASSUME NEW c \in connecting'
      PROVE  \/ \E h \in Handlers : cmd'[h].pc = "launch" /\ cmd'[h].conn = c
             \/ \E g \in Gos : go'[g].conn = c /\ go'[g].pc \in {"device", "set", "replace", "clear"}
  <2>1. CASE \E h \in Handlers : cmd[h].pc = "launch" /\ cmd[h].conn = c
    BY <1>1, <2>1
  <2>2. CASE \E g \in Gos : Clears(g, c)
    BY <1>1, <2>2
  <2>3. QED
    BY <1>1, <2>1, <2>2 DEF FlagIsLowered
<1>2. QED
  BY <1>1 DEF FlagIsLowered, Clears

(* A goroutine leaves "set" and "clear" only by lowering the flag.          *)
LEMMA GoroutineFlag ==
  ASSUME IInv, FlagIsLowered, NEW g \in Gos, Session(g)
  PROVE  FlagIsLowered'
<1>0. /\ connecting \subseteq Conns /\ go \in [Gos -> Locals]
  BY DEF IInv, TypeOK
<1>1. cmd' = cmd /\ connecting' \subseteq connecting
  BY DEF Session, ResolveDevice, SetLock, Set, RegisterKill, Dial, PairConnect, PairEnd, Wait,
         ClearConnecting, Delete, Detach, CleanupKill, maps, calls, ending, Locking
<1>2. \A d \in Gos : d # g => go'[d] = go[d]
  BY <1>0 DEF Session, ResolveDevice, SetLock, Set, RegisterKill, Dial, PairConnect, PairEnd, Wait,
              ClearConnecting, Delete, Detach, CleanupKill, Run
<1>3. ASSUME NEW c \in connecting', Clears(g, c)
      PROVE  go'[g].conn = c /\ go'[g].pc \in {"device", "set", "replace", "clear"}
  <2>1. CASE ResolveDevice(g)
    BY <1>0, <1>3, <2>1 DEF ResolveDevice, Run, Clears, Locals
  <2>2. CASE Set(g) \/ ClearConnecting(g)
    BY <1>3, <2>2 DEF Set, ClearConnecting, Clears
  <2>3. CASE ~ResolveDevice(g) /\ ~Set(g) /\ ~ClearConnecting(g)
    <3>1. CASE SetLock(g)
      BY <1>0, <1>3, <3>1 DEF SetLock, Run, Clears, Locals
    <3>2. CASE ~SetLock(g)
      BY <1>3, <2>3, <3>2 DEF Session, RegisterKill, Dial, PairConnect, PairEnd, Wait,
                              Delete, Detach, CleanupKill, Clears
    <3>3. QED
      BY <3>1, <3>2
  <2>4. QED
    BY <2>1, <2>2, <2>3
<1>4. ASSUME NEW d \in Gos, NEW c \in connecting', Clears(d, c)
      PROVE  go'[d].conn = c /\ go'[d].pc \in {"device", "set", "replace", "clear"}
  <2>1. CASE d = g
    BY <1>3, <1>4, <2>1
  <2>2. CASE d # g
    BY <1>2, <1>4, <2>2 DEF Clears
  <2>3. QED
    BY <2>1, <2>2
<1>5. QED
  BY <1>0, <1>1, <1>4, FlagStays

LEMMA FlagNext == IInv /\ FlagIsLowered /\ [Next]_vars => FlagIsLowered'
<1> SUFFICES ASSUME IInv, FlagIsLowered, [Next]_vars PROVE FlagIsLowered'
  OBVIOUS
<1>0. connecting \subseteq Conns
  BY DEF IInv, TypeOK
<1>1. ASSUME go' = go, cmd' = cmd, connecting' = connecting PROVE FlagIsLowered'
  BY <1>1 DEF FlagIsLowered, Clears
<1>2. ASSUME NEW h \in Handlers, go' = go, connecting' = connecting, cmd[h].pc # "launch",
             NEW req, Handle(h, req)
      PROVE  FlagIsLowered'
  <2>1. \A k \in Handlers : cmd[k].pc = "launch" => cmd'[k] = cmd[k]
    BY <1>2 DEF Handle, IInv, TypeOK
  <2>2. QED
    BY <1>0, <1>2, <2>1, FlagStays DEF Clears
<1>3. ASSUME NEW h \in Handlers, TryStartConnect(h) PROVE FlagIsLowered'
  <2>1. CASE connecting' = connecting
    BY <1>2, <1>3, <2>1 DEF TryStartConnect
  <2>2. CASE connecting' # connecting
    <3>1. /\ connecting' = connecting \cup {cmd[h].conn} /\ go' = go
          /\ cmd' = [cmd EXCEPT ![h] = [cmd[h] EXCEPT !.pc = "launch"]]
      BY <1>3, <2>2 DEF TryStartConnect, Handle
    <3>2. cmd'[h].pc = "launch" /\ cmd'[h].conn = cmd[h].conn
      BY <3>1 DEF IInv, TypeOK
    <3>3. \A k \in Handlers \ {h} : cmd'[k] = cmd[k]
      BY <3>1 DEF IInv, TypeOK
    <3>4. cmd[h].pc = "try"
      BY <1>3 DEF TryStartConnect
    <3>5. ASSUME NEW c \in connecting
          PROVE  \/ \E k \in Handlers : cmd'[k].pc = "launch" /\ cmd'[k].conn = c
                 \/ \E g \in Gos : go'[g].conn = c /\ go'[g].pc \in {"device", "set", "replace", "clear"}
      BY <3>1, <3>3, <3>4, <3>5 DEF FlagIsLowered, Clears
    <3>6. QED
      BY <3>1, <3>2, <3>5 DEF FlagIsLowered, Clears
  <2>3. QED
    BY <2>1, <2>2
<1>4. ASSUME NEW h \in Handlers, NEW g \in Gos, Launch(h, g) PROVE FlagIsLowered'
  <2>1. /\ connecting' = connecting /\ go[g].pc = "new"
        /\ go' = [go EXCEPT ![g].pc = "device", ![g].conn = cmd[h].conn]
        /\ cmd' = [cmd EXCEPT ![h] = NoCmd]
    BY <1>4 DEF Launch, Handle, maps, calls, ending, Locking
  <2>2. go'[g].pc = "device" /\ go'[g].conn = cmd[h].conn
    BY <2>1 DEF IInv, TypeOK, Locals
  <2>3. \A d \in Gos \ {g} : go'[d] = go[d]
    BY <2>1 DEF IInv, TypeOK
  <2>4. \A k \in Handlers \ {h} : cmd'[k] = cmd[k]
    BY <2>1 DEF IInv, TypeOK
  <2>5. ASSUME NEW k \in Handlers, NEW c \in connecting', cmd[k].pc = "launch", cmd[k].conn = c
        PROVE  \/ cmd'[k].pc = "launch" /\ cmd'[k].conn = c
               \/ \E d \in Gos : go'[d].conn = c /\ go'[d].pc \in {"device", "set", "replace", "clear"}
    <3>1. CASE k = h
      BY <2>2, <2>5, <3>1
    <3>2. CASE k # h
      BY <2>4, <2>5, <3>2
    <3>3. QED
      BY <3>1, <3>2
  <2>6. \A d \in Gos, c \in connecting' :
          Clears(d, c) => go'[d].conn = c /\ go'[d].pc \in {"device", "set", "replace", "clear"}
    BY <2>1, <2>3 DEF Clears
  <2>7. connecting' \subseteq connecting
    BY <2>1
  <2>8. \A k \in Handlers, c \in connecting' :
          cmd[k].pc = "launch" /\ cmd[k].conn = c =>
            \/ cmd'[k].pc = "launch" /\ cmd'[k].conn = c
            \/ \E d \in Gos : go'[d].conn = c /\ go'[d].pc \in {"device", "set", "replace", "clear"}
    BY <2>5
  <2>9. QED
    BY <1>0, <2>6, <2>7, <2>8, FlagStays
<1>6. ASSUME NEW h \in Handlers, LogoutKill(h) PROVE FlagIsLowered'
  BY <1>2, <1>6 DEF LogoutKill, maps, calls, ending, Locking
<1>7. ASSUME NEW h \in Handlers, NEW c \in Conns,
             StartGet(h, c) \/ Stop(h, c) \/ LogoutGet(h, c)
      PROVE  FlagIsLowered'
  <2>1. CASE Stop(h, c)
    BY <1>1, <2>1 DEF Stop, maps, calls, ending, Locking
  <2>2. CASE StartGet(h, c) \/ LogoutGet(h, c)
    BY <1>2, <2>2 DEF StartGet, LogoutGet, maps, calls, ending, Locking
  <2>3. QED
    BY <1>7, <2>1, <2>2
<1>8. ASSUME NEW g \in Gos, Events(g) \/ Handling(g)
      PROVE  FlagIsLowered'
  BY <1>1, <1>8 DEF Events, Handling, Drop, Redial, Evicted, EvictedKill, Receive, ReceiveGet, maps, calls, ending, Locking
<1>9. CASE ShutdownBegin \/ Shutdown
  BY <1>1, <1>9 DEF ShutdownBegin, Shutdown, ShutdownCancel, ShutdownOne, ShutdownWait, ShutdownReturn, maps, calls, ending, Locking
<1>10. CASE UNCHANGED vars
  BY <1>1, <1>10 DEF vars, maps, calls, ending, Locking
<1>11. QED
  BY <1>3, <1>4, <1>6, <1>7, <1>8, <1>9, <1>10, GoroutineFlag DEF Next, Starting

(* No connection stays marked as connecting with nobody to clear the mark,  *)
(* whatever fails, is killed or replaced, for any number of connections.    *)
THEOREM StartsAreNotRefusedForEver == Spec => []FlagIsLowered
<1>1. Init => FlagIsLowered
  BY DEF Init, FlagIsLowered
<1>2. QED
  BY <1>1, InvariantHolds, FlagNext, PTL DEF Spec

=============================================================================
