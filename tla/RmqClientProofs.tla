-------------------------- MODULE RmqClientProofs --------------------------
(* What holds of RmqClient for every set of connections, jobs and queues:  *)
(* typing, the map of the calls, the channels of the watched connection,   *)
(* the one connection that is up, and what a confirm says.                 *)
EXTENDS RmqClient, TLAPS

(* The parts of the type invariant, by what they are about.                *)
JobSet  == [pc : JobPC, kind : {"publish", "call"}, replyTo : Conns \cup {None},
            ch : Conns \cup {None}, confirmed : BOOLEAN, out : Outcome]
LoopSet == [pc : LoopPC, conn : Conns \cup {None}, attempt : 0..Attempts, starting : BOOLEAN]
ServeSet == [pc : {"loop", "serve", "done"}, ch : Conns \cup {None}]

LinksOK == /\ state \in States /\ conn \in Conns \cup {None}
           /\ publishCh \in Conns \cup {None} /\ replyCh \in Conns \cup {None}
           /\ cancelled \in BOOLEAN /\ shut \in ShutPC
LoopOK  == loop \in LoopSet /\ (loop.pc \in {"setup", "watch"} => loop.conn \in Conns)
JobsOK  == /\ mutex \in Jobs \cup {None} /\ pending \subseteq Jobs /\ box \in [Jobs -> Boxes]
           /\ job \in [Jobs -> JobSet]
           /\ \A j \in Jobs : job[j].pc \in {"send", "confirm"} <=> mutex = j
           /\ \A j \in Jobs : job[j].pc = "confirm" => job[j].ch \in Conns
ServedOK == /\ consumer \in [Queues -> ServeSet]
            /\ running \subseteq Queues \X Conns /\ ready \subseteq Queues
BrokerOK == /\ alive \subseteq dialled /\ dialled \subseteq Conns /\ stored \subseteq Jobs
            /\ wire \in [Conns -> Seq(Jobs)] /\ confirms \in [Conns -> Confirm \cup {None}]
TypeInv == LinksOK /\ LoopOK /\ JobsOK /\ ServedOK /\ BrokerOK

LEMMA TypeParts == TypeInv => TypeOK
BY DEF TypeInv, LinksOK, LoopOK, JobsOK, ServedOK, BrokerOK, TypeOK, JobSet, LoopSet, ServeSet

-----------------------------------------------------------------------------
(* Each helper keeps the part of the state it is about.                    *)

LEMMA CloseType ==
  ASSUME NEW k \in Conns, BrokerOK, ready \subseteq Queues, Close(k)
  PROVE  BrokerOK' /\ ready' \subseteq Queues
<1>1. PICK n \in 0..Len(wire[k]) : stored' = stored \cup {wire[k][i] : i \in 1..n}
  BY DEF Close
<1>2. wire[k] \in Seq(Jobs)
  BY DEF BrokerOK
<1>3. \A i \in 1..n : wire[k][i] \in Jobs
  BY <1>2
<1>4. stored' \subseteq Jobs
  BY <1>1, <1>3 DEF BrokerOK
<1>5. wire' \in [Conns -> Seq(Jobs)]
  BY DEF Close, BrokerOK
<1>6. alive' \subseteq dialled' /\ dialled' \subseteq Conns /\ confirms' \in [Conns -> Confirm \cup {None}]
  BY DEF Close, BrokerOK
<1>7. ready' \subseteq Queues
  BY DEF Close
<1> QED BY <1>4, <1>5, <1>6, <1>7 DEF BrokerOK

LEMMA FailPendingType ==
  ASSUME JobsOK, NEW err \in {"lost", "shutting"}, FailPending(err)
  PROVE  pending' \subseteq Jobs /\ box' \in [Jobs -> Boxes]
BY DEF JobsOK, FailPending, Boxes

LEMMA EndType ==
  ASSUME JobsOK, NEW j \in Jobs, NEW out \in Outcome, End(j, out), UNCHANGED box
  PROVE  JobsOK'
<1>0. [job[j] EXCEPT !.pc = "done", !.out = out] \in JobSet
  BY DEF JobsOK, JobSet, JobPC
<1>1. job' \in [Jobs -> JobSet]
  <2>1. \A i \in Jobs : job'[i] = IF i = j THEN [job[j] EXCEPT !.pc = "done", !.out = out] ELSE job[i]
    BY DEF JobsOK, End
  <2>2. job' = [i \in Jobs |-> job'[i]]
    BY DEF JobsOK, End
  <2> QED BY <1>0, <2>1, <2>2 DEF JobsOK
<1>2. \A i \in Jobs : job'[i].pc = IF i = j THEN "done" ELSE job[i].pc
  BY DEF JobsOK, End, JobSet
<1>3. \A i \in Jobs : job'[i].ch = job[i].ch
  BY DEF JobsOK, End, JobSet
<1>4. None \notin Jobs
  BY RmqAssumption
<1> QED BY <1>1, <1>2, <1>3, <1>4 DEF JobsOK, End

LEMMA StepType ==
  ASSUME JobsOK, NEW j \in Jobs, NEW pc \in JobPC, Step(j, pc)
  PROVE  /\ job' \in [Jobs -> JobSet]
         /\ \A i \in Jobs : /\ job'[i].pc = IF i = j THEN pc ELSE job[i].pc
                            /\ job'[i].ch = job[i].ch
BY DEF JobsOK, Step, JobSet

-----------------------------------------------------------------------------
(* The steps of the loop keep the types.                                   *)
LEMMA LoopType ==
  ASSUME TypeInv, Start \/ Loop
  PROVE  TypeInv'
<1> USE RmqAssumption DEF LoopSet, LoopPC, States
<1>0. 1 \in 0..Attempts /\ \A n \in 0..Attempts : n < Attempts => n + 1 \in 0..Attempts
  OBVIOUS
<1>1. CASE Start
  <2>1. loop' \in LoopSet
    BY <1>0, <1>1 DEF Start, TypeInv, LoopOK
  <2> QED BY <1>1, <2>1 DEF Start, TypeInv, LinksOK, LoopOK, JobsOK, ServedOK, BrokerOK, channels, calls, consume, broker
<1>2. ASSUME NEW pc \in LoopPC, GoTo(pc)
      PROVE  loop' \in LoopSet /\ loop'.pc = pc /\ loop'.conn = loop.conn
  BY <1>2 DEF GoTo, TypeInv, LoopOK
<1>3. ASSUME GiveUp
      PROVE  loop' \in LoopSet /\ loop'.pc = "done" /\ state' \in States
  BY <1>3 DEF GiveUp, TypeInv, LoopOK
<1>4. ASSUME NextAttempt
      PROVE  loop' \in LoopSet /\ loop'.pc \in {"check", "done"} /\ state' \in States
  <2>1. CASE loop.attempt < Attempts /\ loop' = [loop EXCEPT !.pc = "check", !.attempt = @ + 1] /\ UNCHANGED state
    BY <1>0, <2>1 DEF TypeInv, LoopOK, LinksOK
  <2>2. CASE GiveUp
    BY <2>2, <1>3
  <2> QED BY <1>4, <2>1, <2>2 DEF NextAttempt
<1>5. CASE CheckContext
  <2>1. loop' \in LoopSet /\ loop'.pc \in {"dial", "done"} /\ state' \in States
    BY <1>2, <1>3, <1>5 DEF CheckContext, TypeInv, LinksOK
  <2> QED BY <1>5, <2>1 DEF CheckContext, TypeInv, LinksOK, LoopOK, JobsOK, ServedOK, BrokerOK, channels, calls, consume, broker
<1>6. CASE \E k \in Conns : Dial(k)
  <2>1. PICK k \in Conns : Dial(k)
    BY <1>6
  <2>2. loop' \in LoopSet /\ loop'.pc = "setup" /\ loop'.conn = k
    BY <2>1 DEF Dial, TypeInv, LoopOK
  <2>3. BrokerOK'
    BY <2>1 DEF Dial, TypeInv, BrokerOK
  <2> QED BY <2>1, <2>2, <2>3 DEF Dial, TypeInv, LinksOK, LoopOK, JobsOK, ServedOK, channels, calls, consume
<1>7. CASE DialFails
  <2>1. loop' \in LoopSet /\ loop'.pc \in {"check", "done"} /\ state' \in States
    BY <1>4, <1>7 DEF DialFails
  <2> QED BY <1>7, <2>1 DEF DialFails, TypeInv, LinksOK, LoopOK, JobsOK, ServedOK, BrokerOK, channels, calls, consume, broker
<1>8. CASE SetupChannels
  <2>1. loop' \in LoopSet /\ loop'.pc = "up"
    BY <1>2, <1>8 DEF SetupChannels
  <2> QED BY <1>8, <2>1 DEF SetupChannels, TypeInv, LinksOK, LoopOK, JobsOK, ServedOK, BrokerOK, calls, consume, broker
<1>9. CASE SetupFails
  <2>1. loop' \in LoopSet /\ loop'.pc \in {"check", "done"} /\ state' \in States
    BY <1>4, <1>9 DEF SetupFails
  <2>2. BrokerOK' /\ ready' \subseteq Queues
    BY <1>9, CloseType DEF SetupFails, TypeInv, LoopOK, ServedOK
  <2> QED BY <1>9, <2>1, <2>2 DEF SetupFails, TypeInv, LinksOK, LoopOK, JobsOK, ServedOK, calls
<1>10. CASE Up
  <2>1. loop' \in LoopSet /\ loop'.pc = "top"
    BY <1>10 DEF Up, TypeInv, LoopOK
  <2> QED BY <1>10, <2>1 DEF Up, TypeInv, LinksOK, LoopOK, JobsOK, ServedOK, BrokerOK, channels, calls, consume, broker
<1>11. CASE NotifyClose
  <2>1. loop' \in LoopSet /\ (loop'.pc = "watch" => loop'.conn \in Conns) /\ loop'.pc \in {"watch", "done"}
    BY <1>11 DEF NotifyClose, TypeInv, LoopOK, LinksOK, BrokerOK
  <2> QED BY <1>11, <2>1 DEF NotifyClose, TypeInv, LinksOK, LoopOK, JobsOK, ServedOK, BrokerOK, channels, calls, consume, broker
<1>12. CASE Watch
  <2>1. loop' \in LoopSet /\ loop'.pc \in {"lost", "done"}
    BY <1>2, <1>12 DEF Watch
  <2> QED BY <1>12, <2>1 DEF Watch, TypeInv, LinksOK, LoopOK, JobsOK, ServedOK, BrokerOK, channels, calls, consume, broker
<1>13. CASE Lost
  <2>1. loop' \in LoopSet /\ loop'.pc = "fail"
    BY <1>2, <1>13 DEF Lost
  <2> QED BY <1>13, <2>1 DEF Lost, TypeInv, LinksOK, LoopOK, JobsOK, ServedOK, BrokerOK, channels, calls, consume, broker
<1>14. CASE FailCalls
  <2>1. loop' \in LoopSet /\ loop'.pc = "clear"
    BY <1>2, <1>14 DEF FailCalls
  <2>2. pending' \subseteq Jobs /\ box' \in [Jobs -> Boxes]
    BY <1>14, FailPendingType DEF FailCalls, TypeInv
  <2> QED BY <1>14, <2>1, <2>2 DEF FailCalls, TypeInv, LinksOK, LoopOK, JobsOK, ServedOK, BrokerOK, channels, consume, broker
<1>15. CASE Clear
  <2>1. loop' \in LoopSet /\ loop'.pc = "check"
    BY <1>0, <1>15 DEF Clear, TypeInv, LoopOK
  <2> QED BY <1>15, <2>1 DEF Clear, TypeInv, LinksOK, LoopOK, JobsOK, ServedOK, BrokerOK, calls, consume, broker
<1> QED BY <1>1, <1>5, <1>6, <1>7, <1>8, <1>9, <1>10, <1>11, <1>12, <1>13, <1>14, <1>15 DEF Loop

(* A job's record changes, and its program counter does not touch the mutex. *)
LEMMA JobType ==
  ASSUME JobsOK, NEW j \in Jobs, NEW new \in JobSet,
         \A i \in Jobs : job'[i] = IF i = j THEN new ELSE job[i],
         DOMAIN job' = Jobs, job' = [i \in DOMAIN job' |-> job'[i]],
         new.pc = "confirm" => new.ch \in Conns,
         UNCHANGED box, pending' \subseteq Jobs,
         \/ mutex' = mutex /\ (new.pc \in {"send", "confirm"} <=> job[j].pc \in {"send", "confirm"})
         \/ mutex = None /\ mutex' = j /\ new.pc \in {"send", "confirm"}
         \/ mutex = j /\ mutex' = None /\ new.pc \notin {"send", "confirm"}
  PROVE  JobsOK'
<1>1. job' \in [Jobs -> JobSet]
  BY DEF JobsOK
<1>2. mutex' \in Jobs \cup {None} /\ None \notin Jobs
  BY RmqAssumption DEF JobsOK
<1> HIDE DEF JobSet
<1> QED BY <1>1, <1>2 DEF JobsOK

LEMMA EndedType ==
  ASSUME TypeInv, NEW j \in Jobs, NEW out \in Outcome, End(j, out), UNCHANGED box,
         UNCHANGED <<state, channels, loop, cancelled, shut, consume>>, BrokerOK'
  PROVE  TypeInv'
<1>1. JobsOK'
  BY EndType DEF TypeInv
<1> QED BY <1>1 DEF TypeInv, LinksOK, LoopOK, ServedOK, channels, consume

LEMMA BeginType ==
  ASSUME TypeInv, NEW j \in Jobs, NEW kind \in Kinds, Begin(j, kind)
  PROVE  TypeInv'
<1>1. CASE job' = [job EXCEPT ![j].pc = "done", ![j].out = "refused"]
  <2> DEFINE new == [job[j] EXCEPT !.pc = "done", !.out = "refused"]
  <2>1. new \in JobSet /\ new.pc = "done"
    BY DEF TypeInv, JobsOK, JobSet, JobPC, Outcome
  <2>2. \A i \in Jobs : job'[i] = IF i = j THEN new ELSE job[i]
    BY <1>1 DEF TypeInv, JobsOK
  <2>3. DOMAIN job' = Jobs /\ job' = [i \in DOMAIN job' |-> job'[i]]
    BY <1>1 DEF TypeInv, JobsOK
  <2>4. job[j].pc = "idle" /\ UNCHANGED <<box, pending, mutex>> /\ pending \subseteq Jobs
    BY DEF Begin, calls, TypeInv, JobsOK
  <2> HIDE DEF new
  <2>5. JobsOK'
    BY <2>1, <2>2, <2>3, <2>4, JobType DEF TypeInv
  <2> QED BY <2>5 DEF Begin, TypeInv, LinksOK, LoopOK, ServedOK, BrokerOK, channels, consume, broker
<1>2. CASE job' = [job EXCEPT ![j].kind = kind, ![j].replyTo = replyCh,
                              ![j].pc = IF kind = "call" THEN "register" ELSE "lock"]
  <2> DEFINE pc  == IF kind = "call" THEN "register" ELSE "lock"
             new == [job[j] EXCEPT !.kind = kind, !.replyTo = replyCh, !.pc = pc]
  <2>0. pc \in {"register", "lock"}
    OBVIOUS
  <2> HIDE DEF pc
  <2>1. new \in JobSet /\ new.pc = pc
    <3>1. kind \in {"publish", "call"} /\ replyCh \in Conns \cup {None} /\ pc \in JobPC /\ job[j] \in JobSet
      BY <2>0, RmqAssumption DEF TypeInv, LinksOK, JobsOK, JobPC
    <3>2. new \in JobSet
      BY <3>1 DEF JobSet
    <3>3. new.pc = pc
      BY <3>1 DEF JobSet
    <3> QED BY <3>2, <3>3
  <2>2. \A i \in Jobs : job'[i] = IF i = j THEN new ELSE job[i]
    BY <1>2 DEF TypeInv, JobsOK, pc
  <2>3. DOMAIN job' = Jobs /\ job' = [i \in DOMAIN job' |-> job'[i]]
    BY <1>2 DEF TypeInv, JobsOK
  <2>4. job[j].pc = "idle" /\ UNCHANGED <<box, pending, mutex>> /\ pending \subseteq Jobs
    BY DEF Begin, calls, TypeInv, JobsOK
  <2> HIDE DEF new
  <2>5. JobsOK'
    BY <2>0, <2>1, <2>2, <2>3, <2>4, JobType DEF TypeInv
  <2> QED BY <2>5 DEF Begin, TypeInv, LinksOK, LoopOK, ServedOK, BrokerOK, channels, consume, broker
<1> QED BY <1>1, <1>2 DEF Begin

LEMMA RegisterType ==
  ASSUME TypeInv, NEW j \in Jobs, Register(j)
  PROVE  TypeInv'
<1>1. Step(j, "lock") /\ job[j].pc = "register" /\ "lock" \in JobPC
  BY DEF Register, JobPC
<1>2. JobsOK'
  BY <1>1, StepType DEF Register, TypeInv, JobsOK
<1> QED BY <1>2 DEF Register, TypeInv, LinksOK, LoopOK, ServedOK, BrokerOK, channels, consume, broker

LEMMA LockType ==
  ASSUME TypeInv, NEW j \in Jobs, Lock(j)
  PROVE  TypeInv'
<1>1. CASE End(j, "refused")
  BY <1>1, EndedType DEF Lock, TypeInv, BrokerOK, broker, Outcome
<1>2. CASE mutex' = j /\ Step(j, "send") /\ UNCHANGED pending
  <2>1. "send" \in JobPC
    BY DEF JobPC
  <2>2. JobsOK'
    BY <1>2, <2>1, StepType, RmqAssumption DEF Lock, TypeInv, JobsOK
  <2> QED BY <2>2 DEF Lock, TypeInv, LinksOK, LoopOK, ServedOK, BrokerOK, channels, consume, broker
<1> QED BY <1>1, <1>2 DEF Lock

LEMMA SendType ==
  ASSUME TypeInv, NEW j \in Jobs, Send(j)
  PROVE  TypeInv'
<1>1. CASE (End(j, "panic") \/ End(j, "failed")) /\ UNCHANGED wire
  BY <1>1, EndedType DEF Send, TypeInv, BrokerOK, Outcome
<1>2. CASE /\ publishCh # None /\ wire' = [wire EXCEPT ![publishCh] = Append(@, j)]
           /\ job' = [job EXCEPT ![j].pc = "confirm", ![j].ch = publishCh]
           /\ UNCHANGED <<mutex, pending>>
  <2> DEFINE new == [job[j] EXCEPT !.pc = "confirm", !.ch = publishCh]
  <2>0. publishCh \in Conns
    BY <1>2 DEF TypeInv, LinksOK
  <2>1. new \in JobSet /\ new.pc = "confirm" /\ new.ch \in Conns
    BY <2>0 DEF TypeInv, JobsOK, JobSet, JobPC
  <2>2. \A i \in Jobs : job'[i] = IF i = j THEN new ELSE job[i]
    BY <1>2 DEF TypeInv, JobsOK
  <2>3. DOMAIN job' = Jobs /\ job' = [i \in DOMAIN job' |-> job'[i]]
    BY <1>2 DEF TypeInv, JobsOK
  <2>4. job[j].pc = "send" /\ UNCHANGED <<box, pending, mutex>> /\ pending \subseteq Jobs
    BY <1>2 DEF Send, TypeInv, JobsOK
  <2> HIDE DEF new
  <2>5. JobsOK'
    BY <2>1, <2>2, <2>3, <2>4, JobType DEF TypeInv
  <2>6. wire' \in [Conns -> Seq(Jobs)]
    BY <1>2, <2>0 DEF TypeInv, BrokerOK
  <2> QED BY <2>5, <2>6 DEF Send, TypeInv, LinksOK, LoopOK, ServedOK, BrokerOK, channels, consume
<1> QED BY <1>1, <1>2 DEF Send

LEMMA ConfirmedType ==
  ASSUME TypeInv, NEW j \in Jobs, Confirmed(j)
  PROVE  TypeInv'
<1>1. BrokerOK'
  BY DEF Confirmed, TypeInv, BrokerOK
<1>2. CASE End(j, "failed")
  BY <1>1, <1>2, EndedType DEF Confirmed, Outcome
<1>3. CASE job' = [job EXCEPT ![j].pc = "done", ![j].out = "sent", ![j].confirmed = TRUE] /\ mutex' = None /\ UNCHANGED pending
  <2> DEFINE new == [job[j] EXCEPT !.pc = "done", !.out = "sent", !.confirmed = TRUE]
  <2>1. new \in JobSet /\ new.pc = "done"
    BY DEF TypeInv, JobsOK, JobSet, JobPC, Outcome
  <2>2. \A i \in Jobs : job'[i] = IF i = j THEN new ELSE job[i]
    BY <1>3 DEF TypeInv, JobsOK
  <2>3. DOMAIN job' = Jobs /\ job' = [i \in DOMAIN job' |-> job'[i]]
    BY <1>3 DEF TypeInv, JobsOK
  <2>4. job[j].pc = "confirm" /\ UNCHANGED <<box, pending>> /\ pending \subseteq Jobs
        /\ mutex = j /\ mutex' = None
    BY <1>3 DEF Confirmed, TypeInv, JobsOK
  <2> HIDE DEF new
  <2>5. JobsOK'
    BY <2>1, <2>2, <2>3, <2>4, JobType DEF TypeInv
  <2> QED BY <1>1, <2>5 DEF Confirmed, TypeInv, LinksOK, LoopOK, ServedOK, channels, consume
<1>4. CASE job' = [job EXCEPT ![j].pc = "reply", ![j].confirmed = TRUE] /\ mutex' = None /\ UNCHANGED pending
  <2> DEFINE new == [job[j] EXCEPT !.pc = "reply", !.confirmed = TRUE]
  <2>1. new \in JobSet /\ new.pc = "reply"
    BY DEF TypeInv, JobsOK, JobSet, JobPC
  <2>2. \A i \in Jobs : job'[i] = IF i = j THEN new ELSE job[i]
    BY <1>4 DEF TypeInv, JobsOK
  <2>3. DOMAIN job' = Jobs /\ job' = [i \in DOMAIN job' |-> job'[i]]
    BY <1>4 DEF TypeInv, JobsOK
  <2>4. job[j].pc = "confirm" /\ UNCHANGED <<box, pending>> /\ pending \subseteq Jobs
        /\ mutex = j /\ mutex' = None
    BY <1>4 DEF Confirmed, TypeInv, JobsOK
  <2> HIDE DEF new
  <2>5. JobsOK'
    BY <2>1, <2>2, <2>3, <2>4, JobType DEF TypeInv
  <2> QED BY <1>1, <2>5 DEF Confirmed, TypeInv, LinksOK, LoopOK, ServedOK, channels, consume
<1> QED BY <1>2, <1>3, <1>4 DEF Confirmed

LEMMA ContinueType ==
  ASSUME TypeInv, NEW j \in Jobs, Continue(j)
  PROVE  TypeInv'
<1>1. ASSUME NEW out \in Outcome, End(j, out),
             UNCHANGED <<state, channels, box, loop, cancelled, shut, consume, broker>>
      PROVE  TypeInv'
  BY <1>1, EndedType DEF TypeInv, BrokerOK, broker
<1>2. CASE ConfirmsClosed(j)
  BY <1>1, <1>2 DEF ConfirmsClosed, Outcome
<1>3. CASE ConfirmTimeout(j)
  BY <1>1, <1>3 DEF ConfirmTimeout, Outcome
<1>4. CASE TakeReply(j)
  BY <1>1, <1>4 DEF TakeReply, Outcome
<1>5. CASE CallTimeout(j)
  BY <1>1, <1>5 DEF CallTimeout, Outcome
<1> QED BY <1>2, <1>3, <1>4, <1>5, RegisterType, LockType, SendType, ConfirmedType DEF Continue

(* The shutdown, the broker and the consumers.                             *)
LEMMA ShutdownType ==
  ASSUME TypeInv, ShutdownBegin \/ Shutdown
  PROVE  TypeInv'
<1> USE DEF ShutPC, States
<1>1. CASE ShutdownBegin
  BY <1>1 DEF ShutdownBegin, TypeInv, LinksOK, LoopOK, JobsOK, ServedOK, BrokerOK, channels, calls, consume, broker
<1>2. CASE ShutdownFailCalls
  <2>1. pending' \subseteq Jobs /\ box' \in [Jobs -> Boxes]
    BY <1>2, FailPendingType DEF ShutdownFailCalls, TypeInv
  <2> QED BY <1>2, <2>1 DEF ShutdownFailCalls, TypeInv, LinksOK, LoopOK, JobsOK, ServedOK, BrokerOK, channels, consume, broker
<1>3. CASE ShutdownWait
  BY <1>3 DEF ShutdownWait, TypeInv, LinksOK, LoopOK, JobsOK, ServedOK, BrokerOK, channels, calls, consume, broker
<1>4. CASE ShutdownClose
  <2>1. BrokerOK' /\ ready' \subseteq Queues
    <3>1. CASE conn = None
      BY <1>4, <3>1 DEF ShutdownClose, TypeInv, BrokerOK, ServedOK, broker
    <3>2. CASE conn # None
      BY <1>4, <3>2, CloseType DEF ShutdownClose, TypeInv, LinksOK, ServedOK
    <3> QED BY <3>1, <3>2
  <2> QED BY <1>4, <2>1 DEF ShutdownClose, TypeInv, LinksOK, LoopOK, JobsOK, ServedOK, calls
<1>5. CASE ShutdownReturn
  BY <1>5 DEF ShutdownReturn, TypeInv, LinksOK, LoopOK, JobsOK, ServedOK, BrokerOK, channels, calls, consume, broker
<1>6. CASE ShutdownLate
  BY <1>6 DEF ShutdownLate, TypeInv, LinksOK, LoopOK, JobsOK, ServedOK, BrokerOK, channels, calls, consume, broker
<1> QED BY <1>1, <1>2, <1>3, <1>4, <1>5, <1>6 DEF Shutdown

LEMMA AcceptType ==
  ASSUME TypeInv, NEW k \in Conns, NEW ack \in BOOLEAN, Accept(k, ack)
  PROVE  TypeInv'
<1>1. wire[k] \in Seq(Jobs) /\ wire[k] # <<>>
  BY DEF Accept, TypeInv, BrokerOK
<1>2. Head(wire[k]) \in Jobs /\ Tail(wire[k]) \in Seq(Jobs)
  BY <1>1
<1>3. [job |-> Head(wire[k]), ack |-> ack] \in Confirm
  BY <1>2 DEF Confirm
<1>4. BrokerOK'
  BY <1>2, <1>3 DEF Accept, TypeInv, BrokerOK
<1> QED BY <1>4 DEF Accept, TypeInv, LinksOK, LoopOK, JobsOK, ServedOK, channels, calls, consume

LEMMA OutsideType ==
  ASSUME TypeInv
  PROVE  /\ \A j \in Jobs : ReplyArrives(j) => TypeInv'
         /\ \A k \in Conns : Break(k) => TypeInv'
<1>1. ASSUME NEW j \in Jobs, ReplyArrives(j)
      PROVE  TypeInv'
  <2>1. JobsOK'
    BY <1>1 DEF ReplyArrives, TypeInv, JobsOK, Boxes
  <2> QED BY <1>1, <2>1 DEF ReplyArrives, TypeInv, LinksOK, LoopOK, ServedOK, BrokerOK, channels, consume, broker
<1>2. ASSUME NEW k \in Conns, Break(k)
      PROVE  TypeInv'
  <2>1. BrokerOK' /\ ready' \subseteq Queues
    BY <1>2, CloseType DEF Break, TypeInv, ServedOK
  <2> QED BY <1>2, <2>1 DEF Break, TypeInv, LinksOK, LoopOK, JobsOK, ServedOK, channels, calls
<1> QED BY <1>1, <1>2

LEMMA ServedType ==
  ASSUME TypeInv, Handler \/ \E q \in Queues : Consumer(q) \/ Dispatch(q)
  PROVE  TypeInv'
<1>1. ServedOK' /\ UNCHANGED <<state, channels, mutex, calls, job, loop, cancelled, shut, broker>>
  <2>1. CASE Handler
    BY <2>1 DEF Handler, HandlerEnds, TypeInv, ServedOK
  <2>2. ASSUME NEW q \in Queues, ConsumerEnds(q)
        PROVE  ServedOK'
    BY <2>2 DEF ConsumerEnds, SetConsumer, ServeSet, TypeInv, ServedOK
  <2>3. ASSUME NEW q \in Queues, Subscribe(q)
        PROVE  ServedOK'
    BY <2>3 DEF Subscribe, SetConsumer, ServeSet, TypeInv, ServedOK, LinksOK
  <2>4. ASSUME NEW q \in Queues, DispatchEnds(q)
        PROVE  ServedOK'
    BY <2>4 DEF DispatchEnds, SetConsumer, ServeSet, TypeInv, ServedOK
  <2>5. ASSUME NEW q \in Queues, Dispatch(q)
        PROVE  ServedOK'
    <3>1. consumer[q].ch \in Conns
      BY <2>5 DEF Dispatch, Serving, TypeInv, ServedOK, BrokerOK, ServeSet
    <3> QED BY <2>5, <3>1 DEF Dispatch, TypeInv, ServedOK
  <2>6. ServedOK'
    BY <2>1, <2>2, <2>3, <2>4, <2>5 DEF Consumer
  <2> QED BY <2>6 DEF Handler, HandlerEnds, Consumer, ConsumerEnds, Subscribe, DispatchEnds, Dispatch
<1> QED BY <1>1 DEF TypeInv, LinksOK, LoopOK, JobsOK, BrokerOK, channels, calls, broker

LEMMA TypeStep ==
  ASSUME TypeInv, [Next]_vars
  PROVE  TypeInv'
<1>1. CASE UNCHANGED vars
  BY <1>1 DEF vars, TypeInv, LinksOK, LoopOK, JobsOK, ServedOK, BrokerOK, channels, calls, consume, broker
<1>2. CASE \E j \in Jobs : (\E kind \in Kinds : Begin(j, kind)) \/ Continue(j) \/ ReplyArrives(j)
  BY <1>2, BeginType, ContinueType, OutsideType
<1>3. CASE \E k \in Conns : (\E ack \in BOOLEAN : Accept(k, ack)) \/ Break(k)
  BY <1>3, AcceptType, OutsideType
<1> QED BY <1>1, <1>2, <1>3, LoopType, ShutdownType, ServedType DEF Next

LEMMA AlwaysTyped == Spec => []TypeInv
<1>1. Init => TypeInv
  <2> SUFFICES ASSUME Init PROVE TypeInv
    OBVIOUS
  <2>1. LinksOK /\ LoopOK
    <3>1. loop \in LoopSet /\ loop.pc = "new"
      BY RmqAssumption DEF Init, LoopSet, LoopPC
    <3> QED BY <3>1 DEF Init, LinksOK, LoopOK, States, ShutPC
  <2>2. JobsOK
    <3>1. NewJob \in JobSet /\ NewJob.pc = "idle"
      BY DEF NewJob, JobSet, JobPC, Outcome
    <3> QED BY <3>1, RmqAssumption DEF Init, JobsOK, Boxes
  <2>3. ServedOK
    BY DEF Init, ServedOK, ServeSet
  <2>4. BrokerOK
    BY DEF Init, BrokerOK
  <2> QED BY <2>1, <2>2, <2>3, <2>4 DEF TypeInv
<1> QED BY <1>1, TypeStep, PTL DEF Spec

(* The variables keep their types, and the publisher that holds publishMu  *)
(* is the one between its lock and its confirm (publishBytes).             *)
THEOREM TypeCorrect == Spec => []TypeOK
<1> QED BY AlwaysTyped, TypeParts, PTL

-----------------------------------------------------------------------------
(* The map of the calls.  A step that takes a call out of it, or that ends *)
(* in one of the places where a call waits, leaves the call with a reason. *)
Waits(j) == job[j].kind = "call" /\ job[j].pc \in {"lock", "send", "confirm", "reply"}

LEMMA FailPendingTells ==
  ASSUME TypeInv, NEW err \in {"lost", "shutting"}, FailPending(err), UNCHANGED job, NEW i \in Jobs,
         i \in pending \/ box[i] # "empty"
  PROVE  box'[i] # "empty" /\ (Waits(i)' <=> Waits(i))
<1>1. box'[i] = IF i \in pending /\ box[i] = "empty" THEN err ELSE box[i]
  BY DEF FailPending
<1> QED BY <1>1 DEF Waits

LEMMA EndForgetsOne ==
  ASSUME TypeInv, NEW j \in Jobs, NEW out \in Outcome, End(j, out), UNCHANGED box, NEW i \in Jobs
  PROVE  Waits(i)' => Waits(i) /\ (i \in pending => i \in pending') /\ box'[i] = box[i]
<1>1. /\ job'[i].pc = IF i = j THEN "done" ELSE job[i].pc
      /\ job'[i].kind = job[i].kind
  BY DEF End, TypeInv, JobsOK, JobSet
<1> QED BY <1>1 DEF Waits, End

LEMMA JobKeepsCalls ==
  ASSUME TypeInv, NoForgottenCall, NEW j \in Jobs, Continue(j) \/ \E kind \in Kinds : Begin(j, kind)
  PROVE  NoForgottenCall'
<1> SUFFICES ASSUME NEW i \in Jobs, Waits(i)'
             PROVE  i \in pending' \/ box'[i] # "empty"
  BY DEF NoForgottenCall, Waits
<1>0. Waits(i) => i \in pending \/ box[i] # "empty"
  BY DEF NoForgottenCall, Waits
<1>1. ASSUME NEW out \in Outcome, End(j, out), UNCHANGED box
      PROVE  i \in pending' \/ box'[i] # "empty"
  BY <1>0, <1>1, EndForgetsOne
<1>2. ASSUME UNCHANGED <<pending, box>>, job'[i].kind = job[i].kind,
             i # j => job'[i] = job[i],
             job[j].pc \in {"lock", "send", "confirm", "reply"}
      PROVE  i \in pending' \/ box'[i] # "empty"
  BY <1>0, <1>2 DEF Waits
<1>3. CASE \E kind \in Kinds : Begin(j, kind)
  <2>1. PICK kind \in Kinds : Begin(j, kind)
    BY <1>3
  <2>2. UNCHANGED <<pending, box>> /\ (i # j => job'[i] = job[i])
    BY <2>1 DEF Begin, calls, TypeInv, JobsOK
  <2>3. i = j => ~Waits(i)'
    <3>1. CASE job' = [job EXCEPT ![j].pc = "done", ![j].out = "refused"]
      <4>1. job'[j].pc = "done"
        BY <3>1 DEF TypeInv, JobsOK, JobSet
      <4> QED BY <4>1 DEF Waits
    <3>2. CASE job' = [job EXCEPT ![j].kind = kind, ![j].replyTo = replyCh,
                                  ![j].pc = IF kind = "call" THEN "register" ELSE "lock"]
      <4>1. job'[j].kind = kind
        BY <3>2 DEF TypeInv, JobsOK, JobSet
      <4>2. job'[j].pc = IF kind = "call" THEN "register" ELSE "lock"
        BY <3>2 DEF TypeInv, JobsOK, JobSet
      <4> QED BY <4>1, <4>2 DEF Waits
    <3> QED BY <2>1, <3>1, <3>2 DEF Begin
  <2> QED BY <1>0, <2>2, <2>3 DEF Waits
<1>4. CASE Register(j)
  <2>1. pending' = pending \cup {j} /\ UNCHANGED box /\ (i # j => job'[i] = job[i])
    BY <1>4 DEF Register, Step, TypeInv, JobsOK
  <2> QED BY <1>0, <2>1 DEF Waits
<1>5. CASE Lock(j)
  <2>1. CASE End(j, "refused")
    BY <1>1, <1>5, <2>1 DEF Lock, Outcome
  <2>2. CASE Step(j, "send") /\ UNCHANGED pending
    BY <1>2, <1>5, <2>2 DEF Lock, Step, TypeInv, JobsOK, JobSet
  <2> QED BY <1>5, <2>1, <2>2 DEF Lock
<1>6. CASE Send(j)
  <2>1. CASE End(j, "panic") \/ End(j, "failed")
    BY <1>1, <1>6, <2>1 DEF Send, Outcome
  <2>2. CASE job' = [job EXCEPT ![j].pc = "confirm", ![j].ch = publishCh] /\ UNCHANGED <<mutex, pending>>
    <3>1. job'[i].kind = job[i].kind /\ (i # j => job'[i] = job[i])
      BY <2>2 DEF TypeInv, JobsOK, JobSet
    <3>2. UNCHANGED <<pending, box>> /\ job[j].pc = "send"
      BY <1>6, <2>2 DEF Send
    <3> QED BY <1>2, <3>1, <3>2
  <2> QED BY <1>6, <2>1, <2>2 DEF Send
<1>7. CASE Confirmed(j)
  <2>1. CASE End(j, "failed")
    BY <1>1, <1>7, <2>1 DEF Confirmed, Outcome
  <2>2. CASE /\ UNCHANGED pending
             /\ \/ job' = [job EXCEPT ![j].pc = "done", ![j].out = "sent", ![j].confirmed = TRUE]
                \/ job' = [job EXCEPT ![j].pc = "reply", ![j].confirmed = TRUE]
    <3>1. job'[i].kind = job[i].kind /\ (i # j => job'[i] = job[i])
      BY <2>2 DEF TypeInv, JobsOK, JobSet
    <3>2. UNCHANGED <<pending, box>> /\ job[j].pc = "confirm"
      BY <1>7, <2>2 DEF Confirmed
    <3> QED BY <1>2, <3>1, <3>2
  <2> QED BY <1>7, <2>1, <2>2 DEF Confirmed
<1>8. CASE ConfirmsClosed(j) \/ ConfirmTimeout(j) \/ CallTimeout(j)
  BY <1>1, <1>8 DEF ConfirmsClosed, ConfirmTimeout, CallTimeout, Outcome
<1>9. CASE TakeReply(j)
  BY <1>1, <1>9 DEF TakeReply, Outcome
<1> QED BY <1>3, <1>4, <1>5, <1>6, <1>7, <1>8, <1>9 DEF Continue

LEMMA OthersKeepCalls ==
  ASSUME TypeInv, NoForgottenCall, UNCHANGED job,
         \/ UNCHANGED calls
         \/ \E err \in {"lost", "shutting"} : FailPending(err)
         \/ \E j \in Jobs : ReplyArrives(j)
  PROVE  NoForgottenCall'
<1>1. CASE UNCHANGED calls
  BY <1>1 DEF calls, NoForgottenCall
<1>2. CASE \E err \in {"lost", "shutting"} : FailPending(err)
  BY <1>2, FailPendingTells DEF NoForgottenCall
<1>3. CASE \E j \in Jobs : ReplyArrives(j)
  <2>1. PICK j \in Jobs : ReplyArrives(j)
    BY <1>3
  <2>2. /\ pending' = pending
        /\ \A i \in Jobs : box'[i] = IF i = j THEN "reply" ELSE box[i]
    BY <2>1 DEF ReplyArrives, TypeInv, JobsOK
  <2> QED BY <2>2 DEF NoForgottenCall
<1> QED BY <1>1, <1>2, <1>3

LEMMA CallsStep ==
  ASSUME TypeInv, NoForgottenCall, [Next]_vars
  PROVE  NoForgottenCall'
<1>1. CASE \E j \in Jobs : Continue(j) \/ \E kind \in Kinds : Begin(j, kind)
  BY <1>1, JobKeepsCalls
<1>2. CASE FailCalls
  BY <1>2, OthersKeepCalls DEF FailCalls
<1>3. CASE ShutdownFailCalls
  BY <1>3, OthersKeepCalls DEF ShutdownFailCalls
<1>4. CASE \E j \in Jobs : ReplyArrives(j)
  BY <1>4, OthersKeepCalls DEF ReplyArrives
<1>5. CASE UNCHANGED vars
  BY <1>5, OthersKeepCalls DEF vars
<1>6. CASE Start \/ CheckContext \/ (\E k \in Conns : Dial(k)) \/ DialFails \/ SetupChannels \/ SetupFails
           \/ Up \/ NotifyClose \/ Watch \/ Lost \/ Clear
  <2>1. UNCHANGED <<calls, job>>
    BY <1>6 DEF Start, CheckContext, Dial, DialFails, SetupChannels, SetupFails, Up, NotifyClose, Watch, Lost, Clear
  <2> QED BY <2>1, OthersKeepCalls
<1>7. CASE ShutdownBegin \/ ShutdownWait \/ ShutdownClose \/ ShutdownReturn \/ ShutdownLate
  <2>1. UNCHANGED <<calls, job>>
    BY <1>7 DEF ShutdownBegin, ShutdownWait, ShutdownClose, ShutdownReturn, ShutdownLate
  <2> QED BY <2>1, OthersKeepCalls
<1>8. CASE Handler \/ \E q \in Queues : Consumer(q) \/ Dispatch(q)
  <2>1. UNCHANGED <<calls, job>>
    BY <1>8 DEF Handler, HandlerEnds, Consumer, ConsumerEnds, Subscribe, DispatchEnds, Dispatch
  <2> QED BY <2>1, OthersKeepCalls
<1>9. CASE \E k \in Conns : (\E ack \in BOOLEAN : Accept(k, ack)) \/ Break(k)
  <2>1. UNCHANGED <<calls, job>>
    BY <1>9 DEF Accept, Break
  <2> QED BY <2>1, OthersKeepCalls
<1> QED BY <1>1, <1>2, <1>3, <1>4, <1>5, <1>6, <1>7, <1>8, <1>9 DEF Next, Loop, Shutdown

(* A call that waits is in the map of the pending calls or has its answer, *)
(* whoever fails calls at the same time (Call, failPendingRPCs, Shutdown). *)
THEOREM NobodyForgetsACall == Spec => []NoForgottenCall
<1>1. Init => NoForgottenCall
  BY DEF Init, NoForgottenCall, NewJob
<1> QED BY <1>1, CallsStep, AlwaysTyped, PTL DEF Spec

-----------------------------------------------------------------------------
(* The channels.  While the loop is past setupChannels and the shutdown has *)
(* not come to its last part, nobody but the loop changes them.            *)
ChannelsInv ==
  /\ loop.pc \in {"top", "watch"} => state \in {"connected", "shutting"}
  /\ shut \in {"no", "fail", "wait"} =>
       /\ loop.pc \in {"up", "top", "watch"} => publishCh = conn /\ replyCh = conn
       /\ loop.pc = "watch" => conn = loop.conn

LEMMA ChannelsUntouched ==
  ASSUME ChannelsInv, UNCHANGED <<state, channels, loop>>,
         shut' \in {"no", "fail", "wait"} => shut \in {"no", "fail", "wait"}
  PROVE  ChannelsInv'
BY DEF ChannelsInv, channels

LEMMA ChannelsStep ==
  ASSUME TypeInv, ChannelsInv, [Next]_vars
  PROVE  ChannelsInv'
<1> USE DEF TypeInv, LoopOK, LoopSet, LoopPC
<1>1. CASE UNCHANGED vars
  BY <1>1, ChannelsUntouched DEF vars
<1>2. CASE \E j \in Jobs : (\E kind \in Kinds : Begin(j, kind)) \/ Continue(j) \/ ReplyArrives(j)
  BY <1>2, ChannelsUntouched DEF Begin, Continue, Register, Lock, Send, Confirmed, ConfirmsClosed,
     ConfirmTimeout, TakeReply, CallTimeout, ReplyArrives
<1>3. CASE \E k \in Conns : (\E ack \in BOOLEAN : Accept(k, ack)) \/ Break(k)
  BY <1>3, ChannelsUntouched DEF Accept, Break
<1>4. CASE Handler \/ \E q \in Queues : Consumer(q) \/ Dispatch(q)
  BY <1>4, ChannelsUntouched DEF Handler, HandlerEnds, Consumer, ConsumerEnds, Subscribe, DispatchEnds, Dispatch
<1>5. CASE Shutdown
  <2>1. CASE ShutdownFailCalls \/ ShutdownWait \/ ShutdownReturn \/ ShutdownLate
    BY <2>1, ChannelsUntouched DEF ShutdownFailCalls, ShutdownWait, ShutdownReturn, ShutdownLate
  <2>2. CASE ShutdownClose
    BY <2>2 DEF ShutdownClose, ChannelsInv
  <2> QED BY <1>5, <2>1, <2>2 DEF Shutdown
<1>6. CASE ShutdownBegin
  BY <1>6 DEF ShutdownBegin, ChannelsInv, channels
<1>7. CASE Start
  BY <1>7 DEF Start, ChannelsInv, channels
<1>8. CASE CheckContext \/ DialFails \/ SetupFails
  <2>1. loop'.pc \in {"check", "dial", "done"}
    BY <1>8 DEF CheckContext, DialFails, SetupFails, NextAttempt, GiveUp, GoTo
  <2> QED BY <2>1 DEF ChannelsInv
<1>9. CASE \E k \in Conns : Dial(k)
  BY <1>9 DEF Dial, ChannelsInv
<1>10. CASE SetupChannels
  BY <1>10 DEF SetupChannels, GoTo, ChannelsInv
<1>11. CASE Up
  BY <1>11 DEF Up, ChannelsInv, channels
<1>12. CASE NotifyClose
  BY <1>12 DEF NotifyClose, ChannelsInv, channels
<1>13. CASE Watch \/ Lost \/ FailCalls \/ Clear
  BY <1>13 DEF Watch, Lost, FailCalls, Clear, GoTo, ChannelsInv
<1> QED BY <1>1, <1>2, <1>3, <1>4, <1>5, <1>6, <1>7, <1>8, <1>9, <1>10, <1>11, <1>12, <1>13 DEF Next, Loop

(* The watched connection is the one that publishes and takes replies,     *)
(* until the shutdown closes it (setupChannels, reconnectLoop, Shutdown).  *)
THEOREM ChannelsBelongTogether == Spec => []ChannelsOfOneConnection
<1>1. Init => ChannelsInv
  BY DEF Init, ChannelsInv
<1>2. Spec => []ChannelsInv
  BY <1>1, ChannelsStep, AlwaysTyped, PTL DEF Spec
<1>3. ChannelsInv => ChannelsOfOneConnection
  BY DEF ChannelsInv, ChannelsOfOneConnection
<1> QED BY <1>2, <1>3, PTL

-----------------------------------------------------------------------------
(* The connections that are up.                                            *)

(* A connection that is up is the one the client knows: no failed attempt, *)
(* reconnection or shutdown forgets one it has not closed, and there are   *)
(* never two, on which consumers or replies could be split.                *)
OneConnection == alive \subseteq {conn}

(* What the loop knows of c.conn, which the shutdown may have set to nil:  *)
(* before it dials there is none, and it holds on to the one it dialled.   *)
ConnInv ==
  /\ OneConnection
  /\ loop.pc \in {"new", "check", "dial"} => conn = None
  /\ loop.pc \in {"setup", "watch", "lost", "fail", "clear"} => conn \in {loop.conn, None}
  /\ loop.pc \in {"lost", "fail", "clear"} => loop.conn \notin alive

LEMMA ConnUntouched ==
  ASSUME ConnInv, UNCHANGED <<conn, loop>>, alive' \subseteq alive
  PROVE  ConnInv'
BY DEF ConnInv, OneConnection

LEMMA ConnStep ==
  ASSUME TypeInv, ConnInv, [Next]_vars
  PROVE  ConnInv'
<1>0. /\ loop \in LoopSet /\ loop.pc \in LoopPC
      /\ loop.pc \in {"setup", "watch"} => loop.conn \in Conns
      /\ alive \subseteq Conns /\ conn \in Conns \cup {None} /\ None \notin Conns
  BY RmqAssumption DEF TypeInv, LoopOK, LoopSet, BrokerOK, LinksOK
<1>1. CASE UNCHANGED vars
  BY <1>1, ConnUntouched DEF vars, channels, broker
<1>2. CASE \E j \in Jobs : (\E kind \in Kinds : Begin(j, kind)) \/ Continue(j) \/ ReplyArrives(j)
  BY <1>2, ConnUntouched DEF Begin, Continue, Register, Lock, Send, Confirmed, ConfirmsClosed,
     ConfirmTimeout, TakeReply, CallTimeout, ReplyArrives, channels, broker
<1>3. CASE \E k \in Conns : (\E ack \in BOOLEAN : Accept(k, ack)) \/ Break(k)
  BY <1>3, ConnUntouched DEF Accept, Break, Close, channels
<1>4. CASE Handler \/ \E q \in Queues : Consumer(q) \/ Dispatch(q)
  BY <1>4, ConnUntouched DEF Handler, HandlerEnds, Consumer, ConsumerEnds, Subscribe,
     DispatchEnds, Dispatch, channels, broker
<1>5. CASE Shutdown \/ ShutdownBegin
  <2>1. CASE ShutdownBegin \/ ShutdownFailCalls \/ ShutdownWait \/ ShutdownReturn \/ ShutdownLate
    BY <2>1, ConnUntouched DEF ShutdownBegin, ShutdownFailCalls, ShutdownWait, ShutdownReturn,
       ShutdownLate, channels, broker
  <2>2. CASE ShutdownClose
    <3>1. conn' = None /\ loop' = loop
      BY <2>2 DEF ShutdownClose
    <3>2. alive' = {}
      BY <1>0, <2>2 DEF ShutdownClose, Close, broker, ConnInv, OneConnection
    <3> QED BY <3>1, <3>2 DEF ConnInv, OneConnection
  <2> QED BY <1>5, <2>1, <2>2 DEF Shutdown
<1>6. CASE Start
  BY <1>0, <1>6 DEF Start, ConnInv, OneConnection, channels, broker, LoopSet
<1>7. CASE CheckContext \/ DialFails
  <2>1. /\ conn = None /\ alive' = alive /\ conn' = conn
        /\ loop'.pc \in {"check", "dial", "done"}
    BY <1>0, <1>7 DEF CheckContext, DialFails, NextAttempt, GiveUp, GoTo, ConnInv,
                      channels, broker, LoopSet
  <2> QED BY <2>1 DEF ConnInv, OneConnection
<1>8. CASE SetupFails
  <2>1. conn' = None /\ loop'.pc \in {"check", "done"}
    BY <1>0, <1>8 DEF SetupFails, NextAttempt, GiveUp, LoopSet
  <2>2. alive' = {}
    BY <1>0, <1>8 DEF SetupFails, Close, ConnInv, OneConnection
  <2> QED BY <2>1, <2>2 DEF ConnInv, OneConnection
<1>9. ASSUME NEW k \in Conns, Dial(k) PROVE ConnInv'
  <2>1. alive = {}
    BY <1>0, <1>9 DEF Dial, ConnInv, OneConnection
  <2>2. conn' = k /\ alive' = {k} /\ loop'.pc = "setup" /\ loop'.conn = k
    BY <1>0, <1>9, <2>1 DEF Dial, LoopSet
  <2> QED BY <2>2 DEF ConnInv, OneConnection
<1>10. CASE SetupChannels \/ Up
  <2>1. alive' = alive /\ conn' = conn /\ loop'.pc \in {"up", "top"}
    BY <1>0, <1>10 DEF SetupChannels, Up, GoTo, channels, broker, LoopSet
  <2> QED BY <2>1 DEF ConnInv, OneConnection
<1>11. CASE NotifyClose
  BY <1>0, <1>11 DEF NotifyClose, ConnInv, OneConnection, channels, broker, LoopSet
<1>12. CASE Watch \/ Lost \/ FailCalls
  <2>1. /\ alive' = alive /\ conn' = conn /\ loop'.conn = loop.conn
        /\ loop.pc \in {"watch", "lost", "fail"} /\ loop'.pc \in {"done", "lost", "fail", "clear"}
        /\ loop'.pc # "done" => loop.conn \notin alive
    BY <1>0, <1>12 DEF Watch, Lost, FailCalls, GoTo, ConnInv, channels, broker, LoopSet
  <2> QED BY <2>1 DEF ConnInv, OneConnection
<1>13. CASE Clear
  <2>1. alive' = {}
    BY <1>0, <1>13 DEF Clear, ConnInv, OneConnection, broker
  <2>2. conn' = None /\ loop'.pc = "check"
    BY <1>0, <1>13 DEF Clear, LoopSet
  <2> QED BY <2>1, <2>2 DEF ConnInv, OneConnection
<1> QED BY <1>1, <1>2, <1>3, <1>4, <1>5, <1>6, <1>7, <1>8, <1>9, <1>10, <1>11, <1>12, <1>13 DEF Next, Loop

(* However often the connection is lost, however setting one up fails and  *)
(* whenever the shutdown comes, the client keeps track of every connection *)
(* that is up and never has two (connectWithRetry, setupChannels,          *)
(* reconnectLoop, Shutdown).                                               *)
THEOREM NoConnectionLeaks == Spec => []OneConnection
<1>1. Init => ConnInv
  BY DEF Init, ConnInv, OneConnection
<1>2. ConnInv => OneConnection
  BY DEF ConnInv
<1> QED BY <1>1, <1>2, ConnStep, AlwaysTyped, PTL DEF Spec

-----------------------------------------------------------------------------
(* The confirms.  A message is on one connection at most once, on its way  *)
(* or confirmed; its publisher waits for it there, or somebody on that     *)
(* connection gave up waiting.                                             *)
OnWire(k, m)  == \E a \in 1..Len(wire[k]) : wire[k][a] = m
OnTheGo(k, m) == OnWire(k, m) \/ (confirms[k] # None /\ confirms[k].job = m)
Late(k)       == \E i \in Jobs : job[i].out = "timeout" /\ job[i].ch = k
LocalsInv == \A j \in Jobs : /\ job[j].confirmed => job[j].pc \in {"reply", "done"}
                             /\ job[j].out = "timeout" => job[j].pc = "done"
StoredInv == \A k \in Conns : confirms[k] # None /\ confirms[k].ack => confirms[k].job \in stored
OnceInv   == \A k \in Conns :
               /\ k \notin alive => wire[k] = <<>>
               /\ \A a, b \in 1..Len(wire[k]) : wire[k][a] = wire[k][b] => a = b
               /\ confirms[k] # None => ~OnWire(k, confirms[k].job)
OwnedInv  == \A k \in Conns, m \in Jobs : OnTheGo(k, m) =>
               /\ job[m].pc \in {"confirm", "reply", "done"}
               /\ IF job[m].pc = "confirm" THEN job[m].ch = k ELSE Late(k)
WireInv   == LocalsInv /\ StoredInv /\ OnceInv /\ OwnedInv /\ ConfirmedIsStored

LEMMA WireUntouched ==
  ASSUME WireInv, UNCHANGED <<job, wire, confirms>>, stored \subseteq stored', alive \subseteq alive'
  PROVE  WireInv'
<1>1. \A k \in Conns, m \in Jobs : (OnWire(k, m)' <=> OnWire(k, m)) /\ (OnTheGo(k, m)' <=> OnTheGo(k, m))
  BY DEF OnWire, OnTheGo
<1>2. \A k \in Conns : (Late(k)' <=> Late(k)) /\ (OnWire(k, confirms[k].job)' <=> OnWire(k, confirms[k].job))
  BY DEF Late, OnWire
<1>3. LocalsInv' /\ StoredInv'
  BY DEF WireInv, LocalsInv, StoredInv
<1>4. OnceInv'
  BY <1>2 DEF WireInv, OnceInv
<1>5. OwnedInv'
  BY <1>1, <1>2 DEF WireInv, OwnedInv
<1>6. ConfirmedIsStored'
  BY DEF WireInv, ConfirmedIsStored
<1> QED BY <1>3, <1>4, <1>5, <1>6 DEF WireInv

LEMMA WireClosed ==
  ASSUME TypeInv, WireInv, NEW k \in Conns, Close(k), UNCHANGED job
  PROVE  WireInv'
<1>1. \A e \in Conns : wire'[e] = IF e = k THEN <<>> ELSE wire[e]
  BY DEF Close, TypeInv, BrokerOK
<1>2. \A e \in Conns, m \in Jobs : OnWire(e, m)' => e # k /\ OnWire(e, m)
  BY <1>1 DEF OnWire
<1>3. confirms' = confirms /\ stored \subseteq stored' /\ alive' = alive \ {k}
  BY DEF Close
<1>4. \A e \in Conns, m \in Jobs : OnTheGo(e, m)' => OnTheGo(e, m)
  BY <1>2, <1>3 DEF OnTheGo
<1>5. \A e \in Conns : Late(e)' <=> Late(e)
  BY DEF Late
<1>6. LocalsInv' /\ StoredInv'
  BY <1>3 DEF WireInv, LocalsInv, StoredInv
<1>7. OnceInv'
  <2> SUFFICES ASSUME NEW e \in Conns
               PROVE  /\ e \notin alive' => wire'[e] = <<>>
                      /\ \A a, b \in 1..Len(wire'[e]) : wire'[e][a] = wire'[e][b] => a = b
                      /\ confirms'[e] # None => ~OnWire(e, confirms[e].job)'
    BY <1>3 DEF OnceInv, OnWire
  <2>1. CASE e = k
    <3>1. wire'[e] = <<>> /\ Len(wire'[e]) = 0
      BY <1>1, <2>1
    <3> QED BY <3>1 DEF OnWire
  <2>2. CASE e # k
    <3>1. wire'[e] = wire[e]
      BY <1>1, <2>2
    <3> QED BY <1>3, <2>2, <3>1 DEF WireInv, OnceInv, OnWire
  <2> QED BY <2>1, <2>2
<1>8. OwnedInv'
  BY <1>4, <1>5 DEF WireInv, OwnedInv
<1>9. ConfirmedIsStored'
  BY <1>3 DEF WireInv, ConfirmedIsStored
<1> QED BY <1>6, <1>7, <1>8, <1>9 DEF WireInv

LEMMA WireAccepted ==
  ASSUME TypeInv, WireInv, NEW k \in Conns, NEW ack \in BOOLEAN, Accept(k, ack)
  PROVE  WireInv'
<1>1. /\ wire[k] \in Seq(Jobs) /\ wire[k] # <<>> /\ Len(wire[k]) \in Nat
      /\ UNCHANGED <<job, alive>>
  BY DEF Accept, TypeInv, BrokerOK
<1>0. PICK m \in Jobs : m = Head(wire[k])
  BY <1>1
<1>2. /\ m = wire[k][1] /\ 1 \in 1..Len(wire[k]) /\ m \in Jobs
      /\ Len(Tail(wire[k])) = Len(wire[k]) - 1
      /\ \A a \in 1..Len(Tail(wire[k])) : Tail(wire[k])[a] = wire[k][a + 1] /\ a + 1 \in 1..Len(wire[k]) /\ a + 1 # 1
  BY <1>0, <1>1
<1>3. \A e \in Conns : wire'[e] = IF e = k THEN Tail(wire[k]) ELSE wire[e]
  BY DEF Accept, TypeInv, BrokerOK
<1>4. /\ confirms'[k].job = m /\ (confirms'[k].ack => ack)
      /\ \A e \in Conns \ {k} : confirms'[e] = confirms[e]
  BY <1>0 DEF Accept, TypeInv, BrokerOK
<1>5. stored \subseteq stored' /\ (ack => m \in stored')
  BY <1>0 DEF Accept
<1>6. OnWire(k, m) /\ \A x \in Jobs : OnWire(k, x)' => OnWire(k, x) /\ x # m
  <2>1. OnWire(k, m)
    BY <1>2 DEF OnWire
  <2>2. ASSUME NEW x \in Jobs, OnWire(k, x)'
        PROVE  OnWire(k, x) /\ x # m
    <3>1. PICK a \in 1..Len(Tail(wire[k])) : Tail(wire[k])[a] = x
      BY <1>3, <2>2 DEF OnWire
    <3>2. wire[k][a + 1] = x /\ a + 1 \in 1..Len(wire[k]) /\ a + 1 # 1
      BY <1>2, <3>1
    <3> QED BY <1>2, <3>2 DEF OnWire, WireInv, OnceInv
  <2> QED BY <2>1, <2>2
<1>7. \A e \in Conns \ {k}, x \in Jobs : /\ OnWire(e, x)' <=> OnWire(e, x)
                                         /\ OnTheGo(e, x)' <=> OnTheGo(e, x)
  BY <1>3, <1>4 DEF OnWire, OnTheGo
<1>8. \A x \in Jobs : OnTheGo(k, x)' => OnTheGo(k, x)
  BY <1>4, <1>6 DEF OnTheGo
<1>9. \A e \in Conns : Late(e)' <=> Late(e)
  BY <1>1 DEF Late
<1>10. LocalsInv' /\ ConfirmedIsStored'
  BY <1>1, <1>5 DEF WireInv, LocalsInv, ConfirmedIsStored
<1>11. StoredInv'
  BY <1>4, <1>5 DEF WireInv, StoredInv
<1>12. OwnedInv'
  BY <1>1, <1>7, <1>8, <1>9 DEF WireInv, OwnedInv
<1>13. OnceInv'
  <2> SUFFICES ASSUME NEW e \in Conns
               PROVE  /\ e \notin alive' => wire'[e] = <<>>
                      /\ \A a, b \in 1..Len(wire'[e]) : wire'[e][a] = wire'[e][b] => a = b
                      /\ confirms'[e] # None => ~OnWire(e, confirms[e].job)'
    BY DEF OnceInv, OnWire
  <2>1. CASE e = k
    <3>1. k \in alive'
      BY <1>1 DEF WireInv, OnceInv
    <3>2. ~OnWire(k, m)'
      BY <1>2, <1>6
    <3>3. \A a, b \in 1..Len(wire'[k]) : wire'[k][a] = wire'[k][b] => a = b
      <4>1. wire'[k] = Tail(wire[k])
        BY <1>3
      <4> SUFFICES ASSUME NEW a \in 1..Len(Tail(wire[k])), NEW b \in 1..Len(Tail(wire[k])),
                          Tail(wire[k])[a] = Tail(wire[k])[b]
                   PROVE  a = b
        BY <4>1
      <4>2. wire[k][a + 1] = wire[k][b + 1] /\ a + 1 \in 1..Len(wire[k]) /\ b + 1 \in 1..Len(wire[k])
        BY <1>2
      <4>3. a + 1 = b + 1
        BY <4>2 DEF WireInv, OnceInv
      <4> QED BY <1>1, <1>2, <4>3
    <3>4. ~OnWire(k, confirms[k].job)'
      BY <1>4, <3>2 DEF OnWire
    <3> QED BY <2>1, <3>1, <3>3, <3>4
  <2>2. CASE e # k
    <3>1. wire'[e] = wire[e] /\ confirms'[e] = confirms[e] /\ alive' = alive
      BY <1>1, <1>3, <1>4, <2>2
    <3> QED BY <3>1 DEF WireInv, OnceInv, OnWire
  <2> QED BY <2>1, <2>2
<1> QED BY <1>10, <1>11, <1>12, <1>13 DEF WireInv

(* One job moves on and the broker does not.                               *)
JobMoves(j) ==
  /\ \A i \in Jobs \ {j} : job'[i] = job[i]
  /\ job[j].pc # "done"
  /\ job'[j].confirmed => job[j].confirmed /\ job'[j].ch = job[j].ch /\ job'[j].pc \in {"reply", "done"}
  /\ job'[j].out = "timeout" => job'[j].pc = "done"

LEMMA LateStays ==
  ASSUME WireInv, NEW j \in Jobs, \A i \in Jobs \ {j} : job'[i] = job[i], job[j].pc # "done"
  PROVE  \A k \in Conns : Late(k) => Late(k)'
BY DEF WireInv, LocalsInv, Late

LEMMA WireMoved ==
  ASSUME TypeInv, WireInv, NEW j \in Jobs, JobMoves(j), UNCHANGED <<wire, confirms, stored, alive>>,
         \A k \in Conns : OnTheGo(k, j) =>
           /\ job'[j].pc \in {"confirm", "reply", "done"}
           /\ IF job'[j].pc = "confirm" THEN job'[j].ch = k ELSE Late(k)'
  PROVE  WireInv'
<1>1. \A k \in Conns, m \in Jobs : (OnWire(k, m)' <=> OnWire(k, m)) /\ (OnTheGo(k, m)' <=> OnTheGo(k, m))
  BY DEF OnWire, OnTheGo
<1>2. \A k \in Conns : Late(k) => Late(k)'
  BY LateStays DEF JobMoves
<1>3. LocalsInv' /\ StoredInv'
  BY DEF WireInv, LocalsInv, StoredInv, JobMoves
<1>4. OnceInv'
  BY DEF WireInv, OnceInv, OnWire
<1>5. OwnedInv'
  <2> SUFFICES ASSUME NEW k \in Conns, NEW m \in Jobs, OnTheGo(k, m)
               PROVE  /\ job'[m].pc \in {"confirm", "reply", "done"}
                      /\ IF job'[m].pc = "confirm" THEN job'[m].ch = k ELSE Late(k)'
    BY <1>1 DEF OwnedInv
  <2>1. CASE m = j
    BY <2>1
  <2>2. CASE m # j
    BY <1>2, <2>2 DEF WireInv, OwnedInv, JobMoves
  <2> QED BY <2>1, <2>2
<1>6. ConfirmedIsStored'
  <2> SUFFICES ASSUME NEW m \in Jobs, job'[m].confirmed, m \notin stored
               PROVE  \E i \in Jobs \ {m} : job'[i].out = "timeout" /\ job'[i].ch = job'[m].ch
    BY DEF ConfirmedIsStored
  <2>1. job[m].confirmed /\ job'[m].ch = job[m].ch
    BY DEF JobMoves
  <2>2. PICK i \in Jobs \ {m} : job[i].out = "timeout" /\ job[i].ch = job[m].ch
    BY <2>1 DEF WireInv, ConfirmedIsStored
  <2>3. job'[i] = job[i]
    BY <2>2 DEF WireInv, LocalsInv, JobMoves
  <2> QED BY <2>1, <2>2, <2>3
<1> QED BY <1>3, <1>4, <1>5, <1>6 DEF WireInv

LEMMA EndMoves ==
  ASSUME TypeInv, WireInv, NEW j \in Jobs, NEW out \in Outcome, End(j, out),
         UNCHANGED <<wire, confirms, stored, alive>>, job[j].pc # "done",
         \A k \in Conns : OnTheGo(k, j) => Late(k) \/ (out = "timeout" /\ job[j].ch = k)
  PROVE  WireInv'
<1>1. /\ \A i \in Jobs \ {j} : job'[i] = job[i]
      /\ job'[j].pc = "done" /\ job'[j].out = out /\ job'[j].ch = job[j].ch
      /\ job'[j].confirmed = job[j].confirmed
  BY DEF End, TypeInv, JobsOK, JobSet
<1>2. JobMoves(j)
  BY <1>1 DEF JobMoves
<1>3. \A k \in Conns : OnTheGo(k, j) => Late(k)'
  BY <1>1, LateStays DEF Late
<1> QED BY <1>1, <1>2, <1>3, WireMoved

LEMMA WireBegun ==
  ASSUME TypeInv, WireInv, NEW j \in Jobs, NEW kind \in Kinds, Begin(j, kind)
  PROVE  WireInv'
<1>1. job[j].pc = "idle" /\ UNCHANGED <<wire, confirms, stored, alive>>
  BY DEF Begin, broker
<1>2. \A k \in Conns : ~OnTheGo(k, j)
  BY <1>1 DEF WireInv, OwnedInv
<1>3. ~job[j].confirmed /\ job[j].out # "timeout"
  BY <1>1 DEF WireInv, LocalsInv
<1>4. CASE job' = [job EXCEPT ![j].pc = "done", ![j].out = "refused"]
  <2>1. /\ \A i \in Jobs \ {j} : job'[i] = job[i]
        /\ job'[j].out = "refused" /\ job'[j].confirmed = job[j].confirmed
    BY <1>4 DEF TypeInv, JobsOK, JobSet
  <2>2. JobMoves(j)
    BY <1>1, <1>3, <2>1 DEF JobMoves
  <2> QED BY <1>1, <1>2, <2>2, WireMoved
<1>5. CASE job' = [job EXCEPT ![j].kind = kind, ![j].replyTo = replyCh,
                              ![j].pc = IF kind = "call" THEN "register" ELSE "lock"]
  <2>1. /\ \A i \in Jobs \ {j} : job'[i] = job[i]
        /\ job'[j].out = job[j].out /\ job'[j].confirmed = job[j].confirmed
    BY <1>5 DEF TypeInv, JobsOK, JobSet
  <2>2. JobMoves(j)
    BY <1>1, <1>3, <2>1 DEF JobMoves
  <2> QED BY <1>1, <1>2, <2>2, WireMoved
<1> QED BY <1>4, <1>5 DEF Begin

LEMMA WireStepped ==
  ASSUME TypeInv, WireInv, NEW j \in Jobs, NEW pc \in JobPC, Step(j, pc),
         job[j].pc \in {"register", "lock"}, UNCHANGED <<wire, confirms, stored, alive>>
  PROVE  WireInv'
<1>1. \A k \in Conns : ~OnTheGo(k, j)
  BY DEF WireInv, OwnedInv
<1>2. ~job[j].confirmed /\ job[j].out # "timeout"
  BY DEF WireInv, LocalsInv
<1>3. /\ \A i \in Jobs \ {j} : job'[i] = job[i]
      /\ job'[j].out = job[j].out /\ job'[j].confirmed = job[j].confirmed
  BY DEF Step, TypeInv, JobsOK, JobSet
<1>4. JobMoves(j)
  BY <1>2, <1>3 DEF JobMoves
<1> QED BY <1>1, <1>4, WireMoved

LEMMA WireSent ==
  ASSUME TypeInv, WireInv, NEW j \in Jobs, Send(j)
  PROVE  WireInv'
<1>0. job[j].pc = "send" /\ UNCHANGED <<confirms, stored, alive>>
  BY DEF Send
<1>1. \A k \in Conns : ~OnTheGo(k, j)
  BY <1>0 DEF WireInv, OwnedInv
<1>2. CASE (End(j, "panic") \/ End(j, "failed")) /\ UNCHANGED wire
  BY <1>0, <1>1, <1>2, EndMoves DEF Outcome
<1>3. CASE /\ publishCh # None /\ publishCh \in alive
           /\ wire' = [wire EXCEPT ![publishCh] = Append(@, j)]
           /\ job' = [job EXCEPT ![j].pc = "confirm", ![j].ch = publishCh]
  <2>1. PICK k \in Conns : k = publishCh
    BY <1>3 DEF TypeInv, LinksOK
  <2>2. /\ \A i \in Jobs \ {j} : job'[i] = job[i]
        /\ job'[j].pc = "confirm" /\ job'[j].ch = k
        /\ job'[j].out = job[j].out /\ job'[j].confirmed = job[j].confirmed
    BY <1>3, <2>1 DEF TypeInv, JobsOK, JobSet
  <2>3. wire[k] \in Seq(Jobs) /\ Len(wire[k]) \in Nat
    BY DEF TypeInv, BrokerOK
  <2>4. \A e \in Conns : wire'[e] = IF e = k THEN Append(wire[k], j) ELSE wire[e]
    BY <1>3, <2>1 DEF TypeInv, BrokerOK
  <2>5. /\ Len(wire'[k]) = Len(wire[k]) + 1
        /\ \A a \in 1..Len(wire'[k]) :
             wire'[k][a] = IF a = Len(wire[k]) + 1 THEN j ELSE wire[k][a]
        /\ \A a \in 1..Len(wire'[k]) : a # Len(wire[k]) + 1 => a \in 1..Len(wire[k])
    <3>1. PICK w \in Seq(Jobs) : w = wire[k]
      BY <2>3
    <3>2. /\ Len(Append(w, j)) = Len(w) + 1
          /\ \A a \in 1..Len(w) + 1 : Append(w, j)[a] = IF a = Len(w) + 1 THEN j ELSE w[a]
          /\ \A a \in 1..Len(w) + 1 : a # Len(w) + 1 => a \in 1..Len(w)
      OBVIOUS
    <3>3. wire'[k] = Append(w, j)
      BY <2>4, <3>1
    <3> QED BY <3>1, <3>2, <3>3
  <2>6. \A e \in Conns, m \in Jobs : OnWire(e, m)' => OnWire(e, m) \/ (e = k /\ m = j)
    <3> SUFFICES ASSUME NEW e \in Conns, NEW m \in Jobs, OnWire(e, m)'
                 PROVE  OnWire(e, m) \/ (e = k /\ m = j)
      OBVIOUS
    <3>1. CASE e = k
      BY <2>5, <3>1 DEF OnWire
    <3>2. CASE e # k
      BY <2>4, <3>2 DEF OnWire
    <3> QED BY <3>1, <3>2
  <2>7. \A e \in Conns, m \in Jobs : OnTheGo(e, m)' => OnTheGo(e, m) \/ (e = k /\ m = j)
    BY <1>0, <2>6 DEF OnTheGo
  <2>8. \A e \in Conns : Late(e) => Late(e)'
    BY <1>0, <2>2, LateStays
  <2>9. LocalsInv' /\ StoredInv'
    BY <1>0, <2>2 DEF WireInv, LocalsInv, StoredInv
  <2>10. OwnedInv'
    <3> SUFFICES ASSUME NEW e \in Conns, NEW m \in Jobs, OnTheGo(e, m)'
                 PROVE  /\ job'[m].pc \in {"confirm", "reply", "done"}
                        /\ IF job'[m].pc = "confirm" THEN job'[m].ch = e ELSE Late(e)'
      BY DEF OwnedInv
    <3>1. CASE m = j
      BY <1>1, <2>2, <2>7, <3>1
    <3>2. CASE m # j
      BY <2>2, <2>7, <2>8, <3>2 DEF WireInv, OwnedInv
    <3> QED BY <3>1, <3>2
  <2>11. ConfirmedIsStored'
    <3> SUFFICES ASSUME NEW m \in Jobs, job'[m].confirmed, m \notin stored
                 PROVE  \E i \in Jobs \ {m} : job'[i].out = "timeout" /\ job'[i].ch = job'[m].ch
      BY <1>0 DEF ConfirmedIsStored
    <3>1. m # j /\ job'[m] = job[m]
      BY <1>0, <2>2 DEF WireInv, LocalsInv
    <3>2. PICK i \in Jobs \ {m} : job[i].out = "timeout" /\ job[i].ch = job[m].ch
      BY <3>1 DEF WireInv, ConfirmedIsStored
    <3>3. i # j
      BY <1>0, <3>2 DEF WireInv, LocalsInv
    <3> QED BY <2>2, <3>1, <3>2, <3>3
  <2>12. OnceInv'
    <3> SUFFICES ASSUME NEW e \in Conns
                 PROVE  /\ e \notin alive' => wire'[e] = <<>>
                        /\ \A a, b \in 1..Len(wire'[e]) : wire'[e][a] = wire'[e][b] => a = b
                        /\ confirms'[e] # None => ~OnWire(e, confirms[e].job)'
      BY <1>0 DEF OnceInv, OnWire
    <3>1. CASE e = k
      <4>1. k \in alive'
        BY <1>0, <1>3, <2>1
      <4>2. ~OnWire(k, j)
        BY <1>1 DEF OnTheGo
      <4>3. \A a, b \in 1..Len(wire'[k]) : wire'[k][a] = wire'[k][b] => a = b
        BY <2>5, <4>2 DEF WireInv, OnceInv, OnWire
      <4>4. ASSUME confirms[k] # None
            PROVE  ~OnWire(k, confirms[k].job)'
        <5>1. PICK m \in Jobs : m = confirms[k].job
          BY <4>4 DEF TypeInv, BrokerOK, Confirm
        <5>2. ~OnWire(k, m) /\ m # j
          BY <1>1, <4>4, <5>1 DEF WireInv, OnceInv, OnTheGo
        <5>3. ~OnWire(k, m)'
          BY <2>6, <5>2
        <5> QED BY <1>0, <5>1, <5>3 DEF OnWire
      <4> QED BY <1>0, <3>1, <4>1, <4>3, <4>4
    <3>2. CASE e # k
      <4>1. wire'[e] = wire[e]
        BY <2>4, <3>2
      <4> QED BY <1>0, <4>1 DEF WireInv, OnceInv, OnWire
    <3> QED BY <3>1, <3>2
  <2> QED BY <2>9, <2>10, <2>11, <2>12 DEF WireInv
<1> QED BY <1>2, <1>3 DEF Send

LEMMA WireConfirmed ==
  ASSUME TypeInv, WireInv, NEW j \in Jobs, Confirmed(j)
  PROVE  WireInv'
<1>0. PICK k \in Conns : k = job[j].ch
  BY DEF Confirmed, TypeInv, JobsOK
<1>1. /\ job[j].pc = "confirm" /\ mutex = j /\ confirms[k] # None /\ confirms[k] \in Confirm
      /\ UNCHANGED <<alive, wire, stored>>
      /\ \A e \in Conns : confirms'[e] = IF e = k THEN None ELSE confirms[e]
  BY <1>0 DEF Confirmed, TypeInv, JobsOK, BrokerOK
<1>2. PICK m \in Jobs : m = confirms[k].job
  BY <1>1 DEF Confirm
<1>3. /\ \A i \in Jobs \ {j} : job'[i] = job[i]
      /\ job'[j].pc \in {"reply", "done"} /\ job'[j].ch = k
      /\ job'[j].out # "timeout"
      /\ job'[j].confirmed => job[j].confirmed \/ confirms[k].ack
  <2>0. job[j].out # "timeout"
    BY <1>1 DEF WireInv, LocalsInv
  <2>1. CASE End(j, "failed")
    BY <1>0, <2>1 DEF End, TypeInv, JobsOK, JobSet
  <2>2. CASE confirms[k].ack /\ job' = [job EXCEPT ![j].pc = "done", ![j].out = "sent", ![j].confirmed = TRUE]
    BY <1>0, <2>2 DEF TypeInv, JobsOK, JobSet
  <2>3. CASE confirms[k].ack /\ job' = [job EXCEPT ![j].pc = "reply", ![j].confirmed = TRUE]
    BY <1>0, <2>0, <2>3 DEF TypeInv, JobsOK, JobSet
  <2> QED BY <1>0, <2>1, <2>2, <2>3 DEF Confirmed
<1>4. \A e \in Conns : Late(e) => Late(e)'
  BY <1>1, <1>3, LateStays
<1>5. m # j => Late(k)
  <2>1. OnTheGo(k, m)
    BY <1>1, <1>2 DEF OnTheGo
  <2>2. m # j => job[m].pc # "confirm"
    BY <1>1 DEF TypeInv, JobsOK
  <2> QED BY <2>1, <2>2 DEF WireInv, OwnedInv
<1>6. \A e \in Conns, x \in Jobs : /\ OnWire(e, x)' <=> OnWire(e, x)
                                   /\ OnTheGo(e, x)' => OnTheGo(e, x)
                                   /\ e = k /\ OnTheGo(e, x)' => OnWire(k, x)
  BY <1>1 DEF OnWire, OnTheGo
<1>7. ~OnWire(k, m)
  BY <1>1, <1>2 DEF WireInv, OnceInv
<1>8. LocalsInv' /\ StoredInv'
  <2>1. LocalsInv'
    BY <1>3 DEF WireInv, LocalsInv
  <2>2. StoredInv'
    BY <1>1 DEF WireInv, StoredInv
  <2> QED BY <2>1, <2>2
<1>9. OnceInv'
  <2> SUFFICES ASSUME NEW e \in Conns
               PROVE  /\ e \notin alive' => wire'[e] = <<>>
                      /\ \A a, b \in 1..Len(wire'[e]) : wire'[e][a] = wire'[e][b] => a = b
                      /\ confirms'[e] # None => ~OnWire(e, confirms[e].job)'
    BY DEF OnceInv, OnWire
  <2>1. CASE e = k
    BY <1>1, <2>1 DEF WireInv, OnceInv
  <2>2. CASE e # k
    <3>1. confirms'[e] = confirms[e]
      BY <1>1, <2>2
    <3> QED BY <1>1, <3>1 DEF WireInv, OnceInv, OnWire
  <2> QED BY <2>1, <2>2
<1>10. OwnedInv'
  <2> SUFFICES ASSUME NEW e \in Conns, NEW x \in Jobs, OnTheGo(e, x)'
               PROVE  /\ job'[x].pc \in {"confirm", "reply", "done"}
                      /\ IF job'[x].pc = "confirm" THEN job'[x].ch = e ELSE Late(e)'
    BY DEF OwnedInv
  <2>1. CASE x # j
    BY <1>3, <1>4, <1>6, <2>1 DEF WireInv, OwnedInv
  <2>2. CASE x = j
    <3>1. e = k
      BY <1>0, <1>1, <1>6, <2>2 DEF WireInv, OwnedInv
    <3>2. m # j
      BY <1>6, <1>7, <2>2, <3>1
    <3> QED BY <1>3, <1>4, <1>5, <2>2, <3>1, <3>2
  <2> QED BY <2>1, <2>2
<1>11. ConfirmedIsStored'
  <2> SUFFICES ASSUME NEW x \in Jobs, job'[x].confirmed, x \notin stored
               PROVE  \E i \in Jobs \ {x} : job'[i].out = "timeout" /\ job'[i].ch = job'[x].ch
    BY <1>1 DEF ConfirmedIsStored
  <2>1. CASE x # j
    <3>1. PICK i \in Jobs \ {x} : job[i].out = "timeout" /\ job[i].ch = job[x].ch
      BY <1>3, <2>1 DEF WireInv, ConfirmedIsStored
    <3>2. i # j
      BY <1>1, <3>1 DEF WireInv, LocalsInv
    <3> QED BY <1>3, <2>1, <3>1, <3>2
  <2>2. CASE x = j
    <3>1. ~job[j].confirmed
      BY <1>1 DEF WireInv, LocalsInv
    <3>2. m # j
      BY <1>1, <1>2, <1>3, <2>2, <3>1 DEF WireInv, StoredInv
    <3>3. PICK i \in Jobs : job'[i].out = "timeout" /\ job'[i].ch = k
      BY <1>4, <1>5, <3>2 DEF Late
    <3>4. i # j
      BY <1>3, <3>3
    <3> QED BY <1>3, <2>2, <3>3, <3>4
  <2> QED BY <2>1, <2>2
<1> QED BY <1>8, <1>9, <1>10, <1>11 DEF WireInv

LEMMA WireContinued ==
  ASSUME TypeInv, WireInv, NEW j \in Jobs, Continue(j)
  PROVE  WireInv'
<1>1. CASE Register(j)
  BY <1>1, WireStepped DEF Register, JobPC, broker
<1>2. CASE Lock(j)
  <2>1. UNCHANGED <<wire, confirms, stored, alive>> /\ job[j].pc = "lock"
    BY <1>2 DEF Lock, broker
  <2>2. \A k \in Conns : ~OnTheGo(k, j)
    BY <2>1 DEF WireInv, OwnedInv
  <2>3. CASE End(j, "refused")
    BY <2>1, <2>2, <2>3, EndMoves DEF Outcome
  <2>4. CASE Step(j, "send")
    BY <2>1, <2>4, WireStepped DEF JobPC
  <2> QED BY <1>2, <2>3, <2>4 DEF Lock
<1>3. CASE ConfirmsClosed(j)
  <2>1. /\ UNCHANGED <<wire, confirms, stored, alive>> /\ job[j].pc = "confirm"
        /\ End(j, "lost") /\ job[j].ch \notin alive /\ confirms[job[j].ch] = None
    BY <1>3 DEF ConfirmsClosed, broker
  <2>2. PICK k \in Conns : k = job[j].ch
    BY <2>1 DEF TypeInv, JobsOK
  <2>3. wire[k] = <<>> /\ Len(wire[k]) = 0
    BY <2>1, <2>2 DEF WireInv, OnceInv
  <2>4. ~OnTheGo(k, j)
    BY <2>1, <2>2, <2>3 DEF OnTheGo, OnWire
  <2>5. \A e \in Conns : ~OnTheGo(e, j)
    BY <2>1, <2>2, <2>4 DEF WireInv, OwnedInv
  <2> QED BY <2>1, <2>5, EndMoves DEF Outcome
<1>4. CASE ConfirmTimeout(j)
  <2>1. UNCHANGED <<wire, confirms, stored, alive>> /\ job[j].pc = "confirm" /\ End(j, "timeout")
    BY <1>4 DEF ConfirmTimeout, broker
  <2>2. \A k \in Conns : OnTheGo(k, j) => job[j].ch = k
    BY <2>1 DEF WireInv, OwnedInv
  <2> QED BY <2>1, <2>2, EndMoves DEF Outcome
<1>5. CASE TakeReply(j) \/ CallTimeout(j)
  <2>1. /\ UNCHANGED <<wire, confirms, stored, alive>> /\ job[j].pc = "reply"
        /\ \E out \in Outcome : End(j, out)
    BY <1>5 DEF TakeReply, CallTimeout, broker, Outcome
  <2>2. \A k \in Conns : OnTheGo(k, j) => Late(k)
    BY <2>1 DEF WireInv, OwnedInv
  <2> QED BY <2>1, <2>2, EndMoves
<1> QED BY <1>1, <1>2, <1>3, <1>4, <1>5, WireSent, WireConfirmed DEF Continue

LEMMA WireStep ==
  ASSUME TypeInv, WireInv, [Next]_vars
  PROVE  WireInv'
<1>1. CASE UNCHANGED vars
  BY <1>1, WireUntouched DEF vars, broker
<1>2. CASE \E j \in Jobs : ReplyArrives(j)
  BY <1>2, WireUntouched DEF ReplyArrives, broker
<1>3. CASE \E k \in Conns : Break(k)
  BY <1>3, WireClosed DEF Break
<1>4. CASE Handler \/ \E q \in Queues : Consumer(q) \/ Dispatch(q)
  BY <1>4, WireUntouched DEF Handler, HandlerEnds, Consumer, ConsumerEnds, Subscribe, DispatchEnds, Dispatch, broker
<1>5. CASE ShutdownBegin \/ ShutdownFailCalls \/ ShutdownWait \/ ShutdownReturn \/ ShutdownLate
  BY <1>5, WireUntouched DEF ShutdownBegin, ShutdownFailCalls, ShutdownWait, ShutdownReturn, ShutdownLate, broker
<1>6. CASE ShutdownClose
  <2>1. CASE conn = None
    BY <1>6, <2>1, WireUntouched DEF ShutdownClose, broker
  <2>2. CASE conn # None
    BY <1>6, <2>2, WireClosed DEF ShutdownClose, TypeInv, LinksOK
  <2> QED BY <2>1, <2>2
<1>7. CASE Start \/ CheckContext \/ DialFails \/ SetupChannels \/ Up \/ NotifyClose \/ Watch \/ Lost \/ FailCalls \/ Clear
  BY <1>7, WireUntouched DEF Start, CheckContext, DialFails, SetupChannels, Up, NotifyClose, Watch, Lost, FailCalls,
     Clear, broker
<1>8. CASE SetupFails
  BY <1>8, WireClosed DEF SetupFails, TypeInv, LoopOK
<1>9. CASE \E k \in Conns : Dial(k)
  BY <1>9, WireUntouched DEF Dial
<1>10. CASE \E j \in Jobs : Continue(j) \/ \E kind \in Kinds : Begin(j, kind)
  BY <1>10, WireContinued, WireBegun
<1>11. CASE \E k \in Conns, ack \in BOOLEAN : Accept(k, ack)
  BY <1>11, WireAccepted
<1> QED BY <1>1, <1>2, <1>3, <1>4, <1>5, <1>6, <1>7, <1>8, <1>9, <1>10, <1>11 DEF Next, Loop, Shutdown

(* What publishBytes takes for a confirm is one of the message it sent, as *)
(* long as nobody on the channel gave up on an earlier one.                *)
THEOREM ConfirmsAreTrue == Spec => []ConfirmedIsStored
<1>1. Init => WireInv
  <2> SUFFICES ASSUME Init PROVE WireInv
    OBVIOUS
  <2>1. \A k \in Conns : wire[k] = <<>> /\ Len(wire[k]) = 0 /\ confirms[k] = None
    BY DEF Init
  <2>2. \A j \in Jobs : job[j].pc = "idle" /\ ~job[j].confirmed /\ job[j].out = "none"
    BY DEF Init, NewJob
  <2> QED BY <2>1, <2>2 DEF WireInv, LocalsInv, StoredInv, OnceInv, OwnedInv, ConfirmedIsStored, OnWire, OnTheGo
<1>2. Spec => []WireInv
  BY <1>1, WireStep, AlwaysTyped, PTL DEF Spec
<1>3. WireInv => ConfirmedIsStored
  BY DEF WireInv
<1> QED BY <1>2, <1>3, PTL
=============================================================================
