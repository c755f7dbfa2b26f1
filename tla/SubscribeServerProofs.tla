----------------------- MODULE SubscribeServerProofs -----------------------
(***************************************************************************)
(* Safety of the subscribe server for any number of workers, messages,     *)
(* frames, connections and signals.                                        *)
(***************************************************************************)
EXTENDS SubscribeServer, HistoryProofs, FiniteSetTheorems, TLAPS

USE FramesAssumption, ServersAssumption, OptionAssumption, BoundsAssumption

-----------------------------------------------------------------------------
(***************************************************************************)
(* Types.  TypeOK is not inductive: that frm stays a frame of the message  *)
(* taken rests on main's place in its inner loop.                          *)
(***************************************************************************)
InLoop(pc) == pc = "frame" \/ pc \in Modes

Holding ==
  /\ InLoop(mpc) => /\ taken \in Messages /\ mode \in Modes
                    /\ frm \in Nat /\ frm < Frames[taken]
  /\ ~InLoop(mpc) => frm = 0

ControlInv == TypeOK /\ Holding

\* The number of messages.
LEMMA LenFrames == Len(Frames) \in Nat
  OBVIOUS

\* Every message has a frame or more.
LEMMA FramesType == \A m \in Messages : Frames[m] \in Nat \ {0}
  BY DEF Messages

\* Control: the start.
LEMMA ControlInit == Init => ControlInv
<1> SUFFICES ASSUME Init PROVE ControlInv
  OBVIOUS
<1>1. /\ signals \in 0..MaxSignals /\ mpc \in MainPc
      /\ taken \in 0..Len(Frames) /\ mode \in Modes \cup {"none"}
      /\ frm = 0 /\ connect \in Int /\ flaps \in 0..MaxFlaps
      /\ monpc \in MonitorPc /\ event \subseteq Events /\ server \in Servers
  BY LenFrames DEF Init, MainPc, MonitorPc
<1>2. /\ monq \in Seq(Events)
      /\ out \in Seq([msg : Messages, frame : Nat, fate : Fates])
  BY DEF Init
<1>3. interrupted \in BOOLEAN /\ lost \in BOOLEAN
  BY DEF Init
<1>4. here \subseteq Workers
  BY DEF Init
<1>5. Holding
  BY DEF Init, Holding, InLoop, Modes
<1> QED
  BY <1>1, <1>2, <1>3, <1>4, <1>5 DEF ControlInv, TypeOK

\* Main is done with a frame.
LEMMA FrameDoneType ==
  ASSUME ControlInv, InLoop(mpc), NEW fate \in Fates, FrameDone(fate)
  PROVE  ControlInv'
<1>1. /\ taken \in Messages /\ mode \in Modes /\ frm \in Nat
      /\ frm < Frames[taken] /\ Frames[taken] \in Nat
  BY FramesType DEF ControlInv, Holding
<1>2. /\ taken' = taken /\ server' = server
      /\ UNCHANGED <<countVars, queueVars, workerVars, signalVars>>
  BY DEF FrameDone
<1>3. out' \in Seq([msg : Messages, frame : Nat, fate : Fates])
  <2>1. [msg |-> taken, frame |-> frm + 1, fate |-> fate]
          \in [msg : Messages, frame : Nat, fate : Fates]
    BY <1>1
  <2>2. out' = Append(out, [msg |-> taken, frame |-> frm + 1, fate |-> fate])
    BY DEF FrameDone
  <2> QED
    BY <2>1, <2>2 DEF ControlInv, TypeOK
<1>4. /\ mpc' \in MainPc /\ mode' \in Modes \cup {"none"}
      /\ frm' = 0 \/ (taken' > 0 /\ frm' \in 1..(Frames[taken'] - 1))
      /\ Holding'
  <2>1. CASE frm + 1 = Frames[taken]
    <3>1. frm' = 0 /\ mpc' = "check_accepted" /\ mode' = "none"
      BY <2>1 DEF FrameDone
    <3> QED
      BY <3>1 DEF MainPc, Holding, InLoop, Modes
  <2>2. CASE frm + 1 # Frames[taken]
    <3>1. frm' = frm + 1 /\ mpc' = "frame" /\ mode' = mode
      BY <2>2 DEF FrameDone
    <3>2. frm + 1 < Frames[taken] /\ taken > 0
      BY <1>1, <2>2 DEF Messages
    <3> QED
      BY <1>1, <1>2, <3>1, <3>2 DEF MainPc, Holding, InLoop
  <2> QED
    BY <2>1, <2>2
<1> QED
  BY <1>2, <1>3, <1>4
     DEF ControlInv, TypeOK, countVars, queueVars, workerVars, signalVars

\* Receives of the monitor that a signal interrupts.
LEMMA EintrMonitorType ==
  ASSUME TypeOK, EintrMonitor \/ UNCHANGED queueVars
  PROVE  monpc' \in MonitorPc /\ monq' = monq
  BY DEF TypeOK, EintrMonitor, queueVars, MonitorPc

\* Control: a signal that the program receives.
LEMMA ControlSignal == ControlInv /\ Signal => ControlInv'
<1> SUFFICES ASSUME ControlInv, Signal PROVE ControlInv'
  OBVIOUS
<1>1. /\ interrupted' = TRUE /\ signals' \in 0..MaxSignals
      /\ UNCHANGED <<server, countVars, workerVars>>
  BY DEF Signal, ControlInv, TypeOK
<1>2. /\ UNCHANGED mainData
      /\ mpc' \in MainPc /\ (InLoop(mpc') <=> InLoop(mpc))
  <2>1. CASE UNCHANGED mainVars
    BY <2>1 DEF mainVars, mainData, ControlInv, TypeOK
  <2>2. CASE EintrMain
    BY <2>2 DEF EintrMain, mainData, InLoop, Modes, MainPc
  <2> QED
    BY <2>1, <2>2 DEF Signal
<1>3. monpc' \in MonitorPc /\ monq' = monq
  BY EintrMonitorType DEF Signal, ControlInv
<1> QED
  BY <1>1, <1>2, <1>3
     DEF ControlInv, TypeOK, Holding, mainData, countVars, workerVars

\* Every step keeps the types: one case for each action.
LEMMA ControlStep == ControlInv /\ [Next]_vars => ControlInv'
<1> SUFFICES ASSUME ControlInv, [Next]_vars PROVE ControlInv'
  OBVIOUS
<1> USE DEF mainVars, mainData, countVars, queueVars, workerVars, signalVars
<1>1. CASE Signal
  BY <1>1, ControlSignal
<1>2. CASE MainLoop
  BY <1>2 DEF MainLoop, ControlInv, TypeOK, Holding, InLoop, Modes, MainPc
<1>3. CASE MainPollIn
  <2>1. /\ taken' \in Messages /\ frm' = 0 /\ mode' \in Modes
        /\ mpc' = "frame"
    BY <1>3, LenFrames
       DEF MainPollIn, ControlInv, TypeOK, Holding, InLoop, SendMode, Modes,
           Messages
  <2>2. Frames[taken'] \in Nat \ {0} /\ taken' \in 0..Len(Frames)
    BY <2>1, FramesType DEF Messages
  <2> QED
    BY <1>3, <2>1, <2>2
       DEF MainPollIn, ControlInv, TypeOK, Holding, InLoop, MainPc
<1>4. CASE MainPollTimeout
  BY <1>4 DEF MainPollTimeout, ControlInv, TypeOK, Holding, InLoop, Modes,
     MainPc
<1>5. CASE MainFrame
  <2>1. CASE interrupted
    <3>1. /\ mpc' = "check_accepted" /\ mode' = "none" /\ frm' = 0
          /\ UNCHANGED <<server, taken, out, countVars, queueVars,
                         workerVars, signalVars>>
      BY <1>5, <2>1 DEF MainFrame
    <3> QED
      BY <3>1 DEF ControlInv, TypeOK, Holding, InLoop, Modes, MainPc
  <2>2. CASE ~interrupted /\ KeepsFrame
    <3>1. /\ mpc' = mode /\ mpc = "frame"
          /\ UNCHANGED <<server, mainData, countVars, queueVars, workerVars,
                         signalVars>>
      BY <1>5, <2>2 DEF MainFrame
    <3> QED
      BY <3>1 DEF ControlInv, TypeOK, Holding, InLoop, MainPc
  <2>3. CASE ~interrupted /\ ~KeepsFrame
    <3>1. FrameDone("key") /\ InLoop(mpc) /\ "key" \in Fates
      BY <1>5, <2>3 DEF MainFrame, InLoop, Fates
    <3> QED
      BY <3>1, FrameDoneType
  <2> QED
    BY <2>1, <2>2, <2>3
<1>6. CASE MainDump
  <2>1. PICK fate \in {"dumped", "dropped"} : FrameDone(fate)
    BY <1>6 DEF MainDump
  <2>2. InLoop(mpc) /\ fate \in Fates
    BY <1>6 DEF MainDump, InLoop, Modes, Fates
  <2> QED
    BY <2>1, <2>2, FrameDoneType
<1>7. CASE MainCheckAccepted
  BY <1>7 DEF MainCheckAccepted, ControlInv, TypeOK, Holding, InLoop, Modes,
     MainPc
<1>8. CASE MainAccept
  BY <1>8 DEF MainAccept, ControlInv, TypeOK, Holding, InLoop, Modes, MainPc
<1>9. CASE MainCheckDisconnected
  BY <1>9 DEF MainCheckDisconnected, ControlInv, TypeOK, Holding, InLoop,
     Modes, MainPc
<1>10. CASE MainDisconnect
  BY <1>10 DEF MainDisconnect, ControlInv, TypeOK, Holding, InLoop, Modes,
     MainPc
<1>11. CASE MainKill
  <2>1. monpc' \in MonitorPc /\ monq' = monq
    BY <1>11, EintrMonitorType DEF MainKill, ControlInv
  <2> QED
    BY <1>11, <2>1 DEF MainKill, ControlInv, TypeOK, Holding, InLoop, Modes,
       MainPc
<1>12. CASE MainJoin
  BY <1>12 DEF MainJoin, ControlInv, TypeOK, Holding, InLoop, Modes, MainPc
<1>13. CASE MainSend
  <2>1. FrameDone("sent") /\ InLoop(mpc) /\ "sent" \in Fates
    BY <1>13 DEF MainSend, InLoop, Modes, Fates
  <2> QED
    BY <2>1, FrameDoneType
<1>14. CASE MainUncompressFails
  BY <1>14 DEF MainUncompressFails, ControlInv, TypeOK, Holding, InLoop,
     Modes, MainPc
<1>15. CASE MonitorCheck
  BY <1>15 DEF MonitorCheck, ControlInv, TypeOK, Holding, MonitorPc
<1>16. CASE MonitorRecv
  <2>1. Head(monq) \in Events /\ Tail(monq) \in Seq(Events)
    BY <1>16 DEF MonitorRecv, ControlInv, TypeOK
  <2>2. lost' \in BOOLEAN
    BY <1>16 DEF MonitorRecv, ControlInv, TypeOK
  <2>3. /\ event' \subseteq Events /\ monq' \in Seq(Events)
        /\ monpc' \in MonitorPc
    BY <1>16, <2>1 DEF MonitorRecv, ControlInv, TypeOK, MonitorPc
  <2> QED
    BY <1>16, <2>2, <2>3 DEF MonitorRecv, ControlInv, TypeOK, Holding
<1>17. ASSUME NEW w \in Workers,
              WorkerConnects(w) \/ WorkerDisconnects(w)
       PROVE  ControlInv'
  <2>1. monq' \in Seq(Events) /\ here' \subseteq Workers
    <3>1. monq \in Seq(Events) /\ here \subseteq Workers
      BY DEF ControlInv, TypeOK
    <3>2. CASE WorkerConnects(w)
      BY <3>1, <3>2 DEF WorkerConnects, Events
    <3>3. CASE WorkerDisconnects(w)
      BY <3>1, <3>3 DEF WorkerDisconnects, Events
    <3> QED
      BY <1>17, <3>2, <3>3
  <2>2. flaps' \in 0..MaxFlaps
    BY <1>17 DEF WorkerConnects, WorkerDisconnects, ControlInv, TypeOK
  <2> QED
    BY <1>17, <2>1, <2>2
       DEF WorkerConnects, WorkerDisconnects, ControlInv, TypeOK, Holding
<1>18. CASE UNCHANGED vars
  BY <1>18 DEF vars, ControlInv, TypeOK, Holding
<1> QED
  BY <1>1, <1>2, <1>3, <1>4, <1>5, <1>6, <1>7, <1>8, <1>9, <1>10, <1>11,
     <1>12, <1>13, <1>14, <1>15, <1>16, <1>17, <1>18
     DEF Next, MainStep, MonitorStep, WorkerStep

\* The control invariant holds throughout.
LEMMA ControlInvariant == Spec => []ControlInv
  BY ControlInit, ControlStep, PTL DEF Spec

\* Every variable of the subscribe server keeps its type, and frm counts
\* frames of the message that is taken.
THEOREM TypeCorrect == Spec => []TypeOK
<1>1. ControlInv => TypeOK
  BY DEF ControlInv
<1> QED
  BY <1>1, ControlInvariant, PTL

-----------------------------------------------------------------------------
(***************************************************************************)
(* The counter.  Number(q, kind) is what one queue holds of a kind; a      *)
(* worker that comes or goes changes it at the end, the monitor at the     *)
(* head.                                                                   *)
(***************************************************************************)
Places(q, kind) == {i \in DOMAIN q : q[i] = kind}

Number(q, kind) == Cardinality(Places(q, kind))

Bit(kind) == IF kind \in event THEN 1 ELSE 0

\* An event stands at finitely many places of the queue.
LEMMA PlacesFinite ==
  ASSUME NEW q \in Seq(Events), NEW kind
  PROVE  IsFiniteSet(Places(q, kind)) /\ Number(q, kind) \in Nat
<1>1. DOMAIN q = 1..Len(q) /\ Len(q) \in Nat
  OBVIOUS
<1>2. IsFiniteSet(DOMAIN q)
  BY <1>1, FS_Interval
<1>3. IsFiniteSet(Places(q, kind))
  BY <1>2, FS_Subset DEF Places
<1> QED
  BY <1>3, FS_CardinalityType DEF Number

\* An event is reported.
LEMMA NumberAppend ==
  ASSUME NEW q \in Seq(Events), NEW new \in Events, NEW kind
  PROVE  Number(Append(q, new), kind)
           = Number(q, kind) + (IF new = kind THEN 1 ELSE 0)
<1> DEFINE t == Append(q, new)
<1>1. /\ Len(q) \in Nat /\ DOMAIN q = 1..Len(q)
      /\ DOMAIN t = 1..(Len(q) + 1) /\ t[Len(q) + 1] = new
      /\ \A i \in 1..Len(q) : t[i] = q[i]
  OBVIOUS
<1>2. IsFiniteSet(Places(q, kind)) /\ Number(q, kind) \in Nat
  BY PlacesFinite
<1> HIDE DEF t
<1>3. CASE new = kind
  <2>1. Places(t, kind) = Places(q, kind) \cup {Len(q) + 1}
    BY <1>1, <1>3 DEF Places
  <2>2. Len(q) + 1 \notin Places(q, kind)
    BY <1>1 DEF Places
  <2>3. Cardinality(Places(q, kind) \cup {Len(q) + 1})
          = Cardinality(Places(q, kind)) + 1
    BY <1>2, <2>2, FS_AddElement
  <2> QED
    BY <1>3, <2>1, <2>3 DEF Number, t
<1>4. CASE new # kind
  <2>1. Places(t, kind) = Places(q, kind)
    BY <1>1, <1>4 DEF Places
  <2> QED
    BY <1>2, <1>4, <2>1 DEF Number, t
<1> QED
  BY <1>3, <1>4

\* Receiving the first event of a queue.
LEMMA NumberTail ==
  ASSUME NEW q \in Seq(Events), q # <<>>, NEW kind
  PROVE  Number(q, kind)
           = Number(Tail(q), kind) + (IF Head(q) = kind THEN 1 ELSE 0)
<1> DEFINE t == Tail(q)
           S == Places(t, kind)
           T == Places(q, kind) \ {1}
           f == [i \in S |-> i + 1]
<1>1. /\ Len(q) \in Nat \ {0} /\ DOMAIN q = 1..Len(q) /\ Head(q) = q[1]
      /\ t \in Seq(Events) /\ DOMAIN t = 1..(Len(q) - 1)
      /\ \A i \in 1..(Len(q) - 1) : t[i] = q[i + 1]
  OBVIOUS
<1>2. /\ IsFiniteSet(S) /\ Number(t, kind) \in Nat
      /\ IsFiniteSet(Places(q, kind))
  BY <1>1, PlacesFinite
<1> HIDE DEF t
<1>3. f \in Bijection(S, T)
  <2>1. S = {i \in 1..(Len(q) - 1) : q[i + 1] = kind}
    BY <1>1 DEF Places
  <2>2. T = {i \in 2..Len(q) : q[i] = kind}
    BY <1>1 DEF Places
  <2> HIDE DEF S, T
  <2>3. f \in [S -> T]
    BY <1>1, <2>1, <2>2
  <2>4. \A a, b \in S : f[a] = f[b] => a = b
    BY <1>1, <2>1
  <2>5. \A b \in T : \E a \in S : f[a] = b
    <3> TAKE b \in T
    <3>1. b - 1 \in S /\ (b - 1) + 1 = b
      BY <1>1, <2>1, <2>2
    <3>2. f[b - 1] = b
      BY <3>1
    <3> QED
      BY <3>1, <3>2
  <2> HIDE DEF f
  <2> QED
    BY <2>3, <2>4, <2>5 DEF Bijection, Injection, IsInjective, Surjection
<1>4. Cardinality(T) = Cardinality(S)
  BY <1>2, <1>3, FS_Bijection DEF ExistsBijection
<1>5. CASE Head(q) = kind
  <2>1. 1 \in Places(q, kind) /\ 1 \notin T /\ Places(q, kind) = T \cup {1}
    BY <1>1, <1>5 DEF Places
  <2>2. IsFiniteSet(T)
    BY <1>2, FS_Subset
  <2>3. Cardinality(T \cup {1}) = Cardinality(T) + 1
    BY <2>1, <2>2, FS_AddElement
  <2> QED
    BY <1>4, <1>5, <2>1, <2>3 DEF Number, t
<1>6. CASE Head(q) # kind
  <2>1. Places(q, kind) = T
    BY <1>1, <1>6 DEF Places
  <2>2. Number(q, kind) = Number(t, kind)
    BY <1>4, <2>1, Zenon DEF Number
  <2> QED
    BY <1>2, <1>6, <2>2 DEF t
<1> QED
  BY <1>5, <1>6

\* The counter with what is still to be counted, made inductive: only a finite
\* set of workers can be counted.
CounterInv ==
  ~lost => /\ IsFiniteSet(here)
           /\ connect + (Number(monq, "accepted") + Bit("accepted"))
                - (Number(monq, "disconnected") + Bit("disconnected"))
                = Cardinality(here)

\* Counter: the start.
LEMMA CounterInit == Init => CounterInv
<1> SUFFICES ASSUME Init, ~lost PROVE CounterInv
  BY DEF CounterInv
<1>1. here = {} /\ connect = 0 /\ monq = <<>> /\ event = {}
  BY DEF Init
<1>2. \A kind : Places(monq, kind) = {}
  BY <1>1 DEF Places
<1>3. \A kind : Number(monq, kind) = 0
  BY <1>2, FS_EmptySet DEF Number
<1> QED
  BY <1>1, <1>3, FS_EmptySet DEF CounterInv, Bit

\* Steps that touch neither the workers, their events nor the counter.
LEMMA CounterFrame ==
  ASSUME CounterInv, UNCHANGED <<lost, here, connect, monq, event>>
  PROVE  CounterInv'
  BY DEF CounterInv, Bit

\* Counter: a worker connects or goes; its event is queued with that.
LEMMA CounterWorker ==
  ASSUME TypeOK, CounterInv, NEW w \in Workers,
         WorkerConnects(w) \/ WorkerDisconnects(w)
  PROVE  CounterInv'
<1> SUFFICES ASSUME ~lost PROVE CounterInv'
  BY DEF WorkerConnects, WorkerDisconnects, countVars, CounterInv
<1>1. /\ UNCHANGED <<connect, lost, event>> /\ connect \in Int
      /\ monq \in Seq(Events)
      /\ Number(monq, "accepted") \in Nat
      /\ Number(monq, "disconnected") \in Nat
  BY PlacesFinite
     DEF WorkerConnects, WorkerDisconnects, countVars, TypeOK
<1>2. /\ IsFiniteSet(here) /\ Cardinality(here) \in Nat
      /\ connect + (Number(monq, "accepted") + Bit("accepted"))
           - (Number(monq, "disconnected") + Bit("disconnected"))
           = Cardinality(here)
  BY FS_CardinalityType DEF CounterInv
<1>3. /\ Bit("accepted")' = Bit("accepted") /\ Bit("accepted") \in Int
      /\ Bit("disconnected")' = Bit("disconnected")
      /\ Bit("disconnected") \in Int
  BY <1>1 DEF Bit
<1>4. CASE WorkerConnects(w)
  <2>1. /\ w \notin here /\ here' = here \cup {w}
        /\ monq' = Append(monq, "accepted")
    BY <1>4 DEF WorkerConnects
  <2>2. /\ IsFiniteSet(here') /\ Cardinality(here') = Cardinality(here) + 1
    BY <1>2, <2>1, FS_AddElement
  <2>3. /\ Number(monq', "accepted") = Number(monq, "accepted") + 1
        /\ Number(monq', "disconnected") = Number(monq, "disconnected")
    BY <1>1, <2>1, NumberAppend DEF Events
  <2> HIDE DEF Bit, Number
  <2> QED
    BY <1>1, <1>2, <1>3, <2>2, <2>3 DEF CounterInv
<1>5. CASE WorkerDisconnects(w)
  <2>1. /\ w \in here /\ here' = here \ {w}
        /\ monq' = Append(monq, "disconnected")
    BY <1>5 DEF WorkerDisconnects
  <2>2. /\ IsFiniteSet(here') /\ Cardinality(here') = Cardinality(here) - 1
    BY <1>2, <2>1, FS_RemoveElement
  <2>3. /\ Number(monq', "accepted") = Number(monq, "accepted")
        /\ Number(monq', "disconnected") = Number(monq, "disconnected") + 1
    BY <1>1, <2>1, NumberAppend DEF Events
  <2> QED
    BY <1>1, <1>2, <1>3, <2>2, <2>3 DEF CounterInv
<1> QED
  BY <1>4, <1>5

\* An event goes from the queue to a bit that was not set.
LEMMA CounterRecv ==
  ASSUME TypeOK, CounterInv, MonitorRecv
  PROVE  CounterInv'
<1> SUFFICES ASSUME ~lost' PROVE CounterInv'
  BY DEF CounterInv
<1> DEFINE k == Head(monq)
<1>1. /\ ~lost /\ k \notin event /\ event' = event \cup {k}
      /\ monq' = Tail(monq) /\ monq # <<>>
      /\ UNCHANGED <<here, connect>> /\ connect \in Int
  BY DEF MonitorRecv, workerVars, TypeOK
<1>2. monq \in Seq(Events) /\ k \in Events /\ Tail(monq) \in Seq(Events)
  BY <1>1 DEF TypeOK
<1>3. /\ Number(monq', "accepted") \in Nat
      /\ Number(monq', "disconnected") \in Nat
  BY <1>1, <1>2, PlacesFinite
<1>4. /\ Number(monq, "accepted")
           = Number(monq', "accepted") + (IF k = "accepted" THEN 1 ELSE 0)
      /\ Number(monq, "disconnected")
           = Number(monq', "disconnected")
               + (IF k = "disconnected" THEN 1 ELSE 0)
  BY <1>1, <1>2, NumberTail
<1>5. /\ Bit("accepted")'
           = Bit("accepted") + (IF k = "accepted" THEN 1 ELSE 0)
      /\ Bit("disconnected")'
           = Bit("disconnected") + (IF k = "disconnected" THEN 1 ELSE 0)
      /\ Bit("accepted") \in Int /\ Bit("disconnected") \in Int
  BY <1>1, <1>2 DEF Bit, Events
<1>6. /\ IsFiniteSet(here)
      /\ connect + (Number(monq, "accepted") + Bit("accepted"))
           - (Number(monq, "disconnected") + Bit("disconnected"))
           = Cardinality(here)
  BY <1>1 DEF CounterInv
<1>7. CASE k = "accepted"
  BY <1>1, <1>3, <1>4, <1>5, <1>6, <1>7 DEF CounterInv
<1>8. CASE k = "disconnected"
  BY <1>1, <1>3, <1>4, <1>5, <1>6, <1>8 DEF CounterInv
<1> QED
  BY <1>2, <1>7, <1>8 DEF Events

\* Main counts the one bit that is set and erases it.
LEMMA CounterCounts ==
  ASSUME TypeOK, CounterInv, MainAccept \/ MainDisconnect
  PROVE  CounterInv'
<1> SUFFICES ASSUME ~lost' PROVE CounterInv'
  BY DEF CounterInv
<1>1. /\ ~lost /\ event' = {} /\ UNCHANGED <<here, monq>>
      /\ connect \in Int /\ monq \in Seq(Events)
  BY DEF MainAccept, MainDisconnect, workerVars, queueVars, TypeOK
<1>2. /\ Number(monq, "accepted") \in Nat
      /\ Number(monq, "disconnected") \in Nat
  BY <1>1, PlacesFinite
<1>3. /\ IsFiniteSet(here) /\ Cardinality(here) \in Nat
      /\ connect + (Number(monq, "accepted") + Bit("accepted"))
           - (Number(monq, "disconnected") + Bit("disconnected"))
           = Cardinality(here)
  BY <1>1, FS_CardinalityType DEF CounterInv
<1>4. /\ Bit("accepted")' = 0 /\ Bit("disconnected")' = 0
      /\ Number(monq, "accepted")' = Number(monq, "accepted")
      /\ Number(monq, "disconnected")' = Number(monq, "disconnected")
      /\ Cardinality(here)' = Cardinality(here)
      /\ IsFiniteSet(here)'
  BY <1>1, <1>3 DEF Bit
<1>5. CASE MainAccept
  <2>1. event = {"accepted"} /\ connect' = connect + 1
    BY <1>5 DEF MainAccept
  <2>2. Bit("accepted") = 1 /\ Bit("disconnected") = 0
    BY <2>1 DEF Bit
  <2>3. connect' + (Number(monq, "accepted") + 0)
          - (Number(monq, "disconnected") + 0) = Cardinality(here)
    <3>1. connect + (Number(monq, "accepted") + 1)
            - (Number(monq, "disconnected") + 0) = Cardinality(here)
      BY <1>3, <2>2, Zenon
    <3>2. connect \in Int
      BY <1>1
    <3> QED
      BY <1>2, <2>1, <3>1, <3>2
  <2>4. connect' + (Number(monq, "accepted")' + Bit("accepted")')
          - (Number(monq, "disconnected")' + Bit("disconnected")')
          = Cardinality(here)'
    BY <1>4, <2>3, Zenon
  <2> QED
    BY <1>4, <2>4, Zenon DEF CounterInv
<1>6. CASE MainDisconnect
  <2>1. event = {"disconnected"} /\ connect' = connect - 1
    BY <1>6 DEF MainDisconnect
  <2>2. Bit("accepted") = 0 /\ Bit("disconnected") = 1
    BY <2>1 DEF Bit
  <2> QED
    BY <1>1, <1>2, <1>3, <1>4, <2>1, <2>2 DEF CounterInv
<1> QED
  BY <1>5, <1>6

\* Counter: every step.
LEMMA CounterStep == TypeOK /\ CounterInv /\ [Next]_vars => CounterInv'
<1> SUFFICES ASSUME TypeOK, CounterInv, [Next]_vars PROVE CounterInv'
  OBVIOUS
<1>1. CASE MonitorRecv
  BY <1>1, CounterRecv
<1>2. CASE MainAccept \/ MainDisconnect
  BY <1>2, CounterCounts
<1>3. ASSUME NEW w \in Workers, WorkerConnects(w) \/ WorkerDisconnects(w)
      PROVE  CounterInv'
  BY <1>3, CounterWorker
<1>4. CASE UNCHANGED <<lost, here, connect, monq, event>>
  BY <1>4, CounterFrame
<1>5. \/ MonitorRecv \/ MainAccept \/ MainDisconnect \/ WorkerStep
      \/ UNCHANGED <<lost, here, connect, monq, event>>
  <2> USE DEF countVars, workerVars, queueVars
  <2>1. ASSUME NEW fate, FrameDone(fate)
        PROVE  UNCHANGED <<lost, here, connect, monq, event>>
    BY <2>1 DEF FrameDone
  <2>2. MainFrame \/ MainDump \/ MainSend
          => UNCHANGED <<lost, here, connect, monq, event>>
    BY <2>1 DEF MainFrame, MainDump, MainSend
  <2>3. Signal \/ MainKill => UNCHANGED <<lost, here, connect, monq, event>>
    BY DEF Signal, MainKill, EintrMonitor
  <2>4. MainLoop \/ MainPollIn \/ MainPollTimeout \/ MainCheckAccepted
          \/ MainCheckDisconnected \/ MainJoin \/ MainUncompressFails
          \/ MonitorCheck \/ UNCHANGED vars
          => UNCHANGED <<lost, here, connect, monq, event>>
    BY DEF MainLoop, MainPollIn, MainPollTimeout, MainCheckAccepted,
       MainCheckDisconnected, MainJoin, MainUncompressFails, MonitorCheck,
       vars
  <2> QED
    BY <2>2, <2>3, <2>4 DEF Next, MainStep, MonitorStep
<1> QED
  BY <1>1, <1>2, <1>3, <1>4, <1>5 DEF WorkerStep

\* The counter invariant holds throughout.
LEMMA CounterInvariant == Spec => []CounterInv
<1>1. ControlInv => TypeOK
  BY DEF ControlInv
<1> QED
  BY <1>1, ControlInvariant, CounterInit, CounterStep, PTL DEF Spec

\* For any number of workers and connections: unless an event bit was merged or
\* erased unseen, the counter and what is still to be counted add up to the
\* workers that are connected.
THEOREM CounterIsExact == Spec => []CounterExact
<1>1. CounterInv => CounterExact
  BY DEF CounterInv, CounterExact, CountOf, Number, Places, Bit
<1> QED
  BY <1>1, CounterInvariant, PTL

-----------------------------------------------------------------------------
(***************************************************************************)
(* The server implements MessageRelay.  What its history says of messages  *)
(* that ended rests on three facts: the frames of the message in hand are  *)
(* the last of the history (HandInv); the messages ended in order          *)
(* (OrderInv); and the way to relay a message stays the same for all its   *)
(* frames (ModeInv).                                                       *)
(***************************************************************************)
Keeps(drops, f) == ~drops \/ f # 0

\* What a place in the inner loop says of the mode.
ModeFits(pc, md) ==
  /\ pc = "dump" => md = "dump"
  /\ pc \in {"uncompress", "sendmsg"} => md # "dump"

ModeInv ==
  /\ mpc \in Modes => Keeps(DropsKey, frm)
  /\ ~interrupted => ModeFits(mpc, mode)

HandInv ==
  InLoop(mpc) => /\ Hand(out, frm, taken)
                 /\ ~Fault => HandFated(out, frm, DropsKey, mode)

\* All messages taken have ended, but for one in hand and one that a signal
\* cut off.
OrderInv ==
  /\ InLoop(mpc) => InOrder(out, Frames, taken - 1)
  /\ ~InLoop(mpc) => \/ InOrder(out, Frames, taken)
                     \/ /\ interrupted /\ mpc # "poll"
                        /\ InOrder(out, Frames, taken - 1)

RelayInv == ControlInv /\ ModeInv /\ HandInv /\ OrderInv

\* Relay: the start.
LEMMA RelayInit == Init => RelayInv
<1> SUFFICES ASSUME Init PROVE RelayInv
  OBVIOUS
<1>1. mpc = "loop" /\ out = <<>> /\ taken = 0 /\ ~InLoop(mpc)
  BY DEF Init, InLoop, Modes
<1>2. ModeInv /\ HandInv
  BY <1>1 DEF ModeInv, ModeFits, HandInv, Modes
<1>3. OrderInv
  BY <1>1, InOrderEmpty DEF OrderInv
<1> QED
  BY <1>2, <1>3, ControlInit DEF RelayInv

(***************************************************************************)
(* Four kinds of step: main takes a message, is done with a frame, leaves  *)
(* its inner loop at a signal, or does nothing to a message.               *)
(***************************************************************************)
Quiet ==
  /\ UNCHANGED <<server, taken, mode, frm, out>>
  /\ interrupted => interrupted'
  /\ InLoop(mpc') <=> InLoop(mpc)
  /\ mpc' \in Modes => Keeps(DropsKey, frm)
  /\ ~interrupted' => ModeFits(mpc', mode)
  /\ mpc' = "poll" => mpc = "poll" \/ ~interrupted

Leaves ==
  /\ interrupted /\ interrupted' /\ InLoop(mpc)
  /\ mpc' = "check_accepted" /\ frm' = 0
  /\ UNCHANGED <<server, taken, out>>

Done(fate) ==
  /\ InLoop(mpc) /\ FrameDone(fate)
  /\ (fate = "key") <=> ~Keeps(DropsKey, frm)
  /\ ~interrupted /\ fate # "dropped" => fate = Fated(DropsKey, mode, frm + 1)

\* Of each step: what it does to the messages, as one of four kinds.
LEMMA StepKinds ==
  ASSUME ControlInv, ModeInv, [Next]_vars
  PROVE  Quiet \/ Leaves \/ MainPollIn \/ \E fate \in Fates : Done(fate)
<1> USE DEF mainVars, mainData, countVars, queueVars, workerVars, signalVars
<1>0. frm \in Nat /\ (InLoop(mpc) => mode \in Modes)
  BY DEF ControlInv, TypeOK, Holding
<1>k. KeepsFrame <=> Keeps(DropsKey, frm)
  BY DEF KeepsFrame, Keeps
<1>1. CASE Signal
  <2>1. /\ UNCHANGED <<server, taken, mode, frm, out>> /\ interrupted' = TRUE
    BY <1>1 DEF Signal, EintrMain
  <2>2. \/ mpc' = mpc
        \/ mpc = "poll" /\ mpc' = "kill"
        \/ mpc \in Modes /\ mpc' \in Modes
    BY <1>1 DEF Signal, EintrMain, Modes
  <2> QED
    BY <2>1, <2>2 DEF Quiet, ModeInv, InLoop, Modes
<1>2. CASE MainLoop
  BY <1>2 DEF MainLoop, Quiet, InLoop, Modes, ModeFits
<1>3. CASE \/ MainPollTimeout \/ MainCheckAccepted \/ MainAccept
           \/ MainCheckDisconnected \/ MainDisconnect \/ MainKill \/ MainJoin
  <2>1. /\ UNCHANGED <<server, taken, mode, frm, out>>
        /\ interrupted => interrupted'
        /\ mpc \in {"poll", "check_accepted", "accept", "check_disconnected",
                    "disconnect", "kill", "join"}
        /\ mpc' \in {"check_accepted", "accept", "check_disconnected",
                     "disconnect", "loop", "join", "done"}
    BY <1>3 DEF MainPollTimeout, MainCheckAccepted, MainAccept,
       MainCheckDisconnected, MainDisconnect, MainKill, MainJoin
  <2> QED
    BY <2>1 DEF Quiet, InLoop, Modes, ModeFits
<1>4. CASE MainFrame
  <2>1. mpc = "frame" /\ InLoop(mpc)
    BY <1>4 DEF MainFrame, InLoop
  <2>2. CASE interrupted
    BY <1>4, <2>1, <2>2 DEF MainFrame, Leaves
  <2>3. CASE ~interrupted /\ KeepsFrame
    <3>1. /\ mpc' = mode
          /\ UNCHANGED <<server, taken, mode, frm, out, interrupted>>
      BY <1>4, <2>3 DEF MainFrame
    <3>2. mode \in Modes /\ Keeps(DropsKey, frm)
      BY <1>0, <1>k, <2>1, <2>3
    <3> QED
      BY <2>1, <2>3, <3>1, <3>2 DEF Quiet, InLoop, Modes, ModeFits
  <2>4. CASE ~interrupted /\ ~KeepsFrame
    <3>1. FrameDone("key")
      BY <1>4, <2>4 DEF MainFrame
    <3>2. DropsKey /\ frm = 0
      BY <2>4 DEF KeepsFrame
    <3> QED
      BY <2>1, <3>1, <3>2 DEF Done, Fated, Keeps, Fates
  <2> QED
    BY <2>2, <2>3, <2>4
<1>5. CASE MainDump
  <2>1. mpc = "dump" /\ InLoop(mpc) /\ Keeps(DropsKey, frm)
    BY <1>5 DEF MainDump, InLoop, Modes, ModeInv
  <2>2. PICK fate \in {"dumped", "dropped"} : FrameDone(fate)
    BY <1>5 DEF MainDump
  <2>3. ~interrupted => mode = "dump"
    BY <2>1 DEF ModeInv, ModeFits
  <2>4. ~(DropsKey /\ frm + 1 = 1)
    BY <1>0, <2>1 DEF Keeps
  <2> QED
    BY <2>1, <2>2, <2>3, <2>4 DEF Done, Fated, Fates
<1>6. CASE MainSend
  <2>1. /\ mpc \in {"uncompress", "sendmsg"} /\ InLoop(mpc)
        /\ Keeps(DropsKey, frm) /\ FrameDone("sent")
    BY <1>6 DEF MainSend, InLoop, Modes, ModeInv
  <2>2. ~interrupted => mode # "dump"
    BY <2>1 DEF ModeInv, ModeFits
  <2>3. ~(DropsKey /\ frm + 1 = 1)
    BY <1>0, <2>1 DEF Keeps
  <2> QED
    BY <2>1, <2>2, <2>3 DEF Done, Fated, Fates
<1>7. CASE MainUncompressFails
  <2>1. /\ mpc = "uncompress" /\ mpc' = "sendmsg"
        /\ UNCHANGED <<server, taken, mode, frm, out, interrupted>>
    BY <1>7 DEF MainUncompressFails
  <2> QED
    BY <2>1 DEF Quiet, ModeInv, ModeFits, InLoop, Modes
<1>8. CASE MonitorStep \/ WorkerStep \/ UNCHANGED vars
  <2>1. UNCHANGED <<server, taken, mode, frm, out, interrupted, mpc>>
    BY <1>8 DEF MonitorStep, MonitorCheck, MonitorRecv, WorkerStep,
       WorkerConnects, WorkerDisconnects, vars
  <2> QED
    BY <2>1 DEF Quiet, ModeInv
<1> QED
  BY <1>1, <1>2, <1>3, <1>4, <1>5, <1>6, <1>7, <1>8 DEF Next, MainStep

\* What the lemmas on the history need of a frame that main is done with.
LEMMA DoneHistory ==
  ASSUME ControlInv, NEW fate \in Fates, Done(fate)
  PROVE  LET r == [msg |-> taken, frame |-> frm + 1, fate |-> fate]
         IN /\ Extends(out', out, r)
            /\ frm \in Nat /\ taken \in Messages /\ Frames[taken] \in Nat \ {0}
            /\ frm < Frames[taken] /\ taken - 1 \in Nat /\ taken \in Nat
            /\ UNCHANGED <<server, taken, interrupted>>
            /\ InLoop(mpc') <=> frm + 1 # Frames[taken]
            /\ InLoop(mpc') => frm' = frm + 1 /\ mode' = mode /\ mpc' = "frame"
            /\ mpc' # "poll"
<1> DEFINE r == [msg |-> taken, frame |-> frm + 1, fate |-> fate]
<1>1. /\ frm \in Nat /\ taken \in Messages /\ Frames[taken] \in Nat \ {0}
      /\ frm < Frames[taken]
  BY FramesType DEF ControlInv, Holding, Done
<1>2. taken \in Nat /\ taken - 1 \in Nat
  BY <1>1, LenFrames DEF Messages
<1>3. Extends(out', out, r)
  <2> DEFINE S == [msg : Messages, frame : Nat, fate : Fates]
  <2>1. r \in S /\ out \in Seq(S) /\ out' = Append(out, r)
    BY <1>1 DEF ControlInv, TypeOK, Done, FrameDone
  <2> HIDE DEF r, S
  <2> QED
    BY <2>1, AppendExtends
<1>4. UNCHANGED <<server, taken, interrupted>>
  BY DEF Done, FrameDone, signalVars
<1>5. CASE frm + 1 = Frames[taken]
  <2>1. mpc' = "check_accepted"
    BY <1>5 DEF Done, FrameDone
  <2> QED
    BY <1>1, <1>2, <1>3, <1>4, <1>5, <2>1 DEF InLoop, Modes
<1>6. CASE frm + 1 # Frames[taken]
  <2>1. mpc' = "frame" /\ frm' = frm + 1 /\ mode' = mode
    BY <1>6 DEF Done, FrameDone
  <2> QED
    BY <1>1, <1>2, <1>3, <1>4, <1>6, <2>1 DEF InLoop, Modes
<1> QED
  BY <1>5, <1>6

\* A fault is never forgotten.
LEMMA FaultGrows ==
  ASSUME interrupted => interrupted',
         out' = out \/ (\E r : Extends(out', out, r))
  PROVE  Fault => Fault'
  BY DEF Fault, Extends

\* The four kinds of step keep the invariant.
LEMMA RelayQuiet ==
  ASSUME RelayInv, ControlInv', Quiet
  PROVE  RelayInv'
<1>1. Fault => Fault'
  BY FaultGrows DEF Quiet
<1>2. UNCHANGED <<server, taken, mode, frm, out, DropsKey>>
      /\ (InLoop(mpc') <=> InLoop(mpc))
  BY DEF Quiet, DropsKey
<1>3. ModeInv'
  BY <1>2, Zenon DEF Quiet, ModeInv
<1>4. HandInv'
  BY <1>1, <1>2, Zenon DEF HandInv, RelayInv
<1>5. OrderInv'
  <2>1. CASE InLoop(mpc)
    BY <1>2, <2>1, Zenon DEF OrderInv, RelayInv
  <2>2. CASE ~InLoop(mpc)
    BY <1>2, <2>2, Zenon DEF OrderInv, RelayInv, Quiet
  <2> QED
    BY <2>1, <2>2
<1> QED
  BY <1>3, <1>4, <1>5, Zenon DEF RelayInv

\* Relay: the inner loop is left because of a signal.
LEMMA RelayLeaves ==
  ASSUME RelayInv, ControlInv', Leaves
  PROVE  RelayInv'
<1>1. /\ interrupted' /\ InLoop(mpc) /\ ~InLoop(mpc') /\ mpc' # "poll"
      /\ mpc' \notin Modes /\ UNCHANGED <<server, taken, out>>
  BY DEF Leaves, InLoop, Modes
<1>2. ModeInv' /\ HandInv'
  BY <1>1, Zenon DEF ModeInv, HandInv
<1>3. OrderInv'
  BY <1>1, Zenon DEF OrderInv, RelayInv
<1> QED
  BY <1>2, <1>3, Zenon DEF RelayInv

\* Relay: the next message is taken.
LEMMA RelayPollIn ==
  ASSUME RelayInv, ControlInv', MainPollIn
  PROVE  RelayInv'
<1>1. /\ mpc = "poll" /\ ~InLoop(mpc) /\ frm = 0 /\ mpc' = "frame"
      /\ taken' = taken + 1 /\ frm' = 0 /\ InLoop(mpc')
      /\ UNCHANGED <<server, out, interrupted>> /\ mpc' \notin Modes
  BY DEF MainPollIn, InLoop, Modes, RelayInv, ControlInv, Holding, signalVars
<1>2. taken \in Nat /\ out \in Seq([msg : Messages, frame : Nat, fate : Fates])
  BY LenFrames DEF RelayInv, ControlInv, TypeOK
<1>3. Len(out) \in Nat
  BY <1>2
<1>4. ModeInv'
  BY <1>1 DEF ModeInv, ModeFits
<1>5. HandInv'
  <2>1. Hand(out', 0, taken') /\ HandFated(out', 0, DropsKey', mode')
    BY <1>1, <1>3 DEF Hand, HandFated
  <2> QED
    BY <1>1, <2>1, Zenon DEF HandInv
<1>6. OrderInv'
  <2>1. InOrder(out, Frames, taken)
    BY <1>1, Zenon DEF OrderInv, RelayInv
  <2>2. taken' - 1 = taken
    BY <1>1, <1>2
  <2> QED
    BY <1>1, <2>1, <2>2, Zenon DEF OrderInv
<1> QED
  BY <1>4, <1>5, <1>6, Zenon DEF RelayInv

\* Until a fault, the frame shares the fate of those of its message before it.
LEMMA DoneFated ==
  ASSUME HandInv, InLoop(mpc), frm \in Nat, NEW fate, Done(fate),
         Extends(out', out, [msg |-> taken, frame |-> frm + 1, fate |-> fate]),
         interrupted' = interrupted, ~Fault'
  PROVE  HandFated(out', frm + 1, DropsKey, mode)
<1> DEFINE r == [msg |-> taken, frame |-> frm + 1, fate |-> fate]
<1>1. /\ Len(out) \in Nat /\ Len(out') = Len(out) + 1
      /\ DOMAIN out' = 1..(Len(out) + 1) /\ out'[Len(out) + 1] = r
      /\ \A j \in 1..Len(out) : out'[j] = out[j]
  BY DEF Extends
<1>2. ~Fault /\ ~interrupted
  BY FaultGrows DEF Fault
<1>3. fate # "dropped"
  <2>1. Len(out) + 1 \in DOMAIN out' /\ out'[Len(out) + 1].fate = fate
    BY <1>1
  <2> QED
    BY <2>1 DEF Fault
<1>4. fate = Fated(DropsKey, mode, frm + 1)
  BY <1>2, <1>3 DEF Done
<1>5. frm <= Len(out) /\ HandFated(out, frm, DropsKey, mode)
  BY <1>2 DEF HandInv, Hand
<1> QED
  BY <1>4, <1>5, FatedExtends

\* A frame that is done with keeps the invariant.
LEMMA RelayDone ==
  ASSUME RelayInv, ControlInv', NEW fate \in Fates, Done(fate)
  PROVE  RelayInv'
<1> DEFINE r == [msg |-> taken, frame |-> frm + 1, fate |-> fate]
<1>1. /\ Extends(out', out, r)
      /\ frm \in Nat /\ taken \in Messages /\ Frames[taken] \in Nat \ {0}
      /\ frm < Frames[taken] /\ taken - 1 \in Nat /\ taken \in Nat
      /\ UNCHANGED <<server, taken, interrupted>>
      /\ InLoop(mpc') <=> frm + 1 # Frames[taken]
      /\ InLoop(mpc') => frm' = frm + 1 /\ mode' = mode /\ mpc' = "frame"
      /\ mpc' # "poll" /\ InLoop(mpc)
  BY DoneHistory DEF RelayInv, Done
<1>2. DropsKey' = DropsKey
  BY <1>1 DEF DropsKey
<1>3. /\ Len(out) \in Nat /\ DOMAIN out = 1..Len(out)
      /\ Len(out') = Len(out) + 1 /\ DOMAIN out' = 1..(Len(out) + 1)
      /\ out'[Len(out) + 1] = r
      /\ \A j \in 1..Len(out) : out'[j] = out[j]
  BY <1>1 DEF Extends
<1>4. ModeInv'
  <2>1. mpc' \notin Modes /\ mpc' \notin {"dump", "uncompress", "sendmsg"}
    <3>1. CASE InLoop(mpc')
      BY <1>1, <3>1 DEF Modes
    <3>2. CASE ~InLoop(mpc')
      BY <3>2 DEF InLoop, Modes
    <3> QED
      BY <3>1, <3>2
  <2> QED
    BY <2>1 DEF ModeInv, ModeFits
<1>5. HandInv'
  <2> SUFFICES ASSUME InLoop(mpc') PROVE HandInv'
    BY Zenon DEF HandInv
  <2>1. frm' = frm + 1 /\ mode' = mode
    BY <1>1
  <2>2. Hand(out, frm, taken)
    BY <1>1, Zenon DEF RelayInv, HandInv
  <2>3. Hand(out', frm + 1, taken)
    BY <1>1, <2>2, HandExtends
  <2>4. ASSUME ~Fault' PROVE HandFated(out', frm + 1, DropsKey, mode)
    BY <1>1, <1>3, <2>2, <2>4, DoneFated DEF RelayInv
  <2> QED
    BY <1>1, <1>2, <2>1, <2>3, <2>4, Zenon DEF HandInv
<1>6. OrderInv'
  <2>1. InOrder(out, Frames, taken - 1)
    BY <1>1, Zenon DEF OrderInv, RelayInv
  <2>2. CASE frm + 1 = Frames[taken]
    <3>1. InOrder(out', Frames, (taken - 1) + 1)
      BY <1>1, <2>1, <2>2, InOrderLast
    <3>2. (taken - 1) + 1 = taken
      BY <1>1
    <3> QED
      BY <1>1, <2>2, <3>1, <3>2, Zenon DEF OrderInv
  <2>3. CASE frm + 1 # Frames[taken]
    <3>1. InOrder(out', Frames, taken - 1)
      BY <1>1, <2>1, <2>3, InOrderFrame
    <3> QED
      BY <1>1, <2>3, <3>1, Zenon DEF OrderInv
  <2> QED
    BY <2>2, <2>3
<1> QED
  BY <1>4, <1>5, <1>6, Zenon DEF RelayInv

\* Every step of the server keeps what is said of its history.
LEMMA RelayStep == RelayInv /\ [Next]_vars => RelayInv'
<1> SUFFICES ASSUME RelayInv, [Next]_vars PROVE RelayInv'
  OBVIOUS
<1>1. ControlInv'
  BY ControlStep DEF RelayInv
<1>2. Quiet \/ Leaves \/ MainPollIn \/ \E fate \in Fates : Done(fate)
  BY StepKinds DEF RelayInv
<1> QED
  BY <1>1, <1>2, RelayQuiet, RelayLeaves, RelayPollIn, RelayDone

\* The relay invariant holds throughout.
LEMMA RelayInvariant == Spec => []RelayInv
  BY RelayInit, RelayStep, PTL DEF Spec

\* A step that adds nothing to the history.
LEMMA RelaysNothing ==
  ASSUME RelayInv, Quiet \/ Leaves
  PROVE  [Relay!Next]_(Relay!vars)
<1>1. UNCHANGED <<server, taken, out>> /\ (interrupted => interrupted')
  BY DEF Quiet, Leaves
<1>2. DropsKey' = DropsKey /\ Relayed' = Relayed
  BY <1>1 DEF DropsKey, Relayed
<1>3. Fault => Fault'
  BY <1>1, FaultGrows
<1>4. Fault' \in BOOLEAN /\ Fault \in BOOLEAN
  BY DEF Fault
<1>5. CASE Fault' = TRUE
  BY <1>1, <1>2, <1>5 DEF Relay!Next, Relay!Fault
<1>6. CASE Fault' = FALSE
  BY <1>1, <1>2, <1>3, <1>4, <1>6 DEF Relay!vars
<1> QED
  BY <1>4, <1>5, <1>6

\* Main takes a message.
LEMMA RelaysAccept ==
  ASSUME RelayInv, MainPollIn
  PROVE  [Relay!Next]_(Relay!vars)
<1>1. /\ UNCHANGED <<server, out, interrupted>>
      /\ taken' = taken + 1 /\ taken < Len(Frames)
  BY DEF MainPollIn, signalVars
<1>2. DropsKey' = DropsKey /\ Relayed' = Relayed /\ Fault' = Fault
  BY <1>1 DEF DropsKey, Relayed, Fault
<1> QED
  BY <1>1, <1>2 DEF Relay!Next, Relay!Accept

\* A message whose last frame is done with is whole, unless there was a fault,
\* and is discarded exactly if it is nothing but a key.
LEMMA DoneFate ==
  ASSUME RelayInv, ControlInv', NEW fate \in Fates, Done(fate),
         frm + 1 = Frames[taken]
  PROVE  LET f == FateIn(out', Frames, DropsKey, taken)
         IN /\ f \in Relay!Fates
            /\ f = "damaged" => Fault'
            /\ f = "discarded" <=> DropsKey /\ Frames[taken] = 1
<1> DEFINE f == FateIn(out', Frames, DropsKey, taken)
           r == [msg |-> taken, frame |-> frm + 1, fate |-> fate]
<1>1. /\ Extends(out', out, r) /\ InLoop(mpc)
      /\ frm \in Nat /\ taken \in Messages /\ Frames[taken] \in Nat \ {0}
      /\ interrupted' = interrupted
  BY DoneHistory DEF RelayInv, Done
<1>2. f \in Relay!Fates /\ (f = "discarded" => DropsKey /\ Frames[taken] = 1)
  BY DEF FateIn, Relay!Fates
<1>3. Len(out') \in Nat /\ Len(out') >= 1 /\ out'[Len(out')] = r
  BY <1>1 DEF Extends
<1>4. ASSUME DropsKey, Frames[taken] = 1 PROVE f = "discarded"
  <2>1. frm = 0 /\ DropsKey = TRUE
    BY <1>1, <1>4 DEF DropsKey
  <2>2. fate = "key"
    BY <1>4, <2>1 DEF Done, Keeps
  <2>3. out'[Len(out')] = [msg |-> taken, frame |-> 1, fate |-> "key"]
    BY <1>3, <2>1, <2>2
  <2>4. FateIn(out', Frames, TRUE, taken) = "discarded"
    BY <1>3, <1>4, <2>3, FateKeyOnly
  <2> QED
    BY <2>1, <2>4, Zenon
<1>5. ASSUME ~Fault' PROVE f # "damaged"
  <2>1. Hand(out', frm + 1, taken)
    BY <1>1, HandExtends, Zenon DEF RelayInv, HandInv
  <2>2. HandFated(out', frm + 1, DropsKey, mode)
    BY <1>1, <1>5, DoneFated DEF RelayInv
  <2>3. frm + 1 \in Nat \ {0}
    BY <1>1
  <2>4. Records(out')
    BY RecordsType DEF ControlInv, TypeOK
  <2> QED
    BY <2>1, <2>2, <2>3, <2>4, HandWhole
<1> QED
  BY <1>2, <1>4, <1>5, Zenon

\* Main is done with a frame: a message ends with its last one.
LEMMA RelaysFrame ==
  ASSUME RelayInv, RelayInv', NEW fate \in Fates, Done(fate)
  PROVE  [Relay!Next]_(Relay!vars)
<1> DEFINE r == [msg |-> taken, frame |-> frm + 1, fate |-> fate]
           c == taken - 1
<1>1. /\ Extends(out', out, r)
      /\ frm \in Nat /\ taken \in Messages /\ c \in Nat /\ taken \in Nat
      /\ UNCHANGED <<server, taken, interrupted>>
      /\ InLoop(mpc') <=> frm + 1 # Frames[taken]
      /\ InLoop(mpc)
  BY DoneHistory DEF RelayInv, Done
<1>2. DropsKey' = DropsKey
  BY <1>1 DEF DropsKey
<1>3. InOrder(out, Frames, c)
  BY <1>1, Zenon DEF OrderInv, RelayInv
<1>4. \A n \in 1..c : Frames[n] \in Nat \ {0} /\ r.msg # n
  <2>1. \A n \in 1..c : n \in Messages /\ n # taken
    BY <1>1, LenFrames DEF Messages
  <2> QED
    BY <2>1, FramesType
<1>5. Fault' \in BOOLEAN /\ Fault \in BOOLEAN /\ (Fault => Fault')
  <2>1. Fault => Fault'
    BY <1>1, FaultGrows
  <2> QED
    BY <2>1 DEF Fault
<1>6. Fault' \in {Fault, TRUE}
  BY <1>5
<1>7. CASE frm + 1 # Frames[taken]
  <2>1. InOrder(out', Frames, c)
    BY <1>1, <1>3, <1>7, InOrderFrame
  <2>2. Relayed' = Relayed
    <3>1. RelayedIn(out', Frames, DropsKey) = RelayedIn(out, Frames, DropsKey)
      BY <1>1, <1>3, <1>4, <2>1, RelayedFrame
    <3> QED
      BY <1>2, <3>1 DEF Relayed
  <2>3. CASE Fault' = TRUE
    BY <1>1, <1>2, <2>2, <2>3 DEF Relay!Next, Relay!Fault
  <2>4. CASE Fault' = Fault
    BY <1>1, <1>2, <2>2, <2>4 DEF Relay!vars
  <2> QED
    BY <1>6, <2>3, <2>4
<1>8. CASE frm + 1 = Frames[taken]
  <2> DEFINE f == FateIn(out', Frames, DropsKey, taken)
  <2>1. c + 1 = taken
    BY <1>1
  <2>2. InOrder(out', Frames, c + 1)
    BY <1>1, <1>3, <1>8, <2>1, InOrderLast
  <2>3. /\ Len(RelayedIn(out, Frames, DropsKey)) = c
        /\ RelayedIn(out', Frames, DropsKey) =
             Append(RelayedIn(out, Frames, DropsKey),
                    [msg |-> c + 1,
                     fate |-> FateIn(out', Frames, DropsKey, c + 1)])
    BY <1>1, <1>3, <1>4, <2>2, RelayedLast
  <2>4. /\ Len(Relayed) = c
        /\ Relayed' = Append(Relayed, [msg |-> taken, fate |-> f])
    BY <1>2, <2>1, <2>3 DEF Relayed
  <2>5. /\ f \in Relay!Fates /\ (f = "damaged" => Fault')
        /\ f = "discarded" <=> DropsKey /\ Frames[taken] = 1
    BY <1>8, DoneFate DEF RelayInv
  <2> HIDE DEF f
  <2>6. taken \in {m \in Messages : Frames[m] = 1} <=> Frames[taken] = 1
    BY <1>1
  <2>7. Relay!Relay(f)
    <3>1. Len(Relayed) < taken /\ Len(Relayed) + 1 = taken
      BY <1>1, <2>1, <2>4
    <3>2. f = "discarded" <=>
            DropsKey /\ Len(Relayed) + 1 \in {m \in Messages : Frames[m] = 1}
      BY <2>5, <2>6, <3>1, Zenon
    <3>3. Relayed' = Append(Relayed, [msg |-> Len(Relayed) + 1, fate |-> f])
      BY <2>4, <3>1, Zenon
    <3>4. /\ f = "damaged" => Fault'
          /\ UNCHANGED <<DropsKey, taken>>
      BY <1>1, <1>2, <2>5
    <3> QED
      BY <1>6, <3>1, <3>2, <3>3, <3>4, Zenon DEF Relay!Relay
  <2> QED
    BY <2>5, <2>7 DEF Relay!Next
<1> QED
  BY <1>7, <1>8

\* For any number of messages and frames, workers, connections and signals:
\* the messages leave whole, in order and at most once, and only a fault
\* damages one.
THEOREM ServerImplementsRelay == Spec => RelaySpec
<1>1. Init => Relay!Init
  <2> SUFFICES ASSUME Init PROVE Relay!Init
    OBVIOUS
  <2>1. out = <<>> /\ taken = 0 /\ interrupted = FALSE
    BY DEF Init
  <2>2. InOrder(out, Frames, 0)
    BY <2>1, InOrderEmpty
  <2>3. RelayedIn(out, Frames, DropsKey) =
          [n \in 1..0 |->
             [msg |-> n, fate |-> FateIn(out, Frames, DropsKey, n)]]
    BY <2>2, RelayedInOrder
  <2>4. Relayed = <<>>
    BY <2>3 DEF Relayed
  <2>5. Fault = FALSE /\ DropsKey \in BOOLEAN
    BY <2>1 DEF Fault, DropsKey
  <2> QED
    BY <2>1, <2>4, <2>5 DEF Relay!Init
<1>2. RelayInv /\ RelayInv' /\ [Next]_vars => [Relay!Next]_(Relay!vars)
  <2> SUFFICES ASSUME RelayInv, RelayInv', [Next]_vars
               PROVE  [Relay!Next]_(Relay!vars)
    OBVIOUS
  <2>1. Quiet \/ Leaves \/ MainPollIn \/ \E fate \in Fates : Done(fate)
    BY StepKinds DEF RelayInv
  <2> QED
    BY <2>1, RelaysNothing, RelaysAccept, RelaysFrame
<1> QED
  BY <1>1, <1>2, RelayInvariant, PTL DEF Spec, RelaySpec, Relay!Spec
=============================================================================
