------------------------- MODULE ClientServerProofs -------------------------
(***************************************************************************)
(* Safety of the client for any number of endpoints, messages, frames,     *)
(* connections and signals.                                                *)
(***************************************************************************)
EXTENDS ClientServer, HistoryProofs, FiniteSetTheorems, TLAPS

USE NAssumption, FramesAssumption, CompressAssumption, InprocAssumption,
    BoundsAssumption

\* The message main holds has a number.
HandTaken == mpc = "forward" => taken \in Messages

\* The end comes after a signal only; the backend comes to it between two
\* messages, and has discarded nothing before it is done.
EndInv ==
  /\ mpc \in {"kill", "join", "done"} => interrupted
  /\ bpc \in {"stop", "join", "done"} => gc /\ frm = 0
  /\ bpc # "done" => discarded = <<>>

\* The inductive invariant of the control state: TypeOK alone is not
\* inductive, for the mode and the head of inproc are used where only the
\* backend's place in its loop says that they are there.
ControlInv ==
  /\ TypeOK
  /\ HandTaken
  /\ InnerLoopHasFrame
  /\ GcOnlyAfterInterrupt
  /\ EndInv

\* What the backend's loop over the endpoints does to idx and bpc.
LEMMA AfterEndpointType ==
  ASSUME AfterEndpoint, idx \in Endpoints
  PROVE  idx' \in Endpoints /\ bpc' \in {"check_connected", "loop"}
  BY DEF AfterEndpoint, Endpoints

\* The parts of FrameDone that concern the message being taken.
LEMMA FrameDoneMessage ==
  ASSUME NEW fate \in Fates, FrameDone(fate), ControlInv,
         bpc \in Modes
  PROVE  /\ inproc' \in Seq(Messages)
         /\ frm' \in Nat
         /\ mode' \in Modes \cup {"none"}
         /\ bpc' \in {"check_connected", "frame"}
         /\ out' \in Seq([msg : Messages, frame : Nat, fate : Fates])
         /\ InnerLoopHasFrame'
<1> DEFINE m == Head(inproc)
<1>1. /\ inproc # <<>> /\ inproc \in Seq(Messages) /\ mode \in Modes
      /\ frm \in Nat
  BY DEF ControlInv, TypeOK, InnerLoopHasFrame
<1>2. /\ m \in Messages /\ Tail(inproc) \in Seq(Messages)
  BY <1>1
<1>3. Frames[m] \in Nat \ {0}
  BY <1>2 DEF Messages
<1>4. frm < Frames[m]
  BY <1>1, <1>3 DEF ControlInv, InnerLoopHasFrame
<1>5. out' \in Seq([msg : Messages, frame : Nat, fate : Fates])
  <2>1. out' = Append(out, [msg |-> m, frame |-> frm + 1, fate |-> fate])
    BY DEF FrameDone
  <2>2. [msg |-> m, frame |-> frm + 1, fate |-> fate]
          \in [msg : Messages, frame : Nat, fate : Fates]
    BY <1>1, <1>2
  <2>3. out \in Seq([msg : Messages, frame : Nat, fate : Fates])
    BY DEF ControlInv, TypeOK
  <2> QED
    BY <2>1, <2>2, <2>3
<1>6. CASE frm + 1 = Frames[m]
  <2>1. /\ frm' = 0 /\ inproc' = Tail(inproc) /\ bpc' = "check_connected"
        /\ mode' = "none"
    BY <1>6 DEF FrameDone
  <2> QED
    BY <2>1, <1>1, <1>2, <1>5 DEF InnerLoopHasFrame, Modes
<1>7. CASE frm + 1 # Frames[m]
  <2>1. /\ frm' = frm + 1 /\ inproc' = inproc /\ bpc' = "frame"
        /\ mode' = mode
    BY <1>7 DEF FrameDone
  <2>2. frm + 1 < Frames[m]
    BY <1>1, <1>3, <1>4, <1>7
  <2> QED
    BY <2>1, <2>2, <1>1, <1>5 DEF InnerLoopHasFrame, Modes
<1> QED
  BY <1>6, <1>7

\* The number of messages is a natural number.
LEMMA LenFrames == Len(Frames) \in Nat
  BY DEF FramesAssumption

\* The client starts in a state of the control invariant: at the end of its
\* startup every thread is at the head of its loop.
LEMMA ControlInit == Init => ControlInv
<1> SUFFICES ASSUME Init PROVE ControlInv
  OBVIOUS
<1>1. 1 \in Endpoints
  BY DEF Endpoints
<1>2. /\ signals \in 0..MaxSignals /\ mpc \in MainPc
      /\ taken \in 0..Len(Frames) /\ bpc \in BackendPc /\ idx \in Endpoints
      /\ mode \in Modes \cup {"none"} /\ frm \in Nat /\ connect \in Int
      /\ flaps \in 0..MaxFlaps /\ pipes \subseteq PipeIds
  BY <1>1, LenFrames DEF Init, MainPc, BackendPc
<1>8. interrupted \in BOOLEAN /\ gc \in BOOLEAN /\ lost \in BOOLEAN
  BY DEF Init
<1>3. /\ inproc \in Seq(Messages)
      /\ out \in Seq([msg : Messages, frame : Nat, fate : Fates])
      /\ discarded \in Seq(Messages)
  BY DEF Init
<1>4. /\ monpc \in [Endpoints -> MonitorPc]
      /\ link \in [Endpoints -> BOOLEAN]
  BY DEF Init, MonitorPc
<1>5. monq \in [Endpoints -> Seq(Events)]
  <2>1. <<>> \in Seq(Events)
    OBVIOUS
  <2> QED
    BY <2>1 DEF Init
<1>6. event \in [Endpoints -> SUBSET Events]
  BY DEF Init
<1>7. HandTaken /\ InnerLoopHasFrame /\ GcOnlyAfterInterrupt /\ EndInv
  BY DEF Init, HandTaken, InnerLoopHasFrame, GcOnlyAfterInterrupt, EndInv, Modes
<1> QED
  BY <1>2, <1>3, <1>4, <1>5, <1>6, <1>7, <1>8 DEF ControlInv, TypeOK

\* What EINTR does to the backend keeps its part of the invariant.
LEMMA EintrBackendType ==
  ASSUME ControlInv, EintrBackend \/ UNCHANGED backendVars
  PROVE  /\ bpc' \in BackendPc /\ gc' \in BOOLEAN /\ idx' \in Endpoints
         /\ mode' = mode
         /\ bpc' \in {"frame"} \cup Modes => bpc \in {"frame"} \cup Modes
         /\ gc' => bpc' \notin Modes
         /\ bpc' \in {"stop", "join", "done"} => gc' /\ frm = 0
         /\ bpc' = "done" <=> bpc = "done"
<1> USE DEF ControlInv, EndInv, TypeOK, GcOnlyAfterInterrupt, BackendPc, Modes
<1>1. CASE bpc = "poll" /\ EintrBackend
  <2>1. bpc' \in {"stop", "check_connected"} /\ gc' = TRUE /\ idx' = 1
    BY <1>1 DEF EintrBackend
  <2>2. mode' = mode /\ inproc = <<>>
    BY <1>1 DEF EintrBackend
  <2> QED
    BY <2>1, <2>2, <1>1 DEF Endpoints, InnerLoopHasFrame
<1>2. CASE bpc # "poll" /\ EintrBackend
  BY <1>2 DEF EintrBackend
<1>3. CASE UNCHANGED backendVars
  BY <1>3 DEF backendVars
<1> QED
  BY <1>1, <1>2, <1>3

\* A signal, whichever thread takes it, keeps the control invariant.
LEMMA ControlSignal == ControlInv /\ Signal => ControlInv'
<1> SUFFICES ASSUME ControlInv, Signal PROVE ControlInv'
  OBVIOUS
<1> USE DEF ControlInv
<1>1. /\ interrupted' = TRUE /\ signals' \in 0..MaxSignals
      /\ UNCHANGED <<socketVars, linkVars, frameVars, inproc>>
  BY DEF Signal, TypeOK
<1>2. mpc' \in MainPc /\ taken' = taken /\ (mpc' = mpc \/ mpc' = "kill")
  BY DEF Signal, TypeOK, EintrMain, mainVars, MainPc
<1>3. /\ bpc' \in BackendPc /\ gc' \in BOOLEAN /\ idx' \in Endpoints
      /\ mode' = mode
      /\ bpc' \in {"frame"} \cup Modes => bpc \in {"frame"} \cup Modes
      /\ gc' => bpc' \notin Modes
      /\ bpc' \in {"stop", "join", "done"} => gc' /\ frm = 0
      /\ bpc' = "done" <=> bpc = "done"
  <2>1. EintrBackend \/ UNCHANGED backendVars
    BY DEF Signal
  <2> HIDE DEF ControlInv
  <2> QED
    BY <2>1, EintrBackendType
<1>4. /\ monpc' \in [Endpoints -> MonitorPc]
      /\ UNCHANGED <<monq, event>>
  BY DEF Signal, TypeOK, EintrMonitor, eventVars, MonitorPc
<1> QED
  BY <1>1, <1>2, <1>3, <1>4
     DEF TypeOK, HandTaken, InnerLoopHasFrame, GcOnlyAfterInterrupt, EndInv,
         socketVars, linkVars, frameVars

\* The backend comes to its end from a poll of gc that finds inproc empty, and
\* discards nothing before it closes its sockets.
LEMMA EndStep ==
  ASSUME ControlInv, [Next]_vars
  PROVE  EndInv'
<1> USE DEF EndInv, mainVars, backendVars, frameVars, signalVars, Modes
<1>1. EndInv /\ (gc => interrupted) /\ (frm > 0 => inproc # <<>>)
      /\ frm \in Nat
  BY DEF ControlInv, GcOnlyAfterInterrupt, InnerLoopHasFrame, TypeOK
<1>2. CASE MainKill
  <2>1. /\ bpc' \in {"stop", "join", "done"} => gc' /\ frm = 0
        /\ bpc' = "done" <=> bpc = "done"
    <3>1. EintrBackend \/ UNCHANGED backendVars
      BY <1>2 DEF MainKill
    <3> QED
      BY <3>1, EintrBackendType
  <2> QED
    BY <1>1, <1>2, <2>1 DEF MainKill
<1>3. CASE MainRecv \/ MainForward \/ MainJoin
  BY <1>1, <1>3 DEF MainRecv, MainForward, MainJoin
<1>4. CASE BackendLoop \/ BackendPollIn \/ BackendFrame
  BY <1>1, <1>4 DEF BackendLoop, BackendPollIn, BackendFrame, ControlInv,
     InnerLoopHasFrame
<1>5. CASE BackendPollTimeout
  <2>1. frm = 0
    BY <1>1, <1>5 DEF BackendPollTimeout
  <2> QED
    BY <1>1, <1>5, <2>1 DEF BackendPollTimeout
<1>6. CASE BackendSend \/ BackendDump
  BY <1>1, <1>6 DEF BackendSend, BackendDump, FrameDone
<1>7. CASE BackendCompressFails
  BY <1>1, <1>7 DEF BackendCompressFails
<1>8. CASE BackendCheckConnected \/ BackendConnect
           \/ BackendCheckDisconnected \/ BackendDisconnect
  BY <1>1, <1>8 DEF BackendCheckConnected, BackendConnect,
     BackendCheckDisconnected, BackendDisconnect, AfterEndpoint
<1>9. CASE BackendStop \/ BackendJoinNext
  BY <1>1, <1>9 DEF BackendStop, BackendJoinNext
<1>10. CASE BackendClose
  BY <1>1, <1>10 DEF BackendClose
<1>11. CASE (\E e \in Endpoints : MonitorStep(e) \/ Flap(e)) \/ UNCHANGED vars
  BY <1>1, <1>11 DEF MonitorStep, MonitorCheck, MonitorRecv, Flap, vars
<1>12. CASE Signal
  BY <1>12, ControlSignal DEF ControlInv
<1> QED
  BY <1>2, <1>3, <1>4, <1>5, <1>6, <1>7, <1>8, <1>9, <1>10, <1>11, <1>12
     DEF Next, MainStep, BackendStep

\* Every step of the client keeps the control invariant: one case for each
\* action.
LEMMA ControlStep == ControlInv /\ [Next]_vars => ControlInv'
<1> SUFFICES ASSUME ControlInv, [Next]_vars PROVE ControlInv'
  OBVIOUS
<1>0. EndInv'
  BY EndStep
<1> USE <1>0 DEF ControlInv, mainVars, backendVars, socketVars, eventVars,
                 linkVars, signalVars, frameVars
<1>1. CASE Signal
  BY <1>1, ControlSignal
<1>2. CASE MainRecv
  BY <1>2, LenFrames DEF MainRecv, TypeOK, HandTaken, InnerLoopHasFrame,
     GcOnlyAfterInterrupt, MainPc, Messages
<1>3. CASE MainForward
  <2>1. taken \in Messages
    BY <1>3 DEF MainForward, HandTaken
  <2>2. inproc' \in Seq(Messages) /\ inproc' # <<>>
    BY <1>3, <2>1 DEF MainForward, TypeOK
  <2>3. inproc # <<>> => Head(inproc') = Head(inproc)
    BY <1>3, <2>1 DEF MainForward, TypeOK
  <2> QED
    BY <1>3, <2>2, <2>3 DEF MainForward, TypeOK, HandTaken,
       InnerLoopHasFrame, GcOnlyAfterInterrupt, MainPc
<1>4. CASE MainKill
  <2>1. /\ bpc' \in BackendPc /\ gc' \in BOOLEAN /\ idx' \in Endpoints
        /\ mode' = mode
        /\ bpc' \in {"frame"} \cup Modes => bpc \in {"frame"} \cup Modes
        /\ gc' => bpc' \notin Modes
    <3>1. EintrBackend \/ UNCHANGED backendVars
      BY <1>4 DEF MainKill
    <3> HIDE DEF ControlInv
    <3> QED
      BY <3>1, EintrBackendType
  <2> QED
    BY <1>4, <2>1 DEF MainKill, TypeOK, HandTaken, InnerLoopHasFrame,
       GcOnlyAfterInterrupt, MainPc
<1>5. CASE MainJoin
  BY <1>5 DEF MainJoin, TypeOK, HandTaken, InnerLoopHasFrame,
     GcOnlyAfterInterrupt, MainPc
<1>6. CASE BackendLoop
  <2>1. bpc' \in {"poll", "check_connected"} /\ gc' \in BOOLEAN
    BY <1>6 DEF BackendLoop, TypeOK
  <2>2. gc' => interrupted
    BY <1>6 DEF BackendLoop, GcOnlyAfterInterrupt
  <2> QED
    BY <1>6, <2>1, <2>2 DEF BackendLoop, TypeOK, HandTaken,
       InnerLoopHasFrame, GcOnlyAfterInterrupt, BackendPc, Modes
<1>7. CASE BackendPollIn
  <2>1. mode' \in Modes
    BY <1>7 DEF BackendPollIn, SendMode, Modes
  <2> QED
    BY <1>7, <2>1 DEF BackendPollIn, TypeOK, HandTaken, InnerLoopHasFrame,
       GcOnlyAfterInterrupt, BackendPc, Modes
<1>8. CASE BackendPollTimeout
  BY <1>8 DEF BackendPollTimeout, TypeOK, HandTaken, InnerLoopHasFrame,
     GcOnlyAfterInterrupt, BackendPc, Modes
<1>9. CASE BackendFrame
  BY <1>9 DEF BackendFrame, TypeOK, HandTaken, InnerLoopHasFrame,
     GcOnlyAfterInterrupt, BackendPc, Modes
<1>10. CASE BackendSend \/ BackendDump
  <2>1. PICK fate \in Fates : FrameDone(fate)
    BY <1>10 DEF BackendSend, BackendDump, Fates
  <2>2. bpc \in Modes
    BY <1>10 DEF BackendSend, BackendDump, Modes
  <2>3. UNCHANGED <<gc, idx, mainVars, socketVars, eventVars, linkVars,
                    signalVars, discarded>>
    BY <2>1 DEF FrameDone
  <2>4. GcOnlyAfterInterrupt'
    BY <2>2, <2>3 DEF GcOnlyAfterInterrupt
  <2> HIDE DEF ControlInv
  <2>5. /\ inproc' \in Seq(Messages) /\ frm' \in Nat
        /\ mode' \in Modes \cup {"none"}
        /\ bpc' \in {"check_connected", "frame"}
        /\ out' \in Seq([msg : Messages, frame : Nat, fate : Fates])
        /\ InnerLoopHasFrame'
    BY <2>1, <2>2, FrameDoneMessage
  <2> QED
    BY <2>3, <2>4, <2>5 DEF ControlInv, TypeOK, HandTaken, BackendPc
<1>11. CASE BackendCompressFails
  BY <1>11 DEF BackendCompressFails, TypeOK, HandTaken, InnerLoopHasFrame,
     GcOnlyAfterInterrupt, BackendPc, Modes
<1>12. CASE BackendCheckConnected
  BY <1>12 DEF BackendCheckConnected, TypeOK, HandTaken, InnerLoopHasFrame,
     GcOnlyAfterInterrupt, BackendPc, Modes
<1>13. CASE BackendConnect
  <2>1. pipes' \subseteq PipeIds
    BY <1>13 DEF BackendConnect, TypeOK, PipeIds
  <2>2. event' \in [Endpoints -> SUBSET Events]
    BY <1>13 DEF BackendConnect, TypeOK
  <2> QED
    BY <1>13, <2>1, <2>2 DEF BackendConnect, TypeOK, HandTaken,
       InnerLoopHasFrame, GcOnlyAfterInterrupt, BackendPc, Modes
<1>14. CASE BackendCheckDisconnected
  <2>1. idx' \in Endpoints /\ bpc' \in {"disconnect", "check_connected", "loop"}
    BY <1>14, AfterEndpointType DEF BackendCheckDisconnected, TypeOK
  <2> QED
    BY <1>14, <2>1 DEF BackendCheckDisconnected, TypeOK, HandTaken,
       InnerLoopHasFrame, GcOnlyAfterInterrupt, BackendPc, Modes
<1>15. CASE BackendDisconnect
  <2>1. idx' \in Endpoints /\ bpc' \in {"check_connected", "loop"}
    BY <1>15, AfterEndpointType DEF BackendDisconnect, TypeOK
  <2>2. pipes' \subseteq PipeIds /\ connect' \in Int
    BY <1>15 DEF BackendDisconnect, TypeOK
  <2>3. event' \in [Endpoints -> SUBSET Events]
    BY <1>15 DEF BackendDisconnect, TypeOK
  <2>4. lost' \in BOOLEAN
    BY <1>15 DEF BackendDisconnect, TypeOK
  <2> QED
    BY <1>15, <2>1, <2>2, <2>3, <2>4 DEF BackendDisconnect, TypeOK, HandTaken,
       InnerLoopHasFrame, GcOnlyAfterInterrupt, BackendPc, Modes
<1>16. CASE BackendStop
  <2>1. monpc' \in [Endpoints -> MonitorPc] /\ UNCHANGED <<monq, event>>
    BY <1>16 DEF BackendStop, EintrMonitor, TypeOK, MonitorPc
  <2> QED
    BY <1>16, <2>1 DEF BackendStop, TypeOK, HandTaken, InnerLoopHasFrame,
       GcOnlyAfterInterrupt, BackendPc, Modes
<1>17. CASE BackendJoinNext \/ BackendClose
  <2>1. CASE BackendJoinNext
    <3>1. idx' \in Endpoints
      BY <2>1 DEF BackendJoinNext, TypeOK, Endpoints
    <3> QED
      BY <2>1, <3>1 DEF BackendJoinNext, TypeOK, HandTaken,
         InnerLoopHasFrame, GcOnlyAfterInterrupt, BackendPc, Modes
  <2>2. CASE BackendClose
    <3>1. frm = 0
      BY <2>2 DEF BackendClose, EndInv
    <3>2. /\ idx' \in Endpoints
          /\ inproc' = <<>> /\ inproc' \in Seq(Messages)
          /\ discarded' \in Seq(Messages)
      BY <2>2 DEF BackendClose, TypeOK, Endpoints
    <3> QED
      BY <2>2, <3>1, <3>2 DEF BackendClose, TypeOK, HandTaken,
         InnerLoopHasFrame, GcOnlyAfterInterrupt, BackendPc, Modes
  <2> QED
    BY <1>17, <2>1, <2>2
<1>18. ASSUME NEW e \in Endpoints, MonitorCheck(e) PROVE ControlInv'
  <2>1. monpc' \in [Endpoints -> MonitorPc]
    BY <1>18 DEF MonitorCheck, TypeOK, MonitorPc
  <2> QED
    BY <1>18, <2>1 DEF MonitorCheck, TypeOK, HandTaken, InnerLoopHasFrame,
       GcOnlyAfterInterrupt
<1>19. ASSUME NEW e \in Endpoints, MonitorRecv(e) PROVE ControlInv'
  <2>1. Head(monq[e]) \in Events /\ Tail(monq[e]) \in Seq(Events)
    BY <1>19 DEF MonitorRecv, TypeOK
  <2>2. monpc' \in [Endpoints -> MonitorPc]
    BY <1>19 DEF MonitorRecv, TypeOK, MonitorPc
  <2>3. /\ monq' \in [Endpoints -> Seq(Events)]
        /\ event' \in [Endpoints -> SUBSET Events]
    BY <1>19, <2>1 DEF MonitorRecv, TypeOK
  <2> QED
    BY <1>19, <2>2, <2>3 DEF MonitorRecv, TypeOK, HandTaken,
       InnerLoopHasFrame, GcOnlyAfterInterrupt
<1>20. ASSUME NEW e \in Endpoints, Flap(e) PROVE ControlInv'
  <2>1. flaps' \in 0..MaxFlaps /\ link' \in [Endpoints -> BOOLEAN]
    BY <1>20 DEF Flap, TypeOK
  <2>2. monq' \in [Endpoints -> Seq(Events)]
    <3>1. Append(monq[e], IF link[e] THEN "disconnected" ELSE "connected")
            \in Seq(Events)
      BY DEF TypeOK, Events
    <3> QED
      BY <1>20, <3>1 DEF Flap, TypeOK
  <2> QED
    BY <1>20, <2>1, <2>2 DEF Flap, TypeOK, HandTaken, InnerLoopHasFrame,
       GcOnlyAfterInterrupt
<1>21. CASE UNCHANGED vars
  BY <1>21 DEF vars, TypeOK, HandTaken, InnerLoopHasFrame,
     GcOnlyAfterInterrupt
<1> QED
  BY <1>1, <1>2, <1>3, <1>4, <1>5, <1>6, <1>7, <1>8, <1>9, <1>10, <1>11,
     <1>12, <1>13, <1>14, <1>15, <1>16, <1>17, <1>18, <1>19, <1>20, <1>21
     DEF Next, MainStep, MonitorStep, BackendStep

\* The control invariant, and with it: every variable has its type
\* (_client_backend, _server_client and _socket_monitor_event as a whole).
LEMMA ControlInvariant == Spec => []ControlInv
  BY ControlInit, ControlStep, PTL DEF Spec

\* Every variable keeps its type in _server_client, _client_backend and
\* _socket_monitor_event: no endpoint index runs out of client_backendpoints.
THEOREM TypeCorrect == Spec => []TypeOK
<1>1. ControlInv => TypeOK
  BY DEF ControlInv
<1> QED
  BY <1>1, ControlInvariant, PTL

\* The receives in the inner loops of _client_backend and _client_publish_gc,
\* which have no timeout, never have to wait.
THEOREM InnerLoopNeverWaits == Spec => []InnerLoopHasFrame
<1>1. ControlInv => InnerLoopHasFrame
  BY DEF ControlInv
<1> QED
  BY <1>1, ControlInvariant, PTL

\* _client_publish_gc runs only once the server is interrupted, and so never
\* takes a frame from inproc.
THEOREM GcTakesNothing == Spec => []GcOnlyAfterInterrupt
<1>1. ControlInv => GcOnlyAfterInterrupt
  BY DEF ControlInv
<1> QED
  BY <1>1, ControlInvariant, PTL

-----------------------------------------------------------------------------
(***************************************************************************)
(* The counter of connected endpoints covers the pipes of the publish      *)
(* socket.  Only _client_publish_connect changes either of them.           *)
(***************************************************************************)
CounterInv == IsFiniteSet(pipes) /\ ConnectCoversPipes

\* Before the first connection the counter is zero and there is no pipe.
LEMMA CounterInit == Init => CounterInv
  BY FS_EmptySet DEF Init, CounterInv, ConnectCoversPipes

\* zmq_connect adds one pipe, and one is counted.
LEMMA CounterConnect == TypeOK /\ CounterInv /\ BackendConnect => CounterInv'
<1> SUFFICES ASSUME TypeOK, CounterInv, BackendConnect PROVE CounterInv'
  OBVIOUS
<1>1. PICK k \in 1..MaxFlaps :
        <<idx, k>> \notin pipes /\ pipes' = pipes \cup {<<idx, k>>}
  BY DEF BackendConnect
<1>2. /\ IsFiniteSet(pipes')
      /\ Cardinality(pipes') = Cardinality(pipes) + 1
  BY <1>1, FS_AddElement DEF CounterInv
<1>3. connect' = connect + 1 /\ connect \in Int /\ Cardinality(pipes) \in Nat
  BY FS_CardinalityType DEF BackendConnect, TypeOK, CounterInv
<1> QED
  BY <1>2, <1>3 DEF CounterInv, ConnectCoversPipes

\* zmq_disconnect ends at least one pipe if it succeeds, and one is counted.
LEMMA CounterDisconnect ==
  TypeOK /\ CounterInv /\ BackendDisconnect => CounterInv'
<1> SUFFICES ASSUME TypeOK, CounterInv, BackendDisconnect PROVE CounterInv'
  OBVIOUS
<1>1. connect \in Int /\ Cardinality(pipes) \in Nat
  BY FS_CardinalityType DEF TypeOK, CounterInv
<1>2. CASE PipesOf(idx) # {}
  <2>1. pipes' = pipes \ PipesOf(idx) /\ connect' = connect - 1
    BY <1>2 DEF BackendDisconnect
  <2>2. PICK p \in pipes : p \in PipesOf(idx)
    BY <1>2 DEF PipesOf
  <2>3. /\ IsFiniteSet(pipes \ {p})
        /\ Cardinality(pipes \ {p}) = Cardinality(pipes) - 1
    BY <2>2, FS_RemoveElement DEF CounterInv
  <2>4. pipes' \in SUBSET (pipes \ {p})
    BY <2>1, <2>2
  <2>5. /\ IsFiniteSet(pipes')
        /\ Cardinality(pipes') <= Cardinality(pipes \ {p})
    BY <2>3, <2>4, FS_Subset
  <2>6. Cardinality(pipes') \in Nat
    BY <2>5, FS_CardinalityType
  <2> QED
    BY <1>1, <2>1, <2>3, <2>5, <2>6 DEF CounterInv, ConnectCoversPipes
<1>3. CASE PipesOf(idx) = {}
  BY <1>3 DEF BackendDisconnect, CounterInv, ConnectCoversPipes
<1> QED
  BY <1>2, <1>3

\* No other step touches them.
LEMMA CounterFrame ==
  ASSUME [Next]_vars, ~BackendConnect, ~BackendDisconnect
  PROVE  UNCHANGED <<connect, pipes>>
<1> USE DEF socketVars
<1>1. CASE Signal
  BY <1>1 DEF Signal
<1>2. CASE MainStep
  BY <1>2 DEF MainStep, MainRecv, MainForward, MainKill, MainJoin
<1>3. CASE BackendSend \/ BackendDump
  BY <1>3 DEF BackendSend, BackendDump, FrameDone
<1>4. CASE BackendCompressFails
  BY <1>4 DEF BackendCompressFails
<1>5. CASE BackendStep /\ ~BackendDump
  BY <1>5 DEF BackendStep, BackendLoop, BackendPollIn, BackendPollTimeout,
     BackendFrame, BackendCheckConnected, BackendCheckDisconnected,
     BackendStop, BackendJoinNext, BackendClose
<1>6. CASE \E e \in Endpoints : MonitorStep(e) \/ Flap(e)
  BY <1>6 DEF MonitorStep, MonitorCheck, MonitorRecv, Flap
<1>7. CASE UNCHANGED vars
  BY <1>7 DEF vars
<1> QED
  BY <1>1, <1>2, <1>3, <1>4, <1>5, <1>6, <1>7 DEF Next

\* Every step keeps the counter at or above the number of pipes.
LEMMA CounterStep == TypeOK /\ CounterInv /\ [Next]_vars => CounterInv'
<1> SUFFICES ASSUME TypeOK, CounterInv, [Next]_vars PROVE CounterInv'
  OBVIOUS
<1>1. CASE BackendConnect
  BY <1>1, CounterConnect
<1>2. CASE BackendDisconnect
  BY <1>2, CounterDisconnect
<1>3. CASE ~BackendConnect /\ ~BackendDisconnect
  BY <1>3, CounterFrame DEF CounterInv, ConnectCoversPipes
<1> QED
  BY <1>1, <1>2, <1>3

\* The counter of _client_publish_connect always covers the pipes.
LEMMA CounterInvariant == Spec => []CounterInv
<1>1. TypeOK /\ CounterInv /\ [Next]_vars => CounterInv'
  BY CounterStep
<1> QED
  BY <1>1, CounterInit, TypeCorrect, PTL DEF Spec

\* Whatever events are erased, "connect" in _client_backend never falls below
\* the number of pipes that _client_publish_connect gave the publish socket.
THEOREM CounterCovers == Spec => []ConnectCoversPipes
<1>1. CounterInv => ConnectCoversPipes
  BY DEF CounterInv
<1> QED
  BY <1>1, CounterInvariant, PTL

-----------------------------------------------------------------------------
(***************************************************************************)
(* The choice between sending and dumping, made once for a message, stays  *)
(* true until the message is done with: the counter only moves between     *)
(* messages.                                                               *)
(***************************************************************************)
ChoiceInv ==
  /\ mode # "none" => bpc \in {"frame"} \cup Modes
  /\ mode = "dump" => connect <= 0

\* At the start no message has a mode.
LEMMA ChoiceInit == Init => ChoiceInv
  BY DEF Init, ChoiceInv

\* A message keeps the mode chosen for it, and meanwhile no pipe is made: only
\* the backend itself, between two messages, calls zmq_connect.
LEMMA ChoiceStep == ControlInv /\ ChoiceInv /\ [Next]_vars => ChoiceInv'
<1> SUFFICES ASSUME ControlInv, ChoiceInv, [Next]_vars PROVE ChoiceInv'
  OBVIOUS
<1> USE DEF ChoiceInv, Modes, backendVars, socketVars
<1>1. connect \in Int /\ mode \in Modes \cup {"none"}
  BY DEF ControlInv, TypeOK
<1>2. CASE Signal
  BY <1>2 DEF Signal, EintrBackend
<1>3. CASE MainKill
  BY <1>3 DEF MainKill, EintrBackend
<1>4. CASE MainRecv \/ MainForward \/ MainJoin
  BY <1>4 DEF MainRecv, MainForward, MainJoin
<1>5. CASE BackendLoop \/ BackendPollTimeout \/ BackendStop
           \/ BackendJoinNext \/ BackendClose
  BY <1>5 DEF BackendLoop, BackendPollTimeout, BackendStop, BackendJoinNext,
     BackendClose
<1>6. CASE BackendPollIn
  BY <1>1, <1>6 DEF BackendPollIn, SendMode
<1>7. CASE BackendFrame
  BY <1>7 DEF BackendFrame, ControlInv, InnerLoopHasFrame
<1>8. CASE BackendSend \/ BackendDump
  BY <1>8 DEF BackendSend, BackendDump, FrameDone
<1>9. CASE BackendCompressFails
  BY <1>9 DEF BackendCompressFails
<1>10. CASE BackendCheckConnected \/ BackendCheckDisconnected
  BY <1>10 DEF BackendCheckConnected, BackendCheckDisconnected
<1>11. CASE BackendConnect \/ BackendDisconnect
  BY <1>11 DEF BackendConnect, BackendDisconnect
<1>12. CASE \E e \in Endpoints : MonitorStep(e) \/ Flap(e)
  BY <1>12 DEF MonitorStep, MonitorCheck, MonitorRecv, Flap
<1>13. CASE UNCHANGED vars
  BY <1>13 DEF vars
<1> QED
  BY <1>2, <1>3, <1>4, <1>5, <1>6, <1>7, <1>8, <1>9, <1>10, <1>11, <1>12,
     <1>13 DEF Next, MainStep, BackendStep

\* While a message is being dumped by choice the publish socket has no pipe.
LEMMA ChoiceInvariant == Spec => []ChoiceInv
  BY ChoiceInit, ChoiceStep, ControlInvariant, PTL DEF Spec

\* _client_backend chooses the dump file for a message only while the publish
\* socket has no pipe, and gets none until the message is done with.
THEOREM DumpIsLastResort == Spec => []DumpOnlyUnconnected
<1>1. TypeOK /\ CounterInv /\ ChoiceInv => DumpOnlyUnconnected
  <2> SUFFICES ASSUME TypeOK, CounterInv, ChoiceInv, mode = "dump"
               PROVE  pipes = {}
    BY DEF DumpOnlyUnconnected
  <2>1. connect <= 0 /\ connect \in Int
    BY DEF ChoiceInv, TypeOK
  <2>2. Cardinality(pipes) \in Nat /\ Cardinality(pipes) <= connect
    BY FS_CardinalityType DEF CounterInv, ConnectCoversPipes, TypeOK
  <2>3. Cardinality(pipes) = 0
    BY <2>1, <2>2
  <2> QED
    BY <2>3, FS_EmptySet DEF CounterInv
<1> QED
  BY <1>1, TypeCorrect, CounterInvariant, ChoiceInvariant, PTL

-----------------------------------------------------------------------------
(***************************************************************************)
(* What the counter has too much it never gives back: zmq_connect adds one *)
(* to both sides, and zmq_disconnect takes one from the counter and at     *)
(* least one of the pipes.                                                 *)
(***************************************************************************)
Excess == connect - Cardinality(pipes)

\* The excess and its parts are numbers.
LEMMA ExcessType ==
  ASSUME TypeOK, CounterInv
  PROVE  connect \in Int /\ Cardinality(pipes) \in Nat /\ Excess \in Nat
<1>1. connect \in Int /\ Cardinality(pipes) \in Nat
  BY FS_CardinalityType DEF TypeOK, CounterInv
<1> QED
  BY <1>1 DEF CounterInv, ConnectCoversPipes, Excess

\* No step makes the excess smaller.
LEMMA ExcessStep ==
  ASSUME TypeOK, CounterInv, [Next]_vars
  PROVE  Excess' >= Excess
<1>1. connect \in Int /\ Cardinality(pipes) \in Nat
  BY ExcessType
<1>2. CASE BackendConnect
  <2>1. PICK k \in 1..MaxFlaps :
          <<idx, k>> \notin pipes /\ pipes' = pipes \cup {<<idx, k>>}
    BY <1>2 DEF BackendConnect
  <2>2. Cardinality(pipes') = Cardinality(pipes) + 1
    BY <2>1, FS_AddElement DEF CounterInv
  <2>3. connect' = connect + 1
    BY <1>2 DEF BackendConnect
  <2> QED
    BY <1>1, <2>2, <2>3 DEF Excess
<1>3. CASE BackendDisconnect /\ PipesOf(idx) # {}
  <2>1. pipes' = pipes \ PipesOf(idx) /\ connect' = connect - 1
    BY <1>3 DEF BackendDisconnect
  <2>2. PICK p \in pipes : p \in PipesOf(idx)
    BY <1>3 DEF PipesOf
  <2>3. /\ IsFiniteSet(pipes \ {p})
        /\ Cardinality(pipes \ {p}) = Cardinality(pipes) - 1
    BY <2>2, FS_RemoveElement DEF CounterInv
  <2>4. pipes' \in SUBSET (pipes \ {p})
    BY <2>1, <2>2
  <2>5. /\ IsFiniteSet(pipes')
        /\ Cardinality(pipes') <= Cardinality(pipes \ {p})
    BY <2>3, <2>4, FS_Subset
  <2>6. Cardinality(pipes') \in Nat
    BY <2>5, FS_CardinalityType
  <2> QED
    BY <1>1, <2>1, <2>3, <2>5, <2>6 DEF Excess
<1>4. CASE ~BackendConnect /\ ~(BackendDisconnect /\ PipesOf(idx) # {})
  <2>1. UNCHANGED <<connect, pipes>>
    BY <1>4, CounterFrame DEF BackendDisconnect
  <2> QED
    BY <1>1, <2>1 DEF Excess
<1> QED
  BY <1>2, <1>3, <1>4

\* However many events are erased, and whatever comes after: what "connect" in
\* _client_backend counts beyond the pipes is never taken back.
THEOREM ExcessNeverShrinks == Spec => [][Excess' >= Excess]_vars
<1>1. TypeOK /\ CounterInv /\ [Next]_vars => [Excess' >= Excess]_vars
  BY ExcessStep
<1> QED
  BY <1>1, TypeCorrect, CounterInvariant, PTL DEF Spec

\* Once "connect" has counted one too many, _client_backend never again chooses
\* the dump file, not even when the publish socket has no pipe: it waits in
\* zmq_sendmsg instead.
THEOREM OvercountEndsDumping ==
  Spec => [](Excess > 0 => [](Excess > 0 /\ mode # "dump"))
<1>1. TypeOK /\ CounterInv /\ TypeOK' /\ CounterInv' /\ Excess > 0
        /\ [Next]_vars => (Excess > 0)'
  <2> SUFFICES ASSUME TypeOK, CounterInv, TypeOK', CounterInv', Excess > 0,
                      [Next]_vars
               PROVE  Excess' > 0
    OBVIOUS
  <2>1. Excess \in Nat
    BY ExcessType
  <2>2. connect' \in Int /\ Cardinality(pipes') \in Nat
    BY FS_CardinalityType DEF TypeOK, CounterInv
  <2>3. Excess' \in Int
    BY <2>2 DEF Excess
  <2>4. Excess' >= Excess
    BY ExcessStep
  <2> QED
    BY <2>1, <2>3, <2>4
<1>2. TypeOK /\ CounterInv /\ ChoiceInv /\ Excess > 0 => mode # "dump"
  <2> SUFFICES ASSUME TypeOK, CounterInv, ChoiceInv, Excess > 0
               PROVE  connect > 0
    BY DEF ChoiceInv, TypeOK
  <2> QED
    BY ExcessType DEF Excess
<1> QED
  BY <1>1, <1>2, TypeCorrect, CounterInvariant, ChoiceInvariant, PTL DEF Spec

-----------------------------------------------------------------------------
(***************************************************************************)
(* As long as no event bit is erased unseen, every connection is paired    *)
(* with a disconnection.  The invariant says, for each endpoint, where its *)
(* connection is between the pipe of the publish socket, the bits of       *)
(* monitor->event and the events the monitor has still to receive: they    *)
(* alternate all the way.                                                  *)
(***************************************************************************)
HasPipe(e) == \E p \in pipes : p[1] = e

State(up) == IF up THEN "connected" ELSE "disconnected"

\* The events of q alternate, from one after a to the last one, z.
Toggles(q, a, z) ==
  /\ q = <<>> => a = z
  /\ q # <<>> => q[1] # a /\ q[Len(q)] = z
  /\ \A i \in 1..(Len(q) - 1) : q[i] # q[i + 1]

Paired(e) ==
  /\ event[e] = {} => Toggles(monq[e], State(HasPipe(e)), State(link[e]))
  /\ event[e] = {"connected"} =>
       ~HasPipe(e) /\ Toggles(monq[e], "connected", State(link[e]))
  /\ event[e] = {"disconnected"} =>
       HasPipe(e) /\ Toggles(monq[e], "disconnected", State(link[e]))

PairInv ==
  ~lost => /\ connect = Cardinality(pipes)
           /\ \A p \in pipes : \A r \in pipes : p[1] = r[1] => p = r
           /\ \A e \in Endpoints : Paired(e)

\* Receiving the first event of a queue.
LEMMA TogglesTail ==
  ASSUME NEW q \in Seq(Events), q # <<>>, NEW a, NEW z, Toggles(q, a, z)
  PROVE  Toggles(Tail(q), Head(q), z) /\ Head(q) # a /\ Head(q) \in Events
<1>1. /\ Len(q) \in Nat \ {0} /\ Head(q) = q[1] /\ Head(q) \in Events
      /\ Len(Tail(q)) = Len(q) - 1 /\ Tail(q) \in Seq(Events)
      /\ \A i \in 1..(Len(q) - 1) : Tail(q)[i] = q[i + 1]
  OBVIOUS
<1>2. /\ q[1] # a /\ q[Len(q)] = z
      /\ \A i \in 1..(Len(q) - 1) : q[i] # q[i + 1]
  BY DEF Toggles
<1> DEFINE t == Tail(q)
<1>3. t = <<>> => Head(q) = z
  <2>1. ASSUME t = <<>> PROVE Len(q) = 1
    <3>1. Len(<<>>) = 0
      OBVIOUS
    <3>2. Len(t) = 0
      BY <2>1, <3>1, Zenon
    <3> QED
      BY <1>1, <3>2
  <2> QED
    BY <1>1, <1>2, <2>1
<1>4. ASSUME t # <<>> PROVE t[1] # Head(q) /\ t[Len(t)] = z
  <2>1. Len(q) > 1
    BY <1>1, <1>4
  <2>2. t[1] = q[2] /\ q[1] # q[2]
    BY <1>1, <1>2, <2>1
  <2>3. t[Len(t)] = q[Len(q)]
    BY <1>1, <2>1
  <2> QED
    BY <1>1, <1>2, <2>2, <2>3
<1>5. ASSUME NEW i \in 1..(Len(t) - 1) PROVE t[i] # t[i + 1]
  <2>1. /\ i \in 1..(Len(q) - 1) /\ i + 1 \in 1..(Len(q) - 1)
    BY <1>1
  <2>2. t[i] = q[i + 1] /\ t[i + 1] = q[(i + 1) + 1]
    BY <1>1, <2>1
  <2> QED
    BY <1>2, <2>1, <2>2
<1> QED
  BY <1>1, <1>2, <1>3, <1>4, <1>5 DEF Toggles

\* An event is reported.
LEMMA TogglesAppend ==
  ASSUME NEW q \in Seq(Events), NEW a, NEW z, Toggles(q, a, z),
         NEW w \in Events, w # z
  PROVE  Toggles(Append(q, w), a, w)
<1> DEFINE t == Append(q, w)
<1>1. /\ Len(q) \in Nat /\ Len(t) = Len(q) + 1 /\ t[Len(q) + 1] = w
      /\ \A i \in 1..Len(q) : t[i] = q[i]
      /\ t # <<>>
  OBVIOUS
<1> HIDE DEF t
<1>2. CASE q = <<>>
  <2>1. a = z /\ Len(q) = 0
    BY <1>2 DEF Toggles
  <2> QED
    BY <1>1, <2>1 DEF Toggles, t
<1>3. CASE q # <<>>
  <2>1. /\ Len(q) > 0 /\ q[1] # a /\ q[Len(q)] = z
        /\ \A i \in 1..(Len(q) - 1) : q[i] # q[i + 1]
    BY <1>3 DEF Toggles
  <2>2. t[1] # a /\ t[Len(t)] = w
    BY <1>1, <2>1
  <2>3. ASSUME NEW i \in 1..(Len(t) - 1) PROVE t[i] # t[i + 1]
    <3>1. CASE i = Len(q)
      BY <1>1, <2>1, <3>1
    <3>2. CASE i # Len(q)
      <4>1. i \in 1..(Len(q) - 1) /\ i \in 1..Len(q) /\ i + 1 \in 1..Len(q)
        BY <1>1, <3>2
      <4> QED
        BY <1>1, <2>1, <4>1
    <3> QED
      BY <3>1, <3>2
  <2> QED
    BY <1>1, <2>2, <2>3 DEF Toggles, t
<1> QED
  BY <1>2, <1>3

\* No other step touches an endpoint's connection, events or pipe.
LEMMA PairFrame ==
  ASSUME TypeOK, [Next]_vars, ~BackendConnect, ~BackendDisconnect,
         \A e \in Endpoints : ~MonitorRecv(e) /\ ~Flap(e)
  PROVE  UNCHANGED <<connect, pipes, lost, event, monq, link>>
<1> USE DEF socketVars, eventVars, linkVars
<1>1. CASE Signal
  BY <1>1 DEF Signal, EintrMonitor
<1>2. CASE MainStep
  BY <1>2 DEF MainStep, MainRecv, MainForward, MainKill, MainJoin
<1>3. CASE BackendSend \/ BackendDump
  BY <1>3 DEF BackendSend, BackendDump, FrameDone
<1>4. CASE BackendCompressFails
  BY <1>4 DEF BackendCompressFails
<1>5. CASE BackendStep /\ ~BackendDump
  BY <1>5 DEF BackendStep, BackendLoop, BackendPollIn, BackendPollTimeout,
     BackendFrame, BackendCheckConnected, BackendCheckDisconnected,
     BackendStop, BackendJoinNext, BackendClose, EintrMonitor
<1>6. CASE \E e \in Endpoints : MonitorCheck(e)
  BY <1>6 DEF MonitorCheck
<1>7. CASE UNCHANGED vars
  BY <1>7 DEF vars
<1> QED
  BY <1>1, <1>2, <1>3, <1>4, <1>5, <1>6, <1>7 DEF Next, MonitorStep

\* A monitor thread ORs the bit of an event into monitor->event.
LEMMA PairRecv ==
  ASSUME TypeOK, PairInv, NEW e \in Endpoints, MonitorRecv(e)
  PROVE  PairInv'
<1> SUFFICES ASSUME ~lost, NEW f \in Endpoints PROVE Paired(f)'
  BY DEF PairInv, MonitorRecv, socketVars
<1> DEFINE q == monq[e]
<1>1. /\ q \in Seq(Events) /\ q # <<>> /\ Paired(f) /\ Paired(e)
      /\ event[e] \in SUBSET {"connected", "disconnected"}
      /\ event' = [event EXCEPT ![e] = @ \cup {Head(q)}]
      /\ monq' = [monq EXCEPT ![e] = Tail(@)]
      /\ UNCHANGED <<link, pipes>>
  BY DEF TypeOK, PairInv, MonitorRecv, socketVars, linkVars, Events
<1>2. event'[e] = event[e] \cup {Head(q)} /\ monq'[e] = Tail(q)
  BY <1>1 DEF TypeOK
<1>3. CASE f # e
  BY <1>1, <1>3 DEF Paired, HasPipe, TypeOK
<1>4. CASE f = e
  <2> DEFINE z == State(link[e])
  <2>1. HasPipe(e) \in BOOLEAN /\ (HasPipe(e))' = HasPipe(e) /\ z' = z
    BY <1>1 DEF HasPipe
  <2> HIDE DEF q
  <2>2. CASE event[e] = {}
    <3>1. Toggles(q, State(HasPipe(e)), z)
      BY <1>1, <2>2 DEF Paired, q
    <3>2. /\ Toggles(Tail(q), Head(q), z) /\ Head(q) # State(HasPipe(e))
          /\ Head(q) \in Events
      BY <1>1, <3>1, TogglesTail DEF q
    <3>3. CASE HasPipe(e)
      <4>1. Head(q) = "disconnected"
        BY <2>1, <3>2, <3>3 DEF State, Events
      <4> QED
        BY <1>2, <1>4, <2>1, <2>2, <3>2, <3>3, <4>1 DEF Paired
    <3>4. CASE ~HasPipe(e)
      <4>1. Head(q) = "connected"
        BY <2>1, <3>2, <3>4 DEF State, Events
      <4> QED
        BY <1>2, <1>4, <2>1, <2>2, <3>2, <3>4, <4>1 DEF Paired
    <3> QED
      BY <3>3, <3>4
  <2>3. CASE event[e] = {"connected"}
    <3>1. Toggles(q, "connected", z)
      BY <1>1, <2>3 DEF Paired, q
    <3>2. Head(q) = "disconnected"
      BY <1>1, <3>1, TogglesTail DEF q, Events
    <3> QED
      BY <1>2, <1>4, <2>3, <3>2 DEF Paired
  <2>4. CASE event[e] = {"disconnected"}
    <3>1. Toggles(q, "disconnected", z)
      BY <1>1, <2>4 DEF Paired, q
    <3>2. Head(q) = "connected"
      BY <1>1, <3>1, TogglesTail DEF q, Events
    <3> QED
      BY <1>2, <1>4, <2>4, <3>2 DEF Paired
  <2>5. CASE event[e] = {"connected", "disconnected"}
    <3>1. "connected" \in event'[e] /\ "disconnected" \in event'[e]
      BY <1>2, <2>5
    <3>2. /\ event'[e] # {} /\ event'[e] # {"connected"}
          /\ event'[e] # {"disconnected"}
      BY <3>1
    <3> QED
      BY <1>4, <3>2 DEF Paired
  <2> QED
    BY <1>1, <2>2, <2>3, <2>4, <2>5
<1> QED
  BY <1>3, <1>4

\* The connection of an endpoint goes up or down.
LEMMA PairFlap ==
  ASSUME TypeOK, PairInv, NEW e \in Endpoints, Flap(e)
  PROVE  PairInv'
<1> SUFFICES ASSUME ~lost, NEW f \in Endpoints PROVE Paired(f)'
  BY DEF PairInv, Flap, socketVars
<1> DEFINE q == monq[e]
           w == IF link[e] THEN "disconnected" ELSE "connected"
<1>1. /\ q \in Seq(Events) /\ Paired(f) /\ Paired(e) /\ link[e] \in BOOLEAN
      /\ link' = [link EXCEPT ![e] = ~@]
      /\ monq' = [monq EXCEPT ![e] = Append(@, w)]
      /\ UNCHANGED <<event, pipes>>
  BY DEF TypeOK, PairInv, Flap, socketVars
<1>2. link'[e] = ~link[e] /\ monq'[e] = Append(q, w)
  BY <1>1 DEF TypeOK
<1>3. CASE f # e
  BY <1>1, <1>3 DEF Paired, HasPipe, TypeOK
<1>4. CASE f = e
  <2>1. w \in Events /\ w # State(link[e]) /\ State(link'[e]) = w
    BY <1>1, <1>2 DEF State, Events
  <2>2. (HasPipe(e))' = HasPipe(e)
    BY <1>1 DEF HasPipe
  <2> HIDE DEF q, w
  <2>3. \A a : Toggles(q, a, State(link[e])) => Toggles(Append(q, w), a, w)
    BY <1>1, <2>1, TogglesAppend
  <2> QED
    BY <1>1, <1>2, <1>4, <2>1, <2>2, <2>3 DEF Paired, q
<1> QED
  BY <1>3, <1>4

\* zmq_connect gives the endpoint its only pipe, if nothing was erased.
LEMMA PairConnect ==
  ASSUME TypeOK, CounterInv, PairInv, BackendConnect
  PROVE  PairInv'
<1> SUFFICES ASSUME ~lost' PROVE PairInv'
  BY DEF PairInv
<1>1. PICK k \in 1..MaxFlaps :
        <<idx, k>> \notin pipes /\ pipes' = pipes \cup {<<idx, k>>}
  BY DEF BackendConnect
<1>2. /\ ~lost /\ event[idx] = {"connected"} /\ connect' = connect + 1
      /\ event' = [event EXCEPT ![idx] = {}] /\ idx \in Endpoints
      /\ UNCHANGED <<link, monq>>
  BY DEF BackendConnect, TypeOK, linkVars
<1>3. /\ connect = Cardinality(pipes)
      /\ \A p \in pipes : \A r \in pipes : p[1] = r[1] => p = r
      /\ \A e \in Endpoints : Paired(e)
  BY <1>2 DEF PairInv
<1>4. ~HasPipe(idx) /\ Toggles(monq[idx], "connected", State(link[idx]))
  BY <1>2, <1>3 DEF Paired
<1>5. connect' = Cardinality(pipes')
  BY <1>1, <1>2, <1>3, FS_AddElement DEF CounterInv
<1>6. \A p \in pipes' : \A r \in pipes' : p[1] = r[1] => p = r
  BY <1>1, <1>3, <1>4 DEF HasPipe
<1>7. ASSUME NEW f \in Endpoints PROVE Paired(f)'
  <2>1. CASE f = idx
    <3>2. HasPipe(f)'
      BY <1>1, <2>1 DEF HasPipe
    <3>3. event'[f] = {}
      BY <1>2, <2>1 DEF TypeOK
    <3>4. State(HasPipe(f)') = "connected"
      BY <3>2 DEF State
    <3> QED
      BY <1>2, <1>4, <2>1, <3>2, <3>3, <3>4 DEF Paired
  <2>2. CASE f # idx
    <3>1. HasPipe(f)' <=> HasPipe(f)
      BY <1>1, <2>2 DEF HasPipe
    <3>2. event'[f] = event[f]
      BY <1>2, <2>2 DEF TypeOK
    <3> QED
      BY <1>2, <1>3, <3>1, <3>2 DEF Paired, State
  <2> QED
    BY <2>1, <2>2
<1> QED
  BY <1>5, <1>6, <1>7 DEF PairInv

\* zmq_disconnect takes the endpoint's only pipe, if nothing was erased.
LEMMA PairDisconnect ==
  ASSUME TypeOK, CounterInv, PairInv, BackendDisconnect
  PROVE  PairInv'
<1> SUFFICES ASSUME ~lost' PROVE PairInv'
  BY DEF PairInv
<1>1. CASE PipesOf(idx) = {}
  <2>1. UNCHANGED <<pipes, connect, lost, event, monq, link>>
    BY <1>1 DEF BackendDisconnect, linkVars
  <2> QED
    BY <2>1 DEF PairInv, Paired, HasPipe
<1>2. CASE PipesOf(idx) # {}
  <2>1. /\ pipes' = pipes \ PipesOf(idx) /\ connect' = connect - 1
        /\ ~lost /\ event[idx] = {"disconnected"}
        /\ event' = [event EXCEPT ![idx] = {}] /\ idx \in Endpoints
        /\ UNCHANGED <<link, monq>>
    BY <1>2 DEF BackendDisconnect, TypeOK, linkVars
  <2>2. /\ connect = Cardinality(pipes)
        /\ \A p \in pipes : \A r \in pipes : p[1] = r[1] => p = r
        /\ \A e \in Endpoints : Paired(e)
    BY <2>1 DEF PairInv
  <2>3. Toggles(monq[idx], "disconnected", State(link[idx]))
    BY <2>1, <2>2 DEF Paired
  <2>4. PICK p \in pipes : p[1] = idx
    BY <1>2 DEF PipesOf
  <2>5. PipesOf(idx) = {p}
    BY <2>2, <2>4 DEF PipesOf
  <2>6. connect' = Cardinality(pipes')
    BY <2>1, <2>2, <2>4, <2>5, FS_RemoveElement DEF CounterInv
  <2>7. \A q \in pipes' : \A r \in pipes' : q[1] = r[1] => q = r
    BY <2>1, <2>2
  <2>8. ASSUME NEW f \in Endpoints PROVE Paired(f)'
    <3>1. CASE f = idx
      <4>1. ~HasPipe(f)'
        BY <2>1, <3>1 DEF HasPipe, PipesOf
      <4>2. event'[f] = {}
        BY <2>1, <3>1 DEF TypeOK
      <4>3. State(HasPipe(f)') = "disconnected"
        BY <4>1 DEF State
      <4> QED
        BY <2>1, <2>3, <3>1, <4>1, <4>2, <4>3 DEF Paired
    <3>2. CASE f # idx
      <4>1. HasPipe(f)' <=> HasPipe(f)
        BY <2>1, <3>2 DEF HasPipe, PipesOf
      <4>2. event'[f] = event[f]
        BY <2>1, <3>2 DEF TypeOK
      <4> QED
        BY <2>1, <2>2, <4>1, <4>2 DEF Paired, State
    <3> QED
      BY <3>1, <3>2
  <2> QED
    BY <2>6, <2>7, <2>8 DEF PairInv
<1> QED
  BY <1>1, <1>2

\* Every step keeps events, pipes and connections paired.
LEMMA PairStep ==
  TypeOK /\ CounterInv /\ PairInv /\ [Next]_vars => PairInv'
<1> SUFFICES ASSUME TypeOK, CounterInv, PairInv, [Next]_vars PROVE PairInv'
  OBVIOUS
<1>1. CASE BackendConnect
  BY <1>1, PairConnect
<1>2. CASE BackendDisconnect
  BY <1>2, PairDisconnect
<1>3. CASE \E e \in Endpoints : MonitorRecv(e) \/ Flap(e)
  BY <1>3, PairRecv, PairFlap
<1>4. CASE /\ ~BackendConnect /\ ~BackendDisconnect
           /\ \A e \in Endpoints : ~MonitorRecv(e) /\ ~Flap(e)
  <2>1. UNCHANGED <<connect, pipes, lost, event, monq, link>>
    BY <1>4, PairFrame
  <2> QED
    BY <2>1 DEF PairInv, Paired, HasPipe
<1> QED
  BY <1>1, <1>2, <1>3, <1>4

\* With any number of endpoints and however often they come and go: as long
\* as no event is erased unseen, "connect" of _client_backend is exactly the
\* number of pipes, no endpoint has two, and one with nothing left to handle
\* has a pipe exactly if it is connected.
THEOREM CounterIsExact == Spec => []CounterExact
<1>1. Init => PairInv
  <2> SUFFICES ASSUME Init PROVE PairInv
    OBVIOUS
  <2>1. \A e \in Endpoints : /\ event[e] = {} /\ monq[e] = <<>>
                             /\ link[e] = FALSE /\ ~HasPipe(e)
    BY DEF Init, HasPipe
  <2>2. \A a : Toggles(<<>>, a, a)
    BY DEF Toggles
  <2>3. connect = Cardinality(pipes) /\ pipes = {}
    BY FS_EmptySet DEF Init
  <2>4. \A e \in Endpoints : Paired(e)
    BY <2>1, <2>2 DEF Paired, State
  <2> QED
    BY <2>3, <2>4 DEF PairInv
<1>2. TypeOK /\ CounterInv /\ PairInv => CounterExact
  <2> SUFFICES ASSUME TypeOK, CounterInv, PairInv, ~lost
               PROVE  /\ connect = Cardinality(pipes)
                      /\ \A e \in Endpoints :
                           /\ Cardinality(PipesOf(e)) <= 1
                           /\ event[e] = {} /\ monq[e] = <<>>
                                => (PipesOf(e) # {} <=> link[e])
    BY DEF CounterExact
  <2>1. ASSUME NEW e \in Endpoints PROVE Cardinality(PipesOf(e)) <= 1
    <3>1. CASE PipesOf(e) = {}
      BY <3>1, FS_EmptySet
    <3>2. CASE PipesOf(e) # {}
      <4>1. PICK p \in pipes : p[1] = e
        BY <3>2 DEF PipesOf
      <4>2. PipesOf(e) = {p}
        BY <4>1 DEF PairInv, PipesOf
      <4>3. Cardinality({p}) = 1
        BY FS_Singleton
      <4> QED
        BY <4>2, <4>3
    <3> QED
      BY <3>1, <3>2
  <2>2. ASSUME NEW e \in Endpoints, event[e] = {}, monq[e] = <<>>
        PROVE  PipesOf(e) # {} <=> link[e]
    <3>1. State(HasPipe(e)) = State(link[e])
      BY <2>2 DEF PairInv, Paired, Toggles
    <3>2. HasPipe(e) <=> PipesOf(e) # {}
      BY DEF HasPipe, PipesOf
    <3>3. link[e] \in BOOLEAN
      BY DEF TypeOK
    <3> QED
      BY <3>1, <3>2, <3>3 DEF State
  <2>3. connect = Cardinality(pipes)
    BY DEF PairInv
  <2> QED
    BY <2>1, <2>2, <2>3
<1> QED
  BY <1>1, <1>2, PairStep, TypeCorrect, CounterInvariant, PTL DEF Spec

-----------------------------------------------------------------------------
(***************************************************************************)
(* The client implements MessageRelay and loses messages at its end only.  *)
(* Gone messages have ended, in order; the frames done with of the next    *)
(* one, which is the head of inproc, are the last of the history           *)
(* (HandInv), and are all relayed in the way that was chosen for the       *)
(* message (ModeInv); what waits in inproc, or was discarded with it, and  *)
(* what is in main's hand, follows in order (QueueInv).                    *)
(***************************************************************************)
Gone == Cardinality(Ends(out, Frames))

HandInv ==
  /\ InOrder(out, Frames, Gone)
  /\ Hand(out, frm, Gone + 1)
  /\ ~Fault => HandFated(out, frm, FALSE, mode)

\* What a place in the inner loop says of the mode, and a frame of the place.
ModeFits(pc, md, n) ==
  /\ pc = "dump" => md = "dump"
  /\ pc \in {"compress", "sendmsg"} => md # "dump"
  /\ n > 0 => pc \in {"frame"} \cup Modes

ModeInv == ~interrupted => ModeFits(bpc, mode, frm)

\* The accepted messages that have left no other trace.
Missing ==
  taken - (Gone + Len(discarded) + Len(inproc)
             + (IF mpc = "forward" THEN 1 ELSE 0))

QueueInv ==
  /\ \A i \in DOMAIN inproc : inproc[i] = Gone + i
  /\ \A i \in DOMAIN discarded : discarded[i] = Gone + i
  /\ Missing \in {0, 1} /\ (Missing = 1 => mpc \in {"kill", "join", "done"})

RelayInv == ControlInv /\ HandInv /\ ModeInv /\ QueueInv

\* Before the first message nothing is gone.
LEMMA RelayInit == Init => RelayInv
<1> SUFFICES ASSUME Init PROVE RelayInv
  OBVIOUS
<1>1. /\ out = <<>> /\ taken = 0 /\ inproc = <<>> /\ frm = 0
      /\ bpc = "loop" /\ mpc = "proxy" /\ discarded = <<>>
  BY DEF Init
<1>2. InOrder(out, Frames, 0)
  BY <1>1, InOrderEmpty
<1>3. Gone = 0
  BY <1>2 DEF InOrder, Gone
<1>4. HandInv
  BY <1>1, <1>2, <1>3 DEF HandInv, Hand, HandFated
<1>5. ModeInv
  BY <1>1 DEF ModeInv, ModeFits
<1>6. QueueInv
  <2>1. Missing = 0
    <3>1. Len(inproc) = 0 /\ Len(discarded) = 0
      BY <1>1
    <3>2. taken = 0 /\ mpc # "forward"
      BY <1>1
    <3>3. Missing = 0 - (0 + 0 + 0 + 0)
      <4> HIDE DEF Gone
      <4> QED
        BY <1>3, <3>1, <3>2, Zenon DEF Missing
    <3> QED
      BY <3>3
  <2> QED
    BY <1>1, <2>1 DEF QueueInv
<1> QED
  BY <1>4, <1>5, <1>6, ControlInit DEF RelayInv

(***************************************************************************)
(* Five kinds of step: main accepts a message, main forwards it, the       *)
(* backend is done with a frame, the backend closes inproc, or nothing     *)
(* happens to a message, unless zmq_proxy is interrupted while it holds    *)
(* one.                                                                    *)
(***************************************************************************)
Quiet ==
  /\ UNCHANGED <<taken, inproc, frm, out, discarded>>
  /\ interrupted => interrupted'
  /\ \/ mpc' = mpc
     \/ mpc' \in {"kill", "join", "done"} /\ mpc # "done"
  /\ ~interrupted' => ModeFits(bpc', mode', frm) /\ (frm > 0 => mode' = mode)

Done(fate) ==
  /\ bpc \in Modes /\ FrameDone(fate)
  /\ ~interrupted /\ fate # "dropped" => fate = Fated(FALSE, mode, frm + 1)

\* Of each step: what it does to the messages, as one of those kinds.
LEMMA StepKinds ==
  ASSUME ControlInv, ModeInv, [Next]_vars
  PROVE  \/ Quiet \/ MainRecv \/ MainForward \/ BackendClose
         \/ \E fate \in Fates : Done(fate)
<1> USE DEF mainVars, backendVars, frameVars, signalVars, eventVars, socketVars
<1>0. frm \in Nat
  BY DEF ControlInv, TypeOK
<1>1. CASE Signal \/ MainKill
  <2>1. /\ UNCHANGED <<taken, inproc, frm, out, discarded>>
        /\ interrupted' = TRUE
        /\ (mpc' = mpc \/ (mpc' \in {"kill", "join"} /\ mpc # "done"))
    BY <1>1 DEF Signal, MainKill, EintrMain
  <2> QED
    BY <2>1 DEF Quiet
<1>2. CASE MainJoin
  <2>1. /\ UNCHANGED <<taken, inproc, frm, out, interrupted, bpc, mode,
                       discarded>>
        /\ mpc' = "done" /\ mpc # "done"
    BY <1>2 DEF MainJoin
  <2> QED
    BY <2>1 DEF Quiet, ModeInv
<1>3. CASE BackendLoop \/ BackendPollIn \/ BackendPollTimeout
           \/ BackendCheckConnected \/ BackendConnect
           \/ BackendCheckDisconnected \/ BackendDisconnect
           \/ BackendStop \/ BackendJoinNext
  <2>1. /\ UNCHANGED <<taken, inproc, frm, out, mpc, discarded>>
        /\ interrupted => interrupted'
        /\ bpc \in {"loop", "poll", "check_connected", "connect",
                    "check_disconnected", "disconnect", "stop", "join"}
        /\ bpc' \in {"loop", "poll", "frame", "check_connected", "connect",
                     "check_disconnected", "disconnect", "stop", "join"}
    BY <1>3 DEF BackendLoop, BackendPollIn, BackendPollTimeout,
       BackendCheckConnected, BackendConnect, BackendCheckDisconnected,
       BackendDisconnect, BackendStop, BackendJoinNext, AfterEndpoint
  <2>2. ~interrupted' => ~(frm > 0)
    BY <2>1 DEF ModeInv, ModeFits, Modes
  <2> QED
    BY <2>1, <2>2 DEF Quiet, ModeFits, Modes
<1>4. CASE BackendFrame
  <2>1. UNCHANGED <<taken, inproc, frm, out, mpc, interrupted, discarded>>
    BY <1>4 DEF BackendFrame
  <2>2. ASSUME ~interrupted
        PROVE  bpc' = mode /\ mode' = mode /\ mode \in Modes
    BY <1>4, <2>2 DEF BackendFrame, ControlInv, InnerLoopHasFrame
  <2>3. ~interrupted => ModeFits(bpc', mode', frm)
    BY <2>2 DEF ModeFits
  <2> QED
    BY <2>1, <2>2, <2>3 DEF Quiet
<1>5. CASE BackendSend
  <2>1. /\ bpc \in Modes /\ FrameDone("sent")
        /\ bpc \in {"compress", "sendmsg"}
    BY <1>5 DEF BackendSend, Modes
  <2>2. ~interrupted => mode # "dump"
    BY <2>1 DEF ModeInv, ModeFits
  <2> QED
    BY <2>1, <2>2 DEF Done, Fated, Fates
<1>6. CASE BackendDump
  <2>1. bpc \in Modes /\ bpc = "dump"
    BY <1>6 DEF BackendDump, Modes
  <2>2. PICK fate \in {"dumped", "dropped"} : FrameDone(fate)
    BY <1>6 DEF BackendDump
  <2>3. ~interrupted => mode = "dump"
    BY <2>1 DEF ModeInv, ModeFits
  <2> QED
    BY <2>1, <2>2, <2>3 DEF Done, Fated, Fates
<1>7. CASE BackendCompressFails
  <2>1. /\ UNCHANGED <<taken, inproc, frm, out, mpc, mode, interrupted,
                       discarded>>
        /\ bpc = "compress" /\ bpc' = "sendmsg"
    BY <1>7 DEF BackendCompressFails
  <2> QED
    BY <2>1 DEF Quiet, ModeInv, ModeFits, Modes
<1>8. CASE (\E e \in Endpoints : MonitorStep(e) \/ Flap(e)) \/ UNCHANGED vars
  <2>1. UNCHANGED <<taken, inproc, frm, out, mpc, mode, bpc, interrupted,
                    discarded>>
    BY <1>8 DEF MonitorStep, MonitorCheck, MonitorRecv, Flap, vars
  <2> QED
    BY <2>1 DEF Quiet, ModeInv
<1> QED
  BY <1>1, <1>2, <1>3, <1>4, <1>5, <1>6, <1>7, <1>8
     DEF Next, MainStep, BackendStep

\* The number of messages that have ended only changes with the history.
LEMMA GoneKept == out' = out => Gone' = Gone
  BY DEF Gone

\* A fault is never forgotten.
LEMMA FaultGrows ==
  ASSUME interrupted => interrupted',
         out' = out \/ (\E r : Extends(out', out, r))
  PROVE  Fault => Fault'
  BY DEF Fault, Extends

\* Gone counts messages.
LEMMA GoneType == HandInv => Gone \in Nat
  BY DEF HandInv, InOrder

\* What the accounts are made of, and what they say.
LEMMA QueueType ==
  ASSUME RelayInv
  PROVE  /\ Gone \in Nat /\ taken \in Nat
         /\ Len(inproc) \in Nat /\ Len(discarded) \in Nat
         /\ inproc \in Seq(Messages) /\ discarded \in Seq(Messages)
         /\ bpc # "done" => discarded = <<>>
         /\ \A i \in DOMAIN inproc : inproc[i] = Gone + i
         /\ \A i \in DOMAIN discarded : discarded[i] = Gone + i
         /\ Missing \in {0, 1}
         /\ Missing = 1 => mpc \in {"kill", "join", "done"}
  BY GoneType, LenFrames DEF RelayInv, QueueInv, ControlInv, TypeOK, EndInv

\* Nothing happens to a message.
LEMMA RelayQuiet ==
  ASSUME RelayInv, ControlInv', Quiet
  PROVE  RelayInv'
<1>1. /\ UNCHANGED <<taken, inproc, frm, out, Gone>> /\ (Fault => Fault')
      /\ interrupted => interrupted'
  BY GoneKept, FaultGrows DEF Quiet
<1>2. HandInv'
  <2>1. ASSUME ~Fault' PROVE HandFated(out', frm', FALSE, mode')
    <3>1. ~Fault /\ ~interrupted' /\ HandFated(out, frm, FALSE, mode)
      BY <1>1, <2>1, Zenon DEF Fault, RelayInv, HandInv
    <3>2. CASE frm > 0
      BY <1>1, <3>1, <3>2 DEF Quiet
    <3>3. CASE ~(frm > 0)
      <4>1. frm' = 0
        BY <1>1, <3>3 DEF RelayInv, ControlInv, TypeOK
      <4> QED
        BY <4>1 DEF HandFated
    <3> QED
      BY <3>2, <3>3
  <2> QED
    BY <1>1, <2>1, Zenon DEF RelayInv, HandInv
<1>3. ModeInv'
  BY <1>1, Zenon DEF Quiet, ModeInv
<1>4. QueueInv'
  <2>1. UNCHANGED <<taken, inproc, discarded, Gone>>
    BY <1>1 DEF Quiet
  <2>2. Missing' \in {0, 1}
        /\ (Missing' = 1 => mpc' \in {"kill", "join", "done"})
    <3> HIDE DEF Gone
    <3>1. CASE mpc' = mpc
      <4>1. Missing' = Missing
        BY <2>1, <3>1 DEF Missing
      <4> HIDE DEF Missing
      <4> QED
        BY <3>1, <4>1, QueueType
    <3>2. CASE mpc' \in {"kill", "join", "done"}
      <4>1. CASE mpc = "forward"
        <5>1. Missing = 0
          <6> HIDE DEF Missing
          <6> QED
            BY <4>1, QueueType
        <5>2. Missing' = Missing + 1
          BY <2>1, <3>2, <4>1, QueueType DEF Missing
        <5> QED
          BY <3>2, <5>1, <5>2
      <4>2. CASE mpc # "forward"
        <5>1. Missing' = Missing
          BY <2>1, <3>2, <4>2 DEF Missing
        <5> QED
          BY <3>2, <5>1, QueueType
      <4> QED
        BY <4>1, <4>2
    <3> QED
      BY <3>1, <3>2 DEF Quiet
  <2> HIDE DEF Gone, Missing
  <2> QED
    BY <2>1, <2>2, QueueType DEF QueueInv
<1> QED
  BY <1>2, <1>3, <1>4, Zenon DEF RelayInv

\* Main accepts a message, or puts it in inproc behind the others.
LEMMA RelayMain ==
  ASSUME RelayInv, ControlInv', MainRecv \/ MainForward
  PROVE  RelayInv'
<1>1. UNCHANGED <<frm, out, bpc, mode, interrupted>>
  BY DEF MainRecv, MainForward, frameVars, backendVars, signalVars
<1>2. Gone' = Gone /\ Fault' = Fault
  BY <1>1 DEF Gone, Fault
<1>3. HandInv' /\ ModeInv'
  BY <1>1, <1>2, Zenon DEF RelayInv, HandInv, ModeInv
<1>4. discarded' = discarded
  BY DEF MainRecv, MainForward, frameVars
<1> HIDE DEF Gone
<1>5. CASE MainRecv
  <2>1. /\ mpc = "proxy" /\ mpc' = "forward" /\ taken' = taken + 1
        /\ inproc' = inproc
    BY <1>5 DEF MainRecv
  <2>2. Missing' = 0
    BY <1>2, <1>4, <2>1, QueueType DEF Missing
  <2>3. QueueInv'
    BY <1>2, <1>4, <2>1, <2>2, QueueType DEF QueueInv
  <2> QED
    BY <1>3, <2>3, Zenon DEF RelayInv
<1>6. CASE MainForward
  <2>1. /\ mpc = "forward" /\ mpc' = "proxy" /\ taken' = taken
        /\ inproc' = Append(inproc, taken) /\ taken \in Messages
        /\ discarded = <<>>
    BY <1>6, QueueType
       DEF MainForward, InprocRoom, RelayInv, ControlInv, HandTaken
  <2>2. taken = Gone + (Len(inproc) + 1)
    BY <2>1, QueueType DEF Missing
  <2>3. /\ Len(inproc') = Len(inproc) + 1 /\ DOMAIN inproc = 1..Len(inproc)
        /\ DOMAIN inproc' = 1..(Len(inproc) + 1)
        /\ inproc'[Len(inproc) + 1] = taken
        /\ \A j \in DOMAIN inproc : inproc'[j] = inproc[j]
    BY <2>1, QueueType, AppendFacts
  <2>4. Missing' = 0
    BY <1>2, <1>4, <2>1, <2>2, <2>3, QueueType DEF Missing
  <2>5. ASSUME NEW i \in DOMAIN inproc' PROVE inproc'[i] = Gone + i
    <3>1. i \in DOMAIN inproc \/ i = Len(inproc) + 1
      BY <2>3, QueueType
    <3> QED
      BY <2>2, <2>3, <3>1, QueueType
  <2>6. QueueInv'
    BY <1>2, <1>4, <2>1, <2>4, <2>5 DEF QueueInv
  <2> QED
    BY <1>3, <2>6, Zenon DEF RelayInv
<1> QED
  BY <1>5, <1>6

\* The backend closes inproc: what is there is discarded.
LEMMA RelayClose ==
  ASSUME RelayInv, ControlInv', BackendClose
  PROVE  RelayInv'
<1>1. /\ UNCHANGED <<taken, frm, out, mpc, mode, interrupted>>
      /\ inproc' = <<>> /\ discarded' = inproc
      /\ bpc = "join" /\ bpc' = "done"
  BY DEF BackendClose, mainVars, signalVars
<1>2. Gone' = Gone /\ Fault' = Fault
  BY <1>1 DEF Gone, Fault
<1>3. HandInv'
  BY <1>1, <1>2, Zenon DEF RelayInv, HandInv
<1>4. ModeInv'
  BY <1>1 DEF RelayInv, ControlInv, EndInv, ModeInv, ModeFits
<1> HIDE DEF Gone
<1>5. Missing' = Missing
  <2>1. discarded = <<>>
    BY <1>1, QueueType
  <2> QED
    BY <1>1, <1>2, <2>1, QueueType DEF Missing
<1> HIDE DEF Missing
<1>6. QueueInv'
  BY <1>1, <1>2, <1>5, QueueType DEF QueueInv
<1> QED
  BY <1>3, <1>4, <1>6, Zenon DEF RelayInv

\* The backend's frame is one of the message after those that are gone.
LEMMA DoneHistory ==
  ASSUME RelayInv, NEW fate \in Fates, Done(fate)
  PROVE  LET m == Gone + 1
             r == [msg |-> m, frame |-> frm + 1, fate |-> fate]
         IN /\ Extends(out', out, r)
            /\ frm \in Nat /\ Gone \in Nat /\ m \in Messages
            /\ Frames[m] \in Nat \ {0} /\ frm < Frames[m]
            /\ Head(inproc) = m /\ inproc # <<>>
            /\ UNCHANGED <<taken, interrupted, mpc, discarded>>
            /\ discarded = <<>>
<1> DEFINE m == Gone + 1
           r == [msg |-> m, frame |-> frm + 1, fate |-> fate]
<1>1. /\ frm \in Nat /\ Gone \in Nat /\ inproc # <<>>
      /\ inproc \in Seq(Messages)
  BY GoneType DEF RelayInv, ControlInv, TypeOK, InnerLoopHasFrame, Done
<1>2. Head(inproc) = m /\ m \in Messages
  <2>1. Head(inproc) = inproc[1] /\ 1 \in DOMAIN inproc
        /\ Head(inproc) \in Messages
    BY <1>1
  <2>2. inproc[1] = Gone + 1
    BY <2>1 DEF RelayInv, QueueInv
  <2> QED
    BY <2>1, <2>2
<1>3. Frames[m] \in Nat \ {0}
  BY <1>2 DEF Messages
<1>4. frm < Frames[m]
  BY <1>1, <1>2, <1>3 DEF RelayInv, ControlInv, InnerLoopHasFrame
<1>5. Extends(out', out, r)
  <2> DEFINE S == [msg : Messages, frame : Nat, fate : Fates]
  <2>1. r \in S
    BY <1>1, <1>2
  <2>2. out \in Seq(S)
    BY DEF RelayInv, ControlInv, TypeOK
  <2>3. out' = Append(out, r)
    BY <1>2 DEF Done, FrameDone
  <2> HIDE DEF r, S
  <2> QED
    BY <2>1, <2>2, <2>3, AppendExtends
<1>6. UNCHANGED <<taken, interrupted, mpc, discarded>> /\ discarded = <<>>
  BY QueueType DEF Done, FrameDone, mainVars, signalVars, Modes
<1> QED
  BY <1>1, <1>2, <1>3, <1>4, <1>5, <1>6

\* Until a fault, the frame shares the fate of those of its message before it.
LEMMA DoneFated ==
  ASSUME HandInv, frm \in Nat, NEW m, NEW fate, Done(fate),
         Extends(out', out, [msg |-> m, frame |-> frm + 1, fate |-> fate]),
         interrupted' = interrupted, ~Fault'
  PROVE  HandFated(out', frm + 1, FALSE, mode)
<1> DEFINE r == [msg |-> m, frame |-> frm + 1, fate |-> fate]
<1>1. /\ Len(out) \in Nat /\ DOMAIN out' = 1..(Len(out) + 1)
      /\ out'[Len(out) + 1] = r
  BY DEF Extends
<1>2. ~Fault /\ ~interrupted
  BY FaultGrows DEF Fault
<1>3. fate # "dropped"
  <2>1. Len(out) + 1 \in DOMAIN out' /\ out'[Len(out) + 1].fate = fate
    BY <1>1
  <2> QED
    BY <2>1 DEF Fault
<1>4. fate = Fated(FALSE, mode, frm + 1)
  BY <1>2, <1>3 DEF Done
<1>5. frm <= Len(out) /\ HandFated(out, frm, FALSE, mode)
  BY <1>2 DEF HandInv, Hand
<1> QED
  BY <1>4, <1>5, FatedExtends

\* The last frame of a message: it is gone.
LEMMA LastFrame ==
  ASSUME RelayInv, NEW fate \in Fates, Done(fate),
         frm + 1 = Frames[Gone + 1]
  PROVE  /\ Gone' = Gone + 1 /\ InOrder(out', Frames, Gone + 1)
         /\ frm' = 0 /\ inproc' = Tail(inproc) /\ bpc' = "check_connected"
<1> DEFINE r == [msg |-> Gone + 1, frame |-> frm + 1, fate |-> fate]
<1>1. Extends(out', out, r) /\ InOrder(out, Frames, Gone)
      /\ Head(inproc) = Gone + 1
  BY DoneHistory DEF RelayInv, HandInv
<1>2. InOrder(out', Frames, Gone + 1)
  <2> HIDE DEF Gone
  <2> QED
    BY <1>1, InOrderLast
<1>3. Gone' = Gone + 1
  BY <1>2 DEF InOrder, Gone
<1>4. frm' = 0 /\ inproc' = Tail(inproc) /\ bpc' = "check_connected"
  BY <1>1 DEF Done, FrameDone
<1> QED
  BY <1>2, <1>3, <1>4

\* Any other frame: it joins those in hand.
LEMMA OtherFrame ==
  ASSUME RelayInv, NEW fate \in Fates, Done(fate),
         frm + 1 # Frames[Gone + 1]
  PROVE  /\ Gone' = Gone /\ InOrder(out', Frames, Gone)
         /\ frm' = frm + 1 /\ inproc' = inproc /\ bpc' = "frame"
         /\ mode' = mode
<1> DEFINE r == [msg |-> Gone + 1, frame |-> frm + 1, fate |-> fate]
<1>1. Extends(out', out, r) /\ InOrder(out, Frames, Gone)
      /\ Head(inproc) = Gone + 1
  BY DoneHistory DEF RelayInv, HandInv
<1>2. InOrder(out', Frames, Gone)
  <2> HIDE DEF Gone
  <2> QED
    BY <1>1, InOrderFrame
<1>3. Gone' = Gone
  BY <1>2 DEF InOrder, Gone
<1>4. /\ frm' = frm + 1 /\ inproc' = inproc /\ bpc' = "frame"
      /\ mode' = mode
  BY <1>1 DEF Done, FrameDone
<1> QED
  BY <1>2, <1>3, <1>4

\* The backend is done with a frame.
LEMMA RelayDone ==
  ASSUME RelayInv, ControlInv', NEW fate \in Fates, Done(fate)
  PROVE  RelayInv'
<1> DEFINE r == [msg |-> Gone + 1, frame |-> frm + 1, fate |-> fate]
<1>1. /\ Extends(out', out, r)
      /\ frm \in Nat /\ Gone \in Nat
      /\ Head(inproc) = Gone + 1 /\ inproc # <<>>
      /\ UNCHANGED <<taken, interrupted, mpc, discarded>>
      /\ discarded = <<>>
  BY DoneHistory
<1>2. /\ taken \in Nat /\ Len(inproc) \in Nat
      /\ inproc \in Seq(Messages)
      /\ \A i \in DOMAIN inproc : inproc[i] = Gone + i
      /\ Missing \in {0, 1}
      /\ Missing = 1 => mpc \in {"kill", "join", "done"}
  BY QueueType
<1>3. Hand(out', frm + 1, Gone + 1)
  BY <1>1, HandExtends, Zenon DEF RelayInv, HandInv
<1>4. ~Fault' => HandFated(out', frm + 1, FALSE, mode)
  BY <1>1, DoneFated DEF RelayInv
<1> HIDE DEF Gone
<1>5. CASE frm + 1 = Frames[Gone + 1]
  <2>1. /\ Gone' = Gone + 1 /\ InOrder(out', Frames, Gone + 1)
        /\ frm' = 0 /\ inproc' = Tail(inproc) /\ bpc' = "check_connected"
    BY <1>5, LastFrame
  <2>2. HandInv'
    <3>1. Len(out') \in Nat
      BY <1>1 DEF Extends
    <3>2. Hand(out', 0, Gone' + 1)
      BY <3>1 DEF Hand
    <3>3. HandFated(out', 0, FALSE, mode')
      BY DEF HandFated
    <3> QED
      BY <2>1, <3>2, <3>3, Zenon DEF HandInv
  <2>3. ModeInv'
    BY <2>1 DEF ModeInv, ModeFits
  <2>4. /\ Len(inproc') = Len(inproc) - 1
        /\ \A i \in DOMAIN inproc' : i \in Nat /\ i + 1 \in DOMAIN inproc
                                     /\ inproc'[i] = inproc[i + 1]
    <3>1. \A q \in Seq(Messages) : q # <<>> =>
            /\ Len(Tail(q)) = Len(q) - 1
            /\ \A i \in DOMAIN Tail(q) : i \in Nat /\ i + 1 \in DOMAIN q
                                         /\ Tail(q)[i] = q[i + 1]
      OBVIOUS
    <3> QED
      BY <1>1, <1>2, <2>1, <3>1
  <2>5. Missing' = Missing
    BY <1>1, <1>2, <2>1, <2>4 DEF Missing
  <2>6. ASSUME NEW i \in DOMAIN inproc' PROVE inproc'[i] = Gone' + i
    BY <1>1, <1>2, <2>1, <2>4
  <2> QED
    <3> HIDE DEF Missing
    <3>1. QueueInv'
      BY <1>1, <1>2, <2>5, <2>6 DEF QueueInv
    <3> QED
      BY <2>2, <2>3, <3>1, Zenon DEF RelayInv
<1>6. CASE frm + 1 # Frames[Gone + 1]
  <2>1. /\ Gone' = Gone /\ InOrder(out', Frames, Gone)
        /\ frm' = frm + 1 /\ inproc' = inproc /\ bpc' = "frame"
        /\ mode' = mode
    BY <1>6, OtherFrame
  <2>2. HandInv'
    BY <1>3, <1>4, <2>1, Zenon DEF HandInv
  <2>3. ModeInv'
    BY <2>1 DEF ModeInv, ModeFits
  <2>4. Missing' = Missing
    BY <1>1, <1>2, <2>1 DEF Missing
  <2>5. ASSUME NEW i \in DOMAIN inproc' PROVE inproc'[i] = Gone' + i
    BY <1>2, <2>1
  <2> QED
    <3> HIDE DEF Missing
    <3>1. QueueInv'
      BY <1>1, <1>2, <2>4, <2>5 DEF QueueInv
    <3> QED
      BY <2>2, <2>3, <3>1, Zenon DEF RelayInv
<1> QED
  BY <1>5, <1>6

\* Every step of the client keeps what is said of its messages.
LEMMA RelayStep == RelayInv /\ [Next]_vars => RelayInv'
<1> SUFFICES ASSUME RelayInv, [Next]_vars PROVE RelayInv'
  OBVIOUS
<1>1. ControlInv'
  BY ControlStep DEF RelayInv
<1>2. \/ Quiet \/ MainRecv \/ MainForward \/ BackendClose
      \/ \E fate \in Fates : Done(fate)
  BY StepKinds DEF RelayInv
<1> QED
  BY <1>1, <1>2, RelayQuiet, RelayMain, RelayClose, RelayDone

\* The relay invariant holds throughout.
LEMMA RelayInvariant == Spec => []RelayInv
  BY RelayInit, RelayStep, PTL DEF Spec

\* Of the messages that zmq_proxy accepted only the last ones can get lost, and
\* only after a signal: those that were put into inproc after the last poll of
\* _client_publish_gc, which go when _client_backend closes it, and the one
\* that zmq_proxy held when it was interrupted.
THEOREM LossOnlyAtTheEnd == Spec => []Accounted
<1>1. RelayInv => Accounted
  <2> SUFFICES ASSUME RelayInv PROVE Accounted
    OBVIOUS
  <2> DEFINE ended == Cardinality(Ends(out, Frames))
             hand == IF mpc = "forward" THEN 1 ELSE 0
             missing == taken - (ended + Len(discarded) + Len(inproc) + hand)
  <2>1. missing = Missing /\ ended = Gone
    BY DEF Missing, Gone
  <2>2. /\ missing \in {0, 1}
        /\ missing = 1 => mpc \in {"kill", "join", "done"}
        /\ discarded # <<>> => bpc = "done"
        /\ \A i \in DOMAIN discarded : discarded[i] = ended + i
    <3> HIDE DEF ended, missing
    <3> QED
      BY <2>1, QueueType
  <2>3. ~interrupted => /\ mpc \notin {"kill", "join", "done"}
                        /\ bpc # "done"
    BY DEF RelayInv, ControlInv, EndInv, GcOnlyAfterInterrupt
  <2>4. ~interrupted => missing = 0 /\ discarded = <<>>
    <3> HIDE DEF ended, missing
    <3> QED
      BY <2>2, <2>3
  <2> QED
    BY <2>2, <2>4 DEF Accounted
<1> QED
  BY <1>1, RelayInvariant, PTL

\* A step that adds nothing to the history.
LEMMA RelaysNothing ==
  ASSUME RelayInv, Quiet \/ MainRecv \/ MainForward \/ BackendClose
  PROVE  [Relay!Next]_(Relay!vars)
<1>1. CASE Quiet \/ MainForward \/ BackendClose
  <2>1. UNCHANGED <<taken, out>> /\ (interrupted => interrupted')
    BY <1>1 DEF Quiet, MainForward, BackendClose, mainVars, frameVars,
       signalVars
  <2>2. Relayed' = Relayed
    BY <2>1 DEF Relayed
  <2>3. (Fault => Fault') /\ Fault' \in BOOLEAN /\ Fault \in BOOLEAN
    BY <2>1, FaultGrows DEF Fault
  <2>4. CASE Fault' = TRUE
    BY <2>1, <2>2, <2>4 DEF Relay!Next, Relay!Fault
  <2>5. CASE Fault' = FALSE
    BY <2>1, <2>2, <2>3, <2>5 DEF Relay!vars
  <2> QED
    BY <2>3, <2>4, <2>5
<1>2. CASE MainRecv
  <2>1. /\ UNCHANGED <<out, interrupted>>
        /\ taken' = taken + 1 /\ taken < Len(Frames)
    BY <1>2 DEF MainRecv, frameVars, signalVars
  <2>2. Relayed' = Relayed /\ Fault' = Fault
    BY <2>1 DEF Relayed, Fault
  <2> QED
    BY <2>1, <2>2 DEF Relay!Next, Relay!Accept
<1> QED
  BY <1>1, <1>2

\* A message whose last frame is done with is whole, unless there was a fault.
LEMMA DoneFate ==
  ASSUME RelayInv, ControlInv', NEW fate \in Fates, Done(fate),
         frm + 1 = Frames[Gone + 1]
  PROVE  LET f == FateIn(out', Frames, FALSE, Gone + 1)
         IN /\ f \in Relay!Fates /\ f # "discarded"
            /\ f = "damaged" => Fault'
<1> DEFINE m == Gone + 1
           f == FateIn(out', Frames, FALSE, m)
           r == [msg |-> m, frame |-> frm + 1, fate |-> fate]
<1>1. Extends(out', out, r) /\ frm \in Nat /\ interrupted' = interrupted
  BY DoneHistory
<1>2. f \in Relay!Fates /\ f # "discarded"
  BY DEF FateIn, Relay!Fates
<1>3. ASSUME ~Fault' PROVE f # "damaged"
  <2>1. Hand(out', frm + 1, m)
    BY <1>1, HandExtends, Zenon DEF RelayInv, HandInv
  <2>2. HandFated(out', frm + 1, FALSE, mode)
    BY <1>1, <1>3, DoneFated DEF RelayInv
  <2>3. frm + 1 \in Nat \ {0}
    BY <1>1
  <2>4. Records(out')
    BY RecordsType DEF ControlInv, TypeOK
  <2> HIDE DEF m
  <2>5. frm + 1 = Frames[m]
    BY DEF m
  <2> QED
    BY <2>1, <2>2, <2>3, <2>4, <2>5, HandWhole
<1> QED
  BY <1>2, <1>3

\* The backend is done with a frame: a message ends with its last one.
LEMMA RelaysFrame ==
  ASSUME RelayInv, RelayInv', NEW fate \in Fates, Done(fate)
  PROVE  [Relay!Next]_(Relay!vars)
<1> DEFINE r == [msg |-> Gone + 1, frame |-> frm + 1, fate |-> fate]
<1>1. /\ Extends(out', out, r) /\ frm \in Nat /\ Gone \in Nat
      /\ Gone + 1 \in Messages /\ UNCHANGED <<taken, interrupted>>
      /\ InOrder(out, Frames, Gone) /\ inproc # <<>>
  BY DoneHistory DEF RelayInv, HandInv
<1>2. \A n \in 1..Gone : Frames[n] \in Nat \ {0} /\ r.msg # n
  <2>1. \A n \in 1..Gone : n \in 1..Len(Frames) /\ n # Gone + 1
    BY <1>1, LenFrames DEF Messages
  <2> QED
    BY <2>1
<1>3. Fault' \in {Fault, TRUE}
  <2>1. Fault => Fault'
    BY <1>1, FaultGrows
  <2> QED
    BY <2>1 DEF Fault
<1>4. CASE frm + 1 # Frames[Gone + 1]
  <2>1. InOrder(out', Frames, Gone)
    BY <1>4, OtherFrame
  <2>2. Relayed' = Relayed
    <3> HIDE DEF Gone
    <3>1. \A d : RelayedIn(out', Frames, d) = RelayedIn(out, Frames, d)
      BY <1>1, <1>2, <2>1, RelayedFrame
    <3> QED
      BY <3>1, Zenon DEF Relayed
  <2>3. CASE Fault' = TRUE
    BY <1>1, <2>2, <2>3 DEF Relay!Next, Relay!Fault
  <2>4. CASE Fault' = Fault
    BY <1>1, <2>2, <2>4 DEF Relay!vars
  <2> QED
    BY <1>3, <2>3, <2>4
<1>5. CASE frm + 1 = Frames[Gone + 1]
  <2> DEFINE f == FateIn(out', Frames, FALSE, Gone + 1)
  <2>1. InOrder(out', Frames, Gone + 1)
    BY <1>5, LastFrame
  <2>2. /\ Len(Relayed) = Gone
        /\ Relayed' = Append(Relayed, [msg |-> Gone + 1, fate |-> f])
    <3> HIDE DEF Gone
    <3> QED
      BY <1>1, <1>2, <2>1, RelayedLast DEF Relayed
  <2>3. Gone < taken
    <3>1. Len(inproc) # 0 /\ discarded = <<>>
      BY <1>1, QueueType, DoneHistory
    <3> HIDE DEF Gone
    <3> QED
      BY <1>1, <3>1, QueueType DEF Missing
  <2>4. f \in Relay!Fates /\ f # "discarded" /\ (f = "damaged" => Fault')
    BY <1>5, DoneFate DEF RelayInv
  <2> HIDE DEF f, Gone
  <2>5. Relay!Relay(f)
    BY <1>1, <1>3, <2>2, <2>3, <2>4 DEF Relay!Relay
  <2> QED
    BY <2>4, <2>5 DEF Relay!Next
<1> QED
  BY <1>4, <1>5

\* For any number of endpoints, messages and frames, connections and signals,
\* and any size of inproc: the messages leave whole, in order and at most once,
\* and only a fault damages one.
THEOREM ClientImplementsRelay == Spec => RelaySpec
<1>1. Init => Relay!Init
  <2> SUFFICES ASSUME Init PROVE Relay!Init
    OBVIOUS
  <2>1. out = <<>> /\ taken = 0 /\ interrupted = FALSE
    BY DEF Init
  <2>2. InOrder(out, Frames, 0)
    BY <2>1, InOrderEmpty
  <2>3. \A d : RelayedIn(out, Frames, d) = <<>>
    BY <2>2, RelayedInOrder
  <2>4. Relayed = <<>>
    BY <2>3, Zenon DEF Relayed
  <2>5. Fault = FALSE
    BY <2>1 DEF Fault
  <2> QED
    BY <2>1, <2>4, <2>5 DEF Relay!Init
<1>2. RelayInv /\ RelayInv' /\ [Next]_vars => [Relay!Next]_(Relay!vars)
  <2> SUFFICES ASSUME RelayInv, RelayInv', [Next]_vars
               PROVE  [Relay!Next]_(Relay!vars)
    OBVIOUS
  <2>1. \/ Quiet \/ MainRecv \/ MainForward \/ BackendClose
        \/ \E fate \in Fates : Done(fate)
    BY StepKinds DEF RelayInv
  <2> QED
    BY <2>1, RelaysNothing, RelaysFrame
<1> QED
  BY <1>1, <1>2, RelayInvariant, PTL DEF Spec, RelaySpec, Relay!Spec
-----------------------------------------------------------------------------
(***************************************************************************)
(* What GcEnds is not kept by, for every instance: gc with a message in    *)
(* inproc is a trap.  It is left only by a poll that finds inproc empty,   *)
(* and gc takes nothing from inproc.                                       *)
(***************************************************************************)
Trapped == gc /\ inproc # <<>> /\ bpc \notin {"stop", "join", "done"}

\* Main's pthread_join returns only after the backend.
JoinedInv == mpc = "done" => bpc = "done"

\* The backend has ended when main has joined it.
LEMMA JoinedStep == JoinedInv /\ [Next]_vars => JoinedInv'
<1> SUFFICES ASSUME JoinedInv, [Next]_vars PROVE JoinedInv'
  OBVIOUS
<1> USE DEF JoinedInv, mainVars, backendVars
<1>1. CASE MainStep
  BY <1>1 DEF MainStep, MainRecv, MainForward, MainKill, MainJoin
<1>2. CASE BackendStep
  BY <1>2 DEF BackendStep, BackendLoop, BackendPollIn, BackendPollTimeout,
     BackendFrame, BackendDump, FrameDone, BackendCheckConnected,
     BackendConnect, BackendCheckDisconnected, BackendDisconnect, BackendStop,
     BackendJoinNext, BackendClose
<1>3. CASE BackendSend \/ BackendCompressFails
  BY <1>3 DEF BackendSend, FrameDone, BackendCompressFails
<1>4. CASE \E e \in Endpoints : MonitorStep(e) \/ Flap(e)
  BY <1>4 DEF MonitorStep, MonitorCheck, MonitorRecv, Flap
<1>5. CASE Signal
  BY <1>5 DEF Signal, EintrMain, EintrBackend
<1>6. CASE UNCHANGED vars
  BY <1>6 DEF vars
<1> QED
  BY <1>1, <1>2, <1>3, <1>4, <1>5, <1>6 DEF Next

\* No step gets the backend out of gc while a message is in inproc.
LEMMA TrappedStep == ControlInv /\ Trapped /\ [Next]_vars => Trapped'
<1> SUFFICES ASSUME ControlInv, Trapped, [Next]_vars PROVE Trapped'
  OBVIOUS
<1> USE DEF Trapped, mainVars, backendVars
<1>1. /\ gc /\ inproc # <<>> /\ bpc \notin {"stop", "join", "done"}
      /\ interrupted /\ bpc \notin Modes
  BY DEF ControlInv, GcOnlyAfterInterrupt
<1>2. CASE MainRecv \/ MainKill \/ MainJoin
  BY <1>1, <1>2 DEF MainRecv, MainKill, MainJoin, EintrBackend, Modes
<1>3. CASE MainForward
  <2>1. inproc' = Append(inproc, taken) /\ inproc \in Seq(Messages)
        /\ taken \in Messages
    BY <1>3 DEF MainForward, ControlInv, TypeOK, HandTaken
  <2>2. inproc' # <<>>
    BY <2>1
  <2> QED
    BY <1>1, <1>3, <2>2 DEF MainForward
<1>4. CASE BackendSend \/ BackendDump \/ BackendCompressFails
  BY <1>1, <1>4 DEF BackendSend, BackendDump, BackendCompressFails, Modes
<1>5. CASE BackendStep /\ ~BackendDump
  BY <1>1, <1>5 DEF BackendStep, BackendLoop, BackendPollIn,
     BackendPollTimeout, BackendFrame, BackendCheckConnected, BackendConnect,
     BackendCheckDisconnected, BackendDisconnect, AfterEndpoint, BackendStop,
     BackendJoinNext, BackendClose
<1>6. CASE \E e \in Endpoints : MonitorStep(e) \/ Flap(e)
  BY <1>1, <1>6 DEF MonitorStep, MonitorCheck, MonitorRecv, Flap
<1>7. CASE Signal
  BY <1>1, <1>7 DEF Signal, EintrBackend, Modes
<1>8. CASE UNCHANGED vars
  BY <1>1, <1>8 DEF vars
<1> QED
  BY <1>2, <1>3, <1>4, <1>5, <1>6, <1>7, <1>8 DEF Next, MainStep

\* _client_publish_gc with a message in inproc never ends, and main waits for it
\* in pthread_join for ever, whatever signals, messages and connections come.
THEOREM GcNeverEnds == Spec => [](Trapped => [](Trapped /\ mpc # "done"))
<1>1. Init => JoinedInv
  BY DEF Init, JoinedInv
<1>2. Trapped /\ JoinedInv => mpc # "done"
  BY DEF Trapped, JoinedInv
<1> QED
  BY <1>1, <1>2, JoinedStep, TrappedStep, ControlInvariant, PTL DEF Spec
=============================================================================
