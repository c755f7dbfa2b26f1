------------------------ MODULE ClientStartupProofs ------------------------
(***************************************************************************)
(* The two handshakes of ClientStartup, proved for any number of           *)
(* endpoints, failures, signals and connections.                           *)
(*                                                                         *)
(* What makes them work is not in the statements: who has locked a mutex,  *)
(* and for whom.  The invariant says it for both: MonitorHandshake for     *)
(* _mutex_monitor, MainHandshake for _mutex; Progress says how far backend *)
(* has come with the endpoints, forwards and, after a failure, backwards.  *)
(*                                                                         *)
(* Last, two of the exceptions of StartsOrEnds, the knot and the thread    *)
(* that could not be created, are final.                                   *)
(***************************************************************************)
EXTENDS ClientStartup, TLAPS

Starting == {"none", "setup", "create", "relock", "connect"}
Started  == {"signals", "loop"}
Ended    == {"return", "done"}
Off      == {"none", "done"}

\* The endpoints before idx are connected on the way forward, and the monitors
\* before idx have ended on the way back.
Progress ==
  /\ bpc \in {"none", "setup"} => \A e \in Endpoints : monpc[e] = "none"
  /\ bpc \in Starting => dialled = 1..(idx - 1)
  /\ bpc \in {"unlock"} \cup Started => dialled = Endpoints
  /\ bpc \in {"none", "setup"} => idx = 1
  /\ bpc \in {"stop", "join"} =>
       \A e \in Endpoints : e < idx => monpc[e] \in Off
  /\ bpc \in {"fail"} \cup Ended => \A e \in Endpoints : monpc[e] \in Off

\* _mutex_monitor is locked while the monitor backend waits for is not ready.
MonitorHandshake ==
  /\ \A e \in Endpoints : monpc[e] = "setup" =>
       bpc = "relock" /\ e = idx /\ mutex_monitor
  /\ bpc = "relock" /\ monpc[idx] = "none" => mutex_monitor
  /\ bpc = "connect" => monpc[idx] \notin {"none", "setup"}
  /\ \A e \in Endpoints : monpc[e] = "return" => interrupted

\* _mutex is locked while the backend main waits for is not ready.
MainHandshake ==
  /\ mpc \in {"lock", "create"} => bpc = "none"
  /\ bpc \notin Started \cup Ended /\ mpc # "lock" => mutex
  /\ mpc \in {"check", "proxy", "kill", "join", "done"} =>
       bpc \in Started \cup Ended
  /\ bpc \in Ended => interrupted

\* A monitor that reports has an event to report.
Reporting == \A e \in Endpoints : monpc[e] = "report" => monq[e] # <<>>

Guarantees == MonitoredFirst /\ ProxyLast /\ ReportsWait

StartInv ==
  /\ TypeOK
  /\ Reporting
  /\ Progress
  /\ MonitorHandshake
  /\ MainHandshake
  /\ Guarantees

-----------------------------------------------------------------------------
(***************************************************************************)
(* Types.                                                                  *)
(***************************************************************************)
\* A queue that is appended to keeps its type and is not empty.
LEMMA AppendType ==
  ASSUME NEW T, NEW q \in Seq(T), NEW x \in T
  PROVE  Append(q, x) \in Seq(T) /\ Append(q, x) # <<>>
<1>1. Append(q, x) \in Seq(T) /\ Len(Append(q, x)) = Len(q) + 1
  OBVIOUS
<1>2. Len(q) \in Nat /\ Len(<<>>) = 0
  OBVIOUS
<1> QED BY <1>1, <1>2

\* Every step keeps the types, and an event for each monitor that reports.
LEMMA TypeStep ==
  TypeOK /\ Reporting /\ [Next]_vars => TypeOK' /\ Reporting'
<1> SUFFICES ASSUME TypeOK, Reporting, [Next]_vars
             PROVE  TypeOK' /\ Reporting'
  OBVIOUS
<1> USE NAssumption, BoundsAssumption
<1> USE DEF TypeOK, Reporting, Endpoints, Events, MainPc, BackendPc, MonitorPc,
            lockVars, signalVars, backVars, monVars, linkVars
<1>0. Fails \/ UNCHANGED failures => failures' \in 0..MaxFailures
  BY DEF Fails
<1>1. CASE MainStep
  <2>1. CASE MainLock
    BY <2>1 DEF MainLock
  <2>2. CASE MainCreate
    BY <2>2 DEF MainCreate, Fails
  <2>3. CASE MainRelock
    BY <2>3 DEF MainRelock
  <2>4. CASE MainCheck
    BY <2>4 DEF MainCheck
  <2>5. CASE MainKill
    BY <2>5 DEF MainKill
  <2>6. CASE MainJoin
    BY <2>6 DEF MainJoin
  <2> QED BY <1>1, <2>1, <2>2, <2>3, <2>4, <2>5, <2>6 DEF MainStep
<1>2. CASE BackendStep
  <2>1. CASE BackendSetup
    BY <2>1 DEF BackendSetup, Fails
  <2>2. CASE BackendCreate
    <3>1. failures' \in 0..MaxFailures
      BY <1>0, <2>2 DEF BackendCreate
    <3>2. monpc' \in [Endpoints -> MonitorPc] /\ Reporting'
      BY <2>2 DEF BackendCreate
    <3> QED BY <2>2, <3>1, <3>2 DEF BackendCreate
  <2>3. CASE BackendRelock
    BY <2>3 DEF BackendRelock
  <2>4. CASE BackendConnect
    <3>1. failures' \in 0..MaxFailures
      BY <1>0, <2>4 DEF BackendConnect
    <3>2. idx' \in Endpoints
      <4>1. CASE bpc' = "stop"
        BY <2>4, <4>1 DEF BackendConnect
      <4>2. CASE bpc' # "stop"
        <5>1. idx' = IF idx < N THEN idx + 1 ELSE 1
          BY <2>4, <4>2 DEF BackendConnect
        <5> QED BY <5>1
      <4> QED BY <4>1, <4>2
    <3>4. dialled' \subseteq Endpoints
      BY <2>4 DEF BackendConnect
    <3>3. bpc' \in BackendPc
      BY <2>4 DEF BackendConnect
    <3> QED BY <2>4, <3>1, <3>2, <3>3, <3>4 DEF BackendConnect
  <2>5. CASE BackendUnlock \/ BackendSignals \/ BackendFail \/ BackendReturn
    BY <2>5 DEF BackendUnlock, BackendSignals, BackendFail, BackendReturn
  <2>6. CASE BackendStop
    BY <2>6 DEF BackendStop, EintrMonitor
  <2>7. CASE BackendJoin
    BY <2>7 DEF BackendJoin
  <2> QED BY <1>2, <2>1, <2>2, <2>3, <2>4, <2>5, <2>6, <2>7 DEF BackendStep
<1>3. ASSUME NEW e \in Endpoints, MonitorStep(e)
      PROVE  TypeOK' /\ Reporting'
  <2>1. CASE MonitorSetup(e)
    <3>1. failures' \in 0..MaxFailures
      BY <1>0, <2>1 DEF MonitorSetup
    <3>2. monpc' \in [Endpoints -> MonitorPc] /\ Reporting'
      BY <2>1 DEF MonitorSetup
    <3>3. /\ interrupted' \in BOOLEAN /\ mutex_monitor' \in BOOLEAN
          /\ UNCHANGED <<mutex, handled, signals, mpc, bpc, idx, dialled,
                         monq, event, link, flaps>>
      BY <2>1 DEF MonitorSetup
    <3> QED BY <3>1, <3>2, <3>3
  <2>2. CASE MonitorReturn(e)
    BY <2>2 DEF MonitorReturn
  <2>5. CASE MonitorSignals(e)
    BY <2>5 DEF MonitorSignals
  <2>6. CASE MonitorCheck(e)
    BY <2>6 DEF MonitorCheck
  <2>3. CASE MonitorRecv(e)
    BY <2>3 DEF MonitorRecv
  <2>4. CASE MonitorReport(e)
    <3>1. monq[e] \in Seq(Events) /\ monq[e] # <<>>
      BY <2>4 DEF MonitorReport
    <3>2. Head(monq[e]) \in Events /\ Tail(monq[e]) \in Seq(Events)
      BY <3>1
    <3> QED BY <2>4, <3>2 DEF MonitorReport
  <2> QED BY <1>3, <2>1, <2>2, <2>3, <2>4, <2>5, <2>6 DEF MonitorStep
<1>4. ASSUME NEW e \in Endpoints, Flap(e)
      PROVE  TypeOK' /\ Reporting'
  <2> DEFINE x == IF link[e] THEN "disconnected" ELSE "connected"
  <2>1. Append(monq[e], x) \in Seq(Events) /\ Append(monq[e], x) # <<>>
    <3>1. monq[e] \in Seq(Events) /\ x \in Events
      OBVIOUS
    <3> QED BY <3>1, AppendType
  <2> HIDE DEF x
  <2>2. monq' = [monq EXCEPT ![e] = Append(@, x)]
    BY <1>4 DEF Flap, x
  <2> QED BY <1>4, <2>1, <2>2 DEF Flap
<1>5. CASE Signal
  <2>1. signals' \in 0..MaxSignals /\ interrupted' = TRUE
    BY <1>5 DEF Signal
  <2>2. monpc' \in [Endpoints -> MonitorPc] /\ Reporting'
    BY <1>5 DEF Signal, EintrMonitor
  <2> QED BY <1>5, <2>1, <2>2 DEF Signal
<1>6. CASE UNCHANGED vars
  BY <1>6 DEF vars
<1> QED BY <1>1, <1>2, <1>3, <1>4, <1>5, <1>6 DEF Next

-----------------------------------------------------------------------------
(***************************************************************************)
(* The handshakes.                                                         *)
(***************************************************************************)
Handshakes == Progress /\ MonitorHandshake /\ MainHandshake /\ Guarantees

\* Every step of main keeps them.
LEMMA MainKeeps == StartInv /\ MainStep => Handshakes'
<1> SUFFICES ASSUME StartInv, MainStep PROVE Handshakes'
  OBVIOUS
<1> USE NAssumption
<1> USE DEF StartInv, Handshakes, TypeOK, Progress, MonitorHandshake,
            MainHandshake, Guarantees, MonitoredFirst, ProxyLast, ReportsWait,
            Endpoints, MainPc, BackendPc, MonitorPc, Starting, Started, Ended,
            Off, lockVars, signalVars, backVars, monVars, linkVars
<1>1. CASE MainLock
  BY <1>1 DEF MainLock
<1>2. CASE MainCreate
  BY <1>2 DEF MainCreate, Fails
<1>3. CASE MainRelock
  BY <1>3 DEF MainRelock
<1>4. CASE MainCheck
  BY <1>4 DEF MainCheck
<1>5. CASE MainKill
  BY <1>5 DEF MainKill
<1>6. CASE MainJoin
  BY <1>6 DEF MainJoin
<1> QED BY <1>1, <1>2, <1>3, <1>4, <1>5, <1>6 DEF MainStep

\* Every step of backend keeps them.
LEMMA BackendKeeps == StartInv /\ BackendStep => Handshakes'
<1> SUFFICES ASSUME StartInv, BackendStep PROVE Handshakes'
  OBVIOUS
<1> USE NAssumption
<1> USE DEF StartInv, Handshakes, TypeOK, Progress, MonitorHandshake,
            MainHandshake, Guarantees, MonitoredFirst, ProxyLast, ReportsWait,
            Endpoints, MainPc, BackendPc, MonitorPc, Starting, Started, Ended,
            Off, lockVars, signalVars, backVars, monVars, linkVars
<1>1. CASE BackendSetup
  BY <1>1 DEF BackendSetup, Fails
<1>2. CASE BackendCreate
  BY <1>2 DEF BackendCreate, Fails
<1>3. CASE BackendRelock
  BY <1>3 DEF BackendRelock
<1>4. CASE BackendConnect
  <2>1. CASE bpc' = "stop"
    BY <1>4, <2>1 DEF BackendConnect, Fails
  <2>2. CASE bpc' # "stop"
    <3>1. /\ ~interrupted /\ interrupted' = interrupted
          /\ dialled' = dialled \cup {idx} /\ dialled = 1..(idx - 1)
          /\ monpc' = monpc /\ mpc' = mpc /\ event' = event
          /\ mutex' = mutex /\ mutex_monitor' = mutex_monitor
      BY <1>4, <2>2 DEF BackendConnect
    <3>2. dialled' = 1..idx
      BY <3>1
    <3>3. CASE idx < N
      BY <1>4, <2>2, <3>1, <3>2, <3>3 DEF BackendConnect
    <3>4. CASE ~(idx < N)
      BY <1>4, <2>2, <3>1, <3>2, <3>4 DEF BackendConnect
    <3> QED BY <3>3, <3>4
  <2> QED BY <2>1, <2>2
<1>5. CASE BackendUnlock
  BY <1>5 DEF BackendUnlock
<1>6. CASE BackendSignals
  BY <1>6 DEF BackendSignals
<1>7. CASE BackendStop
  BY <1>7 DEF BackendStop, EintrMonitor
<1>8. CASE BackendJoin
  BY <1>8 DEF BackendJoin
<1>9. CASE BackendFail
  BY <1>9 DEF BackendFail
<1>10. CASE BackendReturn
  BY <1>10 DEF BackendReturn
<1> QED
  BY <1>1, <1>2, <1>3, <1>4, <1>5, <1>6, <1>7, <1>8, <1>9, <1>10
  DEF BackendStep

\* Every step of a monitor thread keeps them.
LEMMA MonitorKeeps ==
  ASSUME NEW e \in Endpoints
  PROVE  StartInv /\ MonitorStep(e) => Handshakes'
<1> SUFFICES ASSUME StartInv, MonitorStep(e) PROVE Handshakes'
  OBVIOUS
<1> USE NAssumption
<1> USE DEF StartInv, Handshakes, TypeOK, Progress, MonitorHandshake,
            MainHandshake, Guarantees, MonitoredFirst, ProxyLast, ReportsWait,
            Endpoints, MainPc, BackendPc, MonitorPc, Starting, Started, Ended,
            Off, lockVars, signalVars, backVars, monVars, linkVars
<1>1. CASE MonitorSetup(e)
  <2>1. /\ monpc[e] = "setup" /\ mutex_monitor' = FALSE
        /\ UNCHANGED <<mutex, mpc, bpc, idx, dialled, event>>
        /\ \/ interrupted' = interrupted
              /\ monpc' = [monpc EXCEPT ![e] = "signals"]
           \/ interrupted' = TRUE
              /\ monpc' = [monpc EXCEPT ![e] = "return"]
    BY <1>1 DEF MonitorSetup
  <2>2. bpc = "relock" /\ e = idx
    BY <2>1
  <2>3. CASE /\ interrupted' = interrupted
             /\ monpc' = [monpc EXCEPT ![e] = "signals"]
    BY <2>1, <2>2, <2>3
  <2>4. CASE /\ interrupted' = TRUE
             /\ monpc' = [monpc EXCEPT ![e] = "return"]
    BY <2>1, <2>2, <2>4
  <2> QED BY <2>1, <2>3, <2>4
<1>2. CASE MonitorReturn(e)
  BY <1>2 DEF MonitorReturn
<1>3. CASE MonitorSignals(e)
  BY <1>3 DEF MonitorSignals
<1>4. CASE MonitorCheck(e)
  BY <1>4 DEF MonitorCheck
<1>5. CASE MonitorRecv(e)
  BY <1>5 DEF MonitorRecv
<1>6. CASE MonitorReport(e)
  BY <1>6 DEF MonitorReport
<1> QED
  BY <1>1, <1>2, <1>3, <1>4, <1>5, <1>6
  DEF MonitorStep

\* Signals and connections keep them.
LEMMA OutsideKeeps ==
  ASSUME NEW e \in Endpoints
  PROVE  StartInv /\ (Flap(e) \/ Signal) => Handshakes'
<1> SUFFICES ASSUME StartInv, Flap(e) \/ Signal PROVE Handshakes'
  OBVIOUS
<1> USE NAssumption
<1> USE DEF StartInv, Handshakes, TypeOK, Progress, MonitorHandshake,
            MainHandshake, Guarantees, MonitoredFirst, ProxyLast, ReportsWait,
            Endpoints, MainPc, BackendPc, MonitorPc, Starting, Started, Ended,
            Off, lockVars, signalVars, backVars, monVars, linkVars
<1>1. CASE Flap(e)
  BY <1>1 DEF Flap
<1>2. CASE Signal
  <2>1. /\ interrupted' = TRUE
        /\ UNCHANGED <<mutex, mutex_monitor, mpc, bpc, idx, dialled, event>>
        /\ monpc' = monpc \/ \E f \in Endpoints : EintrMonitor(f)
    BY <1>2 DEF Signal
  <2>2. CASE monpc' = monpc
    BY <2>1, <2>2
  <2>3. CASE \E f \in Endpoints : EintrMonitor(f)
    <3>1. PICK f \in Endpoints : EintrMonitor(f)
      BY <2>3
    <3>2. monpc[f] = "recv" /\ monpc' = [monpc EXCEPT ![f] = "check"]
      BY <3>1 DEF EintrMonitor
    <3> QED BY <2>1, <3>2
  <2> QED BY <2>1, <2>2, <2>3
<1> QED BY <1>1, <1>2

\* The invariant holds at the start.
LEMMA StartInit == Init => StartInv
<1> SUFFICES ASSUME Init PROVE StartInv
  OBVIOUS
<1> USE NAssumption, BoundsAssumption DEF Init, Endpoints
<1>1. /\ TypeOK
  <2>1. /\ monpc \in [Endpoints -> MonitorPc]
        /\ link \in [Endpoints -> BOOLEAN]
        /\ event \in [Endpoints -> SUBSET Events]
    BY DEF MonitorPc
  <2>2. monq \in [Endpoints -> Seq(Events)]
    <3>1. <<>> \in Seq(Events)
      OBVIOUS
    <3> QED BY <3>1
  <2>3. /\ signals \in 0..MaxSignals /\ failures \in 0..MaxFailures
        /\ flaps \in 0..MaxFlaps /\ idx \in Endpoints
        /\ mpc \in MainPc /\ bpc \in BackendPc /\ dialled \subseteq Endpoints
    BY DEF MainPc, BackendPc
  <2>4. /\ interrupted \in BOOLEAN /\ handled \in BOOLEAN
        /\ mutex \in BOOLEAN /\ mutex_monitor \in BOOLEAN
    OBVIOUS
  <2> QED BY <2>1, <2>2, <2>3, <2>4 DEF TypeOK
<1>2. Reporting /\ Progress
  BY DEF Reporting, Progress, Starting, Started, Ended, Off
<1>3. MonitorHandshake /\ MainHandshake
  BY DEF MonitorHandshake, MainHandshake, Starting, Started, Ended
<1>4. Guarantees
  BY DEF Guarantees, MonitoredFirst, ProxyLast, ReportsWait
<1> QED BY <1>1, <1>2, <1>3, <1>4 DEF StartInv

\* Every step keeps the invariant.
LEMMA StartStep == StartInv /\ [Next]_vars => StartInv'
<1> SUFFICES ASSUME StartInv, [Next]_vars PROVE StartInv'
  OBVIOUS
<1>1. TypeOK' /\ Reporting'
  BY TypeStep DEF StartInv
<1>2. Handshakes'
  <2>1. CASE MainStep
    BY <2>1, MainKeeps
  <2>2. CASE BackendStep
    BY <2>2, BackendKeeps
  <2>3. ASSUME NEW e \in Endpoints, MonitorStep(e) PROVE Handshakes'
    BY <2>3, MonitorKeeps
  <2>4. ASSUME NEW e \in Endpoints, Flap(e) \/ Signal PROVE Handshakes'
    BY <2>4, OutsideKeeps
  <2>5. CASE UNCHANGED vars
    BY <2>5
    DEF vars, StartInv, Handshakes, Progress, MonitorHandshake, MainHandshake,
        Guarantees, MonitoredFirst, ProxyLast, ReportsWait, lockVars,
        signalVars, backVars, monVars, linkVars
  <2>6. 1 \in Endpoints
    BY NAssumption DEF Endpoints
  <2> QED BY <2>1, <2>2, <2>3, <2>4, <2>5, <2>6 DEF Next
<1> QED BY <1>1, <1>2 DEF StartInv, Handshakes

\* The invariant always holds.
LEMMA StartAlways == Spec => []StartInv
BY StartInit, StartStep, PTL DEF Spec

-----------------------------------------------------------------------------
(***************************************************************************)
(* Theorems.                                                               *)
(***************************************************************************)
\* Every variable of the start keeps its type.
THEOREM StartTypeCorrect == Spec => []TypeOK
<1>1. StartInv => TypeOK
  BY DEF StartInv
<1> QED BY <1>1, StartAlways, PTL

\* No endpoint is connected before its monitor thread can receive events: the
\* handshake of _client_publish_monitor_start works.
THEOREM ConnectsMonitored == Spec => []MonitoredFirst
<1>1. StartInv => MonitoredFirst
  BY DEF StartInv, Guarantees
<1> QED BY <1>1, StartAlways, PTL

\* zmq_proxy runs only with a backend that is ready: the handshake of
\* _server_client works.
THEOREM ProxyStartsLast == Spec => []ProxyLast
<1>1. StartInv => ProxyLast
  BY DEF StartInv, Guarantees
<1> QED BY <1>1, StartAlways, PTL

\* No event is reported before the backend is ready to count it.
THEOREM NoEarlyReport == Spec => []ReportsWait
<1>1. StartInv => ReportsWait
  BY DEF StartInv, Guarantees
<1> QED BY <1>1, StartAlways, PTL
-----------------------------------------------------------------------------
(***************************************************************************)
(* The waits that the start of the client never gets out of, whatever      *)
(* comes: the exceptions of StartsOrEnds are not only possible but final.  *)
(***************************************************************************)
\* A monitor that can report has called _signals, and from then on the process
\* is not killed.
HandledInv ==
  /\ \A e \in Endpoints : monpc[e] \in {"check", "recv", "report"} => handled
  /\ mpc = "killed" => ~handled

\* No thread has called _signals at the start.
LEMMA HandledInit == Init => HandledInv
  BY DEF Init, HandledInv

\* Every step keeps HandledInv.
LEMMA HandledStep == StartInv /\ HandledInv /\ [Next]_vars => HandledInv'
<1> SUFFICES ASSUME StartInv, HandledInv, [Next]_vars PROVE HandledInv'
  OBVIOUS
<1>1. /\ monpc \in [Endpoints -> MonitorPc] /\ handled \in BOOLEAN
      /\ idx \in Endpoints
  BY DEF StartInv, TypeOK
<1> USE <1>1 DEF HandledInv, Alive, lockVars, signalVars, backVars, monVars
<1>2. CASE MainStep
  BY <1>2 DEF MainStep, MainLock, MainCreate, MainRelock, MainCheck, MainKill,
     MainJoin
<1>3. CASE BackendStep
  <2>1. CASE BackendCreate
    BY <2>1, <1>3 DEF BackendStep, BackendCreate
  <2>2. CASE BackendStop
    BY <2>2, <1>3 DEF BackendStep, BackendStop, EintrMonitor
  <2>3. CASE ~BackendCreate /\ ~BackendStop
    BY <2>3, <1>3 DEF BackendStep, BackendSetup, BackendRelock, BackendConnect,
       BackendUnlock, BackendSignals, BackendJoin, BackendFail, BackendReturn
  <2> QED BY <2>1, <2>2, <2>3
<1>4. ASSUME NEW e \in Endpoints, MonitorStep(e) PROVE HandledInv'
  BY <1>4 DEF MonitorStep, MonitorSetup, MonitorReturn, MonitorSignals,
     MonitorCheck, MonitorRecv, MonitorReport
<1>5. ASSUME NEW e \in Endpoints, Alive /\ Flap(e) PROVE HandledInv'
  BY <1>5 DEF Flap
<1>6. CASE Alive /\ Signal
  BY <1>6 DEF Signal, EintrMonitor
<1>7. CASE UNCHANGED vars
  BY <1>7 DEF vars
<1> QED BY <1>2, <1>3, <1>4, <1>5, <1>6, <1>7 DEF Next

\* While the three threads wait for each other main is at its second lock.
LEMMA KnotHoldsMain ==
  ASSUME StartInv, HandledInv, NEW e \in Endpoints, Knot(e)
  PROVE  mpc = "relock"
<1>1. bpc = "join" /\ monpc[e] = "report" /\ handled
  BY DEF Knot, HandledInv
<1>2. mpc # "killed" /\ mpc \in MainPc
  BY <1>1 DEF HandledInv, StartInv, TypeOK
<1> QED BY <1>1, <1>2 DEF StartInv, MainHandshake, Started, Ended, MainPc

\* Nothing unties the knot.
LEMMA KnotStep ==
  ASSUME StartInv, HandledInv, NEW e \in Endpoints, Knot(e), [Next]_vars
  PROVE  Knot(e)'
<1>1. /\ bpc = "join" /\ idx = e /\ monpc[e] = "report" /\ mutex
      /\ mpc = "relock"
  BY KnotHoldsMain DEF Knot
<1>2. monpc \in [Endpoints -> MonitorPc]
  BY DEF StartInv, TypeOK
<1> USE <1>1, <1>2 DEF Knot, lockVars, signalVars, backVars, monVars
<1>3. CASE MainStep
  BY <1>3 DEF MainStep, MainLock, MainCreate, MainRelock, MainCheck, MainKill,
     MainJoin
<1>4. CASE BackendStep
  BY <1>4 DEF BackendStep, BackendSetup, BackendCreate, BackendRelock,
     BackendConnect, BackendUnlock, BackendSignals, BackendStop, BackendJoin,
     BackendFail, BackendReturn
<1>5. ASSUME NEW f \in Endpoints, MonitorStep(f) PROVE Knot(e)'
  BY <1>5 DEF MonitorStep, MonitorSetup, MonitorReturn, MonitorSignals,
     MonitorCheck, MonitorRecv, MonitorReport
<1>6. ASSUME NEW f \in Endpoints, Flap(f) PROVE Knot(e)'
  BY <1>6 DEF Flap
<1>7. CASE Signal
  BY <1>7 DEF Signal, EintrMonitor
<1>8. CASE UNCHANGED vars
  BY <1>8 DEF vars
<1> QED BY <1>3, <1>4, <1>5, <1>6, <1>7, <1>8 DEF Next

\* If an endpoint cannot be connected while the monitor of an earlier one waits
\* for _mutex with an event, the client hangs for ever in its start: main in
\* pthread_mutex_lock, backend in pthread_join and the monitor in
\* pthread_mutex_lock.  No connection that comes or goes changes that, and no
\* SIGINT or SIGTERM, for the monitor has set the handlers for the process.
THEOREM KnotIsForEver ==
  ASSUME NEW e \in Endpoints
  PROVE  Spec => [](Knot(e) => [](Knot(e) /\ mpc = "relock"))
<1>1. StartInv /\ HandledInv /\ Knot(e) /\ [Next]_vars => Knot(e)'
  BY KnotStep
<1>2. StartInv /\ HandledInv /\ Knot(e) => mpc = "relock"
  BY KnotHoldsMain
<1> QED
  BY <1>1, <1>2, HandledInit, HandledStep, StartAlways, PTL DEF Spec

\* The thread that main or backend waits for was never created.
NoBackend == mpc = "relock" /\ bpc = "none"
NoMonitor == bpc = "relock" /\ monpc[idx] = "none"

\* Nothing ends the wait for a thread that does not exist.
LEMMA MissingStep ==
  ASSUME StartInv, [Next]_vars
  PROVE  (NoBackend => NoBackend') /\ (NoMonitor => NoMonitor')
<1>1. ASSUME NoBackend PROVE NoBackend'
  <2>1. mpc = "relock" /\ bpc = "none" /\ mutex
    BY <1>1 DEF NoBackend, StartInv, MainHandshake, Started, Ended
  <2>2. \A f \in Endpoints : monpc[f] = "none"
    BY <2>1 DEF StartInv, Progress
  <2> USE <2>1, <2>2 DEF NoBackend, lockVars, signalVars, backVars, monVars
  <2>3. CASE MainStep
    BY <2>3 DEF MainStep, MainLock, MainCreate, MainRelock, MainCheck,
       MainKill, MainJoin
  <2>4. CASE BackendStep
    BY <2>4 DEF BackendStep, BackendSetup, BackendCreate, BackendRelock,
       BackendConnect, BackendUnlock, BackendSignals, BackendStop, BackendJoin,
       BackendFail, BackendReturn
  <2>5. ASSUME NEW f \in Endpoints, MonitorStep(f) PROVE NoBackend'
    BY <2>5 DEF MonitorStep, MonitorSetup, MonitorReturn, MonitorSignals,
       MonitorCheck, MonitorRecv, MonitorReport
  <2>6. ASSUME NEW f \in Endpoints, Flap(f) PROVE NoBackend'
    BY <2>6 DEF Flap
  <2>7. CASE Signal \/ UNCHANGED vars
    BY <2>7 DEF Signal, vars
  <2> QED BY <2>3, <2>4, <2>5, <2>6, <2>7 DEF Next
<1>2. ASSUME NoMonitor PROVE NoMonitor'
  <2>1. /\ bpc = "relock" /\ monpc[idx] = "none" /\ mutex_monitor
        /\ idx \in Endpoints /\ monpc \in [Endpoints -> MonitorPc]
        /\ \A f \in Endpoints : monpc[f] # "setup"
    BY <1>2 DEF NoMonitor, StartInv, TypeOK, MonitorHandshake
  <2> USE <2>1 DEF NoMonitor, lockVars, signalVars, backVars, monVars
  <2>2. mpc \notin {"create", "check", "kill", "join"}
    BY DEF StartInv, MainHandshake, Started, Ended
  <2>3. CASE MainStep
    BY <2>2, <2>3 DEF MainStep, MainLock, MainCreate, MainRelock, MainCheck,
       MainKill, MainJoin
  <2>4. CASE BackendStep
    BY <2>4 DEF BackendStep, BackendSetup, BackendCreate, BackendRelock,
       BackendConnect, BackendUnlock, BackendSignals, BackendStop, BackendJoin,
       BackendFail, BackendReturn
  <2>5. ASSUME NEW f \in Endpoints, MonitorStep(f) PROVE NoMonitor'
    BY <2>5 DEF MonitorStep, MonitorSetup, MonitorReturn, MonitorSignals,
       MonitorCheck, MonitorRecv, MonitorReport
  <2>6. ASSUME NEW f \in Endpoints, Flap(f) PROVE NoMonitor'
    BY <2>6 DEF Flap
  <2>7. CASE Signal
    BY <2>7 DEF Signal, EintrMonitor
  <2>8. CASE UNCHANGED vars
    BY <2>8 DEF vars
  <2> QED BY <2>3, <2>4, <2>5, <2>6, <2>7, <2>8 DEF Next
<1> QED BY <1>1, <1>2

\* A failure of pthread_create is a positive number and goes unnoticed
\* (_client, _client_backend): a thread that has locked a mutex for one that was
\* not created waits for ever for it to be unlocked, unless a signal kills the
\* process before it handles any.
THEOREM MissingThreadIsAwaited ==
  Spec => /\ [](NoBackend => []NoBackend)
          /\ [](NoMonitor => []NoMonitor)
<1>1. StartInv /\ [Next]_vars
        => (NoBackend => NoBackend') /\ (NoMonitor => NoMonitor')
  BY MissingStep
<1> QED BY <1>1, StartAlways, PTL DEF Spec
=============================================================================
