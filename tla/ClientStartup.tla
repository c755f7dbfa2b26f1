---------------------------- MODULE ClientStartup ----------------------------
(***************************************************************************)
(* How zlmb-server --mode client starts (src/src/app_server.c), up to      *)
(* where ClientServer goes on, and how it ends if that fails.              *)
(*                                                                         *)
(* The threads of ClientServer are started one by the other: main starts   *)
(* the backend, the backend a monitor for each endpoint.  The starter      *)
(* locks a mutex and then locks it again, which waits until the new thread *)
(* has unlocked it: _mutex for the backend, _mutex_monitor for a monitor.  *)
(* _mutex is also the one under which a monitor reports its events.        *)
(*                                                                         *)
(* A thread sees _interrupted set by another when it reads it.  What the   *)
(* code does under a mutex without waiting is one step.                    *)
(***************************************************************************)
EXTENDS Integers, Sequences

CONSTANTS
  N,           \* number of endpoints in client_backendpoints
  MaxFlaps,    \* bound: connections and disconnections of all endpoints
  MaxSignals,  \* bound: SIGINT or SIGTERM from outside
  MaxFailures  \* bound: calls that fail

ASSUME NAssumption == N \in Nat \ {0}
ASSUME BoundsAssumption ==
  MaxFlaps \in Nat /\ MaxSignals \in Nat /\ MaxFailures \in Nat

VARIABLES
  interrupted, \* _interrupted
  handled,     \* _signals was called: before, a signal kills the process
  signals,     \* signals the process has received from outside
  failures,    \* calls that have failed
  mutex,       \* _mutex is locked
  mutex_monitor, \* _mutex_monitor is locked
  mpc,         \* where main is
  bpc,         \* where backend is; "none": it does not exist
  idx,         \* backend's loop counter over the endpoints
  monpc,       \* where each monitor thread is
  monq,        \* connection events a monitor has not reported yet
  event,       \* monitor->event of each endpoint
  dialled,     \* the endpoints whose monitored socket backend has connected
  link,        \* whether the endpoint is connected
  flaps        \* connections and disconnections so far

lockVars   == <<mutex, mutex_monitor>>
signalVars == <<interrupted, handled, signals>>
backVars   == <<bpc, idx, dialled>>
monVars    == <<monpc, monq, event>>
linkVars   == <<link, flaps>>

vars == <<lockVars, signalVars, failures, mpc, backVars, monVars, linkVars>>

-----------------------------------------------------------------------------
Endpoints == 1..N
Events    == {"connected", "disconnected"}

MainPc    == {"lock", "create", "relock", "check", "proxy", "kill", "join",
              "done", "killed"}
BackendPc == {"none", "setup", "create", "relock", "connect", "unlock",
              "signals", "loop", "stop", "join", "fail", "return", "done"}
MonitorPc == {"none", "setup", "signals", "check", "recv", "report", "return",
              "done"}

TypeOK ==
  /\ interrupted \in BOOLEAN /\ handled \in BOOLEAN
  /\ signals \in 0..MaxSignals /\ failures \in 0..MaxFailures
  /\ mutex \in BOOLEAN /\ mutex_monitor \in BOOLEAN
  /\ mpc \in MainPc
  /\ bpc \in BackendPc
  /\ idx \in Endpoints
  /\ monpc \in [Endpoints -> MonitorPc]
  /\ monq \in [Endpoints -> Seq(Events)]
  /\ event \in [Endpoints -> SUBSET Events]
  /\ dialled \subseteq Endpoints
  /\ link \in [Endpoints -> BOOLEAN]
  /\ flaps \in 0..MaxFlaps

Init ==
  /\ interrupted = FALSE /\ handled = FALSE
  /\ signals = 0 /\ failures = 0
  /\ mutex = FALSE /\ mutex_monitor = FALSE
  /\ mpc = "lock"
  /\ bpc = "none"
  /\ idx = 1
  /\ monpc = [e \in Endpoints |-> "none"]
  /\ monq = [e \in Endpoints |-> <<>>]
  /\ event = [e \in Endpoints |-> {}]
  /\ dialled = {}
  /\ link = [e \in Endpoints |-> FALSE]
  /\ flaps = 0

Fails == failures < MaxFailures /\ failures' = failures + 1

-----------------------------------------------------------------------------
(***************************************************************************)
(* Main thread: _server_client, once its sockets are set up.               *)
(***************************************************************************)
MainLock ==
  /\ mpc = "lock"
  /\ ~mutex
  /\ mutex' = TRUE
  /\ mpc' = "create"
  /\ UNCHANGED <<mutex_monitor, signalVars, failures, backVars, monVars,
                 linkVars>>

\* pthread_create.  Its failure is a positive number, and goes unnoticed.
MainCreate ==
  /\ mpc = "create"
  /\ mpc' = "relock"
  /\ \/ bpc' = "setup" /\ UNCHANGED failures
     \/ Fails /\ UNCHANGED bpc
  /\ UNCHANGED <<lockVars, signalVars, idx, dialled, monVars, linkVars>>

\* Mutant: the mutex is not locked a second time.
MainRelockNot ==
  /\ mpc = "relock"
  /\ mpc' = "check"
  /\ UNCHANGED <<lockVars, signalVars, failures, backVars, monVars, linkVars>>

\* Lock again, and unlock.
MainRelock ==
  /\ mpc = "relock"
  /\ ~mutex
  /\ mpc' = "check"
  /\ UNCHANGED <<lockVars, signalVars, failures, backVars, monVars, linkVars>>

MainCheck ==
  /\ mpc = "check"
  /\ \/ /\ interrupted
        /\ mpc' = "kill"
        /\ UNCHANGED handled
     \/ /\ ~interrupted
        /\ mpc' = "proxy"
        /\ handled' = TRUE
  /\ UNCHANGED <<interrupted, signals, lockVars, failures, backVars, monVars,
                 linkVars>>

\* pthread_kill(backend, SIGINT).
MainKill ==
  /\ mpc = "kill"
  /\ mpc' = IF handled \/ bpc = "done" THEN "join" ELSE "killed"
  /\ UNCHANGED <<lockVars, signalVars, failures, backVars, monVars, linkVars>>

\* pthread_join(backend).
MainJoin ==
  /\ mpc = "join"
  /\ bpc = "done"
  /\ mpc' = "done"
  /\ UNCHANGED <<lockVars, signalVars, failures, backVars, monVars, linkVars>>

-----------------------------------------------------------------------------
(***************************************************************************)
(* Backend thread: the start of _client_backend.                           *)
(***************************************************************************)
\* The sockets, and _client_publish_init.
BackendSetup ==
  /\ bpc = "setup"
  /\ \/ bpc' = "create" /\ UNCHANGED failures
     \/ Fails /\ bpc' = "fail"
  /\ UNCHANGED <<idx, dialled, lockVars, signalVars, mpc, monVars, linkVars>>

\* _client_publish_monitor_start: lock, and pthread_create.
BackendCreate ==
  /\ bpc = "create"
  /\ ~mutex_monitor
  /\ mutex_monitor' = TRUE
  /\ \/ /\ monpc' = [monpc EXCEPT ![idx] = "setup"]
        /\ UNCHANGED failures
     \/ Fails /\ UNCHANGED monpc
  /\ bpc' = "relock"
  /\ UNCHANGED <<mutex, idx, dialled, signalVars, mpc, monq, event, linkVars>>

\* Mutant: the mutex is not locked a second time.
BackendRelockNot ==
  /\ bpc = "relock"
  /\ bpc' = "connect"
  /\ UNCHANGED <<idx, dialled, lockVars, signalVars, failures, mpc, monVars,
                 linkVars>>

\* Lock again, and unlock.
BackendRelock ==
  /\ bpc = "relock"
  /\ ~mutex_monitor
  /\ bpc' = "connect"
  /\ UNCHANGED <<idx, dialled, lockVars, signalVars, failures, mpc, monVars,
                 linkVars>>

\* Mutant: the loop over the endpoints runs once too often.
BackendConnectOneMore ==
  /\ bpc = "connect"
  /\ \/ /\ ~interrupted
        /\ dialled' = dialled \cup {idx}
        /\ bpc' = IF idx <= N THEN "create" ELSE "unlock"
        /\ idx' = IF idx <= N THEN idx + 1 ELSE 1
        /\ UNCHANGED failures
     \/ /\ \/ interrupted /\ UNCHANGED failures
           \/ ~interrupted /\ Fails
        /\ bpc' = "stop"
        /\ idx' = 1
        /\ UNCHANGED dialled
  /\ UNCHANGED <<lockVars, signalVars, mpc, monVars, linkVars>>

\* Unless interrupted or the connect fails, the next endpoint.
BackendConnect ==
  /\ bpc = "connect"
  /\ \/ /\ ~interrupted
        /\ dialled' = dialled \cup {idx}
        /\ bpc' = IF idx < N THEN "create" ELSE "unlock"
        /\ idx' = IF idx < N THEN idx + 1 ELSE 1
        /\ UNCHANGED failures
     \/ /\ \/ interrupted /\ UNCHANGED failures
           \/ ~interrupted /\ Fails
        /\ bpc' = "stop"
        /\ idx' = 1
        /\ UNCHANGED dialled
  /\ UNCHANGED <<lockVars, signalVars, mpc, monVars, linkVars>>

\* pthread_mutex_unlock(&_mutex).
BackendUnlock ==
  /\ bpc = "unlock"
  /\ mutex' = FALSE
  /\ bpc' = "signals"
  /\ UNCHANGED <<idx, dialled, mutex_monitor, signalVars, failures, mpc,
                 monVars, linkVars>>

\* _signals; ClientServer goes on from here.
BackendSignals ==
  /\ bpc = "signals"
  /\ handled' = TRUE
  /\ bpc' = "loop"
  /\ UNCHANGED <<idx, dialled, lockVars, interrupted, signals, failures, mpc,
                 monVars, linkVars>>

\* The receive of a monitor thread is interrupted.
EintrMonitor(e) ==
  /\ monpc[e] = "recv"
  /\ monq[e] = <<>>
  /\ monpc' = [monpc EXCEPT ![e] = "check"]

\* _client_publish_monitor_stop: pthread_kill, if there is a thread.
BackendStop ==
  LET there == monpc[idx] # "none"
      alive == monpc[idx] \notin {"none", "done"}
  IN /\ bpc = "stop"
     /\ bpc' = "join"
     /\ interrupted' = (interrupted \/ (alive /\ handled))
     /\ mpc' = IF alive /\ ~handled THEN "killed" ELSE mpc
     /\ \/ there /\ EintrMonitor(idx)
        \/ UNCHANGED monpc
     /\ UNCHANGED <<idx, dialled, handled, signals, lockVars, failures, monq,
                    event, linkVars>>

\* pthread_join, and the next endpoint.
BackendJoin ==
  /\ bpc = "join"
  /\ monpc[idx] \in {"none", "done"}
  /\ bpc' = IF idx < N THEN "stop" ELSE "fail"
  /\ idx' = IF idx < N THEN idx + 1 ELSE 1
  /\ UNCHANGED <<dialled, lockVars, signalVars, failures, mpc, monVars,
                 linkVars>>

\* Mutant: _interrupted is not set.
BackendFailQuietly ==
  /\ bpc = "fail"
  /\ mutex' = FALSE
  /\ bpc' = "return"
  /\ UNCHANGED <<idx, dialled, mutex_monitor, signalVars, failures, mpc,
                 monVars, linkVars>>

\* Mutant: the mutex stays locked.
BackendFailLocked ==
  /\ bpc = "fail"
  /\ interrupted' = TRUE
  /\ bpc' = "return"
  /\ UNCHANGED <<idx, dialled, lockVars, handled, signals, failures, mpc,
                 monVars, linkVars>>

\* Every error path: _interrupted = 1, and pthread_mutex_unlock(&_mutex).
BackendFail ==
  /\ bpc = "fail"
  /\ interrupted' = TRUE
  /\ mutex' = FALSE
  /\ bpc' = "return"
  /\ UNCHANGED <<idx, dialled, mutex_monitor, handled, signals, failures, mpc,
                 monVars, linkVars>>

BackendReturn ==
  /\ bpc = "return"
  /\ bpc' = "done"
  /\ UNCHANGED <<idx, dialled, lockVars, signalVars, failures, mpc, monVars,
                 linkVars>>

-----------------------------------------------------------------------------
(***************************************************************************)
(* Monitor thread of endpoint e: _socket_monitor_event.                    *)
(***************************************************************************)
\* Its socket, and pthread_mutex_unlock(&_mutex_monitor), also if that fails.
MonitorSetup(e) ==
  /\ monpc[e] = "setup"
  /\ mutex_monitor' = FALSE
  /\ \/ /\ monpc' = [monpc EXCEPT ![e] = "signals"]
        /\ UNCHANGED <<interrupted, failures>>
     \/ /\ Fails
        /\ interrupted' = TRUE
        /\ monpc' = [monpc EXCEPT ![e] = "return"]
  /\ UNCHANGED <<mutex, handled, signals, mpc, backVars, monq, event, linkVars>>

MonitorReturn(e) ==
  /\ monpc[e] = "return"
  /\ monpc' = [monpc EXCEPT ![e] = "done"]
  /\ UNCHANGED <<lockVars, signalVars, failures, mpc, backVars, monq, event,
                 linkVars>>

\* _signals
MonitorSignals(e) ==
  /\ monpc[e] = "signals"
  /\ handled' = TRUE
  /\ monpc' = [monpc EXCEPT ![e] = "check"]
  /\ UNCHANGED <<lockVars, interrupted, signals, failures, mpc, backVars, monq,
                 event, linkVars>>

MonitorCheck(e) ==
  /\ monpc[e] = "check"
  /\ monpc' = [monpc EXCEPT ![e] = IF interrupted THEN "done" ELSE "recv"]
  /\ UNCHANGED <<lockVars, signalVars, failures, mpc, backVars, monq, event,
                 linkVars>>

\* zmq_recvmsg returns an event.
MonitorRecv(e) ==
  /\ monpc[e] = "recv"
  /\ monq[e] # <<>>
  /\ monpc' = [monpc EXCEPT ![e] = "report"]
  /\ UNCHANGED <<lockVars, signalVars, failures, mpc, backVars, monq, event,
                 linkVars>>

\* Mutant: the event is reported without _mutex.
MonitorReportUnlocked(e) ==
  /\ monpc[e] = "report"
  /\ event' = [event EXCEPT ![e] = @ \cup {Head(monq[e])}]
  /\ monq' = [monq EXCEPT ![e] = Tail(@)]
  /\ monpc' = [monpc EXCEPT ![e] = "check"]
  /\ UNCHANGED <<lockVars, signalVars, failures, mpc, backVars, linkVars>>

\* Lock _mutex, report the event and unlock.
MonitorReport(e) ==
  /\ monpc[e] = "report"
  /\ ~mutex
  /\ event' = [event EXCEPT ![e] = @ \cup {Head(monq[e])}]
  /\ monq' = [monq EXCEPT ![e] = Tail(@)]
  /\ monpc' = [monpc EXCEPT ![e] = "check"]
  /\ UNCHANGED <<lockVars, signalVars, failures, mpc, backVars, linkVars>>

-----------------------------------------------------------------------------
\* The connection of a monitored socket goes up or down; ZeroMQ reports it.
Flap(e) ==
  /\ e \in dialled
  /\ flaps < MaxFlaps
  /\ flaps' = flaps + 1
  /\ link' = [link EXCEPT ![e] = ~@]
  /\ monq' = [monq EXCEPT ![e] =
                Append(@, IF link[e] THEN "disconnected" ELSE "connected")]
  /\ UNCHANGED <<lockVars, signalVars, failures, mpc, backVars, monpc, event>>

\* A signal from outside; one that comes before _signals ends the process.
Signal ==
  /\ handled
  /\ signals < MaxSignals
  /\ signals' = signals + 1
  /\ interrupted' = TRUE
  /\ UNCHANGED monpc \/ \E e \in Endpoints : EintrMonitor(e)
  /\ UNCHANGED <<lockVars, handled, failures, mpc, backVars, monq, event,
                 linkVars>>

-----------------------------------------------------------------------------
Alive == mpc # "killed"

MainStep ==
  \/ MainLock \/ MainCreate \/ MainRelock \/ MainCheck \/ MainKill \/ MainJoin

BackendStep ==
  Alive /\ ( \/ BackendSetup \/ BackendCreate \/ BackendRelock
             \/ BackendConnect \/ BackendUnlock \/ BackendSignals
             \/ BackendStop \/ BackendJoin \/ BackendFail \/ BackendReturn )

MonitorStep(e) ==
  Alive /\ ( \/ MonitorSetup(e) \/ MonitorReturn(e) \/ MonitorSignals(e)
             \/ MonitorCheck(e) \/ MonitorRecv(e) \/ MonitorReport(e) )

Next ==
  \/ MainStep
  \/ BackendStep
  \/ \E e \in Endpoints : MonitorStep(e)
  \/ \E e \in Endpoints : Alive /\ Flap(e)
  \/ Alive /\ Signal

Spec == Init /\ [][Next]_vars

\* Threads run if they can; nothing else is obliged to happen.
Fairness ==
  /\ WF_vars(MainStep)
  /\ WF_vars(BackendStep)
  /\ \A e \in Endpoints : WF_vars(MonitorStep(e))

FairSpec == Spec /\ Fairness

-----------------------------------------------------------------------------
(***************************************************************************)
(* Safety.                                                                 *)
(***************************************************************************)
\* An endpoint is connected only once the thread that monitors it has its
\* socket: the double lock is a handshake, and no event comes before there is
\* someone to receive it.
MonitoredFirst ==
  \A e \in dialled : monpc[e] \notin {"none", "setup", "return"}

\* Main enters zmq_proxy only once the backend has set everything up and is
\* about to take messages.
ProxyLast ==
  mpc = "proxy" => bpc \in {"signals", "loop"} /\ dialled = Endpoints

\* No event is reported before the backend is ready to count it: monitors wait
\* for the mutex that main has locked, and the backend starts from no event,
\* as ClientServer does.
ReportsWait ==
  \A e \in Endpoints : event[e] # {} => bpc \in {"signals", "loop"}

-----------------------------------------------------------------------------
(***************************************************************************)
(* Liveness.                                                               *)
(***************************************************************************)
\* Monitor e has received an event and waits for _mutex, which main has locked
\* and backend would unlock, but backend waits for monitor e.
Knot(e) == bpc = "join" /\ idx = e /\ monpc[e] = "report" /\ mutex

\* The client starts or ends, but for three reasons not to: a thread could not
\* be created; a monitor thread took its signal outside the receive it waits
\* in; or the knot, which a failure after the first endpoint was connected can
\* tie.
StartsOrEnds ==
  (mpc = "lock") ~>
    \/ mpc \in {"proxy", "done", "killed"}
    \/ mpc = "join" /\ bpc = "loop"
    \/ [](mpc = "relock" /\ bpc = "none")
    \/ [](bpc = "relock" /\ monpc[idx] = "none")
    \/ [](bpc = "join" /\ monpc[idx] = "recv")
    \/ [](bpc = "join" /\ Knot(idx))
=============================================================================
