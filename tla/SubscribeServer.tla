-------------------------- MODULE SubscribeServer --------------------------
(***************************************************************************)
(* zlmb-server --mode subscribe, publish-subscribe and stand-alone         *)
(* (src/src/app_server.c).  The three loops differ in their frontend, in   *)
(* whether they drop the key (subscribe only) and in whether they          *)
(* uncompress (not stand-alone), and they start from different states: in  *)
(* publish-subscribe and stand-alone the backend is bound before it is     *)
(* monitored, so that workers may be there that nobody has reported.       *)
(*                                                                         *)
(* The main thread takes messages from the frontend and sends each to one  *)
(* of the workers connected to the backend PUSH socket, or writes it to    *)
(* the dump file.  One monitor thread turns the connection events of that  *)
(* socket, those of all workers together, into bits of monitor->event, and *)
(* _subscribe_monitor_connect counts them.  A critical section of _mutex   *)
(* is one step; an unlocked read of monitor->event is a step of its own.   *)
(*                                                                         *)
(* Messages are numbered in the order they are taken; message m has        *)
(* Frames[m] frames.  A step "sends" a frame when it hands it to ZeroMQ.   *)
(***************************************************************************)
EXTENDS Integers, Sequences, FiniteSets, History

CONSTANTS
  Workers,     \* the workers that connect to the backend
  Frames,      \* Frames[m]: number of frames of the m-th message
  Servers,     \* the modes that are checked
  DropKey,     \* subscribe_dropkey: the first frame is not sent
  Snappy,      \* USE_SNAPPY
  MaxFlaps,    \* bound: connections and disconnections of all workers
  MaxSignals   \* bound: SIGINT or SIGTERM from outside

ASSUME FramesAssumption == Frames \in Seq(Nat \ {0})
ASSUME ServersAssumption ==
  Servers \subseteq {"subscribe", "publish-subscribe", "stand-alone"}
ASSUME OptionAssumption == DropKey \in BOOLEAN /\ Snappy \in BOOLEAN
ASSUME BoundsAssumption == MaxFlaps \in Nat /\ MaxSignals \in Nat

VARIABLES
  server,      \* the mode
  interrupted, \* _interrupted
  signals,     \* signals the process has received from outside
  mpc,         \* where main is
  taken,       \* number of messages main has started to take
  mode,        \* local "send" of the message being taken
  frm,         \* local "frames": frames of message taken that are done with
  connect,     \* main's count of connected workers
  monpc,       \* where the monitor thread is
  monq,        \* connection events the monitor has not received yet
  event,       \* monitor->event
  here,        \* the workers connected now
  flaps,       \* connections and disconnections so far
  lost,        \* history: an event bit was merged or erased unseen
  out          \* history: every frame main is done with, and how

mainVars   == <<mpc, taken, mode, frm, out>>
mainData   == <<taken, mode, frm, out>>
countVars  == <<connect, lost, event>>
queueVars  == <<monpc, monq>>
workerVars == <<here, flaps>>
signalVars == <<interrupted, signals>>

vars == <<server, mainVars, countVars, queueVars, workerVars, signalVars>>

-----------------------------------------------------------------------------
Messages  == 1..Len(Frames)
Events    == {"accepted", "disconnected"}
Modes     == {"uncompress", "sendmsg", "dump"}
Fates     == {"key", "sent", "dumped", "dropped"}

MainPc    == {"loop", "poll", "frame", "check_accepted", "accept",
              "check_disconnected", "disconnect", "kill", "join", "done"}
             \cup Modes
MonitorPc == {"check", "recv", "done"}

\* Only subscribe has a key to drop; stand-alone gets its messages from the
\* applications, uncompressed.
DropsKey    == DropKey /\ server = "subscribe"
Uncompress  == Snappy /\ server # "stand-alone"
\* The order of zmq_bind and zmq_socket_monitor.
BindsFirst  == server # "subscribe"

TypeOK ==
  /\ server \in Servers
  /\ interrupted \in BOOLEAN
  /\ signals \in 0..MaxSignals
  /\ mpc \in MainPc
  /\ taken \in 0..Len(Frames)
  /\ mode \in Modes \cup {"none"}
  /\ frm = 0 \/ (taken > 0 /\ frm \in 1..(Frames[taken] - 1))
  /\ connect \in Int
  /\ monpc \in MonitorPc
  /\ monq \in Seq(Events)
  /\ event \subseteq Events
  /\ here \subseteq Workers
  /\ flaps \in 0..MaxFlaps
  /\ lost \in BOOLEAN
  /\ out \in Seq([msg : Messages, frame : Nat, fate : Fates])

Init ==
  /\ server \in Servers
  /\ interrupted = FALSE
  /\ signals = 0
  /\ mpc = "loop"
  /\ taken = 0
  /\ mode = "none"
  /\ frm = 0
  /\ connect = 0
  /\ monpc = "check"
  /\ monq = <<>>
  /\ event = {}
  /\ here \in IF BindsFirst THEN SUBSET Workers ELSE {{}}
  /\ flaps = 0
  /\ lost = (here # {})
  /\ out = <<>>

-----------------------------------------------------------------------------
(***************************************************************************)
(* Workers come and go, and ZeroMQ reports it.                             *)
(***************************************************************************)
WorkerConnects(w) ==
  /\ w \notin here
  /\ flaps < MaxFlaps
  /\ flaps' = flaps + 1
  /\ here' = here \cup {w}
  /\ monq' = Append(monq, "accepted")
  /\ UNCHANGED <<server, mainVars, countVars, signalVars, monpc>>

WorkerDisconnects(w) ==
  /\ w \in here
  /\ flaps < MaxFlaps
  /\ flaps' = flaps + 1
  /\ here' = here \ {w}
  /\ monq' = Append(monq, "disconnected")
  /\ UNCHANGED <<server, mainVars, countVars, signalVars, monpc>>

-----------------------------------------------------------------------------
(***************************************************************************)
(* Signals: see ClientServer.                                              *)
(***************************************************************************)
\* The first frame that is sent is the one that can wait.
FirstSent == IF DropsKey THEN 1 ELSE 0

\* zmq_poll, zmq_send or zmq_sendmsg of main fails.
EintrMain ==
  /\ \/ mpc = "poll" /\ mpc' = "kill"
     \/ mpc = "uncompress" /\ frm = FirstSent /\ mpc' = "sendmsg"
     \/ mpc = "sendmsg" /\ frm = FirstSent /\ mpc' = "dump"
  /\ UNCHANGED mainData

EintrMonitor ==
  /\ monpc = "recv"
  /\ monq = <<>>
  /\ monpc' = "check"
  /\ UNCHANGED monq

Signal ==
  /\ signals < MaxSignals
  /\ signals' = signals + 1
  /\ interrupted' = TRUE
  /\ \/ UNCHANGED <<mainVars, queueVars>>
     \/ EintrMain /\ UNCHANGED queueVars
     \/ EintrMonitor /\ UNCHANGED mainVars
  /\ UNCHANGED <<server, countVars, workerVars>>

-----------------------------------------------------------------------------
(***************************************************************************)
(* Monitor thread.                                                         *)
(***************************************************************************)
MonitorCheck ==
  /\ monpc = "check"
  /\ monpc' = IF interrupted THEN "done" ELSE "recv"
  /\ UNCHANGED <<server, mainVars, countVars, workerVars, signalVars, monq>>

\* Mutant: monitor->event is assigned, not ORed.
MonitorRecvAssigns ==
  /\ monpc = "recv"
  /\ monq # <<>>
  /\ event' = {Head(monq)}
  /\ lost' = (lost \/ Head(monq) \in event)
  /\ monq' = Tail(monq)
  /\ monpc' = "check"
  /\ UNCHANGED <<server, mainVars, workerVars, signalVars, connect>>

\* Receive an event and, under _mutex, OR its bit into monitor->event, where
\* two events of a kind become one.
MonitorRecv ==
  /\ monpc = "recv"
  /\ monq # <<>>
  /\ event' = event \cup {Head(monq)}
  /\ lost' = (lost \/ Head(monq) \in event)
  /\ monq' = Tail(monq)
  /\ monpc' = "check"
  /\ UNCHANGED <<server, mainVars, workerVars, signalVars, connect>>

-----------------------------------------------------------------------------
(***************************************************************************)
(* Main thread: taking messages.                                           *)
(***************************************************************************)
MainLoop ==
  /\ mpc = "loop"
  /\ mpc' = IF interrupted THEN "kill" ELSE "poll"
  /\ UNCHANGED <<server, mainData, countVars, queueVars, workerVars,
                 signalVars>>

SendMode == IF Uncompress THEN "uncompress" ELSE "sendmsg"

\* zmq_poll returns: a message is there, and how to relay it is decided for
\* all its frames.
MainPollIn ==
  /\ mpc = "poll"
  /\ taken < Len(Frames)
  /\ taken' = taken + 1
  /\ mode' = IF connect > 0 THEN SendMode ELSE "dump"
  /\ mpc' = "frame"
  /\ UNCHANGED <<server, frm, out, countVars, queueVars, workerVars,
                 signalVars>>

\* Mutant: zmq_poll waits without a timeout.
MainPollTimeoutNever ==
  /\ mpc = "poll"
  /\ FALSE
  /\ mpc' = "check_accepted"
  /\ UNCHANGED <<server, mainData, countVars, queueVars, workerVars,
                 signalVars>>

MainPollTimeout ==
  /\ mpc = "poll"
  /\ mpc' = "check_accepted"
  /\ UNCHANGED <<server, mainData, countVars, queueVars, workerVars,
                 signalVars>>

\* Mutant: the comparison is with the number of frames before this one.
KeepsFrameNoKeyCount == ~DropsKey \/ frm # 1

\* !dropkey || frames != 1, where frames already counts this one.
KeepsFrame == ~DropsKey \/ frm # 0

\* Mutant: the count of frames goes on with the next message.
FrameDoneNoReset(fate) ==
  LET last == frm + 1 = Frames[taken]
  IN /\ out' = Append(out, [msg |-> taken, frame |-> frm + 1, fate |-> fate])
     /\ frm' = frm + 1
     /\ mpc' = IF last THEN "check_accepted" ELSE "frame"
     /\ mode' = IF last THEN "none" ELSE mode
     /\ UNCHANGED <<server, taken, countVars, queueVars, workerVars,
                    signalVars>>

\* Main is done with a frame; the inner loop ends with the last one.
FrameDone(fate) ==
  LET last == frm + 1 = Frames[taken]
  IN /\ out' = Append(out, [msg |-> taken, frame |-> frm + 1, fate |-> fate])
     /\ frm' = IF last THEN 0 ELSE frm + 1
     /\ mpc' = IF last THEN "check_accepted" ELSE "frame"
     /\ mode' = IF last THEN "none" ELSE mode
     /\ UNCHANGED <<server, taken, countVars, queueVars, workerVars,
                    signalVars>>

\* The inner loop condition, and the receive, which does not wait.
MainFrame ==
  /\ mpc = "frame"
  /\ \/ /\ interrupted
        /\ mpc' = "check_accepted"
        /\ mode' = "none"
        /\ frm' = 0
        /\ UNCHANGED <<server, taken, out, countVars, queueVars, workerVars,
                       signalVars>>
     \/ /\ ~interrupted /\ KeepsFrame
        /\ mpc' = mode
        /\ UNCHANGED <<server, mainData, countVars, queueVars, workerVars,
                       signalVars>>
     \/ /\ ~interrupted /\ ~KeepsFrame
        /\ FrameDone("key")

\* zmq_send (uncompressed) or zmq_sendmsg; it waits for a worker to send the
\* start of a message to.
MainSend ==
  /\ mpc \in {"uncompress", "sendmsg"}
  /\ here # {} \/ frm # FirstSent
  /\ FrameDone("sent")

\* Mutant: type = ZLMB_SENDMSG is missing after the attempt.
MainUncompressFailsToDump ==
  /\ mpc = "uncompress"
  /\ mpc' = "dump"
  /\ UNCHANGED <<server, mainData, countVars, queueVars, workerVars,
                 signalVars>>

\* The frame is not compressed, or there is no memory: it is sent as it is.
MainUncompressFails ==
  /\ mpc = "uncompress"
  /\ mpc' = "sendmsg"
  /\ UNCHANGED <<server, mainData, countVars, queueVars, workerVars,
                 signalVars>>

\* zlmb_dump_write; it fails, or there is no dump file: the frame is dropped.
MainDump ==
  /\ mpc = "dump"
  /\ \E fate \in {"dumped", "dropped"} : FrameDone(fate)

-----------------------------------------------------------------------------
(***************************************************************************)
(* Main thread: _subscribe_monitor_connect.                                *)
(***************************************************************************)
MainCheckAccepted ==
  /\ mpc = "check_accepted"
  /\ mpc' = IF "accepted" \in event THEN "accept" ELSE "check_disconnected"
  /\ UNCHANGED <<server, mainData, countVars, queueVars, workerVars,
                 signalVars>>

\* Mutant: the event is not reset.
MainAcceptNoReset ==
  /\ mpc = "accept"
  /\ connect' = connect + 1
  /\ mpc' = "check_disconnected"
  /\ UNCHANGED <<server, lost, event, mainData, queueVars, workerVars,
                 signalVars>>

\* monitor->event = 0 erases every bit.
MainAccept ==
  /\ mpc = "accept"
  /\ connect' = connect + 1
  /\ lost' = (lost \/ event # {"accepted"})
  /\ event' = {}
  /\ mpc' = "check_disconnected"
  /\ UNCHANGED <<server, mainData, queueVars, workerVars, signalVars>>

MainCheckDisconnected ==
  /\ mpc = "check_disconnected"
  /\ mpc' = IF "disconnected" \in event THEN "disconnect" ELSE "loop"
  /\ UNCHANGED <<server, mainData, countVars, queueVars, workerVars,
                 signalVars>>

\* Mutant: a disconnection is not counted.
MainDisconnectNotCounted ==
  /\ mpc = "disconnect"
  /\ lost' = (lost \/ event # {"disconnected"})
  /\ event' = {}
  /\ mpc' = "loop"
  /\ UNCHANGED <<server, connect, mainData, queueVars, workerVars,
                 signalVars>>

MainDisconnect ==
  /\ mpc = "disconnect"
  /\ connect' = connect - 1
  /\ lost' = (lost \/ event # {"disconnected"})
  /\ event' = {}
  /\ mpc' = "loop"
  /\ UNCHANGED <<server, mainData, queueVars, workerVars, signalVars>>

-----------------------------------------------------------------------------
(***************************************************************************)
(* Main thread: the end.                                                   *)
(***************************************************************************)
\* pthread_kill(monitor, SIGINT).
MainKill ==
  /\ mpc = "kill"
  /\ mpc' = "join"
  /\ interrupted' = TRUE
  /\ EintrMonitor \/ UNCHANGED queueVars
  /\ UNCHANGED <<server, mainData, countVars, workerVars, signals>>

\* pthread_join(monitor), then the sockets are closed.
MainJoin ==
  /\ mpc = "join"
  /\ monpc = "done"
  /\ mpc' = "done"
  /\ UNCHANGED <<server, mainData, countVars, queueVars, workerVars,
                 signalVars>>

-----------------------------------------------------------------------------
\* Every main step but the sends, which wait for the workers.
MainStep ==
  \/ MainLoop \/ MainPollIn \/ MainPollTimeout \/ MainFrame \/ MainDump
  \/ MainCheckAccepted \/ MainAccept
  \/ MainCheckDisconnected \/ MainDisconnect
  \/ MainKill \/ MainJoin

MonitorStep == MonitorCheck \/ MonitorRecv

WorkerStep == \E w \in Workers : WorkerConnects(w) \/ WorkerDisconnects(w)

Next ==
  \/ MainStep \/ MainSend \/ MainUncompressFails
  \/ MonitorStep
  \/ WorkerStep
  \/ Signal

Spec == Init /\ [][Next]_vars

\* Threads that can run do, and a worker that is connected keeps reading.
Fairness == WF_vars(MainStep) /\ WF_vars(MainSend) /\ WF_vars(MonitorStep)

FairSpec == Spec /\ Fairness

-----------------------------------------------------------------------------
(***************************************************************************)
(* Safety.                                                                 *)
(***************************************************************************)
Sending == mpc \in {"uncompress", "sendmsg"}

CountOf(kind) ==
  Cardinality({i \in DOMAIN monq : monq[i] = kind})
    + (IF kind \in event THEN 1 ELSE 0)

\* As long as no event bit was merged or erased unseen, the counter and the
\* events still to be counted add up to the workers that are connected.
CounterExact ==
  ~lost => connect + CountOf("accepted") - CountOf("disconnected")
             = Cardinality(here)

-----------------------------------------------------------------------------
(***************************************************************************)
(* The server implements MessageRelay.                                     *)
(***************************************************************************)
\* The messages whose last frame is done with, in that order, and what became
\* of them.
Relayed == RelayedIn(out, Frames, DropsKey)

Fault == interrupted \/ \E i \in DOMAIN out : out[i].fate = "dropped"

Relay == INSTANCE MessageRelay WITH
  Limit <- Len(Frames), OneFrame <- {m \in Messages : Frames[m] = 1},
  dropkey <- DropsKey, accepted <- taken, relayed <- Relayed, fault <- Fault

\* Every behaviour of the server relays the messages whole, at most once and
\* in order, until a fault.
RelaySpec == Relay!Spec

-----------------------------------------------------------------------------
(***************************************************************************)
(* Liveness.                                                               *)
(***************************************************************************)
\* If no event bit is ever merged or erased unseen, a message that is taken is
\* eventually done with, unless the server waits to send it after a worker has
\* gone whose event is not counted yet.
EventuallyRelayed ==
  [](~lost) => ((mode # "none")
                  ~> (mode = "none"
                        \/ (Sending /\ CountOf("disconnected") > 0)))

\* A signal ends the server, but for two reasons not to: a send that waits for
\* a worker, and a monitor thread that took its signal outside the receive it
\* waits in.
EndsUnlessStuck ==
  interrupted ~> \/ mpc = "done"
                 \/ [](Sending /\ here = {})
                 \/ [](monpc = "recv")
=============================================================================
