---------------------------- MODULE ClientServer ----------------------------
(***************************************************************************)
(* zlmb-server --mode client (src/src/app_server.c).                       *)
(*                                                                         *)
(* Three kinds of thread run:                                              *)
(*   main     _server_client: zmq_proxy from the frontend PULL socket to   *)
(*            the inproc PUSH socket, then the orderly end;                *)
(*   backend  _client_backend: takes messages from inproc and sends each   *)
(*            to a publish server, or writes it to the dump file;          *)
(*   monitor  _socket_monitor_event, one per publish endpoint: turns the   *)
(*            connection events of a socket that is connected to the       *)
(*            endpoint for that purpose only into bits of monitor->event.  *)
(* A critical section of _mutex is one step; an unlocked read of           *)
(* monitor->event is a step of its own.  The state starts where the        *)
(* startup handshake ends.                                                 *)
(*                                                                         *)
(* Messages are numbered in the order the frontend accepts them; message m *)
(* has Frames[m] frames.  A step "sends" a frame when it hands it to a     *)
(* pipe of the publish socket: a full pipe, or one whose peer is slow, is  *)
(* a send that has not been taken yet.                                     *)
(***************************************************************************)
EXTENDS Integers, Sequences, FiniteSets, History

CONSTANTS
  N,           \* number of endpoints in client_backendpoints
  Frames,      \* Frames[m]: number of frames of the m-th message
  Compress,    \* built with USE_SNAPPY
  InprocHWM,   \* messages the inproc queue holds
  MaxFlaps,    \* bound: connections and disconnections of all endpoints
  MaxSignals   \* bound: SIGINT or SIGTERM from outside

ASSUME NAssumption == N \in Nat \ {0}
ASSUME FramesAssumption == Frames \in Seq(Nat \ {0})
ASSUME CompressAssumption == Compress \in BOOLEAN
ASSUME InprocAssumption == InprocHWM \in Nat \ {0}
ASSUME BoundsAssumption == MaxFlaps \in Nat /\ MaxSignals \in Nat

VARIABLES
  interrupted, \* _interrupted
  signals,     \* signals the process has received from outside
  mpc,         \* where main is
  taken,       \* number of messages the frontend has accepted
  inproc,      \* the queue between main and backend
  bpc,         \* where backend is
  gc,          \* backend is in _client_publish_gc
  idx,         \* backend's loop counter over the endpoints
  mode,        \* local "send" of the message being taken
  frm,         \* frames of Head(inproc) the backend is done with
  connect,     \* backend's count of connected endpoints
  pipes,       \* pipes of the publish socket: pairs <<endpoint, number>>
  monpc,       \* where each monitor thread is
  monq,        \* connection events a monitor has not received yet
  event,       \* monitor->event of each endpoint
  link,        \* whether the endpoint is connected
  flaps,       \* connections and disconnections so far
  lost,        \* history: an event bit was erased that nobody acted on
  out,         \* history: every frame that left the backend, and how
  discarded    \* history: the messages in inproc when the backend closed it

mainVars    == <<mpc, taken>>
backendVars == <<bpc, gc, idx, mode>>
socketVars  == <<connect, pipes, lost>>
eventVars   == <<monpc, monq, event>>
linkVars    == <<link, flaps>>
signalVars  == <<interrupted, signals>>
frameVars   == <<frm, out, discarded>>

vars == <<mainVars, backendVars, socketVars, eventVars, linkVars, signalVars,
          frameVars, inproc>>

-----------------------------------------------------------------------------
Endpoints == 1..N
Messages  == 1..Len(Frames)
Events    == {"connected", "disconnected"}
Modes     == {"compress", "sendmsg", "dump"}
Fates     == {"sent", "dumped", "dropped"}

MainPc    == {"proxy", "forward", "kill", "join", "done"}
BackendPc == {"loop", "poll", "frame", "check_connected", "connect",
              "check_disconnected", "disconnect", "stop", "join", "done"}
             \cup Modes
MonitorPc == {"check", "recv", "done"}

PipeIds == Endpoints \X (1..MaxFlaps)

PipesOf(e) == {p \in pipes : p[1] = e}

TypeOK ==
  /\ interrupted \in BOOLEAN
  /\ signals \in 0..MaxSignals
  /\ mpc \in MainPc
  /\ taken \in 0..Len(Frames)
  /\ inproc \in Seq(Messages)
  /\ bpc \in BackendPc
  /\ gc \in BOOLEAN
  /\ idx \in Endpoints
  /\ mode \in Modes \cup {"none"}
  /\ frm \in Nat
  /\ connect \in Int
  /\ pipes \subseteq PipeIds
  /\ monpc \in [Endpoints -> MonitorPc]
  /\ monq \in [Endpoints -> Seq(Events)]
  /\ event \in [Endpoints -> SUBSET Events]
  /\ link \in [Endpoints -> BOOLEAN]
  /\ flaps \in 0..MaxFlaps
  /\ lost \in BOOLEAN
  /\ out \in Seq([msg : Messages, frame : Nat, fate : Fates])
  /\ discarded \in Seq(Messages)

Init ==
  /\ interrupted = FALSE
  /\ signals = 0
  /\ mpc = "proxy"
  /\ taken = 0
  /\ inproc = <<>>
  /\ bpc = "loop"
  /\ gc = FALSE
  /\ idx = 1
  /\ mode = "none"
  /\ frm = 0
  /\ connect = 0
  /\ pipes = {}
  /\ monpc = [e \in Endpoints |-> "check"]
  /\ monq = [e \in Endpoints |-> <<>>]
  /\ event = [e \in Endpoints |-> {}]
  /\ link = [e \in Endpoints |-> FALSE]
  /\ flaps = 0
  /\ lost = FALSE
  /\ out = <<>>
  /\ discarded = <<>>

-----------------------------------------------------------------------------
(***************************************************************************)
(* Signals.  The handler of the thread that takes a signal sets            *)
(* _interrupted.  If that thread waits inside a ZeroMQ call, the call      *)
(* fails with EINTR; if it is between two calls, nothing else happens and  *)
(* its next call waits all the same.                                       *)
(***************************************************************************)
InprocRoom == Len(inproc) < InprocHWM /\ bpc # "done"

\* zmq_proxy returns; a message it holds for the full inproc queue is lost.
EintrMain ==
  /\ mpc = "proxy" \/ (mpc = "forward" /\ ~InprocRoom)
  /\ mpc' = "kill"
  /\ UNCHANGED taken

\* zmq_poll, zmq_send or zmq_sendmsg of the backend fails.  Only the first
\* frame of a message can wait: ZeroMQ has room for the rest of it then.
EintrBackend ==
  \/ /\ bpc = "poll"
     /\ inproc = <<>>
     /\ bpc' = IF gc THEN "stop" ELSE "check_connected"
     /\ gc' = TRUE
     /\ idx' = 1
     /\ UNCHANGED mode
  \/ /\ bpc = "compress" /\ frm = 0
     /\ bpc' = "sendmsg"
     /\ UNCHANGED <<gc, idx, mode>>
  \/ /\ bpc = "sendmsg" /\ frm = 0
     /\ bpc' = "dump"
     /\ UNCHANGED <<gc, idx, mode>>

EintrMonitor(e) ==
  /\ monpc[e] = "recv"
  /\ monq[e] = <<>>
  /\ monpc' = [monpc EXCEPT ![e] = "check"]
  /\ UNCHANGED <<monq, event>>

\* A signal sent to the process is taken by any one of its threads.
Signal ==
  /\ signals < MaxSignals
  /\ signals' = signals + 1
  /\ interrupted' = TRUE
  /\ \/ UNCHANGED <<mainVars, backendVars, eventVars>>
     \/ EintrMain /\ UNCHANGED <<backendVars, eventVars>>
     \/ EintrBackend /\ UNCHANGED <<mainVars, eventVars>>
     \/ /\ \E e \in Endpoints : EintrMonitor(e)
        /\ UNCHANGED <<mainVars, backendVars>>
  /\ UNCHANGED <<socketVars, linkVars, frameVars, inproc>>

-----------------------------------------------------------------------------
\* The connection to endpoint e goes up or down; the monitored socket reports.
Flap(e) ==
  /\ flaps < MaxFlaps
  /\ flaps' = flaps + 1
  /\ link' = [link EXCEPT ![e] = ~@]
  /\ monq' = [monq EXCEPT ![e] =
                Append(@, IF link[e] THEN "disconnected" ELSE "connected")]
  /\ UNCHANGED <<mainVars, backendVars, socketVars, signalVars, frameVars,
                 inproc, monpc, event>>

-----------------------------------------------------------------------------
(***************************************************************************)
(* Monitor thread of endpoint e.                                           *)
(***************************************************************************)
MonitorCheck(e) ==
  /\ monpc[e] = "check"
  /\ monpc' = [monpc EXCEPT ![e] = IF interrupted THEN "done" ELSE "recv"]
  /\ UNCHANGED <<mainVars, backendVars, socketVars, linkVars, signalVars,
                 frameVars, inproc, monq, event>>

\* Receive an event and, under _mutex, OR its bit into monitor->event.
MonitorRecv(e) ==
  /\ monpc[e] = "recv"
  /\ monq[e] # <<>>
  /\ event' = [event EXCEPT ![e] = @ \cup {Head(monq[e])}]
  /\ monq' = [monq EXCEPT ![e] = Tail(@)]
  /\ monpc' = [monpc EXCEPT ![e] = "check"]
  /\ UNCHANGED <<mainVars, backendVars, socketVars, linkVars, signalVars,
                 frameVars, inproc>>

-----------------------------------------------------------------------------
(***************************************************************************)
(* Main thread.                                                            *)
(***************************************************************************)
\* zmq_proxy receives a message from the frontend.
MainRecv ==
  /\ mpc = "proxy"
  /\ taken < Len(Frames)
  /\ taken' = taken + 1
  /\ mpc' = "forward"
  /\ UNCHANGED <<backendVars, socketVars, eventVars, linkVars, signalVars,
                 frameVars, inproc>>

\* Mutant: zmq_proxy does not wait, and a message without room is dropped.
MainForwardDontWait ==
  /\ mpc = "forward"
  /\ inproc' = IF InprocRoom THEN Append(inproc, taken) ELSE inproc
  /\ mpc' = "proxy"
  /\ UNCHANGED <<taken, backendVars, socketVars, eventVars, linkVars,
                 signalVars, frameVars>>

\* zmq_proxy sends it to inproc, waiting while there is no room.
MainForward ==
  /\ mpc = "forward"
  /\ InprocRoom
  /\ inproc' = Append(inproc, taken)
  /\ mpc' = "proxy"
  /\ UNCHANGED <<taken, backendVars, socketVars, eventVars, linkVars,
                 signalVars, frameVars>>

\* zmq_unbind and pthread_kill(backend, SIGINT).
MainKill ==
  /\ mpc = "kill"
  /\ mpc' = "join"
  /\ interrupted' = TRUE
  /\ EintrBackend \/ UNCHANGED backendVars
  /\ UNCHANGED <<taken, signals, socketVars, eventVars, linkVars, frameVars,
                 inproc>>

\* pthread_join(backend), then the sockets are closed: inproc, whose other end
\* the backend has closed, is empty.
MainJoin ==
  /\ mpc = "join"
  /\ bpc = "done"
  /\ mpc' = "done"
  /\ UNCHANGED <<taken, backendVars, socketVars, eventVars, linkVars,
                 signalVars, frameVars, inproc>>

-----------------------------------------------------------------------------
(***************************************************************************)
(* Backend thread: taking messages.  The loop of _client_backend and the   *)
(* one of _client_publish_gc do the same; gc tells them apart.             *)
(***************************************************************************)
\* The loop condition: !_interrupted, and 1 in _client_publish_gc.
BackendLoop ==
  /\ bpc = "loop"
  /\ \/ /\ gc \/ ~interrupted
        /\ bpc' = "poll"
        /\ UNCHANGED gc
     \/ /\ ~gc /\ interrupted
        /\ bpc' = "check_connected"
        /\ gc' = TRUE
  /\ UNCHANGED <<idx, mode, mainVars, socketVars, eventVars, linkVars,
                 signalVars, frameVars, inproc>>

SendMode == IF Compress /\ ~gc THEN "compress" ELSE "sendmsg"

\* Mutant: a single connection does not count.
BackendPollInOffByOne ==
  /\ bpc = "poll"
  /\ inproc # <<>>
  /\ mode' = IF connect > 1 THEN SendMode ELSE "dump"
  /\ bpc' = "frame"
  /\ UNCHANGED <<gc, idx, mainVars, socketVars, eventVars, linkVars,
                 signalVars, frameVars, inproc>>

\* zmq_poll returns: a message is there, and how to relay it is decided for
\* all its frames.
BackendPollIn ==
  /\ bpc = "poll"
  /\ inproc # <<>>
  /\ mode' = IF connect > 0 THEN SendMode ELSE "dump"
  /\ bpc' = "frame"
  /\ UNCHANGED <<gc, idx, mainVars, socketVars, eventVars, linkVars,
                 signalVars, frameVars, inproc>>

\* Mutant: the loop of gc has no break.
BackendPollTimeoutNoBreak ==
  /\ bpc = "poll"
  /\ inproc = <<>>
  /\ bpc' = "check_connected"
  /\ UNCHANGED <<gc, idx, mode, mainVars, socketVars, eventVars, linkVars,
                 signalVars, frameVars, inproc>>

\* zmq_poll times out: the end of gc.
BackendPollTimeout ==
  /\ bpc = "poll"
  /\ inproc = <<>>
  /\ bpc' = IF gc THEN "stop" ELSE "check_connected"
  /\ UNCHANGED <<gc, idx, mode, mainVars, socketVars, eventVars, linkVars,
                 signalVars, frameVars, inproc>>

\* The inner loop condition, !_interrupted in both, and the receive, which
\* does not wait.
BackendFrame ==
  /\ bpc = "frame"
  /\ bpc' = IF interrupted THEN "check_connected" ELSE mode
  /\ mode' = IF interrupted THEN "none" ELSE mode
  /\ UNCHANGED <<gc, idx, mainVars, socketVars, eventVars, linkVars,
                 signalVars, frameVars, inproc>>

\* Mutant: no inner loop, each frame is taken by an iteration of its own.
FrameDoneNoInnerLoop(fate) ==
  LET m == Head(inproc)
      last == frm + 1 = Frames[m]
  IN /\ out' = Append(out, [msg |-> m, frame |-> frm + 1, fate |-> fate])
     /\ frm' = IF last THEN 0 ELSE frm + 1
     /\ inproc' = IF last THEN Tail(inproc) ELSE inproc
     /\ bpc' = "check_connected"
     /\ mode' = "none"
     /\ UNCHANGED <<gc, idx, mainVars, socketVars, eventVars, linkVars,
                    signalVars, discarded>>

\* _sendmsg is done with a frame; the inner loop ends with the last one.
FrameDone(fate) ==
  LET m == Head(inproc)
      last == frm + 1 = Frames[m]
  IN /\ out' = Append(out, [msg |-> m, frame |-> frm + 1, fate |-> fate])
     /\ frm' = IF last THEN 0 ELSE frm + 1
     /\ inproc' = IF last THEN Tail(inproc) ELSE inproc
     /\ bpc' = IF last THEN "check_connected" ELSE "frame"
     /\ mode' = IF last THEN "none" ELSE mode
     /\ UNCHANGED <<gc, idx, mainVars, socketVars, eventVars, linkVars,
                    signalVars, discarded>>

\* zmq_send (compressed) or zmq_sendmsg; without a pipe it waits.
BackendSend ==
  /\ bpc \in {"compress", "sendmsg"}
  /\ pipes # {}
  /\ FrameDone("sent")

\* Out of memory, or Snappy fails: the frame is sent as it is.
BackendCompressFails ==
  /\ bpc = "compress"
  /\ bpc' = "sendmsg"
  /\ UNCHANGED <<gc, idx, mode, mainVars, socketVars, eventVars, linkVars,
                 signalVars, frameVars, inproc>>

\* zlmb_dump_write; it fails, or there is no dump file: the frame is dropped.
BackendDump ==
  /\ bpc = "dump"
  /\ \E fate \in {"dumped", "dropped"} : FrameDone(fate)

-----------------------------------------------------------------------------
(***************************************************************************)
(* Backend thread: _client_publish_connect.                                *)
(***************************************************************************)
\* Mutant: the loop over the endpoints runs once too often.
AfterEndpointOneMore ==
  /\ bpc' = IF idx <= N THEN "check_connected" ELSE "loop"
  /\ idx' = IF idx <= N THEN idx + 1 ELSE 1

AfterEndpoint ==
  /\ bpc' = IF idx < N THEN "check_connected" ELSE "loop"
  /\ idx' = IF idx < N THEN idx + 1 ELSE 1

BackendCheckConnected ==
  /\ bpc = "check_connected"
  /\ bpc' = IF "connected" \in event[idx] THEN "connect"
                                          ELSE "check_disconnected"
  /\ UNCHANGED <<gc, idx, mode, mainVars, socketVars, eventVars, linkVars,
                 signalVars, frameVars, inproc>>

\* Mutant: the events of all endpoints are reset.
BackendConnectResetsAll ==
  /\ bpc = "connect"
  /\ \E k \in 1..MaxFlaps :
       /\ <<idx, k>> \notin pipes
       /\ \A j \in 1..(k - 1) : <<idx, j>> \in pipes
       /\ pipes' = pipes \cup {<<idx, k>>}
  /\ connect' = connect + 1
  /\ lost' = (lost \/ event[idx] # {"connected"})
  /\ event' = [e \in Endpoints |-> {}]
  /\ bpc' = "check_disconnected"
  /\ UNCHANGED <<gc, idx, mode, mainVars, monpc, monq, linkVars, signalVars,
                 frameVars, inproc>>

\* zmq_connect gives the endpoint one more pipe; monitor->event = 0 erases
\* every bit.
BackendConnect ==
  /\ bpc = "connect"
  /\ \E k \in 1..MaxFlaps :      \* the lowest number that is free
       /\ <<idx, k>> \notin pipes
       /\ \A j \in 1..(k - 1) : <<idx, j>> \in pipes
       /\ pipes' = pipes \cup {<<idx, k>>}
  /\ connect' = connect + 1
  /\ lost' = (lost \/ event[idx] # {"connected"})
  /\ event' = [event EXCEPT ![idx] = {}]
  /\ bpc' = "check_disconnected"
  /\ UNCHANGED <<gc, idx, mode, mainVars, monpc, monq, linkVars, signalVars,
                 frameVars, inproc>>

BackendCheckDisconnected ==
  /\ bpc = "check_disconnected"
  /\ \/ /\ "disconnected" \in event[idx]
        /\ bpc' = "disconnect"
        /\ UNCHANGED idx
     \/ /\ "disconnected" \notin event[idx]
        /\ AfterEndpoint
  /\ UNCHANGED <<gc, mode, mainVars, socketVars, eventVars, linkVars,
                 signalVars, frameVars, inproc>>

\* Mutant: the result of zmq_disconnect is not checked.
BackendDisconnectUnchecked ==
  /\ bpc = "disconnect"
  /\ pipes' = pipes \ PipesOf(idx)
  /\ connect' = connect - 1
  /\ lost' = (lost \/ event[idx] # {"disconnected"})
  /\ event' = [event EXCEPT ![idx] = {}]
  /\ AfterEndpoint
  /\ UNCHANGED <<gc, mode, mainVars, monpc, monq, linkVars, signalVars,
                 frameVars, inproc>>

\* Mutant: a disconnection is not counted.
BackendDisconnectNotCounted ==
  /\ bpc = "disconnect"
  /\ pipes' = pipes \ PipesOf(idx)
  /\ lost' = (lost \/ event[idx] # {"disconnected"})
  /\ event' = [event EXCEPT ![idx] = {}]
  /\ AfterEndpoint
  /\ UNCHANGED <<connect, gc, mode, mainVars, monpc, monq, linkVars, signalVars,
                 frameVars, inproc>>

\* zmq_disconnect ends all pipes of the endpoint, and fails if there is none.
BackendDisconnect ==
  /\ bpc = "disconnect"
  /\ \/ /\ PipesOf(idx) # {}
        /\ pipes' = pipes \ PipesOf(idx)
        /\ connect' = connect - 1
        /\ lost' = (lost \/ event[idx] # {"disconnected"})
        /\ event' = [event EXCEPT ![idx] = {}]
     \/ /\ PipesOf(idx) = {}
        /\ UNCHANGED <<pipes, connect, lost, event>>
  /\ AfterEndpoint
  /\ UNCHANGED <<gc, mode, mainVars, monpc, monq, linkVars, signalVars,
                 frameVars, inproc>>

-----------------------------------------------------------------------------
(***************************************************************************)
(* Backend thread: _client_publish_monitor_stop.                           *)
(***************************************************************************)
BackendStop ==
  /\ bpc = "stop"
  /\ interrupted' = TRUE
  /\ EintrMonitor(idx) \/ UNCHANGED eventVars
  /\ bpc' = "join"
  /\ UNCHANGED <<gc, idx, mode, signals, mainVars, socketVars, linkVars,
                 frameVars, inproc>>

\* pthread_join, then the next endpoint.
BackendJoinNext ==
  /\ bpc = "join"
  /\ monpc[idx] = "done"
  /\ idx < N
  /\ bpc' = "stop"
  /\ idx' = idx + 1
  /\ UNCHANGED <<gc, mode, mainVars, socketVars, eventVars, linkVars,
                 signalVars, frameVars, inproc>>

\* pthread_join of the last monitor; then the backend closes its sockets, and
\* with inproc go the messages that main has put there since the last poll.
BackendClose ==
  /\ bpc = "join"
  /\ monpc[idx] = "done"
  /\ idx = N
  /\ bpc' = "done"
  /\ idx' = 1
  /\ inproc' = <<>>
  /\ discarded' = inproc
  /\ UNCHANGED <<gc, mode, mainVars, socketVars, eventVars, linkVars,
                 signalVars, frm, out>>

-----------------------------------------------------------------------------
MainStep == MainRecv \/ MainForward \/ MainKill \/ MainJoin

MonitorStep(e) == MonitorCheck(e) \/ MonitorRecv(e)

\* Every backend step but the sends, which wait for the publish servers.
BackendStep ==
  \/ BackendLoop \/ BackendPollIn \/ BackendPollTimeout \/ BackendFrame
  \/ BackendDump
  \/ BackendCheckConnected \/ BackendConnect
  \/ BackendCheckDisconnected \/ BackendDisconnect
  \/ BackendStop \/ BackendJoinNext \/ BackendClose

Next ==
  \/ MainStep
  \/ BackendStep \/ BackendSend \/ BackendCompressFails
  \/ \E e \in Endpoints : MonitorStep(e)
  \/ \E e \in Endpoints : Flap(e)
  \/ Signal

Spec == Init /\ [][Next]_vars

-----------------------------------------------------------------------------
(***************************************************************************)
(* Safety.                                                                 *)
(***************************************************************************)
Sending == bpc \in {"compress", "sendmsg"}

\* The counter that chooses between sending and dumping never falls below the
\* number of pipes of the publish socket, whatever events were erased: an
\* endpoint's pipes all end at one zmq_disconnect, which counts down by one.
ConnectCoversPipes == connect >= Cardinality(pipes)

\* A message is written to the dump file by choice only while the publish
\* socket has no pipe (client_dumpfile is for "can not connect").
DumpOnlyUnconnected == mode = "dump" => pipes = {}

\* As long as no event bit was erased unseen, connecting and disconnecting are
\* paired: the counter is the number of pipes, no endpoint has two, and one
\* without events still to be handled has a pipe exactly if it is connected.
CounterExact ==
  ~lost => /\ connect = Cardinality(pipes)
           /\ \A e \in Endpoints :
                /\ Cardinality(PipesOf(e)) <= 1
                /\ event[e] = {} /\ monq[e] = <<>>
                     => (PipesOf(e) # {} <=> link[e])

\* _client_publish_gc only runs once the server is interrupted, and its inner
\* loop runs only while it is not: gc takes no frame from inproc.
GcOnlyAfterInterrupt ==
  gc => interrupted /\ bpc \notin Modes

\* The inner loops receive without a timeout, and never have to wait: the
\* backend is within the oldest message of inproc, with a mode chosen for it.
InnerLoopHasFrame ==
  /\ bpc \in {"frame"} \cup Modes => inproc # <<>> /\ mode \in Modes
  /\ frm > 0 => inproc # <<>> /\ frm < Frames[Head(inproc)]

\* What becomes of the messages the frontend accepted: all of them have left
\* the backend, wait in inproc or are in main's hands, but for those that the
\* end loses.  These are the last ones: first those that main, still in
\* zmq_proxy, put into inproc after the last poll of gc, which are discarded
\* when the backend closes it, then the one zmq_proxy held when it was
\* interrupted.  Without a signal nothing is lost.
Accounted ==
  LET ended == Cardinality(Ends(out, Frames))
      hand == IF mpc = "forward" THEN 1 ELSE 0
      missing == taken - (ended + Len(discarded) + Len(inproc) + hand)
  IN /\ missing \in {0, 1}
     /\ missing = 1 => mpc \in {"kill", "join", "done"}
     /\ discarded # <<>> => bpc = "done"
     /\ \A i \in DOMAIN discarded : discarded[i] = ended + i
     /\ ~interrupted => missing = 0 /\ discarded = <<>>

-----------------------------------------------------------------------------
(***************************************************************************)
(* The client implements MessageRelay.                                     *)
(***************************************************************************)
\* The messages whose last frame is done with, in that order, and what became
\* of them.
Relayed == RelayedIn(out, Frames, FALSE)

Fault == interrupted \/ \E i \in DOMAIN out : out[i].fate = "dropped"

Relay == INSTANCE MessageRelay WITH
  Limit <- Len(Frames), OneFrame <- {}, dropkey <- FALSE,
  accepted <- taken, relayed <- Relayed, fault <- Fault

\* Every behaviour of the client relays the messages whole, at most once and in
\* order, until a fault.
RelaySpec == Relay!Spec

-----------------------------------------------------------------------------
(***************************************************************************)
(* Liveness.  Threads that can run do; the backend's send goes through if  *)
(* a publish server it is connected to keeps reading.  Nothing obliges     *)
(* messages, connections or signals to come.                               *)
(***************************************************************************)
Reachable == \E p \in pipes : link[p[1]]

Fairness ==
  /\ WF_vars(MainForward \/ MainKill \/ MainJoin)
  /\ WF_vars(BackendStep)
  /\ WF_vars(BackendSend /\ Reachable)
  /\ \A e \in Endpoints : WF_vars(MonitorStep(e))

FairSpec == Spec /\ Fairness

\* If no event bit is ever erased unseen, a message in inproc is eventually
\* sent or dumped, unless the server is interrupted or the backend waits for
\* servers that have all gone.
EventuallyRelayed ==
  [](~lost) =>
    \A m \in Messages :
      (\E i \in DOMAIN inproc : inproc[i] = m)
        ~> \/ \A i \in DOMAIN inproc : inproc[i] # m
           \/ interrupted
           \/ Sending /\ pipes # {} /\ ~Reachable

\* A signal ends the server, but for four reasons not to: the signal was not
\* taken by main while it waited in zmq_proxy, which does not look at
\* _interrupted; messages that gc leaves in inproc; a send that waits for a
\* server that has gone; and a monitor thread that took its signal outside the
\* receive it waits in.
EndsUnlessStuck ==
  interrupted ~>
    \/ mpc = "done"
    \/ [](mpc \in {"proxy", "forward"})
    \/ [](gc /\ inproc # <<>>)
    \/ [](Sending /\ ~Reachable)
    \/ \E e \in Endpoints : [](monpc[e] = "recv")

-----------------------------------------------------------------------------
(***************************************************************************)
(* A statement of the code that the client does not keep.                  *)
(***************************************************************************)
\* The loop of _client_publish_gc, meant to take the messages left in inproc
\* ("receive message(GC)") and to end when there is none, ends.
GcEnds == (gc /\ bpc = "poll") ~> (bpc = "stop")
=============================================================================
