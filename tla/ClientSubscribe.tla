--------------------------- MODULE ClientSubscribe ---------------------------
(***************************************************************************)
(* zlmb-server --mode client-subscribe (src/src/app_server.c): the client  *)
(* and the subscribe server in one process.  The client's backend thread   *)
(* and its monitors are those of ClientServer; the main thread takes the   *)
(* place of zmq_proxy and of the main thread of SubscribeServer.  It polls *)
(* both frontends with one zmq_poll and serves one after the other, so     *)
(* that a wait in one half is a wait of both.                              *)
(*                                                                         *)
(* Main is in the client half while cpc is "forward", ends it where cpc is *)
(* "kill" or "join", and is where spc says else.                           *)
(*                                                                         *)
(* The server is built without USE_SNAPPY and both dump files can be       *)
(* written: what comes of these is in the modules of the halves.           *)
(***************************************************************************)
EXTENDS Integers, Sequences, FiniteSets

CONSTANTS
  N, ClientFrames, InprocHWM,          \* of ClientServer
  Workers, SubscribeFrames, DropKey,    \* of SubscribeServer
  MaxFlaps,    \* bound: of endpoints and workers together
  MaxSignals

VARIABLES
  interrupted, signals,
  revents,     \* the frontends zmq_poll reported that are still to be served
  cpc,         \* mpc of the client
  ctaken, inproc, bpc, gc, idx, cmode, cfrm, cconnect, pipes, cmonpc, cmonq,
  cevent, link, cflaps, clost, cout, discarded,
  spc,         \* mpc of the subscribe server
  staken, smode, sfrm, sconnect, smonpc, smonq, sevent, here, sflaps, slost,
  sout

C == INSTANCE ClientServer WITH
  Compress <- FALSE,
  Frames <- ClientFrames, mpc <- cpc, taken <- ctaken,
  mode <- cmode, frm <- cfrm, connect <- cconnect,
  monpc <- cmonpc, monq <- cmonq, event <- cevent, flaps <- cflaps,
  lost <- clost, out <- cout

S == INSTANCE SubscribeServer WITH
  Frames <- SubscribeFrames, Snappy <- FALSE,
  Servers <- {"subscribe"}, server <- "subscribe",
  mpc <- spc, taken <- staken, mode <- smode, frm <- sfrm,
  connect <- sconnect, monpc <- smonpc, monq <- smonq, event <- sevent,
  flaps <- sflaps, lost <- slost, out <- sout

signalVars    == <<interrupted, signals>>
mainVars      == <<revents, cpc, ctaken, spc>>
backendVars   == <<bpc, gc, idx, cmode>>
socketVars    == <<cconnect, pipes, clost>>
eventVars     == <<cmonpc, cmonq, cevent>>
linkVars      == <<link, cflaps>>
frameVars     == <<cfrm, cout, discarded>>
clientVars    == <<inproc, backendVars, socketVars, eventVars, linkVars,
                   frameVars>>
messageVars   == <<staken, smode, sfrm, sout>>
countVars     == <<sconnect, slost, sevent>>
queueVars     == <<smonpc, smonq>>
workerVars    == <<here, sflaps>>
subscribeVars == <<messageVars, countVars, queueVars, workerVars>>

vars == <<signalVars, mainVars, clientVars, subscribeVars>>

\* Both dump files can be written.
NoneDropped(o) == \A i \in DOMAIN o : o[i].fate # "dropped"

Init ==
  /\ C!Init
  /\ S!Init
  /\ revents = {}

-----------------------------------------------------------------------------
(***************************************************************************)
(* Main thread: the loop and its zmq_poll.                                 *)
(***************************************************************************)
AtPoll == spc = "poll" /\ cpc = "proxy" /\ revents = {}

\* The subscribe loop ends: the client is ended first.
ClientEnds == cpc' = IF spc' = "kill" THEN "kill" ELSE cpc

MainLoop ==
  /\ S!MainLoop
  /\ ClientEnds
  /\ UNCHANGED <<revents, ctaken, clientVars>>

\* Mutant: zmq_poll waits without a timeout.
MainPollNoTimeout ==
  /\ AtPoll
  /\ revents' \in (SUBSET {"client", "subscribe"}) \ {{}}
  /\ "client" \in revents' => ctaken < Len(ClientFrames)
  /\ "subscribe" \in revents' => staken < Len(SubscribeFrames)
  /\ UNCHANGED <<cpc, ctaken, spc, signalVars, clientVars, subscribeVars>>

\* zmq_poll returns: messages are there, or it has timed out.
MainPoll ==
  /\ AtPoll
  /\ revents' \in SUBSET {"client", "subscribe"}
  /\ "client" \in revents' => ctaken < Len(ClientFrames)
  /\ "subscribe" \in revents' => staken < Len(SubscribeFrames)
  /\ spc' = IF revents' = {} THEN "check_accepted" ELSE spc
  /\ UNCHANGED <<cpc, ctaken, signalVars, clientVars,
                 subscribeVars>>

-----------------------------------------------------------------------------
(***************************************************************************)
(* Main thread: the client half.                                           *)
(***************************************************************************)
\* The inner loop is left; the subscribe half is next, if it is to be served.
Leave ==
  /\ cpc' = "proxy"
  /\ revents' = revents \ {"client"}
  /\ spc' = IF revents' = {} THEN "check_accepted" ELSE spc

\* The inner loop condition, and the receive of the first frame.
ClientRecv ==
  /\ spc = "poll" /\ cpc = "proxy" /\ "client" \in revents
  /\ \/ /\ interrupted
        /\ Leave
        /\ UNCHANGED ctaken
     \/ /\ ~interrupted
        /\ ctaken' = ctaken + 1
        /\ cpc' = "forward"
        /\ UNCHANGED <<revents, spc>>
  /\ UNCHANGED <<signalVars, clientVars, subscribeVars>>

\* Mutant: zmq_sendmsg gets no ZMQ_SNDMORE, each frame becomes a message.
ClientForwardNoMore ==
  /\ cpc = "forward"
  /\ C!InprocRoom
  /\ inproc' = inproc \o [i \in 1..ClientFrames[ctaken] |-> ctaken]
  /\ Leave
  /\ UNCHANGED <<ctaken, signalVars, backendVars, socketVars, eventVars,
                 linkVars, frameVars, subscribeVars>>

\* zmq_sendmsg to inproc, frame by frame.  Only the first frame waits for room.
\* The inner loop condition comes before each of the others: after an interrupt
\* the message stays without its end, and the backend never sees it.
ClientForward ==
  /\ cpc = "forward"
  /\ C!InprocRoom
  /\ inproc' = IF interrupted /\ ClientFrames[ctaken] > 1 THEN inproc
               ELSE Append(inproc, ctaken)
  /\ Leave
  /\ UNCHANGED <<ctaken, signalVars, backendVars, socketVars, eventVars,
                 linkVars, frameVars, subscribeVars>>

-----------------------------------------------------------------------------
(***************************************************************************)
(* Main thread: the subscribe half, and _subscribe_monitor_connect.        *)
(***************************************************************************)
SubscribeIn ==
  /\ cpc = "proxy" /\ revents = {"subscribe"}
  /\ S!MainPollIn
  /\ revents' = {}
  /\ UNCHANGED <<cpc, ctaken, clientVars>>

SubscribeHalf ==
  /\ \/ S!MainFrame \/ S!MainDump
     \/ S!MainCheckAccepted \/ S!MainAccept
     \/ S!MainCheckDisconnected \/ S!MainDisconnect
  /\ NoneDropped(sout')
  /\ UNCHANGED <<revents, cpc, ctaken, clientVars>>

SubscribeSend ==
  /\ S!MainSend
  /\ UNCHANGED <<revents, cpc, ctaken, clientVars>>

-----------------------------------------------------------------------------
(***************************************************************************)
(* Main thread: the end, of the client and then of the subscribe server.   *)
(***************************************************************************)
EndClient ==
  /\ C!MainKill \/ C!MainJoin
  /\ UNCHANGED <<revents, spc, subscribeVars>>

EndSubscribe ==
  /\ cpc = "done"
  /\ S!MainKill \/ S!MainJoin
  /\ UNCHANGED <<revents, cpc, ctaken, clientVars>>

-----------------------------------------------------------------------------
(***************************************************************************)
(* The other threads, connections and signals.                             *)
(***************************************************************************)
BackendStep ==
  /\ C!BackendStep
  /\ NoneDropped(cout')
  /\ UNCHANGED <<revents, spc, subscribeVars>>

BackendSend ==
  C!BackendSend /\ UNCHANGED <<revents, spc, subscribeVars>>

ClientMonitor(e) ==
  C!MonitorStep(e) /\ UNCHANGED <<revents, spc, subscribeVars>>

SubscribeMonitor ==
  S!MonitorStep /\ UNCHANGED <<revents, cpc, ctaken, clientVars>>

LinkFlaps(e) ==
  /\ cflaps + sflaps < MaxFlaps
  /\ C!Flap(e)
  /\ UNCHANGED <<revents, spc, subscribeVars>>

WorkerFlaps ==
  /\ cflaps + sflaps < MaxFlaps
  /\ S!WorkerStep
  /\ UNCHANGED <<revents, cpc, ctaken, clientVars>>

\* A call of main's fails; in the client half the message is lost with it.
EintrMain ==
  \/ /\ AtPoll
     /\ spc' = "kill"
     /\ ClientEnds
     /\ UNCHANGED <<revents, messageVars>>
  \/ /\ cpc = "forward" /\ ~C!InprocRoom
     /\ Leave
     /\ UNCHANGED messageVars
  \/ /\ spc # "poll"
     /\ S!EintrMain
     /\ UNCHANGED <<revents, cpc>>

\* A signal sent to the process is taken by any one of its threads.
Signal ==
  /\ signals < MaxSignals
  /\ signals' = signals + 1
  /\ interrupted' = TRUE
  /\ ctaken' = ctaken
  /\ \/ EintrMain
        /\ UNCHANGED <<backendVars, eventVars, queueVars>>
     \/ /\ UNCHANGED <<revents, cpc, spc, messageVars>>
        /\ \/ UNCHANGED <<backendVars, eventVars, queueVars>>
           \/ C!EintrBackend /\ UNCHANGED <<eventVars, queueVars>>
           \/ /\ \E e \in C!Endpoints : C!EintrMonitor(e)
              /\ UNCHANGED <<backendVars, queueVars>>
           \/ S!EintrMonitor /\ UNCHANGED <<backendVars, eventVars>>
  /\ UNCHANGED <<inproc, socketVars, linkVars, frameVars, countVars,
                 workerVars>>

-----------------------------------------------------------------------------
\* Every main step but the sends to workers, which wait for them.
MainStep ==
  \/ MainLoop \/ MainPoll
  \/ ClientRecv \/ ClientForward
  \/ SubscribeIn \/ SubscribeHalf
  \/ EndClient \/ EndSubscribe

Next ==
  \/ MainStep \/ SubscribeSend
  \/ BackendStep \/ BackendSend
  \/ SubscribeMonitor \/ WorkerFlaps
  \/ \E e \in C!Endpoints : ClientMonitor(e) \/ LinkFlaps(e)
  \/ Signal

Spec == Init /\ [][Next]_vars

\* Main and the backend run if they can, and send if somebody is there to send
\* to.
Fairness ==
  /\ WF_vars(MainStep \/ SubscribeSend)
  /\ WF_vars(BackendStep \/ (C!Reachable /\ BackendSend))

FairSpec == Spec /\ Fairness

-----------------------------------------------------------------------------
\* Each half of the server relays its messages whole, at most once and in
\* order, until a fault.
RelaySpec == C!RelaySpec /\ S!RelaySpec

\* The backend waits for a publish server that has gone.
BackendWaits == C!Sending /\ ~C!Reachable

\* Before an interrupt main stops only to send to a worker when there is none,
\* or to hand a message to the backend while that waits.  After it the server
\* can also be kept from its end by a backend that waits, spins in gc, or has
\* ended with a message still to be handed to it, and by a monitor thread it
\* waits for.
Stuck ==
  \/ S!Sending /\ here = {}
  \/ cpc = "forward" /\ BackendWaits
  \/ /\ interrupted
     /\ \/ BackendWaits
        \/ gc /\ inproc # <<>>
        \/ cpc = "forward" /\ bpc = "done"
        \/ bpc = "join" /\ cmonpc[idx] # "done"
        \/ spc = "join" /\ smonpc # "done"

\* Main comes back to the poll of both frontends for ever, or the server ends
\* if it is interrupted, unless it is stuck: a server that is gone on one side
\* stops the other side, too.
LoopTurns ==
  []<>((AtPoll /\ ~interrupted) \/ spc = "done") \/ <>[]Stuck
=============================================================================
