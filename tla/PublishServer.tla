---------------------------- MODULE PublishServer ----------------------------
(***************************************************************************)
(* zlmb-server --mode publish and client-publish (src/src/app_server.c),   *)
(* and the subscribe servers connected to it as far as the key goes: what  *)
(* they subscribe to, and what they do to a message before a worker gets   *)
(* it.                                                                     *)
(*                                                                         *)
(* One thread takes messages from the PULL socket and hands their frames   *)
(* to the PUB socket, after the publish key if there is one to send.  A    *)
(* PUB socket never waits: at the first frame of a message it drops it for *)
(* the subscribers that have no room, and a subscriber gets whole messages *)
(* only.                                                                   *)
(*                                                                         *)
(* A key, or the content of a message's first frame, is a word, a sequence *)
(* of letters.  Snappy puts the length of a word before its letters.       *)
(***************************************************************************)
EXTENDS Naturals, Sequences

LOCAL INSTANCE SequencesExt

CONSTANTS
  Frames,      \* Frames[m]: number of frames of the m-th message
  First,       \* First[m]: content of its first frame, a word
  Keys,        \* the words that publish_key and subscribe_key may have
  Subscribers, \* the subscribe servers
  HWM,         \* messages the PUB socket holds for a subscriber
  MaxSignals   \* bound: SIGINT or SIGTERM from outside

ASSUME FramesAssumption ==
  Frames \in Seq(Nat \ {0}) /\ First \in [DOMAIN Frames -> Seq(Nat)]
ASSUME KeysAssumption == Keys \subseteq Seq(Nat) /\ <<>> \in Keys
ASSUME BoundsAssumption == HWM \in Nat \ {0} /\ MaxSignals \in Nat

VARIABLES
  snappy,      \* the servers are built with USE_SNAPPY
  direct,      \* client-publish: messages come from applications
  key,         \* publish_key ("" if it is not given)
  sendkey,     \* publish_sendkey
  subkey,      \* subscribe_key of each subscriber ("" if it is not given)
  dropkey,     \* subscribe_dropkey of each subscriber
  interrupted, \* _interrupted
  signals,     \* signals the process has received from outside
  mpc,         \* where the thread is
  taken,       \* number of messages it has started to take
  frm,         \* frames of message taken that are done with
  first,       \* local "first": the key is still to be sent
  wire,        \* the frames of the message the PUB socket is within
  ready,       \* the subscribers that were there, with room, at its first
  joined,      \* the subscribers whose subscription has arrived
  queue,       \* messages the PUB socket holds for each subscriber
  pub,         \* history: the messages that were published
  got          \* history: the messages a subscriber's workers get

optionVars == <<snappy, direct, key, sendkey, subkey, dropkey>>
signalVars == <<interrupted, signals>>
mainVars   == <<mpc, taken, frm, first, wire, ready, pub>>

vars == <<optionVars, signalVars, mainVars, joined, queue, got>>

-----------------------------------------------------------------------------
Messages == 1..Len(Frames)

\* Frame n of its message as the application sent it, or the key, n = 0;
\* with the number of times it went through snappy_compress.
Parts == [n : Nat, word : Seq(Nat), packed : 0..1]

Part(n, w, p) == [n |-> n, word |-> w, packed |-> p]

WordOf(m, n) == IF n = 1 THEN First[m] ELSE <<>>

\* What is on the wire: the length and the letters, or only these.
Bytes(p) == IF p.packed > 0 THEN <<Len(p.word)>> \o p.word ELSE p.word

TypeOK ==
  /\ snappy \in BOOLEAN /\ direct \in BOOLEAN
  /\ key \in Keys /\ sendkey \in BOOLEAN
  /\ subkey \in [Subscribers -> Keys] /\ dropkey \in [Subscribers -> BOOLEAN]
  /\ interrupted \in BOOLEAN /\ signals \in 0..MaxSignals
  /\ mpc \in {"loop", "poll", "frame", "done"}
  /\ taken \in 0..Len(Frames)
  /\ frm = 0 \/ (taken > 0 /\ frm \in 1..(Frames[taken] - 1))
  /\ first \in BOOLEAN
  /\ wire \in Seq(Parts)
  /\ ready \subseteq joined /\ joined \subseteq Subscribers
  /\ queue \in [Subscribers -> Seq(Messages \X Seq(Parts))]
  /\ \A s \in Subscribers : Len(queue[s]) <= HWM
  /\ pub \in Seq([msg : Messages, parts : Seq(Parts), ready : SUBSET joined])
  /\ got \in [Subscribers -> Seq(Messages \X Seq(Parts))]

Init ==
  /\ snappy \in BOOLEAN
  /\ direct \in BOOLEAN
  /\ key \in Keys
  /\ sendkey \in BOOLEAN
  /\ subkey \in [Subscribers -> Keys]
  /\ dropkey \in [Subscribers -> BOOLEAN]
  /\ interrupted = FALSE
  /\ signals = 0
  /\ mpc = "loop"
  /\ taken = 0
  /\ frm = 0
  /\ first = FALSE
  /\ wire = <<>>
  /\ ready = {}
  /\ joined = {}
  /\ queue = [s \in Subscribers |-> <<>>]
  /\ pub = <<>>
  /\ got = [s \in Subscribers |-> <<>>]

-----------------------------------------------------------------------------
(***************************************************************************)
(* The subscription.                                                       *)
(***************************************************************************)
\* The key frame: compressed also if it is empty.
KeyPart == Part(0, key, IF snappy THEN 1 ELSE 0)

\* Mutant: key_len > 0 is not asked for.
SubscriptionAlways(s) == Bytes(Part(0, subkey[s], IF snappy THEN 1 ELSE 0))

\* What ZMQ_SUBSCRIBE is called with: an empty key is not compressed.
Subscription(s) ==
  Bytes(Part(0, subkey[s], IF snappy /\ subkey[s] # <<>> THEN 1 ELSE 0))

\* The PUB socket compares it with the start of the message's first frame.
Matches(s, parts) == IsPrefix(Subscription(s), Bytes(parts[1]))

-----------------------------------------------------------------------------
(***************************************************************************)
(* The server.                                                             *)
(***************************************************************************)
\* SIGINT or SIGTERM: zmq_poll fails if it waits; between the look at
\* _interrupted and zmq_poll it does not.
Signal ==
  /\ signals < MaxSignals
  /\ signals' = signals + 1
  /\ interrupted' = TRUE
  /\ mpc' \in {mpc} \cup {pc \in {"done"} : mpc = "poll"}
  /\ UNCHANGED <<optionVars, taken, frm, first, wire, ready, pub, joined,
                 queue, got>>

MainLoop ==
  /\ mpc = "loop"
  /\ mpc' = IF interrupted THEN "done" ELSE "poll"
  /\ UNCHANGED <<optionVars, signalVars, taken, frm, first, wire, ready, pub,
                 joined, queue, got>>

\* Mutant: first is not reset for each message.
MainPollInFirstOnce ==
  /\ mpc = "poll"
  /\ taken < Len(Frames)
  /\ taken' = taken + 1
  /\ first' = (taken = 0)
  /\ mpc' = "frame"
  /\ UNCHANGED <<optionVars, signalVars, frm, wire, ready, pub, joined, queue,
                 got>>

\* zmq_poll, which has no timeout, returns: a message is there.
MainPollIn ==
  /\ mpc = "poll"
  /\ taken < Len(Frames)
  /\ taken' = taken + 1
  /\ first' = TRUE
  /\ mpc' = "frame"
  /\ UNCHANGED <<optionVars, signalVars, frm, wire, ready, pub, joined, queue,
                 got>>

\* Mutant: a message that has come is taken before the loop ends.
MainInterruptedDrops ==
  /\ mpc = "frame"
  /\ interrupted
  /\ mpc' = "poll"
  /\ frm' = 0
  /\ UNCHANGED <<optionVars, signalVars, taken, first, wire, ready, pub, joined,
                 queue, got>>

\* The inner loop ends; the frames that are on the wire go with the socket.
MainInterrupted ==
  /\ mpc = "frame"
  /\ interrupted
  /\ mpc' = "loop"
  /\ frm' = 0
  /\ UNCHANGED <<optionVars, signalVars, taken, first, wire, ready, pub, joined,
                 queue, got>>

\* A frame comes from an application, or from a client server that has
\* compressed it if it could.
Received == IF snappy /\ ~direct THEN {0, 1} ELSE {0}

\* Mutant: the publish server compresses, too.
SentAsBoth(p) == IF snappy THEN {p, p + 1} ELSE {p}

\* _sendmsg of client-publish compresses it, or sends it as it is if that
\* fails; zmq_sendmsg of publish sends it as it is.
SentAs(p) == IF snappy /\ direct THEN {p, p + 1} ELSE {p}

\* A frame is received, and sent after the key if it is the first one.  With
\* the last one, the message is there for those that were ready for it.
MainFrame ==
  LET last == frm + 1 = Frames[taken]
      sent == {wire \o (IF sendkey /\ first THEN <<KeyPart>> ELSE <<>>)
                    \o <<Part(frm + 1, WordOf(taken, frm + 1), p)>> :
                 p \in UNION {SentAs(q) : q \in Received}}
      room == IF wire = <<>> THEN {s \in joined : Len(queue[s]) < HWM}
                             ELSE ready
  IN /\ mpc = "frame"
     /\ ~interrupted
     /\ first' = (first /\ ~sendkey)
     /\ \E parts \in sent :
          \/ /\ ~last
             /\ frm' = frm + 1
             /\ wire' = parts
             /\ ready' = room
             /\ UNCHANGED <<mpc, pub, queue>>
          \/ /\ last
             /\ frm' = 0
             /\ wire' = <<>>
             /\ ready' = {}
             /\ mpc' = "loop"
             /\ pub' = Append(pub, [msg |-> taken, parts |-> parts,
                                    ready |-> room])
             /\ queue' = [s \in Subscribers |->
                            IF s \in room /\ Matches(s, parts)
                            THEN Append(queue[s], <<taken, parts>>)
                            ELSE queue[s]]
     /\ UNCHANGED <<optionVars, signalVars, taken, joined, got>>

-----------------------------------------------------------------------------
(***************************************************************************)
(* The subscribe servers.                                                  *)
(***************************************************************************)
\* The connection is made and the subscription arrives, at any time.
Join(s) ==
  /\ s \notin joined
  /\ joined' = joined \cup {s}
  /\ UNCHANGED <<optionVars, signalVars, mainVars, queue, got>>

\* snappy_uncompress; what is not compressed stays as it is.
Unpack(p) ==
  Part(p.n, p.word, IF snappy /\ p.packed > 0 THEN p.packed - 1 ELSE p.packed)

\* A message is received; with dropkey its first frame is left out, the others
\* are uncompressed.
Take(s) ==
  LET m      == Head(queue[s])
      parts  == IF dropkey[s] THEN Tail(m[2]) ELSE m[2]
      taking == <<m[1], [i \in DOMAIN parts |-> Unpack(parts[i])]>>
  IN /\ queue[s] # <<>>
     /\ queue' = [queue EXCEPT ![s] = Tail(@)]
     /\ got' = [got EXCEPT ![s] = Append(@, taking)]
     /\ UNCHANGED <<optionVars, signalVars, mainVars, joined>>

-----------------------------------------------------------------------------
MainStep == MainLoop \/ MainInterrupted \/ MainFrame

Next ==
  \/ MainStep \/ MainPollIn
  \/ Signal
  \/ \E s \in Subscribers : Join(s) \/ Take(s)

Spec == Init /\ [][Next]_vars

\* The thread runs while it can; nothing obliges messages, subscribers or
\* signals to come.
FairSpec == Spec /\ WF_vars(MainStep)

-----------------------------------------------------------------------------
(***************************************************************************)
(* The server implements MessageRelay, without a fault: a message that a   *)
(* signal cuts off is never published.                                     *)
(***************************************************************************)
WholeParts(m) == [i \in 1..Frames[m] |-> i]

Fate(p) ==
  LET numbers == [j \in DOMAIN p.parts |-> p.parts[j].n]
      whole   == (IF sendkey THEN <<0>> ELSE <<>>) \o WholeParts(p.msg)
  IN IF numbers = whole THEN "sent" ELSE "damaged"

Relayed ==
  [i \in DOMAIN pub |-> [msg |-> pub[i].msg, fate |-> Fate(pub[i])]]

Relay == INSTANCE MessageRelay WITH
  Limit <- Len(Frames), OneFrame <- {}, dropkey <- FALSE,
  accepted <- taken, relayed <- Relayed, fault <- FALSE

\* Every behaviour of the server publishes the messages whole, after the key
\* if it is to send it, at most once and in order, whenever signals come.
RelaySpec == Relay!Spec

-----------------------------------------------------------------------------
(***************************************************************************)
(* What reaches the workers.                                               *)
(***************************************************************************)
Delivered(s, m) ==
  LET all == got[s] \o queue[s]
  IN \E i \in DOMAIN all : all[i][1] = m

\* A subscriber that was ready for a message gets it if it asked for all
\* messages or for the key they carry; and where messages carry a key, only
\* if what it asked for is the key or its beginning.  Both sides compress
\* their key, an empty one on one side only.
SubscriptionsMatch ==
  \A i \in DOMAIN pub : \A s \in pub[i].ready :
    /\ (subkey[s] = <<>> \/ (sendkey /\ subkey[s] = key))
         => Delivered(s, pub[i].msg)
    /\ (sendkey /\ Delivered(s, pub[i].msg)) => IsPrefix(subkey[s], key)

\* Where publish_sendkey and subscribe_dropkey agree, the workers get what the
\* application sent, frame by frame and uncompressed, each message at most
\* once and in order.
WorkersGetOriginals ==
  \A s \in Subscribers : dropkey[s] = sendkey =>
    \A i \in DOMAIN got[s] :
      /\ LET m == got[s][i][1]
         IN got[s][i][2] = [n \in 1..Frames[m] |-> Part(n, WordOf(m, n), 0)]
      /\ i > 1 => got[s][i][1] > got[s][i - 1][1]

\* A signal ends the server, but for one that comes between the look at
\* _interrupted and zmq_poll: that one ends it with the next message, which
\* is then lost.
EndsWithNextMessage == (interrupted /\ mpc # "poll") ~> (mpc = "done")
=============================================================================
