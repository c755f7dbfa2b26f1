------------------------ MODULE PublishServerProofs ------------------------
(***************************************************************************)
(* The publish server for any messages, keys, subscribers and signals.     *)
(***************************************************************************)
EXTENDS PublishServer, SequenceTheorems, TLAPS

LOCAL INSTANCE SequencesExt

\* A sequence with one element more.
LEMMA AppendFacts ==
  ASSUME NEW S, NEW q \in Seq(S), NEW x \in S, NEW r, r = Append(q, x)
  PROVE  /\ r \in Seq(S) /\ Len(q) \in Nat
         /\ DOMAIN q = 1..Len(q) /\ DOMAIN r = 1..(Len(q) + 1)
         /\ r[Len(q) + 1] = x
         /\ \A j \in DOMAIN q : r[j] = q[j]
  OBVIOUS

\* One sequence after another.
LEMMA ConcatFacts ==
  ASSUME NEW S, NEW a \in Seq(S), NEW b \in Seq(S), NEW r, r = a \o b
  PROVE  /\ r \in Seq(S) /\ Len(r) = Len(a) + Len(b)
         /\ \A i \in 1..Len(a) : r[i] = a[i]
         /\ \A i \in 1..Len(b) : r[Len(a) + i] = b[i]
  OBVIOUS

\* A sequence without its first element.
LEMMA TailFacts ==
  ASSUME NEW S, NEW q \in Seq(S), q # <<>>
  PROVE  /\ Tail(q) \in Seq(S) /\ Len(q) \in Nat
         /\ Len(Tail(q)) = Len(q) - 1
         /\ \A i \in DOMAIN Tail(q) :
              i + 1 \in DOMAIN q /\ Tail(q)[i] = q[i + 1]
<1>1. /\ Tail(q) \in Seq(S) /\ Len(q) \in Nat /\ Len(Tail(q)) = Len(q) - 1
  OBVIOUS
<1>2. ASSUME NEW i \in DOMAIN Tail(q)
      PROVE  i + 1 \in DOMAIN q /\ Tail(q)[i] = q[i + 1]
  <2>1. i \in 1..(Len(q) - 1)
    BY <1>1
  <2> QED
    BY <1>1, <2>1
<1> QED
  BY <1>1, <1>2

USE FramesAssumption, KeysAssumption, BoundsAssumption

\* How many frames the key takes.
KeyFrames == IF sendkey THEN 1 ELSE 0

\* The first n frames of message m after k of the key, compressed only by a
\* server that can.
Carries(k, packs, parts, m, n) ==
  /\ parts \in Seq(Parts)
  /\ Len(parts) = k + n
  /\ \A j \in 1..Len(parts) :
       /\ parts[j].n = j - k
       /\ j > k => parts[j].word = WordOf(m, j - k)
       /\ ~packs => parts[j].packed = 0

\* A message is in hand exactly while the thread is in its inner loop.
InHand ==
  /\ mpc = "frame" => taken \in Messages /\ frm < Frames[taken]
  /\ mpc # "frame" => frm = 0

\* Until a signal comes, every message taken before this one is published,
\* and what is on the wire is the beginning of this one.
WireInv ==
  ~interrupted =>
    /\ taken = Len(pub) + (IF mpc = "frame" THEN 1 ELSE 0)
    /\ frm = 0 => wire = <<>> /\ (mpc = "frame" => first)
    /\ frm > 0 => /\ Carries(KeyFrames, snappy, wire, taken, frm)
                  /\ first = ~sendkey

\* The subscribers that get the message on the wire keep their room for it.
RoomInv == \A s \in ready : Len(queue[s]) < HWM

\* A subscriber has whole messages in its queue only.
QueueInv ==
  \A s \in Subscribers : \A i \in DOMAIN queue[s] :
    /\ queue[s][i][1] \in Messages
    /\ Carries(KeyFrames, snappy, queue[s][i][2], queue[s][i][1],
               Frames[queue[s][i][1]])

PublishInv == TypeOK /\ InHand /\ WireInv /\ RoomInv /\ QueueInv

\* Every message has a frame or more, and a first word.
LEMMA FramesType ==
  /\ Len(Frames) \in Nat
  /\ \A m \in Messages : Frames[m] \in Nat \ {0} /\ First[m] \in Seq(Nat)
  BY DEF Messages

\* The word of a frame.
LEMMA WordType ==
  ASSUME NEW m \in Messages, NEW n \in Nat
  PROVE  WordOf(m, n) \in Seq(Nat)
  BY FramesType DEF WordOf

\* The invariant holds at the start.
LEMMA PublishInit == Init => PublishInv
<1> SUFFICES ASSUME Init PROVE PublishInv
  OBVIOUS
<1>1. TypeOK
  <2>1. <<>> \in Seq(Messages \X Seq(Parts))
    OBVIOUS
  <2>2. queue \in [Subscribers -> Seq(Messages \X Seq(Parts))]
        /\ got \in [Subscribers -> Seq(Messages \X Seq(Parts))]
    BY <2>1 DEF Init
  <2>3. \A s \in Subscribers : Len(queue[s]) <= HWM
    BY DEF Init
  <2>4. wire \in Seq(Parts)
        /\ pub \in Seq([msg : Messages, parts : Seq(Parts),
                        ready : SUBSET joined])
    BY DEF Init
  <2>5. /\ taken \in 0..Len(Frames) /\ signals \in 0..MaxSignals
        /\ mpc \in {"loop", "poll", "frame", "done"} /\ frm = 0
    BY FramesType DEF Init
  <2>7. /\ interrupted \in BOOLEAN /\ first \in BOOLEAN
        /\ ready \subseteq joined /\ joined \subseteq Subscribers
    BY DEF Init
  <2>6. /\ snappy \in BOOLEAN /\ direct \in BOOLEAN
        /\ key \in Keys /\ sendkey \in BOOLEAN
        /\ subkey \in [Subscribers -> Keys]
        /\ dropkey \in [Subscribers -> BOOLEAN]
    BY DEF Init
  <2> QED
    BY <2>2, <2>3, <2>4, <2>5, <2>6, <2>7 DEF TypeOK
<1>2. InHand /\ WireInv /\ RoomInv /\ QueueInv
  BY DEF Init, InHand, WireInv, RoomInv, QueueInv
<1> QED
  BY <1>1, <1>2 DEF PublishInv

\* What the invariant says of the place within a message.
LEMMA InHandType ==
  ASSUME PublishInv
  PROVE  /\ taken \in Nat /\ taken <= Len(Frames) /\ frm \in Nat
         /\ mpc = "frame" => taken \in Messages /\ Frames[taken] \in Nat \ {0}
                             /\ frm < Frames[taken]
         /\ mpc # "frame" => frm = 0
<1>1. taken \in Nat /\ taken <= Len(Frames)
  BY FramesType DEF PublishInv, TypeOK
<1>2. mpc # "frame" => frm = 0
  BY DEF PublishInv, InHand
<1>3. ASSUME mpc = "frame"
      PROVE  taken \in Messages /\ Frames[taken] \in Nat \ {0}
             /\ frm < Frames[taken] /\ frm \in Nat
  <2>1. taken \in Messages /\ frm < Frames[taken]
    BY <1>3 DEF PublishInv, InHand
  <2>2. Frames[taken] \in Nat \ {0}
    BY <2>1, FramesType
  <2>3. frm = 0 \/ frm \in 1..(Frames[taken] - 1)
    BY DEF PublishInv, TypeOK
  <2> QED
    BY <2>1, <2>2, <2>3
<1> QED
  BY <1>1, <1>2, <1>3

\* The frames that MainFrame hands to the PUB socket, for a message it has
\* sent frm frames of, are one more of its frames.
LEMMA FrameCarries ==
  ASSUME PublishInv, mpc = "frame", ~interrupted, sendkey \in BOOLEAN,
         NEW q \in Received, NEW p \in SentAs(q),
         NEW parts,
         parts = wire \o (IF sendkey /\ first THEN <<KeyPart>> ELSE <<>>)
                      \o <<Part(frm + 1, WordOf(taken, frm + 1), p)>>
  PROVE  Carries(KeyFrames, snappy, parts, taken, frm + 1)
<1> DEFINE x == Part(frm + 1, WordOf(taken, frm + 1), p)
           pre == wire \o (IF sendkey /\ first THEN <<KeyPart>> ELSE <<>>)
<1>1. /\ frm \in Nat /\ taken \in Messages /\ snappy \in BOOLEAN
      /\ direct \in BOOLEAN /\ key \in Seq(Nat) /\ wire \in Seq(Parts)
  <2>1. taken \in Messages /\ frm \in Nat
    BY InHandType, Zenon
  <2>2. /\ snappy \in BOOLEAN /\ direct \in BOOLEAN /\ key \in Seq(Nat)
        /\ wire \in Seq(Parts)
    BY KeysAssumption DEF PublishInv, TypeOK
  <2> QED
    BY <2>1, <2>2, Zenon
<1>2. p \in 0..1 /\ (~snappy => p = 0)
  BY <1>1 DEF Received, SentAs
<1>3. WordOf(taken, frm + 1) \in Seq(Nat)
  BY <1>1, WordType
<1>4. /\ x \in Parts /\ x.n = frm + 1 /\ x.word = WordOf(taken, frm + 1)
      /\ (~snappy => x.packed = 0)
  BY <1>1, <1>2, <1>3 DEF Part, Parts
<1>5. /\ KeyPart \in Parts /\ KeyPart.n = 0
      /\ (~snappy => KeyPart.packed = 0)
  BY <1>1 DEF KeyPart, Part, Parts
<1>6. Carries(KeyFrames, snappy, pre, taken, frm)
  <2>1. CASE frm = 0
    <3>1. wire = <<>> /\ first
      BY <2>1 DEF PublishInv, WireInv
    <3>2. CASE sendkey
      <4>1. pre = <<KeyPart>>
        BY <3>1, <3>2
      <4>2. KeyFrames = 1
        BY <3>2 DEF KeyFrames
      <4> HIDE DEF pre
      <4>3. pre \in Seq(Parts) /\ Len(pre) = 1 /\ pre[1] = KeyPart
        BY <4>1, <1>5
      <4> QED
        BY <4>2, <4>3, <1>5, <2>1 DEF Carries
    <3>3. CASE ~sendkey
      <4>1. pre = <<>> /\ KeyFrames = 0
        BY <3>1, <3>3 DEF KeyFrames
      <4> QED
        BY <4>1, <2>1 DEF Carries
    <3> QED
      BY <3>2, <3>3
  <2>2. CASE frm > 0
    <3>1. Carries(KeyFrames, snappy, wire, taken, frm) /\ first = ~sendkey
      BY <2>2 DEF PublishInv, WireInv
    <3>2. ~(sendkey /\ first)
      BY <3>1, Zenon
    <3>3. pre = wire
      BY <3>2, <1>1
    <3> QED
      BY <3>1, <3>3
  <2> QED
    BY <1>1, <2>1, <2>2
<1>7. KeyFrames \in {0, 1}
  BY DEF KeyFrames
<1>8. parts = Append(pre, x) /\ pre \in Seq(Parts)
  BY <1>4, <1>6 DEF Carries
<1>9. /\ parts \in Seq(Parts) /\ Len(parts) = Len(pre) + 1
      /\ parts[Len(pre) + 1] = x
      /\ \A j \in 1..Len(pre) : parts[j] = pre[j]
  BY <1>4, <1>8
<1>10. Len(pre) = KeyFrames + frm
  BY <1>6 DEF Carries
<1>11. ASSUME NEW j \in 1..Len(parts)
       PROVE  /\ parts[j].n = j - KeyFrames
              /\ j > KeyFrames => parts[j].word = WordOf(taken, j - KeyFrames)
              /\ ~snappy => parts[j].packed = 0
  <2>1. CASE j \in 1..Len(pre)
    BY <2>1, <1>6, <1>9 DEF Carries
  <2>2. CASE j = Len(pre) + 1
    <3>1. parts[j] = x /\ j - KeyFrames = frm + 1
      BY <2>2, <1>1, <1>7, <1>9, <1>10
    <3> QED
      BY <3>1, <1>4
  <2>3. \A n \in Nat : \A i \in 1..(n + 1) : i \in 1..n \/ i = n + 1
    OBVIOUS
  <2>4. j \in 1..Len(pre) \/ j = Len(pre) + 1
    <3>1. Len(pre) \in Nat
      BY <1>8
    <3> QED
      BY <1>9, <2>3, <3>1
  <2> QED
    BY <2>1, <2>2, <2>4, Zenon
<1> QED
  <2>1. Len(parts) = KeyFrames + (frm + 1)
    BY <1>1, <1>7, <1>9, <1>10
  <2> QED
    BY <2>1, <1>9, <1>11 DEF Carries

\* Steps of the thread that leave what is published alone.
LEMMA QuietStep ==
  ASSUME PublishInv,
         MainLoop \/ MainPollIn \/ MainInterrupted \/ Signal
  PROVE  PublishInv'
<1> USE DEF PublishInv
<1>1. /\ UNCHANGED <<optionVars, wire, ready, pub, joined, queue, got>>
      /\ RoomInv' /\ QueueInv'
  <2>1. UNCHANGED <<optionVars, wire, ready, pub, joined, queue, got>>
    BY DEF MainLoop, MainPollIn, MainInterrupted, Signal
  <2> QED
    BY <2>1 DEF RoomInv, QueueInv, KeyFrames, optionVars
<1>2. CASE MainLoop
  <2>1. /\ mpc = "loop" /\ mpc' \in {"done", "poll"}
        /\ UNCHANGED <<signalVars, taken, frm, first>>
    BY <1>2 DEF MainLoop
  <2>2. TypeOK'
    BY <1>1, <2>1 DEF TypeOK, signalVars, optionVars
  <2>3. InHand'
    BY <2>1 DEF InHand
  <2>4. WireInv'
    <3>1. interrupted' = interrupted /\ mpc' # "frame" /\ mpc # "frame"
          /\ frm = 0
      BY <2>1 DEF signalVars, InHand
    <3> QED
      BY <1>1, <2>1, <3>1 DEF WireInv
  <2> QED
    BY <1>1, <2>2, <2>3, <2>4
<1>3. CASE MainPollIn
  <2>1. /\ mpc = "poll" /\ mpc' = "frame" /\ frm = 0
        /\ taken < Len(Frames) /\ taken' = taken + 1 /\ first' = TRUE
        /\ UNCHANGED <<signalVars, frm>>
    BY <1>3 DEF MainPollIn, InHand
  <2>2. taken' \in Messages
    <3>1. taken \in Nat /\ Len(Frames) \in Nat
      BY InHandType, FramesType, Zenon
    <3>2. taken + 1 \in 1..Len(Frames)
      BY <2>1, <3>1
    <3> QED
      BY <2>1, <3>2 DEF Messages
  <2>3. TypeOK'
    <3>1. taken' \in 0..Len(Frames) /\ frm' = 0 /\ first' \in BOOLEAN
          /\ mpc' \in {"loop", "poll", "frame", "done"}
      BY <2>1, <2>2, FramesType DEF Messages
    <3> QED
      BY <1>1, <2>1, <3>1 DEF TypeOK, signalVars, optionVars
  <2>4. InHand'
    BY <2>1, <2>2, FramesType DEF InHand
  <2>5. WireInv'
    <3>1. interrupted' = interrupted /\ mpc # "frame"
      BY <2>1 DEF signalVars
    <3>2. ~interrupted => taken = Len(pub) + 0 /\ wire = <<>>
      BY <2>1, <3>1, Zenon DEF WireInv
    <3>3. UNCHANGED <<wire, pub>> /\ taken \in Nat
      BY <1>1, InHandType, Zenon
    <3>4. pub \in Seq([msg : Messages, parts : Seq(Parts),
                       ready : SUBSET joined])
      BY DEF TypeOK
    <3>5. Len(pub) \in Nat
      BY <3>4
    <3>6. ~interrupted => taken' = Len(pub) + 1
      <4>1. taken = Len(pub) + 0 => taken = Len(pub)
        BY <3>5
      <4> QED
        BY <2>1, <3>2, <4>1, Zenon
    <3> SUFFICES ASSUME ~interrupted PROVE WireInv'
      BY <3>1 DEF WireInv
    <3> QED
      BY <2>1, <3>1, <3>2, <3>3, <3>6 DEF WireInv
  <2> QED
    BY <1>1, <2>3, <2>4, <2>5
<1>4. CASE MainInterrupted
  <2>1. /\ interrupted /\ mpc = "frame" /\ mpc' = "loop" /\ frm' = 0
        /\ UNCHANGED <<signalVars, taken, first>>
    BY <1>4 DEF MainInterrupted
  <2>2. TypeOK'
    BY <1>1, <2>1 DEF TypeOK, signalVars, optionVars
  <2> QED
    BY <1>1, <2>1, <2>2 DEF InHand, WireInv, signalVars
<1>5. CASE Signal
  <2>1. /\ interrupted' = TRUE /\ signals' \in 0..MaxSignals
        /\ mpc' = mpc \/ (mpc = "poll" /\ mpc' = "done")
        /\ UNCHANGED <<taken, frm, first>>
    <3>1. signals \in 0..MaxSignals
      BY DEF TypeOK
    <3>2. /\ signals < MaxSignals /\ signals' = signals + 1
          /\ interrupted' = TRUE /\ UNCHANGED <<taken, frm, first>>
          /\ mpc' \in {mpc} \cup {pc \in {"done"} : mpc = "poll"}
      BY <1>5 DEF Signal
    <3>3. signals' \in 0..MaxSignals
      BY <3>1, <3>2
    <3> QED
      BY <3>2, <3>3
  <2>2. TypeOK'
    BY <1>1, <2>1 DEF TypeOK, optionVars
  <2> QED
    BY <1>1, <2>1, <2>2 DEF InHand, WireInv
<1> QED
  BY <1>2, <1>3, <1>4, <1>5

\* Until a signal comes, frames that follow a key follow this key.
KeyInv == ~interrupted /\ sendkey /\ wire # <<>> => wire[1] = KeyPart

\* Nothing is on the wire only before the first frame.
LEMMA WireStarts ==
  ASSUME PublishInv, mpc = "frame", ~interrupted, wire = <<>>
  PROVE  frm = 0
<1>1. frm \in Nat /\ KeyFrames \in Nat
  BY InHandType DEF KeyFrames
<1>2. Len(wire) = 0
  OBVIOUS
<1>3. ASSUME frm > 0 PROVE FALSE
  <2>1. Len(wire) = KeyFrames + frm
    BY <1>3, Zenon DEF PublishInv, WireInv, Carries
  <2> QED
    BY <1>1, <1>2, <1>3, <2>1
<1> QED
  BY <1>1, <1>3

\* Then the key comes first when a frame has been added.
LEMMA KeyFirst ==
  ASSUME PublishInv, KeyInv, mpc = "frame", ~interrupted, sendkey,
         NEW x \in Parts, NEW parts,
         parts = wire \o (IF sendkey /\ first THEN <<KeyPart>> ELSE <<>>)
                      \o <<x>>
  PROVE  parts[1] = KeyPart
<1> DEFINE k == IF sendkey /\ first THEN <<KeyPart>> ELSE <<>>
<1>1. wire \in Seq(Parts)
  BY DEF PublishInv, TypeOK
<1>2. KeyPart \in Parts
  BY DEF PublishInv, TypeOK, KeyPart, Part, Parts
<1>3. k \in Seq(Parts)
  BY <1>2
<1>4. CASE wire # <<>>
  <2>1. wire[1] = KeyPart
    BY <1>4 DEF KeyInv
  <2> HIDE DEF k
  <2>2. parts = wire \o k \o <<x>>
    BY DEF k
  <2> QED
    BY <1>1, <1>3, <1>4, <2>1, <2>2
<1>5. CASE wire = <<>>
  <2>1. first
    BY <1>5, WireStarts, Zenon DEF PublishInv, WireInv
  <2>2. k = <<KeyPart>>
    BY <2>1
  <2>3. parts = <<KeyPart>> \o <<x>>
    BY <1>2, <1>5, <2>2
  <2> QED
    BY <1>2, <2>3
<1> QED
  BY <1>4, <1>5

\* The message that MainFrame finishes.
Finished(parts, room) == [msg |-> taken, parts |-> parts, ready |-> room]

\* The two outcomes of MainFrame, with the frames it hands over.
LEMMA FrameCases ==
  ASSUME PublishInv, MainFrame
  PROVE  \E parts \in Seq(Parts), room \in SUBSET joined :
           /\ Carries(KeyFrames, snappy, parts, taken, frm + 1)
           /\ \/ /\ frm + 1 # Frames[taken]
                 /\ frm' = frm + 1
                 /\ wire' = parts
                 /\ ready' = room
                 /\ UNCHANGED <<mpc, pub, queue>>
              \/ /\ frm + 1 = Frames[taken]
                 /\ frm' = 0
                 /\ wire' = <<>>
                 /\ ready' = {}
                 /\ mpc' = "loop"
                 /\ pub' = Append(pub, Finished(parts, room))
                 /\ queue' = [s \in Subscribers |->
                                IF s \in room /\ Matches(s, parts)
                                THEN Append(queue[s], <<taken, parts>>)
                                ELSE queue[s]]
           /\ \A s \in room : wire = <<>> => Len(queue[s]) < HWM
           /\ wire # <<>> => room = ready
           /\ KeyInv /\ sendkey => parts[1] = KeyPart
<1> DEFINE room == IF wire = <<>> THEN {s \in joined : Len(queue[s]) < HWM}
                                  ELSE ready
           sent == {wire \o (IF sendkey /\ first THEN <<KeyPart>> ELSE <<>>)
                         \o <<Part(frm + 1, WordOf(taken, frm + 1), p)>> :
                      p \in UNION {SentAs(q) : q \in Received}}
<1>1. mpc = "frame" /\ ~interrupted
  BY DEF MainFrame
<1>2. sendkey \in BOOLEAN /\ ready \subseteq joined
  BY DEF PublishInv, TypeOK
<1>3. room \in SUBSET joined
  BY <1>2
<1>4. ASSUME NEW parts \in sent
      PROVE  /\ Carries(KeyFrames, snappy, parts, taken, frm + 1)
             /\ parts \in Seq(Parts)
             /\ KeyInv /\ sendkey => parts[1] = KeyPart
  <2>1. \E q \in Received : \E p \in SentAs(q) :
          parts = wire \o (IF sendkey /\ first THEN <<KeyPart>> ELSE <<>>)
                       \o <<Part(frm + 1, WordOf(taken, frm + 1), p)>>
    OBVIOUS
  <2>2. Carries(KeyFrames, snappy, parts, taken, frm + 1)
    BY <1>1, <1>2, <2>1, FrameCarries
  <2>3. ASSUME KeyInv, sendkey PROVE parts[1] = KeyPart
    <3>0. PICK q \in Received : \E p \in SentAs(q) :
            parts = wire \o (IF sendkey /\ first THEN <<KeyPart>> ELSE <<>>)
                         \o <<Part(frm + 1, WordOf(taken, frm + 1), p)>>
      BY <2>1
    <3>1. PICK p \in SentAs(q) :
            parts = wire \o (IF sendkey /\ first THEN <<KeyPart>> ELSE <<>>)
                         \o <<Part(frm + 1, WordOf(taken, frm + 1), p)>>
      BY <3>0
    <3>2. Part(frm + 1, WordOf(taken, frm + 1), p) \in Parts
      <4>1. taken \in Messages /\ frm \in Nat
        BY <1>1, InHandType
      <4>2. WordOf(taken, frm + 1) \in Seq(Nat)
        BY <4>1, WordType
      <4>3. p \in 0..1
        BY DEF Received, SentAs
      <4> QED
        BY <4>1, <4>2, <4>3 DEF Part, Parts
    <3> QED
      BY <1>1, <2>3, <3>1, <3>2, KeyFirst
  <2> QED
    BY <2>2, <2>3 DEF Carries
<1>5. PICK parts \in sent :
        \/ /\ frm + 1 # Frames[taken]
           /\ frm' = frm + 1
           /\ wire' = parts
           /\ ready' = room
           /\ UNCHANGED <<mpc, pub, queue>>
        \/ /\ frm + 1 = Frames[taken]
           /\ frm' = 0
           /\ wire' = <<>>
           /\ ready' = {}
           /\ mpc' = "loop"
           /\ pub' = Append(pub, Finished(parts, room))
           /\ queue' = [s \in Subscribers |->
                          IF s \in room /\ Matches(s, parts)
                          THEN Append(queue[s], <<taken, parts>>)
                          ELSE queue[s]]
  BY DEF MainFrame, Finished
<1>6. /\ \A s \in room : wire = <<>> => Len(queue[s]) < HWM
      /\ wire # <<>> => room = ready
  OBVIOUS
<1>7. /\ Carries(KeyFrames, snappy, parts, taken, frm + 1)
      /\ parts \in Seq(Parts)
      /\ KeyInv /\ sendkey => parts[1] = KeyPart
  BY <1>4
<1> HIDE DEF room, sent
<1> QED
  BY <1>3, <1>5, <1>6, <1>7

\* A frame that goes out, the last of its message or not.
LEMMA FrameStep == PublishInv /\ MainFrame => PublishInv'
<1> SUFFICES ASSUME PublishInv, MainFrame PROVE PublishInv'
  OBVIOUS
<1>1. /\ mpc = "frame" /\ ~interrupted /\ first' = (first /\ ~sendkey)
      /\ UNCHANGED <<optionVars, signalVars, taken, joined, got>>
  BY DEF MainFrame
<1>2. PICK parts \in Seq(Parts), room \in SUBSET joined :
        /\ Carries(KeyFrames, snappy, parts, taken, frm + 1)
        /\ \/ /\ frm + 1 # Frames[taken]
              /\ frm' = frm + 1
              /\ wire' = parts
              /\ ready' = room
              /\ UNCHANGED <<mpc, pub, queue>>
           \/ /\ frm + 1 = Frames[taken]
              /\ frm' = 0
              /\ wire' = <<>>
              /\ ready' = {}
              /\ mpc' = "loop"
              /\ pub' = Append(pub, Finished(parts, room))
              /\ queue' = [s \in Subscribers |->
                             IF s \in room /\ Matches(s, parts)
                             THEN Append(queue[s], <<taken, parts>>)
                             ELSE queue[s]]
        /\ \A s \in room : wire = <<>> => Len(queue[s]) < HWM
        /\ wire # <<>> => room = ready
  BY FrameCases
<1>3. /\ taken \in Messages /\ Frames[taken] \in Nat \ {0}
      /\ frm \in Nat /\ frm < Frames[taken] /\ taken \in Nat
  BY <1>1, InHandType
<1>4. /\ UNCHANGED <<snappy, sendkey, interrupted>>
      /\ sendkey \in BOOLEAN /\ first \in BOOLEAN
      /\ queue \in [Subscribers -> Seq(Messages \X Seq(Parts))]
      /\ pub \in Seq([msg : Messages, parts : Seq(Parts),
                      ready : SUBSET joined])
      /\ joined \subseteq Subscribers
      /\ \A s \in Subscribers : Len(queue[s]) <= HWM
  BY <1>1 DEF optionVars, signalVars, PublishInv, TypeOK
<1>5. \A s \in room : Len(queue[s]) < HWM
  BY <1>2 DEF PublishInv, RoomInv
<1>8. QueueInv
  BY DEF PublishInv
<1>6. CASE frm + 1 # Frames[taken]
  <2>1. /\ frm' = frm + 1 /\ wire' = parts /\ ready' = room
        /\ UNCHANGED <<mpc, pub, queue>>
    BY <1>2, <1>6
  <2>2. frm' \in 1..(Frames[taken] - 1)
    BY <1>3, <1>6, <2>1
  <2>3. TypeOK'
    <3>1. /\ taken > 0 /\ frm' \in 1..(Frames[taken'] - 1)
          /\ wire' \in Seq(Parts) /\ ready' \subseteq joined'
          /\ first' \in BOOLEAN
      <4>1. taken > 0
        BY <1>3 DEF Messages
      <4>2. taken' = taken /\ joined' = joined /\ first' \in BOOLEAN
        BY <1>1, <1>4
      <4>3. wire' \in Seq(Parts) /\ ready' \subseteq joined
        BY <1>2, <2>1
      <4> QED
        BY <2>2, <4>1, <4>2, <4>3, Zenon
    <3> QED
      BY <1>1, <2>1, <3>1 DEF PublishInv, TypeOK, optionVars, signalVars
  <2>4. InHand'
    BY <1>1, <1>3, <1>6, <2>1 DEF InHand
  <2>5. WireInv'
    <3>1. taken = Len(pub) + 1
      BY <1>1 DEF PublishInv, WireInv
    <3>2. frm' > 0 /\ first' = ~sendkey'
      <4>1. frm = 0 => first
        BY <1>1 DEF PublishInv, WireInv
      <4>2. frm # 0 => first = ~sendkey
        BY <1>1, <1>3 DEF PublishInv, WireInv
      <4>3. frm' > 0 /\ sendkey' = sendkey
        BY <1>3, <1>4, <2>1
      <4>4. first' = (first /\ ~sendkey)
        BY <1>1, Zenon
      <4>5. sendkey \in BOOLEAN /\ first \in BOOLEAN
        BY <1>4, Zenon
      <4> QED
        BY <4>1, <4>2, <4>3, <4>4, <4>5
    <3>3. Carries(KeyFrames, snappy, wire, taken, frm)'
      BY <1>1, <1>2, <1>4, <2>1 DEF Carries, KeyFrames
    <3> QED
      BY <1>1, <2>1, <3>1, <3>2, <3>3 DEF WireInv
  <2>6. RoomInv'
    BY <1>5, <2>1 DEF RoomInv
  <2>7. QueueInv'
    BY <1>4, <1>8, <2>1 DEF QueueInv, KeyFrames
  <2> QED
    BY <2>3, <2>4, <2>5, <2>6, <2>7 DEF PublishInv
<1>7. CASE frm + 1 = Frames[taken]
  <2>1. /\ frm' = 0 /\ wire' = <<>> /\ ready' = {} /\ mpc' = "loop"
        /\ pub' = Append(pub, Finished(parts, room))
        /\ queue' = [s \in Subscribers |->
                       IF s \in room /\ Matches(s, parts)
                       THEN Append(queue[s], <<taken, parts>>)
                       ELSE queue[s]]
    BY <1>2, <1>7
  <2>2. TypeOK'
    <3>1. Finished(parts, room)
            \in [msg : Messages, parts : Seq(Parts), ready : SUBSET joined]
      BY <1>2, <1>3 DEF Finished
    <3>2. pub' \in Seq([msg : Messages, parts : Seq(Parts),
                        ready : SUBSET joined])
      BY <1>4, <2>1, <3>1
    <3>3. <<taken, parts>> \in Messages \X Seq(Parts)
      BY <1>2, <1>3
    <3>4. queue' \in [Subscribers -> Seq(Messages \X Seq(Parts))]
      BY <1>4, <2>1, <3>3
    <3>5. \A s \in Subscribers : Len(queue'[s]) <= HWM
      <4> SUFFICES ASSUME NEW s \in Subscribers PROVE Len(queue'[s]) <= HWM
        OBVIOUS
      <4>1. queue[s] \in Seq(Messages \X Seq(Parts)) /\ Len(queue[s]) \in Nat
        BY <1>4
      <4>2. CASE s \in room /\ Matches(s, parts)
        <5>1. queue'[s] = Append(queue[s], <<taken, parts>>)
          BY <2>1, <4>2
        <5>2. Len(queue'[s]) = Len(queue[s]) + 1
          BY <3>3, <4>1, <5>1
        <5> QED
          BY <1>5, <4>1, <4>2, <5>2
      <4>3. CASE ~(s \in room /\ Matches(s, parts))
        <5>1. queue'[s] = queue[s]
          BY <2>1, <4>3
        <5> QED
          BY <1>4, <5>1
      <4> QED
        BY <4>2, <4>3
    <3>6. wire' \in Seq(Parts) /\ ready' \subseteq joined' /\ frm' = 0
          /\ mpc' \in {"loop", "poll", "frame", "done"} /\ first' \in BOOLEAN
      BY <1>1, <1>4, <2>1
    <3> QED
      BY <1>1, <3>2, <3>4, <3>5, <3>6
         DEF PublishInv, TypeOK, optionVars, signalVars
  <2>3. InHand'
    BY <2>1 DEF InHand
  <2>4. WireInv'
    <3>1. taken = Len(pub) + 1
      BY <1>1 DEF PublishInv, WireInv
    <3>2. Len(pub') = Len(pub) + 1
      BY <1>4, <2>1, <1>2, <1>3 DEF Finished
    <3> QED
      BY <1>1, <2>1, <3>1, <3>2 DEF WireInv
  <2>5. RoomInv'
    BY <2>1 DEF RoomInv
  <2>6. QueueInv'
    <3> SUFFICES ASSUME NEW s \in Subscribers, NEW i \in DOMAIN queue'[s]
                 PROVE  /\ queue'[s][i][1] \in Messages
                        /\ Carries(KeyFrames, snappy, queue'[s][i][2],
                                   queue'[s][i][1],
                                   Frames[queue'[s][i][1]])
      BY <1>4 DEF QueueInv, KeyFrames
    <3>1. queue[s] \in Seq(Messages \X Seq(Parts))
      BY <1>4
    <3>2. CASE i \in DOMAIN queue[s] /\ queue'[s][i] = queue[s][i]
      BY <1>8, <3>2 DEF QueueInv
    <3>3. CASE queue'[s][i] = <<taken, parts>>
      <4>1. queue'[s][i][1] = taken /\ queue'[s][i][2] = parts
        BY <3>3
      <4> QED
        BY <1>2, <1>3, <1>7, <4>1
    <3>4. \/ i \in DOMAIN queue[s] /\ queue'[s][i] = queue[s][i]
          \/ queue'[s][i] = <<taken, parts>>
      <4>1. <<taken, parts>> \in Messages \X Seq(Parts)
        BY <1>2, <1>3
      <4>2. \/ queue'[s] = queue[s]
            \/ queue'[s] = Append(queue[s], <<taken, parts>>)
        BY <2>1
      <4>3. CASE queue'[s] = Append(queue[s], <<taken, parts>>)
        <5> DEFINE x == <<taken, parts>>
                   S == Messages \X Seq(Parts)
        <5>4. x \in S /\ queue[s] \in Seq(S)
              /\ queue'[s] = Append(queue[s], x)
          BY <3>1, <4>1, <4>3, Zenon
        <5> HIDE DEF x, S
        <5>1. /\ Len(queue[s]) \in Nat
              /\ DOMAIN queue'[s] = 1..(Len(queue[s]) + 1)
              /\ DOMAIN queue[s] = 1..Len(queue[s])
              /\ queue'[s][Len(queue[s]) + 1] = x
              /\ \A j \in DOMAIN queue[s] : queue'[s][j] = queue[s][j]
          BY <5>4, AppendFacts
        <5>2. i \in DOMAIN queue[s] \/ i = Len(queue[s]) + 1
          BY <5>1
        <5> QED
          BY <5>1, <5>2 DEF x
      <4> QED
        BY <4>2, <4>3
    <3> QED
      BY <3>2, <3>3, <3>4
  <2> QED
    BY <2>2, <2>3, <2>4, <2>5, <2>6 DEF PublishInv
<1> QED
  BY <1>6, <1>7

\* A whole message is not empty.
LEMMA CarriesSome ==
  ASSUME NEW m \in Messages, NEW parts,
         Carries(KeyFrames, snappy, parts, m, Frames[m])
  PROVE  parts \in Seq(Parts) /\ parts # <<>>
<1>1. Frames[m] \in Nat \ {0} /\ KeyFrames \in Nat
  BY FramesType DEF KeyFrames
<1>2. parts \in Seq(Parts) /\ Len(parts) = KeyFrames + Frames[m]
  BY DEF Carries
<1>3. \A q \in Seq(Parts), k \in Nat, f \in Nat \ {0} :
        Len(q) = k + f => q # <<>>
  OBVIOUS
<1> QED
  BY <1>1, <1>2, <1>3

\* Uncompressing the frames of a message, but for the one dropped.
LEMMA UnpackType ==
  ASSUME NEW p \in Seq(Parts), p # <<>>, NEW drop, snappy \in BOOLEAN
  PROVE  LET q == IF drop THEN Tail(p) ELSE p
         IN [i \in DOMAIN q |-> Unpack(q[i])] \in Seq(Parts)
<1> DEFINE q == IF drop THEN Tail(p) ELSE p
<1>1. q \in Seq(Parts)
  OBVIOUS
<1>2. ASSUME NEW r \in Parts PROVE Unpack(r) \in Parts
  <2> DEFINE v == IF snappy /\ r.packed > 0 THEN r.packed - 1 ELSE r.packed
  <2>1. r.packed \in 0..1
    BY DEF Parts
  <2>2. v \in 0..1
    BY <2>1
  <2>3. Unpack(r) = [n |-> r.n, word |-> r.word, packed |-> v]
    BY DEF Unpack, Part
  <2> HIDE DEF v
  <2> QED
    BY <2>2, <2>3 DEF Parts
<1> HIDE DEF q
<1>3. /\ DOMAIN q = 1..Len(q) /\ Len(q) \in Nat
      /\ \A i \in 1..Len(q) : q[i] \in Parts
  BY <1>1
<1>4. [i \in DOMAIN q |-> Unpack(q[i])] \in Seq(Parts)
  BY <1>2, <1>3
<1> QED
  BY <1>4 DEF q

\* What the subscribers do: the thread does not see it.
LEMMA SubscriberStep ==
  ASSUME PublishInv, NEW s \in Subscribers, Join(s) \/ Take(s)
  PROVE  PublishInv'
<1>1. UNCHANGED <<optionVars, signalVars, mainVars>>
  BY DEF Join, Take
<1>2. InHand' /\ WireInv'
  BY <1>1 DEF PublishInv, InHand, WireInv, KeyFrames, optionVars,
              signalVars, mainVars
<1>3. CASE Join(s)
  <2>1. joined \subseteq joined' /\ joined' \subseteq Subscribers
        /\ queue' = queue /\ got' = got
    BY <1>3 DEF Join, PublishInv, TypeOK
  <2>2. pub' \in Seq([msg : Messages, parts : Seq(Parts),
                      ready : SUBSET joined'])
    <3>1. [msg : Messages, parts : Seq(Parts), ready : SUBSET joined]
            \subseteq [msg : Messages, parts : Seq(Parts),
                       ready : SUBSET joined']
      BY <2>1
    <3>2. pub \in Seq([msg : Messages, parts : Seq(Parts),
                       ready : SUBSET joined])
      BY DEF PublishInv, TypeOK
    <3>3. pub' = pub
      BY <1>1 DEF mainVars
    <3> DEFINE S == [msg : Messages, parts : Seq(Parts), ready : SUBSET joined]
               T == [msg : Messages, parts : Seq(Parts), ready : SUBSET joined']
    <3> HIDE DEF S, T
    <3>4. S \subseteq T /\ pub \in Seq(S)
      BY <3>1, <3>2 DEF S, T
    <3>5. pub \in Seq(T)
      BY <3>4, SeqMonotonic
    <3> QED
      BY <3>3, <3>5 DEF T
  <2>3. TypeOK'
    BY <1>1, <2>1, <2>2
       DEF PublishInv, TypeOK, optionVars, signalVars, mainVars
  <2>4. RoomInv'
    BY <1>1, <2>1 DEF PublishInv, RoomInv, mainVars
  <2>5. QueueInv'
    BY <1>1, <2>1 DEF PublishInv, QueueInv, KeyFrames, optionVars
  <2> QED
    BY <1>2, <2>3, <2>4, <2>5 DEF PublishInv
<1>4. CASE Take(s)
  <2> DEFINE m == Head(queue[s])
             parts == IF dropkey[s] THEN Tail(m[2]) ELSE m[2]
             unpacked == [i \in DOMAIN parts |-> Unpack(parts[i])]
  <2>1. /\ queue[s] # <<>>
        /\ queue' = [queue EXCEPT ![s] = Tail(@)]
        /\ got' = [got EXCEPT ![s] = Append(@, <<m[1], unpacked>>)]
        /\ joined' = joined
    BY <1>4 DEF Take
  <2>2. /\ queue \in [Subscribers -> Seq(Messages \X Seq(Parts))]
        /\ got \in [Subscribers -> Seq(Messages \X Seq(Parts))]
        /\ \A t \in Subscribers : Len(queue[t]) <= HWM
        /\ snappy \in BOOLEAN /\ sendkey \in BOOLEAN
    BY DEF PublishInv, TypeOK
  <2>3. queue[s] \in Seq(Messages \X Seq(Parts)) /\ 1 \in DOMAIN queue[s]
        /\ m = queue[s][1]
    BY <2>1, <2>2
  <2>4. /\ m[1] \in Messages
        /\ Carries(KeyFrames, snappy, m[2], m[1], Frames[m[1]])
    BY <2>3 DEF PublishInv, QueueInv
  <2>5. m[2] \in Seq(Parts) /\ m[2] # <<>>
    BY <2>4, CarriesSome
  <2>6. unpacked \in Seq(Parts)
    BY <2>2, <2>5, UnpackType
  <2>7. got' \in [Subscribers -> Seq(Messages \X Seq(Parts))]
    <3> HIDE DEF unpacked, m
    <3> DEFINE S == Messages \X Seq(Parts)
               x == <<m[1], unpacked>>
    <3>1. x \in S
      BY <2>4, <2>6
    <3>2. got \in [Subscribers -> Seq(S)]
          /\ got' = [got EXCEPT ![s] = Append(@, x)]
      BY <2>1, <2>2
    <3> HIDE DEF S, x
    <3>3. Append(got[s], x) \in Seq(S)
      BY <3>1, <3>2
    <3>4. got' \in [Subscribers -> Seq(S)]
      BY <3>2, <3>3, Zenon
    <3> QED
      BY <3>4 DEF S
  <2>8. /\ queue' \in [Subscribers -> Seq(Messages \X Seq(Parts))]
        /\ \A t \in Subscribers : Len(queue'[t]) <= Len(queue[t])
        /\ \A t \in Subscribers : \A i \in DOMAIN queue'[t] :
             \E j \in DOMAIN queue[t] : queue'[t][i] = queue[t][j]
    <3>1. /\ Tail(queue[s]) \in Seq(Messages \X Seq(Parts))
          /\ Len(Tail(queue[s])) = Len(queue[s]) - 1
          /\ \A i \in DOMAIN Tail(queue[s]) :
               i + 1 \in DOMAIN queue[s] /\ Tail(queue[s])[i] = queue[s][i + 1]
      <4>1. queue[s] # <<>>
        BY <2>1
      <4> QED
        BY <2>3, <4>1, TailFacts, Zenon
    <3>2. \A t \in Subscribers :
            queue'[t] = IF t = s THEN Tail(queue[s]) ELSE queue[t]
      BY <2>1, <2>2
    <3>3. \A t \in Subscribers : Len(queue[t]) \in Nat
      BY <2>2
    <3>4. queue' \in [Subscribers -> Seq(Messages \X Seq(Parts))]
      BY <2>1, <2>2, <3>1
    <3>5. Len(Tail(queue[s])) <= Len(queue[s])
      BY <3>1, <3>3
    <3>6. ASSUME NEW t \in Subscribers
          PROVE  Len(queue'[t]) <= Len(queue[t])
      <4>1. CASE t = s
        BY <3>2, <3>5, <4>1
      <4>2. CASE t # s
        BY <3>2, <3>3, <4>2
      <4> QED
        BY <4>1, <4>2
    <3>7. \A t \in Subscribers : \A i \in DOMAIN queue'[t] :
             \E j \in DOMAIN queue[t] : queue'[t][i] = queue[t][j]
      <4> SUFFICES ASSUME NEW t \in Subscribers, NEW i \in DOMAIN queue'[t]
                   PROVE  \E j \in DOMAIN queue[t] : queue'[t][i] = queue[t][j]
        OBVIOUS
      <4>1. CASE t = s
        <5>1. queue'[t] = Tail(queue[s])
          BY <3>2, <4>1
        <5> QED
          BY <3>1, <4>1, <5>1
      <4>2. CASE t # s
        BY <3>2, <4>2
      <4> QED
        BY <4>1, <4>2
    <3> QED
      BY <3>4, <3>6, <3>7
  <2>9. TypeOK'
    <3>1. \A t \in Subscribers : Len(queue'[t]) <= HWM
      <4> SUFFICES ASSUME NEW t \in Subscribers PROVE Len(queue'[t]) <= HWM
        OBVIOUS
      <4>1. Len(queue[t]) \in Nat /\ Len(queue'[t]) \in Nat
        BY <2>2, <2>8
      <4> QED
        BY <2>2, <2>8, <4>1
    <3> QED
      BY <1>1, <2>1, <2>7, <2>8, <3>1
         DEF PublishInv, TypeOK, optionVars, signalVars, mainVars
  <2>10. RoomInv'
    <3> SUFFICES ASSUME NEW t \in ready PROVE Len(queue'[t]) < HWM
      BY <1>1 DEF RoomInv, mainVars
    <3>1. t \in Subscribers /\ Len(queue[t]) < HWM
      BY DEF PublishInv, TypeOK, RoomInv
    <3>2. Len(queue[t]) \in Nat /\ Len(queue'[t]) \in Nat
      BY <2>2, <2>8, <3>1
    <3> QED
      BY <2>8, <3>1, <3>2
  <2>11. QueueInv'
    <3>1. UNCHANGED <<snappy, sendkey>>
      BY <1>1 DEF optionVars
    <3> SUFFICES ASSUME NEW t \in Subscribers, NEW i \in DOMAIN queue'[t]
                 PROVE  /\ queue'[t][i][1] \in Messages
                        /\ Carries(KeyFrames, snappy, queue'[t][i][2],
                                   queue'[t][i][1], Frames[queue'[t][i][1]])
      BY <3>1 DEF QueueInv, KeyFrames
    <3>2. PICK j \in DOMAIN queue[t] : queue'[t][i] = queue[t][j]
      BY <2>8
    <3> QED
      BY <3>2 DEF PublishInv, QueueInv
  <2> QED
    BY <1>2, <2>9, <2>10, <2>11 DEF PublishInv
<1> QED
  BY <1>3, <1>4

\* The invariant holds in every state.
LEMMA PublishAlways == Spec => []PublishInv
<1>1. PublishInv /\ [Next]_vars => PublishInv'
  <2> SUFFICES ASSUME PublishInv, [Next]_vars PROVE PublishInv'
    OBVIOUS
  <2>1. CASE MainStep \/ MainPollIn \/ Signal
    BY <2>1, QuietStep, FrameStep DEF MainStep
  <2>2. CASE \E s \in Subscribers : Join(s) \/ Take(s)
    BY <2>2, SubscriberStep
  <2>3. CASE UNCHANGED vars
    <3>1. UNCHANGED <<optionVars, signalVars, mainVars, joined, queue, got>>
      BY <2>3 DEF vars
    <3> USE DEF optionVars, signalVars, mainVars
    <3>2. TypeOK'
      BY <3>1 DEF PublishInv, TypeOK
    <3>3. InHand' /\ WireInv'
      BY <3>1 DEF PublishInv, InHand, WireInv, KeyFrames
    <3>4. RoomInv' /\ QueueInv'
      BY <3>1 DEF PublishInv, RoomInv, QueueInv, KeyFrames
    <3> QED
      BY <3>2, <3>3, <3>4 DEF PublishInv
  <2> QED
    BY <2>1, <2>2, <2>3 DEF Next
<1> QED
  BY <1>1, PublishInit, PTL DEF Spec

\* Every variable keeps its type; what the PUB socket holds for a subscriber
\* never exceeds its high-water mark, though a message's frames reach the
\* queue only with the last one.
THEOREM TypeCorrect == Spec => []TypeOK
  BY PublishAlways, PTL DEF PublishInv

\* A message with all its frames, after the key if there is one, is sent.
LEMMA WholeIsSent ==
  ASSUME sendkey \in BOOLEAN, NEW m \in Messages, NEW parts, NEW room,
         Carries(KeyFrames, snappy, parts, m, Frames[m])
  PROVE  Fate([msg |-> m, parts |-> parts, ready |-> room]) = "sent"
<1> DEFINE f == Frames[m]
           keys == IF sendkey THEN <<0>> ELSE <<>>
           frames == WholeParts(m)
           k == KeyFrames
           numbers == [j \in DOMAIN parts |-> parts[j].n]
<1>1. f \in Nat
  BY FramesType
<1>2. /\ keys \in Seq(Nat) /\ Len(keys) = k /\ k \in Nat
      /\ \A j \in 1..k : keys[j] = j - k
  BY DEF KeyFrames
<1>3. /\ frames \in Seq(Nat) /\ Len(frames) = f
      /\ \A i \in 1..f : frames[i] = i
  BY <1>1 DEF WholeParts
<1>4. /\ parts \in Seq(Parts) /\ Len(parts) = k + f
      /\ \A j \in 1..Len(parts) : parts[j].n = j - k
  BY DEF Carries
<1> HIDE DEF keys, f, frames, k
<1> DEFINE whole == keys \o frames
<1>5. /\ whole \in Seq(Nat) /\ Len(whole) = k + f
      /\ \A j \in 1..k : whole[j] = keys[j]
      /\ \A i \in 1..f : whole[k + i] = frames[i]
  <2>1. whole = keys \o frames
    OBVIOUS
  <2> HIDE DEF whole
  <2>2. keys \in Seq(Nat) /\ frames \in Seq(Nat)
    BY <1>2, <1>3, Zenon
  <2>3. /\ whole \in Seq(Nat) /\ Len(whole) = Len(keys) + Len(frames)
        /\ \A j \in 1..Len(keys) : whole[j] = keys[j]
        /\ \A i \in 1..Len(frames) : whole[Len(keys) + i] = frames[i]
    BY <2>1, <2>2, ConcatFacts
  <2> QED
    BY <1>2, <1>3, <2>3, Zenon
<1> HIDE DEF whole
<1>6. ASSUME NEW j \in 1..(k + f) PROVE whole[j] = parts[j].n
  <2>1. parts[j].n = j - k
    BY <1>4
  <2>2. CASE j \in 1..k
    BY <1>2, <1>5, <2>1, <2>2
  <2>3. CASE j - k \in 1..f /\ j = k + (j - k)
    <3>1. whole[k + (j - k)] = frames[j - k] /\ frames[j - k] = j - k
      BY <1>3, <1>5, <2>3
    <3> QED
      BY <2>1, <2>3, <3>1, Zenon
  <2>4. j \in 1..k \/ (j - k \in 1..f /\ j = k + (j - k))
    BY <1>1, <1>2
  <2> QED
    BY <2>2, <2>3, <2>4
<1>7. numbers = whole
  <2>1. whole = [j \in 1..(k + f) |-> whole[j]]
    BY <1>1, <1>2, <1>5
  <2>2. DOMAIN parts = 1..(k + f)
    BY <1>1, <1>2, <1>4
  <2> QED
    BY <1>6, <2>1, <2>2
<1> QED
  BY <1>7 DEF Fate, whole, keys, frames

\* Publishing a message appends it to what is relayed.
LEMMA AppendRelayed ==
  ASSUME NEW S, pub \in Seq(S), NEW r \in S, pub' = Append(pub, r),
         sendkey' = sendkey
  PROVE  /\ Relayed' = Append(Relayed, [msg |-> r.msg, fate |-> Fate(r)])
         /\ Len(Relayed) = Len(pub)
<1> DEFINE Entry(p) == [msg |-> p.msg, fate |-> Fate(p)]
           E == {Entry(p) : p \in S}
           n == Len(pub)
<1>1. /\ n \in Nat /\ DOMAIN pub = 1..n /\ \A i \in 1..n : pub[i] \in S
      /\ DOMAIN pub' = 1..(n + 1) /\ pub'[n + 1] = r
      /\ \A i \in 1..n : pub'[i] = pub[i]
  OBVIOUS
<1>2. \A p : (Fate(p))' = Fate(p)
  BY DEF Fate
<1>3. Relayed = [i \in 1..n |-> Entry(pub[i])]
  BY <1>1 DEF Relayed
<1>4. Relayed' = [i \in 1..(n + 1) |-> Entry(pub'[i])]
  BY <1>1, <1>2 DEF Relayed, Fate
<1> HIDE DEF Entry, n
<1>5. Relayed \in Seq(E) /\ Len(Relayed) = n /\ Entry(r) \in E
  <2>1. \A i \in 1..n : Entry(pub[i]) \in E
    BY <1>1
  <2> HIDE DEF E
  <2>2. Entry(r) \in E
    BY DEF E
  <2>3. [i \in 1..n |-> Entry(pub[i])] \in [1..n -> E]
    BY <2>1
  <2>4. Relayed \in [1..n -> E]
    BY <1>3, <2>3, Zenon
  <2> QED
    BY <1>1, <2>2, <2>4
<1>6. Relayed' = Append(Relayed, Entry(r))
  BY <1>1, <1>3, <1>4, <1>5
<1> QED
  BY <1>5, <1>6 DEF Entry, n

\* Every step of the server is one of MessageRelay's or does not concern it.
LEMMA StepRefines ==
  ASSUME PublishInv, [Next]_vars
  PROVE  [Relay!Next]_(Relay!vars)
<1> USE DEF Relay!vars, Relay!Next, Relay!Accept, Relay!Fates
<1>1. ASSUME UNCHANGED <<sendkey, pub>>
      PROVE  Relayed' = Relayed
  BY <1>1 DEF Relayed, Fate
<1>2. CASE MainPollIn
  <2>1. UNCHANGED <<sendkey, pub>> /\ taken' = taken + 1 /\ taken < Len(Frames)
    BY <1>2 DEF MainPollIn, optionVars
  <2> QED
    BY <1>1, <2>1
<1>3. CASE MainFrame
  <2>1. /\ mpc = "frame" /\ ~interrupted
        /\ UNCHANGED <<sendkey, taken>>
    BY <1>3 DEF MainFrame, optionVars
  <2>2. PICK parts \in Seq(Parts), room \in SUBSET joined :
          /\ Carries(KeyFrames, snappy, parts, taken, frm + 1)
          /\ \/ pub' = pub
             \/ /\ frm + 1 = Frames[taken]
                /\ pub' = Append(pub, Finished(parts, room))
    BY <1>3, FrameCases
  <2>3. CASE pub' = pub
    BY <1>1, <2>1, <2>3
  <2>4. CASE frm + 1 = Frames[taken]
             /\ pub' = Append(pub, Finished(parts, room))
    <3> DEFINE S == [msg : Messages, parts : Seq(Parts), ready : SUBSET joined]
               entry == [msg |-> taken, fate |-> "sent"]
    <3>1. /\ pub \in Seq(S) /\ taken = Len(pub) + 1 /\ sendkey \in BOOLEAN
      BY <2>1 DEF PublishInv, TypeOK, WireInv
    <3>2. taken \in Messages
      BY <2>1, InHandType
    <3>3. Finished(parts, room) \in S
      BY <2>2, <3>2 DEF Finished
    <3>4. Fate(Finished(parts, room)) = "sent"
      BY <2>2, <2>4, <3>1, <3>2, WholeIsSent DEF Finished
    <3>5. Finished(parts, room).msg = taken
      BY DEF Finished
    <3> HIDE DEF S
    <3>6. Relayed' = Append(Relayed, entry) /\ Len(Relayed) = Len(pub)
      BY <2>1, <2>4, <3>1, <3>3, <3>4, <3>5, AppendRelayed
    <3>7. Relay!Relay("sent")
      BY <2>1, <3>1, <3>6 DEF Relay!Relay
    <3> QED
      BY <3>7
  <2> QED
    BY <2>2, <2>3, <2>4
<1>4. CASE MainLoop \/ MainInterrupted \/ Signal
  <2>1. UNCHANGED <<sendkey, pub, taken>>
    BY <1>4 DEF MainLoop, MainInterrupted, Signal, optionVars
  <2> QED
    BY <1>1, <2>1
<1>5. CASE \E s \in Subscribers : Join(s) \/ Take(s)
  <2>1. UNCHANGED <<sendkey, pub, taken>>
    BY <1>5 DEF Join, Take, optionVars, mainVars
  <2> QED
    BY <1>1, <2>1
<1>6. CASE UNCHANGED vars
  <2>1. UNCHANGED <<sendkey, pub, taken>>
    BY <1>6 DEF vars, optionVars, mainVars
  <2> QED
    BY <1>1, <2>1
<1> QED
  BY <1>2, <1>3, <1>4, <1>5, <1>6 DEF Next, MainStep

\* The server implements MessageRelay, with nothing that could damage a
\* message: whatever is published is whole, after the key if it is sent, and
\* in the order of arrival.
THEOREM ServerImplementsRelay == Spec => RelaySpec
<1>1. Init => Relay!Init
  <2> SUFFICES ASSUME Init PROVE Relay!Init
    OBVIOUS
  <2>1. pub = <<>> /\ taken = 0
    BY DEF Init
  <2>2. Relayed = <<>>
    BY <2>1 DEF Relayed
  <2> QED
    BY <2>1, <2>2 DEF Relay!Init
<1>2. PublishInv /\ [Next]_vars => [Relay!Next]_(Relay!vars)
  BY StepRefines
<1> QED
  BY <1>1, <1>2, PublishAlways, PTL DEF Spec, RelaySpec, Relay!Spec

-----------------------------------------------------------------------------
(***************************************************************************)
(* What reaches the workers.                                               *)
(***************************************************************************)
\* What a worker is to get of message m.
Original(m) == [n \in 1..Frames[m] |-> Part(n, WordOf(m, n), 0)]

GotOriginals ==
  \A s \in Subscribers : dropkey[s] = sendkey =>
    \A i \in DOMAIN got[s] : got[s][i][2] = Original(got[s][i][1])

\* Message n was published: a message in hand was not.
Past(n) == n <= taken /\ (mpc = "frame" /\ ~interrupted => n < taken)

\* What a subscriber has and has had is in the order of publication.
InOrder ==
  \A s \in Subscribers :
    /\ \A i \in DOMAIN got[s] : \A j \in DOMAIN got[s] :
         i < j => got[s][i][1] < got[s][j][1]
    /\ \A i \in DOMAIN queue[s] : \A j \in DOMAIN queue[s] :
         i < j => queue[s][i][1] < queue[s][j][1]
    /\ \A i \in DOMAIN got[s] : \A j \in DOMAIN queue[s] :
         got[s][i][1] < queue[s][j][1]
    /\ \A i \in DOMAIN got[s] : Past(got[s][i][1])
    /\ \A i \in DOMAIN queue[s] : Past(queue[s][i][1])

DeliveryInv == GotOriginals /\ InOrder

\* A whole message, its key dropped if there is one, and uncompressed, is the
\* one the application sent.
LEMMA UnpackedIsOriginal ==
  ASSUME PublishInv, NEW m \in Messages, NEW parts,
         Carries(KeyFrames, snappy, parts, m, Frames[m]),
         NEW q, q = IF sendkey THEN Tail(parts) ELSE parts
  PROVE  /\ DOMAIN q = 1..Frames[m]
         /\ \A i \in 1..Frames[m] : Unpack(q[i]) = Part(i, WordOf(m, i), 0)
<1> DEFINE f == Frames[m]
<1>1. f \in Nat \ {0} /\ snappy \in BOOLEAN /\ sendkey \in BOOLEAN
  BY FramesType DEF PublishInv, TypeOK
<1>2. /\ parts \in Seq(Parts) /\ Len(parts) = KeyFrames + f
      /\ \A j \in 1..Len(parts) :
           /\ parts[j].n = j - KeyFrames
           /\ j > KeyFrames => parts[j].word = WordOf(m, j - KeyFrames)
           /\ ~snappy => parts[j].packed = 0
  BY DEF Carries
<1> HIDE DEF f
<1>3. /\ DOMAIN q = 1..f
      /\ \A i \in 1..f : i + KeyFrames \in 1..Len(parts)
                         /\ q[i] = parts[i + KeyFrames]
  <2>1. CASE sendkey
    <3>1. KeyFrames = 1 /\ q = Tail(parts)
      BY <2>1 DEF KeyFrames
    <3>2. Len(parts) = 1 + f /\ parts # <<>>
      BY <1>1, <1>2, <3>1
    <3>3. /\ DOMAIN Tail(parts) = 1..(Len(parts) - 1)
          /\ \A i \in 1..(Len(parts) - 1) : Tail(parts)[i] = parts[i + 1]
      <4>1. \A p \in Seq(Parts) : p # <<>> =>
              /\ DOMAIN Tail(p) = 1..(Len(p) - 1)
              /\ \A i \in 1..(Len(p) - 1) : Tail(p)[i] = p[i + 1]
        OBVIOUS
      <4> QED
        BY <1>2, <3>2, <4>1
    <3>4. Len(parts) - 1 = f /\ f \in Nat
      BY <1>1, <3>2
    <3>5. DOMAIN q = 1..f
      BY <3>1, <3>3, <3>4
    <3>6. ASSUME NEW i \in 1..f
          PROVE  i + 1 \in 1..Len(parts) /\ q[i] = parts[i + 1]
      BY <3>1, <3>2, <3>3, <3>4
    <3> QED
      BY <3>1, <3>5, <3>6
  <2>2. CASE ~sendkey
    <3>1. KeyFrames = 0 /\ q = parts
      BY <2>2 DEF KeyFrames
    <3>2. Len(parts) = f /\ DOMAIN parts = 1..Len(parts)
      BY <1>1, <1>2, <3>1
    <3>3. \A i \in 1..f : i + KeyFrames = i
      BY <3>1
    <3> QED
      BY <3>1, <3>2, <3>3
  <2> QED
    BY <1>1, <2>1, <2>2
<1>4. ASSUME NEW i \in 1..f
      PROVE  Unpack(q[i]) = Part(i, WordOf(m, i), 0)
  <2> DEFINE p == q[i]
  <2>1. KeyFrames \in Nat
    BY DEF KeyFrames
  <2>2. p \in Parts /\ p.n = i /\ p.word = WordOf(m, i)
        /\ (~snappy => p.packed = 0)
    <3>1. i + KeyFrames > KeyFrames /\ (i + KeyFrames) - KeyFrames = i
      BY <2>1
    <3>2. i + KeyFrames \in 1..Len(parts) /\ p = parts[i + KeyFrames]
      BY <1>3
    <3>3. parts[i + KeyFrames] \in Parts
      BY <1>2, <3>2
    <3> QED
      BY <1>2, <3>1, <3>2, <3>3
  <2> HIDE DEF p
  <2>3. p.packed \in 0..1
    BY <2>2 DEF Parts
  <2>4. (IF snappy /\ p.packed > 0 THEN p.packed - 1 ELSE p.packed) = 0
    <3>1. p.packed = 0 \/ p.packed = 1
      BY <2>3
    <3>2. CASE p.packed = 0
      BY <3>2
    <3>3. CASE p.packed = 1
      <4>1. snappy
        BY <2>2, <3>3
      <4> QED
        BY <3>3, <4>1
    <3> QED
      BY <3>1, <3>2, <3>3
  <2>5. Unpack(p) = Part(i, WordOf(m, i), 0)
    BY <2>2, <2>4 DEF Unpack
  <2> QED
    BY <2>5 DEF p
<1> QED
  BY <1>3, <1>4 DEF f

\* The messages of a subscriber are numbered.
LEMMA NumbersType ==
  ASSUME PublishInv, NEW s \in Subscribers
  PROVE  /\ \A i \in DOMAIN got[s] : got[s][i][1] \in Nat
         /\ \A i \in DOMAIN queue[s] : queue[s][i][1] \in Nat
<1>1. \A x \in Messages \X Seq(Parts) : x[1] \in Nat
  BY FramesType DEF Messages
<1>2. got[s] \in Seq(Messages \X Seq(Parts))
      /\ queue[s] \in Seq(Messages \X Seq(Parts))
  BY DEF PublishInv, TypeOK
<1> DEFINE S == Messages \X Seq(Parts)
<1> HIDE DEF S
<1>3. \A q \in Seq(S) : \A i \in DOMAIN q : q[i] \in S
  OBVIOUS
<1> QED
  BY <1>1, <1>2, <1>3 DEF S

\* The steps that leave the queues and the workers alone.
LEMMA QuietDelivery ==
  ASSUME PublishInv, DeliveryInv,
         UNCHANGED <<sendkey, dropkey, queue, got>>,
         MainPollIn \/ ((taken' = taken) /\ (interrupted => interrupted')
                          /\ (mpc' = "frame" => mpc = "frame"))
  PROVE  DeliveryInv'
<1>1. GotOriginals'
  BY DEF DeliveryInv, GotOriginals
<1>2. ASSUME NEW n, Past(n), n \in Nat PROVE Past(n)'
  <2>1. taken \in Nat
    BY InHandType
  <2>2. CASE MainPollIn
    BY <1>2, <2>1, <2>2 DEF Past, MainPollIn
  <2>3. CASE (taken' = taken) /\ (interrupted => interrupted')
             /\ (mpc' = "frame" => mpc = "frame")
    BY <1>2, <2>3 DEF Past
  <2> QED
    BY <2>2, <2>3
<1>3. /\ \A s \in Subscribers : \A i \in DOMAIN got[s] : got[s][i][1] \in Nat
      /\ \A s \in Subscribers : \A i \in DOMAIN queue[s] :
           queue[s][i][1] \in Nat
  BY NumbersType
<1>4. InOrder'
  BY <1>2, <1>3 DEF DeliveryInv, InOrder
<1> QED
  BY <1>1, <1>4 DEF DeliveryInv

\* Publishing a message puts it after all that were published before.
LEMMA FrameDelivery ==
  ASSUME PublishInv, DeliveryInv, MainFrame
  PROVE  DeliveryInv'
<1>1. /\ mpc = "frame" /\ ~interrupted /\ interrupted' = interrupted
      /\ UNCHANGED <<sendkey, dropkey, taken, got>>
  BY DEF MainFrame, optionVars, signalVars
<1>2. PICK parts \in Seq(Parts), room \in SUBSET joined :
        \/ UNCHANGED <<mpc, queue>>
        \/ /\ mpc' = "loop"
           /\ queue' = [s \in Subscribers |->
                          IF s \in room /\ Matches(s, parts)
                          THEN Append(queue[s], <<taken, parts>>)
                          ELSE queue[s]]
  BY FrameCases
<1>3. CASE UNCHANGED <<mpc, queue>>
  BY <1>1, <1>3, QuietDelivery
<1>4. CASE /\ mpc' = "loop"
           /\ queue' = [s \in Subscribers |->
                          IF s \in room /\ Matches(s, parts)
                          THEN Append(queue[s], <<taken, parts>>)
                          ELSE queue[s]]
  <2>1. GotOriginals'
    BY <1>1 DEF DeliveryInv, GotOriginals
  <2>2. taken \in Nat
    BY InHandType
  <2>3. ASSUME NEW s \in Subscribers
        PROVE  /\ \A i \in DOMAIN got[s] : got[s][i][1] < taken
               /\ \A i \in DOMAIN queue[s] : queue[s][i][1] < taken
    BY <1>1 DEF DeliveryInv, InOrder, Past
  <2>4. ASSUME NEW s \in Subscribers, NEW i \in DOMAIN queue'[s]
        PROVE  \/ i \in DOMAIN queue[s] /\ queue'[s][i] = queue[s][i]
               \/ /\ queue'[s][i][1] = taken /\ i \notin DOMAIN queue[s]
                  /\ \A j \in DOMAIN queue'[s] :
                       j # i => j \in DOMAIN queue[s] /\ j < i
    <3> DEFINE x == <<taken, parts>>
               S == Messages \X Seq(Parts)
    <3>1. queue[s] \in Seq(S) /\ x \in S /\ x[1] = taken
      BY <1>1, InHandType DEF PublishInv, TypeOK
    <3>2. queue'[s] = queue[s] \/ queue'[s] = Append(queue[s], x)
      BY <1>4
    <3> HIDE DEF x, S
    <3>3. CASE queue'[s] = queue[s]
      BY <3>3
    <3>4. CASE queue'[s] = Append(queue[s], x)
      <4>1. /\ Len(queue[s]) \in Nat /\ DOMAIN queue[s] = 1..Len(queue[s])
            /\ DOMAIN queue'[s] = 1..(Len(queue[s]) + 1)
            /\ queue'[s][Len(queue[s]) + 1] = x
            /\ \A j \in 1..Len(queue[s]) : queue'[s][j] = queue[s][j]
        BY <3>1, <3>4, AppendFacts
      <4>2. CASE i \in 1..Len(queue[s])
        BY <4>1, <4>2
      <4>3. CASE i = Len(queue[s]) + 1
        BY <3>1, <4>1, <4>3
      <4> QED
        BY <4>1, <4>2, <4>3
    <3> QED
      BY <3>2, <3>3, <3>4
  <2>5. InOrder'
    <3> SUFFICES ASSUME NEW s \in Subscribers
                 PROVE  /\ \A i \in DOMAIN queue'[s] :
                             \A j \in DOMAIN queue'[s] :
                               i < j => queue'[s][i][1] < queue'[s][j][1]
                        /\ \A i \in DOMAIN got[s] : \A j \in DOMAIN queue'[s] :
                             got[s][i][1] < queue'[s][j][1]
                        /\ \A i \in DOMAIN got[s] : got[s][i][1] <= taken
                        /\ \A i \in DOMAIN queue'[s] : queue'[s][i][1] <= taken
      <4>1. got' = got /\ \A n : n <= taken => Past(n)'
        BY <1>1, <1>4 DEF Past
      <4>2. \A s \in Subscribers :
              \A i \in DOMAIN got[s] : \A j \in DOMAIN got[s] :
                i < j => got[s][i][1] < got[s][j][1]
        BY Zenon DEF DeliveryInv, InOrder
      <4> QED
        BY <4>1, <4>2, Zenon DEF InOrder
    <3>1. /\ \A i \in DOMAIN got[s] : got[s][i][1] \in Nat
          /\ \A i \in DOMAIN queue[s] : queue[s][i][1] \in Nat
      BY NumbersType
    <3>2. ASSUME NEW i \in DOMAIN queue'[s], NEW j \in DOMAIN queue'[s], i < j
          PROVE  queue'[s][i][1] < queue'[s][j][1]
      <4>1. DOMAIN queue'[s] \subseteq Nat
        <5>1. queue'[s] = queue[s]
              \/ queue'[s] = Append(queue[s], <<taken, parts>>)
          BY <1>4
        <5>2. queue[s] \in Seq(Messages \X Seq(Parts))
              /\ <<taken, parts>> \in Messages \X Seq(Parts)
          BY <1>1, InHandType DEF PublishInv, TypeOK
        <5> QED
          BY <5>1, <5>2
      <4>2. i \in DOMAIN queue[s] /\ queue'[s][i] = queue[s][i]
        BY <2>4, <3>2, <4>1
      <4>3. CASE j \in DOMAIN queue[s] /\ queue'[s][j] = queue[s][j]
        BY <3>2, <4>2, <4>3 DEF DeliveryInv, InOrder
      <4>4. CASE queue'[s][j][1] = taken
        BY <2>3, <4>2, <4>4
      <4> QED
        BY <2>4, <4>3, <4>4
    <3>3. ASSUME NEW i \in DOMAIN got[s], NEW j \in DOMAIN queue'[s]
          PROVE  got[s][i][1] < queue'[s][j][1]
      <4>1. CASE j \in DOMAIN queue[s] /\ queue'[s][j] = queue[s][j]
        BY <4>1 DEF DeliveryInv, InOrder
      <4>2. CASE queue'[s][j][1] = taken
        BY <2>3, <4>2
      <4> QED
        BY <2>4, <4>1, <4>2
    <3>4. ASSUME NEW i \in DOMAIN queue'[s]
          PROVE  queue'[s][i][1] <= taken
      <4>1. CASE i \in DOMAIN queue[s] /\ queue'[s][i] = queue[s][i]
        <5>1. queue[s][i][1] \in Nat /\ queue[s][i][1] < taken
          BY <2>3, <3>1, <4>1
        <5> QED
          BY <2>2, <4>1, <5>1
      <4>2. CASE queue'[s][i][1] = taken
        BY <2>2, <4>2
      <4> QED
        BY <2>4, <4>1, <4>2
    <3>5. ASSUME NEW i \in DOMAIN got[s]
          PROVE  got[s][i][1] <= taken
      BY <2>2, <2>3, <3>1
    <3> QED
      BY <3>2, <3>3, <3>4, <3>5
  <2> QED
    BY <2>1, <2>5 DEF DeliveryInv
<1> QED
  BY <1>2, <1>3, <1>4

\* A worker's message is the one that came first to the subscriber.
LEMMA TakeDelivery ==
  ASSUME PublishInv, DeliveryInv, NEW s \in Subscribers, Take(s)
  PROVE  DeliveryInv'
<1> DEFINE m == Head(queue[s])
           parts == IF dropkey[s] THEN Tail(m[2]) ELSE m[2]
           x == <<m[1], [i \in DOMAIN parts |-> Unpack(parts[i])]>>
           S == Messages \X Seq(Parts)
<1>1. /\ queue[s] # <<>>
      /\ queue' = [queue EXCEPT ![s] = Tail(@)]
      /\ got' = [got EXCEPT ![s] = Append(@, x)]
      /\ UNCHANGED <<sendkey, dropkey, mpc, taken, interrupted>>
  BY DEF Take, optionVars, mainVars, signalVars
<1>2. queue \in [Subscribers -> Seq(S)] /\ got \in [Subscribers -> Seq(S)]
  BY DEF PublishInv, TypeOK
<1>3. m = queue[s][1] /\ 1 \in DOMAIN queue[s]
  BY <1>1, <1>2
<1>4. m[1] \in Messages /\ Carries(KeyFrames, snappy, m[2], m[1], Frames[m[1]])
  BY <1>3 DEF PublishInv, QueueInv
<1>5. x[1] = queue[s][1][1]
  BY <1>3
<1>6. dropkey[s] = sendkey => x[2] = Original(x[1])
  <2> DEFINE u == [i \in DOMAIN parts |-> Unpack(parts[i])]
  <2>1. ASSUME dropkey[s] = sendkey PROVE u = Original(m[1])
    <3>2. parts = IF sendkey THEN Tail(m[2]) ELSE m[2]
      BY <2>1, Zenon
    <3> HIDE DEF parts
    <3>1. /\ DOMAIN parts = 1..Frames[m[1]]
          /\ \A i \in 1..Frames[m[1]] :
               Unpack(parts[i]) = Part(i, WordOf(m[1], i), 0)
      BY <1>4, <3>2, UnpackedIsOriginal
    <3> QED
      BY <3>1 DEF Original
  <2> HIDE DEF u
  <2>2. <<m[1], u>>[1] = m[1] /\ <<m[1], u>>[2] = u
    OBVIOUS
  <2> QED
    BY <2>1, <2>2 DEF u
<1>7. \A t \in Subscribers :
        /\ queue'[t] = IF t = s THEN Tail(queue[s]) ELSE queue[t]
        /\ got'[t] = IF t = s THEN Append(got[s], x) ELSE got[t]
  BY <1>1, <1>2
<1> HIDE DEF m, x, S
<1>8. /\ got[s] \in Seq(S) /\ Len(got[s]) \in Nat
      /\ DOMAIN got[s] = 1..Len(got[s])
      /\ DOMAIN got'[s] = 1..(Len(got[s]) + 1)
      /\ got'[s][Len(got[s]) + 1] = x
      /\ \A i \in 1..Len(got[s]) : got'[s][i] = got[s][i]
  <2>1. got[s] \in Seq(S) /\ got'[s] = Append(got[s], x)
    BY <1>2, <1>7
  <2>2. x \in S
    <3>1. m[2] \in Seq(Parts) /\ m[2] # <<>>
      BY <1>4, CarriesSome
    <3>2. snappy \in BOOLEAN
      BY DEF PublishInv, TypeOK
    <3>3. [i \in DOMAIN parts |-> Unpack(parts[i])] \in Seq(Parts)
      BY <3>1, <3>2, UnpackType
    <3> QED
      BY <1>4, <3>3 DEF x, S
  <2> QED
    BY <2>1, <2>2
<1>9. /\ Len(queue[s]) \in Nat /\ DOMAIN queue[s] = 1..Len(queue[s])
      /\ DOMAIN queue'[s] = 1..(Len(queue[s]) - 1)
      /\ \A i \in 1..(Len(queue[s]) - 1) : queue'[s][i] = queue[s][i + 1]
  BY <1>1, <1>2, <1>7
<1>12. \A i \in DOMAIN got'[s] :
         \/ i \in DOMAIN got[s] /\ got'[s][i] = got[s][i]
         \/ i = Len(got[s]) + 1 /\ got'[s][i] = x
  <2>1. \A n \in Nat : \A i \in 1..(n + 1) : i \in 1..n \/ i = n + 1
    OBVIOUS
  <2> QED
    BY <1>8, <2>1
<1>13. \A i \in DOMAIN queue'[s] :
         i \in Nat /\ i + 1 \in DOMAIN queue[s]
           /\ queue'[s][i] = queue[s][i + 1]
  <2>1. \A n \in Nat : \A i \in 1..(n - 1) : i \in Nat /\ i + 1 \in 1..n
    OBVIOUS
  <2> QED
    BY <1>9, <2>1
<1>10. GotOriginals'
  <2> SUFFICES ASSUME NEW t \in Subscribers, dropkey[t] = sendkey,
                      NEW i \in DOMAIN got'[t]
               PROVE  got'[t][i][2] = Original(got'[t][i][1])
    BY <1>1 DEF GotOriginals, Original, WordOf, Part
  <2>1. CASE t # s \/ (i \in DOMAIN got[t] /\ got'[t][i] = got[t][i])
    BY <1>7, <2>1 DEF DeliveryInv, GotOriginals
  <2>2. CASE t = s /\ got'[t][i] = x
    BY <1>6, <2>2
  <2>3. CASE t = s
    BY <1>12, <2>1, <2>2, <2>3
  <2> QED
    BY <2>1, <2>3
<1>11. InOrder'
  <2>2. ASSUME NEW t \in Subscribers, t # s
        PROVE  got'[t] = got[t] /\ queue'[t] = queue[t]
    BY <1>7, <2>2
  <2>4. \A i \in DOMAIN got[s] : got[s][i][1] < x[1]
    BY <1>3, <1>5 DEF DeliveryInv, InOrder
  <2>5. \A i \in DOMAIN queue'[s] : x[1] < queue'[s][i][1]
    <3> SUFFICES ASSUME NEW i \in DOMAIN queue'[s]
                 PROVE  queue[s][1][1] < queue'[s][i][1]
      BY <1>5
    <3>1. i + 1 \in DOMAIN queue[s] /\ 1 < i + 1
          /\ queue'[s][i] = queue[s][i + 1]
      BY <1>9, <1>13
    <3> QED
      BY <1>3, <3>1 DEF DeliveryInv, InOrder
  <2>6. ASSUME NEW i \in DOMAIN got'[s], NEW j \in DOMAIN got'[s], i < j
        PROVE  got'[s][i][1] < got'[s][j][1]
    <3>1. i \in DOMAIN got[s] /\ got'[s][i] = got[s][i]
      <4>1. i # Len(got[s]) + 1
        BY <1>8, <2>6
      <4> QED
        BY <1>12, <4>1
    <3>2. CASE j \in DOMAIN got[s] /\ got'[s][j] = got[s][j]
      BY <2>6, <3>1, <3>2 DEF DeliveryInv, InOrder
    <3>3. CASE got'[s][j] = x
      BY <2>4, <3>1, <3>3
    <3> QED
      BY <1>12, <3>2, <3>3
  <2>7. ASSUME NEW i \in DOMAIN queue'[s], NEW j \in DOMAIN queue'[s], i < j
        PROVE  queue'[s][i][1] < queue'[s][j][1]
    <3>1. /\ i + 1 \in DOMAIN queue[s] /\ queue'[s][i] = queue[s][i + 1]
          /\ j + 1 \in DOMAIN queue[s] /\ queue'[s][j] = queue[s][j + 1]
          /\ i + 1 < j + 1
      BY <1>13, <2>7
    <3> QED
      BY <3>1 DEF DeliveryInv, InOrder
  <2>8. ASSUME NEW i \in DOMAIN got'[s], NEW j \in DOMAIN queue'[s]
        PROVE  got'[s][i][1] < queue'[s][j][1]
    <3>1. j + 1 \in DOMAIN queue[s] /\ queue'[s][j] = queue[s][j + 1]
      BY <1>13
    <3>2. CASE i \in DOMAIN got[s] /\ got'[s][i] = got[s][i]
      BY <3>1, <3>2 DEF DeliveryInv, InOrder
    <3>3. CASE got'[s][i] = x
      BY <2>5, <3>3
    <3> QED
      BY <1>12, <3>2, <3>3
  <2>9. ASSUME NEW i \in DOMAIN got'[s] PROVE Past(got'[s][i][1])
    <3>1. CASE i \in DOMAIN got[s] /\ got'[s][i] = got[s][i]
      BY <3>1 DEF DeliveryInv, InOrder
    <3>2. CASE got'[s][i] = x
      BY <1>3, <1>5, <3>2 DEF DeliveryInv, InOrder
    <3> QED
      BY <1>12, <3>1, <3>2
  <2>10. ASSUME NEW i \in DOMAIN queue'[s] PROVE Past(queue'[s][i][1])
    <3>1. i + 1 \in DOMAIN queue[s] /\ queue'[s][i] = queue[s][i + 1]
      BY <1>13
    <3> QED
      BY <3>1 DEF DeliveryInv, InOrder
  <2>11. ASSUME NEW t \in Subscribers
         PROVE  /\ \A i \in DOMAIN got'[t] : \A j \in DOMAIN got'[t] :
                     i < j => got'[t][i][1] < got'[t][j][1]
                /\ \A i \in DOMAIN queue'[t] : \A j \in DOMAIN queue'[t] :
                     i < j => queue'[t][i][1] < queue'[t][j][1]
                /\ \A i \in DOMAIN got'[t] : \A j \in DOMAIN queue'[t] :
                     got'[t][i][1] < queue'[t][j][1]
                /\ \A i \in DOMAIN got'[t] : Past(got'[t][i][1])
                /\ \A i \in DOMAIN queue'[t] : Past(queue'[t][i][1])
    <3>1. CASE t = s
      BY <2>6, <2>7, <2>8, <2>9, <2>10, <3>1
    <3>2. CASE t # s
      BY <2>2, <3>2 DEF DeliveryInv, InOrder
    <3> QED
      BY <3>1, <3>2
  <2> QED
    BY <1>1, <2>11 DEF InOrder, Past
<1> QED
  BY <1>10, <1>11 DEF DeliveryInv

\* Whatever the sizes of the messages, the high-water mark and the order in
\* which subscribers come and take: where publish_sendkey and
\* subscribe_dropkey agree, workers get the messages as they were sent, each at
\* most once and in order.
THEOREM OriginalsDelivered == Spec => []WorkersGetOriginals
<1>1. Init => DeliveryInv
  BY DEF Init, DeliveryInv, GotOriginals, InOrder
<1>2. PublishInv /\ DeliveryInv /\ [Next]_vars => DeliveryInv'
  <2> SUFFICES ASSUME PublishInv, DeliveryInv, [Next]_vars PROVE DeliveryInv'
    OBVIOUS
  <2>1. CASE MainPollIn
    <3>1. UNCHANGED <<sendkey, dropkey, queue, got>>
      BY <2>1 DEF MainPollIn, optionVars
    <3> QED
      BY <2>1, <3>1, QuietDelivery
  <2>2. CASE MainLoop \/ MainInterrupted \/ Signal
             \/ (\E s \in Subscribers : Join(s)) \/ UNCHANGED vars
    <3>1. /\ UNCHANGED <<sendkey, dropkey, queue, got, taken>>
          /\ interrupted => interrupted'
          /\ mpc' = "frame" => mpc = "frame"
      BY <2>2 DEF MainLoop, MainInterrupted, Signal, Join, vars, optionVars,
                  signalVars, mainVars
    <3> QED
      BY <3>1, QuietDelivery
  <2>3. CASE MainFrame
    BY <2>3, FrameDelivery
  <2>4. ASSUME NEW s \in Subscribers, Take(s) PROVE DeliveryInv'
    BY <2>4, TakeDelivery
  <2> QED
    BY <2>1, <2>2, <2>3, <2>4 DEF Next, MainStep
<1>3. PublishInv /\ DeliveryInv => WorkersGetOriginals
  <2> SUFFICES ASSUME PublishInv, DeliveryInv,
                      NEW s \in Subscribers, dropkey[s] = sendkey,
                      NEW i \in DOMAIN got[s]
               PROVE  /\ got[s][i][2] = Original(got[s][i][1])
                      /\ i > 1 => got[s][i][1] > got[s][i - 1][1]
    BY DEF WorkersGetOriginals, Original
  <2>1. got[s][i][2] = Original(got[s][i][1])
    BY DEF DeliveryInv, GotOriginals
  <2>2. ASSUME i > 1 PROVE got[s][i][1] > got[s][i - 1][1]
    <3>1. got[s] \in Seq(Messages \X Seq(Parts))
      BY DEF PublishInv, TypeOK
    <3>2. i \in Nat /\ i - 1 \in DOMAIN got[s] /\ i - 1 < i
      BY <2>2, <3>1
    <3>3. got[s][i - 1][1] < got[s][i][1]
      BY <3>2 DEF DeliveryInv, InOrder
    <3>4. got[s][i][1] \in Nat /\ got[s][i - 1][1] \in Nat
      BY <3>2, NumbersType
    <3> QED
      BY <3>3, <3>4
  <2> QED
    BY <2>1, <2>2
<1> QED
  BY <1>1, <1>2, <1>3, PublishAlways, PTL DEF Spec
-----------------------------------------------------------------------------
(***************************************************************************)
(* Who is sent a message: what the PUB socket compares, and what follows   *)
(* for the messages that a subscriber has had or is still to take.         *)
(***************************************************************************)
\* What it is for one word to begin another.
LEMMA PrefixMeans ==
  ASSUME NEW v \in Seq(Nat), NEW w \in Seq(Nat)
  PROVE  IsPrefix(v, w) <=>
           Len(v) <= Len(w) /\ \A i \in 1..Len(v) : v[i] = w[i]
<1>1. Len(v) \in Nat /\ Len(w) \in Nat
  OBVIOUS
<1>2. SubSeq(v, 1, Len(v)) = v
  BY <1>1
<1>3. ASSUME Len(v) <= Len(w)
      PROVE  /\ SubSeq(w, 1, Len(v)) \in Seq(Nat)
             /\ Len(SubSeq(w, 1, Len(v))) = Len(v)
             /\ \A i \in 1..Len(v) : SubSeq(w, 1, Len(v))[i] = w[i]
  <2> DEFINE n == Len(v)
  <2>1. 1 \in Int /\ n \in Nat /\ n \in Int /\ n <= Len(w)
    BY <1>1, <1>3
  <2> HIDE DEF n
  <2>2. \A i \in 1..n : w[i] \in Nat
    BY <1>1, <2>1
  <2>3. /\ SubSeq(w, 1, n) \in Seq(Nat)
        /\ Len(SubSeq(w, 1, n)) = IF 1 <= n THEN n - 1 + 1 ELSE 0
        /\ \A i \in 1..(n - 1 + 1) : SubSeq(w, 1, n)[i] = w[1 + i - 1]
    BY <2>1, <2>2, SubSeqProperties
  <2>4. /\ SubSeq(w, 1, n) \in Seq(Nat)
        /\ Len(SubSeq(w, 1, n)) = n
        /\ \A i \in 1..n : SubSeq(w, 1, n)[i] = w[i]
    BY <2>1, <2>3
  <2> QED
    BY <2>4 DEF n
<1>4. ASSUME Len(v) <= Len(w), \A i \in 1..Len(v) : v[i] = w[i]
      PROVE  v = SubSeq(w, 1, Len(v))
  BY <1>1, <1>3, <1>4, SeqEqual
<1> QED
  BY <1>2, <1>3, <1>4, Zenon DEF IsPrefix

\* A word with its length before it.
LEMMA PackedWord ==
  ASSUME NEW v \in Seq(Nat)
  PROVE  /\ <<Len(v)>> \o v \in Seq(Nat)
         /\ Len(<<Len(v)>> \o v) = Len(v) + 1
         /\ (<<Len(v)>> \o v)[1] = Len(v)
         /\ \A i \in 1..Len(v) : (<<Len(v)>> \o v)[i + 1] = v[i]
<1>1. <<Len(v)>> \in Seq(Nat) /\ Len(<<Len(v)>>) = 1 /\ <<Len(v)>>[1] = Len(v)
  OBVIOUS
<1> QED
  BY <1>1

\* A compressed word begins another only if they are the same.
LEMMA PackedPrefix ==
  ASSUME NEW v \in Seq(Nat), NEW w \in Seq(Nat),
         IsPrefix(<<Len(v)>> \o v, <<Len(w)>> \o w)
  PROVE  IsPrefix(v, w)
<1> DEFINE a == <<Len(v)>> \o v
           b == <<Len(w)>> \o w
<1>1. /\ a \in Seq(Nat) /\ Len(a) = Len(v) + 1 /\ a[1] = Len(v)
      /\ \A i \in 1..Len(v) : a[i + 1] = v[i]
  BY PackedWord
<1>2. /\ b \in Seq(Nat) /\ Len(b) = Len(w) + 1 /\ b[1] = Len(w)
      /\ \A i \in 1..Len(w) : b[i + 1] = w[i]
  BY PackedWord
<1>3. IsPrefix(a, b)
  OBVIOUS
<1> HIDE DEF a, b
<1>4. \A i \in 1..Len(a) : a[i] = b[i]
  BY <1>1, <1>2, <1>3, PrefixMeans
<1>5. Len(v) \in Nat /\ Len(w) \in Nat
  OBVIOUS
<1>6. Len(v) = Len(w)
  BY <1>1, <1>2, <1>4, <1>5
<1>7. ASSUME NEW i \in 1..Len(v) PROVE v[i] = w[i]
  <2>1. i + 1 \in 1..Len(a) /\ i \in 1..Len(w)
    BY <1>1, <1>5, <1>6
  <2> QED
    BY <1>1, <1>2, <1>4, <2>1
<1> QED
  BY <1>5, <1>6, <1>7, PrefixMeans

\* The empty word begins every word, and every word itself.
LEMMA PrefixTrivial ==
  ASSUME NEW w \in Seq(Nat)
  PROVE  IsPrefix(<<>>, w) /\ IsPrefix(w, w)
<1>1. <<>> \in Seq(Nat) /\ Len(<<>>) = 0 /\ Len(w) \in Nat
  OBVIOUS
<1>2. IsPrefix(w, w)
  BY <1>1, PrefixMeans
<1>3. IsPrefix(<<>>, w)
  BY <1>1, PrefixMeans
<1> QED
  BY <1>2, <1>3

\* A sequence of messages has message m.
Has(q, m) == \E i \in DOMAIN q : q[i][1] = m

\* A message more.
LEMMA HasAppend ==
  ASSUME NEW S, NEW q \in Seq(S), NEW x \in S, NEW m
  PROVE  Has(Append(q, x), m) <=> Has(q, m) \/ x[1] = m
<1> DEFINE r == Append(q, x)
<1>1. /\ Len(q) \in Nat /\ DOMAIN q = 1..Len(q)
      /\ DOMAIN r = 1..(Len(q) + 1) /\ r[Len(q) + 1] = x
      /\ \A i \in DOMAIN q : r[i] = q[i]
  BY AppendFacts
<1> HIDE DEF r
<1>2. DOMAIN r = DOMAIN q \cup {Len(q) + 1}
  BY <1>1
<1>3. Has(r, m) <=> Has(q, m) \/ x[1] = m
  BY <1>1, <1>2 DEF Has
<1> QED
  BY <1>3 DEF r

\* A message less.
LEMMA HasTail ==
  ASSUME NEW S, NEW q \in Seq(S), q # <<>>, NEW m
  PROVE  Has(q, m) <=> q[1][1] = m \/ Has(Tail(q), m)
<1> DEFINE r == Tail(q)
<1>1. /\ Len(q) \in Nat \ {0} /\ DOMAIN q = 1..Len(q)
      /\ DOMAIN r = 1..(Len(q) - 1)
      /\ \A i \in 1..(Len(q) - 1) : r[i] = q[i + 1]
  OBVIOUS
<1> HIDE DEF r
<1>2. ASSUME Has(q, m) PROVE q[1][1] = m \/ Has(r, m)
  <2>1. PICK i \in DOMAIN q : q[i][1] = m
    BY <1>2 DEF Has
  <2>2. CASE i = 1
    BY <2>1, <2>2
  <2>3. CASE i # 1
    <3>1. i - 1 \in 1..(Len(q) - 1) /\ (i - 1) + 1 = i
      BY <1>1, <2>3
    <3>2. r[i - 1] = q[i]
      BY <1>1, <3>1
    <3> QED
      BY <1>1, <2>1, <3>1, <3>2 DEF Has
  <2> QED
    BY <2>2, <2>3
<1>3. ASSUME Has(r, m) PROVE Has(q, m)
  <2>1. PICK i \in DOMAIN r : r[i][1] = m
    BY <1>3 DEF Has
  <2>2. i + 1 \in DOMAIN q /\ r[i] = q[i + 1]
    BY <1>1
  <2> QED
    BY <2>1, <2>2 DEF Has
<1>4. ASSUME q[1][1] = m PROVE Has(q, m)
  <2>1. 1 \in DOMAIN q
    BY <1>1
  <2> QED
    BY <1>4, <2>1 DEF Has
<1>5. Has(q, m) <=> q[1][1] = m \/ Has(r, m)
  BY <1>2, <1>3, <1>4, Zenon
<1> QED
  BY <1>5 DEF r

\* Two sequences.
LEMMA HasConcat ==
  ASSUME NEW S, NEW a \in Seq(S), NEW b \in Seq(S), NEW m
  PROVE  Has(a \o b, m) <=> Has(a, m) \/ Has(b, m)
<1> DEFINE r == a \o b
<1>1. /\ Len(a) \in Nat /\ Len(b) \in Nat
      /\ DOMAIN a = 1..Len(a) /\ DOMAIN b = 1..Len(b)
      /\ DOMAIN r = 1..(Len(a) + Len(b))
      /\ \A i \in 1..Len(a) : r[i] = a[i]
      /\ \A i \in 1..Len(b) : r[Len(a) + i] = b[i]
  <2>1. r \in Seq(S) /\ Len(r) = Len(a) + Len(b)
    OBVIOUS
  <2> QED
    BY <2>1, ConcatFacts
<1> HIDE DEF r
<1>2. ASSUME Has(r, m) PROVE Has(a, m) \/ Has(b, m)
  <2>1. PICK i \in DOMAIN r : r[i][1] = m
    BY <1>2 DEF Has
  <2>2. CASE i \in 1..Len(a)
    BY <1>1, <2>1, <2>2 DEF Has
  <2>3. CASE i \notin 1..Len(a)
    <3>1. i - Len(a) \in 1..Len(b) /\ Len(a) + (i - Len(a)) = i
      BY <1>1, <2>3
    <3>2. r[i] = b[i - Len(a)]
      BY <1>1, <3>1
    <3> QED
      BY <1>1, <2>1, <3>1, <3>2 DEF Has
  <2> QED
    BY <2>2, <2>3
<1>3. ASSUME Has(a, m) PROVE Has(r, m)
  <2>1. PICK i \in DOMAIN a : a[i][1] = m
    BY <1>3 DEF Has
  <2>2. i \in DOMAIN r /\ r[i] = a[i]
    BY <1>1
  <2> QED
    BY <2>1, <2>2 DEF Has
<1>4. ASSUME Has(b, m) PROVE Has(r, m)
  <2>1. PICK i \in DOMAIN b : b[i][1] = m
    BY <1>4 DEF Has
  <2>2. Len(a) + i \in DOMAIN r /\ r[Len(a) + i] = b[i]
    BY <1>1
  <2> QED
    BY <2>1, <2>2 DEF Has
<1>5. Has(r, m) <=> Has(a, m) \/ Has(b, m)
  BY <1>2, <1>3, <1>4, Zenon
<1> QED
  BY <1>5 DEF r

\* A subscriber that asked for all messages, or for the key that they carry.
Asked(s) == subkey[s] = <<>> \/ (sendkey /\ subkey[s] = key)

\* Where messages carry a key, a subscriber has some only if it asked for the
\* key or for its beginning.
AskedInv ==
  \A s \in Subscribers :
    sendkey /\ (got[s] # <<>> \/ queue[s] # <<>>) => IsPrefix(subkey[s], key)

\* A subscriber that asked for a message and was ready for it has it.
ServedInv ==
  \A i \in DOMAIN pub : \A s \in pub[i].ready :
    Asked(s) => Has(got[s], pub[i].msg) \/ Has(queue[s], pub[i].msg)

MatchInv == KeyInv /\ AskedInv /\ ServedInv

\* Of a message that carries the key: a subscriber it matches asked for it.
LEMMA MatchedAsked ==
  ASSUME PublishInv, NEW s \in Subscribers, NEW parts, parts[1] = KeyPart,
         Matches(s, parts)
  PROVE  IsPrefix(subkey[s], key)
<1>1. key \in Seq(Nat) /\ subkey[s] \in Seq(Nat) /\ snappy \in BOOLEAN
  BY DEF PublishInv, TypeOK
<1>2. IsPrefix(Subscription(s), Bytes(KeyPart))
  BY DEF Matches
<1>3. CASE subkey[s] = <<>>
  BY <1>1, <1>3, PrefixTrivial
<1>4. CASE ~snappy
  <2>1. Subscription(s) = subkey[s] /\ Bytes(KeyPart) = key
    BY <1>4 DEF Subscription, KeyPart, Bytes, Part
  <2> QED
    BY <1>2, <2>1
<1>5. CASE snappy /\ subkey[s] # <<>>
  <2>1. /\ Subscription(s) = <<Len(subkey[s])>> \o subkey[s]
        /\ Bytes(KeyPart) = <<Len(key)>> \o key
    BY <1>5 DEF Subscription, KeyPart, Bytes, Part
  <2> QED
    BY <1>1, <1>2, <2>1, PackedPrefix
<1> QED
  BY <1>1, <1>3, <1>4, <1>5

\* A subscriber that asked for everything, or for the key that the message
\* carries, is matched by it.
LEMMA AskedMatches ==
  ASSUME PublishInv, NEW s \in Subscribers, NEW parts,
         Bytes(parts[1]) \in Seq(Nat), sendkey => parts[1] = KeyPart,
         Asked(s)
  PROVE  Matches(s, parts)
<1>1. key \in Seq(Nat) /\ subkey[s] \in Seq(Nat) /\ snappy \in BOOLEAN
  BY DEF PublishInv, TypeOK
<1>2. CASE subkey[s] = <<>>
  <2>1. Subscription(s) = <<>>
    BY <1>2 DEF Subscription, Bytes, Part
  <2> QED
    BY <2>1, PrefixTrivial DEF Matches
<1>3. CASE subkey[s] # <<>> /\ sendkey /\ subkey[s] = key
  <2>1. Subscription(s) = Bytes(KeyPart)
    BY <1>1, <1>3 DEF Subscription, KeyPart, Bytes, Part
  <2> QED
    BY <1>3, <2>1, PrefixTrivial DEF Matches
<1> QED
  BY <1>2, <1>3 DEF Asked

\* What is on the wire is a word.
LEMMA BytesType ==
  ASSUME NEW p \in Parts
  PROVE  Bytes(p) \in Seq(Nat)
<1>1. p.word \in Seq(Nat)
  BY DEF Parts
<1> QED
  BY <1>1, PackedWord DEF Bytes

\* The subscribers a message was published to.
LEMMA ReadyJoined ==
  ASSUME PublishInv, NEW i \in DOMAIN pub
  PROVE  pub[i].ready \subseteq Subscribers
<1> DEFINE R == [msg : Messages, parts : Seq(Parts), ready : SUBSET joined]
<1>1. pub \in Seq(R) /\ joined \subseteq Subscribers
  BY DEF PublishInv, TypeOK
<1>2. \A r \in R : r.ready \subseteq joined
  OBVIOUS
<1> HIDE DEF R
<1>3. pub[i] \in R
  BY <1>1
<1> QED
  BY <1>1, <1>2, <1>3

\* Steps that publish nothing and give no worker anything.
LEMMA QuietMatch ==
  ASSUME MatchInv, UNCHANGED <<optionVars, wire, queue, got, pub>>,
         interrupted => interrupted'
  PROVE  MatchInv'
<1>1. /\ UNCHANGED <<snappy, key, sendkey, subkey, wire, queue, got, pub>>
      /\ KeyPart' = KeyPart /\ \A s : Asked(s)' = Asked(s)
  BY DEF optionVars, KeyPart, Asked
<1>2. KeyInv'
  BY <1>1 DEF MatchInv, KeyInv
<1>3. AskedInv'
  BY <1>1 DEF MatchInv, AskedInv
<1>4. ServedInv'
  BY <1>1, Zenon DEF MatchInv, ServedInv
<1> QED
  BY <1>2, <1>3, <1>4 DEF MatchInv

\* Publishing a message: those that asked for it and were ready get it.
LEMMA FrameMatch ==
  ASSUME PublishInv, MatchInv, MainFrame
  PROVE  MatchInv'
<1>1. /\ mpc = "frame" /\ ~interrupted /\ interrupted' = interrupted
      /\ UNCHANGED <<snappy, key, sendkey, subkey, taken, got>>
      /\ KeyPart' = KeyPart /\ \A s : Asked(s)' = Asked(s)
  BY DEF MainFrame, optionVars, signalVars, KeyPart, Asked
<1>2. PICK parts \in Seq(Parts), room \in SUBSET joined :
        /\ Carries(KeyFrames, snappy, parts, taken, frm + 1)
        /\ \/ wire' = parts /\ UNCHANGED <<pub, queue>>
           \/ /\ wire' = <<>>
              /\ pub' = Append(pub, Finished(parts, room))
              /\ queue' = [s \in Subscribers |->
                             IF s \in room /\ Matches(s, parts)
                             THEN Append(queue[s], <<taken, parts>>)
                             ELSE queue[s]]
        /\ sendkey => parts[1] = KeyPart
  BY FrameCases DEF MatchInv
<1>3. KeyInv'
  BY <1>1, <1>2 DEF KeyInv
<1>4. CASE wire' = parts /\ UNCHANGED <<pub, queue>>
  <2>1. AskedInv'
    BY <1>1, <1>4 DEF MatchInv, AskedInv
  <2>2. ServedInv'
    BY <1>1, <1>4, Zenon DEF MatchInv, ServedInv
  <2> QED
    BY <1>3, <2>1, <2>2 DEF MatchInv
<1>5. CASE /\ pub' = Append(pub, Finished(parts, room))
           /\ queue' = [s \in Subscribers |->
                          IF s \in room /\ Matches(s, parts)
                          THEN Append(queue[s], <<taken, parts>>)
                          ELSE queue[s]]
  <2> DEFINE x == <<taken, parts>>
             S == Messages \X Seq(Parts)
  <2>1. x \in S /\ x[1] = taken
    BY <1>1, InHandType
  <2>2. \A s \in Subscribers :
          /\ queue[s] \in Seq(S)
          /\ queue'[s] = IF s \in room /\ Matches(s, parts)
                         THEN Append(queue[s], x) ELSE queue[s]
    BY <1>5 DEF PublishInv, TypeOK
  <2>3. room \subseteq Subscribers
    BY DEF PublishInv, TypeOK
  <2>4. Bytes(parts[1]) \in Seq(Nat)
    <3>1. Len(parts) = KeyFrames + (frm + 1) /\ KeyFrames \in Nat
          /\ frm \in Nat
      BY <1>2, InHandType DEF Carries, KeyFrames
    <3>2. 1 \in 1..Len(parts)
      BY <3>1
    <3>3. parts[1] \in Parts
      BY <3>2
    <3> QED
      BY <3>3, BytesType
  <2> HIDE DEF x, S
  <2>5. ASSUME NEW s \in Subscribers, s \in room, Matches(s, parts)
        PROVE  Has(queue'[s], taken)
    <3>1. queue'[s] = Append(queue[s], x) /\ queue[s] \in Seq(S)
      BY <2>2, <2>5
    <3> QED
      BY <2>1, <3>1, HasAppend
  <2>6. ASSUME NEW s \in Subscribers, NEW m, Has(queue[s], m)
        PROVE  Has(queue'[s], m)
    <3>1. CASE queue'[s] = queue[s]
      BY <2>6, <3>1
    <3>2. CASE queue'[s] = Append(queue[s], x)
      BY <2>1, <2>2, <2>6, <3>2, HasAppend
    <3> QED
      BY <2>2, <3>1, <3>2
  <2>7. AskedInv'
    <3> SUFFICES ASSUME NEW s \in Subscribers, sendkey,
                        got[s] # <<>> \/ queue'[s] # <<>>
                 PROVE  IsPrefix(subkey[s], key)
      BY <1>1 DEF AskedInv
    <3>1. CASE s \in room /\ Matches(s, parts)
      BY <1>2, <3>1, MatchedAsked
    <3>2. CASE queue'[s] = queue[s]
      BY <3>2 DEF MatchInv, AskedInv
    <3> QED
      BY <2>2, <3>1, <3>2
  <2>8. ASSUME NEW i \in DOMAIN pub', NEW s \in pub'[i].ready, Asked(s)
        PROVE  Has(got[s], pub'[i].msg) \/ Has(queue'[s], pub'[i].msg)
    <3> DEFINE R == [msg : Messages, parts : Seq(Parts), ready : SUBSET joined]
               f == Finished(parts, room)
    <3>1. pub \in Seq(R) /\ pub' = Append(pub, f)
      BY <1>5 DEF PublishInv, TypeOK
    <3>2. f.msg = taken /\ f.ready = room
      BY DEF Finished
    <3>3. f \in R
      <4>1. taken \in Messages
        BY <1>1, InHandType
      <4> QED
        BY <4>1 DEF Finished
    <3> HIDE DEF R, f
    <3>4. /\ Len(pub) \in Nat /\ DOMAIN pub = 1..Len(pub)
          /\ DOMAIN pub' = 1..(Len(pub) + 1) /\ pub'[Len(pub) + 1] = f
          /\ \A j \in DOMAIN pub : pub'[j] = pub[j]
      BY <3>1, <3>3, AppendFacts
    <3>5. CASE i \in DOMAIN pub
      <4>1. pub'[i] = pub[i] /\ s \in pub[i].ready
        BY <2>8, <3>4, <3>5
      <4>2. s \in Subscribers
        BY <3>5, <4>1, ReadyJoined
      <4>3. Has(got[s], pub[i].msg) \/ Has(queue[s], pub[i].msg)
        BY <2>8, <3>5, <4>1, Zenon DEF MatchInv, ServedInv
      <4> QED
        BY <2>6, <4>1, <4>2, <4>3
    <3>6. CASE i = Len(pub) + 1
      <4>1. pub'[i] = f /\ s \in room /\ s \in Subscribers
        BY <2>3, <2>8, <3>2, <3>4, <3>6
      <4>2. Matches(s, parts)
        BY <1>2, <2>4, <2>8, <4>1, AskedMatches
      <4> QED
        BY <2>5, <3>2, <4>1, <4>2
    <3>7. \A n \in Nat : \A j \in 1..(n + 1) : j \in 1..n \/ j = n + 1
      OBVIOUS
    <3>8. i \in DOMAIN pub \/ i = Len(pub) + 1
      BY <3>4, <3>7
    <3> QED
      BY <3>5, <3>6, <3>8
  <2>9. ServedInv'
    BY <1>1, <2>8, Zenon DEF ServedInv
  <2> QED
    BY <1>3, <2>7, <2>9 DEF MatchInv
<1> QED
  BY <1>2, <1>4, <1>5

\* A subscriber that takes a message has had it instead of having it still to
\* take.
LEMMA TakeMatch ==
  ASSUME PublishInv, MatchInv, NEW s \in Subscribers, Take(s)
  PROVE  MatchInv'
<1> DEFINE m == Head(queue[s])
           parts == IF dropkey[s] THEN Tail(m[2]) ELSE m[2]
           u == [i \in DOMAIN parts |-> Unpack(parts[i])]
           x == <<m[1], u>>
           S == Messages \X Seq(Parts)
<1>1. /\ queue[s] # <<>>
      /\ queue' = [queue EXCEPT ![s] = Tail(@)]
      /\ got' = [got EXCEPT ![s] = Append(@, x)]
      /\ UNCHANGED <<snappy, key, sendkey, subkey, interrupted, wire, pub>>
      /\ KeyPart' = KeyPart /\ \A t : Asked(t)' = Asked(t)
  BY DEF Take, optionVars, mainVars, signalVars, KeyPart, Asked
<1>2. queue \in [Subscribers -> Seq(S)] /\ got \in [Subscribers -> Seq(S)]
  BY DEF PublishInv, TypeOK
<1>3. m = queue[s][1] /\ 1 \in DOMAIN queue[s]
  BY <1>1, <1>2
<1>4. m[1] \in Messages /\ Carries(KeyFrames, snappy, m[2], m[1], Frames[m[1]])
  BY <1>3 DEF PublishInv, QueueInv
<1>5. x \in S /\ x[1] = queue[s][1][1]
  <2>1. m[2] \in Seq(Parts) /\ m[2] # <<>> /\ snappy \in BOOLEAN
    BY <1>4, CarriesSome DEF PublishInv, TypeOK
  <2>2. u \in Seq(Parts)
    BY <2>1, UnpackType
  <2> HIDE DEF u
  <2> QED
    BY <1>3, <1>4, <2>2
<1>6. \A t \in Subscribers :
        /\ queue'[t] = IF t = s THEN Tail(queue[s]) ELSE queue[t]
        /\ got'[t] = IF t = s THEN Append(got[s], x) ELSE got[t]
  BY <1>1, <1>2
<1> HIDE DEF m, x, u, parts, S
<1>7. KeyInv'
  BY <1>1 DEF MatchInv, KeyInv
<1>8. AskedInv'
  <2> SUFFICES ASSUME NEW t \in Subscribers, sendkey,
                      got'[t] # <<>> \/ queue'[t] # <<>>
               PROVE  IsPrefix(subkey[t], key)
    BY <1>1 DEF AskedInv
  <2> QED
    BY <1>1, <1>6 DEF MatchInv, AskedInv
<1>9. ASSUME NEW t \in Subscribers, NEW n,
             Has(got[t], n) \/ Has(queue[t], n)
      PROVE  Has(got'[t], n) \/ Has(queue'[t], n)
  <2>1. CASE t # s
    BY <1>6, <1>9, <2>1
  <2>2. CASE t = s
    <3>1. Has(queue[s], n) <=> queue[s][1][1] = n \/ Has(Tail(queue[s]), n)
      BY <1>1, <1>2, HasTail
    <3>2. Has(Append(got[s], x), n) <=> Has(got[s], n) \/ x[1] = n
      BY <1>2, <1>5, HasAppend
    <3> QED
      BY <1>5, <1>6, <1>9, <2>2, <3>1, <3>2
  <2> QED
    BY <2>1, <2>2
<1>10. ASSUME NEW i \in DOMAIN pub, NEW t \in pub[i].ready, Asked(t)
       PROVE  Has(got'[t], pub[i].msg) \/ Has(queue'[t], pub[i].msg)
  <2>1. t \in Subscribers
    BY ReadyJoined
  <2>2. Has(got[t], pub[i].msg) \/ Has(queue[t], pub[i].msg)
    BY <1>10, Zenon DEF MatchInv, ServedInv
  <2> QED
    BY <1>9, <2>1, <2>2
<1>11. ServedInv'
  BY <1>1, <1>10, Zenon DEF ServedInv
<1> QED
  BY <1>7, <1>8, <1>11 DEF MatchInv

\* For any keys, compressed or not: a subscriber that asked for a message and
\* was there, with room, when it began, gets it, and where messages carry the
\* key no other does.
THEOREM SubscriptionsDecide == Spec => []SubscriptionsMatch
<1>1. Init => MatchInv
  BY DEF Init, MatchInv, KeyInv, AskedInv, ServedInv
<1>2. PublishInv /\ MatchInv /\ [Next]_vars => MatchInv'
  <2> SUFFICES ASSUME PublishInv, MatchInv, [Next]_vars PROVE MatchInv'
    OBVIOUS
  <2>1. CASE MainPollIn \/ MainLoop \/ MainInterrupted \/ Signal
             \/ (\E s \in Subscribers : Join(s)) \/ UNCHANGED vars
    <3>1. /\ UNCHANGED <<optionVars, wire, queue, got, pub>>
          /\ interrupted => interrupted'
      BY <2>1 DEF MainPollIn, MainLoop, MainInterrupted, Signal, Join, vars,
                  optionVars, signalVars, mainVars
    <3> QED
      BY <3>1, QuietMatch
  <2>2. CASE MainFrame
    BY <2>2, FrameMatch
  <2>3. ASSUME NEW s \in Subscribers, Take(s) PROVE MatchInv'
    BY <2>3, TakeMatch
  <2> QED
    BY <2>1, <2>2, <2>3 DEF Next, MainStep
<1>3. PublishInv /\ MatchInv => SubscriptionsMatch
  <2> SUFFICES ASSUME PublishInv, MatchInv,
                      NEW i \in DOMAIN pub, NEW s \in pub[i].ready
               PROVE  /\ Asked(s) => Delivered(s, pub[i].msg)
                      /\ (sendkey /\ Delivered(s, pub[i].msg))
                           => IsPrefix(subkey[s], key)
    BY Zenon DEF SubscriptionsMatch, Asked
  <2> DEFINE S == Messages \X Seq(Parts)
  <2>1. s \in Subscribers
    BY ReadyJoined
  <2>2. got[s] \in Seq(S) /\ queue[s] \in Seq(S)
    BY <2>1 DEF PublishInv, TypeOK
  <2> HIDE DEF S
  <2>3. \A m : Delivered(s, m) <=> Has(got[s], m) \/ Has(queue[s], m)
    <3>1. \A m : Has(got[s] \o queue[s], m)
                   <=> Has(got[s], m) \/ Has(queue[s], m)
      BY <2>2, HasConcat
    <3> QED
      BY <3>1, Zenon DEF Delivered, Has
  <2>4. ASSUME NEW m, Delivered(s, m)
        PROVE  got[s] # <<>> \/ queue[s] # <<>>
    <3>1. ~Has(<<>>, m)
      BY DEF Has
    <3> QED
      BY <2>3, <2>4, <3>1
  <2>5. Asked(s) => Delivered(s, pub[i].msg)
    BY <2>3, Zenon DEF MatchInv, ServedInv
  <2>6. (sendkey /\ Delivered(s, pub[i].msg)) => IsPrefix(subkey[s], key)
    BY <2>1, <2>4 DEF MatchInv, AskedInv
  <2> QED
    BY <2>5, <2>6
<1> QED
  BY <1>1, <1>2, <1>3, PublishAlways, PTL DEF Spec
=============================================================================
