--------------------------- MODULE DumpFileProofs ---------------------------
(***************************************************************************)
(* The dump file and zlmb-dump, proved for any writers, messages, buffers  *)
(* and numbers of runs, reads and faults.                                  *)
(***************************************************************************)
EXTENDS DumpFile, SequenceTheorems, TLAPS

-----------------------------------------------------------------------------
(***************************************************************************)
(* Parts of sequences, and records.                                        *)
(***************************************************************************)
\* What zlmb_dump_write puts into a file: units of records there are.
Written ==
  {u \in Units : /\ u.frame \in DOMAIN Frames[u.msg]
                 /\ u.byte \in 0..Frames[u.msg][u.frame].put}

\* Frames are records with two lengths.
LEMMA FrameLengths ==
  ASSUME NEW m \in Messages, NEW f \in DOMAIN Frames[m]
  PROVE  /\ Frames[m][f].len \in Nat /\ Frames[m][f].put \in Nat
         /\ Frames[m][f].put <= Frames[m][f].len
         /\ Len(Frames[m]) \in Nat /\ f \in 1..Len(Frames[m])
<1>1. Frames[m] \in Seq({r \in [len : Nat, put : Nat] : r.put <= r.len})
  BY FramesAssumption DEF Messages
<1>2. Frames[m][f] \in {r \in [len : Nat, put : Nat] : r.put <= r.len}
  BY <1>1
<1> QED BY <1>1, <1>2

\* A message has a number of frames.
LEMMA FrameCount ==
  ASSUME NEW m \in Messages
  PROVE  Len(Frames[m]) \in Nat /\ DOMAIN Frames[m] = 1..Len(Frames[m])
<1>1. Frames[m] \in Seq({r \in [len : Nat, put : Nat] : r.put <= r.len})
  BY FramesAssumption DEF Messages
<1> QED BY <1>1

\* The middle of a sequence.
LEMMA Middle ==
  ASSUME NEW S, NEW s \in Seq(S), NEW a \in Nat \ {0}, NEW b \in 0..Len(s)
  PROVE  /\ SubSeq(s, a, b) \in Seq(S)
         /\ Len(SubSeq(s, a, b)) = IF a <= b THEN b - a + 1 ELSE 0
         /\ \A i \in 1..(b - a + 1) : SubSeq(s, a, b)[i] = s[a + i - 1]
<1>1. \A i \in a..b : s[i] \in S
  OBVIOUS
<1>2. a \in Int /\ b \in Int
  OBVIOUS
<1> QED BY <1>1, <1>2, SubSeqProperties

\* It stays the same when the sequence grows.
LEMMA StaysMiddle ==
  ASSUME NEW S, NEW s \in Seq(S), NEW p \in Seq(S), NEW a \in Nat \ {0},
         NEW n \in 0..Len(s)
  PROVE  n \in 0..Len(s \o p) /\ SubSeq(s \o p, a, n) = SubSeq(s, a, n)
<1>1. s \o p \in Seq(S) /\ n \in 0..Len(s \o p)
  OBVIOUS
<1> DEFINE t == SubSeq(s, a, n)
           u == SubSeq(s \o p, a, n)
<1>2. /\ t \in Seq(S) /\ Len(t) = (IF a <= n THEN n - a + 1 ELSE 0)
      /\ \A i \in 1..(n - a + 1) : t[i] = s[a + i - 1]
  BY Middle
<1>3. /\ u \in Seq(S) /\ Len(u) = (IF a <= n THEN n - a + 1 ELSE 0)
      /\ \A i \in 1..(n - a + 1) : u[i] = (s \o p)[a + i - 1]
  BY <1>1, Middle
<1> HIDE DEF t, u
<1>4. \A i \in 1..Len(t) : t[i] = u[i]
  <2> SUFFICES ASSUME NEW i \in 1..Len(t)
               PROVE  t[i] = u[i]
    OBVIOUS
  <2>1. i \in 1..(n - a + 1) /\ a + i - 1 \in 1..Len(s)
    BY <1>2
  <2>2. (s \o p)[a + i - 1] = s[a + i - 1]
    BY <2>1
  <2> QED BY <2>1, <2>2, <1>2, <1>3
<1>5. t = u
  BY <1>2, <1>3, <1>4, SeqEqual
<1> QED BY <1>1, <1>5 DEF t, u

\* What is left of a sequence without its first n elements.
LEMMA Dropped ==
  ASSUME NEW S, NEW s \in Seq(S), NEW n \in Nat
  PROVE  /\ Drop(s, n) \in Seq(S)
         /\ Len(Drop(s, n)) = IF n <= Len(s) THEN Len(s) - n ELSE 0
         /\ \A i \in 1..(Len(s) - n) : Drop(s, n)[i] = s[n + i]
<1>1. Len(s) \in 0..Len(s) /\ n + 1 \in Nat \ {0}
  OBVIOUS
<1> DEFINE a == n + 1
           b == Len(s)
           d == SubSeq(s, a, b)
<1>2. /\ d \in Seq(S)
      /\ Len(d) = IF a <= b THEN b - a + 1 ELSE 0
      /\ \A i \in 1..(b - a + 1) : d[i] = s[a + i - 1]
  <2> HIDE DEF a, b
  <2> QED BY <1>1, Middle DEF a, b
<1>3. d = Drop(s, n)
  BY DEF Drop
<1> HIDE DEF d
<1> QED BY <1>1, <1>2, <1>3

\* Without the first none of them it is the sequence itself.
LEMMA DropNone ==
  ASSUME NEW S, NEW s \in Seq(S)
  PROVE  Drop(s, 0) = s
<1> DEFINE d == Drop(s, 0)
<1>1. /\ d \in Seq(S) /\ Len(d) = (IF 0 <= Len(s) THEN Len(s) - 0 ELSE 0)
      /\ \A i \in 1..(Len(s) - 0) : d[i] = s[0 + i]
  BY Dropped
<1> HIDE DEF d
<1>2. Len(d) = Len(s) /\ \A i \in 1..Len(d) : d[i] = s[i]
  BY <1>1
<1>3. d = s
  BY <1>1, <1>2, SeqEqual
<1> QED BY <1>3 DEF d

\* Its first n elements.
LEMMA Taken ==
  ASSUME NEW S, NEW s \in Seq(S), NEW n \in Nat
  PROVE  /\ Take(s, n) \in Seq(S)
         /\ Len(Take(s, n)) = IF n < Len(s) THEN n ELSE Len(s)
         /\ \A i \in DOMAIN Take(s, n) : Take(s, n)[i] = s[i]
<1> DEFINE b == IF n < Len(s) THEN n ELSE Len(s)
           d == SubSeq(s, 1, b)
<1>1. b \in 0..Len(s)
  OBVIOUS
<1>2. /\ d \in Seq(S)
      /\ Len(d) = IF 1 <= b THEN b - 1 + 1 ELSE 0
      /\ \A i \in 1..(b - 1 + 1) : d[i] = s[1 + i - 1]
  <2> HIDE DEF b
  <2> QED BY <1>1, Middle
<1>3. d = Take(s, n)
  BY DEF Take
<1> HIDE DEF d
<1> QED BY <1>1, <1>2, <1>3

\* The first k elements, and those from there to the n-th, are a first part.
LEMMA TakenThenMiddle ==
  ASSUME NEW S, NEW s \in Seq(S), NEW k \in Nat, NEW n \in 0..Len(s)
  PROVE  LET t == Take(s, k)
             u == SubSeq(s, k + 1, n)
         IN /\ Len(t) + Len(u) <= Len(s)
            /\ \A i \in 1..Len(t) : t[i] = s[i]
            /\ \A i \in 1..Len(u) : u[i] = s[Len(t) + i]
<1> DEFINE t == Take(s, k)
           a == k + 1
           u == SubSeq(s, a, n)
<1>1. /\ t \in Seq(S) /\ Len(t) = (IF k < Len(s) THEN k ELSE Len(s))
      /\ \A i \in DOMAIN t : t[i] = s[i]
  BY Taken
<1>2. /\ Len(u) = (IF a <= n THEN n - a + 1 ELSE 0)
      /\ \A i \in 1..(n - a + 1) : u[i] = s[a + i - 1]
  <2>1. a \in Nat \ {0}
    OBVIOUS
  <2> HIDE DEF a
  <2> QED BY <2>1, Middle
<1> SUFFICES /\ Len(t) + Len(u) <= Len(s)
             /\ \A i \in 1..Len(t) : t[i] = s[i]
             /\ \A i \in 1..Len(u) : u[i] = s[Len(t) + i]
  OBVIOUS
<1> HIDE DEF t, u
<1>3. CASE a <= n
  <2>1. Len(t) = k /\ Len(u) = n - k
    BY <1>1, <1>2, <1>3
  <2>2. ASSUME NEW i \in 1..Len(u)
        PROVE  u[i] = s[Len(t) + i]
    <3>1. i \in 1..(n - a + 1) /\ a + i - 1 = Len(t) + i
      BY <2>1
    <3>2. u[i] = s[a + i - 1]
      BY <3>1, <1>2
    <3> QED BY <3>1, <3>2
  <2>3. Len(t) + Len(u) <= Len(s)
    BY <2>1
  <2> QED BY <1>1, <2>2, <2>3
<1>4. CASE n < a
  <2>1. Len(u) = 0
    BY <1>2, <1>4
  <2> QED BY <1>1, <2>1
<1> QED BY <1>3, <1>4

\* Three sequences, one after the other.
LEMMA Regrouped ==
  ASSUME NEW S, NEW s \in Seq(S), NEW t \in Seq(S), NEW u \in Seq(S)
  PROVE  s \o (t \o u) = (s \o t) \o u
BY ConcatAssociative

\* A first part stays one behind g.
LEMMA PrefixBehind ==
  ASSUME NEW S, NEW g \in Seq(S), NEW s \in Seq(S), NEW t \in Seq(S),
         NEW u \in Seq(S), Len(t) + Len(u) <= Len(s),
         \A i \in 1..Len(t) : t[i] = s[i],
         \A i \in 1..Len(u) : u[i] = s[Len(t) + i]
  PROVE  /\ (g \o t) \o u \in Seq(S) /\ Len((g \o t) \o u) <= Len(g \o s)
         /\ \A i \in 1..Len((g \o t) \o u) : ((g \o t) \o u)[i] = (g \o s)[i]
<1>1. /\ (g \o t) \o u \in Seq(S)
      /\ Len((g \o t) \o u) = Len(g) + Len(t) + Len(u)
      /\ Len(g \o s) = Len(g) + Len(s) /\ Len(g \o t) = Len(g) + Len(t)
  OBVIOUS
<1>2. ASSUME NEW i \in 1..(Len(g) + Len(t) + Len(u))
      PROVE  ((g \o t) \o u)[i] = (g \o s)[i]
  <2>1. CASE i <= Len(g)
    BY <2>1
  <2>2. CASE i > Len(g) /\ i <= Len(g) + Len(t)
    <3>1. i - Len(g) \in 1..Len(t)
      BY <2>2
    <3> QED BY <2>2, <3>1
  <2>3. CASE i > Len(g) + Len(t)
    <3> DEFINE k == i - (Len(g) + Len(t))
    <3>1. k \in 1..Len(u) /\ i = Len(g) + Len(t) + k /\ Len(t) + k \in 1..Len(s)
      BY <2>3
    <3> HIDE DEF k
    <3>2. ((g \o t) \o u)[i] = u[k]
      BY <3>1, <1>1
    <3>3. (g \o s)[i] = s[Len(t) + k]
      BY <3>1
    <3> QED BY <3>1, <3>2, <3>3
  <2> QED BY <2>1, <2>2, <2>3
<1> QED BY <1>1, <1>2

\* A record is a head and what is written of the data, in order.
LEMMA RecordUnits ==
  ASSUME NEW m \in Messages, NEW f \in DOMAIN Frames[m]
  PROVE  /\ Record(m, f) \in Seq(Written)
         /\ Len(Record(m, f)) = Frames[m][f].put + 1
         /\ \A k \in 1..(Frames[m][f].put + 1) :
              Record(m, f)[k] = [msg |-> m, frame |-> f, byte |-> k - 1]
<1>1. Frames[m][f].put \in Nat /\ f \in Nat
  BY FrameLengths
<1> DEFINE n == Frames[m][f].put + 1
           r == [k \in 1..n |-> [msg |-> m, frame |-> f, byte |-> k - 1]]
<1>2. r = Record(m, f)
  BY DEF Record
<1>3. \A k \in 1..n : r[k] \in Written
  BY <1>1 DEF Written, Units
<1>4. n \in Nat
  BY <1>1
<1>5. r \in Seq(Written) /\ Len(r) = n
  <2> HIDE DEF n
  <2> QED BY <1>3, <1>4
<1> QED BY <1>2, <1>5

-----------------------------------------------------------------------------
(***************************************************************************)
(* Types.  The units in the files are those of records there are, and a    *)
(* writer has the file open only within a message.                         *)
(***************************************************************************)
FilesOK ==
  /\ files \in Seq(Seq(Written))
  /\ name \in 0..Len(files)
  /\ name = 0 => files = <<>>

WritersOK ==
  /\ fd \in [Writers -> 0..Len(files)]
  /\ buf \in [Writers -> Seq(Written)]
  /\ wmsg \in [Writers -> {0} \cup Messages]
  /\ wfrm \in [Writers -> Nat]
  /\ \A w \in Writers :
       /\ wfrm[w] = 0 \/ (wmsg[w] # 0 /\ wfrm[w] \in 1..Len(Frames[wmsg[w]]))
       /\ fd[w] # 0 => wmsg[w] # 0
       /\ fd[w] = 0 => buf[w] = <<>>
  /\ stale \in [Writers -> BOOLEAN]

HistoryOK ==
  /\ next \in 1..(Len(Frames) + 1)
  /\ owner \in [1..(next - 1) -> Writers]
  /\ \A w \in Writers : wmsg[w] # 0 => wmsg[w] < next /\ owner[wmsg[w]] = w
  /\ done \subseteq 1..(next - 1)

ReaderOK ==
  /\ rpc \in {"idle", "read", "send", "truncate", "rename"}
  /\ rfd \in 0..Len(files)
  /\ pos \in Nat /\ size \in Nat
  /\ tmp \in Seq(Written)
  /\ rpc = "rename" => name # 0
  /\ sent \in Seq(Written)
  /\ gone \in Seq(Written)

BoundsOK ==
  runs \in 0..MaxRuns /\ reads \in 0..MaxReads /\ faults \in 0..MaxFaults

TypeInv == FilesOK /\ WritersOK /\ HistoryOK /\ ReaderOK /\ BoundsOK

\* All of what is written is units.
LEMMA TypeInvImplies == TypeInv => TypeOK
<1>1. Written \subseteq Units
  BY DEF Written
<1>2. Seq(Written) \subseteq Seq(Units)
  BY <1>1
<1>3. Seq(Seq(Written)) \subseteq Seq(Seq(Units))
  BY <1>2
<1>4. ASSUME TypeInv
      PROVE  /\ name \in 0..Len(files) /\ files \in Seq(Seq(Units))
             /\ fd \in [Writers -> 0..Len(files)]
             /\ buf \in [Writers -> Seq(Units)]
             /\ wmsg \in [Writers -> {0} \cup Messages]
             /\ \A w \in Writers :
                  \/ wfrm[w] = 0
                  \/ wmsg[w] # 0 /\ wfrm[w] \in 1..Len(Frames[wmsg[w]])
  BY <1>2, <1>3, <1>4 DEF TypeInv, FilesOK, WritersOK
<1>5. ASSUME TypeInv
      PROVE  /\ next \in 1..(Len(Frames) + 1)
             /\ owner \in [1..(next - 1) -> Writers]
             /\ stale \in [Writers -> BOOLEAN]
             /\ done \subseteq Messages
  BY <1>5 DEF TypeInv, WritersOK, HistoryOK, Messages
<1>6. ASSUME TypeInv
      PROVE  /\ rpc \in {"idle", "read", "send", "truncate", "rename"}
             /\ rfd \in 0..Len(files)
             /\ pos \in Nat /\ size \in Nat
             /\ tmp \in Seq(Units) /\ sent \in Seq(Units) /\ gone \in Seq(Units)
             /\ BoundsOK
  BY <1>2, <1>6 DEF TypeInv, ReaderOK
<1> QED BY <1>4, <1>5, <1>6 DEF TypeOK, BoundsOK

\* The type invariant holds at the start.
LEMMA InitTypes == Init => TypeInv
BY FramesAssumption, BoundsAssumption
   DEF Init, TypeInv, FilesOK, WritersOK, HistoryOK, ReaderOK, BoundsOK,
       Messages

\* What zlmb-dump finds where it reads.
LEMMA RestOK ==
  ASSUME TypeInv
  PROVE  /\ Rest \in Seq(Written)
         /\ AtRecord => /\ Rest # <<>> /\ Rest[1] \in Written
                        /\ Got \in Nat /\ Counted \in Nat
<1>1. Rest \in Seq(Written)
  <2>1. CASE rfd # 0
    <3>1. files[rfd] \in Seq(Written) /\ pos \in Nat
      BY <2>1 DEF TypeInv, FilesOK, ReaderOK
    <3>2. Drop(files[rfd], pos) \in Seq(Written)
      BY <3>1, Dropped
    <3> QED BY <2>1, <3>2 DEF Rest
  <2>2. CASE rfd = 0 /\ name # 0
    BY <2>2 DEF Rest, TypeInv, FilesOK
  <2>3. CASE rfd = 0 /\ name = 0
    BY <2>3 DEF Rest
  <2> QED BY <2>1, <2>2, <2>3
<1>2. ASSUME AtRecord
      PROVE  /\ Rest # <<>> /\ Rest[1] \in Written
             /\ Got \in Nat /\ Counted \in Nat
  <2>1. Rest # <<>> /\ Len(Rest) \in Nat \ {0} /\ Rest[1] \in Written
    BY <1>1, <1>2 DEF AtRecord
  <2>2. Rest[1].msg \in Messages /\ Rest[1].frame \in DOMAIN Frames[Rest[1].msg]
    BY <2>1 DEF Written, Units
  <2>3. Frames[Rest[1].msg][Rest[1].frame].len \in Nat
    BY <2>2, FrameLengths
  <2>4. Got \in Nat
    BY <2>1, <2>3 DEF Got, Size
  <2> QED BY <2>1, <2>4 DEF Counted
<1> QED BY <1>1, <1>2

-----------------------------------------------------------------------------
(***************************************************************************)
(* Every step keeps the types.                                             *)
(***************************************************************************)
\* A writer adds p to the file it has open.
Puts(w, p) ==
  /\ fd[w] # 0
  /\ files' = [files EXCEPT ![fd[w]] = @ \o p]
  /\ name' = name

\* Units written to a file are added at its end, and no other file changes.
LEMMA FilesGrow ==
  ASSUME TypeInv, NEW w \in Writers, NEW p \in Seq(Written), Puts(w, p)
  PROVE  /\ FilesOK' /\ Len(files') = Len(files)
         /\ fd[w] \in 1..Len(files)
         /\ files'[fd[w]] = files[fd[w]] \o p
         /\ \A i \in 1..Len(files) \ {fd[w]} : files'[i] = files[i]
<1>1. fd[w] \in 1..Len(files) /\ files \in Seq(Seq(Written))
  BY DEF TypeInv, FilesOK, WritersOK, Puts
<1>2. files[fd[w]] \o p \in Seq(Written)
  BY <1>1
<1>3. /\ files' \in Seq(Seq(Written)) /\ Len(files') = Len(files)
      /\ files'[fd[w]] = files[fd[w]] \o p
      /\ \A i \in 1..Len(files) \ {fd[w]} : files'[i] = files[i]
  BY <1>1, <1>2 DEF Puts
<1>4. name # 0
  BY <1>1 DEF TypeInv, FilesOK
<1> QED BY <1>1, <1>3, <1>4 DEF TypeInv, FilesOK, Puts

\* The frames a message still has are frames.
LEMMA NextFrame ==
  ASSUME TypeInv, NEW w \in Writers, fd[w] # 0, wfrm[w] < Len(Frames[wmsg[w]])
  PROVE  /\ wmsg[w] \in Messages /\ wfrm[w] \in Nat
         /\ wfrm[w] + 1 \in DOMAIN Frames[wmsg[w]]
         /\ Len(Frames[wmsg[w]]) \in Nat
<1>1. wmsg[w] \in Messages /\ wfrm[w] \in Nat
  BY DEF TypeInv, WritersOK
<1> QED BY <1>1, FrameCount

\* What the buffer holds with the next record, and what of it is written out.
Filled(w) == buf[w] \o Record(wmsg[w], wfrm[w] + 1)

Flushed(w) ==
  IF Len(Filled(w)) <= BufUnits THEN 0
                                ELSE (Len(Filled(w)) \div BufUnits) * BufUnits

\* Whole buffers of b units fit in what they are taken from.
LEMMA WholeBuffers ==
  ASSUME NEW a \in Nat, NEW b \in Nat \ {0}
  PROVE  (a \div b) * b \in 0..a
OBVIOUS

\* What fwrite writes out and what it leaves in the buffer.
LEMMA FlushedBuffers ==
  ASSUME TypeInv, NEW w \in Writers, fd[w] # 0, wfrm[w] < Len(Frames[wmsg[w]])
  PROVE  /\ Filled(w) \in Seq(Written) /\ Flushed(w) \in 0..Len(Filled(w))
         /\ SubSeq(Filled(w), 1, Flushed(w)) \in Seq(Written)
         /\ Len(SubSeq(Filled(w), 1, Flushed(w))) = Flushed(w)
         /\ \A i \in 1..Flushed(w) :
              SubSeq(Filled(w), 1, Flushed(w))[i] = Filled(w)[i]
         /\ Drop(Filled(w), Flushed(w)) \in Seq(Written)
         /\ Len(Drop(Filled(w), Flushed(w))) = Len(Filled(w)) - Flushed(w)
         /\ \A i \in 1..(Len(Filled(w)) - Flushed(w)) :
              Drop(Filled(w), Flushed(w))[i] = Filled(w)[Flushed(w) + i]
<1>1. Filled(w) \in Seq(Written)
  <2>1. Record(wmsg[w], wfrm[w] + 1) \in Seq(Written)
    BY NextFrame, RecordUnits
  <2>2. buf[w] \in Seq(Written)
    BY DEF TypeInv, WritersOK
  <2> QED BY <2>1, <2>2 DEF Filled
<1> DEFINE all == Filled(w)
           out == Flushed(w)
           part == SubSeq(all, 1, out)
<1>2. out \in 0..Len(all)
  <2>1. \A a \in Nat : (a \div BufUnits) * BufUnits \in 0..a
    BY WholeBuffers, BoundsAssumption
  <2>2. Len(all) \in Nat
    BY <1>1
  <2> HIDE DEF all
  <2> QED BY <2>1, <2>2 DEF Flushed, all
<1>3. /\ part \in Seq(Written)
      /\ Len(part) = (IF 1 <= out THEN out - 1 + 1 ELSE 0)
      /\ \A i \in 1..(out - 1 + 1) : part[i] = all[1 + i - 1]
  <2> HIDE DEF all, out
  <2> QED BY <1>1, <1>2, Middle DEF all
<1>4. /\ Drop(all, out) \in Seq(Written)
      /\ Len(Drop(all, out)) = (IF out <= Len(all) THEN Len(all) - out ELSE 0)
      /\ \A i \in 1..(Len(all) - out) : Drop(all, out)[i] = all[out + i]
  <2> HIDE DEF all, out
  <2>1. out \in Nat
    BY <1>2
  <2> QED BY <1>1, <2>1, Dropped DEF all
<1> HIDE DEF all, out, part
<1>5. /\ Len(part) = out /\ (\A i \in 1..out : part[i] = all[i])
      /\ Len(Drop(all, out)) = Len(all) - out
  BY <1>1, <1>2, <1>3, <1>4 DEF all
<1> QED BY <1>1, <1>2, <1>3, <1>4, <1>5 DEF all, out, part

\* A step of a writer that has the file open adds p to it, and leaves b in its
\* buffer; it closes the file, or goes on with it.
WriterPuts(w, p, b) ==
  /\ Puts(w, p)
  /\ buf' = [buf EXCEPT ![w] = b]
  /\ fd' = fd \/ (fd' = [fd EXCEPT ![w] = 0] /\ b = <<>>)
  /\ UNCHANGED <<next, owner, stale, readerVars>>

\* Any such step but WriterOpen does.
LEMMA WriterPart ==
  ASSUME TypeInv, NEW w \in Writers
  PROVE  /\ WriterWrite(w) =>
              /\ WriterPuts(w, SubSeq(Filled(w), 1, Flushed(w)),
                            Drop(Filled(w), Flushed(w)))
              /\ wmsg' = wmsg /\ wfrm' = [wfrm EXCEPT ![w] = @ + 1]
              /\ wfrm[w] < Len(Frames[wmsg[w]])
              /\ fd' = fd /\ done' = done /\ faults' = faults
         /\ WriterClose(w) =>
              /\ WriterPuts(w, buf[w], <<>>) /\ fd' = [fd EXCEPT ![w] = 0]
              /\ wmsg' = [wmsg EXCEPT ![w] = 0]
              /\ wfrm' = [wfrm EXCEPT ![w] = 0]
              /\ wfrm[w] = Len(Frames[wmsg[w]])
              /\ done' = IF stale[w] THEN done ELSE done \cup {wmsg[w]}
              /\ faults' = faults
         /\ WriterFails(w) =>
              /\ WriterPuts(w, buf[w], <<>>) /\ fd' = [fd EXCEPT ![w] = 0]
              /\ wfrm[w] < Len(Frames[wmsg[w]])
              /\ \/ /\ wmsg' = [wmsg EXCEPT ![w] = 0]
                    /\ wfrm' = [wfrm EXCEPT ![w] = 0]
                 \/ /\ wmsg' = wmsg /\ wfrm' = [wfrm EXCEPT ![w] = @ + 1]
              /\ done' = done /\ faults < MaxFaults /\ faults' = faults + 1
         /\ WriterEnds(w) =>
              /\ \E p \in {buf[w], <<>>} : WriterPuts(w, p, <<>>)
              /\ fd' = [fd EXCEPT ![w] = 0]
              /\ wmsg' = [wmsg EXCEPT ![w] = 0]
              /\ wfrm' = [wfrm EXCEPT ![w] = 0]
              /\ done' = done /\ faults < MaxFaults /\ faults' = faults + 1
<1>1. wmsg = [wmsg EXCEPT ![w] = wmsg[w]]
  BY DEF TypeInv, WritersOK
<1>2. WriterWrite(w) =>
        /\ WriterPuts(w, SubSeq(Filled(w), 1, Flushed(w)),
                      Drop(Filled(w), Flushed(w)))
        /\ wmsg' = wmsg /\ wfrm' = [wfrm EXCEPT ![w] = @ + 1]
        /\ wfrm[w] < Len(Frames[wmsg[w]])
        /\ fd' = fd /\ done' = done /\ faults' = faults
  BY Zenon DEF WriterWrite, WriterPuts, Puts, Filled, Flushed, readerVars
<1>3. WriterClose(w) =>
        /\ WriterPuts(w, buf[w], <<>>) /\ fd' = [fd EXCEPT ![w] = 0]
        /\ wmsg' = [wmsg EXCEPT ![w] = 0]
        /\ wfrm' = [wfrm EXCEPT ![w] = 0]
        /\ wfrm[w] = Len(Frames[wmsg[w]])
        /\ done' = IF stale[w] THEN done ELSE done \cup {wmsg[w]}
        /\ faults' = faults
  BY Zenon DEF WriterClose, WriterPuts, Puts, readerVars
<1>4. WriterFails(w) =>
        /\ WriterPuts(w, buf[w], <<>>) /\ fd' = [fd EXCEPT ![w] = 0]
        /\ wfrm[w] < Len(Frames[wmsg[w]])
        /\ \/ /\ wmsg' = [wmsg EXCEPT ![w] = 0]
              /\ wfrm' = [wfrm EXCEPT ![w] = 0]
           \/ /\ wmsg' = wmsg /\ wfrm' = [wfrm EXCEPT ![w] = @ + 1]
        /\ done' = done /\ faults < MaxFaults /\ faults' = faults + 1
  <2> SUFFICES ASSUME WriterFails(w)
               PROVE  /\ WriterPuts(w, buf[w], <<>>)
                      /\ fd' = [fd EXCEPT ![w] = 0]
                      /\ wfrm[w] < Len(Frames[wmsg[w]])
                      /\ \/ /\ wmsg' = [wmsg EXCEPT ![w] = 0]
                            /\ wfrm' = [wfrm EXCEPT ![w] = 0]
                         \/ /\ wmsg' = wmsg
                            /\ wfrm' = [wfrm EXCEPT ![w] = @ + 1]
                      /\ done' = done /\ faults < MaxFaults
                      /\ faults' = faults + 1
    OBVIOUS
  <2>1. /\ WriterPuts(w, buf[w], <<>>) /\ fd' = [fd EXCEPT ![w] = 0]
        /\ wfrm[w] < Len(Frames[wmsg[w]])
        /\ done' = done /\ faults < MaxFaults /\ faults' = faults + 1
    BY Zenon DEF WriterFails, WriterPuts, Puts, readerVars
  <2>2. CASE wfrm[w] + 1 = Len(Frames[wmsg[w]])
    BY <2>1, <2>2 DEF WriterFails
  <2>3. CASE wfrm[w] + 1 # Len(Frames[wmsg[w]])
    BY <2>1, <2>3, <1>1 DEF WriterFails
  <2> QED BY <2>1, <2>2, <2>3
<1>5. WriterEnds(w) =>
        /\ \E p \in {buf[w], <<>>} : WriterPuts(w, p, <<>>)
        /\ fd' = [fd EXCEPT ![w] = 0]
        /\ wmsg' = [wmsg EXCEPT ![w] = 0]
        /\ wfrm' = [wfrm EXCEPT ![w] = 0]
        /\ done' = done /\ faults < MaxFaults /\ faults' = faults + 1
  BY Zenon DEF WriterEnds, WriterPuts, Puts, readerVars
<1> QED BY <1>2, <1>3, <1>4, <1>5

\* What it keeps of the types.
LEMMA PutsTypes ==
  ASSUME TypeInv, NEW w \in Writers, NEW p \in Seq(Written),
         NEW b \in Seq(Written), WriterPuts(w, p, b)
  PROVE  /\ FilesOK' /\ ReaderOK' /\ runs' = runs /\ reads' = reads
         /\ fd' \in [Writers -> 0..Len(files')]
         /\ buf' \in [Writers -> Seq(Written)]
         /\ stale' \in [Writers -> BOOLEAN]
         /\ buf'[w] = b /\ (fd'[w] = 0 => b = <<>>) /\ fd'[w] \in {0, fd[w]}
         /\ \A v \in Writers \ {w} : fd'[v] = fd[v] /\ buf'[v] = buf[v]
         /\ next' = next /\ owner' = owner
<1>1. FilesOK' /\ Len(files') = Len(files) /\ fd[w] # 0
  BY FilesGrow DEF WriterPuts, Puts
<1>2. ReaderOK' /\ runs' = runs /\ reads' = reads
  BY <1>1 DEF TypeInv, ReaderOK, WriterPuts, Puts, readerVars
<1>3. /\ fd' \in [Writers -> 0..Len(files)]
      /\ \A v \in Writers \ {w} : fd'[v] = fd[v]
      /\ fd'[w] \in {0, fd[w]}
      /\ fd'[w] = 0 => b = <<>>
  <2>1. Len(files) \in Nat /\ fd \in [Writers -> 0..Len(files)]
    BY DEF TypeInv, FilesOK, WritersOK
  <2>2. CASE fd' = fd
    BY <2>1, <2>2, <1>1
  <2>3. CASE fd' = [fd EXCEPT ![w] = 0] /\ b = <<>>
    BY <2>1, <2>3
  <2> QED BY <2>2, <2>3 DEF WriterPuts
<1>4. /\ buf' \in [Writers -> Seq(Written)] /\ buf'[w] = b
      /\ \A v \in Writers \ {w} : buf'[v] = buf[v]
  BY DEF TypeInv, WritersOK, WriterPuts
<1>5. stale' \in [Writers -> BOOLEAN]
  BY DEF TypeInv, WritersOK, WriterPuts
<1> QED BY <1>1, <1>2, <1>3, <1>4, <1>5 DEF WriterPuts

\* So whatever it does, it adds units of records.
LEMMA WriterWritten ==
  ASSUME TypeInv, NEW w \in Writers,
         WriterWrite(w) \/ WriterClose(w) \/ WriterFails(w) \/ WriterEnds(w)
  PROVE  \E p, b \in Seq(Written) : WriterPuts(w, p, b)
<1>1. CASE WriterWrite(w)
  BY <1>1, WriterPart, FlushedBuffers DEF WriterPuts, Puts
<1>2. CASE ~WriterWrite(w)
  <2>1. buf[w] \in Seq(Written) /\ <<>> \in Seq(Written)
    BY DEF TypeInv, WritersOK
  <2> QED BY <1>2, <2>1, WriterPart
<1> QED BY <1>1, <1>2

\* A writer that has the file open keeps the types.
LEMMA WriterTypes ==
  ASSUME TypeInv, NEW w \in Writers,
         WriterWrite(w) \/ WriterClose(w) \/ WriterFails(w) \/ WriterEnds(w)
  PROVE  TypeInv'
<1>2. PICK p \in Seq(Written), b \in Seq(Written) : WriterPuts(w, p, b)
  BY WriterWritten
<1>3. /\ FilesOK' /\ ReaderOK' /\ runs' = runs /\ reads' = reads
      /\ fd' \in [Writers -> 0..Len(files')]
      /\ buf' \in [Writers -> Seq(Written)]
      /\ stale' \in [Writers -> BOOLEAN]
      /\ buf'[w] = b /\ (fd'[w] = 0 => b = <<>>) /\ fd'[w] \in {0, fd[w]}
      /\ \A v \in Writers \ {w} : fd'[v] = fd[v] /\ buf'[v] = buf[v]
      /\ next' = next /\ owner' = owner
  BY <1>2, PutsTypes
<1>4. BoundsOK'
  BY <1>3, WriterPart, BoundsAssumption DEF TypeInv, BoundsOK
<1>5. fd[w] # 0 /\ wmsg[w] \in Messages
  BY <1>2 DEF WriterPuts, Puts, TypeInv, WritersOK
<1>6. \/ /\ wmsg' = [wmsg EXCEPT ![w] = 0]
         /\ wfrm' = [wfrm EXCEPT ![w] = 0]
         /\ fd' = [fd EXCEPT ![w] = 0]
      \/ /\ wmsg' = wmsg /\ wfrm' = [wfrm EXCEPT ![w] = @ + 1]
         /\ wfrm[w] < Len(Frames[wmsg[w]])
  BY WriterPart
<1>7. /\ wmsg' \in [Writers -> {0} \cup Messages] /\ wfrm' \in [Writers -> Nat]
      /\ wfrm'[w] = 0 \/ (wmsg'[w] # 0 /\ wfrm'[w] \in 1..Len(Frames[wmsg'[w]]))
      /\ fd'[w] # 0 => wmsg'[w] # 0
      /\ wmsg'[w] # 0 => wmsg'[w] = wmsg[w]
      /\ \A v \in Writers \ {w} : wmsg'[v] = wmsg[v] /\ wfrm'[v] = wfrm[v]
  <2>1. wmsg \in [Writers -> {0} \cup Messages] /\ wfrm \in [Writers -> Nat]
    BY DEF TypeInv, WritersOK
  <2>2. CASE /\ wmsg' = [wmsg EXCEPT ![w] = 0]
             /\ wfrm' = [wfrm EXCEPT ![w] = 0]
             /\ fd' = [fd EXCEPT ![w] = 0]
    BY <2>1, <2>2, <1>3 DEF TypeInv, WritersOK
  <2>3. CASE /\ wmsg' = wmsg /\ wfrm' = [wfrm EXCEPT ![w] = @ + 1]
             /\ wfrm[w] < Len(Frames[wmsg[w]])
    <3>1. wfrm[w] + 1 \in 1..Len(Frames[wmsg[w]]) /\ wmsg[w] # 0
      <4>1. wfrm[w] + 1 \in DOMAIN Frames[wmsg[w]]
        BY <2>3, <1>5, NextFrame
      <4>2. DOMAIN Frames[wmsg[w]] = 1..Len(Frames[wmsg[w]])
        BY <1>5, FrameCount
      <4> QED BY <4>1, <4>2, <1>5 DEF Messages
    <3> QED BY <2>1, <2>3, <3>1
  <2> QED BY <1>6, <2>2, <2>3
<1>8. WritersOK'
  <2>1. ASSUME NEW v \in Writers
        PROVE  /\ wfrm'[v] = 0
                    \/ (wmsg'[v] # 0 /\ wfrm'[v] \in 1..Len(Frames[wmsg'[v]]))
               /\ fd'[v] # 0 => wmsg'[v] # 0
               /\ fd'[v] = 0 => buf'[v] = <<>>
    <3>1. CASE v = w
      BY <3>1, <1>3, <1>7
    <3>2. CASE v # w
      BY <3>2, <1>3, <1>7 DEF TypeInv, WritersOK
    <3> QED BY <3>1, <3>2
  <2> QED BY <2>1, <1>3, <1>7 DEF WritersOK
<1>9. HistoryOK'
  <2>1. \A v \in Writers :
          wmsg'[v] # 0 => wmsg'[v] < next /\ owner[wmsg'[v]] = v
    BY <1>7 DEF TypeInv, HistoryOK
  <2>2. wmsg[w] \in 1..(next - 1)
    <3>1. wmsg[w] \in Nat \ {0}
      BY <1>5 DEF Messages
    <3>2. next \in Nat /\ wmsg[w] < next
      BY <3>1 DEF TypeInv, HistoryOK
    <3> QED BY <3>1, <3>2
  <2>3. done' \subseteq done \cup {wmsg[w]}
    BY WriterPart
  <2> QED BY <1>3, <2>1, <2>2, <2>3 DEF TypeInv, HistoryOK
<1> QED BY <1>3, <1>4, <1>8, <1>9 DEF TypeInv

\* Opening the file, which may make it.
LEMMA OpenFiles ==
  ASSUME TypeInv, NEW w \in Writers, WriterOpen(w)
  PROVE  /\ FilesOK' /\ name' \in 1..Len(files')
         /\ \/ name # 0 /\ files' = files /\ name' = name
            \/ name = 0 /\ files = <<>> /\ files' = <<(<<>>)>> /\ name' = 1
         /\ Len(files) <= Len(files')
<1>1. CASE name # 0
  <2>1. files' = files /\ name' = name
    BY <1>1 DEF WriterOpen, fileVars
  <2> QED BY <1>1, <2>1 DEF TypeInv, FilesOK
<1>2. CASE name = 0
  <2>1. files = <<>> /\ files' = Append(files, <<>>) /\ name' = Len(files) + 1
    BY <1>2 DEF WriterOpen, TypeInv, FilesOK
  <2>2. files' = <<(<<>>)>> /\ name' = 1
    BY <2>1
  <2>3. files' \in Seq(Seq(Written)) /\ Len(files') = 1 /\ Len(files) = 0
    BY <2>1, <2>2
  <2> QED BY <1>2, <2>1, <2>2, <2>3 DEF FilesOK
<1> QED BY <1>1, <1>2

\* The types are kept when a server opens the file.
LEMMA OpenTypes ==
  ASSUME TypeInv, NEW w \in Writers, WriterOpen(w)
  PROVE  TypeInv'
<1>1. /\ FilesOK' /\ name' \in 1..Len(files') /\ Len(files) <= Len(files')
      /\ Len(files) \in Nat /\ Len(files') \in Nat
  BY OpenFiles DEF TypeInv, FilesOK
<1>2. /\ fd' = [fd EXCEPT ![w] = name'] /\ fd[w] = 0
      /\ stale' = [stale EXCEPT ![w] = wmsg[w] # 0 \/ rpc = "rename"]
      /\ buf' = buf /\ wfrm' = wfrm /\ done' = done /\ faults' = faults
      /\ runs' = runs /\ reads' = reads
  BY DEF WriterOpen, readerVars
<1>3. ReaderOK'
  <2>1. /\ rpc' = rpc /\ rfd' = rfd /\ pos' = pos /\ size' = size /\ tmp' = tmp
        /\ sent' = sent /\ gone' = gone
    BY DEF WriterOpen, readerVars
  <2>2. rpc = "rename" => name' # 0
    BY <1>1
  <2>3. rfd \in 0..Len(files')
    BY <1>1 DEF TypeInv, ReaderOK
  <2> QED BY <2>1, <2>2, <2>3 DEF TypeInv, ReaderOK
<1>4. \/ /\ wmsg[w] = 0 /\ next <= Len(Frames)
         /\ wmsg' = [wmsg EXCEPT ![w] = next]
         /\ owner' = Append(owner, w) /\ next' = next + 1
      \/ /\ wmsg[w] # 0
         /\ wmsg' = wmsg /\ owner' = owner /\ next' = next
  BY DEF WriterOpen
<1>5. next \in 1..(Len(Frames) + 1) /\ Len(Frames) \in Nat /\ next \in Nat
  BY DEF TypeInv, HistoryOK
<1>6. WritersOK'
  <2>1. /\ fd' \in [Writers -> 0..Len(files')] /\ fd'[w] # 0
        /\ \A v \in Writers \ {w} : fd'[v] = fd[v]
    BY <1>1, <1>2 DEF TypeInv, WritersOK
  <2>2. stale' \in [Writers -> BOOLEAN]
    BY <1>2 DEF TypeInv, WritersOK
  <2>3. /\ wmsg' \in [Writers -> {0} \cup Messages]
        /\ wmsg'[w] # 0 /\ (wmsg[w] # 0 => wmsg'[w] = wmsg[w])
        /\ \A v \in Writers \ {w} : wmsg'[v] = wmsg[v]
    <3>1. wmsg \in [Writers -> {0} \cup Messages]
      BY DEF TypeInv, WritersOK
    <3>2. CASE wmsg[w] # 0 /\ wmsg' = wmsg
      BY <3>1, <3>2
    <3>3. CASE /\ next <= Len(Frames) /\ wmsg[w] = 0
               /\ wmsg' = [wmsg EXCEPT ![w] = next]
      <4>1. next \in Messages /\ next # 0
        BY <3>3, <1>5 DEF Messages
      <4> QED BY <3>1, <3>3, <4>1
    <3> QED BY <1>4, <3>2, <3>3
  <2>4. buf' \in [Writers -> Seq(Written)] /\ wfrm' \in [Writers -> Nat]
    BY <1>2 DEF TypeInv, WritersOK
  <2>5. ASSUME NEW v \in Writers
        PROVE  /\ wfrm'[v] = 0
                    \/ (wmsg'[v] # 0 /\ wfrm'[v] \in 1..Len(Frames[wmsg'[v]]))
               /\ fd'[v] # 0 => wmsg'[v] # 0
               /\ fd'[v] = 0 => buf'[v] = <<>>
    <3>1. CASE v = w
      BY <3>1, <1>2, <2>1, <2>3 DEF TypeInv, WritersOK
    <3>2. CASE v # w
      BY <3>2, <1>2, <2>1, <2>3 DEF TypeInv, WritersOK
    <3> QED BY <3>1, <3>2
  <2> QED BY <2>1, <2>2, <2>3, <2>4, <2>5 DEF WritersOK
<1>7. HistoryOK'
  <2>1. CASE wmsg[w] # 0 /\ wmsg' = wmsg /\ owner' = owner /\ next' = next
    BY <2>1, <1>2 DEF TypeInv, HistoryOK
  <2>2. CASE /\ wmsg[w] = 0 /\ next <= Len(Frames)
             /\ wmsg' = [wmsg EXCEPT ![w] = next]
             /\ owner' = Append(owner, w) /\ next' = next + 1
    <3>1. owner \in Seq(Writers) /\ Len(owner) = next - 1
      <4>1. owner \in [1..(next - 1) -> Writers] /\ next - 1 \in Nat
        BY <1>5 DEF TypeInv, HistoryOK
      <4> DEFINE n == next - 1
      <4> HIDE DEF n
      <4> QED BY <4>1 DEF n
    <3>2. /\ owner' \in [1..next -> Writers] /\ owner'[next] = w
          /\ \A m \in 1..(next - 1) : owner'[m] = owner[m]
      <4>1. /\ owner' \in Seq(Writers) /\ Len(owner') = next
            /\ owner'[next] = w
            /\ \A m \in 1..(next - 1) : owner'[m] = owner[m]
        BY <2>2, <3>1, <1>5
      <4> QED BY <4>1
    <3>3. next' - 1 = next /\ next' \in 1..(Len(Frames) + 1)
      BY <2>2, <1>5
    <3>4. ASSUME NEW v \in Writers, wmsg'[v] # 0
          PROVE  wmsg'[v] < next' /\ owner'[wmsg'[v]] = v
      <4>1. CASE v = w
        BY <4>1, <2>2, <3>2, <1>5 DEF TypeInv, WritersOK
      <4>2. CASE v # w
        <5>1. wmsg'[v] = wmsg[v] /\ wmsg[v] \in Nat \ {0}
          BY <4>2, <2>2, <3>4 DEF TypeInv, WritersOK, Messages
        <5>2. wmsg[v] < next /\ owner[wmsg[v]] = v
          BY <5>1 DEF TypeInv, HistoryOK
        <5> QED BY <5>1, <5>2, <3>2, <2>2, <1>5
      <4> QED BY <4>1, <4>2
    <3>5. done' \subseteq 1..next
      BY <1>2, <1>5 DEF TypeInv, HistoryOK
    <3> QED BY <3>2, <3>3, <3>4, <3>5 DEF HistoryOK
  <2> QED BY <1>4, <2>1, <2>2
<1>8. BoundsOK'
  BY <1>2 DEF TypeInv, BoundsOK
<1> QED BY <1>1, <1>3, <1>6, <1>7, <1>8 DEF TypeInv

\* zlmb-dump, until it replaces the file.
LEMMA ReadTypes ==
  ASSUME TypeInv,
         DumpStart \/ DumpReadFails \/ DumpRead \/ DumpTruncate \/ DumpEnds
  PROVE  TypeInv'
<1>1. /\ name' = name /\ files' = files /\ fd' = fd /\ buf' = buf
      /\ wmsg' = wmsg /\ wfrm' = wfrm /\ next' = next /\ owner' = owner
      /\ done' = done
  BY DEF DumpStart, DumpReadFails, DumpRead, DumpTruncate, DumpEnds, fileVars,
         writerVars
<1>2. stale' \in [Writers -> BOOLEAN]
  <2>1. stale' = stale \/ stale' = [w \in Writers |-> stale[w] \/ fd[w] # 0]
    BY DEF DumpStart, DumpReadFails, DumpRead, DumpTruncate, DumpEnds,
           writerVars
  <2> QED BY <2>1 DEF TypeInv, WritersOK
<1>3. FilesOK' /\ WritersOK' /\ HistoryOK'
  BY <1>1, <1>2 DEF TypeInv, FilesOK, WritersOK, HistoryOK
<1>4. ReaderOK' /\ BoundsOK'
  <2>1. CASE DumpStart
    BY <2>1, <1>1, BoundsAssumption
       DEF DumpStart, TypeInv, ReaderOK, BoundsOK, FilesOK
  <2>2. CASE DumpReadFails
    BY <2>2, <1>1, BoundsAssumption
       DEF DumpReadFails, TypeInv, ReaderOK, BoundsOK
  <2>3. CASE DumpRead
    <3>1. /\ AtRecord /\ rfd' = rfd /\ tmp' = tmp
          /\ runs' = runs /\ gone' = gone
          /\ faults' = faults /\ size' = size + Counted
          /\ pos' = pos + 1 + Got /\ reads < MaxReads /\ reads' = reads + 1
          /\ rpc' \in {"read", "truncate"}
          /\ sent' = sent \/ sent' = Append(sent, Rest[1])
      BY <2>3 DEF DumpRead
    <3>2. Rest[1] \in Written /\ Got \in Nat /\ Counted \in Nat
      BY <3>1, RestOK
    <3>3. pos' \in Nat /\ size' \in Nat
      BY <3>1, <3>2 DEF TypeInv, ReaderOK
    <3>4. sent' \in Seq(Written)
      <4> DEFINE u == Rest[1]
      <4>1. sent \in Seq(Written) /\ (sent' = sent \/ sent' = Append(sent, u))
        BY <3>1 DEF TypeInv, ReaderOK
      <4>2. u \in Written
        BY <3>2
      <4> HIDE DEF u
      <4> QED BY <4>1, <4>2
    <3>5. reads' \in 0..MaxReads
      BY <3>1, BoundsAssumption DEF TypeInv, BoundsOK
    <3> QED BY <3>1, <3>3, <3>4, <3>5, <1>1 DEF TypeInv, ReaderOK, BoundsOK
  <2>4. CASE DumpTruncate
    <3>1. /\ rfd' = rfd /\ pos' = pos /\ size' = size /\ runs' = runs
          /\ reads' = reads /\ sent' = sent /\ gone' = gone /\ faults' = faults
          /\ \/ rpc' = "idle" /\ tmp' = tmp
             \/ name # 0 /\ tmp' = Drop(files[name], size) /\ rpc' = "rename"
      BY <2>4 DEF DumpTruncate
    <3>2. tmp' \in Seq(Written)
      <4>1. tmp \in Seq(Written) /\ size \in Nat
        BY DEF TypeInv, ReaderOK
      <4>2. CASE name # 0 /\ tmp' = Drop(files[name], size)
        <5>1. files[name] \in Seq(Written)
          BY <4>2 DEF TypeInv, FilesOK
        <5> QED BY <4>1, <4>2, <5>1, Dropped
      <4> QED BY <3>1, <4>1, <4>2
    <3> QED
      BY <3>1, <3>2, <1>1, BoundsAssumption DEF TypeInv, ReaderOK, BoundsOK
  <2>5. CASE DumpEnds
    BY <2>5, <1>1, BoundsAssumption DEF DumpEnds, TypeInv, ReaderOK, BoundsOK
  <2> QED BY <2>1, <2>2, <2>3, <2>4, <2>5
<1> QED BY <1>3, <1>4 DEF TypeInv

\* Replacing it.
LEMMA RenameTypes ==
  ASSUME TypeInv, DumpRename
  PROVE  TypeInv'
<1>1. /\ files' = Append(files, tmp) /\ name' = Len(files) + 1
      /\ gone' = gone \o Take(files[name], size)
      /\ tmp' = <<>> /\ rpc' = "idle" /\ name # 0
      /\ rfd' = rfd /\ pos' = pos /\ size' = size /\ runs' = runs
      /\ reads' = reads /\ sent' = sent /\ faults' = faults
      /\ UNCHANGED writerVars
  BY DEF DumpRename, TypeInv, ReaderOK
<1>2. files' \in Seq(Seq(Written)) /\ Len(files') = Len(files) + 1
  BY <1>1 DEF TypeInv, FilesOK, ReaderOK
<1>3. Take(files[name], size) \in Seq(Written)
  BY <1>1, Taken DEF TypeInv, FilesOK, ReaderOK
<1>4. gone' \in Seq(Written)
  BY <1>1, <1>3 DEF TypeInv, ReaderOK
<1>5. FilesOK'
  BY <1>1, <1>2 DEF FilesOK
<1>6. WritersOK'
  <2>1. fd \in [Writers -> 0..Len(files')]
    BY <1>2 DEF TypeInv, FilesOK, WritersOK
  <2> QED BY <1>1, <2>1 DEF TypeInv, WritersOK, writerVars
<1>7. HistoryOK' /\ BoundsOK'
  BY <1>1 DEF TypeInv, HistoryOK, BoundsOK, writerVars
<1>8. ReaderOK'
  BY <1>1, <1>2, <1>4 DEF TypeInv, FilesOK, ReaderOK
<1> QED BY <1>5, <1>6, <1>7, <1>8 DEF TypeInv

\* The type invariant holds throughout.
LEMMA TypesInvariant == Spec => []TypeInv
<1>1. TypeInv /\ [Next]_vars => TypeInv'
  <2> SUFFICES ASSUME TypeInv, [Next]_vars
               PROVE  TypeInv'
    OBVIOUS
  <2>1. CASE UNCHANGED vars
    BY <2>1 DEF vars, fileVars, writerVars, readerVars, TypeInv, FilesOK,
                WritersOK, HistoryOK, ReaderOK, BoundsOK
  <2>2. CASE \E w \in Writers : WriterStep(w)
    BY <2>2, WriterTypes, OpenTypes DEF WriterStep
  <2>3. CASE DumpStart \/ DumpReadFails \/ DumpRead \/ DumpTruncate \/ DumpEnds
    BY <2>3, ReadTypes
  <2>4. CASE DumpRename
    BY <2>4, RenameTypes
  <2> QED BY <2>1, <2>2, <2>3, <2>4 DEF Next, DumpStep
<1> QED BY <1>1, InitTypes, PTL DEF Spec

\* Every variable of the dump file and of zlmb-dump keeps its type.
THEOREM TypeCorrect == Spec => []TypeOK
BY TypesInvariant, TypeInvImplies, PTL

-----------------------------------------------------------------------------
(***************************************************************************)
(* Once and in order.  What a writer has in its buffer comes after what it *)
(* has in the file, as long as the file still has its name; what zlmb-dump *)
(* keeps of the file is a middle part of it.                               *)
(***************************************************************************)
\* Writer w has dumped u before what it dumps next.
Dumped(w, u) == u.msg < wmsg[w] \/ (u.msg = wmsg[w] /\ u.frame <= wfrm[w])

\* The units of s are of the first n frames of message m.
OfMessage(s, m, n) == \A k \in DOMAIN s : s[k].msg = m /\ s[k].frame <= n

\* The units of s are in order.
Ordered(s) == \A k, l \in DOMAIN s : k < l => Before(s[k], s[l])

\* The units of s are of the message of w, up to its frame n, and in order, and
\* come after those of w in the file.
InTurn(w, s, n) ==
  /\ OfMessage(s, wmsg[w], n) /\ Ordered(s)
  /\ fd[w] = name =>
       \A i \in DOMAIN Stream : \A k \in DOMAIN s :
         owner[Stream[i].msg] = w => Before(Stream[i], s[k])

\* The file is in order, and what a writer has in it is of frames it has dumped;
\* what it has in its buffer comes after that.
OrderInv ==
  /\ OnceInOrder
  /\ \A i \in DOMAIN Stream : Stream[i].msg < next
  /\ \A w \in Writers :
       /\ wmsg[w] # 0 =>
            \A i \in DOMAIN Stream :
              owner[Stream[i].msg] = w => Dumped(w, Stream[i])
       /\ fd[w] # 0 => InTurn(w, buf[w], wfrm[w])

\* What zlmb-dump has copied follows what it has read.
CopyInv ==
  rpc = "rename" =>
    \E n \in 0..Len(files[name]) : tmp = SubSeq(files[name], size + 1, n)

-----------------------------------------------------------------------------
(***************************************************************************)
(* What the steps do to all that was ever in the file.                     *)
(***************************************************************************)
LEMMA StreamIs ==
  ASSUME TypeInv
  PROVE  /\ Content \in Seq(Written) /\ gone \in Seq(Written)
         /\ Stream \in Seq(Written) /\ Len(Stream) = Len(gone) + Len(Content)
         /\ \A i \in DOMAIN Stream : Stream[i] \in Written
         /\ \A i \in 1..Len(gone) : Stream[i] = gone[i]
         /\ \A i \in 1..Len(Content) : Stream[Len(gone) + i] = Content[i]
<1>1. Content \in Seq(Written) /\ gone \in Seq(Written)
  BY DEF TypeInv, FilesOK, ReaderOK, Content
<1> QED BY <1>1 DEF Stream

\* A writer adds to it, unless its file has lost the name.
LEMMA StreamPuts ==
  ASSUME TypeInv, NEW w \in Writers, NEW p \in Seq(Written), Puts(w, p),
         gone' = gone
  PROVE  Stream' = IF fd[w] = name THEN Stream \o p ELSE Stream
<1>1. /\ fd[w] \in 1..Len(files) /\ files'[fd[w]] = files[fd[w]] \o p
      /\ \A i \in 1..Len(files) \ {fd[w]} : files'[i] = files[i]
      /\ name' = name /\ name \in 1..Len(files)
  <2>1. /\ fd[w] \in 1..Len(files) /\ files'[fd[w]] = files[fd[w]] \o p
        /\ \A i \in 1..Len(files) \ {fd[w]} : files'[i] = files[i]
    BY FilesGrow
  <2>2. name' = name /\ name \in 0..Len(files) /\ name # 0
    BY <2>1 DEF Puts, TypeInv, FilesOK
  <2> QED BY <2>1, <2>2
<1>2. gone \in Seq(Written) /\ files[name] \in Seq(Written)
  <2>1. files \in Seq(Seq(Written)) /\ gone \in Seq(Written)
    BY DEF TypeInv, FilesOK, ReaderOK
  <2> QED BY <1>1, <2>1
<1>3. CASE fd[w] = name
  <2>1. Stream = gone \o files[name] /\ Stream' = gone \o (files[name] \o p)
    <3>1. name # 0 /\ name' # 0 /\ files'[name'] = files[name] \o p
      BY <1>1, <1>3
    <3>2. Content = files[name] /\ Content' = files[name] \o p
      BY <3>1 DEF Content
    <3> QED BY <3>2 DEF Stream
  <2>2. gone \o (files[name] \o p) = (gone \o files[name]) \o p
    <3>1. gone \in Seq(Written)
      BY <1>2
    <3> DEFINE s == files[name]
    <3>2. s \in Seq(Written)
      BY <1>2
    <3> HIDE DEF s
    <3>3. gone \o (s \o p) = (gone \o s) \o p
      BY <3>1, <3>2, Regrouped, SMTT(30)
    <3> QED BY <3>3 DEF s
  <2> QED BY <1>3, <2>1, <2>2
<1>4. CASE fd[w] # name
  BY <1>1, <1>4 DEF Stream, Content
<1> QED BY <1>3, <1>4

\* The other steps do not, but for the rename, which keeps a first part.
LEMMA StreamStays ==
  ASSUME TypeInv,
         \/ DumpStart \/ DumpReadFails \/ DumpRead \/ DumpTruncate \/ DumpEnds
         \/ \E w \in Writers : WriterOpen(w)
         \/ UNCHANGED vars
  PROVE  Stream' = Stream /\ gone' = gone
<1>1. CASE \/ DumpStart \/ DumpReadFails \/ DumpRead \/ DumpTruncate
           \/ DumpEnds \/ UNCHANGED vars
  BY <1>1 DEF DumpStart, DumpReadFails, DumpRead, DumpTruncate, DumpEnds,
              vars, fileVars, readerVars, Stream, Content
<1>2. CASE \E w \in Writers : WriterOpen(w)
  <2>1. PICK w \in Writers : WriterOpen(w)
    BY <1>2
  <2>2. gone' = gone
    BY <2>1 DEF WriterOpen, readerVars
  <2>3. Content' = Content
    <3>1. \/ name # 0 /\ files' = files /\ name' = name
          \/ name = 0 /\ files = <<>> /\ files' = <<(<<>>)>> /\ name' = 1
      BY <2>1, OpenFiles
    <3> QED BY <3>1 DEF Content
  <2> QED BY <2>2, <2>3 DEF Stream
<1> QED BY <1>1, <1>2

\* rename takes from the stream its end only: what was read from the old file
\* and what zlmb-dump copied is there as it was.
LEMMA StreamRenamed ==
  ASSUME TypeInv, CopyInv, DumpRename
  PROVE  /\ Stream' = (gone \o Take(files[name], size)) \o tmp
         /\ Stream' \in Seq(Written) /\ Len(Stream') <= Len(Stream)
         /\ \A i \in 1..Len(Stream') : Stream'[i] = Stream[i]
<1>1. /\ rpc = "rename" /\ name # 0
      /\ files' = Append(files, tmp) /\ name' = Len(files) + 1
      /\ gone' = gone \o Take(files[name], size)
  BY DEF DumpRename, TypeInv, ReaderOK
<1> DEFINE s == files[name]
           t == Take(s, size)
<1>2. /\ gone \in Seq(Written) /\ s \in Seq(Written) /\ tmp \in Seq(Written)
      /\ size \in Nat /\ files \in Seq(Seq(Written))
  BY <1>1 DEF TypeInv, FilesOK, ReaderOK
<1>3. Stream = gone \o s
  BY <1>1 DEF Stream, Content
<1>4. Stream' = (gone \o t) \o tmp
  <2>1. files'[Len(files) + 1] = tmp
    BY <1>1, <1>2
  <2>2. Content' = tmp
    BY <1>1, <1>2, <2>1 DEF Content
  <2> QED BY <1>1, <2>2 DEF Stream
<1>5. PICK n \in 0..Len(s) : tmp = SubSeq(s, size + 1, n)
  BY <1>1 DEF CopyInv
<1> HIDE DEF s
<1>6. /\ Len(t) + Len(tmp) <= Len(s)
      /\ \A i \in 1..Len(t) : t[i] = s[i]
      /\ \A i \in 1..Len(tmp) : tmp[i] = s[Len(t) + i]
  BY <1>2, <1>5, TakenThenMiddle
<1>7. t \in Seq(Written)
  BY <1>2, Taken
<1> HIDE DEF t
<1>8. /\ (gone \o t) \o tmp \in Seq(Written)
      /\ Len((gone \o t) \o tmp) <= Len(gone \o s)
      /\ \A i \in 1..Len((gone \o t) \o tmp) :
           ((gone \o t) \o tmp)[i] = (gone \o s)[i]
  BY <1>2, <1>6, <1>7, PrefixBehind, SMTT(60)
<1>9. /\ Stream' \in Seq(Written) /\ Len(Stream') <= Len(Stream)
      /\ \A i \in 1..Len(Stream') : Stream'[i] = Stream[i]
  BY <1>3, <1>4, <1>8, Zenon
<1> QED BY <1>4, <1>9 DEF s, t

-----------------------------------------------------------------------------
(***************************************************************************)
(* Every step keeps the order.                                             *)
(***************************************************************************)
\* At the start nothing is written.
LEMMA InitOrder == Init => OrderInv /\ CopyInv
<1> SUFFICES ASSUME Init
             PROVE  OrderInv /\ CopyInv
  OBVIOUS
<1>1. Stream = <<>>
  BY DEF Init, Stream, Content
<1>2. OrderInv
  BY <1>1 DEF Init, OrderInv, OnceInOrder
<1> QED BY <1>2 DEF Init, CopyInv

\* A writer dumps all, of which it writes out the first part p and has b left.
Dumps(w, all, p, b) ==
  /\ p \in Seq(Written) /\ b \in Seq(Written) /\ all \in Seq(Written)
  /\ Len(p) + Len(b) <= Len(all)
  /\ \A k \in 1..Len(p) : p[k] = all[k]
  /\ \A k \in 1..Len(b) : b[k] = all[Len(p) + k]
  /\ WriterPuts(w, p, b)

\* A record after the units of earlier frames of its message.
LEMMA RecordExtends ==
  ASSUME NEW m \in Messages, NEW g \in DOMAIN Frames[m],
         NEW b \in Seq(Written), OfMessage(b, m, g - 1), Ordered(b)
  PROVE  /\ b \o Record(m, g) \in Seq(Written)
         /\ OfMessage(b \o Record(m, g), m, g)
         /\ Ordered(b \o Record(m, g))
         /\ \A k \in DOMAIN (b \o Record(m, g)) :
              \/ k \in DOMAIN b /\ (b \o Record(m, g))[k] = b[k]
              \/ /\ (b \o Record(m, g))[k].msg = m
                 /\ (b \o Record(m, g))[k].frame = g
<1> DEFINE n == Len(b)
           r == Record(m, g)
           c == b \o r
           len == Len(r)
<1>1. /\ r \in Seq(Written) /\ g \in Nat
      /\ \A k \in 1..len : r[k] = [msg |-> m, frame |-> g, byte |-> k - 1]
  BY RecordUnits, FrameLengths
<1> HIDE DEF r
<1>2. /\ c \in Seq(Written) /\ Len(c) = n + len /\ DOMAIN c = 1..(n + len)
      /\ n \in Nat /\ len \in Nat /\ DOMAIN b = 1..n
      /\ \A k \in 1..n : c[k] = b[k]
      /\ \A k \in 1..len : c[n + k] = r[k]
  BY <1>1
<1> HIDE DEF c, n, len
<1>3. ASSUME NEW k \in 1..(n + len), k \notin 1..n
      PROVE  c[k].msg = m /\ c[k].frame = g /\ c[k].byte = k - n - 1
  <2>1. k - n \in 1..len /\ k = n + (k - n)
    BY <1>2, <1>3
  <2>2. c[k] = r[k - n]
    BY <1>2, <2>1
  <2>3. r[k - n] = [msg |-> m, frame |-> g, byte |-> k - n - 1]
    BY <1>1, <2>1
  <2> QED BY <2>2, <2>3
<1>4. ASSUME NEW k \in 1..n
      PROVE  c[k] = b[k] /\ c[k].msg = m /\ c[k].frame < g
  <2>1. c[k] = b[k] /\ b[k] \in Written /\ b[k].msg = m /\ b[k].frame <= g - 1
    BY <1>2 DEF OfMessage
  <2>2. b[k].frame \in Nat
    BY <2>1 DEF Written, Units
  <2> QED BY <2>1, <2>2, <1>1
<1>5. OfMessage(c, m, g)
  <2> SUFFICES ASSUME NEW k \in 1..(n + len)
               PROVE  c[k].msg = m /\ c[k].frame <= g
    BY <1>2 DEF OfMessage
  <2>1. CASE k \in 1..n
    <3> DEFINE h == c[k].frame
    <3>1. c[k].msg = m /\ h < g /\ h \in Nat
      BY <2>1, <1>2, <1>4 DEF Written, Units
    <3>2. h <= g
      <4> HIDE DEF h
      <4> QED BY <1>1, <3>1
    <3> QED BY <3>1, <3>2
  <2>2. CASE k \notin 1..n
    BY <2>2, <1>1, <1>3
  <2> QED BY <2>1, <2>2
<1>6. ASSUME NEW k \in 1..(n + len), NEW l \in 1..(n + len), k < l
      PROVE  Before(c[k], c[l])
  <2>1. CASE l \in 1..n
    <3>1. k \in 1..n
      BY <1>2, <1>6, <2>1
    <3> QED BY <3>1, <2>1, <1>2, <1>6 DEF Ordered
  <2>2. CASE l \notin 1..n /\ k \in 1..n
    <3>1. c[l].msg = m /\ c[l].frame = g /\ c[k].msg = m /\ c[k].frame < g
      BY <2>2, <1>3, <1>4
    <3> QED BY <3>1 DEF Before
  <2>3. CASE l \notin 1..n /\ k \notin 1..n
    <3>1. /\ c[l].msg = m /\ c[l].frame = g /\ c[l].byte = l - n - 1
          /\ c[k].msg = m /\ c[k].frame = g /\ c[k].byte = k - n - 1
      BY <2>3, <1>3
    <3>2. k - n - 1 < l - n - 1
      BY <1>2, <1>6
    <3> QED BY <3>1, <3>2 DEF Before
  <2> QED BY <2>1, <2>2, <2>3
<1>7. Ordered(c)
  BY <1>2, <1>6 DEF Ordered
<1>8. \A k \in DOMAIN c : \/ k \in DOMAIN b /\ c[k] = b[k]
                          \/ c[k].msg = m /\ c[k].frame = g
  BY <1>2, <1>3
<1> QED BY <1>2, <1>5, <1>7, <1>8 DEF c, r

\* The next record is in its turn.
LEMMA RecordInTurn ==
  ASSUME TypeInv, OrderInv, NEW w \in Writers, fd[w] # 0,
         wfrm[w] < Len(Frames[wmsg[w]])
  PROVE  InTurn(w, Filled(w), wfrm[w] + 1)
<1> DEFINE m == wmsg[w]
           g == wfrm[w] + 1
           b == buf[w]
           c == Filled(w)
<1>1. /\ m \in Messages /\ g \in DOMAIN Frames[m] /\ g \in Nat
      /\ wfrm[w] \in Nat /\ g - 1 = wfrm[w] /\ wmsg[w] # 0
  BY NextFrame DEF Messages
<1>2. b \in Seq(Written) /\ InTurn(w, b, wfrm[w])
  BY DEF TypeInv, WritersOK, OrderInv
<1>3. OfMessage(b, m, g - 1) /\ Ordered(b)
  BY <1>1, <1>2 DEF InTurn
<1>4. ASSUME fd[w] = name, NEW i \in DOMAIN Stream, NEW k \in DOMAIN b,
             owner[Stream[i].msg] = w
      PROVE  Before(Stream[i], b[k])
  BY <1>2, <1>4 DEF InTurn
<1>5. ASSUME NEW i \in DOMAIN Stream, owner[Stream[i].msg] = w
      PROVE  Stream[i].msg < m \/ (Stream[i].msg = m /\ Stream[i].frame < g)
  <2>1. Dumped(w, Stream[i]) /\ Stream[i] \in Written
    BY <1>5, <1>1, StreamIs DEF OrderInv
  <2> QED BY <2>1, <1>1 DEF Dumped, Written, Units
<1>6. c = b \o Record(m, g)
  BY DEF Filled
<1> HIDE DEF m, g, b, c
<1>7. /\ OfMessage(c, m, g) /\ Ordered(c)
      /\ \A k \in DOMAIN c : \/ k \in DOMAIN b /\ c[k] = b[k]
                             \/ c[k].msg = m /\ c[k].frame = g
  BY <1>1, <1>2, <1>3, <1>6, RecordExtends
<1>8. ASSUME fd[w] = name, NEW i \in DOMAIN Stream, NEW k \in DOMAIN c,
             owner[Stream[i].msg] = w
      PROVE  Before(Stream[i], c[k])
  <2>1. CASE k \in DOMAIN b /\ c[k] = b[k]
    BY <2>1, <1>4, <1>8
  <2>2. CASE c[k].msg = m /\ c[k].frame = g
    BY <2>2, <1>5, <1>8 DEF Before
  <2> QED BY <1>7, <2>1, <2>2
<1> QED BY <1>7, <1>8 DEF InTurn, m, g, c

\* What a writer adds to the stream is a first part of what it dumps.
LEMMA DumpsToStream ==
  ASSUME TypeInv, NEW w \in Writers, NEW all, NEW p, NEW b,
         Dumps(w, all, p, b), NEW i \in DOMAIN Stream'
  PROVE  /\ i \in Nat /\ DOMAIN Stream = 1..Len(Stream) /\ Len(Stream) \in Nat
         /\ \/ i \in DOMAIN Stream /\ Stream'[i] = Stream[i]
            \/ /\ fd[w] = name
               /\ \E k \in DOMAIN all : /\ k <= Len(p) /\ i = Len(Stream) + k
                                        /\ Stream'[i] = all[k]
<1>1. /\ p \in Seq(Written) /\ all \in Seq(Written) /\ b \in Seq(Written)
      /\ Len(p) + Len(b) <= Len(all) /\ \A k \in 1..Len(p) : p[k] = all[k]
      /\ Puts(w, p) /\ gone' = gone
  BY DEF Dumps, WriterPuts, readerVars
<1>2. Stream' = IF fd[w] = name THEN Stream \o p ELSE Stream
  BY <1>1, StreamPuts
<1>3. Stream \in Seq(Written)
  BY StreamIs
<1>4. DOMAIN Stream = 1..Len(Stream) /\ Len(Stream) \in Nat
  BY <1>3
<1>5. CASE fd[w] = name
  <2>1. /\ i \in 1..(Len(Stream) + Len(p)) /\ Len(p) \in Nat /\ Len(b) \in Nat
        /\ Len(all) \in Nat /\ DOMAIN all = 1..Len(all)
    BY <1>1, <1>2, <1>3, <1>5
  <2>2. CASE i \in 1..Len(Stream)
    BY <1>1, <1>2, <1>3, <1>4, <1>5, <2>2
  <2>3. CASE i \notin 1..Len(Stream)
    <3> DEFINE k == i - Len(Stream)
    <3>1. k \in 1..Len(p) /\ k \in DOMAIN all /\ i = Len(Stream) + k
      BY <2>1, <2>3, <1>1, <1>4
    <3>2. Stream'[i] = p[k] /\ p[k] = all[k]
      BY <3>1, <1>1, <1>2, <1>3, <1>5
    <3>3. k <= Len(p) /\ Stream'[i] = all[k]
      BY <3>1, <3>2, <2>1
    <3> HIDE DEF k
    <3> QED BY <3>1, <3>3, <1>4, <1>5, <2>1
  <2> QED BY <2>2, <2>3
<1>6. CASE fd[w] # name
  BY <1>2, <1>4, <1>6
<1> QED BY <1>5, <1>6

\* The writer ends its message, or is beyond its first n frames; the others
\* stay where they are.
GoesOn(w, n) ==
  /\ \/ fd'[w] = 0 /\ wmsg'[w] = 0
     \/ wmsg'[w] = wmsg[w] /\ wfrm'[w] \in Nat /\ wfrm[w] <= n /\ n <= wfrm'[w]
  /\ \A v \in Writers \ {w} : wmsg'[v] = wmsg[v] /\ wfrm'[v] = wfrm[v]

\* What comes in its turn keeps the order.
LEMMA DumpsKeepOrder ==
  ASSUME TypeInv, OrderInv, NEW w \in Writers, NEW all, NEW p, NEW b,
         NEW n \in Nat, Dumps(w, all, p, b), InTurn(w, all, n), GoesOn(w, n)
  PROVE  OrderInv'
<1>1. /\ fd[w] # 0 /\ wmsg[w] \in Messages /\ wmsg[w] < next /\ wfrm[w] \in Nat
      /\ owner[wmsg[w]] = w /\ next' = next /\ owner' = owner /\ name' = name
  BY DEF TypeInv, WritersOK, HistoryOK, Dumps, WriterPuts, Puts
<1>2. /\ \A k \in DOMAIN all : all[k].msg = wmsg[w] /\ all[k].frame <= n
      /\ \A k, l \in DOMAIN all : k < l => Before(all[k], all[l])
      /\ all \in Seq(Written) /\ b \in Seq(Written) /\ p \in Seq(Written)
  BY DEF InTurn, OfMessage, Ordered, Dumps
<1>3. ASSUME NEW i \in DOMAIN Stream'
      PROVE  /\ i \in Nat /\ DOMAIN Stream = 1..Len(Stream)
             /\ Len(Stream) \in Nat
             /\ \/ i \in DOMAIN Stream /\ Stream'[i] = Stream[i]
                \/ /\ fd[w] = name
                   /\ \E k \in DOMAIN all :
                        /\ k <= Len(p) /\ i = Len(Stream) + k
                        /\ Stream'[i] = all[k]
  BY DumpsToStream
<1>4. ASSUME fd[w] = name, NEW i \in DOMAIN Stream, NEW k \in DOMAIN all,
             owner[Stream[i].msg] = w
      PROVE  Before(Stream[i], all[k])
  BY <1>4 DEF InTurn
<1>5. OnceInOrder'
  <2> SUFFICES ASSUME NEW i \in DOMAIN Stream', NEW j \in DOMAIN Stream', i < j,
                      owner[Stream'[i].msg] = owner[Stream'[j].msg]
               PROVE  Before(Stream'[i], Stream'[j])
    BY <1>1 DEF OnceInOrder, Before
  <2>1. CASE j \in DOMAIN Stream /\ Stream'[j] = Stream[j]
    <3>1. i \in DOMAIN Stream /\ Stream'[i] = Stream[i]
      <4>1. \A k \in DOMAIN all : i # Len(Stream) + k
        BY <1>2, <1>3, <2>1
      <4> QED BY <4>1, <1>3
    <3> QED BY <2>1, <3>1 DEF OrderInv, OnceInOrder
  <2>2. CASE /\ fd[w] = name
             /\ \E k \in DOMAIN all : /\ k <= Len(p) /\ j = Len(Stream) + k
                                      /\ Stream'[j] = all[k]
    <3>1. PICK l \in DOMAIN all : j = Len(Stream) + l /\ Stream'[j] = all[l]
      BY <2>2
    <3>2. owner[Stream'[j].msg] = w
      BY <3>1, <1>1, <1>2
    <3>3. CASE i \in DOMAIN Stream /\ Stream'[i] = Stream[i]
      BY <3>1, <3>2, <3>3, <2>2, <1>4
    <3>4. CASE \E k \in DOMAIN all : i = Len(Stream) + k /\ Stream'[i] = all[k]
      <4>1. PICK k \in DOMAIN all : i = Len(Stream) + k /\ Stream'[i] = all[k]
        BY <3>4
      <4>2. k < l
        BY <3>1, <4>1, <1>2, <1>3
      <4> QED BY <3>1, <4>1, <4>2, <1>2
    <3> QED BY <1>3, <3>3, <3>4
  <2> QED BY <1>3, <2>1, <2>2
<1>6. ASSUME NEW i \in DOMAIN Stream'
      PROVE  Stream'[i].msg < next
  BY <1>1, <1>2, <1>3 DEF OrderInv
<1>7. ASSUME NEW v \in Writers, wmsg'[v] # 0, NEW i \in DOMAIN Stream',
             owner[Stream'[i].msg] = v
      PROVE  Dumped(v, Stream[i])'
  <2>1. wmsg'[v] = wmsg[v]
    BY <1>7 DEF GoesOn
  <2>2. CASE i \in DOMAIN Stream /\ Stream'[i] = Stream[i]
    <3>1. Dumped(v, Stream[i]) /\ Stream[i] \in Written
      BY <1>7, <2>1, <2>2, StreamIs DEF OrderInv
    <3>2. Stream[i].frame \in Nat
      BY <3>1 DEF Written, Units
    <3>3. CASE v = w
      BY <3>1, <3>2, <3>3, <2>1, <2>2, <1>1, <1>7 DEF Dumped, GoesOn
    <3>4. CASE v # w
      BY <3>1, <3>4, <2>1, <2>2 DEF Dumped, GoesOn
    <3> QED BY <3>3, <3>4
  <2>3. CASE \E k \in DOMAIN all : Stream'[i] = all[k]
    <3>1. PICK k \in DOMAIN all : Stream'[i] = all[k]
      BY <2>3
    <3>2. v = w
      BY <3>1, <1>1, <1>2, <1>7
    <3>3. all[k].msg = wmsg[w] /\ all[k].frame <= n /\ all[k].frame \in Nat
      BY <1>2 DEF Written, Units
    <3> QED BY <3>1, <3>2, <3>3, <2>1, <1>7 DEF Dumped, GoesOn
  <2> QED BY <1>3, <2>2, <2>3
<1>8. ASSUME NEW v \in Writers, fd'[v] # 0
      PROVE  InTurn(v, buf[v], wfrm[v])'
  <2>1. CASE v = w
    <3>1. /\ buf'[w] = b /\ fd'[w] = fd[w]
          /\ wmsg'[w] = wmsg[w] /\ n <= wfrm'[w] /\ wfrm'[w] \in Nat
      BY <1>1, <1>8, <2>1 DEF GoesOn, Dumps, WriterPuts, TypeInv, WritersOK
    <3>2. ASSUME NEW k \in DOMAIN b
          PROVE  /\ b[k] = all[Len(p) + k] /\ Len(p) + k \in DOMAIN all
                 /\ k \in Nat /\ k > 0 /\ Len(p) \in Nat
      BY <1>2 DEF Dumps
    <3>3. OfMessage(b, wmsg[w], n)
      BY <3>2, <1>2 DEF OfMessage
    <3>4. OfMessage(b, wmsg[w], wfrm'[w])
      <4> SUFFICES ASSUME NEW k \in DOMAIN b
                   PROVE  b[k].msg = wmsg[w] /\ b[k].frame <= wfrm'[w]
        BY DEF OfMessage
      <4>1. b[k].msg = wmsg[w] /\ b[k].frame <= n
        BY <3>3 DEF OfMessage
      <4>2. b[k].frame \in Nat
        BY <1>2 DEF Written, Units
      <4> QED BY <3>1, <4>1, <4>2
    <3>5. Ordered(b)
      <4> SUFFICES ASSUME NEW k \in DOMAIN b, NEW l \in DOMAIN b, k < l
                   PROVE  Before(b[k], b[l])
        BY DEF Ordered
      <4>1. Len(p) + k < Len(p) + l
        BY <3>2
      <4> QED BY <3>2, <4>1, <1>2
    <3>6. ASSUME fd[w] = name, NEW i \in DOMAIN Stream', NEW k \in DOMAIN b,
                 owner[Stream'[i].msg] = w
          PROVE  Before(Stream'[i], b[k])
      <4>1. CASE i \in DOMAIN Stream /\ Stream'[i] = Stream[i]
        BY <3>2, <3>6, <4>1, <1>4
      <4>2. CASE \E l \in DOMAIN all : l <= Len(p) /\ Stream'[i] = all[l]
        <5>1. PICK l \in DOMAIN all : l <= Len(p) /\ Stream'[i] = all[l]
          BY <4>2
        <5>2. l < Len(p) + k
          BY <3>2, <5>1, <1>2
        <5> QED BY <3>2, <5>1, <5>2, <1>2
      <4> QED BY <1>3, <4>1, <4>2
    <3> QED
      BY <2>1, <1>1, <3>1, <3>4, <3>5, <3>6
         DEF InTurn, OfMessage, Ordered, Before
  <2>2. CASE v # w
    <3>1. /\ buf'[v] = buf[v] /\ fd'[v] = fd[v] /\ wmsg'[v] = wmsg[v]
          /\ wfrm'[v] = wfrm[v]
      BY <2>2 DEF GoesOn, Dumps, WriterPuts, TypeInv, WritersOK
    <3>2. InTurn(v, buf[v], wfrm[v])
      BY <3>1, <1>8 DEF OrderInv
    <3>3. ASSUME NEW i \in DOMAIN Stream', owner[Stream'[i].msg] = v
          PROVE  i \in DOMAIN Stream /\ Stream'[i] = Stream[i]
      BY <1>1, <1>2, <1>3, <2>2, <3>3
    <3>4. OfMessage(buf[v], wmsg[v], wfrm[v])' /\ Ordered(buf[v])'
      BY <3>1, <3>2 DEF InTurn, OfMessage, Ordered, Before
    <3>5. ASSUME fd'[v] = name', NEW i \in DOMAIN Stream',
                 NEW k \in DOMAIN buf'[v], owner'[Stream'[i].msg] = v
          PROVE  Before(Stream[i], buf[v][k])'
      <4>1. i \in DOMAIN Stream /\ Stream'[i] = Stream[i]
        BY <3>3, <3>5, <1>1
      <4>2. Before(Stream[i], buf[v][k])
        BY <3>1, <3>2, <3>5, <4>1, <1>1 DEF InTurn
      <4> QED BY <3>1, <4>1, <4>2 DEF Before
    <3> QED BY <3>4, <3>5 DEF InTurn
  <2> QED BY <2>1, <2>2
<1> QED BY <1>1, <1>5, <1>6, <1>7, <1>8 DEF OrderInv

\* A writer that has the file open keeps the order.
LEMMA WriterOrder ==
  ASSUME TypeInv, OrderInv, NEW w \in Writers,
         WriterWrite(w) \/ WriterClose(w) \/ WriterFails(w) \/ WriterEnds(w)
  PROVE  OrderInv'
<1>1. /\ wmsg \in [Writers -> {0} \cup Messages] /\ wfrm \in [Writers -> Nat]
      /\ fd \in [Writers -> 0..Len(files)] /\ buf[w] \in Seq(Written)
      /\ wfrm[w] \in Nat
  BY DEF TypeInv, WritersOK
<1>2. CASE WriterWrite(w)
  <2> DEFINE p == SubSeq(Filled(w), 1, Flushed(w))
             b == Drop(Filled(w), Flushed(w))
  <2>1. /\ WriterPuts(w, p, b) /\ wmsg' = wmsg
        /\ wfrm' = [wfrm EXCEPT ![w] = @ + 1]
        /\ wfrm[w] < Len(Frames[wmsg[w]]) /\ fd[w] # 0
    BY <1>2, WriterPart DEF WriterPuts, Puts
  <2>2. /\ Filled(w) \in Seq(Written) /\ Flushed(w) \in 0..Len(Filled(w))
        /\ p \in Seq(Written) /\ Len(p) = Flushed(w)
        /\ \A i \in 1..Flushed(w) : p[i] = Filled(w)[i]
        /\ b \in Seq(Written) /\ Len(b) = Len(Filled(w)) - Flushed(w)
        /\ \A i \in 1..(Len(Filled(w)) - Flushed(w)) :
             b[i] = Filled(w)[Flushed(w) + i]
    BY <2>1, FlushedBuffers
  <2> HIDE DEF p, b
  <2>3. Dumps(w, Filled(w), p, b)
    <3>1. Len(p) + Len(b) <= Len(Filled(w))
      BY <2>2
    <3> QED BY <2>1, <2>2, <3>1 DEF Dumps
  <2>4. InTurn(w, Filled(w), wfrm[w] + 1)
    BY <2>1, RecordInTurn
  <2>5. GoesOn(w, wfrm[w] + 1)
    BY <1>1, <2>1 DEF GoesOn
  <2>6. wfrm[w] + 1 \in Nat
    BY <1>1
  <2> QED BY <2>3, <2>4, <2>5, <2>6, DumpsKeepOrder
<1>3. CASE ~WriterWrite(w)
  <2>1. PICK p \in {buf[w], <<>>} : WriterPuts(w, p, <<>>)
    BY <1>3, WriterPart
  <2>2. Dumps(w, buf[w], p, <<>>)
    <3> DEFINE all == buf[w]
               b == <<>>
    <3>1. /\ all \in Seq(Written) /\ b \in Seq(Written) /\ Len(b) = 0
          /\ Len(all) \in Nat /\ p \in {all, b}
      BY <1>1
    <3>2. \A k \in 1..Len(b) : b[k] = all[Len(p) + k]
      BY <3>1
    <3> HIDE DEF all, b
    <3>3. /\ p \in Seq(Written) /\ Len(p) + Len(b) <= Len(all)
          /\ \A k \in 1..Len(p) : p[k] = all[k]
      <4>1. CASE p = all
        BY <3>1, <4>1
      <4>2. CASE p = b
        BY <3>1, <4>2
      <4> QED BY <3>1, <4>1, <4>2
    <3>4. Dumps(w, all, p, b)
      BY <2>1, <3>1, <3>2, <3>3 DEF Dumps, b
    <3> QED BY <3>4 DEF all, b
  <2>3. InTurn(w, buf[w], wfrm[w])
    BY <2>1 DEF WriterPuts, Puts, OrderInv
  <2>4. /\ fd' = [fd EXCEPT ![w] = 0]
        /\ \/ /\ wmsg' = [wmsg EXCEPT ![w] = 0]
              /\ wfrm' = [wfrm EXCEPT ![w] = 0]
           \/ wmsg' = wmsg /\ wfrm' = [wfrm EXCEPT ![w] = @ + 1]
    BY <1>3, WriterPart
  <2>5. GoesOn(w, wfrm[w])
    BY <1>1, <2>4 DEF GoesOn
  <2> QED BY <1>1, <2>2, <2>3, <2>5, DumpsKeepOrder
<1> QED BY <1>2, <1>3

\* Opening the file keeps the order.
LEMMA OpenOrder ==
  ASSUME TypeInv, OrderInv, NEW w \in Writers, WriterOpen(w)
  PROVE  OrderInv'
<1>1. /\ Stream' = Stream
      /\ \A i \in DOMAIN Stream : Stream[i] \in Written /\ Stream[i].msg < next
      /\ \A i \in DOMAIN Stream : Stream[i].msg \in Nat \ {0}
  <2>1. \A i \in DOMAIN Stream : Stream[i] \in Written /\ Stream[i].msg < next
    BY StreamIs DEF OrderInv
  <2> QED BY <2>1, StreamStays DEF Written, Units, Messages
<1>2. /\ fd[w] = 0 /\ fd' = [fd EXCEPT ![w] = name'] /\ buf' = buf
      /\ wfrm' = wfrm
      /\ \/ /\ wmsg[w] = 0 /\ wmsg' = [wmsg EXCEPT ![w] = next]
            /\ owner' = Append(owner, w) /\ next' = next + 1
         \/ wmsg' = wmsg /\ owner' = owner /\ next' = next
  BY DEF WriterOpen
<1>3. /\ next \in Nat \ {0} /\ owner \in [1..(next - 1) -> Writers]
      /\ wmsg \in [Writers -> {0} \cup Messages] /\ buf[w] = <<>>
      /\ \A v \in Writers : fd[v] # 0 => wmsg[v] # 0
      /\ \A v \in Writers : wmsg[v] # 0 => wmsg[v] < next
      /\ fd \in [Writers -> 0..Len(files)]
      /\ wfrm[w] = 0 \/ wmsg[w] # 0
  BY <1>2 DEF TypeInv, HistoryOK, WritersOK
<1>4. /\ next' \in Nat /\ next <= next'
      /\ \A m \in 1..(next - 1) : owner'[m] = owner[m]
  <2>1. CASE owner' = Append(owner, w) /\ next' = next + 1
    <3>1. owner \in Seq(Writers) /\ Len(owner) = next - 1
      BY <1>3
    <3> QED BY <2>1, <3>1, <1>3
  <2> QED BY <1>2, <1>3, <2>1
<1>5. \A i \in DOMAIN Stream : owner'[Stream[i].msg] = owner[Stream[i].msg]
  BY <1>1, <1>3, <1>4
<1>6. OnceInOrder'
  BY <1>1, <1>5 DEF OrderInv, OnceInOrder, Before
<1>7. \A i \in DOMAIN Stream' : Stream'[i].msg < next'
  BY <1>1, <1>3, <1>4
<1>8. ASSUME NEW v \in Writers, wmsg'[v] # 0, NEW i \in DOMAIN Stream,
             owner[Stream[i].msg] = v
      PROVE  Dumped(v, Stream[i])'
  <2>1. CASE wmsg'[v] = wmsg[v]
    BY <2>1, <1>1, <1>2, <1>8 DEF OrderInv, Dumped
  <2>2. CASE wmsg'[v] # wmsg[v]
    BY <2>2, <1>1, <1>2, <1>3, <1>8 DEF Dumped
  <2> QED BY <2>1, <2>2
<1>9. ASSUME NEW v \in Writers, fd'[v] # 0
      PROVE  InTurn(v, buf[v], wfrm[v])'
  <2>1. CASE v = w
    BY <2>1, <1>2, <1>3 DEF InTurn, OfMessage, Ordered
  <2>2. CASE v # w
    <3>1. fd'[v] = fd[v] /\ wmsg'[v] = wmsg[v] /\ InTurn(v, buf[v], wfrm[v])
      BY <2>2, <1>2, <1>3, <1>9 DEF OrderInv
    <3>2. fd[v] = name' => fd[v] = name
      BY <3>1, <1>9, OpenFiles DEF TypeInv, FilesOK, WritersOK
    <3>3. OfMessage(buf[v], wmsg[v], wfrm[v])' /\ Ordered(buf[v])'
      BY <1>2, <3>1 DEF InTurn, OfMessage, Ordered, Before
    <3>4. ASSUME fd'[v] = name', NEW i \in DOMAIN Stream,
                 NEW k \in DOMAIN buf[v], owner'[Stream[i].msg] = v
          PROVE  Before(Stream[i], buf[v][k])'
      <4>1. Before(Stream[i], buf[v][k])
        BY <1>5, <3>1, <3>2, <3>4 DEF InTurn
      <4> QED BY <4>1, <1>1, <1>2 DEF Before
    <3> QED BY <1>1, <1>2, <3>3, <3>4 DEF InTurn
  <2> QED BY <2>1, <2>2
<1> QED BY <1>1, <1>5, <1>6, <1>7, <1>8, <1>9 DEF OrderInv

\* The steps of zlmb-dump that leave the files alone keep the order.
LEMMA ReadOrder ==
  ASSUME TypeInv, OrderInv,
         \/ DumpStart \/ DumpReadFails \/ DumpRead \/ DumpTruncate \/ DumpEnds
         \/ UNCHANGED vars
  PROVE  OrderInv'
<1>1. Stream' = Stream
  BY StreamStays
<1>2. /\ name' = name /\ fd' = fd /\ buf' = buf /\ wmsg' = wmsg
      /\ wfrm' = wfrm /\ next' = next /\ owner' = owner
  BY DEF DumpStart, DumpReadFails, DumpRead, DumpTruncate, DumpEnds,
         vars, fileVars, writerVars
<1>3. OnceInOrder' /\ \A i \in DOMAIN Stream' : Stream'[i].msg < next'
  BY <1>1, <1>2 DEF OrderInv, OnceInOrder, Before
<1>4. ASSUME NEW w \in Writers, wmsg'[w] # 0, NEW i \in DOMAIN Stream',
             owner'[Stream'[i].msg] = w
      PROVE  Dumped(w, Stream[i])'
  BY <1>1, <1>2, <1>4 DEF OrderInv, Dumped
<1>5. ASSUME NEW w \in Writers, fd'[w] # 0
      PROVE  InTurn(w, buf[w], wfrm[w])'
  <2>1. InTurn(w, buf[w], wfrm[w])
    BY <1>2, <1>5 DEF OrderInv
  <2> QED BY <2>1, <1>1, <1>2 DEF InTurn, OfMessage, Ordered, Before
<1> QED BY <1>3, <1>4, <1>5 DEF OrderInv

\* Replacing the file keeps the order: those who have the old one open do not
\* write to the new one.
LEMMA RenameOrder ==
  ASSUME TypeInv, OrderInv, CopyInv, DumpRename
  PROVE  OrderInv'
<1>1. /\ Stream' \in Seq(Written) /\ Len(Stream') <= Len(Stream)
      /\ \A i \in 1..Len(Stream') : Stream'[i] = Stream[i]
      /\ Stream \in Seq(Written)
  BY StreamRenamed, StreamIs
<1>2. \A i \in DOMAIN Stream' :
        i \in DOMAIN Stream /\ i \in Nat /\ Stream'[i] = Stream[i]
  BY <1>1
<1>3. /\ fd' = fd /\ buf' = buf /\ wmsg' = wmsg /\ wfrm' = wfrm
      /\ next' = next /\ owner' = owner /\ name' = Len(files) + 1
  BY DEF DumpRename, writerVars
<1>4. OnceInOrder' /\ \A i \in DOMAIN Stream' : Stream'[i].msg < next'
  BY <1>2, <1>3 DEF OrderInv, OnceInOrder, Before
<1>5. ASSUME NEW w \in Writers, wmsg'[w] # 0, NEW i \in DOMAIN Stream',
             owner'[Stream'[i].msg] = w
      PROVE  Dumped(w, Stream[i])'
  BY <1>2, <1>3, <1>5 DEF OrderInv, Dumped
<1>6. ASSUME NEW w \in Writers, fd'[w] # 0
      PROVE  InTurn(w, buf[w], wfrm[w])'
  <2>1. InTurn(w, buf[w], wfrm[w])
    BY <1>3, <1>6 DEF OrderInv
  <2>2. OfMessage(buf[w], wmsg[w], wfrm[w])' /\ Ordered(buf[w])'
    BY <2>1, <1>3 DEF InTurn, OfMessage, Ordered, Before
  <2>3. fd'[w] # name'
    <3>1. fd[w] \in 0..Len(files) /\ Len(files) \in Nat
      BY DEF TypeInv, FilesOK, WritersOK
    <3> QED BY <3>1, <1>3
  <2> QED BY <2>2, <2>3 DEF InTurn
<1> QED BY <1>4, <1>5, <1>6 DEF OrderInv

\* What was copied stays a part of the file, which only grows meanwhile.
LEMMA CopyKept ==
  ASSUME TypeInv, CopyInv, [Next]_vars
  PROVE  CopyInv'
<1> SUFFICES ASSUME rpc' = "rename"
             PROVE  \E n \in 0..Len(files'[name']) :
                      tmp' = SubSeq(files'[name'], size' + 1, n)
  BY DEF CopyInv
<1>1. name # 0 => files[name] \in Seq(Written)
  BY DEF TypeInv, FilesOK
<1>2. CASE DumpTruncate
  <2>1. /\ name # 0 /\ files' = files /\ name' = name /\ size' = size
        /\ tmp' = SubSeq(files[name], size + 1, Len(files[name]))
    BY <1>2 DEF DumpTruncate, TypeInv, ReaderOK, fileVars, Drop
  <2>2. Len(files[name]) \in 0..Len(files[name])
    BY <1>1, <2>1
  <2> QED BY <2>1, <2>2
<1>3. CASE \/ UNCHANGED vars \/ DumpStart \/ DumpReadFails \/ DumpRead
           \/ DumpRename \/ DumpEnds
  <2>1. UNCHANGED vars
    BY <1>3 DEF DumpStart, DumpReadFails, DumpRead, DumpRename, DumpEnds
  <2> QED BY <2>1 DEF vars, fileVars, readerVars, CopyInv
<1>4. CASE \E w \in Writers : WriterOpen(w)
  <2>1. PICK w \in Writers : WriterOpen(w)
    BY <1>4
  <2>2. rpc' = rpc /\ size' = size /\ tmp' = tmp
    BY <2>1 DEF WriterOpen, readerVars
  <2>3. name' = name /\ files' = files
    BY <2>1, <2>2 DEF WriterOpen, fileVars, TypeInv, ReaderOK
  <2> QED BY <2>2, <2>3 DEF CopyInv
<1>5. CASE \E w \in Writers : \/ WriterWrite(w) \/ WriterClose(w)
                              \/ WriterFails(w) \/ WriterEnds(w)
  <2>1. PICK w \in Writers : \/ WriterWrite(w) \/ WriterClose(w)
                             \/ WriterFails(w) \/ WriterEnds(w)
    BY <1>5
  <2>2. PICK p \in Seq(Written), b \in Seq(Written) : WriterPuts(w, p, b)
    BY <2>1, WriterWritten
  <2>3. rpc' = rpc /\ size' = size /\ tmp' = tmp /\ name' = name
    BY <2>2 DEF WriterPuts, Puts, readerVars
  <2>4. name \in 1..Len(files) /\ files[name] \in Seq(Written) /\ size \in Nat
    BY <2>3, <1>1 DEF TypeInv, ReaderOK, FilesOK
  <2>5. PICK n \in 0..Len(files[name]) :
          tmp = SubSeq(files[name], size + 1, n)
    BY <2>3 DEF CopyInv
  <2>6. \/ files'[name] = files[name]
        \/ files'[name] = files[name] \o p
    BY <2>2, <2>4, FilesGrow DEF WriterPuts
  <2>7. CASE files'[name] = files[name] \o p
    <3> DEFINE s == files[name]
               a == size + 1
    <3>1. a \in Nat \ {0} /\ s \in Seq(Written)
      BY <2>4
    <3> HIDE DEF s, a
    <3>2. n \in 0..Len(s)
      BY <2>5 DEF s
    <3>3. n \in 0..Len(s \o p) /\ SubSeq(s \o p, a, n) = SubSeq(s, a, n)
      BY <3>1, <3>2, StaysMiddle
    <3> QED BY <2>3, <2>5, <2>7, <3>3 DEF s, a
  <2> QED BY <2>3, <2>5, <2>6, <2>7
<1> QED BY <1>2, <1>3, <1>4, <1>5 DEF Next, DumpStep, WriterStep

\* The order, and what was copied, are kept by every step.
LEMMA OrderInvariant == Spec => [](TypeInv /\ OrderInv /\ CopyInv)
<1>1. Init => OrderInv /\ CopyInv
  BY InitOrder
<1>2. TypeInv /\ OrderInv /\ CopyInv /\ [Next]_vars => OrderInv' /\ CopyInv'
  <2> SUFFICES ASSUME TypeInv, OrderInv, CopyInv, [Next]_vars
               PROVE  OrderInv' /\ CopyInv'
    OBVIOUS
  <2>1. CASE \E w \in Writers : WriterStep(w)
    BY <2>1, WriterOrder, OpenOrder, CopyKept DEF WriterStep
  <2>2. CASE \/ DumpStart \/ DumpReadFails \/ DumpRead \/ DumpTruncate
             \/ DumpEnds \/ UNCHANGED vars
    BY <2>2, ReadOrder, CopyKept
  <2>3. CASE DumpRename
    BY <2>3, RenameOrder, CopyKept
  <2> QED BY <2>1, <2>2, <2>3 DEF Next, DumpStep
<1> QED BY <1>1, <1>2, TypesInvariant, PTL DEF Spec

\* What a server writes is in the file once and in order, whatever fails and
\* whenever zlmb-dump replaces the file.
THEOREM WrittenOnceInOrder == Spec => []OnceInOrder
<1>1. OrderInv => OnceInOrder
  BY DEF OrderInv
<1> QED BY <1>1, OrderInvariant, PTL

-----------------------------------------------------------------------------
(***************************************************************************)
(* What is done is kept.  A writer whose file is not being replaced has    *)
(* its message in the file or in its buffer, as far as it has dumped it,   *)
(* and what zlmb-dump keeps when it replaces the file is all that is done. *)
(***************************************************************************)
\* s has the unit u, all units of t, the record of frame f of message m.
In(u, s) == \E i \in DOMAIN s : s[i] = u

Within(s, t) == \A i \in DOMAIN s : In(s[i], t)

RecordIn(m, f, s) == \A k \in DOMAIN Record(m, f) : In(Record(m, f)[k], s)

\* s has all messages that are done.
DoneIn(s) == \A m \in done : \A f \in DOMAIN Frames[m] : RecordIn(m, f, s)

\* What the stream becomes by the rename.
After == (gone \o Take(files[name], size)) \o tmp

\* The file has the messages that are done, and has them after the rename, too;
\* with what is in its buffer it has what a writer has dumped of its message.
KeptInv ==
  /\ DoneIn(Stream)
  /\ rpc = "rename" => DoneIn(After)
  /\ \A w \in Writers :
       fd[w] # 0 /\ ~stale[w] =>
         /\ fd[w] = name /\ rpc # "rename"
         /\ \A f \in 1..wfrm[w] : RecordIn(wmsg[w], f, Stream \o buf[w])

\* Done is kept, as the records are within the stream.
LEMMA KeptInvImplies == KeptInv => DoneIsKept
<1> SUFFICES ASSUME KeptInv, NEW m \in done, NEW f \in DOMAIN Frames[m],
                    NEW u \in {Record(m, f)[k] : k \in DOMAIN Record(m, f)}
             PROVE  \E i \in DOMAIN Stream : Stream[i] = u
  BY DEF DoneIsKept
<1>1. RecordIn(m, f, Stream)
  BY DEF KeptInv, DoneIn
<1> QED BY <1>1, Zenon DEF RecordIn, In

\* What is in a sequence is in one that has its units.
LEMMA RecordWithin ==
  ASSUME NEW s, NEW t, Within(s, t), NEW m, NEW f, RecordIn(m, f, s)
  PROVE  RecordIn(m, f, t)
<1> SUFFICES ASSUME NEW k \in DOMAIN Record(m, f)
             PROVE  In(Record(m, f)[k], t)
  BY DEF RecordIn
<1>1. PICK i \in DOMAIN s : s[i] = Record(m, f)[k]
  BY Zenon DEF RecordIn, In
<1> QED BY <1>1, Zenon DEF Within

\* What both of two sequences have is what they have together.
LEMMA WithinBoth ==
  ASSUME NEW s \in Seq(Written), NEW t \in Seq(Written)
  PROVE  /\ Within(s, s \o t) /\ Within(t, s \o t)
         /\ \A r : Within(s, r) /\ Within(t, r) => Within(s \o t, r)
<1>1. ASSUME NEW i \in DOMAIN s
      PROVE  In(s[i], s \o t)
  <2>1. i \in DOMAIN (s \o t) /\ (s \o t)[i] = s[i]
    OBVIOUS
  <2> QED BY <2>1 DEF In
<1>2. ASSUME NEW i \in DOMAIN t
      PROVE  In(t[i], s \o t)
  <2>1. /\ Len(s) + i \in DOMAIN (s \o t)
        /\ (s \o t)[Len(s) + i] = t[i]
    OBVIOUS
  <2> QED BY <2>1 DEF In
<1>3. ASSUME NEW r, Within(s, r), Within(t, r), NEW i \in DOMAIN (s \o t)
      PROVE  In((s \o t)[i], r)
  <2>1. CASE i <= Len(s)
    <3>1. i \in DOMAIN s /\ (s \o t)[i] = s[i]
      BY <2>1
    <3>2. In(s[i], r)
      BY <3>1, <1>3 DEF Within
    <3> QED BY <3>1, <3>2
  <2>2. CASE i > Len(s)
    <3>1. i - Len(s) \in DOMAIN t /\ (s \o t)[i] = t[i - Len(s)]
      BY <2>2
    <3>2. In(t[i - Len(s)], r)
      BY <3>1, <1>3 DEF Within
    <3> QED BY <3>1, <3>2
  <2> QED BY <2>1, <2>2
<1> QED BY <1>1, <1>2, <1>3 DEF Within

\* Within is transitive.
LEMMA WithinThrough ==
  ASSUME NEW r, NEW s, NEW t, Within(r, s), Within(s, t)
  PROVE  Within(r, t)
<1> SUFFICES ASSUME NEW i \in DOMAIN r
             PROVE  In(r[i], t)
  BY DEF Within
<1>1. PICK j \in DOMAIN s : s[j] = r[i]
  BY Zenon DEF Within, In
<1> QED BY <1>1, Zenon DEF Within

\* Two parts of a sequence have all of it.
LEMMA WithinParts ==
  ASSUME NEW s \in Seq(Written), NEW p \in Seq(Written), NEW b \in Seq(Written),
         Len(s) = Len(p) + Len(b), \A k \in 1..Len(p) : p[k] = s[k],
         \A k \in 1..Len(b) : b[k] = s[Len(p) + k]
  PROVE  Within(s, p \o b)
<1> SUFFICES ASSUME NEW i \in DOMAIN s
             PROVE  In(s[i], p \o b)
  BY DEF Within
<1>1. CASE i <= Len(p)
  <2>1. i \in DOMAIN (p \o b) /\ (p \o b)[i] = s[i]
    BY <1>1
  <2> QED BY <2>1 DEF In
<1>2. CASE i > Len(p)
  <2>1. i - Len(p) \in 1..Len(b) /\ i \in DOMAIN (p \o b)
    BY <1>2
  <2>2. (p \o b)[i] = b[i - Len(p)]
    BY <1>2, <2>1
  <2>3. b[i - Len(p)] = s[Len(p) + (i - Len(p))] /\ Len(p) + (i - Len(p)) = i
    BY <2>1
  <2> QED BY <2>1, <2>2, <2>3 DEF In
<1> QED BY <1>1, <1>2

\* The first part of a sequence is within that of a longer one.
LEMMA WithinTaken ==
  ASSUME NEW s \in Seq(Written), NEW p \in Seq(Written), NEW n \in Nat
  PROVE  Within(Take(s, n), Take(s \o p, n))
<1>1. /\ Len(Take(s, n)) = (IF n < Len(s) THEN n ELSE Len(s))
      /\ Take(s, n) \in Seq(Written)
      /\ \A i \in DOMAIN Take(s, n) : Take(s, n)[i] = s[i]
  BY Taken
<1>2. s \o p \in Seq(Written) /\ Len(s \o p) = Len(s) + Len(p)
  OBVIOUS
<1>3. /\ Len(Take(s \o p, n)) = (IF n < Len(s \o p) THEN n ELSE Len(s \o p))
      /\ Take(s \o p, n) \in Seq(Written)
      /\ \A i \in DOMAIN Take(s \o p, n) : Take(s \o p, n)[i] = (s \o p)[i]
  BY <1>2, Taken
<1> DEFINE t == Take(s, n)
           u == Take(s \o p, n)
<1> HIDE DEF t, u
<1> SUFFICES ASSUME NEW i \in DOMAIN t
             PROVE  In(t[i], u)
  BY DEF Within, t, u
<1>4. i \in 1..Len(s) /\ i \in DOMAIN u
  BY <1>1, <1>2, <1>3 DEF t, u
<1>5. t[i] = s[i] /\ u[i] = (s \o p)[i] /\ (s \o p)[i] = s[i]
  BY <1>1, <1>3, <1>4 DEF t, u
<1> QED BY <1>4, <1>5 DEF In

\* What is kept of a file and what is not are all of it.
LEMMA WithinKept ==
  ASSUME NEW s \in Seq(Written), NEW n \in Nat
  PROVE  Within(s, Take(s, n) \o Drop(s, n))
<1>1. /\ Len(Take(s, n)) = (IF n < Len(s) THEN n ELSE Len(s))
      /\ Take(s, n) \in Seq(Written)
      /\ \A i \in DOMAIN Take(s, n) : Take(s, n)[i] = s[i]
  BY Taken
<1>2. /\ Drop(s, n) \in Seq(Written)
      /\ Len(Drop(s, n)) = (IF n <= Len(s) THEN Len(s) - n ELSE 0)
      /\ \A i \in 1..(Len(s) - n) : Drop(s, n)[i] = s[n + i]
  BY Dropped
<1> DEFINE t == Take(s, n)
           u == Drop(s, n)
<1> HIDE DEF t, u
<1>3. Len(s) = Len(t) + Len(u) /\ \A k \in 1..Len(t) : t[k] = s[k]
  <2>1. /\ Len(t) = (IF n < Len(s) THEN n ELSE Len(s))
        /\ Len(u) = (IF n <= Len(s) THEN Len(s) - n ELSE 0)
        /\ Len(s) \in Nat
    BY <1>1, <1>2 DEF t, u
  <2>2. t \in Seq(Written) /\ \A i \in DOMAIN t : t[i] = s[i]
    BY <1>1 DEF t
  <2>3. Len(s) = Len(t) + Len(u)
    <3> DEFINE k == Len(s)
               l == Len(t)
               j == Len(u)
    <3>1. l = (IF n < k THEN n ELSE k) /\ j = (IF n <= k THEN k - n ELSE 0)
      BY <2>1
    <3>2. k \in Nat
      BY <2>1
    <3> HIDE DEF k, l, j
    <3>3. k = l + j
      BY <3>1, <3>2
    <3> QED BY <3>3 DEF k, l, j
  <2> QED BY <2>2, <2>3
<1>4. \A k \in 1..Len(u) : u[k] = s[Len(t) + k]
  <2> SUFFICES ASSUME NEW k \in 1..Len(u)
               PROVE  u[k] = s[Len(t) + k]
    OBVIOUS
  <2>1. n <= Len(s) /\ k \in 1..(Len(s) - n) /\ Len(t) = n
    BY <1>1, <1>2 DEF t, u
  <2> QED BY <2>1, <1>2 DEF u
<1> QED BY <1>1, <1>2, <1>3, <1>4, WithinParts DEF t, u

\* Between two others, a sequence may be replaced by one that has its units.
LEMMA WithinBetween ==
  ASSUME NEW g \in Seq(Written), NEW s \in Seq(Written), NEW t \in Seq(Written),
         NEW u \in Seq(Written), Within(s, t)
  PROVE  Within((g \o s) \o u, (g \o t) \o u)
<1> DEFINE a == g \o t
           r == a \o u
<1>1. a \in Seq(Written) /\ g \o s \in Seq(Written)
  OBVIOUS
<1>2. Within(g, a) /\ Within(t, a)
  BY WithinBoth
<1>3. Within(a, r) /\ Within(u, r)
  <2> HIDE DEF a
  <2> QED BY <1>1, WithinBoth
<1> HIDE DEF a, r
<1>4. Within(s, r) /\ Within(g, r)
  BY <1>2, <1>3, WithinThrough
<1>5. Within(g \o s, r)
  BY <1>4, WithinBoth
<1>6. Within((g \o s) \o u, r)
  BY <1>1, <1>3, <1>5, WithinBoth
<1> QED BY <1>6 DEF r, a

\* A writer that adds to its file takes nothing from the stream, nor from what
\* it becomes by the rename.
LEMMA PutsWithin ==
  ASSUME TypeInv, NEW w \in Writers, NEW p \in Seq(Written),
         NEW b \in Seq(Written), WriterPuts(w, p, b)
  PROVE  /\ Within(Stream, Stream')
         /\ Stream \in Seq(Written) /\ Stream' \in Seq(Written)
         /\ fd[w] = name => Stream' = Stream \o p
         /\ rpc = "rename" => Within(After, After')
         /\ rpc' = rpc
<1>1. /\ Puts(w, p) /\ gone' = gone /\ size' = size
      /\ tmp' = tmp /\ name' = name /\ rpc' = rpc
  BY DEF WriterPuts, Puts, readerVars
<1>2. Stream' = (IF fd[w] = name THEN Stream \o p ELSE Stream)
  BY <1>1, StreamPuts
<1>3. Stream \in Seq(Written)
  BY StreamIs
<1>4. Within(Stream, Stream \o p) /\ Stream \o p \in Seq(Written)
  BY <1>3, WithinBoth
<1>5. Within(Stream, Stream)
  BY DEF Within, In
<1>6. ASSUME rpc = "rename"
      PROVE  Within(After, After')
  <2>1. /\ name \in 1..Len(files) /\ files \in Seq(Seq(Written))
        /\ gone \in Seq(Written) /\ tmp \in Seq(Written) /\ size \in Nat
    BY <1>6 DEF TypeInv, FilesOK, ReaderOK
  <2> DEFINE s == files[name]
             t == Take(s, size)
             u == Take(s \o p, size)
  <2>2. s \in Seq(Written)
    BY <2>1
  <2>3. files'[name] = s \/ files'[name] = s \o p
    <3>1. /\ files'[fd[w]] = files[fd[w]] \o p
          /\ \A i \in 1..Len(files) \ {fd[w]} : files'[i] = files[i]
      BY <1>1, FilesGrow
    <3> QED BY <2>1, <3>1
  <2> HIDE DEF s
  <2>4. Within(t, u) /\ Within(t, t)
    <3>1. Within(t, u)
      BY <2>1, <2>2, WithinTaken
    <3> QED BY <3>1 DEF Within, In
  <2>5. t \in Seq(Written) /\ u \in Seq(Written)
    <3>1. s \o p \in Seq(Written)
      BY <2>2
    <3> QED BY <2>1, <2>2, <3>1, Taken
  <2> HIDE DEF t, u
  <2>6. /\ Within((gone \o t) \o tmp, (gone \o t) \o tmp)
        /\ Within((gone \o t) \o tmp, (gone \o u) \o tmp)
    BY <2>1, <2>4, <2>5, WithinBetween
  <2>7. After = (gone \o t) \o tmp
    BY DEF After, s, t
  <2>8. After' = (gone \o t) \o tmp \/ After' = (gone \o u) \o tmp
    <3>1. CASE files'[name] = s
      BY <3>1, <1>1 DEF After, t
    <3>2. CASE files'[name] = s \o p
      BY <3>2, <1>1 DEF After, u
    <3> QED BY <2>3, <3>1, <3>2
  <2> QED BY <2>6, <2>7, <2>8
<1> QED BY <1>1, <1>2, <1>3, <1>4, <1>5, <1>6

\* What is done in a sequence is done in one that has its units, and in which
\* what is done now is as well.
LEMMA DoneWithin ==
  ASSUME NEW s, NEW t, Within(s, t), DoneIn(s),
         \A m \in done' \ done : \A f \in DOMAIN Frames[m] : RecordIn(m, f, t)
  PROVE  \A m \in done' : \A f \in DOMAIN Frames[m] : RecordIn(m, f, t)
<1> SUFFICES ASSUME NEW m \in done, NEW f \in DOMAIN Frames[m]
             PROVE  RecordIn(m, f, t)
  OBVIOUS
<1>1. RecordIn(m, f, s)
  BY DEF DoneIn
<1> QED BY <1>1, RecordWithin

\* A writer that has the file open keeps what is done.
LEMMA WriterKeeps ==
  ASSUME TypeInv, KeptInv, NEW w \in Writers,
         WriterWrite(w) \/ WriterClose(w) \/ WriterFails(w) \/ WriterEnds(w)
  PROVE  KeptInv'
<1>1. PICK p \in Seq(Written), b \in Seq(Written) :
        /\ WriterPuts(w, p, b)
        /\ WriterWrite(w) => Within(Filled(w), p \o b)
        /\ WriterClose(w) => p = buf[w]
  <2>1. CASE WriterWrite(w)
    <3> DEFINE p == SubSeq(Filled(w), 1, Flushed(w))
               b == Drop(Filled(w), Flushed(w))
    <3>1. WriterPuts(w, p, b) /\ fd[w] # 0 /\ wfrm[w] < Len(Frames[wmsg[w]])
      BY <2>1, WriterPart DEF WriterPuts, Puts
    <3>2. /\ Filled(w) \in Seq(Written) /\ Flushed(w) \in 0..Len(Filled(w))
          /\ p \in Seq(Written) /\ Len(p) = Flushed(w)
          /\ \A i \in 1..Flushed(w) : p[i] = Filled(w)[i]
          /\ b \in Seq(Written) /\ Len(b) = Len(Filled(w)) - Flushed(w)
          /\ \A i \in 1..(Len(Filled(w)) - Flushed(w)) :
               b[i] = Filled(w)[Flushed(w) + i]
      BY <3>1, FlushedBuffers
    <3> HIDE DEF p, b
    <3>3. Len(Filled(w)) = Len(p) + Len(b)
      BY <3>2
    <3>4. Within(Filled(w), p \o b)
      BY <3>2, <3>3, WithinParts
    <3>5. ~WriterClose(w)
      BY <2>1, <3>1 DEF WriterWrite, WriterClose, TypeInv, WritersOK
    <3> QED BY <3>1, <3>2, <3>4, <3>5
  <2>2. CASE ~WriterWrite(w)
    <3>1. buf[w] \in Seq(Written) /\ <<>> \in Seq(Written)
      BY DEF TypeInv, WritersOK
    <3> QED BY <2>2, <3>1, WriterPart
  <2> QED BY <2>1, <2>2
<1>2. /\ Within(Stream, Stream')
      /\ Stream \in Seq(Written) /\ Stream' \in Seq(Written)
      /\ fd[w] = name => Stream' = Stream \o p
      /\ rpc = "rename" => Within(After, After')
      /\ rpc' = rpc
  BY <1>1, PutsWithin
<1>3. /\ fd[w] # 0 /\ stale' = stale /\ name' = name
      /\ fd'[w] \in {0, fd[w]} /\ buf'[w] = b
      /\ \A v \in Writers \ {w} : fd'[v] = fd[v] /\ buf'[v] = buf[v]
  BY <1>1, PutsTypes DEF WriterPuts, Puts
<1>4. /\ wfrm \in [Writers -> Nat] /\ wmsg[w] \in Messages
      /\ wmsg \in [Writers -> {0} \cup Messages]
      /\ buf \in [Writers -> Seq(Written)]
  BY <1>3 DEF TypeInv, WritersOK
<1>5. /\ \A v \in Writers \ {w} : wmsg'[v] = wmsg[v] /\ wfrm'[v] = wfrm[v]
      /\ fd'[w] # 0 => WriterWrite(w)
      /\ WriterWrite(w) => /\ wmsg' = wmsg /\ wfrm'[w] = wfrm[w] + 1
                           /\ wfrm[w] < Len(Frames[wmsg[w]])
  BY <1>3, <1>4, WriterPart DEF TypeInv, WritersOK
<1>6. \A m \in done' \ done : m = wmsg[w] /\ WriterClose(w) /\ ~stale[w]
  BY WriterPart
<1>7. ASSUME ~stale[w]
      PROVE  /\ fd[w] = name /\ rpc # "rename" /\ Stream' = Stream \o p
             /\ \A f \in 1..wfrm[w] : RecordIn(wmsg[w], f, Stream \o buf[w])
  BY <1>2, <1>3, <1>7 DEF KeptInv
<1>8. ASSUME NEW m \in done' \ done, NEW f \in DOMAIN Frames[m]
      PROVE  RecordIn(m, f, Stream')
  <2>1. m = wmsg[w] /\ Stream' = Stream \o buf[w] /\ WriterClose(w)
    BY <1>1, <1>6, <1>7
  <2>2. f \in 1..wfrm[w]
    BY <1>4, <2>1, FrameCount, WriterPart
  <2> QED BY <1>6, <1>7, <2>1, <2>2
<1>9. DoneIn(Stream)'
  <2>1. \A m \in done' : \A f \in DOMAIN Frames[m] : RecordIn(m, f, Stream')
    BY <1>2, <1>8, DoneWithin DEF KeptInv
  <2> QED BY <2>1 DEF DoneIn, RecordIn, In
<1>10. ASSUME rpc' = "rename"
       PROVE  DoneIn(After)'
  <2>1. done' \ done = {}
    BY <1>2, <1>6, <1>7, <1>10
  <2>2. \A m \in done' : \A f \in DOMAIN Frames[m] : RecordIn(m, f, After')
    BY <1>2, <1>10, <2>1, DoneWithin DEF KeptInv
  <2> QED BY <2>2 DEF DoneIn, RecordIn, In
<1>11. ASSUME NEW v \in Writers, fd'[v] # 0, ~stale'[v]
       PROVE  /\ fd'[v] = name' /\ rpc' # "rename"
              /\ \A f \in 1..wfrm'[v] :
                   RecordIn(wmsg'[v], f, Stream' \o buf'[v])
  <2>1. CASE v = w
    <3>1. ~stale[w] /\ WriterWrite(w) /\ fd'[w] = fd[w]
      BY <1>3, <1>5, <1>11, <2>1
    <3>2. /\ fd[w] = name /\ rpc # "rename" /\ Stream' = Stream \o p
          /\ \A f \in 1..wfrm[w] : RecordIn(wmsg[w], f, Stream \o buf[w])
      BY <1>7, <3>1
    <3> DEFINE r == Record(wmsg[w], wfrm[w] + 1)
               t == (Stream \o p) \o b
    <3>3. r \in Seq(Written) /\ buf[w] \in Seq(Written)
      BY <1>3, <1>4, <1>5, <3>1, NextFrame, RecordUnits
    <3>4. Filled(w) = buf[w] \o r
      BY DEF Filled
    <3> HIDE DEF r
    <3>5. Within(buf[w], Filled(w)) /\ Within(r, Filled(w))
      BY <3>3, <3>4, WithinBoth
    <3>6. Within(p \o b, t) /\ Within(Stream, t)
      <4> DEFINE a == Stream \o p
      <4>1. a \in Seq(Written)
        BY <1>2
      <4>2. Within(Stream, a) /\ Within(p, a)
        BY <1>2, WithinBoth
      <4>3. Within(a, a \o b) /\ Within(b, a \o b)
        <5> HIDE DEF a
        <5> QED BY <4>1, WithinBoth
      <4>4. Within(Stream, a \o b) /\ Within(p, a \o b)
        <5> HIDE DEF a
        <5> QED BY <4>2, <4>3, WithinThrough
      <4>5. Within(p \o b, a \o b)
        BY <4>3, <4>4, WithinBoth
      <4> QED BY <4>4, <4>5
    <3> HIDE DEF t
    <3>7. Within(Filled(w), t)
      BY <1>1, <3>1, <3>6, WithinThrough
    <3>8. Within(buf[w], t) /\ Within(r, t)
      BY <3>5, <3>7, WithinThrough
    <3>9. Within(Stream \o buf[w], t)
      BY <1>2, <3>3, <3>6, <3>8, WithinBoth
    <3>10. \A f \in 1..wfrm[w] : RecordIn(wmsg[w], f, t)
      BY <3>2, <3>9, RecordWithin
    <3>11. RecordIn(wmsg[w], wfrm[w] + 1, t)
      BY <3>8 DEF RecordIn, Within, r
    <3>12. \A f \in 1..(wfrm[w] + 1) : RecordIn(wmsg[w], f, t)
      <4>1. \A f \in 1..(wfrm[w] + 1) : f \in 1..wfrm[w] \/ f = wfrm[w] + 1
        BY <1>4
      <4> QED BY <3>10, <3>11, <4>1
    <3>13. t = Stream' \o buf'[w]
      BY <1>3, <3>2 DEF t
    <3> QED BY <1>2, <1>3, <1>5, <2>1, <3>1, <3>2, <3>12, <3>13
  <2>2. CASE v # w
    <3>1. /\ fd[v] = name /\ rpc # "rename" /\ buf'[v] = buf[v]
          /\ wmsg'[v] = wmsg[v] /\ wfrm'[v] = wfrm[v] /\ fd'[v] = fd[v]
          /\ \A f \in 1..wfrm[v] : RecordIn(wmsg[v], f, Stream \o buf[v])
      BY <1>3, <1>5, <1>11, <2>2 DEF KeptInv
    <3>2. Stream' \in Seq(Written) /\ buf[v] \in Seq(Written)
      BY <1>2, <1>4
    <3>3. /\ Within(Stream', Stream' \o buf[v])
          /\ Within(buf[v], Stream' \o buf[v])
      BY <3>2, WithinBoth
    <3>4. Within(Stream, Stream' \o buf[v])
      BY <1>2, <3>3, WithinThrough
    <3>5. Within(Stream \o buf[v], Stream' \o buf[v])
      BY <1>2, <3>2, <3>3, <3>4, WithinBoth
    <3>6. \A f \in 1..wfrm[v] : RecordIn(wmsg[v], f, Stream' \o buf[v])
      BY <3>1, <3>5, RecordWithin
    <3> QED BY <1>2, <1>3, <3>1, <3>6
  <2> QED BY <2>1, <2>2
<1>12. ASSUME NEW v \in Writers, fd'[v] # 0, ~stale'[v]
       PROVE  /\ fd'[v] = name' /\ rpc' # "rename"
              /\ \A f \in 1..wfrm'[v] : RecordIn(wmsg[v], f, Stream \o buf[v])'
  BY <1>11, <1>12 DEF RecordIn, In
<1> QED BY <1>9, <1>10, <1>12 DEF KeptInv

\* Opening the file keeps what is done: a writer that opens it within a
\* message, or while it is being replaced, does not count on it.
LEMMA OpenKeeps ==
  ASSUME TypeInv, KeptInv, NEW w \in Writers, WriterOpen(w)
  PROVE  KeptInv'
<1>1. /\ fd[w] = 0 /\ fd' = [fd EXCEPT ![w] = name'] /\ buf' = buf
      /\ wfrm' = wfrm /\ done' = done /\ rpc' = rpc /\ size' = size
      /\ tmp' = tmp /\ gone' = gone
      /\ stale' = [stale EXCEPT ![w] = wmsg[w] # 0 \/ rpc = "rename"]
      /\ \/ wmsg' = [wmsg EXCEPT ![w] = next]
         \/ wmsg' = wmsg
  BY DEF WriterOpen, readerVars
<1>2. Stream' = Stream
  BY StreamStays
<1>3. /\ name # 0 => files' = files /\ name' = name
      /\ name = 0 => files = <<>>
  BY OpenFiles
<1>4. /\ fd \in [Writers -> 0..Len(files)] /\ wfrm \in [Writers -> Nat]
      /\ stale \in [Writers -> BOOLEAN]
      /\ wmsg \in [Writers -> {0} \cup Messages]
      /\ wfrm[w] = 0 \/ wmsg[w] # 0
      /\ rpc = "rename" => name # 0
  BY DEF TypeInv, WritersOK, ReaderOK
<1>5. DoneIn(Stream)'
  BY <1>1, <1>2 DEF KeptInv, DoneIn, RecordIn, In
<1>6. ASSUME rpc' = "rename"
      PROVE  DoneIn(After)'
  <2>1. After' = After
    BY <1>1, <1>3, <1>4, <1>6 DEF After
  <2> QED BY <1>1, <1>6, <2>1 DEF KeptInv, DoneIn, RecordIn, In
<1>7. ASSUME NEW v \in Writers, fd'[v] # 0, ~stale'[v]
      PROVE  /\ fd'[v] = name' /\ rpc' # "rename"
             /\ \A f \in 1..wfrm'[v] : RecordIn(wmsg[v], f, Stream \o buf[v])'
  <2>1. CASE v = w
    <3>1. stale'[w] = (wmsg[w] # 0 \/ rpc = "rename")
      BY <1>1, <1>4
    <3>2. wmsg[w] = 0 /\ rpc # "rename"
      BY <3>1, <2>1, <1>7
    <3>3. wfrm'[w] = 0 /\ fd'[w] = name'
      BY <3>2, <1>1, <1>4
    <3> QED BY <2>1, <3>2, <3>3, <1>1
  <2>2. CASE v # w
    <3>1. fd'[v] = fd[v] /\ stale'[v] = stale[v] /\ wmsg'[v] = wmsg[v]
      BY <2>2, <1>1, <1>4
    <3>2. /\ fd[v] = name /\ rpc # "rename"
          /\ \A f \in 1..wfrm[v] : RecordIn(wmsg[v], f, Stream \o buf[v])
      BY <3>1, <1>7 DEF KeptInv
    <3>3. name' = name
      BY <3>1, <3>2, <1>3, <1>7
    <3> QED BY <3>1, <3>2, <3>3, <1>1, <1>2 DEF RecordIn, In
  <2> QED BY <2>1, <2>2
<1> QED BY <1>5, <1>6, <1>7 DEF KeptInv

\* So does zlmb-dump: once it has copied the file, no writer that has it open
\* counts on it, and the rename is as it was copied.
LEMMA ReadKeeps ==
  ASSUME TypeInv, KeptInv, CopyInv,
         \/ DumpStart \/ DumpReadFails \/ DumpRead \/ DumpTruncate \/ DumpRename
         \/ DumpEnds \/ UNCHANGED vars
  PROVE  KeptInv'
<1>1. /\ fd' = fd /\ buf' = buf /\ wmsg' = wmsg /\ wfrm' = wfrm /\ done' = done
  BY DEF DumpStart, DumpReadFails, DumpRead, DumpTruncate, DumpRename, DumpEnds,
         vars, writerVars
<1>2. CASE DumpTruncate
  <2>1. Stream' = Stream /\ gone' = gone /\ size' = size /\ files' = files
    BY <1>2, StreamStays DEF DumpTruncate, fileVars
  <2>2. DoneIn(Stream)'
    BY <1>1, <2>1 DEF KeptInv, DoneIn, RecordIn, In
  <2>3. CASE name = 0
    <3>1. rpc' = "idle" /\ stale' = stale /\ name' = name
      BY <2>3, <1>2 DEF DumpTruncate, fileVars
    <3>2. ASSUME NEW v \in Writers, fd'[v] # 0, ~stale'[v]
          PROVE  /\ fd'[v] = name'
                 /\ \A f \in 1..wfrm'[v] :
                      RecordIn(wmsg[v], f, Stream \o buf[v])'
      <4>1. /\ fd[v] = name
            /\ \A f \in 1..wfrm[v] : RecordIn(wmsg[v], f, Stream \o buf[v])
        BY <3>1, <3>2, <1>1 DEF KeptInv
      <4> QED BY <4>1, <3>1, <1>1, <2>1 DEF RecordIn, In
    <3> QED BY <2>2, <3>1, <3>2 DEF KeptInv
  <2>4. CASE name # 0
    <3>1. /\ tmp' = Drop(files[name], size) /\ name' = name
          /\ stale' = [v \in Writers |-> stale[v] \/ fd[v] # 0]
      BY <2>4, <1>2 DEF DumpTruncate, fileVars
    <3> DEFINE s == files[name]
               t == Take(s, size)
               u == Drop(s, size)
    <3>2. s \in Seq(Written) /\ gone \in Seq(Written) /\ size \in Nat
      BY <2>4 DEF TypeInv, FilesOK, ReaderOK
    <3>3. Stream = gone \o s
      BY <2>4 DEF Stream, Content
    <3>4. After' = (gone \o t) \o u
      BY <3>1, <2>1 DEF After
    <3> HIDE DEF s
    <3>5. /\ t \in Seq(Written) /\ u \in Seq(Written)
          /\ Within(s, t \o u)
      BY <3>2, Taken, Dropped, WithinKept
    <3> HIDE DEF t, u
    <3>6. Within(gone \o s, (gone \o t) \o u)
      <4>1. gone \o (t \o u) = (gone \o t) \o u
        BY <3>2, <3>5, Regrouped
      <4> DEFINE a == t \o u
      <4>2. a \in Seq(Written)
        BY <3>5
      <4>3. Within(s, a)
        BY <3>5
      <4> HIDE DEF a
      <4>4. Within(gone, gone \o a) /\ Within(a, gone \o a)
        BY <3>2, <4>2, WithinBoth
      <4>5. Within(s, gone \o a)
        BY <4>3, <4>4, WithinThrough
      <4>6. Within(gone \o s, gone \o a)
        BY <3>2, <4>4, <4>5, WithinBoth
      <4> QED BY <4>1, <4>6 DEF a
    <3>7. \A m \in done' : \A f \in DOMAIN Frames[m] : RecordIn(m, f, After')
      BY <1>1, <3>3, <3>4, <3>6, DoneWithin DEF KeptInv
    <3>8. DoneIn(After)'
      BY <3>7 DEF DoneIn, RecordIn, In
    <3>9. \A v \in Writers : fd'[v] # 0 => stale'[v]
      BY <1>1, <3>1
    <3> QED BY <2>2, <3>8, <3>9 DEF KeptInv
  <2> QED BY <2>3, <2>4
<1>3. CASE DumpRename
  <2>1. rpc = "rename" /\ rpc' = "idle" /\ stale' = stale
    BY <1>3 DEF DumpRename, writerVars
  <2>2. Stream' = After
    BY <1>3, StreamRenamed DEF After
  <2>3. DoneIn(Stream)'
    BY <1>1, <2>1, <2>2 DEF KeptInv, DoneIn, RecordIn, In
  <2>4. \A v \in Writers : fd'[v] # 0 => stale'[v]
    BY <1>1, <2>1 DEF KeptInv, TypeInv, WritersOK
  <2> QED BY <2>1, <2>3, <2>4 DEF KeptInv
<1>4. CASE \/ DumpStart \/ DumpReadFails \/ DumpRead \/ DumpEnds
           \/ UNCHANGED vars
  <2>1. /\ Stream' = Stream /\ gone' = gone /\ stale' = stale
        /\ name' = name /\ files' = files
    BY <1>4, StreamStays
       DEF DumpStart, DumpReadFails, DumpRead, DumpEnds, vars, fileVars,
           writerVars
  <2>2. DoneIn(Stream)'
    BY <1>1, <2>1 DEF KeptInv, DoneIn, RecordIn, In
  <2>3. rpc' = "rename" => rpc = "rename" /\ After' = After
    BY <1>4 DEF DumpStart, DumpReadFails, DumpRead, DumpEnds, vars, readerVars,
                fileVars, After
  <2>4. rpc' = "rename" => DoneIn(After)'
    BY <1>1, <2>3 DEF KeptInv, DoneIn, RecordIn, In
  <2>5. ASSUME NEW v \in Writers, fd'[v] # 0, ~stale'[v]
        PROVE  /\ fd'[v] = name' /\ rpc' # "rename"
               /\ \A f \in 1..wfrm'[v] : RecordIn(wmsg[v], f, Stream \o buf[v])'
    <3>1. /\ fd[v] = name /\ rpc # "rename"
          /\ \A f \in 1..wfrm[v] : RecordIn(wmsg[v], f, Stream \o buf[v])
      BY <1>1, <2>1, <2>5 DEF KeptInv
    <3> QED BY <3>1, <1>1, <2>1, <2>3 DEF RecordIn, In
  <2> QED BY <2>2, <2>4, <2>5 DEF KeptInv
<1> QED BY <1>2, <1>3, <1>4

\* A message that was dumped without a fault, and without a replacement of the
\* file meanwhile, is in the file until zlmb-dump removes it.
THEOREM DoneMessagesAreKept == Spec => []DoneIsKept
<1>1. Init => KeptInv
  BY DEF Init, KeptInv, DoneIn
<1>2. TypeInv /\ OrderInv /\ CopyInv /\ KeptInv /\ [Next]_vars => KeptInv'
  <2> SUFFICES ASSUME TypeInv, CopyInv, KeptInv, [Next]_vars
               PROVE  KeptInv'
    OBVIOUS
  <2>1. CASE \E w \in Writers : WriterStep(w)
    BY <2>1, WriterKeeps, OpenKeeps DEF WriterStep
  <2>2. CASE ~\E w \in Writers : WriterStep(w)
    BY <2>2, ReadKeeps DEF Next, DumpStep
  <2> QED BY <2>1, <2>2
<1> QED BY <1>1, <1>2, OrderInvariant, KeptInvImplies, PTL DEF Spec

-----------------------------------------------------------------------------
(***************************************************************************)
(* Whole messages.  As long as nothing fails and all messages fit the      *)
(* buffer, a writer keeps its message in its buffer until it is complete,  *)
(* and zlmb-dump stands at the end of a record whenever it reads, and at   *)
(* the end of a message when it replaces the file.                         *)
(***************************************************************************)
\* Nothing has failed, and each message so far fits the buffer.
Quiet == faults = 0 /\ \A m \in 1..(next - 1) : Plain(m)

\* How much is written of the frame of u, and whether it is its message's last.
Put(u) == Frames[u.msg][u.frame].put

Ends(u) == u.frame = Len(Frames[u.msg])

\* After a head comes all that is written of its data.
HeadsWhole(s) ==
  \A i \in DOMAIN s : IsHead(s[i]) =>
    /\ i + Put(s[i]) \in DOMAIN s
    /\ s[i + Put(s[i])] = [s[i] EXCEPT !.byte = Put(s[i])]

\* A record, or a message, ends at the n-th element.
RecordEnd(s, n) == n = 0 \/ (n \in DOMAIN s /\ s[n].byte = Put(s[n]))

MessageEnd(s, n) == n = 0 \/ (n \in DOMAIN s /\ Last(s[n]))

\* The units of s follow one another.
Linked(s) == \A i \in 1..(Len(s) - 1) : Follows(s[i], s[i + 1])

\* The first n frames of message m, which fits the buffer.
Part(s, m, n) ==
  /\ \E end \in [DOMAIN Frames[m] -> 0..BufUnits] :
       Fits(m, end) /\ Len(s) = IF n = 0 THEN 0 ELSE end[n]
  /\ HeadsWhole(s) /\ Linked(s)
  /\ n = 0 => s = <<>>
  /\ n # 0 => /\ s # <<>> /\ First(s[1]) /\ RecordEnd(s, Len(s))
              /\ s[Len(s)].msg = m /\ s[Len(s)].frame = n

\* A message that is not complete is in the buffer of its writer, so far as it
\* has been dumped.
BuffersInv ==
  \A w \in Writers : IF fd[w] = 0 THEN wmsg[w] = 0
                                  ELSE Part(buf[w], wmsg[w], wfrm[w])

\* What was removed and what is in the file are whole messages.
ContentInv == Whole(gone) /\ Whole(Content) /\ HeadsWhole(Content)

\* zlmb-dump stands at the end of a record when it reads, and of a message when
\* it replaces the file.  Without an open file, it reads the first record anew
\* each time.
ReaderInv ==
  /\ rpc = "read" /\ rfd # 0 =>
       rfd = name /\ size = pos /\ RecordEnd(Content, pos)
  /\ rpc = "read" /\ rfd = 0 /\ size # 0 =>
       Content # <<>> /\ ~Ends(Content[1])
  /\ rpc = "truncate" => MessageEnd(Content, size)
  /\ rpc = "rename" =>
       MessageEnd(Content, size) /\ Whole(tmp) /\ HeadsWhole(tmp)

WholeInv == Quiet => BuffersInv /\ ContentInv /\ ReaderInv

\* The lengths that are there of a unit in a file.
LEMMA UnitOK ==
  ASSUME NEW u \in Written
  PROVE  /\ u.msg \in Messages /\ u.frame \in 1..Len(Frames[u.msg])
         /\ Len(Frames[u.msg]) \in Nat /\ u.frame \in Nat
         /\ Put(u) \in Nat /\ u.byte \in 0..Put(u)
         /\ u.frame \in DOMAIN Frames[u.msg]
<1>1. u.msg \in Messages /\ u.frame \in DOMAIN Frames[u.msg]
  BY DEF Written, Units
<1>2. u.byte \in 0..Put(u)
  BY DEF Written, Put
<1> QED BY <1>1, <1>2, FrameLengths DEF Put

\* After a record there is a head, and after a message the first one.
LEMMA AfterRecord ==
  ASSUME NEW s \in Seq(Written), Whole(s), NEW n \in Nat, n < Len(s)
  PROVE  /\ RecordEnd(s, n) => IsHead(s[n + 1])
         /\ MessageEnd(s, n) => First(s[n + 1])
<1>1. s # <<>> /\ n + 1 \in DOMAIN s
  OBVIOUS
<1>2. CASE n = 0
  BY <1>1, <1>2 DEF Whole, First, IsHead
<1>3. CASE n # 0
  <2> DEFINE u == s[n]
             v == s[n + 1]
  <2>1. u \in Written /\ v \in Written /\ n \in 1..(Len(s) - 1)
    BY <1>1, <1>3
  <2>2. Follows(u, v) \/ First(v)
    BY <1>1, <2>1 DEF Whole
  <2> HIDE DEF u, v
  <2>3. ASSUME RecordEnd(s, n)
        PROVE  IsHead(v)
    <3>1. u.byte = Put(u)
      BY <1>3, <2>3 DEF RecordEnd, u
    <3>2. CASE Follows(u, v)
      <4>1. CASE u.frame = v.frame /\ u.byte + 1 = v.byte
        <5>1. Put(u) = Put(v)
          BY <3>2, <4>1 DEF Follows, Put
        <5> QED BY <2>1, <3>1, <4>1, <5>1, UnitOK
      <4>2. CASE v.byte = 0
        BY <4>2 DEF IsHead
      <4> QED BY <3>2, <4>1, <4>2 DEF Follows
    <3> QED BY <2>2, <3>2 DEF First, IsHead
  <2>4. ASSUME MessageEnd(s, n)
        PROVE  First(v)
    <3>1. u.frame = Len(Frames[u.msg]) /\ u.byte = Put(u)
      BY <1>3, <2>4 DEF MessageEnd, Last, Put, u
    <3>2. ~Follows(u, v)
      <4> SUFFICES ASSUME Follows(u, v)
                   PROVE  FALSE
        OBVIOUS
      <4>1. CASE u.frame = v.frame /\ u.byte + 1 = v.byte
        <5>1. Put(u) = Put(v)
          BY <4>1 DEF Follows, Put
        <5> QED BY <2>1, <3>1, <4>1, <5>1, UnitOK
      <4>2. CASE u.frame + 1 = v.frame
        <5>1. v.frame \in 1..Len(Frames[u.msg])
          BY <2>1, UnitOK DEF Follows
        <5> QED BY <2>1, <3>1, <4>2, <5>1, UnitOK
      <4> QED BY <4>1, <4>2 DEF Follows
    <3> QED BY <2>2, <3>2
  <2> QED BY <2>3, <2>4 DEF v
<1> QED BY <1>2, <1>3

\* The record that begins after the n-th element is there.
LEMMA RecordThere ==
  ASSUME NEW s \in Seq(Written), HeadsWhole(s), NEW n \in Nat, n < Len(s),
         IsHead(s[n + 1])
  PROVE  LET h == s[n + 1]
             e == n + 1 + Put(h)
         IN /\ h \in Written /\ Put(h) \in Nat /\ e \in DOMAIN s
            /\ RecordEnd(s, e)
            /\ Ends(h) => MessageEnd(s, e)
<1> DEFINE h == s[n + 1]
           e == n + 1 + Put(h)
<1>1. n + 1 \in DOMAIN s /\ h \in Written
  OBVIOUS
<1>2. e \in DOMAIN s /\ s[e] = [h EXCEPT !.byte = Put(h)]
  BY <1>1 DEF HeadsWhole
<1> HIDE DEF h, e
<1>3. s[e].msg = h.msg /\ s[e].frame = h.frame /\ s[e].byte = Put(h)
  BY <1>1, <1>2 DEF Written, Units
<1>4. s[e].byte = Put(s[e])
  BY <1>3 DEF Put
<1>5. Ends(h) => Last(s[e])
  BY <1>3, <1>4 DEF Ends, Last, Put
<1>6. Put(h) \in Nat
  BY <1>1, UnitOK
<1> QED BY <1>1, <1>2, <1>4, <1>5, <1>6 DEF RecordEnd, MessageEnd, h, e

\* Whole messages after whole messages.
LEMMA WholeBoth ==
  ASSUME NEW s \in Seq(Written), NEW t \in Seq(Written), Whole(s), Whole(t)
  PROVE  Whole(s \o t)
<1>1. CASE s = <<>>
  <2>1. s \o t = t
    BY <1>1
  <2> QED BY <2>1
<1>2. CASE t = <<>>
  <2>1. s \o t = s
    BY <1>2
  <2> QED BY <2>1
<1>3. CASE s # <<>> /\ t # <<>>
  <2> DEFINE c == s \o t
             k == Len(s)
             l == Len(t)
  <2>1. /\ c \in Seq(Written) /\ Len(c) = k + l /\ k \in Nat \ {0}
        /\ l \in Nat \ {0} /\ c # <<>>
        /\ \A i \in 1..k : c[i] = s[i]
        /\ \A i \in 1..l : c[k + i] = t[i]
    BY <1>3
  <2>2. /\ First(s[1]) /\ Last(s[k]) /\ First(t[1]) /\ Last(t[l])
        /\ \A i \in 1..(k - 1) :
             Follows(s[i], s[i + 1]) \/ (Last(s[i]) /\ First(s[i + 1]))
        /\ \A i \in 1..(l - 1) :
             Follows(t[i], t[i + 1]) \/ (Last(t[i]) /\ First(t[i + 1]))
    BY <1>3 DEF Whole
  <2> HIDE DEF c, k, l
  <2>3. First(c[1]) /\ Last(c[k + l])
    BY <2>1, <2>2
  <2>4. ASSUME NEW i \in 1..(k + l - 1)
        PROVE  Follows(c[i], c[i + 1]) \/ (Last(c[i]) /\ First(c[i + 1]))
    <3>1. CASE i < k
      <4>1. i \in 1..(k - 1) /\ c[i] = s[i] /\ c[i + 1] = s[i + 1]
        BY <3>1, <2>1
      <4> QED BY <4>1, <2>2
    <3>2. CASE i = k
      <4>1. c[i] = s[k] /\ c[i + 1] = t[1]
        BY <3>2, <2>1
      <4> QED BY <4>1, <2>2
    <3>3. CASE i > k
      <4>1. i - k \in 1..(l - 1) /\ i = k + (i - k)
        BY <3>3, <2>1
      <4>2. i + 1 = k + (i - k + 1) /\ i - k + 1 \in 1..l /\ i - k \in 1..l
        BY <4>1, <2>1
      <4>3. c[i] = t[i - k] /\ c[i + 1] = t[i - k + 1]
        BY <4>1, <4>2, <2>1
      <4> QED BY <4>1, <4>3, <2>2
    <3>4. i < k \/ i = k \/ i > k
      BY <2>1
    <3> QED BY <3>1, <3>2, <3>3, <3>4
  <2>5. Len(c) - 1 = k + l - 1 /\ Len(c) = k + l
    BY <2>1
  <2>6. Whole(c)
    BY <2>3, <2>4, <2>5 DEF Whole
  <2> QED BY <2>6 DEF c
<1> QED BY <1>1, <1>2, <1>3

\* So are whole records.
LEMMA HeadsBoth ==
  ASSUME NEW s \in Seq(Written), NEW t \in Seq(Written),
         HeadsWhole(s), HeadsWhole(t)
  PROVE  HeadsWhole(s \o t)
<1> DEFINE c == s \o t
           k == Len(s)
           l == Len(t)
<1>1. /\ c \in Seq(Written) /\ DOMAIN c = 1..(k + l) /\ k \in Nat /\ l \in Nat
      /\ \A i \in 1..k : c[i] = s[i]
      /\ \A i \in 1..l : c[k + i] = t[i]
      /\ DOMAIN s = 1..k /\ DOMAIN t = 1..l
  OBVIOUS
<1> HIDE DEF c, k, l
<1> SUFFICES ASSUME NEW i \in DOMAIN c, IsHead(c[i])
             PROVE  /\ i + Put(c[i]) \in DOMAIN c
                    /\ c[i + Put(c[i])] = [c[i] EXCEPT !.byte = Put(c[i])]
  BY DEF HeadsWhole, c
<1>2. c[i] \in Written /\ Put(c[i]) \in Nat
  BY <1>1, UnitOK
<1>3. CASE i <= k
  <2>1. i \in 1..k /\ c[i] = s[i]
    BY <1>1, <1>3
  <2>2. /\ i + Put(s[i]) \in 1..k
        /\ s[i + Put(s[i])] = [s[i] EXCEPT !.byte = Put(s[i])]
    BY <1>1, <2>1 DEF HeadsWhole
  <2> QED BY <1>1, <2>1, <2>2
<1>4. CASE i > k
  <2> DEFINE j == i - k
             e == j + Put(c[i])
  <2>1. j \in 1..l /\ i = k + j
    BY <1>1, <1>4
  <2>2. c[i] = t[j]
    BY <1>1, <2>1
  <2>3. e \in 1..l /\ t[e] = [c[i] EXCEPT !.byte = Put(c[i])]
    BY <1>1, <2>1, <2>2 DEF HeadsWhole
  <2>4. i + Put(c[i]) = k + e
    BY <1>1, <1>2, <2>1
  <2> HIDE DEF e
  <2> QED BY <1>1, <2>3, <2>4
<1> QED BY <1>1, <1>3, <1>4

\* Up to the end of a message, and from there, messages are whole.
LEMMA WholeParts ==
  ASSUME NEW s \in Seq(Written), NEW n \in Nat, Whole(s), HeadsWhole(s),
         MessageEnd(s, n)
  PROVE  /\ Whole(Take(s, n)) /\ Whole(Drop(s, n)) /\ HeadsWhole(Drop(s, n))
         /\ Drop(s, n) \in Seq(Written)
<1> DEFINE t == Take(s, n)
           u == Drop(s, n)
           k == Len(s)
           l == k - n
<1>1. n \in 0..k /\ k \in Nat /\ l \in Nat /\ DOMAIN s = 1..k
  BY DEF MessageEnd
<1>2. /\ t \in Seq(Written) /\ DOMAIN t = 1..n /\ Len(t) = n
      /\ \A i \in 1..n : t[i] = s[i]
  <2>1. /\ t \in Seq(Written) /\ Len(t) = (IF n < k THEN n ELSE k)
        /\ \A i \in DOMAIN t : t[i] = s[i]
    BY Taken
  <2>2. Len(t) = n
    <3> HIDE DEF t, k
    <3> QED BY <2>1, <1>1
  <2> HIDE DEF t
  <2> QED BY <2>1, <2>2
<1>3. /\ u \in Seq(Written) /\ Len(u) = l /\ DOMAIN u = 1..l
      /\ \A i \in 1..l : u[i] = s[n + i]
  <2>1. /\ u \in Seq(Written) /\ Len(u) = (IF n <= k THEN k - n ELSE 0)
        /\ \A i \in 1..l : u[i] = s[n + i]
    BY Dropped
  <2>2. Len(u) = l
    <3> HIDE DEF u, k
    <3> QED BY <2>1, <1>1
  <2> HIDE DEF u, l
  <2> QED BY <2>1, <2>2
<1>4. s # <<>> =>
        /\ First(s[1]) /\ Last(s[k])
        /\ \A i \in 1..(k - 1) :
             Follows(s[i], s[i + 1]) \/ (Last(s[i]) /\ First(s[i + 1]))
  BY DEF Whole
<1>5. n < k => First(s[n + 1])
  BY AfterRecord
<1> HIDE DEF t, u, k
<1>6. Whole(t)
  <2> SUFFICES ASSUME t # <<>>
               PROVE  Whole(t)
    BY DEF Whole
  <2>1. n \in 1..k /\ s # <<>>
    BY <1>1, <1>2
  <2>2. First(t[1]) /\ Last(t[n])
    BY <1>2, <1>4, <2>1 DEF MessageEnd
  <2>3. ASSUME NEW i \in 1..(n - 1)
        PROVE  Follows(t[i], t[i + 1]) \/ (Last(t[i]) /\ First(t[i + 1]))
    <3>1. i \in 1..(k - 1) /\ t[i] = s[i] /\ t[i + 1] = s[i + 1]
      BY <1>1, <1>2
    <3> QED BY <1>4, <2>1, <3>1
  <2> QED BY <1>2, <2>2, <2>3 DEF Whole
<1>7. Whole(u)
  <2> SUFFICES ASSUME u # <<>>
               PROVE  Whole(u)
    BY DEF Whole
  <2>1. l \in 1..k /\ n < k /\ s # <<>> /\ n + l = k
    <3>1. l # 0
      BY <1>3
    <3>2. l \in 1..k /\ n < k /\ k # 0 /\ n + l = k
      BY <3>1, <1>1
    <3>3. s # <<>>
      BY <3>2 DEF k
    <3> QED BY <3>2, <3>3
  <2> HIDE DEF l
  <2>2. First(u[1]) /\ Last(u[l])
    <3>1. u[1] = s[n + 1] /\ u[l] = s[n + l] /\ 1 \in 1..l
      BY <1>3, <2>1
    <3>2. u[l] = s[k]
      BY <3>1, <2>1
    <3> QED BY <1>4, <1>5, <2>1, <3>1, <3>2
  <2>3. ASSUME NEW i \in 1..(l - 1)
        PROVE  Follows(u[i], u[i + 1]) \/ (Last(u[i]) /\ First(u[i + 1]))
    <3>1. /\ n + i \in 1..(k - 1) /\ u[i] = s[n + i]
          /\ u[i + 1] = s[n + (i + 1)] /\ n + (i + 1) = n + i + 1
      BY <1>1, <1>3, <2>1
    <3> QED BY <1>4, <2>1, <3>1
  <2> QED BY <1>3, <2>2, <2>3 DEF Whole
<1>8. HeadsWhole(u)
  <2> SUFFICES ASSUME NEW i \in 1..l, IsHead(u[i])
               PROVE  /\ i + Put(u[i]) \in 1..l
                      /\ u[i + Put(u[i])] = [u[i] EXCEPT !.byte = Put(u[i])]
    BY <1>3 DEF HeadsWhole
  <2>1. u[i] = s[n + i] /\ n + i \in 1..k /\ i \in Nat /\ i > 0
    BY <1>1, <1>3
  <2>2. u[i] \in Written /\ Put(u[i]) \in Nat
    BY <1>3, UnitOK
  <2> DEFINE e == i + Put(u[i])
  <2>3. n + i + Put(u[i]) = n + e /\ e \in Nat /\ e > 0
    BY <1>1, <2>1, <2>2
  <2>4. n + e \in 1..k /\ s[n + e] = [u[i] EXCEPT !.byte = Put(u[i])]
    BY <1>1, <2>1, <2>3 DEF HeadsWhole
  <2>5. e \in 1..l
    <3> HIDE DEF e
    <3> QED BY <1>1, <2>3, <2>4
  <2> HIDE DEF e
  <2>6. u[e] = [u[i] EXCEPT !.byte = Put(u[i])]
    BY <1>3, <2>4, <2>5
  <2> QED BY <2>5, <2>6 DEF e
<1> QED BY <1>3, <1>6, <1>7, <1>8 DEF t, u

\* What ends in a sequence does so when it grows.
LEMMA EndsStay ==
  ASSUME NEW s \in Seq(Written), NEW t \in Seq(Written), NEW n \in Nat
  PROVE  /\ RecordEnd(s, n) => RecordEnd(s \o t, n)
         /\ MessageEnd(s, n) => MessageEnd(s \o t, n)
         /\ s # <<>> => s \o t # <<>> /\ (s \o t)[1] = s[1]
<1>1. n \in DOMAIN s => n \in DOMAIN (s \o t) /\ (s \o t)[n] = s[n]
  OBVIOUS
<1>2. s # <<>> => s \o t # <<>> /\ (s \o t)[1] = s[1]
  OBVIOUS
<1> QED BY <1>1, <1>2 DEF RecordEnd, MessageEnd

\* A record comes whole, and is linked.
LEMMA RecordWhole ==
  ASSUME NEW m \in Messages, NEW f \in DOMAIN Frames[m]
  PROVE  LET r == Record(m, f)
         IN /\ r \in Seq(Written) /\ Len(r) = Frames[m][f].put + 1 /\ r # <<>>
            /\ HeadsWhole(r) /\ Linked(r) /\ RecordEnd(r, Len(r))
            /\ r[1] = [msg |-> m, frame |-> f, byte |-> 0]
            /\ r[Len(r)].msg = m /\ r[Len(r)].frame = f
<1> DEFINE r == Record(m, f)
           p == Frames[m][f].put
<1>1. /\ r \in Seq(Written) /\ Len(r) = p + 1 /\ p \in Nat
      /\ \A k \in 1..(p + 1) :
           r[k] = [msg |-> m, frame |-> f, byte |-> k - 1]
  BY RecordUnits, FrameLengths
<1> HIDE DEF r
<1>2. ASSUME NEW k \in 1..(p + 1)
      PROVE  /\ r[k].msg = m /\ r[k].frame = f /\ r[k].byte = k - 1
             /\ Put(r[k]) = p
  <2>1. r[k] = [msg |-> m, frame |-> f, byte |-> k - 1]
    BY <1>1
  <2> QED BY <2>1 DEF Put
<1> HIDE DEF p
<1>3. /\ DOMAIN r = 1..(p + 1) /\ r # <<>> /\ 1 \in 1..(p + 1)
      /\ p + 1 \in 1..(p + 1)
  BY <1>1
<1>4. HeadsWhole(r)
  <2> SUFFICES ASSUME NEW i \in 1..(p + 1), IsHead(r[i])
               PROVE  /\ i + Put(r[i]) \in 1..(p + 1)
                      /\ r[i + Put(r[i])] = [r[i] EXCEPT !.byte = Put(r[i])]
    BY <1>3 DEF HeadsWhole
  <2>1. i = 1 /\ Put(r[i]) = p
    BY <1>1, <1>2 DEF IsHead
  <2>2. /\ r[1] = [msg |-> m, frame |-> f, byte |-> 0]
        /\ r[p + 1] = [msg |-> m, frame |-> f, byte |-> p]
    BY <1>1, <1>3
  <2> QED BY <1>1, <2>1, <2>2
<1>5. Linked(r)
  <2> SUFFICES ASSUME NEW i \in 1..p
               PROVE  Follows(r[i], r[i + 1])
    BY <1>1 DEF Linked
  <2>1. i \in 1..(p + 1) /\ i + 1 \in 1..(p + 1)
    BY <1>1
  <2>2. /\ r[i].msg = m /\ r[i].frame = f /\ r[i].byte = i - 1
        /\ r[i + 1].msg = m /\ r[i + 1].frame = f /\ r[i + 1].byte = i
    BY <1>2, <2>1
  <2> QED BY <1>1, <2>2 DEF Follows
<1>6. RecordEnd(r, p + 1)
  BY <1>1, <1>2, <1>3 DEF RecordEnd
<1>7. r[1] = [msg |-> m, frame |-> f, byte |-> 0]
  BY <1>1, <1>3
<1> QED BY <1>1, <1>2, <1>3, <1>4, <1>5, <1>6, <1>7 DEF r, p

\* The next record of a message that fits the buffer fits it as well.
LEMMA PartExtends ==
  ASSUME NEW m \in Messages, NEW n \in Nat, n + 1 \in DOMAIN Frames[m],
         NEW s \in Seq(Written), Part(s, m, n)
  PROVE  LET c == s \o Record(m, n + 1)
         IN Len(c) <= BufUnits /\ Part(c, m, n + 1)
<1> DEFINE f == n + 1
           r == Record(m, f)
           c == s \o r
           k == Len(s)
           l == Len(r)
<1>1. f \in DOMAIN Frames[m] /\ f \in Nat /\ f - 1 = n /\ f # 0
  OBVIOUS
<1>2. /\ r \in Seq(Written) /\ l = Frames[m][f].put + 1 /\ r # <<>>
      /\ HeadsWhole(r) /\ Linked(r) /\ RecordEnd(r, l)
      /\ r[1] = [msg |-> m, frame |-> f, byte |-> 0]
      /\ r[l].msg = m /\ r[l].frame = f
  <2> HIDE DEF f
  <2> QED BY <1>1, RecordWhole
<1>3. PICK end \in [DOMAIN Frames[m] -> 0..BufUnits] :
        Fits(m, end) /\ k = IF n = 0 THEN 0 ELSE end[n]
  BY DEF Part
<1>4. k + l = end[f] /\ end[f] \in 0..BufUnits
  <2>1. end[f] = (IF f = 1 THEN 0 ELSE end[f - 1]) + 1 + Frames[m][f].put
    BY <1>1, <1>3 DEF Fits
  <2>2. Frames[m][f].put \in Nat /\ end[f] \in 0..BufUnits /\ k \in Nat
    <3> HIDE DEF f
    <3> QED BY <1>1, <1>3, FrameLengths
  <2>3. (f = 1) = (n = 0)
    OBVIOUS
  <2>4. end[f] = k + 1 + Frames[m][f].put
    <3>1. CASE n = 0
      BY <3>1, <1>3, <2>1
    <3>2. CASE n # 0
      BY <3>2, <1>1, <1>3, <2>1
    <3> QED BY <3>1, <3>2
  <2>5. l = Frames[m][f].put + 1 /\ end[f] \in 0..BufUnits
    BY <1>2, <2>2
  <2> DEFINE p == Frames[m][f].put
             e == end[f]
  <2>6. k \in Nat /\ p \in Nat /\ l = p + 1 /\ e = k + 1 + p
    BY <2>2, <2>4, <2>5
  <2> HIDE DEF f, k, l, p, e
  <2>7. k + l = e
    BY <2>6
  <2> QED BY <2>5, <2>7 DEF e
<1> HIDE DEF f, r
<1>5. /\ c \in Seq(Written) /\ Len(c) = k + l /\ k \in Nat /\ l \in Nat \ {0}
      /\ \A i \in 1..k : c[i] = s[i]
      /\ \A i \in 1..l : c[k + i] = r[i]
      /\ DOMAIN s = 1..k
  <2>1. r \in Seq(Written) /\ r # <<>>
    BY <1>2
  <2> QED BY <2>1
<1>6. HeadsWhole(c)
  BY <1>2, HeadsBoth DEF Part
<1> HIDE DEF c, k, l
<1>7. /\ Linked(s)
      /\ n = 0 => k = 0
      /\ n # 0 => /\ k # 0 /\ First(s[1]) /\ s[k].byte = Put(s[k])
                  /\ s[k].msg = m /\ s[k].frame = n
  BY <1>5 DEF Part, RecordEnd, k
<1>8. Linked(c)
  <2> SUFFICES ASSUME NEW i \in 1..(k + l - 1)
               PROVE  Follows(c[i], c[i + 1])
    <3>1. Len(c) - 1 = k + l - 1
      BY <1>5
    <3> QED BY <3>1 DEF Linked
  <2>1. CASE i < k
    <3>1. i \in 1..(k - 1) /\ c[i] = s[i] /\ c[i + 1] = s[i + 1]
      BY <1>5, <2>1
    <3> QED BY <1>7, <3>1 DEF Linked, k
  <2>2. CASE i = k
    <3>1. c[i] = s[k] /\ c[i + 1] = r[1] /\ n # 0
      BY <1>5, <1>7, <2>2
    <3>2. /\ c[i].msg = m /\ c[i].frame + 1 = f /\ c[i].byte = Put(c[i])
      BY <1>7, <3>1 DEF f
    <3>3. c[i + 1].msg = m /\ c[i + 1].frame = f /\ c[i + 1].byte = 0
      BY <1>2, <3>1
    <3> QED BY <3>2, <3>3 DEF Follows, Put
  <2>3. CASE i > k
    <3> DEFINE j == i - k
    <3>1. /\ j \in 1..(l - 1) /\ i = k + j /\ i + 1 = k + (j + 1)
          /\ j + 1 \in 1..l /\ j \in 1..l
      BY <1>5, <2>3
    <3> HIDE DEF j
    <3>2. c[i] = r[j] /\ c[i + 1] = r[j + 1]
      <4>1. c[k + j] = r[j]
        BY <1>5, <3>1
      <4>2. c[k + (j + 1)] = r[j + 1]
        BY <1>5, <3>1
      <4> QED BY <3>1, <4>1, <4>2
    <3>3. Follows(r[j], r[j + 1])
      BY <1>2, <3>1 DEF Linked, l
    <3> QED BY <3>2, <3>3
  <2>4. i < k \/ i = k \/ i > k
    BY <1>5
  <2> QED BY <2>1, <2>2, <2>3, <2>4
<1>9. /\ c # <<>> /\ First(c[1])
      /\ c[k + l].msg = m /\ c[k + l].frame = f /\ RecordEnd(c, k + l)
  <2>1. First(c[1])
    <3>1. CASE n = 0
      <4>1. k = 0 /\ c[1] = r[1] /\ f = 1
        BY <3>1, <1>5, <1>7 DEF f
      <4> QED BY <4>1, <1>2 DEF First
    <3>2. CASE n # 0
      <4>1. c[1] = s[1]
        BY <3>2, <1>5, <1>7
      <4> QED BY <4>1, <3>2, <1>7
    <3> QED BY <3>1, <3>2
  <2>2. c[k + l] = r[l] /\ k + l \in DOMAIN c /\ c # <<>>
    BY <1>5
  <2>3. r[l].byte = Put(r[l])
    BY <1>2, <1>5 DEF RecordEnd
  <2> QED BY <1>2, <2>1, <2>2, <2>3 DEF RecordEnd
<1>10. Part(c, m, f)
  BY <1>1, <1>3, <1>4, <1>5, <1>6, <1>8, <1>9 DEF Part
<1>11. Len(c) <= BufUnits
  BY <1>4, <1>5, BoundsAssumption
<1> QED BY <1>10, <1>11 DEF c, r, f

\* All of a message is whole.
LEMMA PartWhole ==
  ASSUME NEW m \in Messages, NEW s \in Seq(Written),
         Part(s, m, Len(Frames[m]))
  PROVE  Whole(s) /\ HeadsWhole(s)
<1> SUFFICES ASSUME s # <<>>
             PROVE  Whole(s)
  BY DEF Part, Whole
<1>1. /\ First(s[1]) /\ RecordEnd(s, Len(s)) /\ Linked(s)
      /\ s[Len(s)].msg = m /\ s[Len(s)].frame = Len(Frames[m])
  BY DEF Part
<1>2. Last(s[Len(s)])
  BY <1>1 DEF RecordEnd, Last, Put
<1> QED BY <1>1, <1>2 DEF Whole, Linked

\* What was quiet up to now was so before, and no step but a fault ends it.
LEMMA QuietBefore ==
  ASSUME TypeInv, [Next]_vars, Quiet'
  PROVE  Quiet /\ faults' = faults
<1>1. next \in Nat /\ faults \in Nat /\ faults' = 0
  BY BoundsAssumption DEF TypeInv, HistoryOK, BoundsOK, Quiet
<1>2. next' = next \/ next' = next + 1
  <2>1. CASE \E w \in Writers : WriterStep(w)
    BY <2>1 DEF WriterStep, WriterOpen, WriterWrite, WriterClose, WriterFails,
                WriterEnds
  <2>2. CASE ~\E w \in Writers : WriterStep(w)
    BY <2>2 DEF Next, DumpStep, DumpStart, DumpReadFails, DumpRead,
                DumpTruncate, DumpRename, DumpEnds, vars, writerVars
  <2> QED BY <2>1, <2>2
<1>3. faults' = faults \/ faults' = faults + 1
  <2>1. CASE \E w \in Writers : WriterStep(w)
    BY <2>1 DEF WriterStep, WriterOpen, WriterWrite, WriterClose, WriterFails,
                WriterEnds
  <2>2. CASE ~\E w \in Writers : WriterStep(w)
    BY <2>2 DEF Next, DumpStep, DumpStart, DumpReadFails, DumpRead,
                DumpTruncate, DumpRename, DumpEnds, vars
  <2> QED BY <2>1, <2>2
<1>4. \A m \in 1..(next - 1) : m \in 1..(next' - 1)
  BY <1>1, <1>2
<1> QED BY <1>1, <1>3, <1>4 DEF Quiet

\* Writing the next record takes nothing out of the buffer.
LEMMA WriteWhole ==
  ASSUME TypeInv, BuffersInv, ContentInv, ReaderInv, NEW w \in Writers,
         WriterWrite(w)
  PROVE  BuffersInv' /\ ContentInv' /\ ReaderInv'
<1>1. /\ fd[w] # 0 /\ wfrm[w] < Len(Frames[wmsg[w]])
      /\ WriterPuts(w, SubSeq(Filled(w), 1, Flushed(w)),
                    Drop(Filled(w), Flushed(w)))
      /\ wmsg' = wmsg /\ wfrm' = [wfrm EXCEPT ![w] = @ + 1] /\ fd' = fd
  BY WriterPart DEF WriterPuts, Puts
<1>2. /\ wmsg[w] \in Messages /\ wfrm[w] \in Nat
      /\ wfrm[w] + 1 \in DOMAIN Frames[wmsg[w]]
      /\ buf[w] \in Seq(Written) /\ Part(buf[w], wmsg[w], wfrm[w])
  BY <1>1, NextFrame DEF TypeInv, WritersOK, BuffersInv
<1>3. Len(Filled(w)) <= BufUnits /\ Part(Filled(w), wmsg[w], wfrm[w] + 1)
  BY <1>2, PartExtends DEF Filled
<1>4. Flushed(w) = 0
  BY <1>3 DEF Flushed
<1>5. SubSeq(Filled(w), 1, 0) = <<>> /\ Drop(Filled(w), 0) = Filled(w)
  <2>1. /\ Filled(w) \in Seq(Written)
        /\ SubSeq(Filled(w), 1, 0) \in Seq(Written)
        /\ Len(SubSeq(Filled(w), 1, 0)) = 0
    BY <1>1, <1>4, FlushedBuffers
  <2>2. Drop(Filled(w), 0) = Filled(w)
    BY <2>1, DropNone
  <2>3. SubSeq(Filled(w), 1, 0) = <<>>
    <3> DEFINE e == SubSeq(Filled(w), 1, 0)
    <3>1. e \in Seq(Written) /\ Len(e) = 0
      BY <2>1
    <3> HIDE DEF e
    <3>2. e = <<>>
      BY <3>1
    <3> QED BY <3>2 DEF e
  <2> QED BY <2>2, <2>3
<1>6. /\ files' = [files EXCEPT ![fd[w]] = @ \o <<>>] /\ name' = name
      /\ buf' = [buf EXCEPT ![w] = Filled(w)] /\ UNCHANGED readerVars
  BY <1>1, <1>4, <1>5 DEF WriterPuts, Puts
<1>7. Content' = Content
  <2>1. files \in Seq(Seq(Written)) /\ name \in 0..Len(files)
    BY DEF TypeInv, FilesOK
  <2>2. name # 0 => files'[name] = files[name]
    BY <1>6, <2>1
  <2> QED BY <1>6, <2>2 DEF Content
<1>8. ContentInv' /\ ReaderInv'
  BY <1>6, <1>7 DEF ContentInv, ReaderInv, readerVars
<1>9. BuffersInv'
  <2>1. /\ wfrm \in [Writers -> Nat] /\ buf \in [Writers -> Seq(Written)]
    BY DEF TypeInv, WritersOK
  <2>2. wfrm'[w] = wfrm[w] + 1 /\ buf'[w] = Filled(w)
    BY <1>6, <1>1, <2>1
  <2>3. \A v \in Writers \ {w} : wfrm'[v] = wfrm[v] /\ buf'[v] = buf[v]
    BY <1>6, <1>1, <2>1
  <2>4. ASSUME NEW v \in Writers
        PROVE  IF fd'[v] = 0 THEN wmsg'[v] = 0
                             ELSE Part(buf'[v], wmsg'[v], wfrm'[v])
    <3>1. CASE v = w
      BY <3>1, <1>1, <1>3, <2>2
    <3>2. CASE v # w
      BY <3>2, <1>1, <2>3 DEF BuffersInv
    <3> QED BY <3>1, <3>2
  <2> QED BY <2>4 DEF BuffersInv
<1> QED BY <1>8, <1>9

\* fclose writes a whole message.
LEMMA CloseWhole ==
  ASSUME TypeInv, BuffersInv, ContentInv, ReaderInv, NEW w \in Writers,
         WriterClose(w)
  PROVE  BuffersInv' /\ ContentInv' /\ ReaderInv'
<1>1. /\ WriterPuts(w, buf[w], <<>>) /\ fd[w] # 0
      /\ fd' = [fd EXCEPT ![w] = 0] /\ wmsg' = [wmsg EXCEPT ![w] = 0]
      /\ wfrm' = [wfrm EXCEPT ![w] = 0] /\ buf' = [buf EXCEPT ![w] = <<>>]
      /\ wfrm[w] = Len(Frames[wmsg[w]])
      /\ Puts(w, buf[w]) /\ UNCHANGED readerVars
  BY WriterPart DEF WriterPuts, Puts
<1>2. /\ wmsg[w] \in Messages /\ buf[w] \in Seq(Written)
      /\ Part(buf[w], wmsg[w], wfrm[w])
  BY <1>1 DEF TypeInv, WritersOK, BuffersInv
<1>3. Whole(buf[w]) /\ HeadsWhole(buf[w])
  BY <1>1, <1>2, PartWhole
<1>4. Content' = Content \/ Content' = Content \o buf[w]
  <2>1. /\ files'[fd[w]] = files[fd[w]] \o buf[w] /\ name' = name
        /\ \A i \in 1..Len(files) \ {fd[w]} : files'[i] = files[i]
    BY <1>1, <1>2, FilesGrow DEF Puts
  <2>2. name \in 0..Len(files) /\ Len(files) \in Nat
    BY DEF TypeInv, FilesOK
  <2>3. CASE name = 0
    BY <2>1, <2>3 DEF Content
  <2>4. CASE name # 0 /\ name = fd[w]
    <3>1. files'[name'] = files[name] \o buf[w] /\ name' # 0
      BY <2>1, <2>4
    <3> QED BY <2>4, <3>1 DEF Content
  <2>5. CASE name # 0 /\ name # fd[w]
    <3>1. files'[name'] = files[name] /\ name' # 0
      BY <2>1, <2>2, <2>5
    <3> QED BY <2>5, <3>1 DEF Content
  <2> QED BY <2>3, <2>4, <2>5
<1>5. Content \in Seq(Written) /\ pos \in Nat /\ size \in Nat
  BY StreamIs DEF TypeInv, ReaderOK
<1>6. /\ Whole(Content') /\ HeadsWhole(Content')
      /\ \A n \in Nat : RecordEnd(Content, n) => RecordEnd(Content', n)
      /\ \A n \in Nat : MessageEnd(Content, n) => MessageEnd(Content', n)
      /\ Content # <<>> => Content' # <<>> /\ Content'[1] = Content[1]
  <2>1. CASE Content' = Content
    BY <2>1 DEF ContentInv
  <2>2. CASE Content' = Content \o buf[w]
    <3>1. Whole(Content \o buf[w]) /\ HeadsWhole(Content \o buf[w])
      BY <1>2, <1>3, <1>5, WholeBoth, HeadsBoth DEF ContentInv
    <3>2. \A n \in Nat :
            /\ RecordEnd(Content, n) => RecordEnd(Content \o buf[w], n)
            /\ MessageEnd(Content, n) => MessageEnd(Content \o buf[w], n)
            /\ Content # <<>> => /\ Content \o buf[w] # <<>>
                                 /\ (Content \o buf[w])[1] = Content[1]
      BY <1>2, <1>5, EndsStay
    <3> QED BY <2>2, <3>1, <3>2, <1>5
  <2> QED BY <1>4, <2>1, <2>2
<1>7. ContentInv'
  BY <1>1, <1>6 DEF ContentInv, readerVars
<1>8. ReaderInv'
  <2>1. /\ rpc' = rpc /\ rfd' = rfd /\ pos' = pos /\ size' = size /\ tmp' = tmp
        /\ name' = name
    BY <1>1 DEF readerVars, Puts
  <2> QED BY <1>5, <1>6, <2>1 DEF ReaderInv
<1>9. BuffersInv'
  <2>1. /\ wfrm \in [Writers -> Nat] /\ buf \in [Writers -> Seq(Written)]
        /\ wmsg \in [Writers -> {0} \cup Messages]
        /\ fd \in [Writers -> 0..Len(files)]
    BY DEF TypeInv, WritersOK
  <2>2. fd'[w] = 0 /\ wmsg'[w] = 0
    BY <1>1, <2>1
  <2>3. \A v \in Writers \ {w} : /\ wfrm'[v] = wfrm[v] /\ buf'[v] = buf[v]
                                 /\ fd'[v] = fd[v] /\ wmsg'[v] = wmsg[v]
    BY <1>1, <2>1
  <2>4. ASSUME NEW v \in Writers
        PROVE  IF fd'[v] = 0 THEN wmsg'[v] = 0
                             ELSE Part(buf'[v], wmsg'[v], wfrm'[v])
    <3>1. CASE v = w
      BY <3>1, <2>2
    <3>2. CASE v # w
      BY <3>2, <2>3 DEF BuffersInv
    <3> QED BY <3>1, <3>2
  <2> QED BY <2>4 DEF BuffersInv
<1> QED BY <1>7, <1>8, <1>9

\* A writer that opens the file has nothing of its message yet, which fits.
LEMMA OpenWhole ==
  ASSUME TypeInv, TypeInv', Quiet', BuffersInv, ContentInv, ReaderInv,
         NEW w \in Writers, WriterOpen(w)
  PROVE  BuffersInv' /\ ContentInv' /\ ReaderInv'
<1>1. /\ fd[w] = 0 /\ fd' = [fd EXCEPT ![w] = name'] /\ buf' = buf
      /\ wfrm' = wfrm /\ UNCHANGED readerVars
      /\ \/ wmsg[w] = 0 /\ wmsg' = [wmsg EXCEPT ![w] = next] /\ next' = next + 1
         \/ wmsg[w] # 0
  BY DEF WriterOpen
<1>2. /\ \/ name # 0 /\ files' = files /\ name' = name
         \/ name = 0 /\ files = <<>> /\ files' = <<(<<>>)>> /\ name' = 1
      /\ name' # 0
  BY OpenFiles
<1>3. Content' = Content
  BY <1>2 DEF Content
<1>4. ContentInv'
  BY <1>1, <1>3 DEF ContentInv, readerVars
<1>5. ReaderInv'
  <2>1. /\ rpc' = rpc /\ rfd' = rfd /\ pos' = pos /\ size' = size /\ tmp' = tmp
    BY <1>1 DEF readerVars
  <2>2. rfd # 0 => name # 0
    BY DEF TypeInv, FilesOK, ReaderOK
  <2> QED BY <1>2, <1>3, <2>1, <2>2 DEF ReaderInv
<1>6. BuffersInv'
  <2>1. /\ wfrm \in [Writers -> Nat] /\ wmsg \in [Writers -> {0} \cup Messages]
        /\ fd \in [Writers -> 0..Len(files)] /\ buf[w] = <<>>
        /\ wfrm[w] = 0 \/ wmsg[w] # 0
        /\ next \in Nat \ {0}
    BY <1>1 DEF TypeInv, WritersOK, HistoryOK
  <2>2. wmsg[w] = 0 /\ wmsg' = [wmsg EXCEPT ![w] = next] /\ next' = next + 1
    BY <1>1 DEF BuffersInv
  <2>3. fd'[w] # 0 /\ wmsg'[w] = next /\ wfrm'[w] = 0 /\ buf'[w] = <<>>
    BY <1>1, <1>2, <2>1, <2>2
  <2>4. Part(<<>>, next, 0)
    <3>1. next \in 1..(next' - 1)
      BY <2>1, <2>2
    <3>2. Plain(next)
      BY <3>1 DEF Quiet
    <3>3. HeadsWhole(<<>>) /\ Linked(<<>>) /\ Len(<<>>) = 0
      BY DEF HeadsWhole, Linked
    <3> QED BY <3>2, <3>3 DEF Plain, Part
  <2>5. ASSUME NEW v \in Writers
        PROVE  IF fd'[v] = 0 THEN wmsg'[v] = 0
                             ELSE Part(buf'[v], wmsg'[v], wfrm'[v])
    <3>1. CASE v = w
      BY <3>1, <2>3, <2>4
    <3>2. CASE v # w
      BY <3>2, <1>1, <2>1, <2>2 DEF BuffersInv
    <3> QED BY <3>1, <3>2
  <2> QED BY <2>5 DEF BuffersInv
<1> QED BY <1>4, <1>5, <1>6

\* The units in the file are of messages that fit the buffer, and have a frame
\* that is not empty and has no NUL.
LEMMA QuietUnits ==
  ASSUME TypeInv, OrderInv, Quiet, NEW i \in DOMAIN Content
  PROVE  LET u == Content[i]
         IN Put(u) = Frames[u.msg][u.frame].len /\ Put(u) \in Nat \ {0}
<1> DEFINE u == Content[i]
<1>1. /\ Content \in Seq(Written) /\ gone \in Seq(Written)
      /\ Stream[Len(gone) + i] = u /\ Len(gone) + i \in DOMAIN Stream
      /\ u \in Written
  <2> DEFINE s == Content
  <2>1. /\ s \in Seq(Written) /\ gone \in Seq(Written)
        /\ Stream \in Seq(Written) /\ Len(Stream) = Len(gone) + Len(s)
        /\ \A k \in 1..Len(s) : Stream[Len(gone) + k] = s[k]
    BY StreamIs
  <2> HIDE DEF s
  <2>2. i \in 1..Len(s) /\ Len(gone) \in Nat /\ Len(s) \in Nat
    BY <2>1 DEF s
  <2>3. Stream[Len(gone) + i] = s[i] /\ s[i] \in Written
    BY <2>1, <2>2
  <2>4. Len(gone) + i \in DOMAIN Stream
    BY <2>1, <2>2
  <2> QED BY <2>1, <2>3, <2>4 DEF s
<1>2. u.msg < next
  BY <1>1 DEF OrderInv
<1> HIDE DEF u
<1>3. u.msg \in 1..(next - 1)
  <2>1. u.msg \in Messages /\ next \in Nat
    BY <1>1, UnitOK DEF TypeInv, HistoryOK
  <2> QED BY <1>2, <2>1 DEF Messages
<1>4. u.frame \in DOMAIN Frames[u.msg] /\ Put(u) \in Nat
  BY <1>1, UnitOK
<1>5. Frames[u.msg][u.frame].put = Frames[u.msg][u.frame].len
      /\ Frames[u.msg][u.frame].len > 0
  BY <1>3, <1>4 DEF Quiet, Plain
<1> QED BY <1>4, <1>5 DEF Put, u

\* Where zlmb-dump stands, and what it has counted, when it reads from the
\* position p of the file, after k bytes.
LEMMA ReadRecord ==
  ASSUME TypeInv, OrderInv, Quiet, ContentInv, AtRecord, NEW p \in Nat,
         Rest = Drop(Content, p)
  PROVE  LET h == Content[p + 1]
         IN /\ Rest[1] = h /\ p < Len(Content) /\ Got > 0
            /\ Got = Put(h) /\ Got = Size /\ Got \in Nat /\ h \in Written
            /\ RecordEnd(Content, p + 1 + Got)
            /\ Ends(h) => MessageEnd(Content, p + 1 + Got)
<1> DEFINE s == Content
           h == s[p + 1]
<1>1. /\ s \in Seq(Written) /\ HeadsWhole(s)
  BY StreamIs DEF ContentInv
<1>2. /\ Rest \in Seq(Written)
      /\ Len(Rest) = (IF p <= Len(s) THEN Len(s) - p ELSE 0)
      /\ \A i \in 1..(Len(s) - p) : Rest[i] = s[p + i]
  BY <1>1, Dropped
<1>3. Rest # <<>> /\ IsHead(Rest[1])
  BY DEF AtRecord
<1>4. p < Len(s) /\ Rest[1] = h /\ Len(Rest) = Len(s) - p /\ p + 1 \in DOMAIN s
  <2> DEFINE k == Len(s)
             l == Len(Rest)
  <2>1. l \in Nat \ {0} /\ k \in Nat /\ l = (IF p <= k THEN k - p ELSE 0)
    BY <1>1, <1>2, <1>3
  <2>2. p < k /\ l = k - p
    <3> HIDE DEF k, l
    <3> QED BY <2>1
  <2>3. 1 \in 1..(k - p) /\ p + 1 \in 1..k
    <3> HIDE DEF k
    <3> QED BY <2>1, <2>2
  <2> HIDE DEF s
  <2> QED BY <1>1, <1>2, <2>2, <2>3
<1>5. /\ h \in Written /\ Put(h) \in Nat /\ p + 1 + Put(h) \in DOMAIN s
      /\ RecordEnd(s, p + 1 + Put(h))
      /\ Ends(h) => MessageEnd(s, p + 1 + Put(h))
  <2> HIDE DEF s
  <2> QED BY <1>1, <1>3, <1>4, RecordThere
<1>6. Put(h) = Frames[h.msg][h.frame].len /\ Put(h) \in Nat \ {0}
  BY <1>4, QuietUnits
<1>7. Got = Put(h) /\ Got = Size
  <2>1. Got = IF Put(h) < Len(Rest) THEN Put(h) ELSE Len(Rest) - 1
    BY <1>4, <1>6 DEF Got, Size
  <2>2. p + 1 + Put(h) <= Len(s)
    BY <1>1, <1>5
  <2>3. Put(h) < Len(Rest)
    BY <1>1, <1>4, <1>5, <2>2
  <2>4. Size = Put(h)
    BY <1>4, <1>6 DEF Size
  <2> QED BY <2>1, <2>3, <2>4
<1> HIDE DEF s, h
<1> QED BY <1>4, <1>5, <1>6, <1>7 DEF s, h

\* Where zlmb-dump finds no record, the last one it read ended a message.
LEMMA ReadFailsWhole ==
  ASSUME TypeInv, ContentInv, ReaderInv, DumpReadFails
  PROVE  ContentInv' /\ ReaderInv'
<1>1. /\ rpc = "read" /\ ~AtRecord /\ rpc' = "truncate" /\ size' = size
      /\ gone' = gone /\ name' = name /\ files' = files
  BY DEF DumpReadFails, fileVars
<1>2. ContentInv' /\ Content' = Content
  BY <1>1 DEF ContentInv, Content
<1>3. Content \in Seq(Written) /\ pos \in Nat /\ size \in Nat
  BY StreamIs DEF TypeInv, ReaderOK
<1>4. MessageEnd(Content, size)
  <2>1. CASE rfd # 0
    <3> DEFINE s == Content
    <3>1. rfd = name /\ size = pos /\ RecordEnd(s, pos)
      BY <1>1, <2>1 DEF ReaderInv
    <3>2. Rest = Drop(s, pos)
      BY <2>1, <3>1 DEF Rest, Content
    <3>3. s \in Seq(Written) /\ Whole(s)
      BY <1>3 DEF ContentInv
    <3> HIDE DEF s
    <3>4. /\ Len(Rest) = (IF pos <= Len(s) THEN Len(s) - pos ELSE 0)
          /\ \A i \in 1..(Len(s) - pos) : Rest[i] = s[pos + i]
      BY <1>3, <3>2, <3>3, Dropped
    <3>5. ~(pos < Len(s))
      <4> SUFFICES ASSUME pos < Len(s)
                   PROVE  FALSE
        OBVIOUS
      <4>1. IsHead(s[pos + 1])
        BY <1>3, <3>1, <3>3, AfterRecord
      <4>2. 1 \in 1..(Len(s) - pos) /\ Len(Rest) # 0
        BY <1>3, <3>3, <3>4
      <4>3. Rest # <<>> /\ Rest[1] = s[pos + 1]
        BY <3>4, <4>2
      <4> QED BY <1>1, <4>1, <4>3 DEF AtRecord
    <3>6. pos = 0 \/ (s # <<>> /\ pos = Len(s) /\ pos \in DOMAIN s)
      BY <1>3, <3>1, <3>3, <3>5 DEF RecordEnd
    <3>7. MessageEnd(s, pos)
      BY <3>3, <3>6 DEF Whole, MessageEnd
    <3> QED BY <3>1, <3>7 DEF s
  <2>2. CASE rfd = 0 /\ size # 0
    <3>1. Content # <<>>
      BY <1>1, <2>2 DEF ReaderInv
    <3>2. Rest = Content
      BY <2>2, <3>1 DEF Rest, Content
    <3>3. IsHead(Content[1])
      BY <3>1 DEF ContentInv, Whole, First, IsHead
    <3> QED BY <1>1, <3>1, <3>2, <3>3 DEF AtRecord
  <2>3. CASE size = 0
    BY <2>3 DEF MessageEnd
  <2> QED BY <2>1, <2>2, <2>3
<1> QED BY <1>1, <1>2, <1>4 DEF ReaderInv

\* Reading a record ends at its end, and the loop at that of a message.
LEMMA ReadWhole ==
  ASSUME TypeInv, OrderInv, Quiet, ContentInv, ReaderInv, DumpRead
  PROVE  ContentInv' /\ ReaderInv'
<1>1. /\ rpc = "read" /\ AtRecord /\ rfd' = rfd
      /\ size' = size + Counted /\ pos' = pos + 1 + Got
      /\ \/ /\ rpc' = "read" /\ Rest[1].frame < Len(Frames[Rest[1].msg])
         \/ /\ rpc' = "truncate"
            /\ \/ ~(Got > 0 /\ Rest[1].frame < Len(Frames[Rest[1].msg]))
               \/ Got < Size
      /\ gone' = gone /\ name' = name /\ files' = files
  BY DEF DumpRead, fileVars
<1>2. ContentInv' /\ Content' = Content
  BY <1>1 DEF ContentInv, Content
<1>3. Content \in Seq(Written) /\ pos \in Nat /\ size \in Nat
  BY StreamIs DEF TypeInv, ReaderOK
<1>4. CASE rfd # 0
  <2>1. rfd = name /\ size = pos
    BY <1>1, <1>4 DEF ReaderInv
  <2>2. Rest = Drop(Content, pos)
    BY <1>4, <2>1 DEF Rest, Content
  <2> DEFINE h == Content[pos + 1]
  <2>3. /\ Rest[1] = h /\ Got > 0 /\ Got \in Nat /\ h \in Written
        /\ Got = Size
        /\ RecordEnd(Content, pos + 1 + Got)
        /\ Ends(h) => MessageEnd(Content, pos + 1 + Got)
    BY <1>1, <1>3, <2>2, ReadRecord
  <2> HIDE DEF h
  <2>4. size' = pos + 1 + Got
    BY <1>1, <1>3, <2>1, <2>3 DEF Counted
  <2>5. rpc' = "truncate" => Ends(h)
    BY <1>1, <2>3, UnitOK DEF Ends
  <2> QED BY <1>1, <1>2, <1>4, <2>1, <2>3, <2>4, <2>5 DEF ReaderInv
<1>5. CASE rfd = 0
  <2>1. Rest = Content /\ Content # <<>>
    BY <1>1, <1>5 DEF Rest, Content, AtRecord
  <2>2. Rest = Drop(Content, 0)
    BY <1>3, <2>1, DropNone
  <2> DEFINE h == Content[0 + 1]
             e == 0 + 1 + Got
  <2>3. /\ Rest[1] = h /\ Got > 0 /\ Got \in Nat /\ h \in Written
        /\ Got = Size
        /\ Ends(h) => MessageEnd(Content, e)
    BY <1>1, <2>2, ReadRecord
  <2>4. h = Content[1] /\ e = 1 + Got
    BY <2>3
  <2> HIDE DEF h, e
  <2>5. size' = size + e /\ e \in Nat \ {0}
    BY <1>1, <1>3, <2>3, <2>4 DEF Counted
  <2>6. CASE rpc' = "read"
    <3>1. ~Ends(h)
      BY <1>1, <2>3, <2>6, UnitOK DEF Ends
    <3> QED BY <1>1, <1>2, <1>5, <2>1, <2>4, <2>6, <3>1 DEF ReaderInv
  <2>7. CASE rpc' = "truncate"
    <3>1. Ends(h)
      BY <1>1, <2>3, <2>7, UnitOK DEF Ends
    <3>2. size = 0
      BY <1>1, <1>5, <2>4, <3>1 DEF ReaderInv
    <3>3. size' = e
      BY <2>5, <3>2
    <3> QED BY <1>1, <1>2, <2>3, <2>7, <3>1, <3>3 DEF ReaderInv
  <2> QED BY <1>1, <2>6, <2>7
<1> QED BY <1>4, <1>5

\* Copying and replacing the file, at the end of a message.
LEMMA ReplaceWhole ==
  ASSUME TypeInv, ContentInv, ReaderInv,
         DumpStart \/ DumpTruncate \/ DumpRename \/ UNCHANGED vars
  PROVE  ContentInv' /\ ReaderInv'
<1>1. Content \in Seq(Written) /\ size \in Nat /\ gone \in Seq(Written)
  BY StreamIs DEF TypeInv, ReaderOK
<1>2. CASE DumpStart
  <2>1. /\ rpc' = "read" /\ rfd' = name /\ pos' = 0 /\ size' = 0
        /\ gone' = gone /\ name' = name /\ files' = files
    BY <1>2 DEF DumpStart, fileVars
  <2> QED BY <2>1 DEF ContentInv, ReaderInv, Content, RecordEnd
<1>3. CASE DumpTruncate
  <2>1. /\ rpc = "truncate" /\ size' = size
        /\ gone' = gone /\ name' = name /\ files' = files
        /\ \/ rpc' = "idle"
           \/ rpc' = "rename" /\ tmp' = Drop(Content, size)
    BY <1>3 DEF DumpTruncate, fileVars, Content
  <2>2. ContentInv' /\ Content' = Content
    BY <2>1 DEF ContentInv, Content
  <2>3. MessageEnd(Content, size)
    BY <2>1 DEF ReaderInv
  <2>4. Whole(Drop(Content, size)) /\ HeadsWhole(Drop(Content, size))
    BY <1>1, <2>3, WholeParts DEF ContentInv
  <2> QED BY <2>1, <2>2, <2>3, <2>4 DEF ReaderInv
<1>4. CASE DumpRename
  <2>1. /\ rpc = "rename" /\ rpc' = "idle" /\ name # 0
        /\ files' = Append(files, tmp) /\ name' = Len(files) + 1
        /\ gone' = gone \o Take(Content, size)
    BY <1>4 DEF DumpRename, TypeInv, ReaderOK, Content
  <2>2. MessageEnd(Content, size) /\ Whole(tmp) /\ HeadsWhole(tmp)
    BY <2>1 DEF ReaderInv
  <2>3. Content' = tmp
    <3>1. files \in Seq(Seq(Written))
      BY DEF TypeInv, FilesOK
    <3>2. files'[Len(files) + 1] = tmp /\ Len(files) + 1 # 0
      BY <2>1, <3>1
    <3> QED BY <2>1, <3>2 DEF Content
  <2>4. Whole(Take(Content, size)) /\ Take(Content, size) \in Seq(Written)
    BY <1>1, <2>2, WholeParts, Taken DEF ContentInv
  <2>5. Whole(gone')
    BY <1>1, <2>1, <2>4, WholeBoth DEF ContentInv
  <2> QED BY <2>1, <2>2, <2>3, <2>5 DEF ContentInv, ReaderInv
<1>5. CASE UNCHANGED vars
  BY <1>5 DEF vars, fileVars, readerVars, ContentInv, ReaderInv, Content
<1> QED BY <1>2, <1>3, <1>4, <1>5

\* Without faults, and as long as all messages fit the buffer and have no empty
\* frame and no NUL, zlmb-dump finds, keeps and removes whole messages.
THEOREM MessagesAreWhole == Spec => []WholeMessages
<1>1. Init => WholeInv
  BY DEF Init, WholeInv, BuffersInv, ContentInv, ReaderInv, Content, Whole,
         HeadsWhole
<1>2. TypeInv /\ TypeInv' /\ OrderInv /\ CopyInv /\ WholeInv /\ [Next]_vars
        => WholeInv'
  <2> SUFFICES ASSUME TypeInv, TypeInv', OrderInv, WholeInv, [Next]_vars, Quiet'
               PROVE  BuffersInv' /\ ContentInv' /\ ReaderInv'
    BY DEF WholeInv
  <2>1. /\ Quiet /\ faults' = faults /\ faults \in Nat
        /\ BuffersInv /\ ContentInv /\ ReaderInv
    BY QuietBefore, BoundsAssumption DEF WholeInv, TypeInv, BoundsOK
  <2>2. ASSUME NEW w \in Writers, WriterStep(w)
        PROVE  BuffersInv' /\ ContentInv' /\ ReaderInv'
    <3>1. ~WriterFails(w) /\ ~WriterEnds(w)
      <4>1. faults' # faults + 1
        BY <2>1
      <4> QED BY <4>1, Zenon DEF WriterFails, WriterEnds
    <3> QED
      BY <2>1, <2>2, <3>1, WriteWhole, CloseWhole, OpenWhole DEF WriterStep
  <2>3. ASSUME ~\E w \in Writers : WriterStep(w)
        PROVE  BuffersInv' /\ ContentInv' /\ ReaderInv'
    <3>1. ~DumpEnds
      BY <2>1 DEF DumpEnds
    <3>2. \/ DumpReadFails \/ DumpRead
          \/ DumpStart \/ DumpTruncate \/ DumpRename \/ UNCHANGED vars
      BY <2>3, <3>1 DEF Next, DumpStep
    <3>3. fd' = fd /\ wmsg' = wmsg /\ buf' = buf /\ wfrm' = wfrm
      BY <3>2 DEF DumpReadFails, DumpRead, DumpStart, DumpTruncate, DumpRename,
                  vars, writerVars
    <3>4. BuffersInv'
      BY <2>1, <3>3 DEF BuffersInv
    <3> QED BY <2>1, <3>2, <3>4, ReadFailsWhole, ReadWhole, ReplaceWhole
  <2> QED BY <2>2, <2>3
<1>3. WholeInv => WholeMessages
  BY DEF WholeInv, WholeMessages, ContentInv, Quiet
<1> QED BY <1>1, <1>2, <1>3, TypesInvariant, OrderInvariant, PTL DEF Spec
=============================================================================
