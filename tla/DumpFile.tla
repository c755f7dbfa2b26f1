------------------------------ MODULE DumpFile ------------------------------
(***************************************************************************)
(* The binary dump file (src/src/dump.c): the servers that append to it    *)
(* with zlmb_dump_write, and zlmb-dump (src/src/app_dump.c) that reads it, *)
(* sends what it reads and removes it by replacing the file.               *)
(*                                                                         *)
(* A server has the file open from the first frame of a message to the     *)
(* last; meanwhile its records are in a buffer of stdio, written out when  *)
(* the buffer is full and by fclose.  flock covers a call of               *)
(* zlmb_dump_write up to, but not including, that fclose, and the copying  *)
(* of zlmb_dump_truncate: each is one step here.                           *)
(*                                                                         *)
(* A record is a unit for its head (magic, flags and length) and a unit    *)
(* for each byte that is written of the data, which "%.*s" cuts at the     *)
(* first NUL.                                                              *)
(***************************************************************************)
EXTENDS Integers, Sequences

CONSTANTS
  Writers,     \* the servers with this dump file
  Frames,      \* Frames[m][f]: length of frame f and what "%.*s" writes of it
  BufUnits,    \* what a stdio buffer holds
  MaxRuns,     \* bound: times zlmb-dump is run
  MaxReads,    \* bound: records read by one run
  MaxFaults    \* bound: failed calls and crashes

ASSUME FramesAssumption ==
  Frames \in Seq(Seq({r \in [len : Nat, put : Nat] : r.put <= r.len}))
ASSUME BoundsAssumption ==
  /\ BufUnits \in Nat \ {0}
  /\ MaxRuns \in Nat /\ MaxReads \in Nat /\ MaxFaults \in Nat

VARIABLES
  name,        \* the inode the file name stands for; 0: there is none
  files,       \* what each inode holds
  fd,          \* writer: the inode self->fp has open; 0: self->fp is NULL
  buf,         \* writer: what stdio has not written out
  wmsg,        \* writer: the message being dumped; 0: none
  wfrm,        \* writer: frames of it that are dumped
  next,        \* the next message to be dumped by any of them
  rpc,         \* where zlmb-dump is
  rfd,         \* the inode zlmb-dump has open; 0: self->fp is NULL
  pos,         \* its position in the file
  size,        \* self->size
  tmp,         \* what zlmb_dump_truncate has copied to the new file
  runs,        \* times zlmb-dump was started
  reads,       \* records it has read in this run
  faults,      \* failed calls and crashes so far
  owner,       \* history: the writer of each message so far
  stale,       \* history: the file was being replaced under this writer
  done,        \* history: messages dumped without a fault or a replacement
  sent,        \* history: the frames zlmb-dump has sent
  gone         \* history: what zlmb-dump has removed from the file

fileVars   == <<name, files>>
writerVars == <<fd, buf, wmsg, wfrm, next, owner, stale, done>>
readerVars == <<rpc, rfd, pos, size, tmp, runs, reads, sent, gone>>

vars == <<fileVars, writerVars, readerVars, faults>>

-----------------------------------------------------------------------------
Messages == 1..Len(Frames)
Units    == [msg : Messages, frame : Nat, byte : Nat]

IsHead(u) == u.byte = 0

\* What zlmb_dump_write puts into the buffer for frame f of message m.
Record(m, f) ==
  [k \in 1..(Frames[m][f].put + 1) |->
     [msg |-> m, frame |-> f, byte |-> k - 1]]

Drop(s, n) == SubSeq(s, n + 1, Len(s))

Take(s, n) == SubSeq(s, 1, IF n < Len(s) THEN n ELSE Len(s))

TypeOK ==
  /\ name \in 0..Len(files)
  /\ files \in Seq(Seq(Units))
  /\ fd \in [Writers -> 0..Len(files)]
  /\ buf \in [Writers -> Seq(Units)]
  /\ wmsg \in [Writers -> {0} \cup Messages]
  /\ \A w \in Writers :
       wfrm[w] = 0 \/ (wmsg[w] # 0 /\ wfrm[w] \in 1..Len(Frames[wmsg[w]]))
  /\ next \in 1..(Len(Frames) + 1)
  /\ rpc \in {"idle", "read", "send", "truncate", "rename"}
  /\ rfd \in 0..Len(files)
  /\ pos \in Nat /\ size \in Nat
  /\ tmp \in Seq(Units)
  /\ runs \in 0..MaxRuns /\ reads \in 0..MaxReads /\ faults \in 0..MaxFaults
  /\ owner \in [1..(next - 1) -> Writers]
  /\ stale \in [Writers -> BOOLEAN]
  /\ done \subseteq Messages
  /\ sent \in Seq(Units)
  /\ gone \in Seq(Units)

Init ==
  /\ name = 0
  /\ files = <<>>
  /\ fd = [w \in Writers |-> 0]
  /\ buf = [w \in Writers |-> <<>>]
  /\ wmsg = [w \in Writers |-> 0]
  /\ wfrm = [w \in Writers |-> 0]
  /\ next = 1
  /\ rpc = "idle"
  /\ rfd = 0
  /\ pos = 0
  /\ size = 0
  /\ tmp = <<>>
  /\ runs = 0
  /\ reads = 0
  /\ faults = 0
  /\ owner = <<>>
  /\ stale = [w \in Writers |-> FALSE]
  /\ done = {}
  /\ sent = <<>>
  /\ gone = <<>>

-----------------------------------------------------------------------------
(***************************************************************************)
(* A server that dumps a message, frame by frame.                          *)
(***************************************************************************)
\* The call for a frame finds the file closed: fopen(filename, "a").
WriterOpen(w) ==
  /\ fd[w] = 0
  /\ \/ /\ wmsg[w] = 0 /\ next <= Len(Frames)
        /\ wmsg' = [wmsg EXCEPT ![w] = next]
        /\ owner' = Append(owner, w)
        /\ next' = next + 1
     \/ /\ wmsg[w] # 0
        /\ UNCHANGED <<wmsg, owner, next>>
  /\ IF name = 0 THEN name' = Len(files) + 1 /\ files' = Append(files, <<>>)
                 ELSE UNCHANGED fileVars
  /\ fd' = [fd EXCEPT ![w] = name']
  /\ stale' = [stale EXCEPT ![w] = wmsg[w] # 0 \/ rpc = "rename"]
  /\ UNCHANGED <<buf, wfrm, done, readerVars, faults>>

\* Whole buffers of a record are written out; O_APPEND puts them at the end.
WriterWrite(w) ==
  LET all == buf[w] \o Record(wmsg[w], wfrm[w] + 1)
      out == IF Len(all) <= BufUnits THEN 0
                                     ELSE (Len(all) \div BufUnits) * BufUnits
  IN /\ fd[w] # 0
     /\ wfrm[w] < Len(Frames[wmsg[w]])
     /\ files' = [files EXCEPT ![fd[w]] = @ \o SubSeq(all, 1, out)]
     /\ buf' = [buf EXCEPT ![w] = Drop(all, out)]
     /\ wfrm' = [wfrm EXCEPT ![w] = @ + 1]
     /\ UNCHANGED <<name, fd, wmsg, next, owner, stale, done, readerVars,
                    faults>>

\* Mutant: a file is kept open for the next message.
WriterCloseNot(w) ==
  /\ fd[w] # 0
  /\ wfrm[w] = Len(Frames[wmsg[w]])
  /\ wmsg' = [wmsg EXCEPT ![w] = 0]
  /\ wfrm' = [wfrm EXCEPT ![w] = 0]
  /\ done' = IF stale[w] THEN done ELSE done \cup {wmsg[w]}
  /\ UNCHANGED <<fileVars, fd, buf, next, owner, stale, readerVars, faults>>

\* Mutant: the count of frames goes on with the next message.
WriterCloseNoReset(w) ==
  /\ fd[w] # 0
  /\ wfrm[w] = Len(Frames[wmsg[w]])
  /\ files' = [files EXCEPT ![fd[w]] = @ \o buf[w]]
  /\ buf' = [buf EXCEPT ![w] = <<>>]
  /\ fd' = [fd EXCEPT ![w] = 0]
  /\ wmsg' = [wmsg EXCEPT ![w] = 0]
  /\ done' = IF stale[w] THEN done ELSE done \cup {wmsg[w]}
  /\ UNCHANGED <<name, next, wfrm, owner, stale, readerVars, faults>>

\* fclose after the last frame.
WriterClose(w) ==
  /\ fd[w] # 0
  /\ wfrm[w] = Len(Frames[wmsg[w]])
  /\ files' = [files EXCEPT ![fd[w]] = @ \o buf[w]]
  /\ buf' = [buf EXCEPT ![w] = <<>>]
  /\ fd' = [fd EXCEPT ![w] = 0]
  /\ wmsg' = [wmsg EXCEPT ![w] = 0]
  /\ wfrm' = [wfrm EXCEPT ![w] = 0]
  /\ done' = IF stale[w] THEN done ELSE done \cup {wmsg[w]}
  /\ UNCHANGED <<name, next, owner, stale, readerVars, faults>>

\* flock fails: the frame is dropped, and _sendmsg closes the file.
WriterFails(w) ==
  LET last == wfrm[w] + 1 = Len(Frames[wmsg[w]])
  IN /\ faults < MaxFaults
     /\ faults' = faults + 1
     /\ fd[w] # 0
     /\ wfrm[w] < Len(Frames[wmsg[w]])
     /\ files' = [files EXCEPT ![fd[w]] = @ \o buf[w]]
     /\ buf' = [buf EXCEPT ![w] = <<>>]
     /\ fd' = [fd EXCEPT ![w] = 0]
     /\ wmsg' = [wmsg EXCEPT ![w] = IF last THEN 0 ELSE @]
     /\ wfrm' = [wfrm EXCEPT ![w] = IF last THEN 0 ELSE @ + 1]
     /\ UNCHANGED <<name, next, owner, stale, done, readerVars>>

\* The server is interrupted within a message and exits, which writes its
\* buffer out, or crashes, which does not.
WriterEnds(w) ==
  /\ faults < MaxFaults
  /\ faults' = faults + 1
  /\ fd[w] # 0
  /\ \E rest \in {buf[w], <<>>} :
       files' = [files EXCEPT ![fd[w]] = @ \o rest]
  /\ buf' = [buf EXCEPT ![w] = <<>>]
  /\ fd' = [fd EXCEPT ![w] = 0]
  /\ wmsg' = [wmsg EXCEPT ![w] = 0]
  /\ wfrm' = [wfrm EXCEPT ![w] = 0]
  /\ UNCHANGED <<name, next, owner, stale, done, readerVars>>

-----------------------------------------------------------------------------
(***************************************************************************)
(* zlmb-dump.                                                              *)
(***************************************************************************)
\* zlmb_dump_read_open; a failure is only reported.
DumpStart ==
  /\ rpc = "idle"
  /\ runs < MaxRuns
  /\ runs' = runs + 1
  /\ rfd' = name
  /\ pos' = 0 /\ size' = 0 /\ reads' = 0
  /\ rpc' = "read"
  /\ UNCHANGED <<tmp, sent, gone, fileVars, writerVars, faults>>

\* Mutant: the position in the open file is forgotten.
RestReopened == IF name = 0 THEN <<>> ELSE files[name]

\* What zlmb_dump_read finds: without an open file, it opens it for the call.
Rest ==
  CASE rfd # 0               -> Drop(files[rfd], pos)
    [] rfd = 0 /\ name # 0   -> files[name]
    [] rfd = 0 /\ name = 0   -> <<>>

AtRecord == Rest # <<>> /\ IsHead(Rest[1])

\* The length in the record's head, and how much of the data is there.
Size == Frames[Rest[1].msg][Rest[1].frame].len

Got == IF Size < Len(Rest) THEN Size ELSE Len(Rest) - 1

\* Mutant: the data is not added to size.
CountedHead == 1

\* What a record adds to size.
Counted == 1 + Got

\* zlmb_dump_read finds the end of the file, or no record where one should be.
DumpReadFails ==
  /\ rpc = "read"
  /\ reads < MaxReads
  /\ ~AtRecord
  /\ reads' = reads + 1
  /\ rpc' = "truncate"
  /\ UNCHANGED <<rfd, pos, size, tmp, runs, sent, gone, fileVars, writerVars,
                 faults>>

\* zlmb_dump_read returns a record, which zmq_sendmsg sends; but a frame
\* without data is an error, and flags of 0, those of the last frame of a
\* message, end the loop before it is sent, with or without --continue.  After
\* a record cut short by the end of an open file, the next call finds feof and
\* returns 0, whatever has been added since.
DumpRead ==
  LET head == Rest[1]
  IN /\ rpc = "read"
     /\ reads < MaxReads
     /\ AtRecord
     /\ reads' = reads + 1
     /\ size' = size + Counted
     /\ pos' = pos + 1 + Got
     /\ IF Got > 0 /\ head.frame < Len(Frames[head.msg])
          THEN /\ rpc' = IF rfd # 0 /\ Got < Size THEN "truncate" ELSE "read"
               /\ sent' = Append(sent, head)
          ELSE rpc' = "truncate" /\ UNCHANGED sent
     /\ UNCHANGED <<rfd, tmp, runs, gone, fileVars, writerVars, faults>>

\* Mutant: fseek is missing.
DumpTruncateNoSeek ==
  /\ rpc = "truncate"
  /\ \/ /\ name = 0
        /\ rpc' = "idle"
        /\ UNCHANGED <<tmp, stale>>
     \/ /\ name # 0
        /\ tmp' = files[name]
        /\ stale' = [w \in Writers |-> stale[w] \/ fd[w] # 0]
        /\ rpc' = "rename"
  /\ UNCHANGED <<rfd, pos, size, runs, reads, sent, gone, fileVars, fd, buf,
                 wmsg, wfrm, next, owner, done, faults>>

\* zlmb_dump_truncate copies what was not read to a new file.
DumpTruncate ==
  /\ rpc = "truncate"
  /\ \/ /\ name = 0
        /\ rpc' = "idle"
        /\ UNCHANGED <<tmp, stale>>
     \/ /\ name # 0
        /\ tmp' = Drop(files[name], size)
        /\ stale' = [w \in Writers |-> stale[w] \/ fd[w] # 0]
        /\ rpc' = "rename"
  /\ UNCHANGED <<rfd, pos, size, runs, reads, sent, gone, fileVars, fd, buf,
                 wmsg, wfrm, next, owner, done, faults>>

\* rename: the new file takes the name; what was added to the old one since it
\* was copied is gone as well.
DumpRename ==
  /\ rpc = "rename"
  /\ files' = Append(files, tmp)
  /\ name' = Len(files) + 1
  /\ gone' = gone \o Take(files[name], size)
  /\ tmp' = <<>>
  /\ rpc' = "idle"
  /\ UNCHANGED <<rfd, pos, size, runs, reads, sent, writerVars, faults>>

\* zlmb-dump is killed, or zlmb_dump_truncate fails: the file stays as it is.
DumpEnds ==
  /\ faults < MaxFaults
  /\ faults' = faults + 1
  /\ rpc # "idle"
  /\ rpc' = "idle"
  /\ tmp' = <<>>
  /\ UNCHANGED <<rfd, pos, size, runs, reads, sent, gone, fileVars, writerVars>>

-----------------------------------------------------------------------------
WriterStep(w) ==
  WriterOpen(w) \/ WriterWrite(w) \/ WriterClose(w) \/ WriterFails(w)
    \/ WriterEnds(w)

DumpStep == DumpReadFails \/ DumpRead \/ DumpTruncate \/ DumpRename

Next ==
  \/ \E w \in Writers : WriterStep(w)
  \/ DumpStart \/ DumpStep \/ DumpEnds

Spec == Init /\ [][Next]_vars

-----------------------------------------------------------------------------
(***************************************************************************)
(* Safety.                                                                 *)
(***************************************************************************)
Content == IF name = 0 THEN <<>> ELSE files[name]

\* All that was ever in the file under its name, removed or not.
Stream == gone \o Content

Before(u, v) ==
  \/ u.msg < v.msg
  \/ u.msg = v.msg /\ u.frame < v.frame
  \/ u.msg = v.msg /\ u.frame = v.frame /\ u.byte < v.byte

\* Nothing comes into the file twice or comes back after it was removed, and
\* what a server writes stays in order, whatever fails and whenever zlmb-dump
\* replaces the file.
OnceInOrder ==
  \A i, j \in DOMAIN Stream :
    (i < j /\ owner[Stream[i].msg] = owner[Stream[j].msg])
      => Before(Stream[i], Stream[j])

\* A message dumped without a fault is in the file, all of it, until zlmb-dump
\* removes it, unless the file was being replaced while its server had it open.
DoneIsKept ==
  \A m \in done : \A f \in DOMAIN Frames[m] :
    \A u \in {Record(m, f)[k] : k \in DOMAIN Record(m, f)} :
      \E i \in DOMAIN Stream : Stream[i] = u

First(u) == u.frame = 1 /\ u.byte = 0

Last(u) ==
  u.frame = Len(Frames[u.msg]) /\ u.byte = Frames[u.msg][u.frame].put

Follows(u, v) ==
  /\ u.msg = v.msg
  /\ \/ u.frame = v.frame /\ u.byte + 1 = v.byte
     \/ u.frame + 1 = v.frame /\ u.byte = Frames[u.msg][u.frame].put
          /\ v.byte = 0

\* The units of some messages, one message after the other and each whole.
Whole(s) ==
  s # <<>> =>
    /\ First(s[1]) /\ Last(s[Len(s)])
    /\ \A i \in 1..(Len(s) - 1) :
         Follows(s[i], s[i + 1]) \/ (Last(s[i]) /\ First(s[i + 1]))

\* The records of a message fit the buffer, and end there.
Fits(m, end) ==
  \A f \in DOMAIN Frames[m] :
    end[f] = (IF f = 1 THEN 0 ELSE end[f - 1]) + 1 + Frames[m][f].put

\* A message that fits the buffer, with no empty frame and no NUL.
Plain(m) ==
  /\ \A f \in DOMAIN Frames[m] :
       Frames[m][f].put = Frames[m][f].len /\ Frames[m][f].len > 0
  /\ \E end \in [DOMAIN Frames[m] -> 0..BufUnits] : Fits(m, end)

\* Without faults, and as long as all messages fit the buffer and have no empty
\* frame and no NUL, the file holds whole messages only, not mingled with those
\* of other servers, and zlmb-dump removes whole messages only, although it
\* reads without a lock.
WholeMessages ==
  (faults = 0 /\ \A m \in 1..(next - 1) : Plain(m))
    => Whole(gone) /\ Whole(Content)

-----------------------------------------------------------------------------
(***************************************************************************)
(* Liveness: zlmb-dump runs if it can; nothing else is obliged to.         *)
(***************************************************************************)
FairSpec == Spec /\ WF_vars(DumpStep)

\* zlmb-dump ends, unless the file appeared after it had failed to open it: it
\* then opens it for each record anew.
DumpStops == (rpc # "idle") ~> (rpc = "idle" \/ (rfd = 0 /\ name # 0))

-----------------------------------------------------------------------------
(***************************************************************************)
(* A statement of the repository that zlmb-dump does not keep.             *)
(***************************************************************************)
\* README: zlmb-dump is for "retransmission of the message".  So no frame is
\* removed from the file that was not sent.
SentBeforeRemoved ==
  \A i \in DOMAIN gone :
    IsHead(gone[i]) => \E j \in DOMAIN sent : sent[j] = gone[i]
=============================================================================
