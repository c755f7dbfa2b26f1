---------------------------- MODULE WorkerSpawn ----------------------------
(***************************************************************************)
(* zlmb-worker --command (src/src/app_worker.c).                           *)
(*                                                                         *)
(* The main thread is in zmq_proxy from the frontend to N worker threads.  *)
(* A worker thread receives a message into a MessageStack, starts the      *)
(* command with a pipe for its standard input, writes the frames to it and *)
(* waits for it.  The threads share one table of file descriptors, and a   *)
(* command inherits every descriptor that is open when it is started,      *)
(* those of the other threads' pipes too; only its own write end is        *)
(* closed.                                                                 *)
(*                                                                         *)
(* Messages are numbered in the order the frontend takes them.  Message m  *)
(* also names the pipe and the command made for it.  Frames fit the pipe.  *)
(***************************************************************************)
EXTENDS Integers, Sequences, FiniteSets, MessageStack

CONSTANTS
  N,           \* number of worker threads
  Frames,      \* Frames[m]: number of frames of the m-th message
  Careless,    \* the commands that may exit without reading their input
  MaxSignals,  \* bound: SIGINT or SIGTERM from outside
  MaxFailures  \* bound: commands that cannot be started

ASSUME NAssumption == N \in Nat \ {0}
ASSUME FramesAssumption == Frames \in Seq(Nat \ {0})
ASSUME CarelessAssumption == Careless \subseteq DOMAIN Frames
ASSUME BoundsAssumption == MaxSignals \in Nat /\ MaxFailures \in Nat

VARIABLES
  interrupted, \* _interrupted
  signals,     \* signals the process has received from outside
  alive,       \* the process was not killed by SIGPIPE
  mpc,         \* where main is
  idx,         \* main's loop counter over the threads
  taken,       \* number of messages the frontend has accepted
  queue,       \* the messages each thread has not received yet
  pc,          \* where each worker thread is
  msg,         \* the message it is handling; 0: none
  got,         \* the number of frames of it received so far
  stack,       \* spawn.stack
  env,         \* ZLMB_FRAME of each command
  running,     \* the commands that run
  wr,          \* who has the write end of each pipe; 0: zlmb-worker
  rd,          \* who has the read end of each pipe
  input,       \* the frames written to each pipe
  failed,      \* history: the messages whose command could not be started
  abandoned    \* history: the commands a signal has kept from being waited for

signalVars == <<interrupted, signals>>
mainVars   == <<mpc, idx, taken>>
threadVars == <<pc, msg, got, stack>>
endVars    == <<wr, rd>>
cmdVars    == <<env, running, input, failed, abandoned>>

vars == <<signalVars, alive, mainVars, queue, threadVars, endVars, cmdVars>>

-----------------------------------------------------------------------------
Threads  == 1..N
Messages == 1..Len(Frames)
Holders  == {0} \cup Messages

ThreadPc == {"loop", "poll", "recv", "pipe", "spawn", "close", "write", "wait",
             "done"}

TypeOK ==
  /\ interrupted \in BOOLEAN
  /\ signals \in 0..MaxSignals
  /\ alive \in BOOLEAN
  /\ mpc \in {"proxy", "kill", "join", "done"}
  /\ idx \in Threads
  /\ taken \in 0..Len(Frames)
  /\ queue \in [Threads -> Seq(Messages)]
  /\ pc \in [Threads -> ThreadPc]
  /\ msg \in [Threads -> Messages \cup {0}]
  /\ \A t \in Threads : msg[t] # 0 => got[t] \in 0..Frames[msg[t]]
  /\ env \in [Messages -> Nat]
  /\ running \subseteq Messages
  /\ wr \in [Messages -> SUBSET Holders]
  /\ rd \in [Messages -> SUBSET Holders]
  /\ input \in [Messages -> Seq(Nat)]
  /\ failed \subseteq Messages
  /\ abandoned \subseteq Messages

Init ==
  /\ interrupted = FALSE
  /\ signals = 0
  /\ alive = TRUE
  /\ mpc = "proxy"
  /\ idx = 1
  /\ taken = 0
  /\ queue = [t \in Threads |-> <<>>]
  /\ pc = [t \in Threads |-> "loop"]
  /\ msg = [t \in Threads |-> 0]
  /\ got = [t \in Threads |-> 0]
  /\ stack = [t \in Threads |-> NewStack]
  /\ env = [m \in Messages |-> 0]
  /\ running = {}
  /\ wr = [m \in Messages |-> {}]
  /\ rd = [m \in Messages |-> {}]
  /\ input = [m \in Messages |-> <<>>]
  /\ failed = {}
  /\ abandoned = {}

-----------------------------------------------------------------------------
(***************************************************************************)
(* Signals: see ClientServer.                                              *)
(***************************************************************************)
\* zmq_poll fails, which ends the thread; waitpid fails, which is not noticed.
EintrThread(t) ==
  \/ /\ pc[t] = "poll" /\ queue[t] = <<>>
     /\ pc' = [pc EXCEPT ![t] = "done"]
     /\ UNCHANGED <<msg, abandoned>>
  \/ /\ pc[t] = "wait" /\ msg[t] \in running
     /\ pc' = [pc EXCEPT ![t] = "loop"]
     /\ msg' = [msg EXCEPT ![t] = 0]
     /\ abandoned' = abandoned \cup {msg[t]}

Signal ==
  /\ alive
  /\ signals < MaxSignals
  /\ signals' = signals + 1
  /\ interrupted' = TRUE
  /\ \/ UNCHANGED <<mpc, pc, msg, abandoned>>
     \/ /\ mpc = "proxy"
        /\ mpc' = "kill"
        /\ UNCHANGED <<pc, msg, abandoned>>
     \/ /\ \E t \in Threads : EintrThread(t)
        /\ UNCHANGED mpc
  /\ UNCHANGED <<alive, idx, taken, queue, got, stack, endVars, env, running,
                 input, failed>>

-----------------------------------------------------------------------------
(***************************************************************************)
(* Main thread.                                                            *)
(***************************************************************************)
\* zmq_proxy takes a message and passes it to a thread.
MainForward(t) ==
  /\ alive
  /\ mpc = "proxy"
  /\ taken < Len(Frames)
  /\ pc[t] # "done"
  /\ taken' = taken + 1
  /\ queue' = [queue EXCEPT ![t] = Append(@, taken')]
  /\ UNCHANGED <<signalVars, alive, mpc, idx, threadVars, endVars, cmdVars>>

\* _worker_destroy: pthread_kill(SIGINT).
MainKill ==
  /\ alive
  /\ mpc = "kill"
  /\ mpc' = "join"
  /\ interrupted' = TRUE
  /\ EintrThread(idx) \/ UNCHANGED <<pc, msg, abandoned>>
  /\ UNCHANGED <<signals, alive, idx, taken, queue, got, stack, endVars, env,
                 running, input, failed>>

\* pthread_join
MainJoin ==
  /\ alive
  /\ mpc = "join"
  /\ pc[idx] = "done"
  /\ mpc' = IF idx < N THEN "kill" ELSE "done"
  /\ idx' = IF idx < N THEN idx + 1 ELSE idx
  /\ UNCHANGED <<signalVars, alive, taken, queue, threadVars, endVars, cmdVars>>

-----------------------------------------------------------------------------
(***************************************************************************)
(* Worker thread: _worker_command.                                         *)
(***************************************************************************)
ThreadLoop(t) ==
  /\ pc[t] = "loop"
  /\ pc' = [pc EXCEPT ![t] = IF interrupted THEN "done" ELSE "poll"]
  /\ UNCHANGED <<signalVars, alive, mainVars, queue, msg, got, stack, endVars,
                 cmdVars>>

\* zmq_poll returns: a message is there.
ThreadPoll(t) ==
  /\ pc[t] = "poll"
  /\ queue[t] # <<>>
  /\ msg' = [msg EXCEPT ![t] = Head(queue[t])]
  /\ queue' = [queue EXCEPT ![t] = Tail(@)]
  /\ got' = [got EXCEPT ![t] = 0]
  /\ stack' = [stack EXCEPT ![t] = NewStack]
  /\ pc' = [pc EXCEPT ![t] = "recv"]
  /\ UNCHANGED <<signalVars, alive, mainVars, endVars, cmdVars>>

\* Mutant: the inner loop does not end with the last frame.
ThreadRecvPastEnd(t) ==
  /\ pc[t] = "recv"
  /\ \/ /\ interrupted
        /\ pc' = [pc EXCEPT ![t] = "pipe"]
        /\ UNCHANGED <<got, stack>>
     \/ /\ ~interrupted
        /\ got[t] <= Frames[msg[t]]
        /\ got' = [got EXCEPT ![t] = @ + 1]
        /\ stack' = [stack EXCEPT ![t] = Push(@, got[t] + 1)]
        /\ UNCHANGED pc
  /\ UNCHANGED <<signalVars, alive, mainVars, queue, msg, endVars, cmdVars>>

\* The inner loop: receive a frame and push it.  An interrupt ends it with
\* the frames received so far, which may be none.
ThreadRecv(t) ==
  /\ pc[t] = "recv"
  /\ \/ /\ interrupted
        /\ pc' = [pc EXCEPT ![t] = "pipe"]
        /\ UNCHANGED <<got, stack>>
     \/ /\ ~interrupted
        /\ got' = [got EXCEPT ![t] = @ + 1]
        /\ stack' = [stack EXCEPT ![t] = Push(@, got[t] + 1)]
        /\ pc' = [pc EXCEPT ![t] = IF got[t] + 1 = Frames[msg[t]] THEN "pipe"
                                                                  ELSE "recv"]
  /\ UNCHANGED <<signalVars, alive, mainVars, queue, msg, endVars, cmdVars>>

-----------------------------------------------------------------------------
(***************************************************************************)
(* Worker thread: _spawn_generate_environ and _spawn_run.                  *)
(***************************************************************************)
\* Mutant: ZLMB_FRAME is that of the message, not of what was received.
ThreadPipeWhole(t) ==
  /\ pc[t] = "pipe"
  /\ env' = [env EXCEPT ![msg[t]] = Frames[msg[t]]]
  /\ wr' = [wr EXCEPT ![msg[t]] = {0}]
  /\ rd' = [rd EXCEPT ![msg[t]] = {0}]
  /\ pc' = [pc EXCEPT ![t] = "spawn"]
  /\ UNCHANGED <<signalVars, alive, mainVars, queue, msg, got, stack, running,
                 input, failed, abandoned>>

\* The environment, and the pipe.
ThreadPipe(t) ==
  /\ pc[t] = "pipe"
  /\ env' = [env EXCEPT ![msg[t]] = stack[t].size]
  /\ wr' = [wr EXCEPT ![msg[t]] = {0}]
  /\ rd' = [rd EXCEPT ![msg[t]] = {0}]
  /\ pc' = [pc EXCEPT ![t] = "spawn"]
  /\ UNCHANGED <<signalVars, alive, mainVars, queue, msg, got, stack, running,
                 input, failed, abandoned>>

\* pipe fails: there is no command, and the frames are dropped.
ThreadPipeFails(t) ==
  /\ pc[t] = "pipe"
  /\ Cardinality(failed) < MaxFailures
  /\ failed' = failed \cup {msg[t]}
  /\ pc' = [pc EXCEPT ![t] = "loop"]
  /\ msg' = [msg EXCEPT ![t] = 0]
  /\ UNCHANGED <<signalVars, alive, mainVars, queue, got, stack, endVars, env,
                 running, input, abandoned>>

\* Mutant: the command keeps the write end of its own input.
ThreadSpawnNoAddclose(t) ==
  LET m == msg[t]
  IN /\ pc[t] = "spawn"
     /\ running' = running \cup {m}
     /\ wr' = [p \in Messages |->
                 IF 0 \in wr[p] THEN wr[p] \cup {m} ELSE wr[p]]
     /\ rd' = [p \in Messages |->
                 IF 0 \in rd[p] THEN rd[p] \cup {m} ELSE rd[p]]
     /\ pc' = [pc EXCEPT ![t] = "close"]
     /\ UNCHANGED <<signalVars, alive, mainVars, queue, msg, got, stack, env,
                    input, failed, abandoned>>

\* posix_spawnp: command m has all ends that zlmb-worker has, but for its own
\* write end.
ThreadSpawn(t) ==
  LET m == msg[t]
  IN /\ pc[t] = "spawn"
     /\ running' = running \cup {m}
     /\ wr' = [p \in Messages |->
                 IF 0 \in wr[p] /\ p # m THEN wr[p] \cup {m} ELSE wr[p]]
     /\ rd' = [p \in Messages |->
                 IF 0 \in rd[p] THEN rd[p] \cup {m} ELSE rd[p]]
     /\ pc' = [pc EXCEPT ![t] = "close"]
     /\ UNCHANGED <<signalVars, alive, mainVars, queue, msg, got, stack, env,
                    input, failed, abandoned>>

\* The file actions or posix_spawnp fail; both ends stay open.
ThreadSpawnFails(t) ==
  /\ pc[t] = "spawn"
  /\ Cardinality(failed) < MaxFailures
  /\ failed' = failed \cup {msg[t]}
  /\ pc' = [pc EXCEPT ![t] = "loop"]
  /\ msg' = [msg EXCEPT ![t] = 0]
  /\ UNCHANGED <<signalVars, alive, mainVars, queue, got, stack, endVars, env,
                 running, input, abandoned>>

\* Mutant: the read end stays open.
ThreadCloseNot(t) ==
  /\ pc[t] = "close"
  /\ pc' = [pc EXCEPT ![t] = "write"]
  /\ UNCHANGED <<signalVars, alive, mainVars, queue, msg, got, stack, endVars,
                 cmdVars>>

\* close(in[0])
ThreadClose(t) ==
  /\ pc[t] = "close"
  /\ rd' = [rd EXCEPT ![msg[t]] = @ \ {0}]
  /\ pc' = [pc EXCEPT ![t] = "write"]
  /\ UNCHANGED <<signalVars, alive, mainVars, queue, msg, got, stack, wr,
                 cmdVars>>

\* Shift a frame off the stack and write it.
ThreadWrite(t) ==
  LET m == msg[t]
  IN /\ pc[t] = "write"
     /\ stack[t].size > 0
     /\ rd[m] # {}
     /\ input' = [input EXCEPT ![m] = Append(@, Front(stack[t]))]
     /\ stack' = [stack EXCEPT ![t] = Shift(@)]
     /\ UNCHANGED <<signalVars, alive, mainVars, queue, pc, msg, got, endVars,
                    env, running, failed, abandoned>>

\* No one can read it: SIGPIPE ends zlmb-worker, and its ends are closed.
ThreadWriteBroken(t) ==
  /\ pc[t] = "write"
  /\ stack[t].size > 0
  /\ rd[msg[t]] = {}
  /\ alive' = FALSE
  /\ wr' = [p \in Messages |-> wr[p] \ {0}]
  /\ rd' = [p \in Messages |-> rd[p] \ {0}]
  /\ UNCHANGED <<signalVars, mainVars, queue, threadVars, cmdVars>>

\* Mutant: the write end stays open.
ThreadCloseInputNot(t) ==
  /\ pc[t] = "write"
  /\ stack[t].size = 0
  /\ pc' = [pc EXCEPT ![t] = "wait"]
  /\ UNCHANGED <<signalVars, alive, mainVars, queue, msg, got, stack, endVars,
                 cmdVars>>

\* close(in[1])
ThreadCloseInput(t) ==
  /\ pc[t] = "write"
  /\ stack[t].size = 0
  /\ wr' = [wr EXCEPT ![msg[t]] = @ \ {0}]
  /\ pc' = [pc EXCEPT ![t] = "wait"]
  /\ UNCHANGED <<signalVars, alive, mainVars, queue, msg, got, stack, rd,
                 cmdVars>>

\* Mutant: the command is not waited for.
ThreadWaitNot(t) ==
  /\ pc[t] = "wait"
  /\ pc' = [pc EXCEPT ![t] = "loop"]
  /\ msg' = [msg EXCEPT ![t] = 0]
  /\ UNCHANGED <<signalVars, alive, mainVars, queue, got, stack, endVars,
                 cmdVars>>

\* waitpid
ThreadWait(t) ==
  /\ pc[t] = "wait"
  /\ msg[t] \notin running
  /\ pc' = [pc EXCEPT ![t] = "loop"]
  /\ msg' = [msg EXCEPT ![t] = 0]
  /\ UNCHANGED <<signalVars, alive, mainVars, queue, got, stack, endVars,
                 cmdVars>>

-----------------------------------------------------------------------------
\* Command m reads its input to the end, then exits; a careless one does not
\* wait for the end.
CommandExits(m) ==
  /\ m \in running
  /\ wr[m] = {} \/ m \in Careless
  /\ running' = running \ {m}
  /\ wr' = [p \in Messages |-> wr[p] \ {m}]
  /\ rd' = [p \in Messages |-> rd[p] \ {m}]
  /\ UNCHANGED <<signalVars, alive, mainVars, queue, threadVars, env, input,
                 failed, abandoned>>

-----------------------------------------------------------------------------
ThreadStep(t) ==
  /\ alive
  /\ \/ ThreadLoop(t) \/ ThreadPoll(t) \/ ThreadRecv(t)
     \/ ThreadPipe(t) \/ ThreadPipeFails(t)
     \/ ThreadSpawn(t) \/ ThreadSpawnFails(t) \/ ThreadClose(t)
     \/ ThreadWrite(t) \/ ThreadWriteBroken(t) \/ ThreadCloseInput(t)
     \/ ThreadWait(t)

MainEnd == MainKill \/ MainJoin

Next ==
  \/ \E t \in Threads : ThreadStep(t) \/ MainForward(t)
  \/ MainEnd
  \/ \E m \in Messages : CommandExits(m)
  \/ Signal

Spec == Init /\ [][Next]_vars

\* Threads run if they can, and a command exits once its input has ended.
\* Nothing obliges messages or signals to come.
Fairness ==
  /\ \A t \in Threads : WF_vars(ThreadStep(t))
  /\ WF_vars(MainEnd)
  /\ \A m \in Messages : WF_vars(wr[m] = {} /\ CommandExits(m))

FairSpec == Spec /\ Fairness

-----------------------------------------------------------------------------
(***************************************************************************)
(* Safety.                                                                 *)
(***************************************************************************)
Upto(n) == [k \in 1..n |-> k]

\* The linked list holds, in order, the frames received and not yet written;
\* what is written and what is still to be written are together the ZLMB_FRAME
\* frames the command was told of.  Until zlmb-worker is interrupted these are
\* all the frames of the message, and all are written when the input ends.
InputMatchesEnviron ==
  \A t \in Threads :
    /\ pc[t] \in {"recv", "pipe"} => Holds(stack[t], Upto(got[t]))
    /\ pc[t] \in {"spawn", "close", "write", "wait"} =>
         /\ Len(input[msg[t]]) + stack[t].size = env[msg[t]]
         /\ Holds(stack[t], [k \in 1..stack[t].size |->
                               k + Len(input[msg[t]])])
         /\ ~interrupted => env[msg[t]] = Frames[msg[t]]
    /\ pc[t] = "wait" /\ ~interrupted => input[msg[t]] = Upto(Frames[msg[t]])

\* zlmb-worker has an end of a pipe open only while it is about to use it, or
\* if the command could not be started.
NoEndLeaks ==
  alive => \A m \in Messages :
    /\ 0 \in wr[m] => \/ m \in failed
                      \/ \E t \in Threads :
                           msg[t] = m /\ pc[t] \in {"spawn", "close", "write"}
    /\ 0 \in rd[m] => \/ m \in failed
                      \/ \E t \in Threads :
                           msg[t] = m /\ pc[t] \in {"spawn", "close"}

\* No more commands run than there are threads, except those that a signal
\* has kept from being waited for.
OneCommandPerThread ==
  alive => Cardinality(running \ abandoned) <= N

-----------------------------------------------------------------------------
(***************************************************************************)
(* Liveness.                                                               *)
(***************************************************************************)
\* Command m need never exit: there are commands, m one of them, each of which
\* is kept from the end of its input by another of them, which has inherited
\* the write end.
Held(m) ==
  \E S \in SUBSET running :
    m \in S /\ \A c \in S : wr[c] \cap (S \ {c}) # {}

\* waitpid returns, unless the command need never exit.
CommandReturns ==
  \A t \in Threads :
    (pc[t] = "wait") ~> (pc[t] # "wait" \/ ~alive \/ Held(msg[t]))

\* Once zmq_proxy has returned, zlmb-worker ends, unless main waits for a
\* thread that has taken its signal before it came to zmq_poll, which has no
\* timeout, or for one that waits for a command that need never exit.
WorkerEnds ==
  (mpc = "kill") ~>
    \/ mpc = "done" \/ ~alive
    \/ [](pc[idx] = "poll" \/ (pc[idx] = "wait" /\ Held(msg[idx])))

-----------------------------------------------------------------------------
(***************************************************************************)
(* A statement of the repository that zlmb-worker does not keep.           *)
(***************************************************************************)
\* README: as many commands can run as there are threads.  So each of them
\* returns, as long as it exits at the end of its input.
EachCommandReturns ==
  \A t \in Threads : (pc[t] = "wait") ~> (pc[t] # "wait" \/ ~alive)
=============================================================================
