# zlmb, specified in TLA+

zlmb relays ZeroMQ messages between applications and workers: programs send
to a *client server*, it forwards to one of several *publish servers*, these
publish to *subscribe servers*, and those hand each message to one of their
*workers*.  `zlmb-server` plays all the server roles (`--mode`), `zlmb-worker`
runs a command for each message, `zlmb-dump` sends again what a server had to
write to a file.  This directory specifies those programs in TLA+, checks the
specifications with TLC and proves part of what they promise with TLAPS.  The
specifications are translated from the C source under `src/src/`; line numbers
below are those of the files there.

Contents: [The system](#the-system) ·
[The modules](#the-modules) · [The runs](#the-runs) ·
[Findings](#findings) · [The proofs](#the-proofs) ·
[Assumptions](#assumptions) · [Not modelled](#not-modelled) · [Plan](#plan)

## The system

| component | code | state | operations |
|---|---|---|---|
| client server | `app_server.c` 248-835, 860-989 | a queue `inproc` between two threads, the backend's counter `connect`, the connections of the publish socket, `_interrupted`, two mutexes | start the backend and a monitor per endpoint; `zmq_proxy` from frontend to `inproc`; take a message and send or dump it (`_sendmsg`); connect and disconnect endpoints as monitors report (`_client_publish_connect`); `gc`; shut down |
| socket monitor | `app_server.c` 107-246 | `monitor->event`, one bit per kind of event | receive an event and OR its bit |
| subscribe server (modes subscribe, publish-subscribe, stand-alone) | `app_server.c` 837-856, 1222-1525, 1759-1983, 2525-2746 | the counter `connect`, the frame count, `_interrupted` | take a message, drop its key if asked, send or dump it; count workers; shut down |
| client-subscribe server | `app_server.c` 1986-2523 | those of both | the client's backend and the subscribe server's loop behind one main thread |
| publish server (modes publish, client-publish) | `app_server.c` 992-1219, 1528-1757 | `_interrupted`, whether the key was sent, the PUB socket's queue for each subscriber | take a message, put the key before its first frame, compress or not, publish |
| dump file | `dump.c` | the file, its name, `self->fp` with its stdio buffer, the lock, `self->size` | write, read, truncate |
| zlmb-dump | `app_dump.c` | the position in the file | read a record, send it; remove what was read |
| zlmb-worker | `app_worker.c` | worker threads, one table of file descriptors, running commands | receive a message, run the command with it on standard input, wait for it; shut down |
| message stack | `stack.c` | a doubly linked list | push, unshift, shift, pop |
| options and set-up | `option.c`, `app_server.c` (`main` and the beginning of each `_server_*`) | option values, the key last read; the sockets and threads already there | command line, YAML events, defaults, required options; open, bind, connect, watch, and undo it all when a step fails |
| zlmb-cli | `app_client.c` | none that lasts | send frames |
| logging, helpers, examples | `log.h`, `utils.c`, `exp_*.c` | none | output |

How they interact.  Processes interact by ZeroMQ messages and by the dump file
(two servers may be given the same one, and zlmb-dump replaces it under them).
The threads of a client server interact by `inproc` (main and backend), by
`monitor->event` under `_mutex` (monitors and backend), by `_interrupted` and
`pthread_kill`, and at the start by two mutexes that one thread locks and
another unlocks.  The threads of zlmb-worker share the table of file
descriptors, which every command inherits.

What is hard, and what makes each part correct:

- **Client and subscribe server.**  A message is to leave whole, once and in
  order, sent or dumped (`MessageRelay`).  Which of the two is decided by a
  counter that is kept from events that are ORed into bits by one thread and
  erased by another (lines 218, 474-490, 844-853); a wrong counter means
  waiting for ever in `zmq_sendmsg` or dumping for ever.  A signal is taken by
  any thread, at any point, and ends a call only if it comes while the thread
  waits in it.  The end must be reached from everywhere.
- **Start of the client.**  Three kinds of thread and two mutexes used as
  handshakes (lines 528-539, 949-961), one of which is also the mutex of the
  events.
- **Dump file.**  The lock covers a call, but stdio writes later, unlocked; a
  message is several calls; the file is replaced by `rename` while servers have
  it open; crashes.
- **zlmb-worker.**  Commands inherit what the other threads have open, and read
  to the end of a pipe that others may hold open.
- **Client-subscribe.**  One thread stands where two programs have one each: a
  wait of one half is a wait of the other.
- **Publish server.**  It must never publish half a message, and what it does to
  a message (key, compression) is undone by another program with options and a
  build of its own.  Its `zmq_poll` has no timeout.
- **Options and set-up.**  The priority of command line, file and defaults is
  kept by a loop over parser events with one remembered key; seven modes set up
  their sockets in four different orders, and each step has its own list of what
  to undo.

## The modules

| module | models | theorems |
|---|---|---|
| `MessageRelay` | the abstract promise: messages 1, 2, 3, … are accepted; each leaves in that order, once, `sent`, `dumped`, `discarded` (only a key) or, only after a fault, `damaged` | |
| `History` | what the mapping to `MessageRelay` reads from the history `out` of a server: which messages have ended, in which order, and what became of each | `HistoryProofs` |
| `ServerStart` | `main`, the options, and the set-up of all seven modes with its error paths | `ServerStartProofs` |
| `ClientStartup` | the start of the client's backend and monitors: handshakes, failures, and how it is undone | `ClientStartupProofs` |
| `ClientServer` | the client from there on; implements `MessageRelay` | `ClientServerProofs` |
| `SubscribeServer` | the loop of subscribe, publish-subscribe and stand-alone; implements `MessageRelay` | `SubscribeServerProofs` |
| `ClientSubscribe` | client-subscribe: composed of the actions of `ClientServer` and `SubscribeServer`; implements `MessageRelay` twice | |
| `PublishServer` | publish and client-publish with their subscribers; implements `MessageRelay` without faults | `PublishServerProofs` |
| `DumpFile` | `dump.c` with several servers, and zlmb-dump | `DumpFileProofs` |
| `MessageStack` | `stack.c`, as operators on a record of linked items | in `WorkerSpawnProofs` |
| `WorkerSpawn` | zlmb-worker with its commands; uses `MessageStack` | `WorkerSpawnProofs` |
| `MC...` | constants for TLC | |

Conventions.  Every thread has a program counter (`mpc` main, `bpc` backend,
`monpc[e]` monitor of endpoint *e*, `pc[t]` worker thread), and each of its
values is a place between two calls where another thread can come in.  What the
code does under a mutex without waiting is one step; a read of
`monitor->event` outside the mutex, as the code has it, is a step of its own.
Messages are numbers, frames are counted, payloads do not exist.  Definitions
that start with *Mutant* in their comment are not part of the specifications:
they are plausible mistakes in the code, at least one for each property of a
passing run, and each was seen to violate it.

### ClientStartup

State: the two mutexes as booleans (the locker and the unlocker differ), who is
where, which endpoints are `dialled` (`zmq_connect` of the monitored socket,
line 548), what events wait in a monitor.  `MainLock` … `MainJoin` are lines
949-989; `BackendSetup` is everything in `_client_backend` before the monitors
(656-710, with `_client_publish_init`) and may fail; `BackendCreate`,
`BackendRelock` and `BackendConnect` are one iteration of
`_client_publish_monitor_start`; `BackendStop`, `BackendJoin` and `BackendFail`
are the error path 714-723.  `pthread_create` fails with a positive number, the
code compares with -1, so a failure goes on as a thread that does not exist.
`handled` says that `_signals` has run: before, SIGINT kills the process, also
the one that main or backend sends with `pthread_kill`.

### ClientServer

Init is the state in which the backend has unlocked `_mutex`; a monitor that is
further on by then is the same as one that has taken steps since.  Main is
`zmq_proxy` in two steps, receive and forward, and then lines 970-989.
Backend: `BackendLoop`, `BackendPollIn` (the mode `mode` is chosen from
`connect`), `BackendFrame`, one of `BackendSend`, `BackendCompressFails`,
`BackendDump`, and so on to the last frame (738-812); then the pass over the
endpoints (473-495): two unlocked reads and two critical sections for each.
`_client_publish_gc` is the same loop with `gc` set: no compression, no loop
condition, an end at a timeout.  `pipes` are the connections of the publish
socket; `zmq_connect` adds one, `zmq_disconnect` ends all of an endpoint and
fails if there is none.  `lost` (history) tells that an event bit was erased
that nobody had acted on; `out` (history) is every frame that left.
`BackendStop` and `BackendJoinNext` end the monitors one by one;
`BackendClose` is the join of the last with the closing of the sockets (826),
which discards what is in `inproc` (`discarded`, history).

### SubscribeServer

One thread does everything but monitoring.  `KeepsFrame` is `!dropkey ||
frames != 1`; the counter and the event bits are as above, but one monitor
serves all workers, so two events of a kind can become one bit: then, too,
`lost` is set.  The three modes have the same loop: `server` says which it is,
`DropsKey` that only subscribe drops a key, `Uncompress` that stand-alone does
not uncompress, `BindsFirst` that publish-subscribe and stand-alone bind the
backend before they watch it (1836-1871): workers may then be `here` in Init
that nobody has counted, and `lost` is set from the start.

### ClientSubscribe

The two modules are instances, `C` and `S`, with variables of their own and a
common `interrupted`.  Backend, monitors, workers and the subscribe half take
the steps of the instances; main is written here: one `zmq_poll` for both
frontends (line 2351), the client half in the place of `zmq_proxy`
(`ClientRecv`, `ClientForward`: 2357-2410), then the subscribe half, and an end
that interrupts and joins the threads of both.  `revents` are the frontends that
the last poll reported and main has still to serve.

### PublishServer

The options are variables that Init chooses, so that one run has all their
combinations.  A frame is its number, its word and how often it was compressed.
`MainFrame` is one turn of the inner loop (1138-1199, 1681-1732): the key before
the first frame, then the frame; the PUB socket decides at the first frame which
subscribers have room and gives them the message with the last.  Of the
subscribe server only what the key is about is here: the subscription
(`Subscription`, 1292-1321 with the compression of the key) and what it does to
a message (`Take`: drop the first frame, uncompress the others).

### ServerStart

`LoadFile` takes `LoadEvent` for each of the parser's events, with the remembered
key as the code has it; `Argument` is one `case` of `getopt_long`, `Assign` is
`zlmb_option_set`, `Defaults` and `Required` are what `main` does after
(`option.c` 247-260, `app_server.c` 3093-3182).  `Setup[mode]` lists the steps of
a mode in order, each with the sockets that its error path closes and the
threads that it ends; `SetupFails` takes them over, and `EndKill`, `EndJoin`, `EndClose` and `Destroy` carry them
out.  A worker may connect as soon as the backend is bound, and `missed` records
that it did before anybody watched.

### DumpFile

A file is a sequence of units: one for the head of a record and one for each
byte of data.  `WriterWrite` puts a record into the buffer and writes out what
is full, `WriterClose` the rest; a server keeps the inode it has open (`fd`)
when `DumpRename` gives the name to another.  `put` and `len` of a frame differ
when `"%.*s"` (line 150) stops at a NUL byte.  `DumpRead` is one turn of the loop
in `app_dump.c` 159-194; after a record cut short in an open file the next call
of `zlmb_dump_read` finds `feof` and ends it (`dump.c` 215).  `Stream` is all that was ever in the file under its
name: what zlmb-dump has removed (`gone`) and what is there.  A message is
`Plain` if it has no empty frame and no NUL and its records together fit the
buffer.

### MessageStack and WorkerSpawn

`MessageStack` has the four operations with their pointer assignments.
`Chain(s, at)` says that `at` has the addresses of the items from the head to
the tail, each linked to the next and to the one before, and that there are no
others; `Holds(s, seq)` that the list has such a chain with the data `seq`.  `WorkerSpawn`
has, for each message's pipe, who holds its write end and its read end (`wr`,
`rd`; 0 is zlmb-worker, *m* the command of message *m*).  `ThreadSpawn` gives a
command every end that is open at that moment but its own write end (line 206
with the file actions before it); `ThreadPipeFails` is `pipe` failing (187),
`ThreadSpawnFails` the file actions or `posix_spawnp` (192-210).  A command ends when its input has ended; a
`Careless` one at any time.

## The runs

All runs use `CHECK_DEADLOCK FALSE`: these systems do stop — they end, the
bounded inputs run out, and the waits described below are real.  Whether
anything stops that should not is what the liveness properties ask.

| run | instance | states | shows |
|---|---|---|---|
| `server_start` | all command lines of up to 2 of 7 arguments with all files of up to 3 of 10 entries (an unknown key, a scalar and a sequence of one key, a value that is the name of an option), whole or broken off at the fourth parser event; each mode with what it requires; 2 failing calls, 1 signal | 165 k | `OptionsMerged`: command line, then file, then defaults. `ReturnsClean`, `WorkersReported`, `StartsOrReturns` |
| `client_startup` | 3 endpoints, 2 failing calls, 2 connection events, 1 signal | 32 k | `MonitoredFirst`: no endpoint is connected before its thread can receive events. `ProxyLast`: `zmq_proxy` starts with a ready backend only. `StartsOrEnds` |
| `client_relay` | 2 endpoints, 3 connection events, messages of 1 and 2 frames, a queue of 2, 1 signal | 1.04 M | `RelaySpec` (refinement), `Accounted` (messages are lost after a signal only, and only the last ones: those in `inproc` when the backend closes it, and the one `zmq_proxy` holds), `CounterExact` until a bit is erased unseen, `ConnectCoversPipes`, `DumpOnlyUnconnected` |
| `client_live` | 1 endpoint, 4 connection events, messages of 1 and 2 frames, a queue of 1, 1 signal | 157 k | `EventuallyRelayed`, `EndsUnlessStuck` |
| `subscribe_relay` | 3 modes, 2 workers, 3 connection events, messages of 1 and 3 frames with dropkey and Snappy, 1 signal | 454 k | `RelaySpec`, `CounterExact`, `EventuallyRelayed`, `EndsUnlessStuck` |
| `client_subscribe` | 1 endpoint and 1 worker with 2 connection events together, messages of 2 and 1 frames for the client and of 1 for the worker, a queue of 1, 1 signal | 863 k | `RelaySpec` of both halves, `LoopTurns` |
| `publish` | both modes with all combinations of Snappy, 3 keys, sendkey, a subscriber's key and dropkey; messages of 1, 2 and 1 frames; room for 1 message, 1 signal | 116 k | `SubscriptionsMatch`, `WorkersGetOriginals`, `RelaySpec`, `EndsWithNextMessage` |
| `dump_file` | 2 servers, 3 messages, zlmb-dump twice, 1 failure or crash | 187 k | `OnceInOrder`, `DoneIsKept`, `WholeMessages`, `DumpStops` |
| `worker_commands` | 2 threads, 3 messages, one careless command, 1 failed start, 1 signal | 176 k | `InputMatchesEnviron`, `NoEndLeaks`, `OneCommandPerThread`, `CommandReturns`, `WorkerEnds`; and, as an assumption TLC evaluates, that all 4^5 scripts of five calls of `stack.c` do to the list what they do to a sequence |
| `client_gc`, `dump_resend`, `worker_knot` | small | – | counterexamples, see [Findings](#findings) |

Each run also checks the type invariant of its module, but for the runs of
liveness alone.

**Why the bounds are enough.**  The counter goes wrong, or not, within one pass
over two events of one endpoint; four connection events of one endpoint allow
it to go wrong and then be acted on twice, and two endpoints with three events
let the events of one fall into the pass of the other.  Two workers are what it
takes to merge two events of a kind, a third event to act on the wrong counter.
Messages of one and of several frames distinguish the first, a middle and the
last frame; two messages and a queue of two have one in main's hand while one is
being sent.  One signal reaches every place of every thread, and the process
sends more of them to its own threads when it ends; with one, up to two messages
are discarded at the end, or the one in `zmq_proxy` is lost.  That both happen
takes two signals, and is left to `LossOnlyAtTheEnd`.  In client-subscribe one
event on each side suffices for one half to wait while the other could work.
Three messages and room for one let a subscriber miss a message between two that
it gets, and one subscriber is enough as the PUB socket treats each by itself.
Of the keys one is empty and one begins with the other; one message's content
looks like a compressed key.  Two
arguments and three entries put a list, a value that is taken for a key and the
entry that suffers from it into one file.  Two failing calls let the clean-up
fail, too.  The
dump buffer holds four units so that one message fits it, two do not matter and
the third overflows it and is cut at a NUL byte.  A file is replaced twice so
that a server can be left with the old file of an old file.  Two threads are
what the commands need to hold each other.

**Fairness.**  A thread that can run does (weak fairness of its step): the
operating system schedules threads, and a mutex that is released while one
waits is got by it.  Nothing obliges applications, connections, signals,
failures or crashes to come.  A *send* is fair only while a server it is
connected to is there and reads (`BackendSend /\ Reachable`; in
`SubscribeServer` while a worker is connected); that a thread does not otherwise
get out of `zmq_sendmsg` is how the code is written (no `ZMQ_DONTWAIT`, no
`ZMQ_SNDTIMEO`).  `zmq_poll` with its timeout returns in the end; without
(publish servers, worker threads) it need not.  `ClientSubscribe` needs only
main and the backend to run: what it says holds whatever the monitors do.  A command exits once its input has ended.

**The exceptions in the liveness properties** are the ways the code can really
wait for ever; each was seen to be needed (without it TLC has a
counterexample), and of those marked † it is proved that they are final:

- `ClientStartup!StartsOrEnds`: a thread could not be created and its starter
  waits for it (†); a monitor took its signal outside its receive; or the *knot*
  (†): a later endpoint cannot be connected (line 548), the backend joins the
  monitor of an earlier one, which has received an event and waits for `_mutex`, which
  main has locked until the backend unlocks it — three threads wait for each
  other, at the start, and SIGINT does not help.
- `ServerStart!StartsOrReturns`: a socket was left open, so that
  `zmq_ctx_destroy` waits for it; a monitor took its signal outside its receive;
  or the process was killed by a signal (also its own) before `_signals`.
- `EndsUnlessStuck` (client): the signal was not taken by main while it waited in
  `zmq_proxy`, and `zmq_proxy` does not look at `_interrupted`; `gc` spins over
  messages left in `inproc` (†); a send to a server that is gone; a monitor that took
  its signal outside its receive.  Subscribe server: the last two.
- `EventuallyRelayed`: an erased event bit, or a wait for servers (workers) that
  have gone; in the client also an interrupt, after which messages stay in
  `inproc`.
- `LoopTurns` (client-subscribe): a send to workers when there is none, or a
  message for a backend that waits for a server that has gone: either stops both
  halves.  After an interrupt also what keeps the client or the subscribe server
  from its end, and a message for a backend that has already ended.
- `EndsWithNextMessage` (publish servers): a signal between the look at
  `_interrupted` and `zmq_poll`, which has no timeout, is noticed with the next
  message only, which is then lost.
- `DumpStops`: the file appeared after zlmb-dump had failed to open it.
- `CommandReturns`, `WorkerEnds`: SIGPIPE has ended zlmb-worker (an external
  default action), or commands hold each other's input (†); `WorkerEnds` also: a
  thread took its signal before `zmq_poll`.

## Findings

Three statements of the repository that the code does not keep, each with a run
that shows it:

| run | what the code does |
|---|---|
| `client_gc` | `_client_publish_gc` runs once `_interrupted` is set, its inner loop only while it is not: with a message in `inproc` it polls and skips for ever, and the client does not end. |
| `dump_resend` | The loop of zlmb-dump ends at a record with flags 0, the last frame of a message, *before* sending it, and then removes it from the file. `--continue` changes nothing: its test comes after that `break`. |
| `worker_knot` | Two commands started at the same time inherit the write ends of each other's input; each reads to the end of its input and waits for the other. |

Other behaviour that a maintainer may want to know of appears as an exception in
a property, because no line of the repository says otherwise:

- `lost` in `CounterExact` and `EventuallyRelayed`: `event = 0` (line 480, and 853
  for workers) erases what was reported meanwhile.  The client's counter then
  stays too high: it waits in `zmq_sendmsg` with nothing connected.  In the
  subscribe server two workers that connect between two looks count as one, and
  when one of them leaves everything is dumped although the other is there.
- `WorkersReported`: publish-subscribe and stand-alone bind before they watch; a
  worker that connects in between is never counted.
- `OptionsMerged`: `--client_dumptype` sets the dump *file* (line 3021); a list
  option given on the command line makes the loader forget the key of its scalar
  form in the file, so that its value is taken for the next key and the rest of
  the file shifts (`option.c` 149); an error in the file ends the load silently.
  Of a file in which a key comes twice, or a value is the name of an option, the
  property only says that it changes no option of the command line.
- `ReturnsClean`: a subscription that fails leaves the frontend open (line 1312
  and its like), as a lack of memory leaves subscribe's backend; destroying the
  context then waits for ever.
- `StartsOrEnds`: the knot of three threads at the start of the client.
- `Accounted`: when another thread takes the signal, main stays in `zmq_proxy`
  and goes on accepting messages.  Those it puts into `inproc` after gc's last
  poll found it empty, while the backend joins its monitors, are discarded when
  the backend closes `inproc` (line 826); neither gc nor a dump sees them.

## The proofs

All theorems hold for every value of the constants that the named ASSUMEs of the
modules allow; TLC evaluates these in every run.

**`ClientServerProofs`**: any number of endpoints, messages, frames, signals and
connections.

- `TypeCorrect`, `InnerLoopNeverWaits`, `GcTakesNothing`, from one inductive
  invariant, `ControlInv`.  `TypeOK` alone is not inductive: `bpc' = mode` and
  `Head(inproc)` are well typed only where the backend's place says that a mode
  was chosen and a message is there (`InnerLoopHasFrame`), and main's
  `Append(inproc, taken)` only because it holds a message (`HandTaken`).
- `CounterCovers` (`connect >= Cardinality(pipes)`), from `CounterInv`: the set
  of pipes is finite, `zmq_connect` adds one pipe and one to the counter, and
  `zmq_disconnect` takes at least one pipe and exactly one from the counter.
  It holds *whatever* events are erased, and is why the client errs to the side
  of waiting.
- `DumpIsLastResort` (`mode = "dump" => pipes = {}`), from `ChoiceInv`: the
  choice is made with `connect <= 0`, so by `CounterCovers` without pipes, and
  no pipe is added before the message is done, because only the backend adds
  pipes and it is in its inner loop.
- `CounterIsExact` (`~lost => connect = Cardinality(pipes)` and what goes with
  it), from `PairInv`: until a bit is erased, an endpoint has at most one pipe,
  and the way from its pipe over the bit that is set and the events in the
  monitor's queue to its connection alternates between connected and
  disconnected (`Toggles`).  Hence a CONNECTED that is acted on finds no pipe and
  a DISCONNECTED finds one.
- `ExcessNeverShrinks` and `OvercountEndsDumping`: what the counter has too much
  (`Excess`, by `CounterCovers` never negative) no step takes back, because a
  `zmq_disconnect` that lowers the counter by one always finds a pipe to remove.
  So one erased event bit too many is final: the client never again dumps by
  choice, also when it is connected to nothing.
- `GcNeverEnds`: gc with a message in `inproc` (`Trapped`) stays so, and main stays
  in `pthread_join`, whatever comes.  The run `client_gc` shows that this can
  happen; the theorem, that nothing ends it.
- `LossOnlyAtTheEnd` (`Accounted`) and `ClientImplementsRelay` (`RelaySpec`),
  from `RelayInv`.  Let `Gone` be the number of messages whose last frame has
  left.  `out` is `InOrder`: it has their frames, one message after the other,
  and then, at its end, the frames done of message `Gone + 1` (`HandInv`), all
  with the fate that `mode` says unless there was a fault; `inproc` holds
  `Gone + 1`, `Gone + 2`, … or, once closed, `discarded` does (`QueueInv`), and
  what main holds comes after them.  `Missing` counts the accepted messages
  without a trace: the one that an interrupted `zmq_proxy` held.  That nothing
  is discarded or missing before a signal follows from `EndInv`: the backend
  ends in gc only, between two messages.
  Every step is of one of six kinds (`StepKinds`): nothing happens to a message,
  it is received, it is forwarded, `inproc` is closed, or a frame is done, the
  last of its message or not; all but the last frame map to a stutter or to
  *accept*, the last frame to *relay*.

**`HistoryProofs`** has what these two refinements need to know of a history:
what a frame more, the last or not, does to the messages that have ended and to
what became of each (`RelayedIn`), and that a message whose frames all have one
fate is whole.  `Ended` counts places instead of selecting them with
`SelectSeq`, which is recursive and could not be reasoned about: the n-th
message to end is the one at the place with n places of last frames up to it.

**`SubscribeServerProofs`**: any number of workers, messages, frames, signals and
connections, in all three modes.

- `TypeCorrect`, from `ControlInv` with `Holding`: in its inner loop main has a
  message, a mode and fewer frames done than the message has; elsewhere `frm`
  is 0, which is what makes the next message begin with its key.
- `CounterIsExact`: until a bit is merged or erased, the counter plus what is
  still to be counted is the number of workers connected.  `CounterInv` adds that
  their set is finite; `NumberAppend` and `NumberTail` say what an event that
  comes and one that is received do to the numbers of events in the queue.
- `ServerImplementsRelay` (`RelaySpec`), from the same invariant as the client's,
  with one message in hand instead of a queue, and a first frame that may be a
  key to drop: then its fate is *key*, and a message of one frame *discarded*.

**`PublishServerProofs`**: any messages, keys, subscribers, queue limit and signals.

- `TypeCorrect`, from `PublishInv`, whose parts say that a message is in hand
  only in the inner loop (`InHand`), that the wire carries the key and the first
  frames of the message in hand (`WireInv`, given up after a signal), that the
  subscribers chosen at its first frame keep their room (`RoomInv`), and that
  queues hold whole messages (`QueueInv`).
- `ServerImplementsRelay`: every step is one of `MessageRelay`'s or a stutter,
  with `fault` FALSE throughout.
- `OriginalsDelivered`: with `sendkey` and `dropkey` alike, workers get the
  original frames (from `QueueInv`, by `UnpackedIsOriginal`), once and in order
  (`InOrder`: what a worker has, what waits for it and what is on the wire are
  numbered upwards).
- `SubscriptionsDecide` (`SubscriptionsMatch`), from `MatchInv`: what is on the
  wire begins with the key as soon as there is anything (`KeyInv`); where
  messages carry a key, a subscriber has messages only if it asked for the key
  or its beginning (`AskedInv`); one that asked for a message and was ready for
  it has it (`ServedInv`).  `PackedPrefix` is why compression does not matter: a
  word with its length before it begins another such only if they are equal.

**`ClientStartupProofs`**: any number of endpoints, failures, signals and
connections.

- `StartTypeCorrect`, `ConnectsMonitored`, `ProxyStartsLast` and `NoEarlyReport`
  from `StartInv`, whose parts say what the double locks mean:
  `MonitorHandshake` (`_mutex_monitor` is locked while the monitor that is
  waited for is not ready), `MainHandshake` (the same of `_mutex`, main and
  backend) and `Progress` (endpoints before `idx` are connected on the way
  forward, their monitors have ended on the way back).
- `KnotIsForEver`: once the knot is tied, main, backend and monitor wait for each
  other for ever.  By `HandledInv` the monitor has set the signal handlers, so
  that no signal from outside ends the process either.
- `MissingThreadIsAwaited`: so does who waits for a backend or a monitor that
  could not be created, unless a signal kills the process before it handles any.

**`DumpFileProofs`**: any number of servers, messages, frames, failures and
runs of zlmb-dump, and any buffer of at least one unit (`BoundsAssumption`; the
code's is `BUFSIZ`).

- `TypeCorrect`, from `TypeInv`: besides the types, what is in files and buffers
  are units of records there are, and a server has the file open only within a
  message of its own.
- `WrittenOnceInOrder` (`OnceInOrder`), from `OrderInv` and `CopyInv`.  The
  property is not inductive, because what is still in a server's buffer will
  be in the file: it comes after all that the server has in the stream, *as long
  as the file it has open still has its name* (`InTurn`).  If it has not, the
  buffer goes to an old file and may be lost, but never into the stream.  What
  zlmb-dump has copied is a middle part of the old file, from where it had read
  to (`CopyInv`), so that the rename takes units from the end of the stream and
  adds none.
- `DoneMessagesAreKept` (`DoneIsKept`), from `KeptInv`: a server that is not
  `stale` has all it has dumped of its message in the stream or in its buffer,
  and when zlmb-dump is about to rename, what the stream will be then (`After`)
  has every message that is done.  The copy has those because no server that is
  not stale writes between the copy and the rename.
- `MessagesAreWhole` (`WholeMessages`), from `WholeInv`: without faults and with
  plain messages, a message stays in its server's buffer until it is complete
  (`BuffersInv`, whose `Part` says that the buffer is not full before); the
  content is whole messages (`ContentInv`); zlmb-dump, which reads without a
  lock, finds itself at the end of a record whenever it reads and at the end of
  a message when it replaces the file (`ReaderInv`).

**`WorkerSpawnProofs`**: any number of threads, messages, frames, failures and
signals.

- About `MessageStack`: `FreeAddressIsFree` (a free address is found, by the
  pigeonhole principle), `PushListed` and `ShiftListed` (both keep the chain, and
  the data in it are what a sequence would have), `ListedHolds`.
- `TypeCorrect` and `InputIsTheMessage` (`InputMatchesEnviron`), from `SpawnInv`:
  where a thread is says what it holds (`ControlInv`); a message is in one queue
  or one thread's hands (`OwnerInv`); the list of a thread and the input of its
  command together hold the frames 1, 2, … of its message (`ListInv`).
- `EndsAreClosed` (`NoEndLeaks`), with the same invariant, and
  `CommandsAreBounded` (`OneCommandPerThread`), from `RunningInv`: a command that
  runs is the one its thread is feeding or waiting for, or was abandoned.
- `TangledForEver`: commands each of which has the write end of another's pipe,
  and none of which exits before the end of its input, run for ever, however many
  they are and whatever zlmb-worker does, its own end included.  The pipe of a
  message is made before its command runs (`FreshInv`), and nothing but its exit
  takes an end from a command.  The run `worker_knot` shows two such commands.

**`ServerStartProofs`**: any options, failures and signals, in all seven modes.

- `SetupIsUndone` (`ReturnsClean`) and `WorkersAreReported` (`WorkersReported`).
  The tables `Setup[mode]` are gone through once: each step closes and ends all
  that the steps before it have opened and started, but for the leaks the
  property names (`Undone`), and in subscribe and client-subscribe the backend is
  watched before it is bound (`WatchedFirst`).  `StartInv` then only has to say
  that what is open and running comes from the steps main has done.
- `TypeCorrect`, whatever the command line and the file are and wherever the file
  breaks off: in particular, that an option which is no list never has a second
  value.  `Arguments` and `LoadFile` are recursive functions on the arguments and
  on the parser's events, so this is induction over data.  `Induction` is stated
  of a set of numbers, because the provers cannot instantiate the library's
  theorems about an operator; it follows from `WFMin` and
  `NatLessThanWellFounded`.  `RecursionExists` and `RecursionKeeps` are what is
  needed of recursive functions.  `AssignTyped`, `LoadEventTyped` and
  `FlattenTyped` then say what one value, one event and the entries of a file do.
  `InputsAssumption` says what getopt and the YAML parser ensure: an argument is
  of a known option, one without a value stores `true`, an entry without brackets
  has a value.
- `OptionsAreMerged` (`OptionsMerged`): command line, then file, then defaults,
  but for the three flaws, for every command line and every file.
  `ArgumentsMerged` is the command line: by induction over its arguments, an
  option has the values that are given for it.  `GivenKept`: a file, whatever is
  in it, never changes an option that is given, because `zlmb_option_set` adds a
  value only to a list, and a list that is given is never the remembered key.
  `FileMerged` is the file: `Joined` cuts the parser's events into the entries
  they come from, and `Aligned` says by induction over the entries that before
  the first dropped key the loader remembers no key at the end of an entry, so
  that `EntryRead` says what it makes of the next one (`ScalarEntry`,
  `ArrayEntry`), and that the entries of other options do not touch an option
  (`Untouched`, `OthersKeep`, and `NameOrigin`: in a regular file the name of an
  option is only ever seen as its key).  `DefaultsSet` is the rest.

**Only model-checked**:

- Liveness: `StartsOrReturns`, `StartsOrEnds`, `EventuallyRelayed`,
  `EndsUnlessStuck`, `LoopTurns`, `EndsWithNextMessage`, `DumpStops`,
  `CommandReturns` and `WorkerEnds`; fairness and ENABLED are out of the prover's
  reach.  What is proved about them is the other side: that the exceptions gc, the
  knot, the missing thread and the tangled commands, once there, never go away.
- `RelaySpec` of `ClientSubscribe`.  Its backend, monitors and workers take the
  steps of the two modules about which it is proved; main does not, and the
  proof would repeat both invariants for it.
- `Unshift` and `Pop` of `MessageStack`, which zlmb-worker does not call.

## Assumptions

About ZeroMQ, as the code uses it:

- `zmq_disconnect` ends all connections made to an endpoint and fails if there
  is none; a second `zmq_connect` makes a second one.
- A message is taken whole or not at all, so that only its first frame can make
  a send wait; a frame is *sent* when it is handed to a connection.  A full
  connection, or a slow peer, is a send that is not taken yet.
- Events of one connection come in order and alternate.
- A call that waits, and only such a call, fails with EINTR.
- `zmq_ctx_destroy` waits while a socket is open; lingering messages are not
  considered.
- A PUB socket never waits; it drops whole messages for subscribers without room,
  and sends a message to those whose subscription is the beginning of its first
  frame.

About the rest: `flock` and mutexes work; `O_APPEND` writes are not mingled;
stdio writes out whole buffers when one is full and the rest at `fclose` or
exit, and does not cut the head of a record; the frames of a message fit a
pipe; memory runs out only where the modules say so (the name of a monitor's
socket, an uncompression).  Snappy puts the length of its input before it, so that
a compressed key begins another only if they are equal; a frame that does not
compress well is sent as it is.

## Not modelled

- Of the dump file, the text form, which nothing reads.  Of zlmb-worker, the
  receive-only loop without `--command`.
- Of the options, modes and dump types that the program does not know, and files
  with nested mappings.
- In `ServerStart`: `pthread_create` that fails, and the handshake of the client's
  backend in its single steps; both are in `ClientStartup`.
- In `ClientSubscribe`: Snappy and dump files that cannot be written; both are in
  the modules of the halves, where they concern one thread only.
- Messages that are still in the queue of an outer socket when a server ends (the
  code leaves them: TODO at `app_server.c` 1501): a message exists from the
  moment the program takes it.  What is in `inproc` when the backend closes it
  is counted (`discarded`); a message that main sends while the close is under
  way counts as sent before it.
- When `zmq_proxy` returns after a signal that another thread took: nothing in
  the code bounds it.
- zlmb-cli and the examples: sequential, without state.  Logging, wording,
  formatting.

## Plan

Done, in this order: `MessageRelay`, `ClientServer` with its first proofs,
`SubscribeServer`, `DumpFile`, `MessageStack`, `WorkerSpawn`, `ClientStartup`
with its proofs; then the other two modes of `SubscribeServer`,
`ClientSubscribe`, `PublishServer`, `ServerStart`, and the proofs of
`PublishServer`, of `SubscribeServer` and of the client's exact counter; then
`History` with the refinement of `MessageRelay` by the subscribe server and the
client and `Accounted`; the proofs of `WorkerSpawn` with `MessageStack`, of the
set-up and the types of the options, of `DumpFile`, `SubscriptionsMatch` and
`OptionsMerged`, and that what keeps the programs from their ends is final.  Of the safety properties that runs check, `RelaySpec` of
`ClientSubscribe` is left without a theorem.  The receive-only loop of zlmb-worker
is not modelled.
