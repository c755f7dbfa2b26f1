----------------------------- MODULE ServerStart -----------------------------
(***************************************************************************)
(* zlmb-server from main to the loop of its mode (src/src/app_server.c,    *)
(* src/src/option.c): the options of the command line and of the YAML      *)
(* file, then the sockets and threads, in the order each mode sets them    *)
(* up, and what it undoes when a step fails.                               *)
(*                                                                         *)
(* The handshake of the client's backend is ClientStartup, here it is one  *)
(* step; that the backend ends once it is interrupted is what ClientServer *)
(* is about.  Options have a sequence of values, empty if they are unset.  *)
(***************************************************************************)
EXTENDS Naturals, Sequences, FiniteSets

Seqs == INSTANCE SequencesExt

CONSTANTS
  Inputs,      \* what zlmb-server is started with: records of arguments
               \* args, the entries of the file, and where the file breaks off
  Strings,     \* the strings they are made of
  MaxFailures, \* bound: calls that fail during the set-up
  MaxSignals   \* bound: SIGINT or SIGTERM from outside

VARIABLES
  input,       \* the member of Inputs, until it is read
  option,      \* zlmb_option_t, until the server is called
  mode,        \* the mode of the server, "none" before
  mpc,         \* where main is
  step,        \* the next step of the set-up
  open,        \* main's sockets
  bpc,         \* where the client's backend thread is
  monpc,       \* where the monitor thread of the workers' socket is
  ending,      \* threads that the failed step still has to end
  watched,     \* zmq_socket_monitor was called on that socket
  missed,      \* history: a worker connected before
  handled,     \* _signals was called: before, a signal kills the process
  interrupted, \* _interrupted
  signals,     \* signals the process has received from outside
  failures     \* calls that have failed

optionVars == <<input, option, mode>>
threadVars == <<bpc, monpc>>
signalVars == <<handled, interrupted, signals>>
workerVars == <<watched, missed>>

vars == <<optionVars, mpc, step, open, threadVars, ending, workerVars,
          signalVars, failures>>

-----------------------------------------------------------------------------
(***************************************************************************)
(* Options: zlmb_option_set.                                               *)
(***************************************************************************)
Kind ==
  [mode |-> "once",
   client_frontendpoint |-> "string", client_backendpoints |-> "list",
   client_dumpfile |-> "string", client_dumptype |-> "once",
   publish_frontendpoint |-> "string", publish_backendpoint |-> "string",
   publish_key |-> "string", publish_sendkey |-> "boolean",
   subscribe_frontendpoints |-> "list", subscribe_backendpoint |-> "string",
   subscribe_key |-> "string", subscribe_dropkey |-> "boolean",
   subscribe_dumpfile |-> "string", subscribe_dumptype |-> "once",
   syslog |-> "boolean", verbose |-> "boolean"]

Options == DOMAIN Kind

\* getopt and the YAML parser: arguments are of known options, and a boolean's
\* is "true"; keys of the file need not be known; an entry without brackets has
\* a value.
ASSUME InputsAssumption ==
  \A in \in Inputs :
    /\ in.args \in Seq(Options \X Strings)
    /\ \A i \in DOMAIN in.args :
         Kind[in.args[i][1]] = "boolean" => in.args[i][2] = "true"
    /\ in.file \in Seq([key : Strings, array : BOOLEAN, values : Seq(Strings)])
    /\ \A i \in DOMAIN in.file : ~in.file[i].array => in.file[i].values # <<>>
    /\ in.end \in Nat
ASSUME StringsAssumption == {"", "default"} \subseteq Strings
ASSUME BoundsAssumption == MaxFailures \in Nat /\ MaxSignals \in Nat

Unset == [o \in Options |-> <<>>]

\* Mutant: every value is appended.
AssignAppend(opt, o, v) == [opt EXCEPT ![o] = Append(@, v)]

\* The first value stays, a list is appended to, a boolean that is not true
\* is replaced.
Assign(opt, o, v) ==
  [opt EXCEPT ![o] = CASE Kind[o] = "list"            -> Append(@, v)
                       [] Kind[o] = "boolean"
                            /\ @ # <<"true">>         -> <<v>>
                       [] Kind[o] # "list" /\ @ = <<>> -> <<v>>
                       [] OTHER                       -> @]

\* One argument of the command line: --client_dumptype sets another option.
Argument(opt, a) ==
  Assign(opt, IF a[1] = "client_dumptype" THEN "client_dumpfile" ELSE a[1],
         a[2])

-----------------------------------------------------------------------------
(***************************************************************************)
(* Options: zlmb_option_load_file.  It reads the events of the parser and  *)
(* remembers a key ("" if none) between them.                              *)
(***************************************************************************)
Scalar(v) == <<"scalar", v>>

\* The events of an entry: key and value, or key and sequence.
EventsOf(entry) ==
  <<Scalar(entry.key)>>
    \o (IF entry.array
        THEN <<<<"start">>>> \o [i \in DOMAIN entry.values |->
                                   Scalar(entry.values[i])] \o <<<<"end">>>>
        ELSE <<Scalar(entry.values[1])>>)

\* Mutant: the key of a list that is set is kept for its value.
KeyWithoutLookup(s, v) == v

\* A scalar without a key is a key, unless it is a list that is set already.
KeyOf(s, v) ==
  IF v \in Options /\ Kind[v] = "list" /\ s.option[v] # <<>> THEN "" ELSE v

\* A scalar with a key is its value.  The key stays within a sequence.
ValueOf(s, v) ==
  LET known == s.key \in Options
      again == known /\ Kind[s.key] = "once" /\ s.option[s.key] # <<>>
  IN [s EXCEPT !.option = IF known THEN Assign(@, s.key, v) ELSE @,
               !.key    = IF s.seq = 0 \/ again THEN "" ELSE @]

\* One turn of the loop.
LoadEvent(s, event) ==
  CASE event[1] = "start"  -> [s EXCEPT !.seq = @ + 1]
    [] event[1] = "end"    -> [s EXCEPT !.seq = @ - 1, !.key = ""]
    [] event[1] = "scalar" -> IF s.key = ""
                              THEN [s EXCEPT !.key = KeyOf(s, event[2])]
                              ELSE ValueOf(s, event[2])

\* The file is read up to the event at which the parser fails, if it does;
\* the caller is not told.
LoadFile(opt, file, end) ==
  LET events == Seqs!FlattenSeq([i \in DOMAIN file |-> EventsOf(file[i])])
      read   == IF end < Len(events) THEN end ELSE Len(events)
      after[i \in 0..read] ==
        IF i = 0 THEN [option |-> opt, key |-> "", seq |-> 0]
        ELSE LoadEvent(after[i - 1], events[i])
  IN after[read].option

\* The arguments of the command line, one after the other.
Arguments(opt, args) ==
  LET after[i \in 0..Len(args)] ==
        IF i = 0 THEN opt ELSE Argument(after[i - 1], args[i])
  IN after[Len(args)]

\* zlmb_option_set_default
Defaults(opt) ==
  Assign(Assign(opt, "client_dumpfile", "default"),
         "subscribe_dumpfile", "default")

\* Mutant: the file is read before the command line.
OptionsOfFileFirst(in) ==
  Defaults(Arguments(LoadFile(Unset, in.file, in.end), in.args))

\* main: the command line, the file, the defaults.
OptionsOf(in) ==
  Defaults(LoadFile(Arguments(Unset, in.args), in.file, in.end))

-----------------------------------------------------------------------------
(***************************************************************************)
(* The set-up of each mode: its steps in order, with the sockets that are  *)
(* closed and the threads that are ended if the step fails.                *)
(***************************************************************************)
Step(does, socket, closes, ends) ==
  [does |-> does, socket |-> socket, closes |-> closes, ends |-> ends]

\* _server_client, up to its backend, and _server_publish and
\* _server_client_publish.
Endpoints2 ==
  <<Step("context", "", {}, {}),
    Step("open", "frontend", {}, {}),
    Step("bind", "frontend", {"frontend"}, {}),
    Step("open", "backend", {"frontend"}, {}),
    Step("bind", "backend", {"frontend", "backend"}, {})>>

\* _server_publish_subscribe and _server_stand_alone.
BindThenMonitor ==
  Endpoints2 \o
  <<Step("name", "backend", {"frontend", "backend"}, {}),
    Step("watch", "backend", {"frontend", "backend"}, {}),
    Step("monitor", "backend", {"frontend", "backend"}, {})>>

\* Mutant: subscribe binds its backend before it is watched.
MonitorAfterBind ==
  <<Step("context", "", {}, {}),
    Step("open", "frontend", {}, {}),
    Step("subscribe", "frontend", {}, {}),
    Step("connect", "frontend", {"frontend"}, {}),
    Step("open", "backend", {"frontend"}, {}),
    Step("bind", "backend", {"frontend", "backend"}, {}),
    Step("name", "backend", {"frontend", "backend"}, {}),
    Step("watch", "backend", {"frontend", "backend"}, {}),
    Step("monitor", "backend", {"frontend", "backend"}, {})>>

\* _server_subscribe
MonitorThenBind ==
  <<Step("context", "", {}, {}),
    Step("open", "frontend", {}, {}),
    Step("subscribe", "frontend", {}, {}),
    Step("connect", "frontend", {"frontend"}, {}),
    Step("open", "backend", {"frontend"}, {}),
    Step("name", "backend", {"frontend"}, {}),
    Step("watch", "backend", {"frontend", "backend"}, {}),
    Step("monitor", "backend", {"frontend", "backend"}, {}),
    Step("bind", "backend", {"frontend", "backend"}, {"monitor"})>>

\* _server_client_subscribe: the client, up to its backend.
ClientSteps ==
  LET client == {"client_frontend", "client_backend"}
  IN <<Step("context", "", {}, {}),
       Step("open", "client_frontend", {}, {}),
       Step("bind", "client_frontend", {"client_frontend"}, {}),
       Step("open", "client_backend", {"client_frontend"}, {}),
       Step("bind", "client_backend", client, {}),
       Step("backend", "client_backend", client, {"backend"})>>

\* Then the subscribe server; its workers' socket is "backend".
ClientThenSubscribe ==
  LET client == {"client_frontend", "client_backend"}
      all    == client \cup {"frontend", "backend"}
  IN ClientSteps \o
     <<Step("open", "frontend", client, {"backend"}),
       Step("subscribe", "frontend", client, {"backend"}),
       Step("connect", "frontend", client \cup {"frontend"}, {"backend"}),
       Step("open", "backend", client \cup {"frontend"}, {"backend"}),
       Step("name", "backend", all, {"backend"}),
       Step("watch", "backend", all, {"backend"}),
       Step("monitor", "backend", all, {"backend"}),
       Step("check", "backend", all, {"backend"}),
       Step("bind", "backend", all, {"backend", "monitor"})>>

Setup ==
  [client            |-> Endpoints2,
   publish           |-> Endpoints2,
   client_publish    |-> Endpoints2,
   subscribe         |-> MonitorThenBind,
   publish_subscribe |-> BindThenMonitor,
   stand_alone       |-> BindThenMonitor,
   client_subscribe  |-> ClientThenSubscribe]

\* The options main asks for before it calls the server.
Required ==
  [client            |-> {"client_frontendpoint", "client_backendpoints"},
   publish           |-> {"publish_frontendpoint", "publish_backendpoint"},
   client_publish    |-> {"client_frontendpoint", "publish_backendpoint"},
   subscribe         |-> {"subscribe_frontendpoints", "subscribe_backendpoint"},
   publish_subscribe |-> {"publish_frontendpoint", "subscribe_backendpoint"},
   stand_alone       |-> {"client_frontendpoint", "subscribe_backendpoint"},
   client_subscribe  |-> {"client_frontendpoint", "client_backendpoints",
                          "subscribe_frontendpoints", "subscribe_backendpoint"}]

Modes == DOMAIN Setup

\* The modes with workers.
Served == {m \in Modes : \E i \in DOMAIN Setup[m] :
                           Setup[m][i].does = "watch"}

-----------------------------------------------------------------------------
TypeOK ==
  /\ option \in [Options -> Seq(Strings)]
  /\ \A o \in Options : Len(option[o]) > 1 => Kind[o] = "list"
  /\ mode \in Modes \cup {"none"}
  /\ mpc \in {"parse", "require", "setup", "end", "join", "destroy", "serve",
              "done", "killed"}
  /\ mode # "none" => step \in 1..(Len(Setup[mode]) + 1)
  /\ open \subseteq {"frontend", "backend", "client_frontend", "client_backend"}
  /\ bpc \in {"none", "signals", "loop", "done"}
  /\ monpc \in {"none", "start", "signals", "check", "recv", "done"}
  /\ ending \subseteq {"backend", "monitor"}
  /\ {watched, missed, handled, interrupted} \subseteq BOOLEAN
  /\ signals \in 0..MaxSignals /\ failures \in 0..MaxFailures

Init ==
  /\ input \in Inputs
  /\ option = Unset
  /\ mode = "none"
  /\ mpc = "parse"
  /\ step = 1
  /\ open = {}
  /\ bpc = "none" /\ monpc = "none"
  /\ ending = {}
  /\ watched = FALSE /\ missed = FALSE
  /\ handled = FALSE /\ interrupted = FALSE
  /\ signals = 0 /\ failures = 0

-----------------------------------------------------------------------------
(***************************************************************************)
(* main                                                                    *)
(***************************************************************************)
ReadOptions ==
  /\ mpc = "parse"
  /\ option' = OptionsOf(input)
  /\ mpc' = "require"
  /\ UNCHANGED <<input, mode, step, open, threadVars, ending, workerVars,
                 signalVars, failures>>

\* The server of the mode is called if the options it requires are set, and
\* its endpoints are not empty; the options are not looked at any more.
Require ==
  LET m == option["mode"]
  IN /\ mpc = "require"
     /\ \/ /\ m # <<>> /\ m[1] \in Modes
           /\ \A o \in Required[m[1]] : option[o] \notin {<<>>, <<"">>}
           /\ mode' = m[1]
           /\ mpc' = "setup"
        \/ /\ m # <<>> /\ m[1] \in Modes
                => \E o \in Required[m[1]] : option[o] \in {<<>>, <<"">>}
           /\ mode' = mode
           /\ mpc' = "done"
     /\ input' = <<>>
     /\ option' = Unset
     /\ UNCHANGED <<step, open, threadVars, ending, workerVars, signalVars,
                    failures>>

-----------------------------------------------------------------------------
(***************************************************************************)
(* The set-up.                                                             *)
(***************************************************************************)
Now == Setup[mode][step]

InSetup == mpc = "setup" /\ step <= Len(Setup[mode])

SetupSucceeds ==
  /\ InSetup
  /\ Now.does # "backend"
  /\ step' = step + 1
  /\ open' = IF Now.does = "open" THEN open \cup {Now.socket} ELSE open
  /\ watched' = (watched \/ Now.does = "watch")
  /\ monpc' = IF Now.does = "monitor" THEN "start" ELSE monpc
  /\ UNCHANGED <<optionVars, mpc, bpc, ending, missed, signalVars, failures>>

\* The backend thread has been started, and has unlocked _mutex: its sockets
\* are there, or it has ended; it, or a monitor of its, has called _signals,
\* or will.
SetupBackend ==
  /\ InSetup
  /\ Now.does = "backend"
  /\ \/ /\ bpc' = "signals"
        /\ handled' \in BOOLEAN
        /\ UNCHANGED <<interrupted, failures>>
     \/ /\ failures < MaxFailures
        /\ failures' = failures + 1
        /\ bpc' = "done"
        /\ handled' \in BOOLEAN
        /\ interrupted' = TRUE
  /\ IF interrupted' THEN mpc' = "end" /\ ending' = Now.ends /\ UNCHANGED step
     ELSE step' = step + 1 /\ UNCHANGED <<mpc, ending>>
  /\ UNCHANGED <<optionVars, open, monpc, workerVars, signals>>

\* A step fails, and what it ends and closes is undone.  The check, by
\* pthread_kill(monitor, 0), fails only if the thread has ended.
SetupFails ==
  /\ InSetup
  /\ Now.does \notin {"backend", "monitor"}
  /\ Now.does = "check" => monpc = "done"
  /\ failures < MaxFailures
  /\ failures' = failures + 1
  /\ mpc' = "end"
  /\ ending' = Now.ends
  /\ UNCHANGED <<optionVars, step, open, threadVars, workerVars, signalVars>>

\* _signals, and the loop of the mode.
Serve ==
  /\ mpc = "setup"
  /\ step > Len(Setup[mode])
  /\ mpc' = "serve"
  /\ handled' = TRUE
  /\ UNCHANGED <<optionVars, step, open, threadVars, ending, workerVars,
                 interrupted, signals, failures>>

\* The thread that is ended next, the backend first.
Ended == IF "backend" \in ending THEN "backend" ELSE "monitor"

EintrMonitor == monpc = "recv" /\ monpc' = "check"

\* Mutant: the threads are joined, but not interrupted.
EndKillForgotten ==
  /\ mpc = "end"
  /\ ending # {}
  /\ mpc' = "join"
  /\ UNCHANGED <<optionVars, step, open, threadVars, ending, workerVars,
                 signalVars, failures>>

\* pthread_kill: before any thread has called _signals, it kills the process.
EndKill ==
  LET alive == IF Ended = "backend" THEN bpc # "done" ELSE monpc # "done"
  IN /\ mpc = "end"
     /\ ending # {}
     /\ mpc' = IF alive /\ ~handled THEN "killed" ELSE "join"
     /\ interrupted' = (interrupted \/ (alive /\ handled))
     /\ (Ended = "monitor" /\ EintrMonitor) \/ UNCHANGED monpc
     /\ UNCHANGED <<optionVars, step, open, bpc, ending, workerVars, handled,
                    signals, failures>>

\* Mutant: only the backend is waited for.
EndJoinBackendOnly ==
  /\ mpc = "join"
  /\ Ended = "backend" => bpc = "done"
  /\ ending' = ending \ {Ended}
  /\ mpc' = "end"
  /\ UNCHANGED <<optionVars, step, open, threadVars, workerVars, signalVars,
                 failures>>

\* pthread_join
EndJoin ==
  /\ mpc = "join"
  /\ IF Ended = "backend" THEN bpc = "done" ELSE monpc = "done"
  /\ ending' = ending \ {Ended}
  /\ mpc' = "end"
  /\ UNCHANGED <<optionVars, step, open, threadVars, workerVars, signalVars,
                 failures>>

\* zmq_close of the sockets of the list.
EndClose ==
  /\ mpc = "end"
  /\ ending = {}
  /\ open' = open \ Now.closes
  /\ mpc' = "destroy"
  /\ UNCHANGED <<optionVars, step, threadVars, ending, workerVars, signalVars,
                 failures>>

\* zmq_ctx_destroy waits until every socket is closed.
Destroy ==
  /\ mpc = "destroy"
  /\ open = {}
  /\ mpc' = "done"
  /\ UNCHANGED <<optionVars, step, open, threadVars, ending, workerVars,
                 signalVars, failures>>

-----------------------------------------------------------------------------
(***************************************************************************)
(* The threads main has started, the workers, and signals.                 *)
(***************************************************************************)
\* The backend calls _signals, and ends once it sees _interrupted.
Backend ==
  /\ \/ /\ bpc = "signals"
        /\ bpc' = "loop"
        /\ handled' = TRUE
     \/ /\ bpc = "loop"
        /\ interrupted
        /\ bpc' = "done"
        /\ UNCHANGED handled
  /\ UNCHANGED <<optionVars, mpc, step, open, monpc, ending, workerVars,
                 interrupted, signals, failures>>

\* _socket_monitor_event: its socket, _signals, the loop.
Monitor ==
  /\ \/ /\ monpc = "start"
        /\ monpc' = "signals"
        /\ UNCHANGED <<handled, interrupted, failures>>
     \/ /\ monpc = "start"
        /\ failures < MaxFailures
        /\ failures' = failures + 1
        /\ interrupted' = TRUE
        /\ monpc' = "done"
        /\ UNCHANGED handled
     \/ /\ monpc = "signals"
        /\ monpc' = "check"
        /\ handled' = TRUE
        /\ UNCHANGED <<interrupted, failures>>
     \/ /\ monpc = "check"
        /\ monpc' = IF interrupted THEN "done" ELSE "recv"
        /\ UNCHANGED <<handled, interrupted, failures>>
  /\ UNCHANGED <<optionVars, mpc, step, open, bpc, ending, workerVars, signals>>

\* A worker connects to the socket that is bound for it; ZeroMQ reports it, to
\* the monitor thread or to whoever will be, if the socket is watched.
WorkerConnects ==
  /\ mpc \in {"setup", "serve"}
  /\ mode \in Served
  /\ \E i \in 1..(step - 1) : Setup[mode][i].does = "bind"
                                /\ Setup[mode][i].socket = "backend"
  /\ missed' = (missed \/ ~watched)
  /\ UNCHANGED <<optionVars, mpc, step, open, threadVars, ending, watched,
                 signalVars, failures>>

\* A signal makes zmq_ctx_destroy fail if it waits, and main returns.
Signal ==
  /\ mpc \notin {"parse", "require", "done", "killed"}
  /\ signals < MaxSignals
  /\ signals' = signals + 1
  /\ \/ /\ ~handled
        /\ mpc' = "killed"
        /\ UNCHANGED <<interrupted, monpc>>
     \/ /\ handled
        /\ interrupted' = TRUE
        /\ \/ UNCHANGED <<mpc, monpc>>
           \/ EintrMonitor /\ UNCHANGED mpc
           \/ mpc = "destroy" /\ open # {} /\ mpc' = "done" /\ UNCHANGED monpc
  /\ UNCHANGED <<optionVars, step, open, bpc, ending, workerVars, handled,
                 failures>>

-----------------------------------------------------------------------------
Alive == mpc \notin {"done", "killed"}

\* Every step of main, once it has its options.
MainStep ==
  \/ Require
  \/ SetupSucceeds \/ SetupBackend \/ SetupFails \/ Serve
  \/ EndKill \/ EndJoin \/ EndClose \/ Destroy

Next ==
  \/ ReadOptions \/ MainStep
  \/ Alive /\ Backend
  \/ Alive /\ Monitor
  \/ WorkerConnects
  \/ Signal

Spec == Init /\ [][Next]_vars

\* Threads run if they can.
FairSpec ==
  Spec /\ WF_vars(MainStep) /\ WF_vars(Alive /\ Backend)
       /\ WF_vars(Alive /\ Monitor)

-----------------------------------------------------------------------------
(***************************************************************************)
(* What the options promise.                                               *)
(***************************************************************************)
Given(args, o) == \E i \in DOMAIN args : args[i][1] = o

\* The values the command line gives an option, in order.
ValuesOf(args, o) ==
  LET of[i \in 0..Len(args)] ==
        IF i = 0 THEN <<>>
        ELSE IF args[i][1] = o THEN Append(of[i - 1], args[i][2])
        ELSE of[i - 1]
  IN of[Len(args)]

EntriesOf(file, o) == {i \in DOMAIN file : file[i].key = o}

\* A file as it should be: each key is there once, an option has a sequence of
\* values only if it is a list, and no value is the name of an option.
Regular(file) ==
  /\ \A i, j \in DOMAIN file : file[i].key = file[j].key => i = j
  /\ \A i \in DOMAIN file :
       /\ file[i].key # ""
       /\ IF file[i].array
          THEN file[i].key \in Options => Kind[file[i].key] = "list"
          ELSE Len(file[i].values) = 1
       /\ \A v \in DOMAIN file[i].values : file[i].values[v] \notin Options

\* The scalar form of a list that the command line has given: its key is
\* dropped.
Dropped(args, entry) ==
  /\ ~entry.array
  /\ entry.key \in Options
  /\ Kind[entry.key] = "list"
  /\ Given(args, entry.key)

\* The entries that are read as they are meant: the file does not break off
\* before their end, and no dropped entry stands before them.
IsRead(in, i) ==
  /\ Len(Seqs!FlattenSeq([j \in 1..i |-> EventsOf(in.file[j])])) <= in.end
  /\ \A j \in 1..i : ~Dropped(in.args, in.file[j])

\* What the options are to be: those of the command line have priority, then
\* comes the file, then the defaults.
Wanted(in, o) ==
  CASE Given(in.args, o) -> IF Kind[o] = "list" THEN ValuesOf(in.args, o)
                            ELSE <<ValuesOf(in.args, o)[1]>>
    [] ~Given(in.args, o) /\ EntriesOf(in.file, o) # {}
                         -> in.file[CHOOSE i \in EntriesOf(in.file, o) :
                                      TRUE].values
    [] OTHER             -> IF o \in {"client_dumpfile", "subscribe_dumpfile"}
                            THEN <<"default">> ELSE <<>>

\* The options are what the command line and the file say, but for three
\* things: --client_dumptype, which sets the dump file; what comes in a file
\* after the scalar form of a list that is given on the command line, because
\* its value is taken for a key; and what comes after an error in the file.
\* An option of the command line is never changed by a file, whatever is in it.
Merged(in, opt) ==
  \A o \in Options :
    \/ opt[o] = Wanted(in, o)
    \/ o \in {"client_dumptype", "client_dumpfile"}
         /\ Given(in.args, "client_dumptype")
    \/ /\ ~Given(in.args, o)
       /\ Regular(in.file) => \E i \in EntriesOf(in.file, o) : ~IsRead(in, i)

\* The options main looks at are merged.
OptionsMerged == mpc = "require" => Merged(input, option)

-----------------------------------------------------------------------------
(***************************************************************************)
(* What the set-up promises.                                               *)
(***************************************************************************)
\* When the context is destroyed no thread uses it any more, and every socket
\* is closed, but for the frontend whose subscription fails, and subscribe's
\* backend if there is no memory for the name of its monitor.
ReturnsClean ==
  mpc = "destroy" =>
    /\ bpc \in {"none", "done"} /\ monpc \in {"none", "done"}
    /\ open # {} => \/ Now.does = "subscribe"
                    \/ mode = "subscribe" /\ Now.does = "name"

\* No worker connects before its connection is reported, in subscribe and
\* client-subscribe.  In publish-subscribe and stand-alone it can: the server
\* does not count that worker, and dumps what it could send.
WorkersReported == missed => mode \in {"publish_subscribe", "stand_alone"}

\* A server that is called starts or returns, but for two reasons not to: a
\* socket that was not closed, and a monitor thread that took its signal
\* outside the receive it waits in; and a signal, also its own, can kill it.
StartsOrReturns ==
  (mpc = "setup") ~>
    \/ mpc \in {"serve", "done", "killed"}
    \/ [](mpc = "destroy" /\ open # {})
    \/ [](mpc = "join" /\ monpc = "recv")
=============================================================================
