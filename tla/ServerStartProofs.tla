------------------------- MODULE ServerStartProofs -------------------------
(***************************************************************************)
(* The set-up of zlmb-server, and what it undoes when a step fails, proved *)
(* for any number of failures and signals and whatever the options are.    *)
(*                                                                         *)
(* First the tables: what each step of each mode closes and ends is        *)
(* compared with what the steps before it have opened and started.  The    *)
(* invariant then only says that main has done the steps before this one.  *)
(***************************************************************************)
EXTENDS WellFoundedInduction, Integers, TLAPS, ServerStart

\* A step before the k-th of s does this.
Has(s, k, does) == \E i \in 1..(k - 1) : s[i].does = does

\* If the k-th step of s fails, what the steps before it have opened is closed,
\* unless it does one of leaks, and what they have started is ended; that the
\* step which only checks a thread has failed means that the thread has ended.
Undone(s, leaks) ==
  \A k \in 1..Len(s) :
    /\ \A i \in 1..(k - 1) :
         s[i].does = "open" =>
           s[i].socket \in s[k].closes \/ s[k].does \in leaks
    /\ s[k].does = "backend" \/ Has(s, k, "backend") => "backend" \in s[k].ends
    /\ Has(s, k, "monitor") => "monitor" \in s[k].ends \/ s[k].does = "check"

\* The workers' socket is watched before they can connect.
WatchedFirst(s) ==
  \A k \in 1..Len(s) :
    s[k].does = "bind" /\ s[k].socket = "backend" => Has(s, k, "watch")

\* The steps by which main leaves a socket open.
Leaks(m) == IF m = "subscribe" THEN {"subscribe", "name"} ELSE {"subscribe"}

-----------------------------------------------------------------------------
(***************************************************************************)
(* The tables.  What each of them undoes is found by going through it.     *)
(***************************************************************************)
\* _server_client, _server_publish, _server_client_publish.
LEMMA Endpoints2Undone == Undone(Endpoints2, {"subscribe"})
<1> DEFINE s == Endpoints2
           both == {"frontend", "backend"}
<1>1. /\ Len(s) = 5
      /\ s[1].does = "context"
      /\ s[2].does = "open" /\ s[2].socket = "frontend"
      /\ s[3].does = "bind" /\ s[3].closes = {"frontend"}
      /\ s[4].does = "open" /\ s[4].socket = "backend"
      /\ s[4].closes = {"frontend"}
      /\ s[5].does = "bind" /\ s[5].closes = both
  BY DEF Endpoints2, Step
<1> HIDE DEF s
<1>2. ASSUME NEW k \in 1..5
      PROVE  /\ s[k].does \notin {"backend", "monitor"}
             /\ s[k].does = "open" => k = 2 \/ k = 4
             /\ k > 2 => s[2].socket \in s[k].closes
             /\ k > 4 => s[4].socket \in s[k].closes
  <2>1. k = 1 \/ k = 2 \/ k = 3 \/ k = 4 \/ k = 5
    OBVIOUS
  <2> QED BY <1>1, <2>1
<1> QED BY <1>1, <1>2 DEF Undone, Has, s

\* _server_publish_subscribe, _server_stand_alone.
LEMMA BindThenMonitorUndone == Undone(BindThenMonitor, {"subscribe"})
<1> DEFINE s == BindThenMonitor
           both == {"frontend", "backend"}
<1>1. Len(s) = 8
  BY DEF BindThenMonitor, Endpoints2
<1>2. Endpoints2[1].does = "context"
  BY DEF Endpoints2, Step
<1>3. s[1] = Endpoints2[1]
  BY DEF BindThenMonitor, Endpoints2
<1>4. /\ s[2].does = "open" /\ s[2].socket = "frontend"
      /\ s[3].does = "bind" /\ s[3].closes = {"frontend"}
      /\ s[4].does = "open" /\ s[4].socket = "backend"
      /\ s[4].closes = {"frontend"}
  BY DEF BindThenMonitor, Endpoints2, Step
<1>5. /\ s[5].does = "bind" /\ s[5].closes = both
      /\ s[6].does = "name" /\ s[6].closes = both
      /\ s[7].does = "watch" /\ s[7].closes = both
      /\ s[8].does = "monitor" /\ s[8].closes = both
  BY DEF BindThenMonitor, Endpoints2, Step
<1> HIDE DEF s
<1>6. ASSUME NEW k \in 1..8
      PROVE  /\ s[k].does # "backend" /\ (s[k].does = "monitor" => k = 8)
             /\ s[k].does = "open" => k = 2 \/ k = 4
             /\ k > 2 => s[2].socket \in s[k].closes
             /\ k > 4 => s[4].socket \in s[k].closes
  <2>1. \/ k = 1 \/ k = 2 \/ k = 3 \/ k = 4 \/ k = 5
        \/ k = 6 \/ k = 7 \/ k = 8
    OBVIOUS
  <2> QED BY <1>1, <1>2, <1>3, <1>4, <1>5, <2>1
<1> QED BY <1>1, <1>2, <1>3, <1>4, <1>6 DEF Undone, Has, s

\* _server_subscribe.
LEMMA MonitorThenBindUndone ==
  /\ Undone(MonitorThenBind, {"subscribe", "name"})
  /\ WatchedFirst(MonitorThenBind)
<1> DEFINE s == MonitorThenBind
           both == {"frontend", "backend"}
<1>1. /\ Len(s) = 9
      /\ s[1].does = "context"
      /\ s[2].does = "open" /\ s[2].socket = "frontend"
      /\ s[3].does = "subscribe"
      /\ s[4].does = "connect" /\ s[4].closes = {"frontend"}
      /\ s[5].does = "open" /\ s[5].socket = "backend"
      /\ s[5].closes = {"frontend"}
      /\ s[6].does = "name"
      /\ s[7].does = "watch" /\ s[7].closes = both
      /\ s[8].does = "monitor" /\ s[8].closes = both
      /\ s[9].does = "bind" /\ s[9].closes = both /\ s[9].ends = {"monitor"}
  BY DEF MonitorThenBind, Step
<1> HIDE DEF s
<1>2. ASSUME NEW k \in 1..9
      PROVE  /\ s[k].does # "backend" /\ (s[k].does = "monitor" => k = 8)
             /\ s[k].does = "open" => k = 2 \/ k = 5
             /\ k > 2 => s[2].socket \in s[k].closes
                           \/ s[k].does \in {"subscribe", "name"}
             /\ k > 5 => s[5].socket \in s[k].closes \/ s[k].does = "name"
             /\ k > 8 => "monitor" \in s[k].ends
             /\ s[k].does = "bind" => k = 9
  <2>1. \/ k = 1 \/ k = 2 \/ k = 3 \/ k = 4 \/ k = 5
        \/ k = 6 \/ k = 7 \/ k = 8 \/ k = 9
    OBVIOUS
  <2> QED BY <1>1, <2>1
<1>3. Undone(s, {"subscribe", "name"})
  BY <1>1, <1>2 DEF Undone, Has
<1>4. WatchedFirst(s)
  BY <1>1, <1>2 DEF WatchedFirst, Has
<1> QED BY <1>3, <1>4 DEF s

\* _server_client_subscribe.
LEMMA ClientThenSubscribeUndone ==
  /\ Undone(ClientThenSubscribe, {"subscribe"})
  /\ WatchedFirst(ClientThenSubscribe)
<1> DEFINE s == ClientThenSubscribe
           client == {"client_frontend", "client_backend"}
           all == client \cup {"frontend", "backend"}
<1>1. Len(s) = 15
  BY DEF ClientThenSubscribe, ClientSteps
<1>2. ClientSteps[1].does = "context"
  BY DEF ClientSteps, Step
<1>3. s[1] = ClientSteps[1]
  BY DEF ClientThenSubscribe, ClientSteps
<1>4. /\ s[2].does = "open" /\ s[2].socket = "client_frontend"
      /\ s[3].does = "bind" /\ s[3].closes = {"client_frontend"}
      /\ s[4].does = "open" /\ s[4].socket = "client_backend"
      /\ s[4].closes = {"client_frontend"}
      /\ s[5].does = "bind" /\ s[5].closes = client
  BY DEF ClientThenSubscribe, ClientSteps, Step
<1>5. /\ s[5].socket = "client_backend" /\ s[3].socket = "client_frontend"
      /\ s[6].does = "backend" /\ s[6].closes = client
      /\ s[7].does = "open" /\ s[7].socket = "frontend"
      /\ s[7].closes = client
      /\ s[8].does = "subscribe"
  BY DEF ClientThenSubscribe, ClientSteps, Step
<1>6. /\ s[8].closes = client
      /\ s[9].does = "connect" /\ s[9].closes = client \cup {"frontend"}
      /\ s[10].does = "open" /\ s[10].socket = "backend"
      /\ s[10].closes = client \cup {"frontend"}
      /\ s[11].does = "name" /\ s[11].closes = all
      /\ s[12].does = "watch" /\ s[12].closes = all
      /\ s[13].does = "monitor" /\ s[13].closes = all
      /\ s[14].does = "check" /\ s[14].closes = all
      /\ s[15].does = "bind" /\ s[15].closes = all
  BY DEF ClientThenSubscribe, ClientSteps, Step
<1>7. /\ s[6].ends = {"backend"} /\ s[7].ends = {"backend"}
      /\ s[8].ends = {"backend"} /\ s[9].ends = {"backend"}
      /\ s[10].ends = {"backend"} /\ s[11].ends = {"backend"}
      /\ s[12].ends = {"backend"} /\ s[13].ends = {"backend"}
      /\ s[14].ends = {"backend"} /\ s[15].ends = {"backend", "monitor"}
  BY DEF ClientThenSubscribe, ClientSteps, Step
<1> HIDE DEF s
<1>8. ASSUME NEW k \in 1..15
      PROVE  \/ k = 1 \/ k = 2 \/ k = 3 \/ k = 4 \/ k = 5 \/ k = 6 \/ k = 7
             \/ k = 8 \/ k = 9 \/ k = 10 \/ k = 11 \/ k = 12 \/ k = 13
             \/ k = 14 \/ k = 15
  OBVIOUS
<1>9. ASSUME NEW k \in 1..15
      PROVE  /\ s[k].does = "backend" => k = 6
             /\ s[k].does = "monitor" => k = 13
             /\ s[k].does = "open" => k \in {2, 4, 7, 10}
             /\ s[k].does = "bind" => k \in {3, 5, 15}
  BY <1>1, <1>2, <1>3, <1>4, <1>5, <1>6, <1>8
<1>10. ASSUME NEW k \in 1..15
      PROVE  /\ k > 2 => s[2].socket \in s[k].closes
             /\ k > 4 => s[4].socket \in s[k].closes
             /\ k > 7 => s[7].socket \in s[k].closes \/ s[k].does = "subscribe"
             /\ k > 10 => s[10].socket \in s[k].closes
  BY <1>1, <1>2, <1>3, <1>4, <1>5, <1>6, <1>8
<1>11. ASSUME NEW k \in 1..15
      PROVE  /\ k >= 6 => "backend" \in s[k].ends
             /\ k > 13 => "monitor" \in s[k].ends \/ s[k].does = "check"
  BY <1>6, <1>7, <1>8
<1>12. Undone(s, {"subscribe"})
  BY <1>1, <1>2, <1>3, <1>4, <1>5, <1>9, <1>10, <1>11 DEF Undone, Has
<1>13. WatchedFirst(s)
  BY <1>1, <1>2, <1>3, <1>4, <1>5, <1>6, <1>9 DEF WatchedFirst, Has
<1> QED BY <1>12, <1>13 DEF s

\* The same of each mode.
LEMMA SetupUndone ==
  ASSUME NEW m \in Modes
  PROVE  /\ Undone(Setup[m], Leaks(m))
         /\ m \in Served \ {"publish_subscribe", "stand_alone"} =>
              WatchedFirst(Setup[m])
         /\ Len(Setup[m]) \in Nat
<1>1. m \in {"client", "publish", "client_publish", "subscribe",
             "publish_subscribe", "stand_alone", "client_subscribe"}
  BY DEF Modes, Setup
<1>2. CASE m \in {"client", "publish", "client_publish"}
  <2>1. Setup[m] = Endpoints2
    BY <1>2 DEF Setup
  <2>2. Len(Endpoints2) = 5 /\ \A i \in 1..5 : Endpoints2[i].does # "watch"
    <3>1. /\ Endpoints2[1].does = "context" /\ Endpoints2[2].does = "open"
          /\ Endpoints2[3].does = "bind" /\ Endpoints2[4].does = "open"
          /\ Endpoints2[5].does = "bind" /\ Len(Endpoints2) = 5
      BY DEF Endpoints2, Step
    <3>2. \A i \in 1..5 : i = 1 \/ i = 2 \/ i = 3 \/ i = 4 \/ i = 5
      OBVIOUS
    <3> QED BY <3>1, <3>2
  <2>3. DOMAIN Endpoints2 = 1..5
    BY DEF Endpoints2
  <2>4. m \notin Served
    BY <2>1, <2>2, <2>3 DEF Served
  <2> QED BY <1>2, <2>1, <2>2, <2>4, Endpoints2Undone DEF Leaks
<1>3. CASE m \in {"publish_subscribe", "stand_alone"}
  <2>1. Setup[m] = BindThenMonitor
    BY <1>3 DEF Setup
  <2> QED BY <1>3, <2>1, BindThenMonitorUndone DEF Leaks
<1>4. CASE m = "subscribe"
  <2>1. Setup[m] = MonitorThenBind
    BY <1>4 DEF Setup
  <2> QED BY <1>4, <2>1, MonitorThenBindUndone DEF Leaks
<1>5. CASE m = "client_subscribe"
  <2>1. Setup[m] = ClientThenSubscribe
    BY <1>5 DEF Setup
  <2> QED BY <1>5, <2>1, ClientThenSubscribeUndone
          DEF Leaks
<1> QED BY <1>1, <1>2, <1>3, <1>4, <1>5

-----------------------------------------------------------------------------
(***************************************************************************)
(* The invariant.                                                          *)
(***************************************************************************)
\* A step that main has done does this.
Did(does) == Has(Setup[mode], step, does)

\* Main is at a step of its mode, and past the last one only if none failed.
ControlInv ==
  /\ mpc \in {"parse", "require"} =>
       mode = "none" /\ step = 1 /\ open = {} /\ bpc = "none" /\ monpc = "none"
  /\ mpc \in {"setup", "end", "join", "destroy", "serve"} =>
       mode \in Modes /\ step \in 1..(Len(Setup[mode]) + 1)
  /\ mpc \in {"end", "join", "destroy"} => step <= Len(Setup[mode])

\* What is open has been opened by a step that main has done.
OpenInv ==
  mpc \in {"setup", "end", "join"} =>
    \A x \in open : \E i \in 1..(step - 1) :
      Setup[mode][i].does = "open" /\ Setup[mode][i].socket = x

\* A thread has been started by a step that main has done, and is ended if a
\* step fails before it has ended.
ThreadInv ==
  /\ mpc = "setup" =>
       (bpc # "none" => Did("backend")) /\ (monpc # "none" => Did("monitor"))
  /\ mpc \in {"end", "join"} =>
       /\ bpc \notin {"none", "done"} => "backend" \in ending
       /\ monpc \notin {"none", "done"} => "monitor" \in ending

\* The workers' socket is watched as soon as main has done so.
WatchInv == mpc \in {"setup", "serve"} /\ Did("watch") => watched

StartInv ==
  /\ ControlInv /\ OpenInv /\ ThreadInv /\ WatchInv
  /\ ReturnsClean /\ WorkersReported

-----------------------------------------------------------------------------
(***************************************************************************)
(* Every step preserves it.                                                *)
(***************************************************************************)
\* What has been done is what was done before, and the last step.
LEMMA HasNext ==
  ASSUME NEW s, NEW k \in Nat \ {0}
  PROVE  \A does : Has(s, k + 1, does) <=> Has(s, k, does) \/ s[k].does = does
<1> SUFFICES ASSUME NEW does
             PROVE  Has(s, k + 1, does) <=> Has(s, k, does) \/ s[k].does = does
  OBVIOUS
<1>1. 1..(k + 1 - 1) = (1..(k - 1)) \cup {k}
  OBVIOUS
<1> QED BY <1>1 DEF Has

\* main has no sockets and no threads when it starts.
LEMMA InitInv == Init => StartInv
BY DEF Init, StartInv, ControlInv, OpenInv, ThreadInv, WatchInv, ReturnsClean,
       WorkersReported, Modes

\* What the options are decides which mode is set up, and no more.
LEMMA OptionsKeep ==
  ASSUME StartInv, ReadOptions \/ Require
  PROVE  StartInv'
<1> USE DEF StartInv, ControlInv
<1>1. CASE ReadOptions
  BY <1>1 DEF ReadOptions, OpenInv, ThreadInv, WatchInv, ReturnsClean,
              WorkersReported, workerVars, threadVars, Did
<1>2. CASE Require
  <2>1. mpc' \in {"setup", "done"} /\ (mpc' = "setup" => mode' \in Modes)
    BY <1>2 DEF Require
  <2>2. /\ step' = 1 /\ open' = {} /\ bpc' = "none" /\ monpc' = "none"
        /\ missed' = missed /\ watched' = watched
    BY <1>2 DEF Require, threadVars, workerVars
  <2>3. ~ \E i \in 1..(1 - 1) : TRUE
    OBVIOUS
  <2>4. ~missed \/ mode' \in {"publish_subscribe", "stand_alone"}
    BY <1>2 DEF Require, WorkersReported, Modes
  <2>5. mpc' = "setup" => 1 \in 1..(Len(Setup[mode'])+1)
    BY <2>1, SetupUndone
  <2>6. ControlInv'
    BY <2>1, <2>2, <2>5
  <2>7. OpenInv' /\ ThreadInv' /\ WatchInv'
    BY <2>1, <2>2, <2>3 DEF OpenInv, ThreadInv, WatchInv, Did, Has
  <2>8. ReturnsClean' /\ WorkersReported'
    BY <2>1, <2>2, <2>4 DEF ReturnsClean, WorkersReported
  <2> QED BY <2>6, <2>7, <2>8
<1> QED BY <1>1, <1>2

\* What is known of main's step while it sets up, or undoes what it has.
LEMMA AtStep ==
  ASSUME StartInv, mpc \in {"setup", "end", "join", "destroy"},
         step <= Len(Setup[mode])
  PROVE  /\ mode \in Modes /\ step \in Nat \ {0}
         /\ step \in 1..Len(Setup[mode]) /\ Len(Setup[mode]) \in Nat
         /\ \A i \in 1..(step - 1) :
              Setup[mode][i].does = "open" =>
                Setup[mode][i].socket \in Now.closes \/ Now.does \in Leaks(mode)
         /\ Now.does = "backend" \/ Did("backend") => "backend" \in Now.ends
         /\ Did("monitor") => "monitor" \in Now.ends \/ Now.does = "check"
<1>1. mode \in Modes /\ step \in 1..(Len(Setup[mode]) + 1)
  BY DEF StartInv, ControlInv
<1>2. Undone(Setup[mode], Leaks(mode)) /\ Len(Setup[mode]) \in Nat
  BY <1>1, SetupUndone
<1>3. step \in 1..Len(Setup[mode])
  BY <1>1, <1>2
<1> QED BY <1>1, <1>2, <1>3 DEF Undone, Now, Did

\* A step that succeeds is one more that is done.
LEMMA SucceedKeeps ==
  ASSUME StartInv, SetupSucceeds
  PROVE  StartInv'
<1> DEFINE s == Setup[mode]
<1>1. /\ mpc = "setup" /\ step <= Len(s) /\ mpc' = mpc /\ mode' = mode
      /\ step' = step + 1 /\ bpc' = bpc /\ missed' = missed
      /\ ending' = ending
  BY DEF SetupSucceeds, InSetup, optionVars
<1>2. /\ mode \in Modes /\ step \in Nat \ {0}
      /\ step \in 1..Len(s) /\ Len(s) \in Nat
  BY <1>1, AtStep
<1>3. \A does : Has(s, step + 1, does) <=>
                  Has(s, step, does) \/ s[step].does = does
  <2> HIDE DEF s
  <2> QED BY <1>2, HasNext
<1>4. ControlInv'
  BY <1>1, <1>2 DEF ControlInv
<1>5. OpenInv'
  <2> SUFFICES ASSUME NEW x \in open'
               PROVE  \E i \in 1..step : s[i].does = "open" /\ s[i].socket = x
    BY <1>1, <1>2 DEF OpenInv
  <2>1. x \in open \/ (s[step].does = "open" /\ x = s[step].socket)
    BY DEF SetupSucceeds, Now
  <2>2. CASE x \in open
    BY <2>2, <1>1, <1>2 DEF OpenInv, StartInv
  <2>3. CASE s[step].does = "open" /\ x = s[step].socket
    BY <2>3, <1>2
  <2> QED BY <2>1, <2>2, <2>3
<1>6. ThreadInv'
  <2>1. bpc' # "none" => Did("backend")
    BY <1>1 DEF StartInv, ThreadInv
  <2>2. monpc' # "none" => Did("monitor") \/ s[step].does = "monitor"
    BY <1>1 DEF StartInv, ThreadInv, SetupSucceeds, Now
  <2> QED BY <1>1, <1>3, <2>1, <2>2 DEF ThreadInv, Did
<1>7. WatchInv'
  <2>1. Did("watch") => watched
    BY <1>1 DEF StartInv, WatchInv
  <2>2. watched' = (watched \/ s[step].does = "watch")
    BY DEF SetupSucceeds, Now
  <2> QED BY <1>1, <1>3, <2>1, <2>2 DEF WatchInv, Did
<1>8. ReturnsClean' /\ WorkersReported'
  BY <1>1 DEF ReturnsClean, WorkersReported, StartInv
<1> QED BY <1>4, <1>5, <1>6, <1>7, <1>8 DEF StartInv

\* The backend thread has started, or it has failed and is ended.
LEMMA BackendStarts ==
  ASSUME StartInv, SetupBackend
  PROVE  StartInv'
<1> DEFINE s == Setup[mode]
<1>1. /\ mpc = "setup" /\ step <= Len(s) /\ mode' = mode /\ open' = open
      /\ s[step].does = "backend" /\ missed' = missed /\ watched' = watched
      /\ monpc' = monpc
  BY DEF SetupBackend, InSetup, optionVars, workerVars, Now
<1>2. \/ mpc' = "end" /\ ending' = Now.ends /\ step' = step
      \/ mpc' = mpc /\ ending' = ending /\ step' = step + 1
  BY DEF SetupBackend
<1>3. /\ mode \in Modes /\ step \in Nat \ {0}
      /\ step \in 1..Len(s) /\ Len(s) \in Nat
  BY <1>1, AtStep
<1>4. WorkersReported' /\ ReturnsClean'
  BY <1>1, <1>2 DEF StartInv, WorkersReported, ReturnsClean
<1>5. \A x \in open : \E i \in 1..(step - 1) :
        s[i].does = "open" /\ s[i].socket = x
  BY <1>1 DEF StartInv, OpenInv
<1>6. CASE mpc' = "end" /\ ending' = Now.ends /\ step' = step
  <2>1. ControlInv' /\ OpenInv' /\ WatchInv'
    BY <1>1, <1>3, <1>5, <1>6 DEF ControlInv, OpenInv, WatchInv
  <2>2. "backend" \in Now.ends /\ (Did("monitor") => "monitor" \in Now.ends)
    BY <1>1, AtStep DEF Now
  <2>3. ThreadInv'
    BY <1>1, <1>6, <2>2 DEF ThreadInv, StartInv
  <2> QED BY <2>1, <2>3, <1>4 DEF StartInv
<1>7. CASE mpc' = mpc /\ ending' = ending /\ step' = step + 1
  <2>1. \A does : Has(s, step + 1, does) <=>
                    Has(s, step, does) \/ s[step].does = does
    <3> HIDE DEF s
    <3> QED BY <1>3, HasNext
  <2>2. ControlInv'
    BY <1>1, <1>3, <1>7 DEF ControlInv
  <2>3. OpenInv'
    BY <1>1, <1>3, <1>5, <1>7 DEF OpenInv
  <2>4. WatchInv'
    BY <1>1, <1>7, <2>1 DEF WatchInv, StartInv, Did
  <2>5. monpc # "none" => Did("monitor")
    BY <1>1 DEF StartInv, ThreadInv
  <2>6. ThreadInv'
    BY <1>1, <1>7, <2>1, <2>5 DEF ThreadInv, Did
  <2> QED BY <2>2, <2>3, <2>4, <2>6, <1>4 DEF StartInv
<1> QED BY <1>2, <1>6, <1>7

\* What a step that fails ends is what was started.
LEMMA FailKeeps ==
  ASSUME StartInv, SetupFails
  PROVE  StartInv'
<1>1. /\ mpc = "setup" /\ step <= Len(Setup[mode]) /\ mpc' = "end"
      /\ mode' = mode /\ open' = open /\ step' = step /\ bpc' = bpc
      /\ monpc' = monpc /\ missed' = missed /\ watched' = watched
      /\ ending' = Now.ends /\ (Now.does = "check" => monpc = "done")
  BY DEF SetupFails, InSetup, optionVars, workerVars, threadVars
<1>2. ControlInv' /\ OpenInv' /\ WatchInv'
  BY <1>1 DEF StartInv, ControlInv, OpenInv, WatchInv
<1>3. bpc # "none" => "backend" \in Now.ends
  BY <1>1, AtStep DEF StartInv, ThreadInv
<1>4. monpc \notin {"none", "done"} => "monitor" \in Now.ends
  BY <1>1, AtStep DEF StartInv, ThreadInv
<1>5. ThreadInv'
  BY <1>1, <1>3, <1>4 DEF ThreadInv
<1>6. ReturnsClean' /\ WorkersReported'
  BY <1>1 DEF StartInv, ReturnsClean, WorkersReported
<1> QED BY <1>2, <1>5, <1>6 DEF StartInv

\* The loop of the mode, and the steps that end the threads.
LEMMA EndKeeps ==
  ASSUME StartInv, Serve \/ EndKill \/ EndJoin
  PROVE  StartInv'
<1>1. /\ mode' = mode /\ open' = open /\ step' = step /\ bpc' = bpc
      /\ missed' = missed /\ watched' = watched
  BY DEF Serve, EndKill, EndJoin, optionVars, workerVars, threadVars
<1>2. CASE Serve
  BY <1>1, <1>2 DEF Serve, StartInv, ControlInv, OpenInv, ThreadInv, WatchInv,
                    ReturnsClean, WorkersReported, Did
<1>3. CASE EndKill
  <2>1. mpc = "end" /\ mpc' \in {"killed", "join"} /\ ending' = ending
    BY <1>3 DEF EndKill
  <2>2. monpc' = monpc \/ (monpc = "recv" /\ monpc' = "check")
    BY <1>3 DEF EndKill, EintrMonitor
  <2> QED BY <1>1, <2>1, <2>2
          DEF StartInv, ControlInv, OpenInv, ThreadInv, WatchInv,
              ReturnsClean, WorkersReported
<1>4. CASE EndJoin
  <2>1. /\ mpc = "join" /\ mpc' = "end" /\ monpc' = monpc
        /\ \/ Ended = "backend" /\ bpc = "done"
           \/ Ended = "monitor" /\ monpc = "done"
        /\ ending' = ending \ {Ended}
    BY <1>4 DEF EndJoin, threadVars, Ended
  <2>2. ThreadInv'
    BY <1>1, <2>1 DEF StartInv, ThreadInv
  <2>3. /\ ControlInv' /\ OpenInv' /\ WatchInv'
        /\ ReturnsClean' /\ WorkersReported'
    BY <1>1, <2>1 DEF StartInv, ControlInv, OpenInv, WatchInv, ReturnsClean,
                      WorkersReported
  <2> QED BY <2>2, <2>3 DEF StartInv
<1> QED BY <1>2, <1>3, <1>4

\* What is still open once the list is closed was not in it.
LEMMA CloseKeeps ==
  ASSUME StartInv, EndClose \/ Destroy
  PROVE  StartInv'
<1>1. CASE EndClose
  <2>1. /\ mpc = "end" /\ mpc' = "destroy" /\ ending = {}
        /\ mode' = mode /\ step' = step /\ bpc' = bpc /\ monpc' = monpc
        /\ missed' = missed /\ watched' = watched /\ open' = open \ Now.closes
    BY <1>1 DEF EndClose, optionVars, workerVars, threadVars
  <2>2. ControlInv' /\ OpenInv' /\ ThreadInv' /\ WatchInv' /\ WorkersReported'
    BY <2>1 DEF StartInv, ControlInv, OpenInv, ThreadInv, WatchInv,
                WorkersReported
  <2>3. bpc \in {"none", "done"} /\ monpc \in {"none", "done"}
    BY <2>1 DEF StartInv, ThreadInv
  <2>4. open' # {} => Now.does \in Leaks(mode)
    <3>1. step <= Len(Setup[mode])
      BY <2>1 DEF StartInv, ControlInv
    <3>2. \A i \in 1..(step - 1) :
            Setup[mode][i].does = "open" =>
              Setup[mode][i].socket \in Now.closes \/ Now.does \in Leaks(mode)
      BY <2>1, <3>1, AtStep
    <3>3. SUFFICES ASSUME NEW x \in open \ Now.closes
                   PROVE  Now.does \in Leaks(mode)
      BY <2>1
    <3>4. PICK i \in 1..(step - 1) :
            Setup[mode][i].does = "open" /\ Setup[mode][i].socket = x
      BY <2>1 DEF StartInv, OpenInv
    <3> QED BY <3>2, <3>3, <3>4
  <2>5. ReturnsClean'
    BY <2>1, <2>3, <2>4 DEF ReturnsClean, Leaks, Now
  <2> QED BY <2>2, <2>5 DEF StartInv
<1>2. CASE Destroy
  BY <1>2 DEF Destroy, StartInv, ControlInv, OpenInv, ThreadInv, WatchInv,
              ReturnsClean, WorkersReported, optionVars, workerVars, threadVars
<1> QED BY <1>1, <1>2

\* A thread that is not there, or has ended, takes no step.
LEMMA ThreadsKeep ==
  ASSUME StartInv, Backend \/ Monitor
  PROVE  StartInv'
<1>1. /\ mode' = mode /\ mpc' = mpc /\ open' = open /\ step' = step
      /\ ending' = ending /\ missed' = missed /\ watched' = watched
  BY DEF Backend, Monitor, optionVars, workerVars
<1>2. \/ bpc' = bpc \/ (bpc \in {"signals", "loop"} /\ bpc' # "none")
  BY DEF Backend, Monitor
<1>3. \/ monpc' = monpc
      \/ monpc \in {"start", "signals", "check"} /\ monpc' # "none"
  BY DEF Backend, Monitor
<1>4. ControlInv' /\ OpenInv' /\ WatchInv' /\ WorkersReported'
  <2>1. mpc \notin {"parse", "require"}
    BY DEF StartInv, ControlInv, Backend, Monitor
  <2> QED BY <1>1, <2>1 DEF StartInv, ControlInv, OpenInv, WatchInv,
                            WorkersReported, Did
<1>5. ThreadInv'
  BY <1>1, <1>2, <1>3 DEF StartInv, ThreadInv, Did
<1>6. ReturnsClean'
  BY <1>1, <1>2, <1>3 DEF StartInv, ReturnsClean, Now
<1> QED BY <1>4, <1>5, <1>6 DEF StartInv

\* The socket a worker connects to is bound, and so is watched, except in the
\* two modes that bind it first.
LEMMA ConnectKeeps ==
  ASSUME StartInv, WorkerConnects
  PROVE  StartInv'
<1>1. /\ mode' = mode /\ mpc' = mpc /\ open' = open /\ step' = step
      /\ bpc' = bpc /\ monpc' = monpc /\ ending' = ending
      /\ watched' = watched /\ missed' = (missed \/ ~watched)
      /\ mpc \in {"setup", "serve"} /\ mode \in Served
  BY DEF WorkerConnects, optionVars, threadVars
<1>2. PICK i \in 1..(step - 1) : /\ Setup[mode][i].does = "bind"
                                 /\ Setup[mode][i].socket = "backend"
  BY DEF WorkerConnects
<1>3. mode \in Modes /\ step \in 1..(Len(Setup[mode]) + 1)
  BY <1>1 DEF StartInv, ControlInv
<1>4. mode \notin {"publish_subscribe", "stand_alone"} => watched
  <2>1. HAVE mode \notin {"publish_subscribe", "stand_alone"}
  <2>2. WatchedFirst(Setup[mode]) /\ Len(Setup[mode]) \in Nat
    BY <1>1, <1>3, <2>1, SetupUndone
  <2>3. i \in 1..Len(Setup[mode]) /\ step \in Nat /\ i \in Nat
    BY <1>2, <1>3, <2>2
  <2>4. Has(Setup[mode], i, "watch")
    BY <1>2, <2>2, <2>3 DEF WatchedFirst
  <2>5. Did("watch")
    BY <2>3, <2>4, <1>2 DEF Has, Did
  <2> QED BY <1>1, <2>5 DEF StartInv, WatchInv
<1>5. WorkersReported'
  BY <1>1, <1>4 DEF StartInv, WorkersReported
<1>6. ControlInv' /\ OpenInv' /\ ThreadInv' /\ WatchInv' /\ ReturnsClean'
  BY <1>1 DEF StartInv, ControlInv, OpenInv, ThreadInv, WatchInv,
              ReturnsClean, Did, Now
<1> QED BY <1>5, <1>6 DEF StartInv

\* A signal ends main or interrupts the threads.
LEMMA SignalKeeps ==
  ASSUME StartInv, Signal
  PROVE  StartInv'
<1>1. /\ mode' = mode /\ open' = open /\ step' = step /\ bpc' = bpc
      /\ missed' = missed /\ watched' = watched /\ ending' = ending
      /\ mpc \notin {"parse", "require"}
  BY DEF Signal, optionVars, workerVars
<1>2. mpc' = mpc \/ mpc' \in {"killed", "done"}
  BY DEF Signal
<1>3. monpc' = monpc \/ (monpc = "recv" /\ monpc' = "check")
  BY DEF Signal, EintrMonitor
<1>4. ControlInv' /\ OpenInv' /\ WatchInv' /\ WorkersReported'
  BY <1>1, <1>2 DEF StartInv, ControlInv, OpenInv, WatchInv, WorkersReported,
                    Did
<1>5. ThreadInv'
  BY <1>1, <1>2, <1>3 DEF StartInv, ThreadInv, Did
<1>6. ReturnsClean'
  BY <1>1, <1>2, <1>3 DEF StartInv, ReturnsClean, Now
<1> QED BY <1>4, <1>5, <1>6 DEF StartInv

-----------------------------------------------------------------------------
(***************************************************************************)
(* Induction.  A theorem about every natural number is stated of the set   *)
(* of the numbers it holds for.                                            *)
(***************************************************************************)
\* A set of numbers that has 0, and with k has k + 1, has all of them.
LEMMA Induction ==
  ASSUME NEW T, 0 \in T, \A k \in Nat : k \in T => k + 1 \in T
  PROVE  Nat \subseteq T
<1> SUFFICES ASSUME Nat \ T # {}
             PROVE  FALSE
  OBVIOUS
<1> DEFINE Less == {p \in Nat \X Nat : p[1] < p[2]}
<1>0. IsWellFoundedOn(Less, Nat)
  BY NatLessThanWellFounded DEF OpToRel
<1>1. PICK x \in Nat \ T : \A y \in Nat \ T : ~ (<<y, x>> \in Less)
  <2> HIDE DEF Less
  <2>1. Nat \ T \subseteq Nat
    OBVIOUS
  <2> QED BY <1>0, <2>1, WFMin
<1>2. \A y \in Nat \ T : ~ (y < x)
  BY <1>1
<1>3. x # 0
  OBVIOUS
<1>4. x - 1 \in Nat /\ x - 1 < x /\ x - 1 + 1 = x
  BY <1>3
<1> QED BY <1>2, <1>4

\* f is the recursive function of n turns that begins with start.
Turns(n, S, start, turn, f) ==
  /\ f \in [0..n -> S]
  /\ f[0] = start
  /\ \A i \in 1..n : f[i] = turn[<<f[i - 1], i>>]

\* There is such a function.
LEMMA RecursionExists ==
  ASSUME NEW n \in Nat, NEW S, NEW start \in S, NEW turn \in [S \X (1..n) -> S]
  PROVE  \E f : Turns(n, S, start, turn, f)
<1> DEFINE T ==
      {m \in Nat : m <= n => \E f \in [0..m -> S] :
         f[0] = start /\ \A i \in 1..m : f[i] = turn[<<f[i - 1], i>>]}
<1>1. 0 \in T
  <2>1. [i \in 0..0 |-> start] \in [0..0 -> S]
    OBVIOUS
  <2>2. [i \in 0..0 |-> start][0] = start /\ 1..0 = {}
    OBVIOUS
  <2> QED BY <2>1, <2>2
<1>2. ASSUME NEW k \in Nat, k \in T
      PROVE  k + 1 \in T
  <2> SUFFICES ASSUME k + 1 <= n
               PROVE  \E f \in [0..(k + 1) -> S] :
                        /\ f[0] = start
                        /\ \A i \in 1..(k + 1) : f[i] = turn[<<f[i - 1], i>>]
    OBVIOUS
  <2>1. PICK f \in [0..k -> S] :
          f[0] = start /\ \A i \in 1..k : f[i] = turn[<<f[i - 1], i>>]
    BY <1>2
  <2> DEFINE g == [i \in 0..(k + 1) |->
                     IF i = k + 1 THEN turn[<<f[k], i>>] ELSE f[i]]
  <2>2. turn[<<f[k], k + 1>>] \in S
    OBVIOUS
  <2>3. g \in [0..(k + 1) -> S] /\ g[0] = start
    BY <2>1, <2>2
  <2>4. ASSUME NEW i \in 1..(k + 1)
        PROVE  g[i] = turn[<<g[i - 1], i>>]
    <3>1. /\ i \in 0..(k + 1) /\ i - 1 \in 0..(k + 1) /\ i - 1 # k + 1
          /\ i # k + 1 => i \in 1..k
      OBVIOUS
    <3>2. g[i - 1] = f[i - 1]
      BY <3>1
    <3>3. CASE i = k + 1
      BY <3>1, <3>2, <3>3
    <3>4. CASE i # k + 1
      <4>1. g[i] = f[i]
        BY <3>1, <3>4
      <4> HIDE DEF g
      <4> QED BY <2>1, <3>1, <3>2, <3>4, <4>1
    <3> QED BY <3>3, <3>4
  <2> HIDE DEF g
  <2> QED BY <2>3, <2>4
<1>3. n \in T
  <2> HIDE DEF T
  <2> QED BY <1>1, <1>2, Induction
<1> QED BY <1>3 DEF Turns

\* What a recursive function starts with and every turn keeps, it returns.
LEMMA RecursionKeeps ==
  ASSUME NEW n \in Nat, NEW S, NEW f, f[0] \in S,
         \A i \in 1..n : f[i - 1] \in S => f[i] \in S
  PROVE  \A i \in 0..n : f[i] \in S
<1> DEFINE T == {m \in Nat : m <= n => f[m] \in S}
<1>1. 0 \in T
  OBVIOUS
<1>2. ASSUME NEW k \in Nat, k \in T
      PROVE  k + 1 \in T
  <2> SUFFICES ASSUME k + 1 <= n
               PROVE  f[k + 1] \in S
    OBVIOUS
  <2>1. f[k] \in S /\ k + 1 \in 1..n /\ (k + 1) - 1 = k
    BY <1>2
  <2> QED BY <2>1
<1>3. Nat \subseteq T
  <2> HIDE DEF T
  <2> QED BY <1>1, <1>2, Induction
<1> QED BY <1>3

-----------------------------------------------------------------------------
(***************************************************************************)
(* Sequences of sequences, one after the other.                            *)
(***************************************************************************)
\* h[i] are the first i sequences of s, one after the other.
Joined(S, s, h) ==
  /\ h \in [0..Len(s) -> Seq(S)]
  /\ h[0] = <<>>
  /\ \A i \in 1..Len(s) : h[i] = h[i - 1] \o s[i]

\* The sequences of a sequence, one after the other.
LEMMA FlattenUnfold ==
  ASSUME NEW S, NEW s \in Seq(Seq(S))
  PROVE  \E h : Joined(S, s, h) /\ Seqs!FlattenSeq(s) = h[Len(s)]
<1>1. PICK n \in Nat : n = Len(s)
  OBVIOUS
<1>2. \A i \in 1..n : s[i] \in Seq(S)
  BY <1>1
<1>3. PICK f : Joined(S, s, f)
  <2>1. PICK turn \in [Seq(S) \X (1..n) -> Seq(S)] :
          \A a \in Seq(S), i \in 1..n : turn[<<a, i>>] = a \o s[i]
    <3> DEFINE t == [p \in Seq(S) \X (1..n) |-> p[1] \o s[p[2]]]
    <3>1. t \in [Seq(S) \X (1..n) -> Seq(S)]
      BY <1>2
    <3>2. \A a \in Seq(S), i \in 1..n : t[<<a, i>>] = a \o s[i]
      OBVIOUS
    <3> HIDE DEF t
    <3> QED BY <3>1, <3>2
  <2>2. <<>> \in Seq(S)
    OBVIOUS
  <2>3. PICK f : Turns(n, Seq(S), <<>>, turn, f)
    BY <2>1, <2>2, RecursionExists
  <2>4. f \in [0..n -> Seq(S)] /\ f[0] = <<>>
    BY <2>3 DEF Turns
  <2>5. \A i \in 1..n : f[i] = f[i - 1] \o s[i]
    <3> TAKE i \in 1..n
    <3>1. i - 1 \in 0..n
      OBVIOUS
    <3> QED BY <2>1, <2>3, <2>4, <3>1 DEF Turns
  <2> QED BY <1>1, <2>4, <2>5 DEF Joined
<1>4. /\ f \in [0..n -> Seq(S)] /\ f[0] = <<>>
      /\ \A i \in 1..n : f[i] = f[i - 1] \o s[i]
  BY <1>1, <1>3 DEF Joined
<1>5. Seqs!FlattenSeq(s) = f[n]
  <2>1. CASE n = 0
    <3>1. s = <<>>
      <4>1. \A t \in Seq(Seq(S)) : Len(t) = 0 => t = <<>>
        OBVIOUS
      <4> QED BY <1>1, <2>1, <4>1
    <3>2. Seqs!FlattenSeq(s) = s
      BY <1>1, <2>1 DEF Seqs!FlattenSeq
    <3> QED BY <1>4, <2>1, <3>1, <3>2
  <2>2. CASE n # 0
    <3> DEFINE body(g) == [i \in 1..n |-> IF i = 1 THEN s[i]
                                          ELSE g[i - 1] \o s[i]]
               flatten == CHOOSE g : g = body(g)
               g == [i \in 1..n |-> f[i]]
    <3>1. g = body(g)
      <4>1. ASSUME NEW i \in 1..n
            PROVE  f[i] = IF i = 1 THEN s[i] ELSE f[i - 1] \o s[i]
        <5>1. \A a \in Seq(S) : <<>> \o a = a
          OBVIOUS
        <5>2. i = 1 => f[i - 1] = <<>>
          BY <1>4
        <5>3. f[i] = f[i - 1] \o s[i] /\ s[i] \in Seq(S)
          BY <1>2, <1>4
        <5> QED BY <5>1, <5>2, <5>3
      <4>2. \A i \in 1..n : i # 1 => g[i - 1] = f[i - 1]
        OBVIOUS
      <4> QED BY <4>1, <4>2
    <3>2. flatten = body(flatten)
      <4> HIDE DEF body, g
      <4> QED BY <3>1
    <3>3. Seqs!FlattenSeq(s) = flatten[n]
      BY <1>1, <2>2 DEF Seqs!FlattenSeq
    <3> HIDE DEF flatten
    <3>4. \A i \in 1..n : /\ i = 1 => flatten[i] = s[i]
                          /\ i # 1 => flatten[i] = flatten[i - 1] \o s[i]
      BY <3>2
    <3> HIDE DEF g, body
    <3> DEFINE T == {m \in Nat : m \in 1..n => flatten[m] = f[m]}
    <3>5. 0 \in T
      OBVIOUS
    <3>6. ASSUME NEW k \in Nat, k \in T
          PROVE  k + 1 \in T
      <4> SUFFICES ASSUME NEW i \in 1..n, i = k + 1
                   PROVE  flatten[i] = f[i]
        OBVIOUS
      <4>1. f[i] = f[i - 1] \o s[i] /\ s[i] \in Seq(S)
        BY <1>2, <1>4
      <4>2. CASE i = 1
        <5>1. flatten[i] = s[i]
          BY <3>4, <4>2
        <5>2. f[i - 1] = <<>>
          BY <1>4, <4>2
        <5>3. \A a \in Seq(S) : <<>> \o a = a
          OBVIOUS
        <5> QED BY <4>1, <5>1, <5>2, <5>3
      <4>3. CASE i # 1
        <5>1. k \in 1..n /\ i - 1 = k
          BY <4>3
        <5>2. flatten[k] = f[k]
          BY <3>6, <5>1
        <5>3. flatten[i] = flatten[i - 1] \o s[i]
          BY <3>4, <4>3
        <5> QED BY <4>1, <5>1, <5>2, <5>3
      <4> QED BY <4>2, <4>3
    <3>7. n \in T
      <4> HIDE DEF T
      <4> QED BY <3>5, <3>6, Induction
    <3>8. n \in 1..n
      BY <2>2
    <3> QED BY <3>3, <3>7, <3>8
  <2> QED BY <2>1, <2>2
<1> QED BY <1>1, <1>3, <1>5

\* A sequence of sequences of S, one after the other, is one of S.
LEMMA FlattenTyped ==
  ASSUME NEW S, NEW s \in Seq(Seq(S))
  PROVE  Seqs!FlattenSeq(s) \in Seq(S)
<1>1. PICK h : Joined(S, s, h) /\ Seqs!FlattenSeq(s) = h[Len(s)]
  BY FlattenUnfold
<1>2. h \in [0..Len(s) -> Seq(S)]
  BY <1>1 DEF Joined
<1>3. Len(s) \in 0..Len(s)
  OBVIOUS
<1> QED BY <1>1, <1>2, <1>3

\* What is joined is joined with one sequence more.
LEMMA JoinedStep ==
  ASSUME NEW S, NEW s \in Seq(Seq(S)), NEW h, Joined(S, s, h),
         NEW i \in 1..Len(s)
  PROVE  /\ h[i - 1] \in Seq(S) /\ h[i] \in Seq(S) /\ s[i] \in Seq(S)
         /\ h[i] = h[i - 1] \o s[i]
         /\ Len(h[i]) = Len(h[i - 1]) + Len(s[i])
         /\ Len(h[i - 1]) \in Nat /\ Len(s[i]) \in Nat
<1>1. h \in [0..Len(s) -> Seq(S)]
  BY DEF Joined
<1>2. i - 1 \in 0..Len(s) /\ i \in 0..Len(s)
  OBVIOUS
<1>3. h[i - 1] \in Seq(S) /\ h[i] \in Seq(S) /\ s[i] \in Seq(S)
  BY <1>1, <1>2
<1>4. h[i] = h[i - 1] \o s[i]
  BY DEF Joined
<1>5. \A a, b \in Seq(S) : Len(a \o b) = Len(a) + Len(b)
  OBVIOUS
<1>6. \A a \in Seq(S) : Len(a) \in Nat
  OBVIOUS
<1> QED BY <1>3, <1>4, <1>5, <1>6

\* The first sequences of s, joined.
LEMMA JoinedPrefix ==
  ASSUME NEW S, NEW s \in Seq(Seq(S)), NEW h, Joined(S, s, h),
         NEW i \in 0..Len(s), NEW t, t = [j \in 1..i |-> s[j]]
  PROVE  Seqs!FlattenSeq(t) = h[i]
<1>1. t \in Seq(Seq(S)) /\ Len(t) = i
  <2>1. \A j \in 1..i : s[j] \in Seq(S)
    OBVIOUS
  <2> QED BY <2>1
<1>2. PICK f : Joined(S, t, f) /\ Seqs!FlattenSeq(t) = f[Len(t)]
  BY <1>1, FlattenUnfold
<1> DEFINE T == {m \in Nat : m \in 0..i => f[m] = h[m]}
<1>3. 0 \in T
  <2>1. f[0] = <<>>
    BY <1>2 DEF Joined
  <2>2. h[0] = <<>>
    BY DEF Joined
  <2> QED BY <2>1, <2>2
<1>4. ASSUME NEW k \in Nat, k \in T
      PROVE  k + 1 \in T
  <2> SUFFICES ASSUME NEW m \in 1..i, m = k + 1
               PROVE  f[m] = h[m]
    OBVIOUS
  <2>1. m - 1 = k /\ k \in 0..i /\ m \in 1..Len(t) /\ m \in 1..Len(s)
    BY <1>1
  <2>2. f[m] = f[m - 1] \o t[m]
    BY <1>2, <2>1 DEF Joined
  <2>3. h[m] = h[m - 1] \o s[m]
    BY <2>1 DEF Joined
  <2>4. t[m] = s[m] /\ f[k] = h[k]
    BY <1>4, <2>1
  <2> QED BY <2>1, <2>2, <2>3, <2>4
<1>5. i \in T
  <2>1. i \in Nat
    OBVIOUS
  <2> HIDE DEF T
  <2> QED BY <1>3, <1>4, <2>1, Induction
<1> QED BY <1>1, <1>2, <1>5

\* What is joined later begins with what is joined before.
LEMMA JoinedLonger ==
  ASSUME NEW S, NEW s \in Seq(Seq(S)), NEW h, Joined(S, s, h),
         NEW i \in 0..Len(s), NEW m \in i..Len(s)
  PROVE  /\ Len(h[i]) <= Len(h[m])
         /\ \A k \in 1..Len(h[i]) : h[m][k] = h[i][k]
<1>1. h \in [0..Len(s) -> Seq(S)]
  BY DEF Joined
<1> DEFINE Longer(q) == /\ Len(h[i]) <= Len(h[q])
                        /\ \A k \in 1..Len(h[i]) : h[q][k] = h[i][k]
           T == {d \in Nat : i + d <= Len(s) => Longer(i + d)}
<1>2. 0 \in T
  <2>1. i + 0 = i
    OBVIOUS
  <2>2. Longer(i)
    <3>1. h[i] \in Seq(S)
      BY <1>1
    <3> QED BY <3>1
  <2> HIDE DEF Longer
  <2> QED BY <2>1, <2>2
<1>3. ASSUME NEW d \in Nat, d \in T
      PROVE  d + 1 \in T
  <2> SUFFICES ASSUME NEW q \in 1..Len(s), q = i + (d + 1)
               PROVE  Longer(q)
    OBVIOUS
  <2>1. Longer(q - 1)
    <3>1. q - 1 = i + d /\ i + d <= Len(s)
      OBVIOUS
    <3> HIDE DEF Longer
    <3> QED BY <1>3, <3>1
  <2>2. /\ h[q - 1] \in Seq(S) /\ s[q] \in Seq(S)
        /\ h[q] = h[q - 1] \o s[q]
        /\ Len(h[q]) = Len(h[q - 1]) + Len(s[q])
        /\ Len(h[q - 1]) \in Nat /\ Len(s[q]) \in Nat
    BY JoinedStep
  <2>3. Len(h[i]) \in Nat
    <3>1. h[i] \in Seq(S)
      BY <1>1
    <3> QED BY <3>1
  <2>4. \A a, b \in Seq(S) : \A k \in 1..Len(a) : (a \o b)[k] = a[k]
    OBVIOUS
  <2>5. \A k \in 1..Len(h[i]) : h[q][k] = h[q - 1][k]
    <3> TAKE k \in 1..Len(h[i])
    <3>1. PICK a \in Nat, b \in Nat : /\ a = Len(h[i]) /\ b = Len(h[q - 1])
                                     /\ a <= b
      BY <2>1, <2>2, <2>3
    <3>2. k \in 1..b
      BY <3>1
    <3>3. (h[q - 1] \o s[q])[k] = h[q - 1][k]
      BY <2>2, <2>4, <3>1, <3>2
    <3> QED BY <2>2, <3>3
  <2>6. Len(h[i]) <= Len(h[q])
    <3>1. PICK a \in Nat, b \in Nat, c \in Nat :
            a = Len(h[i]) /\ b = Len(h[q - 1]) /\ Len(h[q]) = b + c /\ a <= b
      BY <2>1, <2>2, <2>3
    <3> QED BY <3>1
  <2>7. \A k \in 1..Len(h[i]) : h[q - 1][k] = h[i][k]
    BY <2>1
  <2>8. \A k \in 1..Len(h[i]) : h[q][k] = h[i][k]
    BY <2>5, <2>7
  <2> QED BY <2>6, <2>8
<1>4. m - i \in Nat /\ i + (m - i) = m
  OBVIOUS
<1>5. m - i \in T
  <2> HIDE DEF T
  <2> QED BY <1>2, <1>3, <1>4, Induction
<1>6. Longer(m)
  <2> HIDE DEF Longer
  <2> QED BY <1>4, <1>5
<1> QED BY <1>6

\* Where the elements of a joined sequence are.
LEMMA JoinedPosition ==
  ASSUME NEW S, NEW s \in Seq(Seq(S)), NEW h, Joined(S, s, h),
         NEW i \in 1..Len(s), NEW j \in 1..Len(s[i])
  PROVE  h[Len(s)][Len(h[i - 1]) + j] = s[i][j]
<1>1. /\ h[i - 1] \in Seq(S) /\ s[i] \in Seq(S)
      /\ h[i] = h[i - 1] \o s[i]
      /\ Len(h[i]) = Len(h[i - 1]) + Len(s[i])
      /\ Len(h[i - 1]) \in Nat /\ Len(s[i]) \in Nat
  BY JoinedStep
<1>2. PICK k \in 1..Len(h[i]) : k = Len(h[i - 1]) + j
  <2>1. PICK a \in Nat, b \in Nat :
          a = Len(h[i - 1]) /\ b = Len(s[i]) /\ Len(h[i]) = a + b
    BY <1>1
  <2>2. j \in 1..b
    BY <2>1
  <2>3. a + j \in 1..(a + b)
    BY <2>2
  <2> QED BY <2>1, <2>3
<1>3. i \in 0..Len(s) /\ Len(s) \in i..Len(s)
  OBVIOUS
<1>4. h[Len(s)][k] = h[i][k]
  <2>1. PICK m \in i..Len(s) : m = Len(s)
    BY <1>3
  <2>2. \A p \in 1..Len(h[i]) : h[m][p] = h[i][p]
    BY <1>3, JoinedLonger
  <2> QED BY <2>1, <2>2
<1>5. (h[i - 1] \o s[i])[Len(h[i - 1]) + j] = s[i][j]
  <2>1. \A a, b \in Seq(S) : \A l \in 1..Len(b) : (a \o b)[Len(a) + l] = b[l]
    OBVIOUS
  <2> QED BY <1>1, <2>1
<1> QED BY <1>1, <1>2, <1>4, <1>5, Zenon

\* An element of all the sequences is one of those from i up to m.
From(s, h, i, m, k) ==
  \E j \in i..m : \E l \in 1..Len(s[j]) : h[Len(s)][k] = s[j][l]

\* Where an element of the joined sequences comes from.
LEMMA JoinedOrigin ==
  ASSUME NEW S, NEW s \in Seq(Seq(S)), NEW h, Joined(S, s, h),
         NEW i \in 0..Len(s), NEW m \in i..Len(s),
         NEW k \in (Len(h[i]) + 1)..Len(h[m])
  PROVE  From(s, h, i + 1, m, k)
<1>1. h \in [0..Len(s) -> Seq(S)]
  BY DEF Joined
<1> DEFINE All(q) ==
             \A p \in (Len(h[i]) + 1)..Len(h[q]) : From(s, h, i + 1, q, p)
           T == {d \in Nat : i + d <= Len(s) => All(i + d)}
<1>2. 0 \in T
  <2>1. i + 0 = i
    OBVIOUS
  <2>2. Len(h[i]) \in Nat
    <3>1. h[i] \in Seq(S)
      BY <1>1
    <3> QED BY <3>1
  <2>3. (Len(h[i]) + 1)..Len(h[i]) = {}
    BY <2>2
  <2> QED BY <2>1, <2>3
<1>3. ASSUME NEW d \in Nat, d \in T
      PROVE  d + 1 \in T
  <2> SUFFICES ASSUME NEW q \in 1..Len(s), q = i + (d + 1)
               PROVE  All(q)
    <3> HIDE DEF All
    <3> QED OBVIOUS
  <2> SUFFICES ASSUME NEW p \in (Len(h[i]) + 1)..Len(h[q])
               PROVE  From(s, h, i + 1, q, p)
    OBVIOUS
  <2>1. All(q - 1)
    <3>1. q - 1 = i + d /\ i + d <= Len(s)
      OBVIOUS
    <3> HIDE DEF All
    <3> QED BY <1>3, <3>1
  <2>2. /\ Len(h[q]) = Len(h[q - 1]) + Len(s[q])
        /\ Len(h[q - 1]) \in Nat /\ Len(s[q]) \in Nat
    BY JoinedStep
  <2>3. Len(h[i]) \in Nat
    <3>1. h[i] \in Seq(S)
      BY <1>1
    <3> QED BY <3>1
  <2>4. CASE p <= Len(h[q - 1])
    <3>1. p \in (Len(h[i]) + 1)..Len(h[q - 1])
      BY <2>2, <2>3, <2>4
    <3>2. From(s, h, i + 1, q - 1, p)
      BY <2>1, <3>1
    <3>3. (i + 1)..(q - 1) \subseteq (i + 1)..q
      OBVIOUS
    <3> QED BY <3>2, <3>3 DEF From
  <2>5. CASE p > Len(h[q - 1])
    <3>1. PICK l \in 1..Len(s[q]) : p = Len(h[q - 1]) + l
      <4>1. PICK a \in Nat, b \in Nat :
              a = Len(h[q - 1]) /\ b = Len(s[q]) /\ Len(h[q]) = a + b
        BY <2>2
      <4>2. PICK c \in Nat : c = Len(h[i])
        BY <2>3
      <4>3. p \in (c + 1)..(a + b)
        BY <4>1, <4>2
      <4>4. p > a
        BY <2>5, <4>1
      <4>5. p - a \in 1..b /\ p = a + (p - a)
        BY <4>3, <4>4
      <4> QED BY <4>1, <4>5
    <3>2. h[Len(s)][p] = s[q][l]
      BY <3>1, JoinedPosition
    <3>3. q \in (i + 1)..q
      OBVIOUS
    <3> QED BY <3>2, <3>3 DEF From
  <2>6. p <= Len(h[q - 1]) \/ p > Len(h[q - 1])
    BY <2>2, <2>3
  <2> QED BY <2>4, <2>5, <2>6
<1>4. m - i \in Nat /\ i + (m - i) = m
  OBVIOUS
<1>5. m - i \in T
  <2> HIDE DEF T
  <2> QED BY <1>2, <1>3, <1>4, Induction
<1>6. All(m)
  <2> HIDE DEF All
  <2> QED BY <1>4, <1>5
<1> QED BY <1>6

\* Sequences are equal if their elements are.
LEMMA SequencesEqual ==
  ASSUME NEW S, NEW a \in Seq(S), NEW b \in Seq(S), NEW m \in Nat,
         Len(a) = m, Len(b) = m, \A l \in 1..m : a[l] = b[l]
  PROVE  a = b
OBVIOUS

\* A value is the only one of what had none.
LEMMA AppendedToNone ==
  ASSUME NEW S, NEW v \in S
  PROVE  Append(<<>>, v) = <<v>>
OBVIOUS

-----------------------------------------------------------------------------
(***************************************************************************)
(* The options.                                                            *)
(***************************************************************************)
\* An option has several values only if it is a list.
OptionType ==
  {opt \in [Options -> Seq(Strings)] :
     \A o \in Options : Len(opt[o]) > 1 => Kind[o] = "list"}

ArgType == Options \X Strings

EntryType == [key : Strings, array : BOOLEAN, values : Seq(Strings)]

EventType == {<<"start">>, <<"end">>} \cup {Scalar(v) : v \in Strings}

\* What zlmb_option_load_file knows between two events.
LoadType == [option : OptionType, key : Strings, seq : Int]

\* zlmb_option_set gives no second value to an option that is not a list.
LEMMA AssignTyped ==
  ASSUME NEW opt \in OptionType, NEW o \in Options, NEW v \in Strings
  PROVE  Assign(opt, o, v) \in OptionType
<1> DEFINE new == CASE Kind[o] = "list" -> Append(opt[o], v)
                    [] Kind[o] = "boolean" /\ opt[o] # <<"true">> -> <<v>>
                    [] Kind[o] # "list" /\ opt[o] = <<>> -> <<v>>
                    [] OTHER -> opt[o]
<1>1. Assign(opt, o, v) = [opt EXCEPT ![o] = new]
  BY DEF Assign, OptionType
<1>2. opt \in [Options -> Seq(Strings)] /\ opt[o] \in Seq(Strings)
  BY DEF OptionType
<1>3. <<v>> \in Seq(Strings) /\ Len(<<v>>) = 1
  OBVIOUS
<1>4. \/ Kind[o] = "list" /\ new = Append(opt[o], v)
      \/ Kind[o] # "list" /\ (new = <<v>> \/ new = opt[o])
  OBVIOUS
<1> HIDE DEF new
<1>5. new \in Seq(Strings)
  <2>1. \A a \in Seq(Strings), w \in Strings : Append(a, w) \in Seq(Strings)
    OBVIOUS
  <2>2. Append(opt[o], v) \in Seq(Strings)
    BY <1>2, <2>1
  <2> QED BY <1>2, <1>3, <1>4, <2>2
<1>6. Len(new) > 1 => Kind[o] = "list"
  <2>1. Len(opt[o]) > 1 => Kind[o] = "list"
    BY DEF OptionType
  <2>2. new = <<v>> => Len(new) = 1
    BY <1>3
  <2>3. CASE new = <<v>>
    BY <2>2, <2>3
  <2>4. CASE new = opt[o]
    BY <2>1, <2>4
  <2> QED BY <1>4, <2>3, <2>4
<1>7. [opt EXCEPT ![o] = new] \in [Options -> Seq(Strings)]
  BY <1>2, <1>5
<1>8. ASSUME NEW p \in Options, Len([opt EXCEPT ![o] = new][p]) > 1
      PROVE  Kind[p] = "list"
  <2>1. [opt EXCEPT ![o] = new][p] = IF p = o THEN new ELSE opt[p]
    BY <1>2
  <2> QED BY <1>6, <1>8, <2>1 DEF OptionType
<1> QED BY <1>1, <1>7, <1>8 DEF OptionType

\* One argument.
LEMMA ArgumentTyped ==
  ASSUME NEW opt \in OptionType, NEW a \in ArgType
  PROVE  Argument(opt, a) \in OptionType
<1>1. "client_dumpfile" \in Options
  BY DEF Options, Kind
<1>2. a[1] \in Options /\ a[2] \in Strings
  BY DEF ArgType
<1> QED BY <1>1, <1>2, AssignTyped DEF Argument

\* The command line, as the options after each of its arguments.
LEMMA ArgumentsUnfold ==
  ASSUME NEW opt \in OptionType, NEW args \in Seq(ArgType)
  PROVE  \E f \in [0..Len(args) -> OptionType] :
           /\ f[0] = opt
           /\ \A i \in 1..Len(args) : f[i] = Argument(f[i - 1], args[i])
           /\ Arguments(opt, args) = f[Len(args)]
<1>1. PICK n \in Nat : n = Len(args)
  OBVIOUS
<1> DEFINE body(f) == [i \in 0..n |-> IF i = 0 THEN opt
                                      ELSE Argument(f[i - 1], args[i])]
           after == CHOOSE f : f = body(f)
<1>2. \A i \in 1..n : args[i] \in ArgType
  BY <1>1
<1>3. \E f : f = body(f)
  <2>1. PICK turn \in [OptionType \X (1..n) -> OptionType] :
          \A a \in OptionType, i \in 1..n :
            turn[<<a, i>>] = Argument(a, args[i])
    <3> DEFINE t == [p \in OptionType \X (1..n) |-> Argument(p[1], args[p[2]])]
    <3>1. t \in [OptionType \X (1..n) -> OptionType]
      BY <1>2, ArgumentTyped
    <3>2. \A a \in OptionType, i \in 1..n : t[<<a, i>>] = Argument(a, args[i])
      OBVIOUS
    <3> HIDE DEF t
    <3> QED BY <3>1, <3>2
  <2>2. PICK f : Turns(n, OptionType, opt, turn, f)
    BY <2>1, RecursionExists
  <2>3. f \in [0..n -> OptionType] /\ f[0] = opt
    BY <2>2 DEF Turns
  <2>4. \A i \in 1..n : f[i] = Argument(f[i - 1], args[i])
    <3> TAKE i \in 1..n
    <3>1. i - 1 \in 0..n
      OBVIOUS
    <3> QED BY <2>1, <2>2, <2>3, <3>1 DEF Turns
  <2>5. f = body(f)
    BY <2>3, <2>4
  <2> QED BY <2>5
<1>4. after = body(after)
  <2> HIDE DEF body
  <2> QED BY <1>3
<1>5. Arguments(opt, args) = after[n]
  BY <1>1 DEF Arguments
<1> HIDE DEF after
<1>6. /\ DOMAIN after = 0..n /\ after = [i \in 0..n |-> after[i]]
      /\ after[0] = opt
      /\ \A i \in 1..n : after[i] = Argument(after[i - 1], args[i])
  <2>1. DOMAIN after = 0..n
    BY <1>4
  <2>2. after = [i \in 0..n |-> after[i]]
    BY <1>4, <2>1
  <2>3. after[0] = opt
    BY <1>4
  <2>4. \A i \in 1..n : after[i] = Argument(after[i - 1], args[i])
    BY <1>4
  <2> QED BY <2>1, <2>2, <2>3, <2>4
<1>7. \A i \in 0..n : after[i] \in OptionType
  <2>1. \A i \in 1..n : after[i - 1] \in OptionType => after[i] \in OptionType
    BY <1>2, <1>6, ArgumentTyped
  <2> QED BY <1>6, <2>1, RecursionKeeps
<1>8. after \in [0..n -> OptionType]
  BY <1>6, <1>7
<1> QED BY <1>1, <1>5, <1>6, <1>8

\* The options of the command line.
LEMMA ArgumentsTyped ==
  ASSUME NEW opt \in OptionType, NEW args \in Seq(ArgType)
  PROVE  Arguments(opt, args) \in OptionType
<1>1. Len(args) \in 0..Len(args)
  OBVIOUS
<1> QED BY <1>1, ArgumentsUnfold

\* One event of the parser.
LEMMA LoadEventTyped ==
  ASSUME NEW s \in LoadType, NEW event \in EventType
  PROVE  LoadEvent(s, event) \in LoadType
<1>1. /\ s.option \in OptionType /\ s.key \in Strings /\ s.seq \in Int
  BY DEF LoadType
<1>2. PICK none \in Strings : none = ""
  BY StringsAssumption
<1>3. CASE event = <<"start">>
  <2>1. LoadEvent(s, event) = [s EXCEPT !.seq = s.seq + 1]
    BY <1>3 DEF LoadEvent
  <2>2. [s EXCEPT !.seq = s.seq + 1] \in LoadType
    BY DEF LoadType
  <2> QED BY <2>1, <2>2
<1>4. CASE event = <<"end">>
  <2> DEFINE depth == s.seq - 1
  <2>1. LoadEvent(s, event) = [s EXCEPT !.seq = depth, !.key = none]
    BY <1>2, <1>4 DEF LoadEvent
  <2>2. [s EXCEPT !.seq = depth, !.key = none] \in LoadType
    <3>1. depth \in Int
      BY <1>1
    <3> HIDE DEF depth
    <3> QED BY <3>1 DEF LoadType
  <2> QED BY <2>1, <2>2
<1>5. CASE \E v \in Strings : event = Scalar(v)
  <2>1. PICK v \in Strings : event = Scalar(v)
    BY <1>5
  <2>2. event[1] = "scalar" /\ event[2] = v
    BY <2>1 DEF Scalar
  <2>3. CASE s.key = ""
    <3>1. LoadEvent(s, event) = [s EXCEPT !.key = KeyOf(s, v)]
      BY <2>2, <2>3 DEF LoadEvent
    <3>2. PICK k \in Strings : k = KeyOf(s, v)
      BY StringsAssumption DEF KeyOf
    <3>3. [s EXCEPT !.key = k] \in LoadType
      BY DEF LoadType
    <3> QED BY <3>1, <3>2, <3>3
  <2>4. CASE s.key # ""
    <3> DEFINE again == /\ s.key \in Options /\ Kind[s.key] = "once"
                        /\ s.option[s.key] # <<>>
    <3>1. LoadEvent(s, event) = ValueOf(s, v)
      BY <2>2, <2>4 DEF LoadEvent
    <3>2. s.key \in Options => Assign(s.option, s.key, v) \in OptionType
      BY <1>1, AssignTyped
    <3>3. PICK opt \in OptionType :
            opt = IF s.key \in Options THEN Assign(s.option, s.key, v)
                  ELSE s.option
      BY <1>1, <3>2
    <3>4. PICK k \in Strings : k = IF s.seq = 0 \/ again THEN none ELSE s.key
      <4> HIDE DEF again
      <4> QED BY <1>1
    <3>5. ValueOf(s, v) = [s EXCEPT !.option = opt, !.key = k]
      BY <1>2, <3>3, <3>4 DEF ValueOf
    <3>6. [s EXCEPT !.option = opt, !.key = k] \in LoadType
      BY DEF LoadType
    <3> QED BY <3>1, <3>5, <3>6
  <2> QED BY <2>3, <2>4
<1> QED BY <1>3, <1>4, <1>5 DEF EventType

\* The events of an entry.
LEMMA EventsOfTyped ==
  ASSUME NEW e \in EntryType, ~e.array => e.values # <<>>
  PROVE  EventsOf(e) \in Seq(EventType)
<1>1. \A v \in Strings : Scalar(v) \in EventType
  BY DEF EventType
<1>2. <<"start">> \in EventType /\ <<"end">> \in EventType
  BY DEF EventType
<1>3. e.key \in Strings /\ e.values \in Seq(Strings)
  BY DEF EntryType
<1>4. <<Scalar(e.key)>> \in Seq(EventType)
  BY <1>1, <1>3
<1>5. CASE e.array
  <2> DEFINE vs == [i \in DOMAIN e.values |-> Scalar(e.values[i])]
  <2>1. vs \in Seq(EventType)
    <3>1. DOMAIN e.values = 1..Len(e.values) /\ Len(e.values) \in Nat
      BY <1>3
    <3>2. \A i \in DOMAIN e.values : Scalar(e.values[i]) \in EventType
      BY <1>1, <1>3
    <3> QED BY <3>1, <3>2
  <2>2. EventsOf(e) = <<Scalar(e.key)>> \o (<<<<"start">>>> \o vs
                                             \o <<<<"end">>>>)
    BY <1>5 DEF EventsOf
  <2>3. <<<<"start">>>> \in Seq(EventType) /\ <<<<"end">>>> \in Seq(EventType)
    BY <1>2
  <2> HIDE DEF vs
  <2>4. \A a, b \in Seq(EventType) : a \o b \in Seq(EventType)
    OBVIOUS
  <2> QED BY <1>4, <2>1, <2>2, <2>3, <2>4
<1>6. CASE ~e.array
  <2>1. EventsOf(e) = <<Scalar(e.key)>> \o <<Scalar(e.values[1])>>
    BY <1>6 DEF EventsOf
  <2>2. e.values[1] \in Strings
    BY <1>3, <1>6
  <2>3. <<Scalar(e.values[1])>> \in Seq(EventType)
    BY <1>1, <2>2
  <2>4. \A a, b \in Seq(EventType) : a \o b \in Seq(EventType)
    OBVIOUS
  <2> QED BY <1>4, <2>1, <2>3, <2>4
<1> QED BY <1>5, <1>6

\* The events of each entry of a file.
Parts(file) == [i \in DOMAIN file |-> EventsOf(file[i])]

\* They are sequences of events.
LEMMA PartsTyped ==
  ASSUME NEW file \in Seq(EntryType),
         \A i \in DOMAIN file : ~file[i].array => file[i].values # <<>>
  PROVE  /\ Parts(file) \in Seq(Seq(EventType))
         /\ Len(Parts(file)) = Len(file)
         /\ \A i \in 1..Len(file) : Parts(file)[i] = EventsOf(file[i])
<1>1. DOMAIN file = 1..Len(file) /\ Len(file) \in Nat
  OBVIOUS
<1>2. \A i \in DOMAIN file : EventsOf(file[i]) \in Seq(EventType)
  BY EventsOfTyped
<1> QED BY <1>1, <1>2 DEF Parts

\* The events of a file, as the parser returns them.
LEMMA EventsTyped ==
  ASSUME NEW file \in Seq(EntryType),
         \A i \in DOMAIN file : ~file[i].array => file[i].values # <<>>
  PROVE  Seqs!FlattenSeq([i \in DOMAIN file |-> EventsOf(file[i])])
           \in Seq(EventType)
BY PartsTyped, FlattenTyped DEF Parts

\* The turns of zlmb_option_load_file over the first n events.
Reads(events, n, opt, f) ==
  /\ f \in [0..n -> LoadType]
  /\ f[0].option = opt /\ f[0].key = "" /\ f[0].seq = 0
  /\ \A i \in 1..n : f[i] = LoadEvent(f[i - 1], events[i])

\* The file is read by these turns, up to its last event or where it breaks
\* off.
Loaded(opt, file, end, events, n, f) ==
  /\ events \in Seq(EventType)
  /\ events = Seqs!FlattenSeq([i \in DOMAIN file |-> EventsOf(file[i])])
  /\ n \in Nat
  /\ n = IF end < Len(events) THEN end ELSE Len(events)
  /\ Reads(events, n, opt, f)
  /\ LoadFile(opt, file, end) = f[n].option

\* zlmb_option_load_file, turn by turn.
LEMMA LoadFileUnfold ==
  ASSUME NEW opt \in OptionType, NEW file \in Seq(EntryType),
         \A i \in DOMAIN file : ~file[i].array => file[i].values # <<>>,
         NEW end \in Nat
  PROVE  \E events, n, f : Loaded(opt, file, end, events, n, f)
<1> DEFINE parsed == Seqs!FlattenSeq([i \in DOMAIN file |-> EventsOf(file[i])])
<1>1. PICK events \in Seq(EventType) : events = parsed
  BY EventsTyped
<1>2. PICK n \in Nat : /\ n = IF end < Len(events) THEN end ELSE Len(events)
                       /\ n <= Len(events)
  OBVIOUS
<1>3. \A i \in 1..n : events[i] \in EventType
  BY <1>2
<1>4. PICK start \in LoadType : start = [option |-> opt, key |-> "", seq |-> 0]
  <2>1. PICK none \in Strings : none = ""
    BY StringsAssumption
  <2>2. [option |-> opt, key |-> none, seq |-> 0] \in LoadType
    BY DEF LoadType
  <2> QED BY <2>1, <2>2
<1> DEFINE body(f) == [i \in 0..n |-> IF i = 0 THEN start
                                      ELSE LoadEvent(f[i - 1], events[i])]
           after == CHOOSE f : f = body(f)
<1>5. LoadFile(opt, file, end) = after[n].option
  BY <1>1, <1>2, <1>4 DEF LoadFile
<1> HIDE DEF parsed
<1>6. \E f : f = body(f)
  <2>1. PICK turn \in [LoadType \X (1..n) -> LoadType] :
          \A a \in LoadType, i \in 1..n :
            turn[<<a, i>>] = LoadEvent(a, events[i])
    <3> DEFINE t == [p \in LoadType \X (1..n) |-> LoadEvent(p[1], events[p[2]])]
    <3>1. t \in [LoadType \X (1..n) -> LoadType]
      BY <1>3, LoadEventTyped
    <3>2. \A a \in LoadType, i \in 1..n :
            t[<<a, i>>] = LoadEvent(a, events[i])
      OBVIOUS
    <3> HIDE DEF t
    <3> QED BY <3>1, <3>2
  <2>2. PICK f : Turns(n, LoadType, start, turn, f)
    BY <2>1, RecursionExists
  <2>3. f \in [0..n -> LoadType] /\ f[0] = start
    BY <2>2 DEF Turns
  <2>4. \A i \in 1..n : f[i] = LoadEvent(f[i - 1], events[i])
    <3> TAKE i \in 1..n
    <3>1. i - 1 \in 0..n
      OBVIOUS
    <3> QED BY <2>1, <2>2, <2>3, <3>1 DEF Turns
  <2>5. f = body(f)
    BY <2>3, <2>4
  <2> QED BY <2>5
<1>7. after = body(after)
  <2> HIDE DEF body
  <2> QED BY <1>6
<1> HIDE DEF after
<1>8. /\ after = [i \in 0..n |-> after[i]]
      /\ after[0] = start
      /\ \A i \in 1..n : after[i] = LoadEvent(after[i - 1], events[i])
  <2>1. DOMAIN after = 0..n
    BY <1>7
  <2>2. after = [i \in 0..n |-> after[i]]
    BY <1>7, <2>1
  <2>3. after[0] = start
    BY <1>7
  <2>4. \A i \in 1..n : after[i] = LoadEvent(after[i - 1], events[i])
    BY <1>7
  <2> QED BY <2>2, <2>3, <2>4
<1>9. \A i \in 0..n : after[i] \in LoadType
  <2>1. \A i \in 1..n : after[i - 1] \in LoadType => after[i] \in LoadType
    BY <1>3, <1>8, LoadEventTyped
  <2> QED BY <1>8, <2>1, RecursionKeeps
<1>10. after \in [0..n -> LoadType]
  BY <1>8, <1>9
<1>11. Reads(events, n, opt, after)
  <2>1. start.option = opt /\ start.key = "" /\ start.seq = 0
    BY <1>4
  <2> QED BY <1>8, <1>10, <2>1 DEF Reads
<1> HIDE DEF body
<1>12. Loaded(opt, file, end, events, n, after)
  BY <1>1, <1>2, <1>5, <1>11 DEF parsed, Loaded
<1> QED BY <1>12

\* What zlmb_option_load_file leaves of the options, whatever the file is and
\* wherever it breaks off.
LEMMA LoadFileTyped ==
  ASSUME NEW opt \in OptionType, NEW file \in Seq(EntryType),
         \A i \in DOMAIN file : ~file[i].array => file[i].values # <<>>,
         NEW end \in Nat
  PROVE  LoadFile(opt, file, end) \in OptionType
<1>1. PICK events, n, f : Loaded(opt, file, end, events, n, f)
  BY LoadFileUnfold
<1>2. f[n] \in LoadType
  <2>1. f \in [0..n -> LoadType]
    BY <1>1 DEF Reads, Loaded
  <2>2. n \in Nat
    BY <1>1 DEF Loaded
  <2> QED BY <2>1, <2>2
<1> QED BY <1>1, <1>2 DEF LoadType, Loaded

\* The options main has before it calls a server.
LEMMA OptionsTyped ==
  ASSUME NEW in \in Inputs
  PROVE  OptionsOf(in) \in OptionType
<1>1. /\ in.args \in Seq(ArgType) /\ in.file \in Seq(EntryType)
      /\ \A i \in DOMAIN in.file : ~in.file[i].array => in.file[i].values # <<>>
      /\ in.end \in Nat
  BY InputsAssumption DEF ArgType, EntryType
<1>2. Unset \in OptionType
  BY DEF Unset, OptionType
<1>3. PICK opt \in OptionType :
        opt = LoadFile(Arguments(Unset, in.args), in.file, in.end)
  BY <1>1, <1>2, ArgumentsTyped, LoadFileTyped
<1>4. "client_dumpfile" \in Options /\ "subscribe_dumpfile" \in Options
  BY DEF Options, Kind
<1>5. OptionsOf(in) = Defaults(opt)
  BY <1>3 DEF OptionsOf
<1> QED BY <1>4, <1>5, AssignTyped, StringsAssumption DEF Defaults

-----------------------------------------------------------------------------
(***************************************************************************)
(* The options of the command line: what it gives each option.             *)
(***************************************************************************)
\* The new values of an option that is set to v.
Assigned(o, values, v) ==
  IF Kind[o] = "list" THEN Append(values, v)
  ELSE IF Kind[o] = "boolean" /\ values # <<"true">> THEN <<v>>
  ELSE IF values = <<>> THEN <<v>>
  ELSE values

\* zlmb_option_set sets the option it is called for, and no other.
LEMMA AssignSets ==
  ASSUME NEW opt \in OptionType, NEW o \in Options, NEW v
  PROVE  /\ Assign(opt, o, v)[o] = Assigned(o, opt[o], v)
         /\ \A p \in Options : p # o => Assign(opt, o, v)[p] = opt[p]
<1>1. opt \in [Options -> Seq(Strings)]
  BY DEF OptionType
<1> QED BY <1>1 DEF Assign, Assigned

\* An option that is not set keeps its values.
LEMMA AssignKeeps ==
  ASSUME NEW opt \in OptionType, NEW o \in Options, NEW v,
         NEW p \in Options, p # o
  PROVE  Assign(opt, o, v)[p] = opt[p]
BY AssignSets

\* The values of an option after one more argument.
Collected(o, values, a) ==
  IF a[1] = o THEN Append(values, a[2]) ELSE values

\* The values of an option, as they are collected one after the other.
LEMMA ValuesUnfold ==
  ASSUME NEW args \in Seq(ArgType), NEW o \in Options
  PROVE  \E g \in [0..Len(args) -> Seq(Strings)] :
           /\ g[0] = <<>>
           /\ \A i \in 1..Len(args) : g[i] = Collected(o, g[i - 1], args[i])
           /\ ValuesOf(args, o) = g[Len(args)]
<1>1. PICK n \in Nat : n = Len(args)
  OBVIOUS
<1>2. \A i \in 1..n : args[i][2] \in Strings
  BY <1>1 DEF ArgType
<1>3. \A a \in Seq(Strings), i \in 1..n :
        Collected(o, a, args[i]) \in Seq(Strings)
  <2>1. \A a \in Seq(Strings), w \in Strings : Append(a, w) \in Seq(Strings)
    OBVIOUS
  <2> QED BY <1>2, <2>1 DEF Collected
<1> DEFINE body(f) == [i \in 0..n |-> IF i = 0 THEN <<>>
                                      ELSE Collected(o, f[i - 1], args[i])]
           of == CHOOSE f : f = body(f)
<1>4. \E f : f = body(f)
  <2>1. PICK turn \in [Seq(Strings) \X (1..n) -> Seq(Strings)] :
          \A a \in Seq(Strings), i \in 1..n :
            turn[<<a, i>>] = Collected(o, a, args[i])
    <3> DEFINE t == [p \in Seq(Strings) \X (1..n) |->
                       Collected(o, p[1], args[p[2]])]
    <3>1. t \in [Seq(Strings) \X (1..n) -> Seq(Strings)]
      BY <1>3
    <3>2. \A a \in Seq(Strings), i \in 1..n :
            t[<<a, i>>] = Collected(o, a, args[i])
      OBVIOUS
    <3> HIDE DEF t
    <3> QED BY <3>1, <3>2
  <2>2. <<>> \in Seq(Strings)
    OBVIOUS
  <2>3. PICK f : Turns(n, Seq(Strings), <<>>, turn, f)
    BY <2>1, <2>2, RecursionExists
  <2>4. f \in [0..n -> Seq(Strings)] /\ f[0] = <<>>
    BY <2>3 DEF Turns
  <2>5. \A i \in 1..n : f[i] = Collected(o, f[i - 1], args[i])
    <3> TAKE i \in 1..n
    <3>1. i - 1 \in 0..n
      OBVIOUS
    <3> QED BY <2>1, <2>3, <2>4, <3>1 DEF Turns
  <2>6. f = body(f)
    BY <2>4, <2>5
  <2> QED BY <2>6
<1>5. of = body(of)
  <2> HIDE DEF body
  <2> QED BY <1>4
<1>6. ValuesOf(args, o) = of[n]
  BY <1>1 DEF ValuesOf, Collected
<1> HIDE DEF of
<1>7. /\ of = [i \in 0..n |-> of[i]]
      /\ of[0] = <<>>
      /\ \A i \in 1..n : of[i] = Collected(o, of[i - 1], args[i])
  <2>1. DOMAIN of = 0..n
    BY <1>5
  <2>2. of = [i \in 0..n |-> of[i]]
    BY <1>5, <2>1
  <2>3. of[0] = <<>>
    BY <1>5
  <2>4. \A i \in 1..n : of[i] = Collected(o, of[i - 1], args[i])
    BY <1>5
  <2> QED BY <2>2, <2>3, <2>4
<1>8. \A i \in 0..n : of[i] \in Seq(Strings)
  <2>1. \A i \in 1..n : of[i - 1] \in Seq(Strings)
                           => of[i] \in Seq(Strings)
    BY <1>3, <1>7
  <2>2. of[0] \in Seq(Strings)
    BY <1>7
  <2> QED BY <2>1, <2>2, RecursionKeeps
<1>9. of \in [0..n -> Seq(Strings)]
  BY <1>7, <1>8
<1> QED BY <1>1, <1>6, <1>7, <1>9

\* What the arguments make of an option with these values: its first, or all
\* if it is a list.
Values(o, values) ==
  IF Kind[o] = "list" \/ values = <<>> THEN values ELSE <<values[1]>>

\* The options of the command line are those it gives, but for
\* --client_dumptype.
LEMMA ArgumentsMerged ==
  ASSUME NEW args \in Seq(ArgType), NEW o \in Options,
         \A i \in DOMAIN args : Kind[args[i][1]] = "boolean"
                                  => args[i][2] = "true",
         Given(args, "client_dumptype")
           => o \notin {"client_dumpfile", "client_dumptype"}
  PROVE  /\ Arguments(Unset, args)[o] = Values(o, ValuesOf(args, o))
         /\ Given(args, o) <=> ValuesOf(args, o) # <<>>
         /\ Given(args, o) /\ Kind[o] = "boolean"
              => Arguments(Unset, args)[o] = <<"true">>
<1>1. PICK n \in Nat : n = Len(args)
  OBVIOUS
<1>2. Unset \in OptionType /\ Unset[o] = <<>>
  BY DEF Unset, OptionType
<1>3. PICK f \in [0..n -> OptionType] :
        /\ f[0] = Unset
        /\ \A i \in 1..n : f[i] = Argument(f[i - 1], args[i])
        /\ Arguments(Unset, args) = f[n]
  BY <1>1, <1>2, ArgumentsUnfold
<1>4. PICK g \in [0..n -> Seq(Strings)] :
        /\ g[0] = <<>>
        /\ \A i \in 1..n : g[i] = Collected(o, g[i - 1], args[i])
        /\ ValuesOf(args, o) = g[n]
  BY <1>1, ValuesUnfold
<1> DEFINE Same(i) == /\ f[i][o] = Values(o, g[i])
                      /\ g[i] # <<>> <=> \E j \in 1..i : args[j][1] = o
                      /\ g[i] # <<>> /\ Kind[o] = "boolean"
                           => g[i][1] = "true"
           T == {m \in Nat : m <= n => Same(m)}
<1>5. 0 \in T
  BY <1>2, <1>3, <1>4 DEF Values
<1>6. ASSUME NEW k \in Nat, k \in T
      PROVE  k + 1 \in T
  <2> SUFFICES ASSUME k + 1 <= n
               PROVE  Same(k + 1)
    <3> HIDE DEF Same
    <3> QED OBVIOUS
  <2>1. /\ k \in 0..n /\ k + 1 \in 1..n /\ k + 1 - 1 = k
        /\ k + 1 \in DOMAIN args /\ Same(k)
    BY <1>1, <1>6
  <2> DEFINE a == args[k + 1]
             target == IF a[1] = "client_dumptype" THEN "client_dumpfile"
                       ELSE a[1]
  <2>2. a[1] \in Options /\ a[2] \in Strings /\ target \in Options
    BY <2>1 DEF ArgType, Options, Kind
  <2>3. a[1] = "client_dumptype" => Given(args, "client_dumptype")
    BY <2>1 DEF Given
  <2>4. target = o <=> a[1] = o
    BY <2>3
  <2>5. f[k + 1] = Assign(f[k], target, a[2])
    <3>1. f[k + 1] = Argument(f[k], a)
      BY <1>3, <2>1
    <3> QED BY <3>1 DEF Argument
  <2>6. g[k + 1] = Collected(o, g[k], a)
    BY <1>4, <2>1
  <2>7. f[k] \in OptionType /\ g[k] \in Seq(Strings)
    BY <1>3, <1>4, <2>1
  <2>8. Kind[a[1]] = "boolean" => a[2] = "true"
    BY <2>1
  <2>9. (\E j \in 1..(k + 1) : args[j][1] = o)
          <=> (\E j \in 1..k : args[j][1] = o) \/ a[1] = o
    <3>1. \A j \in 1..(k + 1) : j \in 1..k \/ j = k + 1
      OBVIOUS
    <3>2. \A j \in 1..k : j \in 1..(k + 1)
      OBVIOUS
    <3>3. k + 1 \in 1..(k + 1)
      OBVIOUS
    <3> HIDE DEF T, Same
    <3>4. args[k + 1][1] = o => \E j \in 1..(k + 1) : args[j][1] = o
      BY <3>3
    <3> QED BY <3>1, <3>2, <3>4, Zenon
  <2> HIDE DEF a, target
  <2>10. CASE a[1] # o
    <3>1. f[k + 1][o] = f[k][o] /\ g[k + 1] = g[k]
      BY <2>2, <2>4, <2>5, <2>6, <2>7, <2>10, AssignSets DEF Collected
    <3> QED BY <2>1, <2>9, <2>10, <3>1
  <2>11. CASE a[1] = o
    <3>1. /\ g[k + 1] = Append(g[k], a[2]) /\ g[k + 1] # <<>>
          /\ g[k] = <<>> => g[k + 1][1] = a[2]
          /\ g[k] # <<>> => g[k + 1][1] = g[k][1]
      <4>1. g[k + 1] = Append(g[k], a[2])
        BY <2>6, <2>11 DEF Collected
      <4>2. /\ g[k] = <<>> => Len(g[k]) = 0
            /\ g[k] # <<>> => Len(g[k]) > 0
        BY <2>7
      <4>3. /\ g[k + 1] \in Seq(Strings)
            /\ Len(g[k + 1]) = Len(g[k]) + 1
            /\ Len(g[k]) \in Nat
        BY <2>2, <2>7, <4>1
      <4>4. g[k + 1] # <<>>
        BY <4>3
      <4>5. g[k] = <<>> => g[k + 1][1] = a[2]
        BY <2>2, <2>7, <4>1, <4>2
      <4>6. g[k] # <<>> => g[k + 1][1] = g[k][1]
        BY <2>2, <2>7, <4>1, <4>2
      <4> QED BY <4>1, <4>4, <4>5, <4>6
    <3>2. f[k + 1][o] = Assigned(o, f[k][o], a[2])
      BY <2>2, <2>4, <2>5, <2>7, <2>11, AssignSets
    <3>3. CASE Kind[o] = "list"
      BY <2>1, <2>9, <2>11, <3>1, <3>2, <3>3 DEF Values, Assigned
    <3>4. CASE Kind[o] # "list" /\ g[k] = <<>>
      BY <2>1, <2>8, <2>9, <2>11, <3>1, <3>2, <3>4 DEF Values, Assigned
    <3>5. CASE Kind[o] # "list" /\ g[k] # <<>>
      <4>1. f[k][o] = <<g[k][1]>> /\ f[k][o] # <<>>
        BY <2>1, <3>5 DEF Values
      <4>2. f[k + 1][o] = f[k][o]
        BY <2>1, <3>2, <3>5, <4>1 DEF Assigned
      <4> QED BY <2>1, <2>9, <2>11, <3>1, <3>5, <4>1, <4>2 DEF Values
    <3> QED BY <3>3, <3>4, <3>5
  <2> QED BY <2>10, <2>11
<1>7. Same(n)
  <2> HIDE DEF T
  <2>1. n \in T
    BY <1>5, <1>6, Induction
  <2> QED BY <2>1 DEF T
<1>8. DOMAIN args = 1..n
  BY <1>1
<1> QED BY <1>3, <1>4, <1>7, <1>8 DEF Given, Values

-----------------------------------------------------------------------------
(***************************************************************************)
(* The options of the file, event by event.                                *)
(***************************************************************************)
\* An event changes no option but the one whose key is remembered, and only the
\* scalar of its name makes it the key.
LEMMA LoadEventKeeps ==
  ASSUME NEW s \in LoadType, NEW event \in EventType, NEW o \in Options,
         s.key # o
  PROVE  /\ LoadEvent(s, event).option[o] = s.option[o]
         /\ event # Scalar(o) => LoadEvent(s, event).key # o
<1>1. s.option \in OptionType /\ s.key \in Strings /\ o # ""
  BY DEF LoadType, Options, Kind
<1>2. CASE event = <<"start">>
  BY <1>1, <1>2 DEF LoadEvent, LoadType
<1>3. CASE event = <<"end">>
  BY <1>1, <1>3 DEF LoadEvent, LoadType
<1>4. ASSUME NEW v \in Strings, event = Scalar(v), s.key = ""
      PROVE  /\ LoadEvent(s, event).option = s.option
             /\ LoadEvent(s, event).key \in {"", v}
  BY <1>4 DEF LoadEvent, Scalar, KeyOf, LoadType
<1>5. ASSUME NEW v \in Strings, event = Scalar(v), s.key # ""
      PROVE  /\ LoadEvent(s, event).option[o] = s.option[o]
             /\ LoadEvent(s, event).key \in {"", s.key}
  <2>1. LoadEvent(s, event) = ValueOf(s, v)
    BY <1>5 DEF LoadEvent, Scalar
  <2>2. ValueOf(s, v).key \in {"", s.key}
    BY DEF ValueOf, LoadType
  <2>3. ValueOf(s, v).option = IF s.key \in Options
                               THEN Assign(s.option, s.key, v) ELSE s.option
    BY DEF ValueOf, LoadType
  <2>4. s.key \in Options => Assign(s.option, s.key, v)[o] = s.option[o]
    <3>1. PICK k, opt : k = s.key /\ opt = s.option
      OBVIOUS
    <3>2. opt \in OptionType /\ k # o
      BY <1>1, <3>1
    <3>3. k \in Options => Assign(opt, k, v)[o] = opt[o]
      BY <3>2, AssignKeeps
    <3> QED BY <3>1, <3>3
  <2> QED BY <2>1, <2>2, <2>3, <2>4
<1>6. ASSUME NEW v \in Strings, event = Scalar(v)
      PROVE  /\ LoadEvent(s, event).option[o] = s.option[o]
             /\ event # Scalar(o) => LoadEvent(s, event).key # o
  BY <1>1, <1>4, <1>5, <1>6
<1> QED BY <1>2, <1>3, <1>6 DEF EventType

\* An event does not change an option that is given: none of a list that is
\* given is remembered as the key.
LEMMA LoadEventGiven ==
  ASSUME NEW s \in LoadType, NEW event \in EventType, NEW o \in Options,
         s.option[o] # <<>>,
         Kind[o] = "boolean" => s.option[o] = <<"true">>,
         s.key = o => Kind[o] # "list"
  PROVE  /\ LoadEvent(s, event).option[o] = s.option[o]
         /\ LoadEvent(s, event).key = o => Kind[o] # "list"
<1>1. s.option \in OptionType /\ s.key \in Strings /\ o # ""
  BY DEF LoadType, Options, Kind
<1>2. CASE event = <<"start">>
  BY <1>1, <1>2 DEF LoadEvent, LoadType
<1>3. CASE event = <<"end">>
  BY <1>1, <1>3 DEF LoadEvent, LoadType
<1>4. ASSUME NEW v \in Strings, event = Scalar(v), s.key = ""
      PROVE  /\ LoadEvent(s, event).option = s.option
             /\ LoadEvent(s, event).key = o => Kind[o] # "list"
  BY <1>1, <1>4 DEF LoadEvent, Scalar, KeyOf, LoadType
<1>5. ASSUME NEW v \in Strings, event = Scalar(v), s.key # ""
      PROVE  /\ LoadEvent(s, event).option[o] = s.option[o]
             /\ LoadEvent(s, event).key \in {"", s.key}
  <2>1. LoadEvent(s, event) = ValueOf(s, v)
    BY <1>5 DEF LoadEvent, Scalar
  <2>2. ValueOf(s, v).key \in {"", s.key}
    BY DEF ValueOf, LoadType
  <2>3. ValueOf(s, v).option = IF s.key \in Options
                               THEN Assign(s.option, s.key, v) ELSE s.option
    BY DEF ValueOf, LoadType
  <2>4. s.key \in Options /\ s.key # o
          => Assign(s.option, s.key, v)[o] = s.option[o]
    <3>1. PICK k, opt : k = s.key /\ opt = s.option
      OBVIOUS
    <3>2. opt \in OptionType
      BY <1>1, <3>1
    <3>3. k \in Options /\ k # o => Assign(opt, k, v)[o] = opt[o]
      BY <3>2, AssignKeeps
    <3> QED BY <3>1, <3>3
  <2>5. s.key = o => Assign(s.option, o, v)[o] = s.option[o]
    <3>1. PICK opt : opt = s.option
      OBVIOUS
    <3>2. opt \in OptionType /\ opt[o] # <<>>
      BY <1>1, <3>1
    <3>3. Kind[o] = "boolean" => opt[o] = <<"true">>
      BY <3>1
    <3>4. Assign(opt, o, v)[o] = Assigned(o, opt[o], v)
      BY <3>2, AssignSets
    <3>5. s.key = o => Kind[o] # "list"
      OBVIOUS
    <3>6. Kind[o] # "list" => Assigned(o, opt[o], v) = opt[o]
      BY <3>2, <3>3 DEF Assigned
    <3> QED BY <3>1, <3>4, <3>5, <3>6
  <2> QED BY <2>1, <2>2, <2>3, <2>4, <2>5
<1>6. ASSUME NEW v \in Strings, event = Scalar(v)
      PROVE  /\ LoadEvent(s, event).option[o] = s.option[o]
             /\ LoadEvent(s, event).key = o => Kind[o] # "list"
  BY <1>1, <1>4, <1>5, <1>6
<1> QED BY <1>2, <1>3, <1>6 DEF EventType

\* A file never changes an option that is given.
LEMMA GivenKept ==
  ASSUME NEW opt \in OptionType, NEW events \in Seq(EventType),
         NEW n \in 0..Len(events), NEW f, Reads(events, n, opt, f),
         NEW o \in Options, opt[o] # <<>>,
         Kind[o] = "boolean" => opt[o] = <<"true">>
  PROVE  f[n].option[o] = opt[o]
<1> DEFINE S == {s \in LoadType : /\ s.option[o] = opt[o]
                                  /\ s.key = o => Kind[o] # "list"}
<1>1. f[0] \in S
  <2>1. o # ""
    BY DEF Options, Kind
  <2>2. f[0] \in LoadType
    <3>1. f \in [0..n -> LoadType]
      BY DEF Reads
    <3>2. 0 \in 0..n
      OBVIOUS
    <3> QED BY <3>1, <3>2
  <2>3. f[0].option = opt /\ f[0].key = ""
    BY DEF Reads
  <2> QED BY <2>1, <2>2, <2>3
<1>2. ASSUME NEW i \in 1..n, f[i - 1] \in S
      PROVE  f[i] \in S
  <2>1. events[i] \in EventType
    OBVIOUS
  <2>2. f[i] = LoadEvent(f[i - 1], events[i])
    BY DEF Reads
  <2>3. f[i] \in LoadType
    BY <1>2, <2>1, <2>2, LoadEventTyped
  <2>4. /\ f[i].option[o] = f[i - 1].option[o]
        /\ f[i].key = o => Kind[o] # "list"
    BY <1>2, <2>1, <2>2, LoadEventGiven
  <2> QED BY <1>2, <2>3, <2>4
<1>3. \A i \in 0..n : f[i] \in S
  <2>1. n \in Nat
    OBVIOUS
  <2> HIDE DEF S
  <2> QED BY <1>1, <1>2, <2>1, RecursionKeeps
<1> QED BY <1>3

\* Events without the name of an option do not change it, unless its key is
\* remembered before them.
LEMMA Untouched ==
  ASSUME NEW opt \in OptionType, NEW events \in Seq(EventType),
         NEW n \in 0..Len(events), NEW f, Reads(events, n, opt, f),
         NEW o \in Options, NEW p \in 0..n, NEW q \in p..n, f[p].key # o,
         \A i \in (p + 1)..q : events[i] # Scalar(o)
  PROVE  f[q].option[o] = f[p].option[o] /\ f[q].key # o
<1> DEFINE S == {s \in LoadType : /\ s.option[o] = f[p].option[o]
                                  /\ s.key # o}
           g == [i \in 0..(q - p) |-> f[p + i]]
<1>1. f \in [0..n -> LoadType]
  BY DEF Reads
<1>2. g[0] \in S
  <2>1. p \in 0..n /\ g[0] = f[p]
    OBVIOUS
  <2> QED BY <1>1, <2>1
<1>3. ASSUME NEW i \in 1..(q - p), g[i - 1] \in S
      PROVE  g[i] \in S
  <2>1. PICK k \in Nat : /\ k = p + i /\ k \in 1..n /\ k \in (p + 1)..q
                          /\ k \in 1..Len(events)
                          /\ g[i] = f[k] /\ g[i - 1] = f[k - 1]
    <3>1. /\ p + i \in 1..n /\ p + i \in (p + 1)..q /\ p + (i - 1) = p + i - 1
          /\ i \in 0..(q - p) /\ i - 1 \in 0..(q - p)
      OBVIOUS
    <3>2. p + i \in 1..Len(events) /\ p + i \in Nat
      BY <3>1
    <3>3. g[i] = f[p + i] /\ g[i - 1] = f[p + i - 1]
      BY <3>1
    <3> HIDE DEF g
    <3> QED BY <3>1, <3>2, <3>3
  <2>2. events[k] \in EventType /\ events[k] # Scalar(o)
    BY <2>1
  <2>3. f[k] = LoadEvent(f[k - 1], events[k])
    BY <2>1 DEF Reads
  <2> HIDE DEF g
  <2>4. f[k - 1] \in S
    BY <1>3, <2>1
  <2>5. f[k] \in LoadType
    BY <2>2, <2>3, <2>4, LoadEventTyped
  <2>6. f[k].option[o] = f[k - 1].option[o] /\ f[k].key # o
    BY <2>2, <2>3, <2>4, LoadEventKeeps
  <2> QED BY <2>1, <2>4, <2>5, <2>6
<1>4. \A i \in 0..(q - p) : g[i] \in S
  <2>1. q - p \in Nat
    OBVIOUS
  <2> HIDE DEF S, g
  <2> QED BY <1>2, <1>3, <2>1, RecursionKeeps
<1>5. g[q - p] = f[q] /\ q - p \in 0..(q - p)
  OBVIOUS
<1> QED BY <1>4, <1>5

-----------------------------------------------------------------------------
(***************************************************************************)
(* The options of the file, entry by entry.                                *)
(***************************************************************************)
\* The two events of an entry without brackets.
LEMMA ScalarEvents ==
  ASSUME NEW e \in EntryType, ~e.array
  PROVE  /\ Len(EventsOf(e)) = 2
         /\ EventsOf(e)[1] = Scalar(e.key)
         /\ EventsOf(e)[2] = Scalar(e.values[1])
<1>1. EventsOf(e) = <<Scalar(e.key)>> \o <<Scalar(e.values[1])>>
  BY DEF EventsOf
<1>2. PICK k, v : k = Scalar(e.key) /\ v = Scalar(e.values[1])
  OBVIOUS
<1>3. EventsOf(e) = <<k>> \o <<v>>
  BY <1>1, <1>2
<1> QED BY <1>2, <1>3

\* The events of a sequence of values.
LEMMA ArrayEvents ==
  ASSUME NEW e \in EntryType, e.array, NEW m \in Nat, m = Len(e.values)
  PROVE  /\ Len(EventsOf(e)) = m + 3
         /\ EventsOf(e)[1] = Scalar(e.key)
         /\ EventsOf(e)[2] = <<"start">>
         /\ \A j \in 1..m : EventsOf(e)[j + 2] = Scalar(e.values[j])
         /\ EventsOf(e)[m + 3] = <<"end">>
<1> DEFINE vs == [i \in DOMAIN e.values |-> Scalar(e.values[i])]
<1>1. \A v \in Strings : Scalar(v) \in EventType
  BY DEF EventType
<1>2. <<"start">> \in EventType /\ <<"end">> \in EventType
  BY DEF EventType
<1>3. e.key \in Strings /\ e.values \in Seq(Strings)
  BY DEF EntryType
<1>4. DOMAIN e.values = 1..m
  BY <1>3
<1>5. /\ vs \in Seq(EventType) /\ Len(vs) = m
      /\ \A j \in 1..m : vs[j] = Scalar(e.values[j])
  <2>1. \A j \in 1..m : Scalar(e.values[j]) \in EventType
    BY <1>1, <1>3, <1>4
  <2> QED BY <1>4, <2>1
<1>6. EventsOf(e) = <<Scalar(e.key)>> \o (<<<<"start">>>> \o vs
                                           \o <<<<"end">>>>)
  BY DEF EventsOf
<1> HIDE DEF vs
<1>7. PICK k \in EventType, b \in EventType, z \in EventType :
        k = Scalar(e.key) /\ b = <<"start">> /\ z = <<"end">>
  <2>1. PICK k \in EventType : k = Scalar(e.key)
    BY <1>1, <1>3
  <2>2. PICK b \in EventType : b = <<"start">>
    BY <1>2
  <2>3. PICK z \in EventType : z = <<"end">>
    BY <1>2
  <2> QED BY <2>1, <2>2, <2>3
<1>8. PICK t \in Seq(EventType) : t = <<k>> \o (<<b>> \o vs \o <<z>>)
  <2>1. /\ <<k>> \in Seq(EventType) /\ <<b>> \in Seq(EventType)
        /\ <<z>> \in Seq(EventType)
    OBVIOUS
  <2>2. \A a, c \in Seq(EventType) : a \o c \in Seq(EventType)
    OBVIOUS
  <2> QED BY <1>5, <2>1, <2>2
<1>9. /\ Len(t) = m + 3 /\ t[1] = k /\ t[2] = b
      /\ \A j \in 1..m : t[j + 2] = vs[j]
      /\ t[m + 3] = z
  BY <1>5, <1>8
<1>10. EventsOf(e) = t
  BY <1>6, <1>7, <1>8
<1> QED BY <1>5, <1>7, <1>9, <1>10

\* The name of an option is among the events of its own entry only.
LEMMA NameEvents ==
  ASSUME NEW e \in EntryType, ~e.array => e.values # <<>>,
         \A v \in DOMAIN e.values : e.values[v] \notin Options,
         NEW o \in Options, NEW l \in 1..Len(EventsOf(e)),
         EventsOf(e)[l] = Scalar(o)
  PROVE  e.key = o
<1>1. e.key \in Strings /\ e.values \in Seq(Strings)
  BY DEF EntryType
<1>2. \A v, w : Scalar(v) = Scalar(w) => v = w
  BY DEF Scalar
<1>3. \A v : Scalar(v) # <<"start">> /\ Scalar(v) # <<"end">>
  BY DEF Scalar
<1>4. CASE ~e.array
  <2>1. l = 1 \/ l = 2
    BY <1>4, ScalarEvents
  <2>2. e.values[1] # o
    BY <1>1, <1>4
  <2> QED BY <1>2, <1>4, <2>1, <2>2, ScalarEvents
<1>5. CASE e.array
  <2>1. PICK m \in Nat : m = Len(e.values)
    BY <1>1
  <2>2. /\ Len(EventsOf(e)) = m + 3
        /\ EventsOf(e)[1] = Scalar(e.key)
        /\ EventsOf(e)[2] = <<"start">>
        /\ \A j \in 1..m : EventsOf(e)[j + 2] = Scalar(e.values[j])
        /\ EventsOf(e)[m + 3] = <<"end">>
    BY <1>5, <2>1, ArrayEvents
  <2>3. l = 1 \/ l = 2 \/ l = m + 3 \/ \E j \in 1..m : l = j + 2
    <3>1. l \in 1..(m + 3)
      BY <2>2
    <3>2. l \notin {1, 2, m + 3} => l - 2 \in 1..m /\ l = (l - 2) + 2
      BY <3>1
    <3> QED BY <3>2
  <2>4. ASSUME NEW j \in 1..m, l = j + 2
        PROVE  FALSE
    <3>1. Scalar(e.values[j]) = Scalar(o)
      BY <2>2, <2>4
    <3>2. j \in DOMAIN e.values
      BY <1>1, <2>1
    <3> QED BY <1>2, <3>1, <3>2
  <2> QED BY <1>2, <1>3, <2>2, <2>3, <2>4
<1> QED BY <1>4, <1>5

\* A scalar is the key if there is none.
LEMMA LoadKey ==
  ASSUME NEW s \in LoadType, s.key = "", NEW v \in Strings
  PROVE  /\ LoadEvent(s, Scalar(v)).option = s.option
         /\ LoadEvent(s, Scalar(v)).seq = s.seq
         /\ LoadEvent(s, Scalar(v)).key = KeyOf(s, v)
BY DEF LoadEvent, Scalar, LoadType

\* A scalar is a value if there is a key.
LEMMA LoadValue ==
  ASSUME NEW s \in LoadType, s.key # "", NEW v \in Strings
  PROVE  /\ LoadEvent(s, Scalar(v)).option =
              IF s.key \in Options THEN Assign(s.option, s.key, v)
              ELSE s.option
         /\ LoadEvent(s, Scalar(v)).seq = s.seq
         /\ LoadEvent(s, Scalar(v)).key =
              IF \/ s.seq = 0
                 \/ /\ s.key \in Options /\ Kind[s.key] = "once"
                    /\ s.option[s.key] # <<>>
              THEN "" ELSE s.key
<1>1. LoadEvent(s, Scalar(v)) = ValueOf(s, v)
  BY DEF LoadEvent, Scalar
<1> QED BY <1>1 DEF ValueOf, LoadType

\* No key is remembered, and no sequence is open.
NoKey(s) == s.key = "" /\ s.seq = 0

\* The key is not that of a list that is set.
Free(s, k) == k \in Options /\ Kind[k] = "list" => s.option[k] = <<>>

\* An entry without brackets is read: its option has its value, if it had none,
\* and no key is left.
LEMMA ScalarEntry ==
  ASSUME NEW s \in LoadType, NoKey(s),
         NEW k \in Strings, k # "", NEW v \in Strings,
         Free(s, k), NEW t, t = LoadEvent(s, Scalar(k)),
         NEW u, u = LoadEvent(t, Scalar(v))
  PROVE  /\ NoKey(u)
         /\ k \in Options /\ s.option[k] = <<>> => u.option[k] = <<v>>
<1>1. t.option = s.option /\ t.seq = 0 /\ t.key = k
  BY LoadKey DEF KeyOf, NoKey, Free
<1>2. t \in LoadType
  <2>1. Scalar(k) \in EventType
    BY DEF EventType
  <2> QED BY <2>1, LoadEventTyped
<1>3. /\ u.option = IF k \in Options THEN Assign(s.option, k, v)
                    ELSE s.option
      /\ NoKey(u)
  BY <1>1, <1>2, LoadValue DEF NoKey
<1>4. ASSUME k \in Options, s.option[k] = <<>>
      PROVE  u.option[k] = <<v>>
  <2>1. PICK opt \in OptionType : opt = s.option
    BY DEF LoadType
  <2>2. Assign(opt, k, v)[k] = Assigned(k, opt[k], v)
    BY <1>4, AssignSets
  <2>3. PICK a \in Seq(Strings) : a = opt[k]
    <3>1. opt \in [Options -> Seq(Strings)]
      BY DEF OptionType
    <3> QED BY <1>4, <3>1
  <2>4. a = <<>>
    BY <1>4, <2>1, <2>3
  <2>5. Append(a, v) = <<v>>
    BY <2>4, AppendedToNone
  <2>6. Assigned(k, a, v) = <<v>>
    BY <2>4, <2>5 DEF Assigned
  <2> QED BY <1>3, <1>4, <2>1, <2>2, <2>3, <2>6
<1> QED BY <1>3, <1>4

\* A value of a sequence.
LEMMA ArrayValue ==
  ASSUME NEW s \in LoadType, s.seq = 1, NEW v \in Strings,
         NEW u, u = LoadEvent(s, Scalar(v))
  PROVE  /\ u \in LoadType /\ u.seq = 1
         /\ s.key \in Options /\ Kind[s.key] = "list"
              => u.key = s.key /\ u.option[s.key] = Append(s.option[s.key], v)
<1>1. Scalar(v) \in EventType
  BY DEF EventType
<1>2. u \in LoadType
  BY <1>1, LoadEventTyped
<1>3. u.seq = 1
  BY LoadKey, LoadValue
<1>4. ASSUME s.key \in Options, Kind[s.key] = "list"
      PROVE  u.key = s.key /\ u.option[s.key] = Append(s.option[s.key], v)
  <2>1. s.key # ""
    BY <1>4 DEF Options, Kind
  <2>2. u.key = s.key /\ u.option = Assign(s.option, s.key, v)
    <3>1. /\ u.option = IF s.key \in Options THEN Assign(s.option, s.key, v)
                        ELSE s.option
          /\ u.key = IF \/ s.seq = 0
                        \/ /\ s.key \in Options /\ Kind[s.key] = "once"
                           /\ s.option[s.key] # <<>>
                     THEN "" ELSE s.key
      BY <2>1, LoadValue
    <3> QED BY <1>4, <3>1
  <2>3. PICK opt \in OptionType, k \in Options : opt = s.option /\ k = s.key
    BY <1>4 DEF LoadType
  <2>4. Assign(opt, k, v)[k] = Assigned(k, opt[k], v)
    BY AssignSets
  <2>5. Assigned(k, opt[k], v) = Append(opt[k], v)
    BY <1>4, <2>3 DEF Assigned
  <2> QED BY <2>2, <2>3, <2>4, <2>5
<1> QED BY <1>2, <1>3, <1>4

\* The events of an entry follow event p.
EventsAt(events, p, e) ==
  \A l \in 1..Len(EventsOf(e)) : events[p + l] = EventsOf(e)[l]

\* An entry with brackets is read: a list has its values, if it had none, and
\* no key is left.
LEMMA ArrayEntry ==
  ASSUME NEW opt \in OptionType, NEW events \in Seq(EventType),
         NEW n \in 0..Len(events), NEW f, Reads(events, n, opt, f),
         NEW e \in EntryType, e.array,
         NEW p \in Nat, NEW z \in 0..n, z = p + Len(EventsOf(e)),
         EventsAt(events, p, e), NoKey(f[p])
  PROVE  /\ NoKey(f[z])
         /\ e.key \in Options /\ Kind[e.key] = "list"
              /\ f[p].option[e.key] = <<>>
              => f[z].option[e.key] = e.values
<1>0. PICK m \in Nat : m = Len(e.values)
  BY DEF EntryType
<1>1. /\ Len(EventsOf(e)) = m + 3
      /\ EventsOf(e)[1] = Scalar(e.key)
      /\ EventsOf(e)[2] = <<"start">>
      /\ \A j \in 1..m : EventsOf(e)[j + 2] = Scalar(e.values[j])
      /\ EventsOf(e)[m + 3] = <<"end">>
  BY <1>0, ArrayEvents
<1>2. /\ events[p + 1] = Scalar(e.key)
      /\ events[p + 2] = <<"start">>
      /\ \A j \in 1..m : events[p + (j + 2)] = Scalar(e.values[j])
      /\ events[p + (m + 3)] = <<"end">>
  <2>1. /\ 1 \in 1..(m + 3) /\ 2 \in 1..(m + 3) /\ m + 3 \in 1..(m + 3)
        /\ \A j \in 1..m : j + 2 \in 1..(m + 3)
    OBVIOUS
  <2>2. \A l \in 1..(m + 3) : events[p + l] = EventsOf(e)[l]
    BY <1>1 DEF EventsAt
  <2> QED BY <1>1, <2>1, <2>2
<1>3. z = p + (m + 3) /\ n \in Nat /\ p + (m + 3) <= n
  <2>1. z = p + (m + 3)
    BY <1>1
  <2>2. n \in Nat
    OBVIOUS
  <2> QED BY <2>1, <2>2
<1>4. \A i \in 0..n : f[i] \in LoadType
  <2>1. f \in [0..n -> LoadType]
    BY DEF Reads
  <2> QED BY <2>1
<1>5. \A i \in 1..n : f[i] = LoadEvent(f[i - 1], events[i])
  BY DEF Reads
<1>6. /\ e.key \in Strings /\ e.values \in Seq(Strings)
      /\ \A j \in 1..m : e.values[j] \in Strings
  <2>1. e.key \in Strings /\ e.values \in Seq(Strings)
    BY DEF EntryType
  <2> QED BY <1>0, <2>1
<1> DEFINE fresh == /\ e.key \in Options /\ Kind[e.key] = "list"
                    /\ f[p].option[e.key] = <<>>
<1>7. PICK t \in LoadType :
        /\ t = f[p + 1] /\ t.option = f[p].option /\ t.seq = 0
        /\ fresh => t.key = e.key
  <2>1. p \in 0..n /\ p + 1 \in 1..n /\ p + 1 - 1 = p /\ p + 1 \in 0..n
    BY <1>3
  <2>2. f[p + 1] = LoadEvent(f[p], Scalar(e.key))
    <3>1. f[p + 1] = LoadEvent(f[p + 1 - 1], events[p + 1])
      BY <1>5, <2>1
    <3> QED BY <1>2, <2>1, <3>1
  <2>3. f[p] \in LoadType /\ f[p + 1] \in LoadType
    BY <1>4, <2>1
  <2>4. /\ f[p + 1].option = f[p].option /\ f[p + 1].seq = f[p].seq
        /\ f[p + 1].key = KeyOf(f[p], e.key)
    <3>1. PICK s \in LoadType : s = f[p] /\ s.key = ""
      BY <2>3 DEF NoKey
    <3>2. PICK k \in Strings : k = e.key
      BY <1>6
    <3>3. PICK r : r = f[p + 1] /\ r = LoadEvent(s, Scalar(k))
      BY <2>2, <3>1, <3>2
    <3>4. r.option = s.option /\ r.seq = s.seq /\ r.key = KeyOf(s, k)
      <4>1. s.key = ""
        BY <3>1
      <4>2. r = LoadEvent(s, Scalar(k))
        BY <3>3
      <4> QED BY <4>1, <4>2, LoadKey
    <3> QED BY <3>1, <3>2, <3>3, <3>4
  <2>5. fresh => KeyOf(f[p], e.key) = e.key
    BY DEF KeyOf
  <2> QED BY <2>3, <2>4, <2>5 DEF NoKey
<1>8. PICK u \in LoadType :
        /\ u = f[p + 2] /\ u.option = f[p].option /\ u.seq = 1
        /\ fresh => u.key = e.key
  <2>1. p + 2 \in 1..n /\ p + 2 - 1 = p + 1 /\ p + 2 \in 0..n
    BY <1>3
  <2>2. f[p + 2] = LoadEvent(t, <<"start">>)
    <3>1. f[p + 2] = LoadEvent(f[p + 2 - 1], events[p + 2])
      BY <1>5, <2>1
    <3> QED BY <1>2, <1>7, <2>1, <3>1
  <2>3. LoadEvent(t, <<"start">>) = [t EXCEPT !.seq = 1]
    BY <1>7 DEF LoadEvent
  <2>4. f[p + 2] \in LoadType
    BY <1>4, <2>1
  <2> QED BY <1>7, <2>2, <2>3, <2>4 DEF LoadType
<1> DEFINE Held(s, j) ==
             fresh => /\ s.key = e.key
                      /\ s.option[e.key] \in Seq(Strings)
                      /\ Len(s.option[e.key]) = j
                      /\ \A l \in 1..j : s.option[e.key][l] = e.values[l]
           T == {j \in Nat : j <= m => /\ f[p + (j + 2)].seq = 1
                                      /\ Held(f[p + (j + 2)], j)}
<1>9. 0 \in T
  <2>1. p + (0 + 2) = p + 2
    OBVIOUS
  <2>2. Held(u, 0)
    <3> SUFFICES ASSUME fresh
                 PROVE  /\ u.key = e.key
                        /\ u.option[e.key] \in Seq(Strings)
                        /\ Len(u.option[e.key]) = 0
                        /\ 1..0 = {}
      OBVIOUS
    <3>1. PICK o \in OptionType : o = f[p].option
      BY <1>8 DEF LoadType
    <3>2. o[e.key] \in Seq(Strings) /\ o[e.key] = <<>>
      BY <3>1 DEF OptionType
    <3> QED BY <1>8, <3>1, <3>2
  <2> HIDE DEF Held
  <2> QED BY <1>8, <2>1, <2>2
<1>10. ASSUME NEW j \in Nat, j \in T
       PROVE  j + 1 \in T
  <2> SUFFICES ASSUME j + 1 <= m
               PROVE  /\ f[p + (j + 1 + 2)].seq = 1
                      /\ Held(f[p + (j + 1 + 2)], j + 1)
    <3> HIDE DEF Held
    <3> QED OBVIOUS
  <2>1. PICK q \in Nat : /\ q = p + (j + 1 + 2) /\ q \in 1..n
                         /\ q - 1 = p + (j + 2) /\ q - 1 \in 0..n
                         /\ q \in 0..n
    BY <1>3
  <2>2. PICK i \in 1..m : i = j + 1 /\ j <= m
    OBVIOUS
  <2>3. PICK v \in Strings : v = e.values[i] /\ events[q] = Scalar(v)
    BY <1>2, <1>6, <2>1, <2>2
  <2>4. PICK s \in LoadType : s = f[q - 1] /\ s.seq = 1 /\ Held(s, j)
    <3> HIDE DEF Held
    <3> QED BY <1>4, <1>10, <2>1, <2>2
  <2>5. PICK w \in LoadType : w = f[q] /\ w = LoadEvent(s, Scalar(v))
    BY <1>4, <1>5, <2>1, <2>3, <2>4
  <2>6. /\ w.seq = 1
        /\ s.key \in Options /\ Kind[s.key] = "list"
             => /\ w.key = s.key
                /\ w.option[s.key] = Append(s.option[s.key], v)
    BY <2>4, <2>5, ArrayValue
  <2>7. Held(w, j + 1)
    <3> SUFFICES ASSUME fresh
                 PROVE  /\ w.key = e.key
                        /\ w.option[e.key] \in Seq(Strings)
                        /\ Len(w.option[e.key]) = j + 1
                        /\ \A l \in 1..(j + 1) :
                             w.option[e.key][l] = e.values[l]
      OBVIOUS
    <3>1. PICK a \in Seq(Strings) :
            /\ a = s.option[e.key] /\ Len(a) = j
            /\ \A l \in 1..j : a[l] = e.values[l]
      BY <2>4
    <3>2. s.key = e.key
      BY <2>4
    <3>3. w.key = e.key /\ w.option[e.key] = Append(a, v)
      BY <2>6, <3>1, <3>2
    <3>4. PICK b \in Seq(Strings) : b = Append(a, v)
      <4>1. \A c \in Seq(Strings), y \in Strings : Append(c, y) \in Seq(Strings)
        OBVIOUS
      <4> QED BY <4>1
    <3>5. /\ Len(b) = i /\ b[i] = v
          /\ \A l \in 1..j : b[l] = a[l]
      BY <2>2, <3>1, <3>4
    <3>6. \A l \in 1..(j + 1) : l \in 1..j \/ l = i
      BY <2>2
    <3>7. \A l \in 1..(j + 1) : b[l] = e.values[l]
      BY <2>3, <3>1, <3>5, <3>6
    <3> QED BY <2>2, <3>3, <3>4, <3>5, <3>7
  <2> HIDE DEF Held
  <2> QED BY <2>1, <2>5, <2>6, <2>7
<1>11. PICK x \in LoadType : x = f[p + (m + 2)] /\ x.seq = 1 /\ Held(x, m)
  <2>1. m \in T
    <3> HIDE DEF T
    <3> QED BY <1>9, <1>10, Induction
  <2>2. p + (m + 2) \in 0..n
    BY <1>3
  <2> HIDE DEF Held
  <2> QED BY <1>4, <2>1, <2>2
<1>12. f[z].option = x.option /\ NoKey(f[z])
  <2>1. p + (m + 3) \in 1..n /\ p + (m + 3) - 1 = p + (m + 2)
    BY <1>3
  <2>2. f[z] = LoadEvent(x, <<"end">>)
    <3>1. z \in 1..n /\ z - 1 = p + (m + 2)
      BY <1>3, <2>1
    <3>2. f[z] = LoadEvent(f[z - 1], events[z])
      BY <1>5, <3>1
    <3>3. events[z] = <<"end">>
      BY <1>2, <1>3
    <3>4. f[z - 1] = x
      BY <1>11, <3>1
    <3> QED BY <3>2, <3>3, <3>4
  <2>3. LoadEvent(x, <<"end">>) = [x EXCEPT !.seq = 0, !.key = ""]
    BY <1>11 DEF LoadEvent
  <2> QED BY <2>2, <2>3 DEF LoadType, NoKey
<1>13. ASSUME fresh
       PROVE  x.option[e.key] = e.values
  <2>1. PICK a \in Seq(Strings) :
          /\ a = x.option[e.key] /\ Len(a) = m
          /\ \A l \in 1..m : a[l] = e.values[l]
    BY <1>11, <1>13
  <2>2. PICK b \in Seq(Strings) : b = e.values /\ Len(b) = m
    BY <1>0, <1>6
  <2>3. a = b
    BY <2>1, <2>2, SequencesEqual
  <2> QED BY <2>1, <2>2, <2>3
<1> QED BY <1>12, <1>13

-----------------------------------------------------------------------------
(***************************************************************************)
(* The options of the file: h[i] are the events of its first i entries.    *)
(***************************************************************************)
\* h[i] are the events of the first i entries of the file; they are read up to
\* event n, with opt for the options.
Reading(file, h, n, opt, f) ==
  /\ Joined(EventType, Parts(file), h)
  /\ h[Len(file)] \in Seq(EventType)
  /\ n \in 0..Len(h[Len(file)])
  /\ Reads(h[Len(file)], n, opt, f)

\* The number of events that are read.
LEMMA NumberRead ==
  ASSUME NEW opt, NEW file, NEW h, NEW n, NEW f, Reading(file, h, n, opt, f)
  PROVE  n \in Nat
<1>1. PICK events \in Seq(EventType) : n \in 0..Len(events)
  BY DEF Reading
<1> QED BY <1>1

\* The entries of a regular file.
LEMMA RegularEntries ==
  ASSUME NEW file \in Seq(EntryType), Regular(file)
  PROVE  /\ \A i \in DOMAIN file : ~file[i].array => file[i].values # <<>>
         /\ \A i \in DOMAIN file : \A v \in DOMAIN file[i].values :
              file[i].values[v] \notin Options
<1>1. \A i \in DOMAIN file : ~file[i].array => Len(file[i].values) = 1
  BY DEF Regular
<1>2. Len(<<>>) # 1
  OBVIOUS
<1>3. \A i \in DOMAIN file : ~file[i].array => file[i].values # <<>>
  BY <1>1, <1>2
<1> QED BY <1>3 DEF Regular

\* An event that is the name of an option comes from an entry of the option.
LEMMA NameOrigin ==
  ASSUME NEW file \in Seq(EntryType), Regular(file),
         NEW h, Joined(EventType, Parts(file), h),
         NEW a \in 0..Len(file), NEW b \in a..Len(file),
         NEW k \in (Len(h[a]) + 1)..Len(h[b]),
         NEW o \in Options, h[Len(file)][k] = Scalar(o)
  PROVE  \E j \in (a + 1)..b : file[j].key = o
<1>1. /\ Parts(file) \in Seq(Seq(EventType)) /\ Len(Parts(file)) = Len(file)
      /\ \A i \in 1..Len(file) : Parts(file)[i] = EventsOf(file[i])
  BY RegularEntries, PartsTyped
<1>2. PICK s \in Seq(Seq(EventType)) :
        s = Parts(file) /\ Len(s) = Len(file) /\ Joined(EventType, s, h)
  BY <1>1
<1>3. a \in 0..Len(s) /\ b \in a..Len(s)
  BY <1>2
<1>4. PICK j \in (a + 1)..b : \E l \in 1..Len(s[j]) : h[Len(s)][k] = s[j][l]
  <2>1. From(s, h, a + 1, b, k)
    BY <1>2, <1>3, JoinedOrigin
  <2> QED BY <2>1 DEF From
<1>5. j \in 1..Len(file) /\ j \in DOMAIN file
  OBVIOUS
<1>6. PICK e \in EntryType : e = file[j]
  BY <1>5
<1>7. PICK l \in 1..Len(EventsOf(e)) : EventsOf(e)[l] = Scalar(o)
  BY <1>1, <1>2, <1>4, <1>5, <1>6
<1>8. /\ ~e.array => e.values # <<>>
      /\ \A v \in DOMAIN e.values : e.values[v] \notin Options
  BY <1>5, <1>6, RegularEntries
<1>9. e.key = o
  BY <1>7, <1>8, NameEvents
<1> QED BY <1>6, <1>9

\* Event q is not before event p, the last of the first a entries, nor after
\* the first b entries, and those between are of other options.
Between(file, h, n, o, a, b, p, q) ==
  /\ p \in 0..n /\ p = Len(h[a])
  /\ q \in p..n /\ q <= Len(h[b])
  /\ \A j \in (a + 1)..b : file[j].key # o

\* The entries of other options do not change an option.
LEMMA OthersKeep ==
  ASSUME NEW opt \in OptionType, NEW file \in Seq(EntryType), Regular(file),
         NEW h, NEW n, NEW f, Reading(file, h, n, opt, f), NEW o \in Options,
         NEW a \in 0..Len(file), NEW b \in a..Len(file),
         NEW p, NEW q, Between(file, h, n, o, a, b, p, q), f[p].key # o
  PROVE  f[q].option[o] = f[p].option[o]
<1>0. /\ p \in 0..n /\ p = Len(h[a]) /\ q \in p..n /\ q <= Len(h[b])
      /\ \A j \in (a + 1)..b : file[j].key # o
  BY DEF Between
<1>1. PICK events \in Seq(EventType) : events = h[Len(file)]
  BY DEF Reading
<1>2. n \in 0..Len(events) /\ Reads(events, n, opt, f)
  BY <1>1 DEF Reading
<1>3. Joined(EventType, Parts(file), h)
  BY DEF Reading
<1>4. ASSUME NEW k \in (p + 1)..q, events[k] = Scalar(o)
      PROVE  FALSE
  <2>1. k \in (Len(h[a]) + 1)..Len(h[b])
    <3>1. PICK c \in Nat : c = Len(h[b])
      <4>1. h \in [0..Len(file) -> Seq(EventType)]
        BY <1>3, RegularEntries, PartsTyped DEF Joined
      <4>2. b \in 0..Len(file)
        OBVIOUS
      <4>3. h[b] \in Seq(EventType)
        BY <4>1, <4>2
      <4> QED BY <4>3
    <3>2. k \in (p + 1)..c
      BY <1>0, <3>1
    <3> QED BY <1>0, <3>1, <3>2
  <2>2. h[Len(file)][k] = Scalar(o)
    BY <1>1, <1>4
  <2>3. \E j \in (a + 1)..b : file[j].key = o
    BY <1>3, <2>1, <2>2, NameOrigin
  <2> QED BY <1>0, <2>3
<1>5. \A k \in (p + 1)..q : events[k] # Scalar(o)
  BY <1>4
<1>6. \A i \in 0..n : \A j \in i..n :
        f[i].key # o /\ (\A k \in (i + 1)..j : events[k] # Scalar(o))
          => f[j].option[o] = f[i].option[o]
  BY <1>2, Untouched
<1> QED BY <1>0, <1>5, <1>6

\* The events of an entry, among those of all entries.
LEMMA PartAt ==
  ASSUME NEW file \in Seq(EntryType), Regular(file),
         NEW h, Joined(EventType, Parts(file), h), NEW i \in 1..Len(file)
  PROVE  /\ EventsAt(h[Len(file)], Len(h[i - 1]), file[i])
         /\ Len(h[i]) = Len(h[i - 1]) + Len(EventsOf(file[i]))
         /\ Len(h[i - 1]) \in Nat
         /\ Len(h[i]) \in Nat
<1>1. PICK s \in Seq(Seq(EventType)) :
        /\ Len(s) = Len(file) /\ Joined(EventType, s, h)
        /\ \A j \in 1..Len(file) : s[j] = EventsOf(file[j])
  BY RegularEntries, PartsTyped
<1>2. i \in 1..Len(s)
  BY <1>1
<1>3. /\ Len(h[i]) = Len(h[i - 1]) + Len(s[i])
      /\ Len(h[i - 1]) \in Nat /\ Len(s[i]) \in Nat
  BY <1>1, <1>2, JoinedStep
<1>4. ASSUME NEW l \in 1..Len(s[i])
      PROVE  h[Len(s)][Len(h[i - 1]) + l] = s[i][l]
  BY <1>1, <1>2, JoinedPosition
<1>5. s[i] = EventsOf(file[i])
  BY <1>1
<1>6. EventsAt(h[Len(file)], Len(h[i - 1]), file[i])
  <2> SUFFICES ASSUME NEW l \in 1..Len(EventsOf(file[i]))
               PROVE  h[Len(file)][Len(h[i - 1]) + l] = EventsOf(file[i])[l]
    BY DEF EventsAt
  <2> QED BY <1>1, <1>4, <1>5
<1>7. Len(h[i]) \in Nat
  <2>1. PICK a \in Nat, b \in Nat : Len(h[i]) = a + b
    BY <1>3
  <2> QED BY <2>1
<1> QED BY <1>3, <1>5, <1>6, <1>7

\* The number of events up to an entry.
LEMMA PartLengths ==
  ASSUME NEW file \in Seq(EntryType), Regular(file),
         NEW h, Joined(EventType, Parts(file), h),
         NEW i \in 0..Len(file), NEW m \in i..Len(file)
  PROVE  /\ Len(h[i]) \in Nat /\ Len(h[m]) \in Nat
         /\ Len(h[i]) <= Len(h[m])
<1>1. PICK s \in Seq(Seq(EventType)) :
        Len(s) = Len(file) /\ Joined(EventType, s, h)
  BY RegularEntries, PartsTyped
<1>2. i \in 0..Len(s) /\ m \in i..Len(s)
  BY <1>1
<1>3. Len(h[i]) <= Len(h[m])
  BY <1>1, <1>2, JoinedLonger
<1>4. h \in [0..Len(s) -> Seq(EventType)]
  BY <1>1 DEF Joined
<1>5. i \in 0..Len(s) /\ m \in 0..Len(s)
  BY <1>1
<1>6. h[i] \in Seq(EventType) /\ h[m] \in Seq(EventType)
  BY <1>4, <1>5
<1> QED BY <1>3, <1>6

\* An entry as it should be.
RegularEntry(e) ==
  /\ e.key # ""
  /\ IF e.array THEN e.key \in Options => Kind[e.key] = "list"
     ELSE Len(e.values) = 1

\* The key of the entry is not dropped.
Taken(s, e) == ~e.array => Free(s, e.key)

\* The events of the entry are read between p and z.
EntryAt(opt, events, n, f, p, z, e) ==
  /\ Reads(events, n, opt, f)
  /\ EventsAt(events, p, e)
  /\ z = p + Len(EventsOf(e))
  /\ NoKey(f[p])

\* An entry is read: its option has its values, if it had none, and no key is
\* left.
LEMMA EntryRead ==
  ASSUME NEW opt \in OptionType, NEW events \in Seq(EventType),
         NEW n \in 0..Len(events), NEW f, NEW e \in EntryType,
         NEW p \in Nat, NEW z \in 0..n, EntryAt(opt, events, n, f, p, z, e),
         RegularEntry(e), Taken(f[p], e)
  PROVE  /\ NoKey(f[z])
         /\ e.key \in Options /\ f[p].option[e.key] = <<>>
              => f[z].option[e.key] = e.values
<1>1. CASE e.array
  <2>1. e.key \in Options => Kind[e.key] = "list"
    BY <1>1 DEF RegularEntry
  <2> QED BY <1>1, <2>1, ArrayEntry DEF EntryAt
<1>2. CASE ~e.array
  <2>1. PICK k \in Strings : k = e.key /\ k # ""
    BY DEF EntryType, RegularEntry
  <2>2. PICK v \in Strings : v = e.values[1] /\ <<v>> = e.values
    <3>1. e.values \in Seq(Strings) /\ Len(e.values) = 1
      BY <1>2 DEF EntryType, RegularEntry
    <3> QED BY <3>1
  <2>3. /\ Len(EventsOf(e)) = 2
        /\ EventsOf(e)[1] = Scalar(k) /\ EventsOf(e)[2] = Scalar(v)
    BY <1>2, <2>1, <2>2, ScalarEvents
  <2>4. events[p + 1] = Scalar(k) /\ events[p + 2] = Scalar(v)
    <3>1. \A l \in 1..2 : events[p + l] = EventsOf(e)[l]
      BY <2>3 DEF EventsAt, EntryAt
    <3> QED BY <2>3, <3>1
  <2>5. z = p + 2
    BY <2>3 DEF EntryAt
  <2>6. PICK s, t, u :
          /\ s \in LoadType /\ s = f[p] /\ t = LoadEvent(s, Scalar(k))
          /\ u = f[z] /\ u = LoadEvent(t, Scalar(v))
    <3>1. /\ p \in 0..n /\ p + 1 \in 1..n /\ p + 2 \in 1..n
          /\ p + 1 - 1 = p /\ p + 2 - 1 = p + 1
      BY <2>5
    <3>2. f[p] \in LoadType
      BY <3>1 DEF Reads, EntryAt
    <3>3. \A i \in 1..n : f[i] = LoadEvent(f[i - 1], events[i])
      BY DEF Reads, EntryAt
    <3>4. f[p + 1] = LoadEvent(f[p], Scalar(k))
      <4>1. f[p + 1] = LoadEvent(f[p + 1 - 1], events[p + 1])
        BY <3>1, <3>3
      <4> QED BY <2>4, <3>1, <4>1
    <3>5. f[p + 2] = LoadEvent(f[p + 1], Scalar(v))
      <4>1. f[p + 2] = LoadEvent(f[p + 2 - 1], events[p + 2])
        BY <3>1, <3>3
      <4> QED BY <2>4, <3>1, <4>1
    <3> QED BY <2>5, <3>2, <3>4, <3>5
  <2>7. NoKey(s)
    BY <2>6 DEF EntryAt
  <2>8. Free(s, k)
    BY <1>2, <2>1, <2>6 DEF Taken
  <2>9. k # ""
    BY <2>1
  <2>10. /\ s \in LoadType
         /\ t = LoadEvent(s, Scalar(k)) /\ u = LoadEvent(t, Scalar(v))
    BY <2>6
  <2>11. NoKey(u)
    BY <2>7, <2>8, <2>9, <2>10, ScalarEntry
  <2>12. k \in Options /\ s.option[k] = <<>> => u.option[k] = <<v>>
    BY <2>7, <2>8, <2>9, <2>10, ScalarEntry
  <2>13. NoKey(f[z])
    BY <2>6, <2>11
  <2> QED BY <2>1, <2>2, <2>6, <2>12, <2>13
<1> QED BY <1>1, <1>2

\* An option is not changed before its entry.
LEMMA HeldBefore ==
  ASSUME NEW opt \in OptionType, NEW file \in Seq(EntryType), Regular(file),
         NEW h, NEW n, NEW f, Reading(file, h, n, opt, f),
         NEW i \in 1..Len(file), NEW q \in 0..n, q = Len(h[i - 1]),
         NEW o \in Options, file[i].key = o
  PROVE  f[q].option[o] = f[0].option[o]
<1>1. /\ 0 \in 0..Len(file) /\ i - 1 \in 0..Len(file) /\ 0 \in 0..n
      /\ q \in 0..n /\ q <= Len(h[i - 1])
  <2>1. PICK c \in Nat : c = n
    BY NumberRead
  <2>2. 0 \in 0..c /\ q <= q
    BY <2>1
  <2>3. 0 \in 0..Len(file) /\ i - 1 \in 0..Len(file)
    OBVIOUS
  <2> QED BY <2>1, <2>2, <2>3
<1>2. 0 = Len(h[0])
  BY DEF Reading, Joined
<1>3. f[0].key # o
  <2>1. f[0].key = ""
    BY DEF Reading, Reads
  <2>2. o # ""
    BY DEF Options, Kind
  <2> QED BY <2>1, <2>2
<1>4. \A j \in (0 + 1)..(i - 1) : file[j].key # o
  <2>1. \A j \in 1..(i - 1) : j \in DOMAIN file /\ i \in DOMAIN file /\ j # i
    OBVIOUS
  <2>2. \A j, k \in DOMAIN file : file[j].key = file[k].key => j = k
    BY DEF Regular
  <2>3. \A j \in 1..(i - 1) : file[j].key # o
    BY <2>1, <2>2
  <2> QED BY <2>3
<1>5. Between(file, h, n, o, 0, i - 1, 0, q)
  BY <1>1, <1>2, <1>4 DEF Between
<1>6. 0 \in 0..Len(file) /\ i - 1 \in 0..Len(file)
  BY <1>1
<1> QED BY <1>3, <1>5, <1>6, OthersKeep

\* The events of entry i are those after event p up to event z.
Around(h, n, i, p, z) ==
  p \in 0..n /\ z \in 0..n /\ p = Len(h[i - 1]) /\ z = Len(h[i])

\* Each entry is read, if no key is left by those before it.
LEMMA PartRead ==
  ASSUME NEW opt \in OptionType, NEW file \in Seq(EntryType), Regular(file),
         NEW h, NEW n, NEW f, Reading(file, h, n, opt, f),
         NEW i \in 1..Len(file), NEW p, NEW z, Around(h, n, i, p, z),
         NoKey(f[p]), Taken(f[0], file[i])
  PROVE  /\ NoKey(f[z])
         /\ file[i].key \in Options /\ f[0].option[file[i].key] = <<>>
              => f[z].option[file[i].key] = file[i].values
<1>0. p \in 0..n /\ z \in 0..n /\ p = Len(h[i - 1]) /\ z = Len(h[i])
  BY DEF Around
<1>1. PICK e \in EntryType : e = file[i]
  OBVIOUS
<1>2. PICK events \in Seq(EventType) :
        /\ events = h[Len(file)] /\ n \in 0..Len(events)
        /\ Reads(events, n, opt, f)
  BY DEF Reading
<1>3. EventsAt(events, p, e) /\ z = p + Len(EventsOf(e))
  <2>1. Joined(EventType, Parts(file), h)
    BY DEF Reading
  <2>2. /\ EventsAt(h[Len(file)], Len(h[i - 1]), file[i])
        /\ Len(h[i]) = Len(h[i - 1]) + Len(EventsOf(file[i]))
    BY <2>1, PartAt
  <2> QED BY <1>0, <1>1, <1>2, <2>2
<1>4. EntryAt(opt, events, n, f, p, z, e)
  BY <1>2, <1>3 DEF EntryAt
<1>5. RegularEntry(e)
  <2>1. i \in DOMAIN file
    OBVIOUS
  <2>2. RegularEntry(file[i])
    BY <2>1 DEF Regular, RegularEntry
  <2> QED BY <1>1, <2>2
<1>6. e.key \in Options => f[p].option[e.key] = f[0].option[e.key]
  BY <1>0, <1>1, HeldBefore
<1>7. Taken(f[p], e)
  BY <1>1, <1>6 DEF Taken, Free
<1>8. p \in Nat /\ z \in 0..n
  BY <1>0
<1>9. n \in 0..Len(events)
  BY <1>2
<1>10. /\ NoKey(f[z])
       /\ e.key \in Options /\ f[p].option[e.key] = <<>>
            => f[z].option[e.key] = e.values
  BY <1>4, <1>5, <1>7, <1>8, <1>9, EntryRead
<1> QED BY <1>1, <1>6, <1>10

\* As long as no entry is dropped no key is left between two entries.
LEMMA Aligned ==
  ASSUME NEW opt \in OptionType, NEW file \in Seq(EntryType), Regular(file),
         NEW h, NEW n, NEW f, Reading(file, h, n, opt, f),
         NEW i \in 0..Len(file), Len(h[i]) <= n,
         \A j \in 1..i : Taken(f[0], file[j])
  PROVE  NoKey(f[Len(h[i])])
<1> DEFINE T == {m \in Nat : m <= i => NoKey(f[Len(h[m])])}
<1>1. 0 \in T
  <2>1. Len(h[0]) = 0
    BY DEF Reading, Joined
  <2>2. NoKey(f[0])
    BY DEF Reading, Reads, NoKey
  <2> QED BY <2>1, <2>2
<1>2. ASSUME NEW m \in Nat, m \in T
      PROVE  m + 1 \in T
  <2> SUFFICES ASSUME NEW k \in 1..i, k = m + 1
               PROVE  NoKey(f[Len(h[k])])
    OBVIOUS
  <2>1. k \in 1..Len(file) /\ k - 1 = m /\ m <= i
    OBVIOUS
  <2>2. Joined(EventType, Parts(file), h)
    BY DEF Reading
  <2>3. Len(h[m]) \in Nat /\ Len(h[k]) \in Nat /\ Len(h[m]) <= Len(h[k])
    <3>1. m \in 0..Len(file) /\ k \in m..Len(file)
      BY <2>1
    <3> QED BY <2>2, <3>1, PartLengths
  <2>4. Len(h[k]) <= n
    <3>1. k \in 0..Len(file) /\ i \in k..Len(file)
      BY <2>1
    <3>2. Len(h[k]) <= Len(h[i]) /\ Len(h[i]) \in Nat
      BY <2>2, <3>1, PartLengths
    <3>3. PICK c \in Nat : c = n
      BY NumberRead
    <3> QED BY <2>3, <3>2, <3>3
  <2>5. Taken(f[0], file[k])
    OBVIOUS
  <2>6. PICK p \in 0..n, z \in 0..n : p = Len(h[k - 1]) /\ z = Len(h[k])
    <3>1. PICK a \in Nat, b \in Nat :
            a = Len(h[m]) /\ b = Len(h[k]) /\ a <= b /\ b <= n
      BY <2>3, <2>4
    <3>2. PICK c \in Nat : c = n
      BY NumberRead
    <3>3. a \in 0..c /\ b \in 0..c
      BY <3>1, <3>2
    <3> QED BY <2>1, <3>1, <3>2, <3>3
  <2>7. NoKey(f[p])
    BY <1>2, <2>1, <2>6
  <2>8. NoKey(f[z])
    <3>1. k \in 1..Len(file)
      BY <2>1
    <3>2. Around(h, n, k, p, z)
      BY <2>6 DEF Around
    <3> QED BY <2>5, <2>7, <3>1, <3>2, PartRead
  <2> QED BY <2>6, <2>8
<1>3. i \in T
  <2>1. i \in Nat
    OBVIOUS
  <2> HIDE DEF T
  <2> QED BY <1>1, <1>2, <2>1, Induction
<1> QED BY <1>3

\* An option without entries is not changed.
LEMMA NoEntryMerged ==
  ASSUME NEW opt \in OptionType, NEW file \in Seq(EntryType), Regular(file),
         NEW h, NEW n, NEW f, Reading(file, h, n, opt, f), NEW o \in Options,
         \A j \in 1..Len(file) : file[j].key # o
  PROVE  f[n].option[o] = opt[o]
<1>1. PICK c \in Nat : c = n /\ c <= Len(h[Len(file)])
  <2>1. n \in Nat
    BY NumberRead
  <2>2. n <= Len(h[Len(file)])
    BY DEF Reading
  <2> QED BY <2>1, <2>2
<1>2. 0 \in 0..c /\ c \in 0..c
  OBVIOUS
<1>3. 0 = Len(h[0])
  BY DEF Reading, Joined
<1>4. f[0].key # o /\ f[0].option = opt
  <2>1. f[0].key = "" /\ f[0].option = opt
    BY DEF Reading, Reads
  <2>2. o # ""
    BY DEF Options, Kind
  <2> QED BY <2>1, <2>2
<1>5. 0 \in 0..Len(file) /\ Len(file) \in 0..Len(file)
  OBVIOUS
<1>6. \A j \in (0 + 1)..Len(file) : file[j].key # o
  OBVIOUS
<1>7. Between(file, h, n, o, 0, Len(file), 0, n)
  BY <1>1, <1>2, <1>3, <1>6 DEF Between
<1>8. f[n].option[o] = f[0].option[o]
  BY <1>4, <1>5, <1>7, OthersKeep
<1> QED BY <1>4, <1>8

\* An option that is unset has the values of its entry once that is read, and
\* no entry up to it is dropped.
LEMMA EntryMerged ==
  ASSUME NEW opt \in OptionType, NEW file \in Seq(EntryType), Regular(file),
         NEW h, NEW n, NEW f, Reading(file, h, n, opt, f),
         NEW i \in 1..Len(file), Len(h[i]) <= n,
         \A j \in 1..i : Taken(f[0], file[j]),
         NEW o \in Options, file[i].key = o, opt[o] = <<>>
  PROVE  f[n].option[o] = file[i].values
<1>1. PICK c \in Nat : c = n /\ c <= Len(h[Len(file)])
  <2>1. n \in Nat
    BY NumberRead
  <2>2. n <= Len(h[Len(file)])
    BY DEF Reading
  <2> QED BY <2>1, <2>2
<1>2. Joined(EventType, Parts(file), h)
  BY DEF Reading
<1>3. PICK m \in 0..Len(file) : m = i - 1 /\ i \in m..Len(file)
  OBVIOUS
<1>4. PICK p \in Nat, z \in Nat :
        p = Len(h[m]) /\ z = Len(h[i]) /\ p <= z /\ z <= c
  <2>1. Len(h[m]) \in Nat /\ Len(h[i]) \in Nat /\ Len(h[m]) <= Len(h[i])
    BY <1>2, <1>3, PartLengths
  <2> QED BY <1>1, <2>1
<1>5. p \in 0..n /\ z \in 0..n /\ c \in z..n
  BY <1>1, <1>4
<1>6. NoKey(f[p])
  <2>1. Len(h[m]) <= n
    BY <1>1, <1>4
  <2>2. \A j \in 1..m : Taken(f[0], file[j])
    BY <1>3
  <2>3. NoKey(f[Len(h[m])])
    BY <2>1, <2>2, Aligned
  <2> QED BY <1>4, <2>3
<1>7. Taken(f[0], file[i])
  OBVIOUS
<1>8. p = Len(h[i - 1])
  BY <1>3, <1>4
<1>9. /\ NoKey(f[z])
      /\ file[i].key \in Options /\ f[0].option[file[i].key] = <<>>
           => f[z].option[file[i].key] = file[i].values
  <2>1. Around(h, n, i, p, z)
    BY <1>4, <1>5, <1>8 DEF Around
  <2> QED BY <1>6, <1>7, <2>1, PartRead
<1>10. f[z].option[o] = file[i].values
  <2>1. f[0].option = opt
    BY DEF Reading, Reads
  <2> QED BY <1>9, <2>1
<1>11. f[z].key # o
  <2>1. o # ""
    BY DEF Options, Kind
  <2> QED BY <1>9, <2>1 DEF NoKey
<1>12. \A j \in (i + 1)..Len(file) : file[j].key # o
  <2>1. \A j \in (i + 1)..Len(file) : j \in DOMAIN file /\ j # i
    OBVIOUS
  <2>2. \A j, k \in DOMAIN file : file[j].key = file[k].key => j = k
    BY DEF Regular
  <2>3. i \in DOMAIN file
    OBVIOUS
  <2> QED BY <2>1, <2>2, <2>3
<1>13. i \in 0..Len(file) /\ Len(file) \in i..Len(file)
  OBVIOUS
<1>14. Between(file, h, n, o, i, Len(file), z, c)
  BY <1>1, <1>4, <1>5, <1>12 DEF Between
<1>15. f[c].option[o] = f[z].option[o]
  BY <1>11, <1>13, <1>14, OthersKeep
<1> QED BY <1>1, <1>10, <1>15

-----------------------------------------------------------------------------
(***************************************************************************)
(* The options of both, and the defaults.                                  *)
(***************************************************************************)
\* The file is read up to event n, which is the last, or where it breaks off.
LoadsAs(opt, file, end, h, n, f) ==
  /\ Reading(file, h, n, opt, f)
  /\ LoadFile(opt, file, end) = f[n].option
  /\ n = IF end < Len(h[Len(file)]) THEN end ELSE Len(h[Len(file)])

\* zlmb_option_load_file, entry by entry.
LEMMA FileReading ==
  ASSUME NEW opt \in OptionType, NEW file \in Seq(EntryType),
         \A i \in DOMAIN file : ~file[i].array => file[i].values # <<>>,
         NEW end \in Nat
  PROVE  \E h, n, f : LoadsAs(opt, file, end, h, n, f)
<1>0. PICK events0, n, f : Loaded(opt, file, end, events0, n, f)
  BY LoadFileUnfold
<1>1. PICK events \in Seq(EventType) :
        /\ events = events0 /\ n \in Nat
        /\ events = Seqs!FlattenSeq([i \in DOMAIN file |-> EventsOf(file[i])])
        /\ n = IF end < Len(events) THEN end ELSE Len(events)
        /\ Reads(events, n, opt, f)
        /\ LoadFile(opt, file, end) = f[n].option
  BY <1>0 DEF Loaded
<1>2. PICK s \in Seq(Seq(EventType)) : s = Parts(file) /\ Len(s) = Len(file)
  BY PartsTyped
<1>3. PICK h : Joined(EventType, s, h) /\ Seqs!FlattenSeq(s) = h[Len(s)]
  BY FlattenUnfold
<1>4. h[Len(file)] = events
  BY <1>1, <1>2, <1>3 DEF Parts
<1>5. n \in 0..Len(events)
  BY <1>1
<1>6. Reading(file, h, n, opt, f)
  BY <1>1, <1>2, <1>3, <1>4, <1>5 DEF Reading
<1> QED BY <1>1, <1>4, <1>6 DEF LoadsAs

\* The events up to an entry.
LEMMA EventsUpTo ==
  ASSUME NEW file \in Seq(EntryType), Regular(file),
         NEW h, Joined(EventType, Parts(file), h), NEW i \in 1..Len(file)
  PROVE  Seqs!FlattenSeq([j \in 1..i |-> EventsOf(file[j])]) = h[i]
<1>1. PICK s \in Seq(Seq(EventType)) :
        /\ Len(s) = Len(file) /\ Joined(EventType, s, h)
        /\ \A j \in 1..Len(file) : s[j] = EventsOf(file[j])
  BY RegularEntries, PartsTyped
<1>2. PICK t : t = [j \in 1..i |-> s[j]]
  OBVIOUS
<1>3. i \in 0..Len(s)
  BY <1>1
<1>4. Seqs!FlattenSeq(t) = h[i]
  BY <1>1, <1>2, <1>3, JoinedPrefix
<1>5. t = [j \in 1..i |-> EventsOf(file[j])]
  <2>1. \A j \in 1..i : s[j] = EventsOf(file[j])
    BY <1>1
  <2> QED BY <1>2, <2>1
<1> QED BY <1>4, <1>5

\* The arguments of an input.
LEMMA InputTyped ==
  ASSUME NEW in \in Inputs
  PROVE  /\ in.args \in Seq(ArgType) /\ in.file \in Seq(EntryType)
         /\ \A i \in DOMAIN in.args : Kind[in.args[i][1]] = "boolean"
                                        => in.args[i][2] = "true"
         /\ \A i \in DOMAIN in.file :
              ~in.file[i].array => in.file[i].values # <<>>
         /\ in.end \in Nat
BY InputsAssumption DEF ArgType, EntryType

\* --client_dumptype, which sets the dump file, is no matter of this option.
Plainly(in, o) ==
  Given(in.args, "client_dumptype")
    => o \notin {"client_dumpfile", "client_dumptype"}

\* The options of the command line, before the file is read.
LEMMA InputMerged ==
  ASSUME NEW in \in Inputs, NEW o \in Options, Plainly(in, o)
  PROVE  /\ Arguments(Unset, in.args)[o] = Values(o, ValuesOf(in.args, o))
         /\ Given(in.args, o) <=> ValuesOf(in.args, o) # <<>>
         /\ Given(in.args, o) /\ Kind[o] = "boolean"
              => Arguments(Unset, in.args)[o] = <<"true">>
<1>1. /\ in.args \in Seq(ArgType)
      /\ \A i \in DOMAIN in.args : Kind[in.args[i][1]] = "boolean"
                                     => in.args[i][2] = "true"
  BY InputTyped
<1>2. Given(in.args, "client_dumptype")
        => o \notin {"client_dumpfile", "client_dumptype"}
  BY DEF Plainly
<1> QED BY <1>1, <1>2, ArgumentsMerged

\* The keys that are dropped are those of lists that are given.
LEMMA TakenUnlessDropped ==
  ASSUME NEW in \in Inputs, NEW e \in EntryType, ~Dropped(in.args, e),
         NEW s, s.option = Arguments(Unset, in.args)
  PROVE  Taken(s, e)
<1> SUFFICES ASSUME ~e.array, e.key \in Options, Kind[e.key] = "list"
             PROVE  s.option[e.key] = <<>>
  BY DEF Taken, Free
<1>1. ~Given(in.args, e.key)
  BY DEF Dropped
<1>2. PICK o \in Options : o = e.key
  OBVIOUS
<1>3. Plainly(in, o)
  BY <1>2 DEF Plainly, Options, Kind
<1>4. ValuesOf(in.args, o) = <<>>
  BY <1>1, <1>2, <1>3, InputMerged
<1>5. Arguments(Unset, in.args)[o] = Values(o, ValuesOf(in.args, o))
  BY <1>3, InputMerged
<1> QED BY <1>2, <1>4, <1>5 DEF Values

\* The values of the entry of an option.
Entered(file, o) == file[CHOOSE i \in EntriesOf(file, o) : TRUE].values

\* An option the command line does not give has the values of its entry, if
\* that is read.
LEMMA FileMerged ==
  ASSUME NEW in \in Inputs, NEW o \in Options, Plainly(in, o),
         ~Given(in.args, o), Regular(in.file),
         \A i \in EntriesOf(in.file, o) : IsRead(in, i),
         NEW opt, opt = LoadFile(Arguments(Unset, in.args), in.file, in.end)
  PROVE  /\ EntriesOf(in.file, o) = {} => opt[o] = <<>>
         /\ EntriesOf(in.file, o) # {} => opt[o] = Entered(in.file, o)
<1>1. PICK file \in Seq(EntryType), end \in Nat :
        /\ file = in.file /\ end = in.end
        /\ \A i \in DOMAIN file : ~file[i].array => file[i].values # <<>>
  BY InputTyped
<1>2. PICK opt0 \in OptionType : opt0 = Arguments(Unset, in.args)
  <2>1. Unset \in OptionType
    BY DEF Unset, OptionType
  <2>2. in.args \in Seq(ArgType)
    BY InputTyped
  <2> QED BY <2>1, <2>2, ArgumentsTyped
<1>3. PICK h, n, f : LoadsAs(opt0, file, end, h, n, f)
  BY <1>1, FileReading
<1>4. /\ Reading(file, h, n, opt0, f) /\ opt = f[n].option
      /\ n = IF end < Len(h[Len(file)]) THEN end ELSE Len(h[Len(file)])
  BY <1>1, <1>2, <1>3 DEF LoadsAs
<1>5. Joined(EventType, Parts(file), h) /\ f[0].option = opt0
  BY <1>4 DEF Reading, Reads
<1>6. opt0[o] = <<>>
  <2>1. ValuesOf(in.args, o) = <<>>
    BY InputMerged
  <2>2. opt0[o] = Values(o, ValuesOf(in.args, o))
    BY <1>2, InputMerged
  <2> QED BY <2>1, <2>2 DEF Values
<1>7. Regular(file) /\ DOMAIN file = 1..Len(file)
  BY <1>1
<1>8. ASSUME EntriesOf(file, o) = {}
      PROVE  opt[o] = <<>>
  <2>1. \A j \in 1..Len(file) : file[j].key # o
    BY <1>7, <1>8 DEF EntriesOf
  <2>2. f[n].option[o] = opt0[o]
    BY <1>4, <1>7, <2>1, NoEntryMerged
  <2> QED BY <1>4, <1>6, <2>2
<1>9. ASSUME EntriesOf(file, o) # {}
      PROVE  opt[o] = Entered(file, o)
  <2>1. PICK i \in 1..Len(file) :
          /\ i = CHOOSE j \in EntriesOf(file, o) : TRUE
          /\ file[i].key = o /\ IsRead(in, i)
    <3>1. (CHOOSE j \in EntriesOf(file, o) : TRUE) \in EntriesOf(file, o)
      BY <1>9
    <3> QED BY <1>1, <1>7, <3>1 DEF EntriesOf
  <2>2. Len(h[i]) <= n
    <3>1. Len(h[i]) <= end
      <4>1. Len(Seqs!FlattenSeq([j \in 1..i |-> EventsOf(file[j])])) <= end
        BY <1>1, <2>1 DEF IsRead
      <4> QED BY <1>5, <1>7, <4>1, EventsUpTo
    <3>2. Len(h[i]) <= Len(h[Len(file)])
      <4>1. i \in 0..Len(file) /\ Len(file) \in i..Len(file)
        OBVIOUS
      <4> QED BY <1>5, <1>7, <4>1, PartLengths
    <3> QED BY <1>4, <3>1, <3>2
  <2>3. \A j \in 1..i : Taken(f[0], file[j])
    <3> TAKE j \in 1..i
    <3>1. PICK e \in EntryType : e = file[j]
      OBVIOUS
    <3>2. ~Dropped(in.args, e)
      BY <1>1, <2>1, <3>1 DEF IsRead
    <3>3. PICK s : s = f[0] /\ s.option = Arguments(Unset, in.args)
      BY <1>2, <1>5
    <3>4. Taken(s, e)
      BY <3>2, <3>3, TakenUnlessDropped
    <3> QED BY <3>1, <3>3, <3>4
  <2>4. f[n].option[o] = file[i].values
    <3>1. Reading(file, h, n, opt0, f)
      BY <1>4
    <3>2. Regular(file)
      BY <1>7
    <3>3. file[i].key = o
      BY <2>1
    <3> QED BY <1>6, <2>2, <2>3, <3>1, <3>2, <3>3, EntryMerged
  <2> QED BY <1>4, <2>1, <2>4 DEF Entered
<1> QED BY <1>1, <1>8, <1>9

\* A file does not change what the command line gives.
LEMMA GivenMerged ==
  ASSUME NEW in \in Inputs, NEW o \in Options, Plainly(in, o),
         Given(in.args, o),
         NEW opt, opt = LoadFile(Arguments(Unset, in.args), in.file, in.end)
  PROVE  opt[o] = Values(o, ValuesOf(in.args, o)) /\ opt[o] # <<>>
<1>1. PICK file \in Seq(EntryType), end \in Nat :
        /\ file = in.file /\ end = in.end
        /\ \A i \in DOMAIN file : ~file[i].array => file[i].values # <<>>
  BY InputTyped
<1>2. PICK opt0 \in OptionType : opt0 = Arguments(Unset, in.args)
  <2>1. Unset \in OptionType
    BY DEF Unset, OptionType
  <2>2. in.args \in Seq(ArgType)
    BY InputTyped
  <2> QED BY <2>1, <2>2, ArgumentsTyped
<1>3. PICK h, n, f : LoadsAs(opt0, file, end, h, n, f)
  BY <1>1, FileReading
<1>4. Reading(file, h, n, opt0, f) /\ opt = f[n].option
  BY <1>1, <1>2, <1>3 DEF LoadsAs
<1>5. PICK events \in Seq(EventType) :
        n \in 0..Len(events) /\ Reads(events, n, opt0, f)
  BY <1>4 DEF Reading
<1>6. /\ opt0[o] = Values(o, ValuesOf(in.args, o))
      /\ ValuesOf(in.args, o) # <<>>
      /\ Kind[o] = "boolean" => opt0[o] = <<"true">>
  BY <1>2, InputMerged
<1>7. opt0[o] # <<>>
  <2>1. \A v : <<v>> # <<>>
    OBVIOUS
  <2> QED BY <1>6, <2>1 DEF Values
<1>8. f[n].option[o] = opt0[o]
  BY <1>5, <1>6, <1>7, GivenKept
<1> QED BY <1>4, <1>6, <1>7, <1>8

\* The defaults are for the dump files that are unset.
LEMMA DefaultsSet ==
  ASSUME NEW opt \in OptionType, NEW o \in Options
  PROVE  Defaults(opt)[o] =
           IF o \in {"client_dumpfile", "subscribe_dumpfile"} /\ opt[o] = <<>>
           THEN <<"default">> ELSE opt[o]
<1>1. PICK c \in Options, s \in Options, v \in Strings :
        /\ c = "client_dumpfile" /\ s = "subscribe_dumpfile"
        /\ v = "default" /\ c # s
        /\ Kind[c] = "string" /\ Kind[s] = "string"
  BY StringsAssumption DEF Options, Kind
<1>2. PICK mid \in OptionType : mid = Assign(opt, c, v)
  BY <1>1, AssignTyped
<1>3. /\ mid[c] = Assigned(c, opt[c], v)
      /\ \A p \in Options : p # c => mid[p] = opt[p]
  BY <1>2, AssignSets
<1>4. /\ Assign(mid, s, v)[s] = Assigned(s, mid[s], v)
      /\ \A p \in Options : p # s => Assign(mid, s, v)[p] = mid[p]
  BY AssignSets
<1>5. Defaults(opt) = Assign(mid, s, v)
  BY <1>1, <1>2 DEF Defaults
<1>6. \A k \in {c, s} : \A values :
        Assigned(k, values, v) = IF values = <<>> THEN <<v>> ELSE values
  BY <1>1 DEF Assigned
<1>7. CASE o = c
  BY <1>1, <1>3, <1>4, <1>5, <1>6, <1>7
<1>8. CASE o = s
  BY <1>1, <1>3, <1>4, <1>5, <1>6, <1>8
<1>9. CASE o # c /\ o # s
  BY <1>1, <1>3, <1>4, <1>5, <1>9
<1> QED BY <1>7, <1>8, <1>9

\* Each option is what the command line, the file and the defaults say.
LEMMA OptionMerged ==
  ASSUME NEW in \in Inputs, NEW o \in Options, Plainly(in, o),
         ~Given(in.args, o) => /\ Regular(in.file)
                               /\ \A i \in EntriesOf(in.file, o) : IsRead(in, i)
  PROVE  OptionsOf(in)[o] = Wanted(in, o)
<1>1. PICK opt \in OptionType :
        opt = LoadFile(Arguments(Unset, in.args), in.file, in.end)
  <2>1. Unset \in OptionType
    BY DEF Unset, OptionType
  <2> QED BY <2>1, InputTyped, ArgumentsTyped, LoadFileTyped
<1>2. OptionsOf(in)[o] =
        IF o \in {"client_dumpfile", "subscribe_dumpfile"} /\ opt[o] = <<>>
        THEN <<"default">> ELSE opt[o]
  BY <1>1, DefaultsSet DEF OptionsOf
<1>3. CASE Given(in.args, o)
  <2>1. opt[o] = Values(o, ValuesOf(in.args, o)) /\ opt[o] # <<>>
    BY <1>1, <1>3, GivenMerged
  <2>2. ValuesOf(in.args, o) # <<>>
    BY <1>3, InputMerged
  <2>3. Wanted(in, o) = IF Kind[o] = "list" THEN ValuesOf(in.args, o)
                        ELSE <<ValuesOf(in.args, o)[1]>>
    BY <1>3 DEF Wanted
  <2> QED BY <1>2, <2>1, <2>2, <2>3 DEF Values
<1>4. CASE ~Given(in.args, o) /\ EntriesOf(in.file, o) = {}
  <2>1. opt[o] = <<>>
    BY <1>1, <1>4, FileMerged
  <2>2. Wanted(in, o) = IF o \in {"client_dumpfile", "subscribe_dumpfile"}
                        THEN <<"default">> ELSE <<>>
    BY <1>4 DEF Wanted
  <2> QED BY <1>2, <2>1, <2>2
<1>5. CASE ~Given(in.args, o) /\ EntriesOf(in.file, o) # {}
  <2>1. opt[o] = Entered(in.file, o)
    BY <1>1, <1>5, FileMerged
  <2>2. Wanted(in, o) = Entered(in.file, o)
    BY <1>5 DEF Wanted, Entered
  <2>3. o \in {"client_dumpfile", "subscribe_dumpfile"}
          => Entered(in.file, o) # <<>>
    <3> SUFFICES ASSUME o \in {"client_dumpfile", "subscribe_dumpfile"}
                 PROVE  Entered(in.file, o) # <<>>
      OBVIOUS
    <3>1. PICK i \in DOMAIN in.file :
            in.file[i].key = o /\ Entered(in.file, o) = in.file[i].values
      <4>1. (CHOOSE i \in EntriesOf(in.file, o) : TRUE)
              \in EntriesOf(in.file, o)
        BY <1>5
      <4> QED BY <4>1 DEF EntriesOf, Entered
    <3>2. Kind[o] # "list"
      BY DEF Kind
    <3>3. Len(in.file[i].values) = 1
      BY <1>5, <3>1, <3>2 DEF Regular
    <3>4. Len(<<>>) # 1
      OBVIOUS
    <3> QED BY <3>1, <3>3, <3>4
  <2> QED BY <1>2, <2>1, <2>2, <2>3
<1> QED BY <1>3, <1>4, <1>5

\* main has merged the options, whatever it is started with.
LEMMA OptionsOfMerged ==
  ASSUME NEW in \in Inputs
  PROVE  Merged(in, OptionsOf(in))
<1> SUFFICES ASSUME NEW o \in Options
             PROVE  \/ OptionsOf(in)[o] = Wanted(in, o)
                    \/ o \in {"client_dumptype", "client_dumpfile"}
                         /\ Given(in.args, "client_dumptype")
                    \/ /\ ~Given(in.args, o)
                       /\ Regular(in.file) =>
                            \E i \in EntriesOf(in.file, o) : ~IsRead(in, i)
  BY DEF Merged
<1>1. CASE Plainly(in, o) /\ ~(/\ ~Given(in.args, o)
                               /\ Regular(in.file) =>
                                    \E i \in EntriesOf(in.file, o) :
                                      ~IsRead(in, i))
  BY <1>1, OptionMerged
<1>2. CASE ~Plainly(in, o)
  BY <1>2 DEF Plainly
<1> QED BY <1>1, <1>2

-----------------------------------------------------------------------------
(***************************************************************************)
(* Types.                                                                  *)
(***************************************************************************)
Sockets == {"frontend", "backend", "client_frontend", "client_backend"}

\* A step ends only threads that main starts, and opens a socket it has.
Plain(s) ==
  \A i \in 1..Len(s) : /\ s[i].ends \subseteq {"backend", "monitor"}
                       /\ s[i].does = "open" => s[i].socket \in Sockets

\* The steps of each mode do.
LEMMA SetupPlain ==
  ASSUME NEW m \in Modes
  PROVE  Plain(Setup[m])
<1> DEFINE good(st) == /\ st.ends \subseteq {"backend", "monitor"}
                       /\ st.does = "open" => st.socket \in Sockets
<1>1. ASSUME NEW s, NEW k \in Nat, Len(s) = k, \A i \in 1..k : good(s[i])
      PROVE  Plain(s)
  BY <1>1 DEF Plain
<1>2. Plain(Endpoints2)
  <2>1. /\ Len(Endpoints2) = 5 /\ good(Endpoints2[1]) /\ good(Endpoints2[2])
        /\ good(Endpoints2[3]) /\ good(Endpoints2[4]) /\ good(Endpoints2[5])
    BY DEF Endpoints2, Step, Sockets
  <2> HIDE DEF good
  <2>2. \A i \in 1..5 : good(Endpoints2[i])
    <3>1. \A i \in 1..5 : i = 1 \/ i = 2 \/ i = 3 \/ i = 4 \/ i = 5
      OBVIOUS
    <3> QED BY <2>1, <3>1
  <2> QED BY <1>1, <2>1, <2>2
<1>3. Plain(BindThenMonitor)
  <2> DEFINE s == BindThenMonitor
  <2>1. Len(s) = 8
    BY DEF BindThenMonitor, Endpoints2
  <2>2. good(s[1]) /\ good(s[2]) /\ good(s[3]) /\ good(s[4])
    <3>1. s[1] = Endpoints2[1]
      BY DEF BindThenMonitor, Endpoints2
    <3>2. good(Endpoints2[1])
      BY DEF Endpoints2, Step, Sockets
    <3>3. good(s[2]) /\ good(s[3]) /\ good(s[4])
      BY DEF BindThenMonitor, Endpoints2, Step, Sockets
    <3> HIDE DEF good, s
    <3> QED BY <3>1, <3>2, <3>3
  <2>3. /\ good(s[5]) /\ good(s[6]) /\ good(s[7]) /\ good(s[8])
    BY DEF BindThenMonitor, Endpoints2, Step, Sockets
  <2> HIDE DEF good, s
  <2>4. \A i \in 1..8 : good(s[i])
    <3>1. \A i \in 1..8 : \/ i = 1 \/ i = 2 \/ i = 3 \/ i = 4 \/ i = 5
                          \/ i = 6 \/ i = 7 \/ i = 8
      OBVIOUS
    <3> QED BY <2>2, <2>3, <3>1
  <2>5. Plain(s)
    BY <1>1, <2>1, <2>4
  <2> QED BY <2>5 DEF s
<1>4. Plain(MonitorThenBind)
  <2> DEFINE s == MonitorThenBind
  <2>1. /\ Len(s) = 9 /\ good(s[1]) /\ good(s[2]) /\ good(s[3]) /\ good(s[4])
    BY DEF MonitorThenBind, Step, Sockets
  <2>2. /\ good(s[5]) /\ good(s[6]) /\ good(s[7]) /\ good(s[8]) /\ good(s[9])
    BY DEF MonitorThenBind, Step, Sockets
  <2> HIDE DEF good, s
  <2>3. \A i \in 1..9 : good(s[i])
    <3>1. \A i \in 1..9 : \/ i = 1 \/ i = 2 \/ i = 3 \/ i = 4 \/ i = 5
                          \/ i = 6 \/ i = 7 \/ i = 8 \/ i = 9
      OBVIOUS
    <3> QED BY <2>1, <2>2, <3>1
  <2>4. Plain(s)
    BY <1>1, <2>1, <2>3
  <2> QED BY <2>4 DEF s
<1>5. Plain(ClientThenSubscribe)
  <2> DEFINE s == ClientThenSubscribe
  <2>1. Len(s) = 15
    BY DEF ClientThenSubscribe, ClientSteps
  <2>2. good(s[1]) /\ good(s[2]) /\ good(s[3])
    <3>1. s[1] = ClientSteps[1]
      BY DEF ClientThenSubscribe, ClientSteps
    <3>2. good(ClientSteps[1])
      BY DEF ClientSteps, Step, Sockets
    <3>3. good(s[2]) /\ good(s[3])
      BY DEF ClientThenSubscribe, ClientSteps, Step, Sockets
    <3> HIDE DEF good, s
    <3> QED BY <3>1, <3>2, <3>3
  <2>3. good(s[4]) /\ good(s[5]) /\ good(s[6])
    BY DEF ClientThenSubscribe, ClientSteps, Step, Sockets
  <2>4. good(s[7]) /\ good(s[8]) /\ good(s[9])
    BY DEF ClientThenSubscribe, ClientSteps, Step, Sockets
  <2>5. good(s[10]) /\ good(s[11]) /\ good(s[12])
    BY DEF ClientThenSubscribe, ClientSteps, Step, Sockets
  <2>6. good(s[13]) /\ good(s[14]) /\ good(s[15])
    BY DEF ClientThenSubscribe, ClientSteps, Step, Sockets
  <2> HIDE DEF good, s
  <2>7. \A i \in 1..15 : good(s[i])
    <3>1. \A i \in 1..15 :
            \/ i = 1 \/ i = 2 \/ i = 3 \/ i = 4 \/ i = 5 \/ i = 6 \/ i = 7
            \/ i = 8 \/ i = 9 \/ i = 10 \/ i = 11 \/ i = 12 \/ i = 13
            \/ i = 14 \/ i = 15
      OBVIOUS
    <3> QED BY <2>2, <2>3, <2>4, <2>5, <2>6, <3>1
  <2>8. Plain(s)
    BY <1>1, <2>1, <2>7
  <2> QED BY <2>8 DEF s
<1> QED BY <1>2, <1>3, <1>4, <1>5 DEF Modes, Setup

\* The option values, while they are there; the rest needs that main is at a
\* step of its mode.
TypeInv ==
  /\ StartInv
  /\ TypeOK
  /\ mpc = "parse" => input \in Inputs

\* It holds when main starts.
LEMMA InitType == Init => TypeInv
<1> SUFFICES ASSUME Init
             PROVE  TypeInv
  OBVIOUS
<1>1. \A o \in Options : option[o] = <<>>
  BY DEF Init, Unset
<1>2. option \in [Options -> Seq(Strings)]
  BY DEF Init, Unset
<1>3. \A o \in Options : Len(option[o]) > 1 => Kind[o] = "list"
  BY <1>1
<1>4. signals \in 0..MaxSignals /\ failures \in 0..MaxFailures
  BY BoundsAssumption DEF Init
<1>5. {watched, missed, handled, interrupted} \subseteq BOOLEAN
  BY DEF Init
<1>6. /\ mode \in Modes \cup {"none"} /\ ~(mode # "none") /\ mpc = "parse"
      /\ open = {} /\ ending = {} /\ bpc = "none" /\ monpc = "none"
  BY DEF Init
<1>7. TypeOK
  BY <1>2, <1>3, <1>4, <1>5, <1>6 DEF TypeOK
<1> QED BY <1>7, InitInv DEF TypeInv, Init

\* The options are read, and forgotten when the server is called.
LEMMA OptionsType ==
  ASSUME TypeInv, ReadOptions \/ Require
  PROVE  TypeOK'
<1>1. /\ UNCHANGED <<step, open, bpc, monpc, ending, watched, missed, handled,
                     interrupted, signals, failures>>
  BY DEF ReadOptions, Require, threadVars, workerVars, signalVars
<1>2. mpc' \in {"require", "setup", "done"} /\ mode' \in Modes \cup {"none"}
  BY DEF ReadOptions, Require, TypeInv, TypeOK
<1>3. option' \in OptionType
  <2>1. CASE ReadOptions
    <3>1. option' = OptionsOf(input) /\ input \in Inputs
      BY <2>1 DEF ReadOptions, TypeInv
    <3> QED BY <3>1, OptionsTyped
  <2>2. CASE Require
    <3>1. Unset \in OptionType
      BY DEF Unset, OptionType
    <3> QED BY <2>2, <3>1 DEF Require
  <2> QED BY <2>1, <2>2
<1>4. mode' # "none" => step' \in 1..(Len(Setup[mode'])+1)
  <2>1. step = 1 /\ mode = "none"
    BY DEF TypeInv, StartInv, ControlInv, ReadOptions, Require
  <2>2. mode' # "none" => Len(Setup[mode']) \in Nat
    BY <1>2, SetupUndone
  <2> QED BY <1>1, <2>1, <2>2
<1> QED BY <1>1, <1>2, <1>3, <1>4 DEF TypeInv, TypeOK, OptionType

\* main's steps through its set-up.
LEMMA SetupType ==
  ASSUME TypeInv, SetupSucceeds \/ SetupBackend \/ SetupFails \/ Serve
  PROVE  TypeOK'
<1>1. /\ option' = option /\ mode' = mode /\ missed' = missed
      /\ signals' = signals /\ mpc = "setup"
      /\ mpc' \in {"setup", "end", "serve"}
  BY DEF SetupSucceeds, SetupBackend, SetupFails, Serve, InSetup, optionVars,
         workerVars, signalVars
<1>2. mode \in Modes /\ step \in 1..(Len(Setup[mode]) + 1)
  BY <1>1 DEF TypeInv, StartInv, ControlInv
<1>3. Len(Setup[mode]) \in Nat
  BY <1>2, SetupUndone
<1>4. step <= Len(Setup[mode]) =>
        /\ Now.ends \subseteq {"backend", "monitor"}
        /\ Now.does = "open" => Now.socket \in Sockets
  BY <1>2, <1>3, SetupPlain DEF Plain, Now
<1>5. step' \in 1..(Len(Setup[mode]) + 1)
  BY <1>2, <1>3
     DEF SetupSucceeds, SetupBackend, SetupFails, Serve, InSetup
<1>6. open' \subseteq Sockets
  BY <1>4 DEF SetupSucceeds, SetupBackend, SetupFails, Serve, InSetup, TypeInv,
              TypeOK, Sockets
<1>7. ending' \subseteq {"backend", "monitor"}
  BY <1>4 DEF SetupSucceeds, SetupBackend, SetupFails, Serve, InSetup, TypeInv,
              TypeOK
<1>8. /\ bpc' \in {"none", "signals", "loop", "done"}
      /\ monpc' \in {"none", "start", "signals", "check", "recv", "done"}
  BY DEF SetupSucceeds, SetupBackend, SetupFails, Serve, TypeInv, TypeOK,
         threadVars
<1>9. watched' \in BOOLEAN
  BY DEF SetupSucceeds, SetupBackend, SetupFails, Serve, TypeInv, TypeOK,
         workerVars
<1>10. handled' \in BOOLEAN /\ interrupted' \in BOOLEAN
  BY DEF SetupSucceeds, SetupBackend, SetupFails, Serve, TypeInv, TypeOK,
         signalVars
<1>11. failures' \in 0..MaxFailures
  BY BoundsAssumption
     DEF SetupSucceeds, SetupBackend, SetupFails, Serve, TypeInv, TypeOK
<1> QED BY <1>1, <1>5, <1>6, <1>7, <1>8, <1>9, <1>10, <1>11
        DEF TypeInv, TypeOK, Sockets

\* What main undoes.
LEMMA EndType ==
  ASSUME TypeInv, EndKill \/ EndJoin \/ EndClose \/ Destroy
  PROVE  TypeOK'
<1>1. /\ option' = option /\ mode' = mode /\ step' = step /\ missed' = missed
      /\ watched' = watched /\ signals' = signals /\ bpc' = bpc
      /\ failures' = failures /\ handled' = handled
  BY DEF EndKill, EndJoin, EndClose, Destroy, optionVars, workerVars,
         signalVars, threadVars
<1>2. mpc' \in {"killed", "join", "end", "destroy", "done"}
  BY DEF EndKill, EndJoin, EndClose, Destroy
<1>3. open' \subseteq open /\ ending' \subseteq ending
  BY DEF EndKill, EndJoin, EndClose, Destroy
<1>4. monpc' \in {monpc, "check"}
  BY DEF EndKill, EndJoin, EndClose, Destroy, EintrMonitor, threadVars
<1>5. interrupted' \in BOOLEAN
  BY DEF EndKill, EndJoin, EndClose, Destroy, signalVars, TypeInv, TypeOK
<1> QED BY <1>1, <1>2, <1>3, <1>4, <1>5 DEF TypeInv, TypeOK

\* The threads, the workers, and a signal.
LEMMA OthersType ==
  ASSUME TypeInv, Backend \/ Monitor \/ WorkerConnects \/ Signal
  PROVE  TypeOK'
<1>1. /\ option' = option /\ mode' = mode /\ step' = step /\ open' = open
      /\ watched' = watched /\ ending' = ending
  BY DEF Backend, Monitor, WorkerConnects, Signal, optionVars, workerVars
<1>2. mpc' \in {mpc, "killed", "done"}
  BY DEF Backend, Monitor, WorkerConnects, Signal
<1>3. bpc' \in {bpc, "loop", "done"}
  BY DEF Backend, Monitor, WorkerConnects, Signal, threadVars
<1>4. monpc' \in {monpc, "signals", "check", "recv", "done"}
  BY DEF Backend, Monitor, WorkerConnects, Signal, threadVars, EintrMonitor
<1>5. missed' \in BOOLEAN
  BY DEF Backend, Monitor, WorkerConnects, Signal, workerVars, TypeInv, TypeOK
<1>6. handled' \in BOOLEAN /\ interrupted' \in BOOLEAN
  BY DEF Backend, Monitor, WorkerConnects, Signal, signalVars, TypeInv, TypeOK
<1>7. signals' \in 0..MaxSignals /\ failures' \in 0..MaxFailures
  BY BoundsAssumption
     DEF Backend, Monitor, WorkerConnects, Signal, signalVars, TypeInv, TypeOK
<1> QED BY <1>1, <1>2, <1>3, <1>4, <1>5, <1>6, <1>7 DEF TypeInv, TypeOK

-----------------------------------------------------------------------------
(***************************************************************************)
(* The theorems.                                                           *)
(***************************************************************************)
\* Every step preserves the invariant.
LEMMA StartStep ==
  ASSUME StartInv, [Next]_vars
  PROVE  StartInv'
<1>1. CASE UNCHANGED vars
  BY <1>1 DEF vars, optionVars, workerVars, threadVars, signalVars, StartInv,
              ControlInv, OpenInv, ThreadInv, WatchInv, ReturnsClean,
              WorkersReported, Did, Now
<1>2. CASE ReadOptions \/ Require
  BY <1>2, OptionsKeep
<1>3. CASE SetupSucceeds
  BY <1>3, SucceedKeeps
<1>4. CASE SetupBackend
  BY <1>4, BackendStarts
<1>5. CASE SetupFails
  BY <1>5, FailKeeps
<1>6. CASE Serve \/ EndKill \/ EndJoin
  BY <1>6, EndKeeps
<1>7. CASE EndClose \/ Destroy
  BY <1>7, CloseKeeps
<1>8. CASE Backend \/ Monitor
  BY <1>8, ThreadsKeep
<1>9. CASE WorkerConnects
  BY <1>9, ConnectKeeps
<1>10. CASE Signal
  BY <1>10, SignalKeeps
<1> QED BY <1>1, <1>2, <1>3, <1>4, <1>5, <1>6, <1>7, <1>8, <1>9, <1>10
        DEF Next, MainStep

\* The invariant holds in every behaviour.
LEMMA StartInvariant == Spec => []StartInv
BY InitInv, StartStep, PTL DEF Spec

\* The options are what zlmb_option_set leaves of them: an option that is no
\* list has one value at most, whatever the command line and the file are.
THEOREM TypeCorrect == Spec => []TypeOK
<1>1. TypeInv /\ [Next]_vars => TypeInv'
  <2> SUFFICES ASSUME TypeInv, [Next]_vars
               PROVE  TypeInv'
    OBVIOUS
  <2>1. StartInv'
    BY StartStep DEF TypeInv
  <2>2. mpc' = "parse" => input' = input /\ mpc = "parse"
    BY DEF Next, MainStep, ReadOptions, Require, SetupSucceeds, SetupBackend,
           SetupFails, Serve, EndKill, EndJoin, EndClose, Destroy, Backend,
           Monitor, WorkerConnects, Signal, InSetup, optionVars, vars
  <2>3. TypeOK'
    <3>1. CASE UNCHANGED vars
      BY <3>1 DEF vars, optionVars, threadVars, workerVars, signalVars, TypeInv,
                  TypeOK
    <3>2. CASE ReadOptions \/ Require
      BY <3>2, OptionsType
    <3>3. CASE SetupSucceeds \/ SetupBackend \/ SetupFails \/ Serve
      BY <3>3, SetupType
    <3>4. CASE EndKill \/ EndJoin \/ EndClose \/ Destroy
      BY <3>4, EndType
    <3>5. CASE Backend \/ Monitor \/ WorkerConnects \/ Signal
      BY <3>5, OthersType
    <3> QED BY <3>1, <3>2, <3>3, <3>4, <3>5 DEF Next, MainStep
  <2> QED BY <2>1, <2>2, <2>3 DEF TypeInv
<1>2. TypeInv => TypeOK
  BY DEF TypeInv
<1> QED BY <1>1, <1>2, InitType, PTL DEF Spec

\* The options main looks at are those the command line gives, then those of
\* the file, then the defaults, whatever the arguments are, and however long the
\* file is and wherever it breaks off.
THEOREM OptionsAreMerged == Spec => []OptionsMerged
<1> DEFINE MergedInv == /\ mpc = "parse" => input \in Inputs
                        /\ OptionsMerged
<1>1. Init => MergedInv
  BY DEF Init, OptionsMerged
<1>2. MergedInv /\ [Next]_vars => MergedInv'
  <2> SUFFICES ASSUME MergedInv, [Next]_vars
               PROVE  MergedInv'
    OBVIOUS
  <2>1. CASE ReadOptions
    <3>1. /\ mpc' = "require" /\ input' = input /\ input \in Inputs
          /\ option' = OptionsOf(input)
      BY <2>1 DEF ReadOptions
    <3>2. Merged(input, OptionsOf(input))
      BY <3>1, OptionsOfMerged
    <3> QED BY <3>1, <3>2 DEF OptionsMerged
  <2>2. CASE ~ReadOptions
    <3>1. /\ mpc' \in {"parse", "require"} => mpc' = mpc
          /\ mpc' \in {"parse", "require"} =>
               input' = input /\ option' = option
      BY <2>2 DEF Next, MainStep, Require, SetupSucceeds, SetupBackend,
           SetupFails, Serve, EndKill, EndJoin, EndClose, Destroy, Backend,
           Monitor, WorkerConnects, Signal, InSetup, optionVars, vars
    <3> QED BY <3>1 DEF OptionsMerged
  <2> QED BY <2>1, <2>2
<1>3. MergedInv => OptionsMerged
  OBVIOUS
<1> QED BY <1>1, <1>2, <1>3, PTL DEF Spec

\* When a server whose set-up failed destroys its context, no thread uses it
\* any more and no socket is left open, but for the two that are known.
THEOREM SetupIsUndone == Spec => []ReturnsClean
<1>1. StartInv => ReturnsClean
  BY DEF StartInv
<1> QED BY <1>1, StartInvariant, PTL

\* In subscribe and client-subscribe no worker connects before its connection
\* is reported to the server.
THEOREM WorkersAreReported == Spec => []WorkersReported
<1>1. StartInv => WorkersReported
  BY DEF StartInv
<1> QED BY <1>1, StartInvariant, PTL
=============================================================================
