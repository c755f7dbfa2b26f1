------------------------- MODULE WorkerSpawnProofs -------------------------
(***************************************************************************)
(* What the commands of zlmb-worker are given, proved for any number of    *)
(* threads, messages, frames, signals and failures.                        *)
(*                                                                         *)
(* The linked list comes first: Listed says that a list holds the numbers  *)
(* from c + 1 on, and the calls of stack.c that zlmb-worker makes keep it. *)
(* The invariant of the worker threads then only says which numbers the    *)
(* list of a thread holds at each point, and that no two threads have the  *)
(* same message.                                                           *)
(*                                                                         *)
(* Last, the exception of CommandReturns and WorkerEnds, Held, is final.   *)
(***************************************************************************)
EXTENDS WorkerSpawn, FiniteSetTheorems, TLAPS

\* A list as MessageStack builds them, of numbers.
Item == [next : Nat, prev : Nat, data : Nat]

IsList(s) ==
  s \in [head : Nat, tail : Nat, size : Nat, item : [DOMAIN s.item -> Item]]

\* at has the addresses of the items of s, which hold c + 1, c + 2, ...
At(s, c, at) ==
  /\ at \in [1..s.size -> Nat \ {Nil}]
  /\ Chain(s, at)
  /\ \A k \in 1..s.size : s.item[at[k]].data = k + c

\* The list s holds the n numbers from c + 1 on.
Listed(s, c, n) == IsList(s) /\ s.size = n /\ \E at : At(s, c, at)

-----------------------------------------------------------------------------
(***************************************************************************)
(* The invariant.                                                          *)
(***************************************************************************)
Idle == {"loop", "poll", "done"}
Fed  == {"spawn", "close", "write", "wait"}

\* What a thread has received at each point.
ThreadControl(t) ==
  /\ (msg[t] = 0) <=> (pc[t] \in Idle)
  /\ pc[t] = "recv" => got[t] < Frames[msg[t]]
  /\ pc[t] = "pipe" /\ ~interrupted => got[t] = Frames[msg[t]]

ControlInv ==
  /\ TypeOK
  /\ got \in [Threads -> Nat]
  /\ stack = [t \in Threads |-> stack[t]]
  /\ \A t \in Threads : ThreadControl(t)

\* A message is in one place, and its input is empty until its command runs.
OwnerInv ==
  /\ \A t \in Threads : msg[t] <= taken
  /\ \A t \in Threads : \A i \in 1..Len(queue[t]) :
       queue[t][i] <= taken /\ input[queue[t][i]] = <<>>
  /\ \A t, u \in Threads : msg[t] = msg[u] /\ msg[t] # 0 => t = u
  /\ \A t, u \in Threads : \A i \in 1..Len(queue[t]) : msg[u] # queue[t][i]
  /\ \A t, u \in Threads : \A i \in 1..Len(queue[t]), j \in 1..Len(queue[u]) :
       queue[t][i] = queue[u][j] => t = u /\ i = j
  /\ \A m \in Messages : m > taken => input[m] = <<>>
  /\ \A t \in Threads : pc[t] \in {"recv", "pipe"} => input[msg[t]] = <<>>

\* What the list of a thread holds.
ThreadList(t) ==
  LET m == msg[t]
  IN
  /\ pc[t] \in {"recv", "pipe"} => Listed(stack[t], 0, got[t])
  /\ pc[t] \in Fed =>
       /\ Len(input[m]) <= env[m]
       /\ Listed(stack[t], Len(input[m]), env[m] - Len(input[m]))
       /\ input[m] = Upto(Len(input[m]))
       /\ ~interrupted => env[m] = Frames[m]
  /\ pc[t] = "wait" => Len(input[m]) = env[m]

ListInv == \A t \in Threads : ThreadList(t)

SpawnInv == ControlInv /\ OwnerInv /\ ListInv

\* A command that runs is the one its thread has started, or its thread was
\* kept from waiting for it.
RunningInv ==
  \A m \in running \ abandoned :
    \E t \in Threads : msg[t] = m /\ pc[t] \in {"close", "write", "wait"}

-----------------------------------------------------------------------------
(***************************************************************************)
(* The list.                                                               *)
(***************************************************************************)
\* malloc finds a free address.
LEMMA FreeAddressIsFree ==
  ASSUME NEW s, NEW c, NEW at, IsList(s), At(s, c, at)
  PROVE  FreeAddress(s) \in Nat \ {Nil} /\ FreeAddress(s) \notin DOMAIN s.item
<1> DEFINE n == s.size
<1>1. n \in Nat
  BY DEF IsList
<1>2. \E a \in 1..(n + 1) : a \notin DOMAIN s.item
  <2> SUFFICES ASSUME \A a \in 1..(n + 1) : a \in DOMAIN s.item
               PROVE  FALSE
    OBVIOUS
  <2> DEFINE g == [a \in 1..(n + 1) |-> CHOOSE k \in 1..n : at[k] = a]
  <2>1. \A a \in 1..(n + 1) : g[a] \in 1..n /\ at[g[a]] = a
    BY DEF At, Chain
  <2>2. g \in [1..(n + 1) -> 1..n]
    BY <2>1
  <2>3. /\ IsFiniteSet(1..(n + 1)) /\ Cardinality(1..(n + 1)) = n + 1
        /\ IsFiniteSet(1..n) /\ Cardinality(1..n) = n
    <3>1. \A k \in Nat : IsFiniteSet(1..k) /\ Cardinality(1..k) = k
      BY FS_Interval
    <3>2. n + 1 \in Nat
      BY <1>1
    <3> QED BY <1>1, <3>1, <3>2
  <2> DEFINE S == 1..(n + 1)
             T == 1..n
  <2>4. /\ g \in [S -> T] /\ IsFiniteSet(S) /\ IsFiniteSet(T)
        /\ Cardinality(T) < Cardinality(S)
    BY <1>1, <2>2, <2>3
  <2> HIDE DEF g, S, T
  <2>5. \E x, y \in S : x # y /\ g[x] = g[y]
    BY <2>4, FS_PigeonHole
  <2>6. PICK x, y \in S : x # y /\ g[x] = g[y]
    BY <2>5
  <2> QED BY <2>1, <2>6 DEF S
<1>3. FreeAddress(s) \in 1..(n + 1) /\ FreeAddress(s) \notin DOMAIN s.item
  BY <1>2 DEF FreeAddress
<1> QED BY <1>1, <1>3 DEF Nil

\* A new list is empty.
LEMMA NewListed ==
  ASSUME NEW c
  PROVE  Listed(NewStack, c, 0)
<1> DEFINE at == [k \in 1..0 |-> 1]
<1>1. IsList(NewStack)
  <2>1. <<>> \in [DOMAIN <<>> -> Item]
    OBVIOUS
  <2> QED BY <2>1 DEF IsList, NewStack, Nil
<1>2. NewStack.size = 0
  BY DEF NewStack
<1>3. At(NewStack, c, at)
  BY DEF At, Chain, NewStack
<1> QED BY <1>1, <1>2, <1>3 DEF Listed

\* zlmb_stack_push appends.
LEMMA PushListed ==
  ASSUME NEW s, NEW c \in Nat, NEW n \in Nat, Listed(s, c, n)
  PROVE  Listed(Push(s, c + n + 1), c, n + 1)
<1> DEFINE d == c + n + 1
           f == FreeAddress(s)
           r == Push(s, d)
<1>1. PICK at : At(s, c, at)
  BY DEF Listed
<1>2. IsList(s) /\ s.size = n
  BY DEF Listed
<1>3. f \in Nat \ {Nil} /\ f \notin DOMAIN s.item
  BY <1>1, <1>2, FreeAddressIsFree
<1> HIDE DEF f
<1>4. /\ \A k \in 1..n : at[k] \in DOMAIN s.item /\ at[k] # Nil /\ at[k] # f
      /\ s.head = Nil <=> n = 0
      /\ s.tail = Nil <=> n = 0
      /\ n # 0 => s.tail = at[n] /\ s.tail \in DOMAIN s.item
      /\ Nil \notin DOMAIN s.item
  BY <1>1, <1>2, <1>3 DEF At, Chain
<1> DEFINE linked == IF s.tail = Nil THEN s.item
                     ELSE [s.item EXCEPT ![s.tail].next = f]
           item == [a \in DOMAIN s.item \cup {f} |->
                      IF a = f THEN NewItem(Nil, s.tail, d) ELSE linked[a]]
<1>5. /\ linked \in [DOMAIN s.item -> Item]
      /\ \A a \in DOMAIN s.item :
           /\ linked[a].next = IF a = s.tail THEN f ELSE s.item[a].next
           /\ linked[a].prev = s.item[a].prev
           /\ linked[a].data = s.item[a].data
  <2>1. s.item \in [DOMAIN s.item -> Item]
    BY <1>2 DEF IsList
  <2>2. CASE s.tail = Nil
    BY <1>4, <2>1, <2>2
  <2>3. CASE s.tail # Nil
    BY <1>3, <1>4, <2>1, <2>3 DEF Item
  <2> QED BY <2>2, <2>3
<1>6. r = [head |-> IF n = 0 THEN f ELSE s.head, tail |-> f, size |-> n + 1,
           item |-> item]
  <2>1. WithItem([s EXCEPT !.item = linked], f, NewItem(Nil, s.tail, d)) = item
    BY <1>2, <1>5 DEF WithItem, IsList
  <2> HIDE DEF item, linked, d
  <2> QED BY <1>2, <1>4, <2>1 DEF Push, f, linked, d
<1> HIDE DEF linked
<1>7. /\ item \in [DOMAIN s.item \cup {f} -> Item]
      /\ item[f] = NewItem(Nil, s.tail, d)
      /\ \A a \in DOMAIN s.item : item[a] = linked[a]
  <2>1. NewItem(Nil, s.tail, d) \in Item
    BY <1>2 DEF IsList, Item, NewItem, Nil
  <2> QED BY <1>3, <1>5, <2>1
<1> HIDE DEF item
<1>8. /\ r.head = IF n = 0 THEN f ELSE s.head
      /\ r.tail = f
      /\ r.size = n + 1
      /\ r.item = item
      /\ DOMAIN r.item = DOMAIN s.item \cup {f}
      /\ r.item[f] = NewItem(Nil, s.tail, d)
      /\ \A a \in DOMAIN s.item :
           /\ r.item[a].next = IF a = s.tail THEN f ELSE s.item[a].next
           /\ r.item[a].prev = s.item[a].prev
           /\ r.item[a].data = s.item[a].data
  BY <1>5, <1>6, <1>7
<1>9. IsList(r)
  BY <1>2, <1>3, <1>6, <1>7 DEF IsList
<1> HIDE DEF r
<1> DEFINE to == [k \in 1..(n + 1) |-> IF k = n + 1 THEN f ELSE at[k]]
<1>10. At(r, c, to)
  <2>1. to \in [1..r.size -> Nat \ {Nil}]
    BY <1>1, <1>2, <1>3, <1>8 DEF At
  <2>2. DOMAIN r.item = {to[k] : k \in 1..r.size}
    <3>1. DOMAIN r.item = {at[k] : k \in 1..n} \cup {f} /\ r.size = n + 1
      BY <1>1, <1>2, <1>8 DEF At, Chain
    <3>2. \A k \in 1..n : k \in 1..(n + 1) /\ to[k] = at[k]
      OBVIOUS
    <3>3. n + 1 \in 1..(n + 1) /\ to[n + 1] = f
      OBVIOUS
    <3>4. \A k \in 1..(n + 1) : k \in 1..n \/ k = n + 1
      OBVIOUS
    <3> HIDE DEF to
    <3> QED BY <3>1, <3>2, <3>3, <3>4
  <2>3. \A j, k \in 1..r.size : to[j] = to[k] => j = k
    BY <1>1, <1>2, <1>4, <1>8 DEF At, Chain
  <2>4. /\ r.head = IF r.size = 0 THEN Nil ELSE to[1]
        /\ r.tail = IF r.size = 0 THEN Nil ELSE to[r.size]
    BY <1>1, <1>2, <1>8 DEF At, Chain
  <2>5. ASSUME NEW k \in 1..r.size
        PROVE  /\ r.item[to[k]].next = IF k = r.size THEN Nil ELSE to[k + 1]
               /\ r.item[to[k]].prev = IF k = 1 THEN Nil ELSE to[k - 1]
               /\ r.item[to[k]].data = k + c
    <3>1. CASE k = n + 1
      <4>1. to[k] = f /\ r.size = k /\ (k # 1 => to[k - 1] = at[n])
        BY <1>8, <3>1
      <4>2. s.tail = IF k = 1 THEN Nil ELSE at[n]
        BY <1>4, <3>1
      <4> QED BY <1>8, <3>1, <4>1, <4>2 DEF NewItem
    <3>2. CASE k \in 1..n
      <4>1. at[k] = s.tail <=> k = n
        <5>1. s.tail = at[n] /\ n \in 1..n
          BY <1>4, <3>2
        <5>2. \A j, l \in 1..n : at[j] = at[l] => j = l
          BY <1>1, <1>2 DEF At, Chain
        <5> QED BY <3>2, <5>1, <5>2
      <4>2. /\ to[k] = at[k] /\ at[k] \in DOMAIN s.item /\ r.size # k
            /\ to[k + 1] = IF k = n THEN f ELSE at[k + 1]
            /\ k # 1 => to[k - 1] = at[k - 1]
        BY <1>4, <1>8, <3>2
      <4>3. /\ s.item[at[k]].next = IF k = n THEN Nil ELSE at[k + 1]
            /\ s.item[at[k]].prev = IF k = 1 THEN Nil ELSE at[k - 1]
            /\ s.item[at[k]].data = k + c
        BY <1>1, <1>2, <3>2 DEF At, Chain
      <4> QED BY <1>8, <4>1, <4>2, <4>3
    <3>3. k = n + 1 \/ k \in 1..n
      BY <1>8
    <3> QED BY <3>1, <3>2, <3>3
  <2> QED BY <2>1, <2>2, <2>3, <2>4, <2>5 DEF At, Chain
<1> QED BY <1>8, <1>9, <1>10 DEF Listed, r

\* zlmb_stack_shift takes the first of them.
LEMMA ShiftListed ==
  ASSUME NEW s, NEW c \in Nat, NEW n \in Nat \ {0}, Listed(s, c, n)
  PROVE  Front(s) = c + 1 /\ Listed(Shift(s), c + 1, n - 1)
<1> DEFINE r == Shift(s)
           h == s.item[s.head].next
<1>1. PICK at : At(s, c, at)
  BY DEF Listed
<1>2. IsList(s) /\ s.size = n
  BY DEF Listed
<1>3. /\ s.head = at[1]
      /\ h = IF n = 1 THEN Nil ELSE at[2]
      /\ \A k \in 1..n : at[k] \in DOMAIN s.item /\ at[k] # Nil
      /\ \A j, k \in 1..n : at[j] = at[k] => j = k
  BY <1>1, <1>2 DEF At, Chain
<1>4. Front(s) = c + 1
  BY <1>1, <1>2, <1>3 DEF At, Front
<1>5. CASE n = 1
  <2>1. h = Nil
    BY <1>3, <1>5
  <2>2. Shift(s) =
          Emptied([head |-> h, tail |-> s.tail, size |-> s.size - 1,
                   item |-> Restrict(s.item, DOMAIN s.item \ {s.head})])
    BY <2>1 DEF Shift
  <2> HIDE DEF h
  <2>3. Shift(s) = NewStack
    BY <1>2, <1>5, <2>2 DEF Emptied, IsList
  <2> QED BY <1>4, <1>5, <2>3, NewListed
<1>6. CASE n # 1
  <2> DEFINE u == [s.item EXCEPT ![h].prev = Nil]
             v == Restrict(u, DOMAIN s.item \ {s.head})
  <2>1. h # Nil /\ h \in DOMAIN s.item /\ h = at[2] /\ h # s.head
    BY <1>3, <1>6
  <2>2. r = Emptied([head |-> h, tail |-> s.tail, size |-> s.size - 1,
                     item |-> v])
    BY <2>1 DEF Shift
  <2>3. /\ u \in [DOMAIN s.item -> Item]
        /\ \A a \in DOMAIN s.item :
             /\ u[a].next = s.item[a].next
             /\ u[a].prev = IF a = h THEN Nil ELSE s.item[a].prev
             /\ u[a].data = s.item[a].data
    <3> HIDE DEF h
    <3>1. s.item \in [DOMAIN s.item -> Item]
      BY <1>2 DEF IsList
    <3> QED BY <2>1, <3>1 DEF Item, Nil
  <2> HIDE DEF r, h, u
  <2>4. /\ v \in [DOMAIN s.item \ {s.head} -> Item]
        /\ \A a \in DOMAIN v : v[a] = u[a]
    BY <2>3 DEF Restrict
  <2> HIDE DEF v
  <2>5. r = [head |-> h, tail |-> s.tail, size |-> n - 1, item |-> v]
    <3>1. n - 1 # 0 /\ s.size = n
      BY <1>2, <1>6
    <3> QED BY <2>2, <3>1 DEF Emptied
  <2>6. IsList(r)
    <3>1. h \in Nat /\ n - 1 \in Nat
      BY <1>1, <1>2, <1>6, <2>1 DEF At
    <3> QED BY <1>2, <2>4, <2>5, <3>1 DEF IsList
  <2>7. /\ r.head = h /\ r.tail = s.tail /\ r.size = n - 1
        /\ DOMAIN r.item = DOMAIN s.item \ {s.head}
        /\ \A a \in DOMAIN r.item :
             /\ r.item[a].next = s.item[a].next
             /\ r.item[a].prev = IF a = h THEN Nil ELSE s.item[a].prev
             /\ r.item[a].data = s.item[a].data
    BY <2>3, <2>4, <2>5
  <2> DEFINE to == [k \in 1..(n - 1) |-> at[k + 1]]
  <2>8. At(r, c + 1, to)
    <3>1. to \in [1..r.size -> Nat \ {Nil}]
      BY <1>1, <1>2, <2>7 DEF At
    <3>2. DOMAIN r.item = {to[k] : k \in 1..r.size}
      <4>1. \A k \in 1..(n - 1) : to[k] \in DOMAIN r.item
        BY <1>3, <2>7
      <4>2. ASSUME NEW a \in DOMAIN r.item
            PROVE  \E k \in 1..(n - 1) : a = to[k]
        <5>1. PICK j \in 1..n : a = at[j]
          BY <1>1, <1>2, <2>7 DEF At, Chain
        <5>2. j # 1
          BY <1>3, <2>7, <5>1
        <5>3. j - 1 \in 1..(n - 1) /\ a = to[j - 1]
          BY <5>1, <5>2
        <5> QED BY <5>3
      <4> QED BY <2>7, <4>1, <4>2
    <3>3. \A j, k \in 1..r.size : to[j] = to[k] => j = k
      BY <1>3, <2>7
    <3>4. /\ r.head = IF r.size = 0 THEN Nil ELSE to[1]
          /\ r.tail = IF r.size = 0 THEN Nil ELSE to[r.size]
      BY <1>1, <1>2, <1>6, <2>1, <2>7 DEF At, Chain
    <3>5. ASSUME NEW k \in 1..r.size
          PROVE  /\ r.item[to[k]].next = IF k = r.size THEN Nil ELSE to[k + 1]
                 /\ r.item[to[k]].prev = IF k = 1 THEN Nil ELSE to[k - 1]
                 /\ r.item[to[k]].data = k + (c + 1)
      <4>1. /\ k \in 1..(n - 1) /\ k + 1 \in 1..n
            /\ to[k] = at[k + 1] /\ to[k] \in DOMAIN r.item
            /\ k # n - 1 => to[k + 1] = at[k + 2]
            /\ k # 1 => to[k - 1] = at[k]
        BY <1>3, <2>7
      <4>2. at[k + 1] = h <=> k = 1
        BY <1>3, <2>1, <4>1
      <4>3. /\ s.item[at[k + 1]].next = IF k + 1 = n THEN Nil ELSE at[k + 2]
            /\ s.item[at[k + 1]].prev = IF k + 1 = 1 THEN Nil ELSE at[k]
            /\ s.item[at[k + 1]].data = (k + 1) + c
        BY <1>1, <1>2, <4>1 DEF At, Chain
      <4> QED BY <2>7, <4>1, <4>2, <4>3
    <3> QED BY <3>1, <3>2, <3>3, <3>4, <3>5 DEF At, Chain
  <2> QED BY <1>4, <2>7, <2>6, <2>8 DEF Listed, r
<1> QED BY <1>5, <1>6

\* Such a list holds the sequence of those numbers.
LEMMA ListedHolds ==
  ASSUME NEW s, NEW c \in Nat, NEW n \in Nat, Listed(s, c, n)
  PROVE  Holds(s, [k \in 1..n |-> k + c])
<1> DEFINE q == [k \in 1..n |-> k + c]
<1>1. PICK at : At(s, c, at)
  BY DEF Listed
<1>2. s.size = n
  BY DEF Listed
<1>3. Len(q) = n
  OBVIOUS
<1>4. at \in [1..s.size -> DOMAIN s.item \ {Nil}]
  BY <1>1 DEF At, Chain
<1> QED BY <1>1, <1>2, <1>3, <1>4 DEF At, Holds

-----------------------------------------------------------------------------
(***************************************************************************)
(* The invariant is kept.                                                  *)
(***************************************************************************)
\* A list holds as many numbers as it is said to hold.
LEMMA ListedSize ==
  ASSUME NEW s, NEW c, NEW n, Listed(s, c, n)
  PROVE  s.size = n
BY DEF Listed

\* A thread keeps its list if a step does not concern it.
LEMMA ThreadListKept ==
  ASSUME NEW u \in Threads, ThreadList(u),
         pc'[u] = pc[u], msg'[u] = msg[u], got'[u] = got[u],
         stack'[u] = stack[u],
         pc[u] \in Fed => /\ input'[msg[u]] = input[msg[u]]
                          /\ env'[msg[u]] = env[msg[u]],
         interrupted => interrupted'
  PROVE  ThreadList(u)'
BY DEF ThreadList, Fed

\* The invariant holds at the start.
LEMMA InitInv == Init => SpawnInv
<1> SUFFICES ASSUME Init PROVE SpawnInv
  OBVIOUS
<1>1. ControlInv
  <2>1. 1 \in Threads /\ Len(Frames) \in Nat
    BY NAssumption, FramesAssumption DEF Threads
  <2>2. TypeOK
    <3>1. /\ queue \in [Threads -> Seq(Messages)]
          /\ input \in [Messages -> Seq(Nat)]
      BY DEF Init
    <3>2. /\ wr \in [Messages -> SUBSET Holders]
          /\ rd \in [Messages -> SUBSET Holders]
      BY DEF Init
    <3>3. /\ env \in [Messages -> Nat]
          /\ msg \in [Threads -> Messages \cup {0}]
          /\ pc \in [Threads -> ThreadPc]
          /\ \A t \in Threads : msg[t] = 0
      BY DEF Init, ThreadPc
    <3>4. /\ signals \in 0..MaxSignals /\ taken \in 0..Len(Frames)
          /\ idx \in Threads
      BY <2>1, BoundsAssumption DEF Init
    <3>6. /\ interrupted \in BOOLEAN /\ alive \in BOOLEAN
          /\ mpc \in {"proxy", "kill", "join", "done"}
      BY Zenon DEF Init
    <3>5. /\ running \subseteq Messages /\ failed \subseteq Messages
          /\ abandoned \subseteq Messages
      BY DEF Init
    <3> QED BY <3>1, <3>2, <3>3, <3>4, <3>5, <3>6 DEF TypeOK
  <2>3. \A t \in Threads : stack[t] = NewStack
    BY DEF Init
  <2>4. stack = [t \in Threads |-> stack[t]]
    BY <2>3 DEF Init
  <2>5. got \in [Threads -> Nat]
    BY DEF Init
  <2> QED BY <2>2, <2>4, <2>5 DEF Init, ControlInv, ThreadControl, Idle
<1>2. OwnerInv
  BY DEF Init, OwnerInv
<1>3. ListInv
  BY DEF Init, ListInv, ThreadList, Fed
<1> QED BY <1>1, <1>2, <1>3 DEF SpawnInv

\* A signal makes a thread give up its message, or does not concern it.
LEMMA EintrKeeps ==
  ASSUME SpawnInv, NEW t \in Threads,
         EintrThread(t) \/ UNCHANGED <<pc, msg, abandoned>>,
         interrupted' = TRUE, signals' \in 0..MaxSignals,
         mpc' \in {"proxy", "kill", "join", "done"}, idx' \in Threads,
         UNCHANGED <<alive, taken, queue, got, stack, endVars, env, running,
                     input, failed>>
  PROVE  SpawnInv'
<1>1. ControlInv'
  <2>1. TypeOK'
    BY DEF SpawnInv, ControlInv, TypeOK, EintrThread, ThreadPc, endVars
  <2>2. \A u \in Threads : (msg'[u] = 0) <=> (pc'[u] \in Idle)
    BY DEF SpawnInv, ControlInv, ThreadControl, TypeOK, EintrThread, Idle
  <2>3. \A u \in Threads : pc'[u] = "recv" =>
          pc[u] = "recv" /\ msg'[u] = msg[u]
    BY DEF SpawnInv, ControlInv, TypeOK, EintrThread
  <2> QED BY <2>1, <2>2, <2>3 DEF SpawnInv, ControlInv, ThreadControl
<1>2. OwnerInv'
  <2>1. /\ \A u \in Threads : msg'[u] = msg[u] \/ msg'[u] = 0
        /\ \A u \in Threads : pc'[u] \in {"recv", "pipe"} =>
             pc[u] = pc'[u] /\ msg'[u] = msg[u]
    BY DEF SpawnInv, ControlInv, TypeOK, EintrThread
  <2>2. /\ 0 <= taken
        /\ \A u \in Threads : \A i \in 1..Len(queue[u]) : queue[u][i] # 0
    <3>1. taken \in Nat /\ queue \in [Threads -> Seq(Messages)]
      BY DEF SpawnInv, ControlInv, TypeOK
    <3>2. \A m \in Messages : m # 0
      BY DEF Messages
    <3> QED BY <3>1, <3>2
  <2>3. \A u \in Threads : msg'[u] <= taken
    BY <2>1, <2>2 DEF SpawnInv, OwnerInv
  <2>4. \A u, v \in Threads : msg'[u] = msg'[v] /\ msg'[u] # 0 => u = v
    BY <2>1 DEF SpawnInv, OwnerInv
  <2>5. \A u, v \in Threads : \A i \in 1..Len(queue[u]) :
          msg'[v] # queue[u][i]
    BY <2>1, <2>2 DEF SpawnInv, OwnerInv
  <2>6. \A u \in Threads : pc'[u] \in {"recv", "pipe"} =>
          input[msg'[u]] = <<>>
    BY <2>1 DEF SpawnInv, OwnerInv
  <2>7. UNCHANGED <<taken, queue, input>>
    OBVIOUS
  <2>8. /\ \A u \in Threads : \A i \in 1..Len(queue[u]) :
             queue[u][i] <= taken /\ input[queue[u][i]] = <<>>
        /\ \A u, v \in Threads :
             \A i \in 1..Len(queue[u]), j \in 1..Len(queue[v]) :
               queue[u][i] = queue[v][j] => u = v /\ i = j
        /\ \A m \in Messages : m > taken => input[m] = <<>>
    BY DEF SpawnInv, OwnerInv
  <2> QED BY <2>3, <2>4, <2>5, <2>6, <2>7, <2>8 DEF OwnerInv
<1>3. ListInv'
  <2>1. \A u \in Threads :
          \/ pc'[u] = pc[u] /\ msg'[u] = msg[u]
          \/ pc'[u] \in Idle
    BY DEF SpawnInv, ControlInv, TypeOK, EintrThread, Idle
  <2>2. ASSUME NEW u \in Threads PROVE ThreadList(u)'
    <3>1. CASE pc'[u] = pc[u] /\ msg'[u] = msg[u]
      BY <3>1, ThreadListKept DEF SpawnInv, ListInv
    <3>2. CASE pc'[u] \in Idle
      BY <3>2 DEF ThreadList, Fed, Idle
    <3> QED BY <2>1, <3>1, <3>2
  <2> QED BY <2>2 DEF ListInv
<1> QED BY <1>1, <1>2, <1>3 DEF SpawnInv

\* A signal, and the end of zlmb-worker.
LEMMA MainKeeps ==
  ASSUME SpawnInv, Signal \/ MainEnd
  PROVE  SpawnInv'
<1>1. CASE Signal
  <2>1. 1 \in Threads
    BY NAssumption DEF Threads
  <2>2. signals' \in 0..MaxSignals
    BY <1>1, BoundsAssumption DEF Signal, SpawnInv, ControlInv, TypeOK
  <2>3. /\ interrupted' = TRUE /\ mpc' \in {"proxy", "kill", "join", "done"}
        /\ idx' \in Threads
        /\ UNCHANGED <<alive, taken, queue, got, stack, endVars, env, running,
                       input, failed>>
    BY <1>1 DEF Signal, SpawnInv, ControlInv, TypeOK
  <2>4. \E t \in Threads :
          EintrThread(t) \/ UNCHANGED <<pc, msg, abandoned>>
    BY <1>1, <2>1 DEF Signal
  <2> QED BY <2>2, <2>3, <2>4, EintrKeeps
<1>2. CASE MainKill
  <2>1. idx \in Threads
    BY DEF SpawnInv, ControlInv, TypeOK
  <2>2. /\ interrupted' = TRUE /\ mpc' \in {"proxy", "kill", "join", "done"}
        /\ signals' \in 0..MaxSignals /\ idx' \in Threads
        /\ EintrThread(idx) \/ UNCHANGED <<pc, msg, abandoned>>
        /\ UNCHANGED <<alive, taken, queue, got, stack, endVars, env, running,
                       input, failed>>
    BY <1>2 DEF MainKill, SpawnInv, ControlInv, TypeOK
  <2> QED BY <2>1, <2>2, EintrKeeps
<1>3. CASE MainJoin
  <2>1. ControlInv'
    BY <1>3, NAssumption
       DEF MainJoin, SpawnInv, ControlInv, ThreadControl, TypeOK, Threads,
           signalVars,
           threadVars, endVars, cmdVars
  <2>2. OwnerInv'
    BY <1>3 DEF MainJoin, SpawnInv, OwnerInv, threadVars, cmdVars
  <2>3. ListInv'
    BY <1>3 DEF MainJoin, SpawnInv, ListInv, ThreadList, signalVars,
                threadVars, cmdVars
  <2> QED BY <2>1, <2>2, <2>3 DEF SpawnInv
<1> QED BY <1>1, <1>2, <1>3 DEF MainEnd

\* The message zmq_proxy takes is not one that a thread has.
LEMMA ForwardKeeps ==
  ASSUME SpawnInv, NEW t \in Threads, MainForward(t)
  PROVE  SpawnInv'
<1> DEFINE m == taken + 1
<1>1. /\ m \in Messages /\ taken' = m /\ input[m] = <<>>
      /\ queue \in [Threads -> Seq(Messages)]
      /\ queue' = [queue EXCEPT ![t] = Append(queue[t], m)]
      /\ Len(Frames) \in Nat /\ taken \in Nat
  <2>1. Len(Frames) \in Nat
    BY FramesAssumption
  <2>2. taken \in Nat /\ taken < Len(Frames) /\ taken' = m
    BY <2>1 DEF MainForward, SpawnInv, ControlInv, TypeOK
  <2>3. m \in Messages
    BY <2>1, <2>2 DEF Messages
  <2>4. input[m] = <<>>
    BY <2>2, <2>3 DEF SpawnInv, OwnerInv
  <2>5. queue \in [Threads -> Seq(Messages)]
    BY DEF SpawnInv, ControlInv, TypeOK
  <2>6. queue' = [queue EXCEPT ![t] = Append(queue[t], m)]
    BY <2>2 DEF MainForward
  <2> QED BY <2>1, <2>2, <2>3, <2>4, <2>5, <2>6
<1> HIDE DEF m
<1>2. ControlInv'
  <2>1. queue' \in [Threads -> Seq(Messages)]
    BY <1>1
  <2>2. taken' \in 0..Len(Frames)
    BY <1>1 DEF Messages
  <2>3. UNCHANGED <<interrupted, signals, alive, mpc, idx, pc, msg, got, stack,
                    env, running, wr, rd, input, failed, abandoned>>
    BY DEF MainForward, signalVars, threadVars, endVars, cmdVars
  <2> QED BY <2>1, <2>2, <2>3 DEF SpawnInv, ControlInv, ThreadControl, TypeOK
<1>3. /\ \A u \in Threads : u # t => queue'[u] = queue[u]
      /\ Len(queue'[t]) = Len(queue[t]) + 1
      /\ Len(queue[t]) \in Nat
      /\ queue'[t][Len(queue[t]) + 1] = m
      /\ \A i \in 1..Len(queue[t]) : queue'[t][i] = queue[t][i]
  BY <1>1
<1>4. ASSUME NEW u \in Threads, NEW i \in 1..Len(queue'[u])
      PROVE  \/ i \in 1..Len(queue[u]) /\ queue'[u][i] = queue[u][i]
             \/ u = t /\ i = Len(queue[t]) + 1 /\ queue'[u][i] = m
  <2>1. CASE u # t
    BY <1>3, <2>1
  <2>2. CASE u = t /\ i \in 1..Len(queue[t])
    BY <1>3, <2>2
  <2>3. CASE u = t /\ i = Len(queue[t]) + 1
    BY <1>3, <2>3
  <2>4. u = t => i \in 1..Len(queue[t]) \/ i = Len(queue[t]) + 1
    BY <1>3
  <2> QED BY <2>1, <2>2, <2>3, <2>4
<1>5. OwnerInv'
  <2>1. UNCHANGED <<pc, msg, input>>
    BY DEF MainForward, threadVars, cmdVars
  <2>2. m = taken + 1 /\ \A u \in Threads : msg[u] \in Nat /\ msg[u] < m
    <3>1. \A u \in Threads : msg[u] \in Messages \cup {0} /\ msg[u] <= taken
      BY DEF SpawnInv, OwnerInv, ControlInv, TypeOK
    <3> QED BY <1>1, <3>1 DEF m, Messages
  <2>3. \A u \in Threads : \A i \in 1..Len(queue[u]) :
          queue[u][i] \in Nat /\ queue[u][i] < m
    BY <1>1, <2>2 DEF SpawnInv, OwnerInv, Messages
  <2>4. \A u \in Threads : \A i \in 1..Len(queue'[u]) :
          queue'[u][i] <= m /\ input[queue'[u][i]] = <<>>
    BY <1>1, <1>4, <2>2, <2>3 DEF SpawnInv, OwnerInv
  <2>5. \A u, v \in Threads : \A i \in 1..Len(queue'[u]) :
          msg[v] # queue'[u][i]
    BY <1>4, <2>2 DEF SpawnInv, OwnerInv
  <2>6. ASSUME NEW u \in Threads, NEW v \in Threads,
               NEW i \in 1..Len(queue'[u]), NEW j \in 1..Len(queue'[v]),
               queue'[u][i] = queue'[v][j]
        PROVE  u = v /\ i = j
    <3>1. \/ i \in 1..Len(queue[u]) /\ queue'[u][i] = queue[u][i]
          \/ u = t /\ i = Len(queue[t]) + 1 /\ queue'[u][i] = m
      BY <1>4
    <3>2. \/ j \in 1..Len(queue[v]) /\ queue'[v][j] = queue[v][j]
          \/ v = t /\ j = Len(queue[t]) + 1 /\ queue'[v][j] = m
      BY <1>4
    <3>3. CASE i \in 1..Len(queue[u]) /\ j \in 1..Len(queue[v])
      BY <2>3, <2>6, <3>1, <3>2, <3>3 DEF SpawnInv, OwnerInv
    <3>4. CASE ~(i \in 1..Len(queue[u]) /\ j \in 1..Len(queue[v]))
      BY <1>1, <2>3, <2>6, <3>1, <3>2, <3>4
    <3> QED BY <3>3, <3>4
  <2>7. /\ \A u \in Threads : msg[u] <= m
        /\ \A p \in Messages : p > m => input[p] = <<>>
    BY <1>1, <2>2 DEF SpawnInv, OwnerInv, Messages
  <2> QED BY <1>1, <2>1, <2>4, <2>5, <2>6, <2>7 DEF SpawnInv, OwnerInv
<1>6. ListInv'
  BY DEF MainForward, SpawnInv, ListInv, ThreadList, signalVars, threadVars,
         cmdVars
<1> QED BY <1>2, <1>5, <1>6 DEF SpawnInv

\* What a step of thread t makes of its own state.
Assign(t, p, m, g, s) ==
  /\ pc' = [pc EXCEPT ![t] = p]
  /\ msg' = [msg EXCEPT ![t] = m]
  /\ got' = [got EXCEPT ![t] = g]
  /\ stack' = [stack EXCEPT ![t] = s]

\* A step of thread t: the other threads have what they had.
LEMMA AssignValues ==
  ASSUME SpawnInv, NEW t \in Threads, NEW p \in ThreadPc,
         NEW m \in Messages \cup {0}, NEW g \in Nat, NEW s,
         Assign(t, p, m, g, s)
  PROVE  /\ pc' \in [Threads -> ThreadPc]
         /\ msg' \in [Threads -> Messages \cup {0}]
         /\ got' \in [Threads -> Nat]
         /\ stack' = [u \in Threads |-> stack'[u]]
         /\ pc'[t] = p /\ msg'[t] = m /\ got'[t] = g /\ stack'[t] = s
         /\ \A u \in Threads : u # t =>
              /\ pc'[u] = pc[u] /\ msg'[u] = msg[u]
              /\ got'[u] = got[u] /\ stack'[u] = stack[u]
<1>1. /\ pc \in [Threads -> ThreadPc]
      /\ msg \in [Threads -> Messages \cup {0}]
      /\ got \in [Threads -> Nat]
      /\ stack = [u \in Threads |-> stack[u]]
  BY DEF SpawnInv, ControlInv, TypeOK
<1> QED BY <1>1 DEF Assign

\* A step of thread t and ControlInv: the rest of the state has its type.
LEMMA AssignControl ==
  ASSUME SpawnInv, NEW t \in Threads, NEW p \in ThreadPc,
         NEW m \in Messages \cup {0}, NEW g \in Nat, NEW s,
         Assign(t, p, m, g, s),
         (m = 0) <=> (p \in Idle),
         m # 0 => g \in 0..Frames[m],
         p = "recv" => g < Frames[m],
         p = "pipe" /\ ~interrupted => g = Frames[m],
         UNCHANGED <<signalVars, mainVars>>,
         alive' \in BOOLEAN,
         queue' \in [Threads -> Seq(Messages)],
         env' \in [Messages -> Nat],
         running' \subseteq Messages,
         wr' \in [Messages -> SUBSET Holders],
         rd' \in [Messages -> SUBSET Holders],
         input' \in [Messages -> Seq(Nat)],
         failed' \subseteq Messages,
         abandoned' \subseteq Messages
  PROVE  ControlInv'
<1>1. /\ pc' \in [Threads -> ThreadPc]
      /\ msg' \in [Threads -> Messages \cup {0}]
      /\ got' \in [Threads -> Nat]
      /\ stack' = [u \in Threads |-> stack'[u]]
      /\ pc'[t] = p /\ msg'[t] = m /\ got'[t] = g /\ stack'[t] = s
      /\ \A u \in Threads : u # t =>
           /\ pc'[u] = pc[u] /\ msg'[u] = msg[u]
           /\ got'[u] = got[u] /\ stack'[u] = stack[u]
  BY AssignValues, Zenon
<1>2. \A u \in Threads : msg'[u] # 0 => got'[u] \in 0..Frames[msg'[u]]
  BY <1>1 DEF SpawnInv, ControlInv, TypeOK
<1>3. \A u \in Threads : ThreadControl(u)'
  <2>1. interrupted' = interrupted
    BY DEF signalVars
  <2>2. ThreadControl(t)'
    BY <1>1, <2>1 DEF ThreadControl
  <2>3. ASSUME NEW u \in Threads, u # t PROVE ThreadControl(u)'
    BY <1>1, <2>1, <2>3 DEF ThreadControl, SpawnInv, ControlInv
  <2> QED BY <2>2, <2>3
<1>4. TypeOK'
  BY <1>1, <1>2 DEF SpawnInv, ControlInv, TypeOK, signalVars, mainVars
<1> QED BY <1>1, <1>3, <1>4 DEF ControlInv

\* A step of thread t and OwnerInv: the message stays its own, or no one's.
LEMMA AssignOwner ==
  ASSUME SpawnInv, NEW t \in Threads, NEW p \in ThreadPc,
         NEW m \in Messages \cup {0}, NEW g \in Nat, NEW s,
         Assign(t, p, m, g, s),
         m = msg[t] \/ m = 0,
         UNCHANGED <<taken, queue>>,
         \A q \in Messages : q # msg[t] => input'[q] = input[q],
         p \in {"recv", "pipe"} => pc[t] \in {"recv", "pipe"} /\ input' = input,
         (m = 0) <=> (p \in Idle)
  PROVE  OwnerInv'
<1>1. /\ pc'[t] = p /\ msg'[t] = m
      /\ \A u \in Threads : u # t => pc'[u] = pc[u] /\ msg'[u] = msg[u]
  BY AssignValues
<1>2. /\ taken \in Nat
      /\ \A u \in Threads : msg[u] \in Messages \cup {0} /\ msg[u] <= taken
      /\ \A u \in Threads : \A i \in 1..Len(queue[u]) :
           queue[u][i] \in Messages /\ queue[u][i] # 0
      /\ \A q \in Messages : q \in Nat \ {0}
  <2>1. \A q \in Messages : q \in Nat \ {0}
    BY FramesAssumption DEF Messages
  <2>2. taken \in Nat /\ queue \in [Threads -> Seq(Messages)]
    BY DEF SpawnInv, ControlInv, TypeOK
  <2>3. \A u \in Threads : msg[u] \in Messages \cup {0} /\ msg[u] <= taken
    BY DEF SpawnInv, ControlInv, OwnerInv, TypeOK
  <2> QED BY <2>1, <2>2, <2>3
<1>3. \A u \in Threads : msg'[u] <= taken
  BY <1>1, <1>2
<1>4. \A u \in Threads : \A i \in 1..Len(queue[u]) :
        queue[u][i] <= taken /\ input'[queue[u][i]] = <<>>
  BY <1>2 DEF SpawnInv, OwnerInv
<1>5. \A u, v \in Threads : msg'[u] = msg'[v] /\ msg'[u] # 0 => u = v
  BY <1>1 DEF SpawnInv, OwnerInv
<1>6. \A u, v \in Threads : \A i \in 1..Len(queue[u]) : msg'[v] # queue[u][i]
  BY <1>1, <1>2 DEF SpawnInv, OwnerInv
<1>7. \A q \in Messages : q > taken => input'[q] = <<>>
  BY <1>2 DEF SpawnInv, OwnerInv
<1>8. ASSUME NEW u \in Threads, pc'[u] \in {"recv", "pipe"}
      PROVE  input'[msg'[u]] = <<>>
  <2>1. CASE u = t
    BY <1>1, <1>8, <2>1 DEF SpawnInv, OwnerInv, Idle
  <2>2. CASE u # t
    <3>1. msg'[u] = msg[u] /\ input[msg[u]] = <<>> /\ msg[u] \in Messages
      BY <1>1, <1>2, <1>8, <2>2
         DEF SpawnInv, OwnerInv, ControlInv, ThreadControl, Idle
    <3>2. msg[u] # msg[t]
      BY <1>2, <2>2, <3>1 DEF SpawnInv, OwnerInv
    <3> QED BY <3>1, <3>2
  <2> QED BY <2>1, <2>2
<1> QED BY <1>3, <1>4, <1>5, <1>6, <1>7, <1>8 DEF SpawnInv, OwnerInv

\* A step of thread t and ListInv: it is about its own message.
LEMMA AssignList ==
  ASSUME SpawnInv, NEW t \in Threads, NEW p \in ThreadPc,
         NEW m \in Messages \cup {0}, NEW g \in Nat, NEW s,
         Assign(t, p, m, g, s), ThreadList(t)', UNCHANGED signalVars,
         \A q \in Messages : q # msg[t] =>
           input'[q] = input[q] /\ env'[q] = env[q]
  PROVE  ListInv'
<1>1. ASSUME NEW u \in Threads, u # t PROVE ThreadList(u)'
  <2>1. /\ pc'[u] = pc[u] /\ msg'[u] = msg[u]
        /\ got'[u] = got[u] /\ stack'[u] = stack[u]
    BY <1>1, AssignValues
  <2>2. pc[u] \in Fed => msg[u] \in Messages /\ msg[u] # msg[t]
    <3>1. pc[u] \in Fed => msg[u] # 0
      BY DEF SpawnInv, ControlInv, ThreadControl, Idle, Fed
    <3>2. msg[u] \in Messages \cup {0}
      BY DEF SpawnInv, ControlInv, TypeOK
    <3> QED BY <1>1, <3>1, <3>2 DEF SpawnInv, OwnerInv
  <2>3. ThreadList(u) /\ interrupted' = interrupted
    BY DEF SpawnInv, ListInv, signalVars
  <2> QED BY <2>1, <2>2, <2>3, ThreadListKept
<1> QED BY <1>1 DEF ListInv

\* A step of thread t that does not take a message.
LEMMA AssignKeeps ==
  ASSUME SpawnInv, NEW t \in Threads, NEW p \in ThreadPc,
         NEW m \in Messages \cup {0}, NEW g \in Nat, NEW s,
         Assign(t, p, m, g, s), ThreadList(t)',
         m = msg[t] \/ m = 0,
         (m = 0) <=> (p \in Idle),
         m # 0 => g \in 0..Frames[m],
         p = "recv" => g < Frames[m],
         p = "pipe" /\ ~interrupted => g = Frames[m],
         p \in {"recv", "pipe"} => pc[t] \in {"recv", "pipe"} /\ input' = input,
         UNCHANGED <<signalVars, mainVars, queue>>,
         alive' \in BOOLEAN,
         env' \in [Messages -> Nat],
         input' \in [Messages -> Seq(Nat)],
         \A q \in Messages : q # msg[t] =>
           input'[q] = input[q] /\ env'[q] = env[q],
         wr' \in [Messages -> SUBSET Holders],
         rd' \in [Messages -> SUBSET Holders],
         running' \subseteq Messages,
         failed' \subseteq Messages,
         abandoned' \subseteq Messages
  PROVE  SpawnInv'
<1>1. UNCHANGED signalVars /\ UNCHANGED <<taken, queue>>
  BY DEF mainVars
<1>2. queue' \in [Threads -> Seq(Messages)]
  BY <1>1 DEF SpawnInv, ControlInv, TypeOK
<1>3. ControlInv'
  BY <1>2, AssignControl, Zenon
<1>4. OwnerInv'
  BY <1>1, AssignOwner, Zenon
<1>5. ListInv'
  BY <1>1, AssignList, Zenon
<1> QED BY <1>3, <1>4, <1>5 DEF SpawnInv

\* What is known of thread t before it takes a step.
LEMMA ThreadTypes ==
  ASSUME SpawnInv, NEW t \in Threads
  PROVE  /\ pc \in [Threads -> ThreadPc]
         /\ msg \in [Threads -> Messages \cup {0}]
         /\ got \in [Threads -> Nat]
         /\ stack = [u \in Threads |-> stack[u]]
         /\ msg[t] # 0 => /\ msg[t] \in Messages
                          /\ got[t] \in 0..Frames[msg[t]]
                          /\ Frames[msg[t]] \in Nat \ {0}
                          /\ input[msg[t]] \in Seq(Nat)
                          /\ env[msg[t]] \in Nat
         /\ ThreadControl(t) /\ ThreadList(t)
<1>1. /\ pc \in [Threads -> ThreadPc]
      /\ msg \in [Threads -> Messages \cup {0}]
      /\ got \in [Threads -> Nat]
      /\ stack = [u \in Threads |-> stack[u]]
      /\ msg[t] # 0 => got[t] \in 0..Frames[msg[t]]
      /\ env \in [Messages -> Nat] /\ input \in [Messages -> Seq(Nat)]
  BY DEF SpawnInv, ControlInv, TypeOK
<1>2. \A m \in Messages : Frames[m] \in Nat \ {0}
  BY FramesAssumption DEF Messages
<1>3. ThreadControl(t) /\ ThreadList(t)
  BY DEF SpawnInv, ControlInv, ListInv
<1> QED BY <1>1, <1>2, <1>3

\* The rest of the state has its type.
LEMMA RestTypes ==
  ASSUME SpawnInv
  PROVE  /\ interrupted \in BOOLEAN /\ alive \in BOOLEAN
         /\ queue \in [Threads -> Seq(Messages)]
         /\ env \in [Messages -> Nat]
         /\ input \in [Messages -> Seq(Nat)]
         /\ wr \in [Messages -> SUBSET Holders]
         /\ rd \in [Messages -> SUBSET Holders]
         /\ running \subseteq Messages
         /\ failed \subseteq Messages
         /\ abandoned \subseteq Messages
BY DEF SpawnInv, ControlInv, TypeOK

\* A thread looks at _interrupted and polls again, or ends.
LEMMA LoopKeeps ==
  ASSUME SpawnInv, NEW t \in Threads, ThreadLoop(t)
  PROVE  SpawnInv'
<1> DEFINE p == IF interrupted THEN "done" ELSE "poll"
<1>1. msg[t] = 0 /\ got[t] \in Nat
  BY ThreadTypes DEF ThreadLoop, ThreadControl, Idle
<1>2. Assign(t, p, 0, got[t], stack[t])
  BY <1>1, ThreadTypes DEF ThreadLoop, Assign
<1>3. p \in ThreadPc /\ p \in Idle /\ p \notin {"recv", "pipe"}
  BY DEF ThreadPc, Idle
<1>4. ThreadList(t)'
  BY <1>2, <1>3, ThreadTypes DEF Assign, ThreadList, Fed, Idle
<1>5. /\ UNCHANGED <<signalVars, mainVars, queue>>
      /\ UNCHANGED <<alive, env, input, wr, rd, running, failed, abandoned>>
  BY DEF ThreadLoop, endVars, cmdVars
<1> HIDE DEF p
<1> QED BY <1>1, <1>2, <1>3, <1>4, <1>5, RestTypes, AssignKeeps

\* A frame is received and pushed onto the list.
LEMMA RecvKeeps ==
  ASSUME SpawnInv, NEW t \in Threads, ThreadRecv(t)
  PROVE  SpawnInv'
<1> DEFINE m == msg[t]
<1>1. /\ pc[t] = "recv" /\ m # 0 /\ got[t] < Frames[m]
      /\ Listed(stack[t], 0, got[t])
  BY ThreadTypes DEF ThreadRecv, ThreadControl, ThreadList, Idle
<1>2. /\ UNCHANGED <<signalVars, mainVars, queue>>
      /\ UNCHANGED <<alive, env, input, wr, rd, running, failed, abandoned>>
  BY DEF ThreadRecv, endVars, cmdVars
<1>3. CASE interrupted
  <2>1. Assign(t, "pipe", m, got[t], stack[t])
    BY <1>3, ThreadTypes DEF ThreadRecv, Assign
  <2>2. ThreadList(t)'
    BY <1>1, <2>1, ThreadTypes DEF Assign, ThreadList, Fed
  <2>3. "pipe" \in ThreadPc /\ "pipe" \notin Idle
    BY DEF ThreadPc, Idle
  <2> QED BY <1>1, <1>2, <1>3, <2>1, <2>2, <2>3, ThreadTypes, RestTypes,
             AssignKeeps
<1>4. CASE ~interrupted
  <2> DEFINE g == got[t] + 1
             p == IF g = Frames[m] THEN "pipe" ELSE "recv"
             s == Push(stack[t], g)
  <2>1. Assign(t, p, m, g, s)
    BY <1>4, ThreadTypes DEF ThreadRecv, Assign
  <2>2. /\ g \in Nat /\ g \in 0..Frames[m]
        /\ p = "recv" => g < Frames[m]
        /\ p = "pipe" => g = Frames[m]
        /\ p \in ThreadPc /\ p \notin Idle /\ p \in {"recv", "pipe"}
    BY <1>1, ThreadTypes DEF ThreadPc, Idle
  <2>3. Listed(s, 0, g)
    <3>1. got[t] \in Nat /\ 0 + got[t] + 1 = g
      BY ThreadTypes
    <3>2. Listed(Push(stack[t], 0 + got[t] + 1), 0, got[t] + 1)
      BY <1>1, <3>1, PushListed
    <3> QED BY <3>1, <3>2
  <2> HIDE DEF g, p, s
  <2>4. pc'[t] = p /\ got'[t] = g /\ stack'[t] = s
    BY <2>1, ThreadTypes DEF Assign
  <2>5. ThreadList(t)'
    BY <2>2, <2>3, <2>4 DEF ThreadList, Fed
  <2> QED BY <1>1, <1>2, <2>1, <2>2, <2>5, ThreadTypes, RestTypes, AssignKeeps
<1> QED BY <1>3, <1>4

\* The pipe is made and the frames are counted for the environment.
LEMMA PipeKeeps ==
  ASSUME SpawnInv, NEW t \in Threads, ThreadPipe(t)
  PROVE  SpawnInv'
<1> DEFINE m == msg[t]
<1>1. /\ pc[t] = "pipe" /\ m # 0 /\ Listed(stack[t], 0, got[t])
      /\ ~interrupted => got[t] = Frames[m]
  BY ThreadTypes DEF ThreadPipe, ThreadControl, ThreadList, Idle
<1>2. m \in Messages /\ got[t] \in Nat /\ input[m] = <<>>
  BY <1>1, ThreadTypes DEF SpawnInv, OwnerInv
<1>3. stack[t].size = got[t]
  BY <1>1, ListedSize
<1>4. /\ UNCHANGED <<signalVars, mainVars, queue>>
      /\ UNCHANGED <<alive, input, running, failed, abandoned>>
  BY DEF ThreadPipe
<1>5. /\ env' = [env EXCEPT ![m] = got[t]]
      /\ wr' = [wr EXCEPT ![m] = {0}] /\ rd' = [rd EXCEPT ![m] = {0}]
  BY <1>3 DEF ThreadPipe
<1>6. /\ env' \in [Messages -> Nat] /\ env'[m] = got[t]
      /\ \A q \in Messages : q # m => env'[q] = env[q]
      /\ wr' \in [Messages -> SUBSET Holders]
      /\ rd' \in [Messages -> SUBSET Holders]
  BY <1>2, <1>5, RestTypes DEF Holders
<1>7. Assign(t, "spawn", m, got[t], stack[t])
  BY ThreadTypes DEF ThreadPipe, Assign
<1>8. pc'[t] = "spawn" /\ msg'[t] = m /\ stack'[t] = stack[t]
  BY <1>7, ThreadTypes DEF Assign
<1>9. ThreadList(t)'
  <2>1. Len(input'[m]) = 0 /\ got[t] - 0 = got[t] /\ input'[m] = Upto(0)
    BY <1>2, <1>4 DEF Upto
  <2>2. interrupted' = interrupted
    BY <1>4 DEF signalVars
  <2>3. env'[m] - Len(input'[m]) = got[t] /\ Len(input'[m]) <= env'[m]
    BY <1>2, <1>6, <2>1
  <2>4. Listed(stack[t], Len(input'[m]), env'[m] - Len(input'[m]))
    BY <1>1, <2>1, <2>3
  <2>5. input'[m] = Upto(Len(input'[m]))
    BY <2>1
  <2>6. ~interrupted' => env'[m] = Frames[m]
    BY <1>1, <1>6, <2>2
  <2> HIDE DEF m
  <2> QED BY <1>8, <2>3, <2>4, <2>5, <2>6 DEF ThreadList
<1>10. "spawn" \in ThreadPc \ (Idle \cup {"recv", "pipe"})
  BY DEF ThreadPc, Idle
<1>11. /\ got[t] \in 0..Frames[m] /\ m \in Messages \cup {0}
       /\ alive' \in BOOLEAN
       /\ input' \in [Messages -> Seq(Nat)]
       /\ running' \subseteq Messages
       /\ failed' \subseteq Messages
       /\ abandoned' \subseteq Messages
  BY <1>1, <1>4, ThreadTypes, RestTypes
<1>12. \A q \in Messages : q # m => input'[q] = input[q] /\ env'[q] = env[q]
  BY <1>4, <1>6
<1> QED BY <1>1, <1>2, <1>4, <1>6, <1>7, <1>9, <1>10, <1>11, <1>12, AssignKeeps

\* A step of thread t that changes its pc only, from one point at which its
\* list is fed to the command to another.
LEMMA FedKeeps ==
  ASSUME SpawnInv, NEW t \in Threads, NEW p \in Fed,
         pc[t] \in Fed, pc' = [pc EXCEPT ![t] = p],
         p = "wait" => Len(input[msg[t]]) = env[msg[t]],
         UNCHANGED <<msg, got, stack, env, input>>,
         UNCHANGED <<signalVars, mainVars, queue>>,
         alive' \in BOOLEAN,
         wr' \in [Messages -> SUBSET Holders],
         rd' \in [Messages -> SUBSET Holders],
         running' \subseteq Messages,
         failed' \subseteq Messages,
         abandoned' \subseteq Messages
  PROVE  SpawnInv'
<1>1. Assign(t, p, msg[t], got[t], stack[t])
  BY ThreadTypes DEF Assign
<1>2. p \in ThreadPc \ (Idle \cup {"recv", "pipe"}) /\ msg[t] # 0
  BY ThreadTypes DEF ThreadPc, Idle, Fed, ThreadControl
<1>3. interrupted' = interrupted
  BY DEF signalVars
<1>4. pc'[t] = p
  BY <1>1, ThreadTypes DEF Assign
<1>5. ThreadList(t)'
  BY <1>2, <1>3, <1>4, ThreadTypes DEF ThreadList, Fed
<1> QED BY <1>1, <1>2, <1>5, ThreadTypes, RestTypes, AssignKeeps

\* The command is started and inherits what is open.
LEMMA SpawnKeeps ==
  ASSUME SpawnInv, NEW t \in Threads, ThreadSpawn(t)
  PROVE  SpawnInv'
<1>1. /\ pc[t] \in Fed /\ pc' = [pc EXCEPT ![t] = "close"] /\ "close" \in Fed
      /\ UNCHANGED <<msg, got, stack, env, input>>
      /\ UNCHANGED <<signalVars, mainVars, queue>>
      /\ UNCHANGED <<alive, failed, abandoned>>
  BY DEF ThreadSpawn, Fed
<1>2. msg[t] \in Messages
  BY <1>1, ThreadTypes DEF ThreadControl, Fed, Idle
<1>3. running' \subseteq Messages
  BY <1>2, RestTypes DEF ThreadSpawn
<1>4. /\ wr' \in [Messages -> SUBSET Holders]
      /\ rd' \in [Messages -> SUBSET Holders]
  BY <1>2, RestTypes DEF ThreadSpawn, Holders
<1> QED BY <1>1, <1>3, <1>4, RestTypes, FedKeeps

\* zlmb-worker closes its copy of the read end.
LEMMA CloseKeeps ==
  ASSUME SpawnInv, NEW t \in Threads, ThreadClose(t)
  PROVE  SpawnInv'
<1>1. /\ pc[t] \in Fed /\ pc' = [pc EXCEPT ![t] = "write"] /\ "write" \in Fed
      /\ UNCHANGED <<msg, got, stack, env, input>>
      /\ UNCHANGED <<signalVars, mainVars, queue>>
      /\ UNCHANGED <<alive, wr, running, failed, abandoned>>
  BY DEF ThreadClose, cmdVars, Fed
<1>2. rd' \in [Messages -> SUBSET Holders]
  BY RestTypes DEF ThreadClose
<1> QED BY <1>1, <1>2, RestTypes, FedKeeps

\* zlmb-worker closes the write end: the end of the input.
LEMMA CloseInputKeeps ==
  ASSUME SpawnInv, NEW t \in Threads, ThreadCloseInput(t)
  PROVE  SpawnInv'
<1> DEFINE m == msg[t]
<1>1. /\ pc[t] \in Fed /\ pc' = [pc EXCEPT ![t] = "wait"] /\ "wait" \in Fed
      /\ UNCHANGED <<msg, got, stack, env, input>>
      /\ UNCHANGED <<signalVars, mainVars, queue>>
      /\ UNCHANGED <<alive, rd, running, failed, abandoned>>
  BY DEF ThreadCloseInput, cmdVars, Fed
<1>2. wr' \in [Messages -> SUBSET Holders]
  BY RestTypes DEF ThreadCloseInput
<1>3. Len(input[m]) = env[m]
  <2>1. Listed(stack[t], Len(input[m]), env[m] - Len(input[m]))
    BY <1>1, ThreadTypes DEF ThreadList
  <2>2. env[m] \in Nat /\ Len(input[m]) \in Nat
    BY <1>1, ThreadTypes DEF ThreadControl, Fed, Idle
  <2>3. env[m] - Len(input[m]) = 0
    BY <2>1, ListedSize DEF ThreadCloseInput
  <2> QED BY <2>2, <2>3
<1> QED BY <1>1, <1>2, <1>3, RestTypes, FedKeeps

\* No thread reads its input: only the ends change.
LEMMA WriteBrokenKeeps ==
  ASSUME SpawnInv, NEW t \in Threads, ThreadWriteBroken(t)
  PROVE  SpawnInv'
<1>1. /\ pc[t] = "write" /\ UNCHANGED <<msg, got, stack, env, input, pc>>
      /\ UNCHANGED <<signalVars, mainVars, queue>>
      /\ UNCHANGED <<running, failed, abandoned>> /\ alive' = FALSE
  BY DEF ThreadWriteBroken, threadVars, cmdVars
<1>2. pc[t] \in Fed /\ pc' = [pc EXCEPT ![t] = pc[t]] /\ pc[t] # "wait"
  BY <1>1, ThreadTypes DEF Fed
<1>3. /\ wr' \in [Messages -> SUBSET Holders]
      /\ rd' \in [Messages -> SUBSET Holders]
  BY RestTypes DEF ThreadWriteBroken
<1>4. alive' \in BOOLEAN
  BY <1>1
<1> QED BY <1>1, <1>2, <1>3, <1>4, RestTypes, FedKeeps

\* A frame is shifted from the list and written to the pipe.
LEMMA WriteKeeps ==
  ASSUME SpawnInv, NEW t \in Threads, ThreadWrite(t)
  PROVE  SpawnInv'
<1> DEFINE m == msg[t]
           c == Len(input[m])
           n == env[m] - c
           d == Front(stack[t])
           s == Shift(stack[t])
<1>1. /\ pc[t] = "write" /\ m # 0 /\ Listed(stack[t], c, n)
      /\ input[m] = Upto(c) /\ c <= env[m]
      /\ ~interrupted => env[m] = Frames[m]
  BY ThreadTypes DEF ThreadWrite, ThreadControl, ThreadList, Fed, Idle
<1>2. /\ m \in Messages /\ input[m] \in Seq(Nat) /\ c \in Nat /\ env[m] \in Nat
      /\ got[t] \in Nat
  BY <1>1, ThreadTypes
<1>3. n \in Nat \ {0}
  <2>1. stack[t].size = n
    BY <1>1, ListedSize
  <2> QED BY <1>1, <1>2, <2>1 DEF ThreadWrite
<1>4. d = c + 1 /\ Listed(s, c + 1, n - 1)
  BY <1>1, <1>2, <1>3, ShiftListed
<1>5. input' = [input EXCEPT ![m] = Append(@, d)]
  BY DEF ThreadWrite
<1>6. /\ UNCHANGED <<signalVars, mainVars, queue>>
      /\ UNCHANGED <<alive, env, running, wr, rd, failed, abandoned>>
      /\ UNCHANGED <<pc, msg, got>> /\ stack' = [stack EXCEPT ![t] = s]
  BY DEF ThreadWrite, endVars
<1> HIDE DEF c, n, d, s
<1>7. /\ input' \in [Messages -> Seq(Nat)]
      /\ input'[m] = Append(input[m], c + 1)
      /\ \A q \in Messages : q # m => input'[q] = input[q]
  BY <1>2, <1>4, <1>5, RestTypes
<1>8. Len(input'[m]) = c + 1 /\ input'[m] = Upto(c + 1)
  BY <1>1, <1>2, <1>7 DEF c, Upto
<1>9. Assign(t, "write", m, got[t], s)
  BY <1>1, <1>6, ThreadTypes DEF Assign
<1>10. ThreadList(t)'
  <2>1. pc'[t] = "write" /\ msg'[t] = m /\ stack'[t] = s /\ env'[m] = env[m]
    BY <1>1, <1>6, <1>9, ThreadTypes DEF Assign
  <2>2. n - 1 = env[m] - (c + 1) /\ c + 1 <= env[m]
    BY <1>2, <1>3 DEF n
  <2>3. interrupted' = interrupted
    BY <1>6 DEF signalVars
  <2> QED BY <1>1, <1>4, <1>8, <2>1, <2>2, <2>3 DEF ThreadList, Fed
<1>11. "write" \in ThreadPc \ (Idle \cup {"recv", "pipe"})
  BY DEF ThreadPc, Idle
<1> QED BY <1>1, <1>6, <1>7, <1>9, <1>10, <1>11, ThreadTypes, RestTypes,
           AssignKeeps

\* The thread is done with the message.
LEMMA ReleaseKeeps ==
  ASSUME SpawnInv, NEW t \in Threads,
         ThreadPipeFails(t) \/ ThreadSpawnFails(t) \/ ThreadWait(t)
  PROVE  SpawnInv'
<1>1. /\ pc[t] \in Fed \cup {"pipe"}
      /\ pc' = [pc EXCEPT ![t] = "loop"] /\ msg' = [msg EXCEPT ![t] = 0]
      /\ UNCHANGED <<signalVars, mainVars, queue>>
      /\ UNCHANGED <<alive, got, stack, env, input, running, wr, rd, abandoned>>
  BY DEF ThreadPipeFails, ThreadSpawnFails, ThreadWait, endVars, cmdVars, Fed
<1>2. failed' \subseteq Messages
  <2>1. msg[t] \in Messages
    BY <1>1, ThreadTypes DEF ThreadControl, Fed, Idle
  <2> QED BY <2>1, RestTypes
          DEF ThreadPipeFails, ThreadSpawnFails, ThreadWait, cmdVars
<1>3. Assign(t, "loop", 0, got[t], stack[t])
  BY <1>1, ThreadTypes DEF Assign
<1>4. pc'[t] = "loop"
  BY <1>3, ThreadTypes DEF Assign
<1>5. ThreadList(t)'
  BY <1>4 DEF ThreadList, Fed
<1>6. "loop" \in ThreadPc /\ "loop" \in Idle
  BY DEF ThreadPc, Idle
<1> QED BY <1>1, <1>2, <1>3, <1>5, <1>6, ThreadTypes, RestTypes, AssignKeeps

\* A command ends and closes every end it holds.
LEMMA ExitKeeps ==
  ASSUME SpawnInv, NEW m \in Messages, CommandExits(m)
  PROVE  SpawnInv'
<1>1. /\ UNCHANGED <<interrupted, signals, alive, mpc, idx, taken, queue, pc,
                     msg, got, stack, env, input, failed, abandoned>>
      /\ running' = running \ {m}
  BY DEF CommandExits, signalVars, mainVars, threadVars
<1>2. /\ wr' \in [Messages -> SUBSET Holders]
      /\ rd' \in [Messages -> SUBSET Holders]
      /\ running' \subseteq Messages
  BY <1>1, RestTypes DEF CommandExits
<1>3. ControlInv'
  BY <1>1, <1>2 DEF SpawnInv, ControlInv, ThreadControl, TypeOK
<1>4. OwnerInv' /\ ListInv'
  BY <1>1 DEF SpawnInv, OwnerInv, ListInv, ThreadList
<1> QED BY <1>3, <1>4 DEF SpawnInv

\* The thread takes the first message of its queue.
LEMMA PollKeeps ==
  ASSUME SpawnInv, NEW t \in Threads, ThreadPoll(t)
  PROVE  SpawnInv'
<1> DEFINE m == Head(queue[t])
<1>1. /\ Len(queue[t]) \in Nat /\ 1 \in 1..Len(queue[t]) /\ m = queue[t][1]
      /\ m \in Messages /\ m # 0 /\ m <= taken /\ input[m] = <<>>
      /\ Frames[m] \in Nat \ {0}
      /\ Tail(queue[t]) \in Seq(Messages)
      /\ Len(Tail(queue[t])) = Len(queue[t]) - 1
      /\ \A i \in 1..Len(Tail(queue[t])) : Tail(queue[t])[i] = queue[t][i + 1]
  <2>1. queue[t] \in Seq(Messages) /\ queue[t] # <<>>
    BY RestTypes DEF ThreadPoll
  <2>2. /\ Len(queue[t]) \in Nat /\ 1 \in 1..Len(queue[t]) /\ m = queue[t][1]
        /\ m \in Messages
    BY <2>1
  <2>3. m <= taken /\ input[m] = <<>>
    BY <2>2 DEF SpawnInv, OwnerInv
  <2>4. m # 0 /\ Frames[m] \in Nat \ {0}
    BY <2>2, FramesAssumption DEF Messages
  <2>5. /\ Tail(queue[t]) \in Seq(Messages)
        /\ Len(Tail(queue[t])) = Len(queue[t]) - 1
        /\ \A i \in 1..Len(Tail(queue[t])) :
             Tail(queue[t])[i] = queue[t][i + 1]
    BY <2>1
  <2> QED BY <2>2, <2>3, <2>4, <2>5
<1>2. /\ UNCHANGED <<signalVars, mainVars>> /\ UNCHANGED taken
      /\ UNCHANGED <<alive, env, input, running, wr, rd, failed, abandoned>>
      /\ queue' = [queue EXCEPT ![t] = Tail(queue[t])]
      /\ msg[t] = 0
  BY ThreadTypes DEF ThreadPoll, mainVars, endVars, cmdVars, ThreadControl, Idle
<1>3. Assign(t, "recv", m, 0, NewStack)
  BY DEF ThreadPoll, Assign
<1> HIDE DEF m
<1>4. /\ queue' \in [Threads -> Seq(Messages)]
      /\ \A u \in Threads : \A i \in 1..Len(queue'[u]) :
           \E j \in 1..Len(queue[u]) :
             queue'[u][i] = queue[u][j] /\ j = IF u = t THEN i + 1 ELSE i
  <2>1. queue \in [Threads -> Seq(Messages)]
    BY RestTypes
  <2>2. \A i \in 1..(Len(queue[t]) - 1) : i + 1 \in 1..Len(queue[t])
    BY <1>1
  <2> QED BY <1>1, <1>2, <2>1, <2>2
<1>5. /\ pc'[t] = "recv" /\ msg'[t] = m /\ got'[t] = 0 /\ stack'[t] = NewStack
      /\ \A u \in Threads : u # t => pc'[u] = pc[u] /\ msg'[u] = msg[u]
  BY <1>3, ThreadTypes DEF Assign
<1>6. "recv" \in ThreadPc /\ "recv" \notin Idle
  BY DEF ThreadPc, Idle
<1>7. ControlInv'
  <2>1. /\ 0 \in Nat /\ m \in Messages \cup {0} /\ 0 \in 0..Frames[m]
        /\ 0 < Frames[m] /\ "recv" # "pipe"
    BY <1>1
  <2>2. /\ alive' \in BOOLEAN /\ env' \in [Messages -> Nat]
        /\ running' \subseteq Messages
        /\ wr' \in [Messages -> SUBSET Holders]
        /\ rd' \in [Messages -> SUBSET Holders]
        /\ input' \in [Messages -> Seq(Nat)]
        /\ failed' \subseteq Messages /\ abandoned' \subseteq Messages
    BY <1>2, RestTypes
  <2> QED BY <1>1, <1>2, <1>3, <1>4, <1>6, <2>1, <2>2, AssignControl, Zenon
<1>8. OwnerInv'
  <2>1. \A u \in Threads : msg'[u] <= taken
    BY <1>1, <1>5 DEF SpawnInv, OwnerInv
  <2>2. \A u \in Threads : \A i \in 1..Len(queue'[u]) :
          queue'[u][i] <= taken /\ input[queue'[u][i]] = <<>>
    <3>1. \A u \in Threads : \A i \in 1..Len(queue[u]) :
            queue[u][i] <= taken /\ input[queue[u][i]] = <<>>
      BY DEF SpawnInv, OwnerInv
    <3> QED BY <1>4, <3>1
  <2>3. \A u, v \in Threads : msg'[u] = msg'[v] /\ msg'[u] # 0 => u = v
    BY <1>1, <1>5 DEF SpawnInv, OwnerInv
  <2>4. ASSUME NEW u \in Threads, NEW v \in Threads,
               NEW i \in 1..Len(queue'[u])
        PROVE  msg'[v] # queue'[u][i]
    <3>1. PICK j \in 1..Len(queue[u]) :
            queue'[u][i] = queue[u][j] /\ j = IF u = t THEN i + 1 ELSE i
      BY <1>4
    <3>2. u = t => j # 1
      BY <3>1
    <3>3. u # t \/ j # 1 => queue[t][1] # queue[u][j]
      <4>1. \A i1 \in 1..Len(queue[t]), j1 \in 1..Len(queue[u]) :
              queue[t][i1] = queue[u][j1] => t = u /\ i1 = j1
        BY DEF SpawnInv, OwnerInv
      <4> QED BY <1>1, <4>1
    <3>4. v # t => msg[v] # queue[u][j]
      BY DEF SpawnInv, OwnerInv
    <3> QED BY <1>1, <1>5, <3>1, <3>2, <3>3, <3>4
  <2>5. ASSUME NEW u \in Threads, NEW v \in Threads,
               NEW i \in 1..Len(queue'[u]), NEW j \in 1..Len(queue'[v]),
               queue'[u][i] = queue'[v][j]
        PROVE  u = v /\ i = j
    <3>1. PICK k \in 1..Len(queue[u]) :
            queue'[u][i] = queue[u][k] /\ k = IF u = t THEN i + 1 ELSE i
      BY <1>4
    <3>2. PICK l \in 1..Len(queue[v]) :
            queue'[v][j] = queue[v][l] /\ l = IF v = t THEN j + 1 ELSE j
      BY <1>4
    <3>3. u = v /\ k = l
      <4>1. queue[u][k] = queue[v][l] => u = v /\ k = l
        BY DEF SpawnInv, OwnerInv
      <4> QED BY <2>5, <3>1, <3>2, <4>1
    <3> QED BY <3>1, <3>2, <3>3
  <2>6. \A u \in Threads : pc'[u] \in {"recv", "pipe"} =>
          input[msg'[u]] = <<>>
    BY <1>1, <1>5 DEF SpawnInv, OwnerInv
  <2>7. /\ UNCHANGED <<taken, input>>
        /\ \A q \in Messages : q > taken => input[q] = <<>>
    BY <1>2 DEF SpawnInv, OwnerInv
  <2>8. \A u, v \in Threads :
          \A i \in 1..Len(queue'[u]), j \in 1..Len(queue'[v]) :
            queue'[u][i] = queue'[v][j] => u = v /\ i = j
    BY <2>5
  <2>9. \A u, v \in Threads : \A i \in 1..Len(queue'[u]) :
          msg'[v] # queue'[u][i]
    BY <2>4
  <2> QED BY <2>1, <2>2, <2>3, <2>6, <2>7, <2>8, <2>9 DEF OwnerInv
<1>9. ListInv'
  <2>1. ThreadList(t)'
    BY <1>5, NewListed DEF ThreadList, Fed
  <2> QED BY <1>1, <1>2, <1>3, <1>6, <2>1, AssignList
<1> QED BY <1>7, <1>8, <1>9 DEF SpawnInv

\* Every step keeps it.
LEMMA StepKeeps == SpawnInv /\ [Next]_vars => SpawnInv'
<1> SUFFICES ASSUME SpawnInv, [Next]_vars
             PROVE  SpawnInv'
  OBVIOUS
<1>1. ASSUME NEW t \in Threads, ThreadStep(t) PROVE SpawnInv'
  BY <1>1, LoopKeeps, PollKeeps, RecvKeeps, PipeKeeps, SpawnKeeps, CloseKeeps,
     WriteKeeps, WriteBrokenKeeps, CloseInputKeeps, ReleaseKeeps
     DEF ThreadStep
<1>2. CASE UNCHANGED vars
  <2>1. UNCHANGED <<interrupted, signals, alive, mpc, idx, taken, queue, pc,
                    msg, got, stack, env, running, wr, rd, input, failed,
                    abandoned>>
    BY <1>2 DEF vars, signalVars, mainVars, threadVars, endVars, cmdVars
  <2>2. ControlInv'
    BY <2>1 DEF SpawnInv, ControlInv, ThreadControl, TypeOK
  <2>3. OwnerInv' /\ ListInv'
    BY <2>1 DEF SpawnInv, OwnerInv, ListInv, ThreadList
  <2> QED BY <2>2, <2>3 DEF SpawnInv
<1> QED BY <1>1, <1>2, ForwardKeeps, MainKeeps, ExitKeeps DEF Next

\* The invariant holds throughout.
LEMMA SpawnInvariant == Spec => []SpawnInv
BY InitInv, StepKeeps, PTL DEF Spec

-----------------------------------------------------------------------------
\* Each variable keeps its type, and no more frames are received of a message
\* than it has.
THEOREM TypeCorrect == Spec => []TypeOK
<1>1. SpawnInv => TypeOK
  BY DEF SpawnInv, ControlInv
<1> QED BY <1>1, SpawnInvariant, PTL

\* A command is given, in order, the ZLMB_FRAME frames it is told of, which are
\* all those of the message unless zlmb-worker is interrupted (_worker_command,
\* _spawn_run); between receiving and writing them the list of stack.c loses
\* none.
THEOREM InputIsTheMessage == Spec => []InputMatchesEnviron
<1>1. ASSUME SpawnInv PROVE InputMatchesEnviron
  <2> SUFFICES ASSUME NEW t \in Threads
      PROVE  /\ pc[t] \in {"recv", "pipe"} => Holds(stack[t], Upto(got[t]))
             /\ pc[t] \in {"spawn", "close", "write", "wait"} =>
                  /\ Len(input[msg[t]]) + stack[t].size = env[msg[t]]
                  /\ Holds(stack[t], [k \in 1..stack[t].size |->
                                        k + Len(input[msg[t]])])
                  /\ ~interrupted => env[msg[t]] = Frames[msg[t]]
             /\ pc[t] = "wait" /\ ~interrupted =>
                  input[msg[t]] = Upto(Frames[msg[t]])
    BY DEF InputMatchesEnviron
  <2> DEFINE m == msg[t]
             c == Len(input[m])
             n == env[m] - c
  <2>1. CASE pc[t] \in {"recv", "pipe"}
    <3>1. Listed(stack[t], 0, got[t]) /\ got[t] \in Nat
      BY <1>1, <2>1, ThreadTypes DEF ThreadList
    <3>2. Holds(stack[t], [k \in 1..got[t] |-> k + 0])
      BY <3>1, ListedHolds
    <3>3. [k \in 1..got[t] |-> k + 0] = Upto(got[t])
      BY <3>1 DEF Upto
    <3> QED BY <2>1, <3>2, <3>3
  <2>2. CASE pc[t] \in Fed
    <3>1. /\ Listed(stack[t], c, n) /\ input[m] = Upto(c) /\ c <= env[m]
          /\ ~interrupted => env[m] = Frames[m]
          /\ pc[t] = "wait" => c = env[m]
      BY <1>1, <2>2, ThreadTypes DEF ThreadList, Fed
    <3>2. c \in Nat /\ env[m] \in Nat
      BY <1>1, <2>2, ThreadTypes DEF ThreadControl, Fed, Idle
    <3>3. n \in Nat /\ c + n = env[m]
      BY <3>1, <3>2
    <3>4. stack[t].size = n
      BY <3>1, ListedSize
    <3> HIDE DEF c, n
    <3>5. Holds(stack[t], [k \in 1..n |-> k + c])
      BY <3>1, <3>2, <3>3, ListedHolds
    <3> QED BY <2>2, <3>1, <3>3, <3>4, <3>5 DEF c, Fed
  <2> QED BY <2>1, <2>2 DEF Fed
<1> QED BY <1>1, SpawnInvariant, PTL

\* zlmb-worker closes each end of a pipe once it has used it: an end that is
\* open is about to be used, or its command could not be started (_spawn_run).
THEOREM EndsAreClosed == Spec => []NoEndLeaks
<1>1. Init => NoEndLeaks
  BY DEF Init, NoEndLeaks
<1>2. ASSUME SpawnInv, NoEndLeaks, [Next]_vars
      PROVE  NoEndLeaks'
  <2> SUFFICES ASSUME alive', NEW m \in Messages
      PROVE  /\ 0 \in wr'[m] =>
                  \/ m \in failed'
                  \/ \E u \in Threads :
                       msg'[u] = m /\ pc'[u] \in {"spawn", "close", "write"}
             /\ 0 \in rd'[m] =>
                  \/ m \in failed'
                  \/ \E u \in Threads :
                       msg'[u] = m /\ pc'[u] \in {"spawn", "close"}
    BY DEF NoEndLeaks
  <2>1. /\ pc \in [Threads -> ThreadPc]
        /\ msg \in [Threads -> Messages \cup {0}]
        /\ \A u \in Threads : pc[u] \in Fed \cup {"recv", "pipe"} =>
             msg[u] \in Messages
        /\ wr \in [Messages -> SUBSET Holders]
        /\ rd \in [Messages -> SUBSET Holders]
        /\ m # 0
    <3>1. m # 0
      BY FramesAssumption DEF Messages
    <3>2. \A u \in Threads : pc[u] \in Fed \cup {"recv", "pipe"} =>
            msg[u] # 0
      BY <1>2, ThreadTypes DEF ThreadControl, Idle, Fed
    <3>3. \A u \in Threads : msg[u] # 0 => msg[u] \in Messages
      BY <1>2, ThreadTypes
    <3>4. pc \in [Threads -> ThreadPc] /\ msg \in [Threads -> Messages \cup {0}]
      BY <1>2 DEF SpawnInv, ControlInv, TypeOK
    <3> QED BY <1>2, <3>1, <3>2, <3>3, <3>4, RestTypes
  <2>2. alive =>
          /\ 0 \in wr[m] =>
               \/ m \in failed
               \/ \E u \in Threads :
                    msg[u] = m /\ pc[u] \in {"spawn", "close", "write"}
          /\ 0 \in rd[m] =>
               \/ m \in failed
               \/ \E u \in Threads :
                    msg[u] = m /\ pc[u] \in {"spawn", "close"}
    BY <1>2 DEF NoEndLeaks
  <2>3. ASSUME NEW t \in Threads, EintrThread(t),
               UNCHANGED <<alive, wr, rd, failed>>
        PROVE  NoEndLeaks'
    BY <1>2, <2>1, <2>3 DEF NoEndLeaks, EintrThread, Fed
  <2>4. CASE UNCHANGED <<alive, wr, rd, failed, pc, msg>>
    BY <2>2, <2>4
  <2>5. CASE Signal
    BY <2>2, <2>3, <2>5 DEF Signal, NoEndLeaks, endVars
  <2>6. CASE MainEnd
    <3>1. CASE MainKill
      <4>1. idx \in Threads
        BY <1>2 DEF SpawnInv, ControlInv, TypeOK
      <4> QED BY <2>2, <2>3, <3>1, <4>1 DEF MainKill, NoEndLeaks, endVars
    <3>2. CASE MainJoin
      BY <2>4, <3>2 DEF MainJoin, threadVars, endVars, cmdVars
    <3> QED BY <2>6, <3>1, <3>2 DEF MainEnd
  <2>7. ASSUME NEW q \in Messages, CommandExits(q)
        PROVE  0 \in wr'[m] => 0 \in wr[m]
    BY <2>1, <2>7 DEF CommandExits
  <2>8. ASSUME NEW q \in Messages, CommandExits(q)
        PROVE  0 \in rd'[m] => 0 \in rd[m]
    BY <2>1, <2>8 DEF CommandExits
  <2>9. ASSUME NEW t \in Threads, MainForward(t)
        PROVE  UNCHANGED <<alive, wr, rd, failed, pc, msg>>
    BY <2>9 DEF MainForward, threadVars, endVars, cmdVars
  <2>10. ASSUME NEW t \in Threads, ThreadStep(t)
         PROVE  /\ 0 \in wr'[m] =>
                     \/ m \in failed'
                     \/ \E u \in Threads :
                          msg'[u] = m /\ pc'[u] \in {"spawn", "close", "write"}
                /\ 0 \in rd'[m] =>
                     \/ m \in failed'
                     \/ \E u \in Threads :
                          msg'[u] = m /\ pc'[u] \in {"spawn", "close"}
    <3> USE DEF Fed
    <3>0. alive
      BY <2>10 DEF ThreadStep
    <3>1. CASE ThreadLoop(t) \/ ThreadPoll(t)
      BY <2>1, <2>2, <3>0, <3>1, ThreadTypes
         DEF ThreadLoop, ThreadPoll, endVars, cmdVars, ThreadControl, Idle
    <3>2. CASE ThreadRecv(t)
      BY <2>1, <2>2, <3>0, <3>2 DEF ThreadRecv, endVars, cmdVars
    <3>3. CASE ThreadPipe(t)
      BY <2>1, <2>2, <3>0, <3>3 DEF ThreadPipe
    <3>4. CASE ThreadSpawn(t)
      BY <2>1, <2>2, <3>0, <3>4 DEF ThreadSpawn
    <3>5. CASE ThreadPipeFails(t) \/ ThreadSpawnFails(t)
      BY <2>1, <2>2, <3>0, <3>5
         DEF ThreadPipeFails, ThreadSpawnFails, endVars
    <3>6. CASE ThreadClose(t)
      BY <2>1, <2>2, <3>0, <3>6 DEF ThreadClose, cmdVars
    <3>7. CASE ThreadWrite(t)
      BY <2>1, <2>2, <3>0, <3>7 DEF ThreadWrite, endVars
    <3>8. CASE ThreadWriteBroken(t)
      BY <3>8 DEF ThreadWriteBroken
    <3>9. CASE ThreadCloseInput(t)
      BY <2>1, <2>2, <3>0, <3>9 DEF ThreadCloseInput, cmdVars
    <3>10. CASE ThreadWait(t)
      BY <2>1, <2>2, <3>0, <3>10 DEF ThreadWait, endVars, cmdVars
    <3> QED BY <2>10, <3>1, <3>2, <3>3, <3>4, <3>5, <3>6, <3>7, <3>8, <3>9,
               <3>10 DEF ThreadStep
  <2>11. CASE \E q \in Messages : CommandExits(q)
    <3>1. UNCHANGED <<alive, failed, pc, msg>>
      BY <2>11 DEF CommandExits, threadVars
    <3> QED BY <2>2, <2>7, <2>8, <2>11, <3>1
  <2>12. CASE UNCHANGED vars
    BY <2>4, <2>12 DEF vars, threadVars, endVars, cmdVars
  <2> QED BY <1>2, <2>4, <2>5, <2>6, <2>9, <2>10, <2>11, <2>12 DEF Next
<1> QED BY <1>1, <1>2, SpawnInvariant, PTL DEF Spec

-----------------------------------------------------------------------------
\* Every step keeps RunningInv.
LEMMA RunningKeeps == SpawnInv /\ RunningInv /\ [Next]_vars => RunningInv'
<1> SUFFICES ASSUME SpawnInv, RunningInv, [Next]_vars,
                    NEW m \in running' \ abandoned'
             PROVE  \E u \in Threads :
                      msg'[u] = m /\ pc'[u] \in {"close", "write", "wait"}
  BY DEF RunningInv
<1>1. /\ pc \in [Threads -> ThreadPc]
      /\ msg \in [Threads -> Messages \cup {0}]
      /\ \A u \in Threads : (msg[u] = 0) <=> (pc[u] \in Idle)
  BY DEF SpawnInv, ControlInv, ThreadControl, TypeOK
<1>2. m \in running \ abandoned =>
        \E u \in Threads :
          msg[u] = m /\ pc[u] \in {"close", "write", "wait"}
  BY DEF RunningInv
<1>3. m # 0
  <2>1. m \in Messages
    BY StepKeeps DEF SpawnInv, ControlInv, TypeOK
  <2> QED BY <2>1, FramesAssumption DEF Messages
<1>4. ASSUME NEW t \in Threads, EintrThread(t), UNCHANGED running
      PROVE  \E u \in Threads :
               msg'[u] = m /\ pc'[u] \in {"close", "write", "wait"}
  BY <1>1, <1>2, <1>4 DEF EintrThread
<1>5. CASE UNCHANGED <<running, abandoned, pc, msg>>
  BY <1>2, <1>5
<1>6. CASE Signal
  BY <1>4, <1>5, <1>6 DEF Signal
<1>7. CASE MainEnd
  <2>1. CASE MainKill
    <3>1. idx \in Threads
      BY DEF SpawnInv, ControlInv, TypeOK
    <3> QED BY <1>4, <1>5, <2>1, <3>1 DEF MainKill
  <2>2. CASE MainJoin
    BY <1>5, <2>2 DEF MainJoin, threadVars, cmdVars
  <2> QED BY <1>7, <2>1, <2>2 DEF MainEnd
<1>8. ASSUME NEW q \in Messages, CommandExits(q)
      PROVE  \E u \in Threads :
               msg'[u] = m /\ pc'[u] \in {"close", "write", "wait"}
  BY <1>2, <1>8 DEF CommandExits, threadVars
<1>9. ASSUME NEW t \in Threads, MainForward(t)
      PROVE  UNCHANGED <<running, abandoned, pc, msg>>
  BY <1>9 DEF MainForward, threadVars, cmdVars
<1>10. ASSUME NEW t \in Threads, ThreadStep(t)
       PROVE  \E u \in Threads :
                msg'[u] = m /\ pc'[u] \in {"close", "write", "wait"}
  <2>1. CASE ThreadLoop(t) \/ ThreadPoll(t)
    BY <1>1, <1>2, <1>3, <2>1 DEF ThreadLoop, ThreadPoll, cmdVars, Idle
  <2>2. CASE ThreadRecv(t)
    BY <1>1, <1>2, <2>2 DEF ThreadRecv, cmdVars
  <2>3. CASE ThreadPipe(t)
    BY <1>1, <1>2, <2>3 DEF ThreadPipe
  <2>4. CASE ThreadSpawn(t)
    BY <1>1, <1>2, <2>4 DEF ThreadSpawn
  <2>5. CASE ThreadPipeFails(t) \/ ThreadSpawnFails(t)
    BY <1>1, <1>2, <2>5 DEF ThreadPipeFails, ThreadSpawnFails
  <2>6. CASE ThreadClose(t) \/ ThreadCloseInput(t)
    BY <1>1, <1>2, <2>6 DEF ThreadClose, ThreadCloseInput, cmdVars
  <2>7. CASE ThreadWrite(t) \/ ThreadWriteBroken(t)
    BY <1>2, <2>7 DEF ThreadWrite, ThreadWriteBroken, threadVars, cmdVars
  <2>8. CASE ThreadWait(t)
    BY <1>1, <1>2, <2>8 DEF ThreadWait, cmdVars
  <2> QED BY <1>10, <2>1, <2>2, <2>3, <2>4, <2>5, <2>6, <2>7, <2>8
          DEF ThreadStep
<1>11. CASE UNCHANGED vars
  BY <1>5, <1>11 DEF vars, threadVars, cmdVars
<1> QED BY <1>5, <1>6, <1>7, <1>8, <1>9, <1>10, <1>11 DEF Next

\* A thread waits for its command before it starts another, so that no more
\* commands run than there are threads, but for those that a signal kept from
\* being waited for (_spawn_run: waitpid).
THEOREM CommandsAreBounded == Spec => []OneCommandPerThread
<1>1. Init => RunningInv
  BY DEF Init, RunningInv
<1>2. ASSUME SpawnInv, RunningInv PROVE OneCommandPerThread
  <2> DEFINE R == {msg[t] : t \in Threads}
             f == [t \in Threads |-> msg[t]]
             S == running \ abandoned
  <2>1. f \in Surjection(Threads, R)
    BY DEF Surjection
  <2>2. IsFiniteSet(Threads) /\ Cardinality(Threads) = N
    <3>1. N \in Nat /\ 1 \in Nat
      BY NAssumption
    <3> QED BY <3>1, FS_Interval DEF Threads
  <2>3. S \in SUBSET R
    BY <1>2 DEF RunningInv
  <2> HIDE DEF f, R, S
  <2>4. IsFiniteSet(R) /\ Cardinality(R) <= N
    BY <2>1, <2>2, FS_Surjection
  <2>5. IsFiniteSet(S) /\ Cardinality(S) <= Cardinality(R)
    BY <2>3, <2>4, FS_Subset
  <2>6. Cardinality(R) \in Nat /\ Cardinality(S) \in Nat
    BY <2>4, <2>5, FS_CardinalityType
  <2> QED BY <2>4, <2>5, <2>6, NAssumption DEF OneCommandPerThread, S
<1> QED BY <1>1, <1>2, SpawnInvariant, RunningKeeps, PTL DEF Spec

-----------------------------------------------------------------------------
(***************************************************************************)
(* The commands that keep each other from the end of their inputs.         *)
(***************************************************************************)
\* Each of the commands S has the write end of another's pipe: if there is
\* such a set with m in it, m is Held.
Tangled(S) ==
  /\ S # {}
  /\ S \subseteq running \ Careless
  /\ \A c \in S : wr[c] \cap (S \ {c}) # {}

\* A command does not run before its pipe is made.
FreshInv ==
  /\ \A t \in Threads : pc[t] \in {"recv", "pipe", "spawn"} =>
       msg[t] \notin running
  /\ \A t \in Threads : \A i \in 1..Len(queue[t]) : queue[t][i] \notin running
  /\ \A m \in running : m <= taken

\* Every step keeps FreshInv.
LEMMA FreshKeeps == SpawnInv /\ FreshInv /\ [Next]_vars => FreshInv'
<1> SUFFICES ASSUME SpawnInv, FreshInv, [Next]_vars
             PROVE  FreshInv'
  OBVIOUS
<1>1. /\ pc \in [Threads -> ThreadPc]
      /\ msg \in [Threads -> Messages \cup {0}]
      /\ queue \in [Threads -> Seq(Messages)]
      /\ \A u \in Threads : (msg[u] = 0) <=> (pc[u] \in Idle)
      /\ running \subseteq Messages
      /\ taken \in Nat
      /\ \A m \in Messages : m \in Nat
  BY FramesAssumption
     DEF SpawnInv, ControlInv, ThreadControl, TypeOK, Messages
<1>2. ASSUME NEW t \in Threads, EintrThread(t),
             UNCHANGED <<running, queue, taken>>
      PROVE  FreshInv'
  BY <1>1, <1>2 DEF FreshInv, EintrThread
<1>3. CASE UNCHANGED <<running, queue, taken, pc, msg>>
  BY <1>3 DEF FreshInv
<1>4. CASE Signal
  BY <1>2, <1>3, <1>4 DEF Signal
<1>5. CASE MainEnd
  <2>1. CASE MainKill
    <3>1. idx \in Threads
      BY DEF SpawnInv, ControlInv, TypeOK
    <3> QED BY <1>2, <1>3, <2>1, <3>1 DEF MainKill
  <2>2. CASE MainJoin
    BY <1>3, <2>2 DEF MainJoin, threadVars, cmdVars
  <2> QED BY <1>5, <2>1, <2>2 DEF MainEnd
<1>6. ASSUME NEW q \in Messages, CommandExits(q)
      PROVE  FreshInv'
  BY <1>6 DEF FreshInv, CommandExits, mainVars, threadVars
<1>7. ASSUME NEW t \in Threads, MainForward(t)
      PROVE  FreshInv'
  <2>1. /\ UNCHANGED <<running, pc, msg>>
        /\ taken' = taken + 1
        /\ queue' = [queue EXCEPT ![t] = Append(@, taken')]
    BY <1>7 DEF MainForward, threadVars, cmdVars
  <2>2. taken' \notin running
    BY <1>1, <2>1 DEF FreshInv
  <2>3. ASSUME NEW u \in Threads, NEW i \in 1..Len(queue'[u])
        PROVE  queue'[u][i] \notin running
    <3>1. queue'[u][i] = taken' \/
            (i \in 1..Len(queue[u]) /\ queue'[u][i] = queue[u][i])
      BY <1>1, <2>1
    <3> QED BY <2>2, <3>1 DEF FreshInv
  <2>4. \A m \in running : m <= taken'
    BY <1>1, <2>1 DEF FreshInv
  <2> QED BY <2>1, <2>3, <2>4 DEF FreshInv
<1>8. ASSUME NEW t \in Threads, ThreadStep(t)
      PROVE  FreshInv'
  <2>1. CASE ThreadLoop(t) \/ ThreadClose(t) \/ ThreadCloseInput(t)
             \/ ThreadWait(t)
    BY <1>1, <2>1 DEF ThreadLoop, ThreadClose, ThreadCloseInput, ThreadWait,
                      FreshInv, mainVars, cmdVars
  <2>2. CASE ThreadPoll(t)
    <3>1. /\ UNCHANGED <<running, taken>>
          /\ queue[t] # <<>>
          /\ msg' = [msg EXCEPT ![t] = Head(queue[t])]
          /\ queue' = [queue EXCEPT ![t] = Tail(@)]
          /\ pc' = [pc EXCEPT ![t] = "recv"]
      BY <2>2 DEF ThreadPoll, mainVars, cmdVars
    <3>2. 1 \in 1..Len(queue[t]) /\ Head(queue[t]) = queue[t][1]
      BY <1>1, <3>1
    <3>3. \A u \in Threads : pc'[u] \in {"recv", "pipe", "spawn"} =>
            msg'[u] \notin running
      BY <1>1, <3>1, <3>2 DEF FreshInv
    <3>4. ASSUME NEW u \in Threads, NEW i \in 1..Len(queue'[u])
          PROVE  \E j \in 1..Len(queue[u]) : queue'[u][i] = queue[u][j]
      <4>1. CASE u = t
        <5> DEFINE q == queue[t]
        <5>1. queue'[t] = Tail(q) /\ q \in Seq(Messages) /\ q # <<>>
          BY <1>1, <3>1
        <5> HIDE DEF q
        <5>2. i \in 1..Len(Tail(q))
          BY <3>4, <4>1, <5>1
        <5>3. i + 1 \in 1..Len(q) /\ Tail(q)[i] = q[i + 1]
          BY <5>1, <5>2
        <5> QED BY <4>1, <5>1, <5>3 DEF q
      <4>2. CASE u # t
        BY <1>1, <3>1, <4>2
      <4> QED BY <4>1, <4>2
    <3>5. \A u \in Threads : \A i \in 1..Len(queue'[u]) :
            queue'[u][i] \notin running
      BY <3>4 DEF FreshInv
    <3> QED BY <3>1, <3>3, <3>5 DEF FreshInv
  <2>3. CASE ThreadRecv(t)
    BY <1>1, <2>3 DEF ThreadRecv, FreshInv, mainVars, cmdVars
  <2>4. CASE ThreadPipe(t)
    BY <1>1, <2>4 DEF ThreadPipe, FreshInv, mainVars
  <2>5. CASE ThreadSpawn(t)
    <3>1. /\ UNCHANGED <<queue, taken, msg>>
          /\ pc[t] = "spawn"
          /\ running' = running \cup {msg[t]}
          /\ pc' = [pc EXCEPT ![t] = "close"]
      BY <2>5 DEF ThreadSpawn, mainVars
    <3>2. msg[t] # 0
      BY <1>1, <3>1 DEF Idle
    <3>3. /\ \A u \in Threads : msg[u] = msg[t] => u = t
          /\ \A u \in Threads : \A i \in 1..Len(queue[u]) :
               msg[t] # queue[u][i]
          /\ msg[t] <= taken
      BY <3>2 DEF SpawnInv, OwnerInv
    <3>4. \A u \in Threads : pc'[u] \in {"recv", "pipe", "spawn"} =>
            msg[u] \notin running'
      BY <1>1, <3>1, <3>3 DEF FreshInv
    <3> QED BY <3>1, <3>3, <3>4 DEF FreshInv
  <2>6. CASE ThreadPipeFails(t) \/ ThreadSpawnFails(t)
    BY <1>1, <2>6 DEF ThreadPipeFails, ThreadSpawnFails, FreshInv, mainVars
  <2>7. CASE ThreadWrite(t) \/ ThreadWriteBroken(t)
    BY <1>3, <2>7 DEF ThreadWrite, ThreadWriteBroken, mainVars, threadVars,
                      cmdVars
  <2> QED BY <1>8, <2>1, <2>2, <2>3, <2>4, <2>5, <2>6, <2>7 DEF ThreadStep
<1>9. CASE UNCHANGED vars
  BY <1>3, <1>9 DEF vars, mainVars, threadVars, cmdVars
<1> QED BY <1>4, <1>5, <1>6, <1>7, <1>8, <1>9 DEF Next

\* Whatever happens, tangled commands run on and keep the ends they have.
LEMMA TangledKeeps ==
  ASSUME NEW S
  PROVE  SpawnInv /\ FreshInv /\ Tangled(S) /\ [Next]_vars => Tangled(S)'
<1> SUFFICES ASSUME SpawnInv, FreshInv, Tangled(S), [Next]_vars
             PROVE  Tangled(S)'
  OBVIOUS
<1>1. /\ pc \in [Threads -> ThreadPc]
      /\ msg \in [Threads -> Messages \cup {0}]
      /\ wr \in [Messages -> SUBSET Holders]
      /\ running \subseteq Messages
      /\ 0 \notin Messages
      /\ \A u \in Threads : (msg[u] = 0) <=> (pc[u] \in Idle)
  BY FramesAssumption
     DEF SpawnInv, ControlInv, ThreadControl, TypeOK, Messages
<1>2. /\ S # {} /\ S \subseteq running \ Careless
      /\ \A c \in S : c \in Messages
      /\ \A c \in S : wr[c] \cap (S \ {c}) # {}
  BY <1>1 DEF Tangled
<1>3. ASSUME S \subseteq running',
             \A c \in S : \A d \in S : d \in wr[c] => d \in wr'[c]
      PROVE  Tangled(S)'
  BY <1>2, <1>3 DEF Tangled
<1>4. CASE UNCHANGED <<running, wr>>
  BY <1>2, <1>3, <1>4
<1>5. CASE Signal \/ MainEnd
  BY <1>4, <1>5 DEF Signal, MainEnd, MainKill, MainJoin, endVars, cmdVars
<1>6. ASSUME NEW t \in Threads, MainForward(t)
      PROVE  Tangled(S)'
  BY <1>4, <1>6 DEF MainForward, endVars, cmdVars
<1>7. ASSUME NEW q \in Messages, CommandExits(q)
      PROVE  Tangled(S)'
  <2>1. q \notin S
    BY <1>2, <1>7 DEF CommandExits
  <2>2. /\ running' = running \ {q}
        /\ wr' = [p \in Messages |-> wr[p] \ {q}]
    BY <1>7 DEF CommandExits
  <2> QED BY <1>2, <1>3, <2>1, <2>2
<1>8. ASSUME NEW t \in Threads, ThreadStep(t)
      PROVE  Tangled(S)'
  <2>1. CASE ThreadLoop(t) \/ ThreadPoll(t) \/ ThreadRecv(t)
             \/ ThreadPipeFails(t) \/ ThreadSpawnFails(t) \/ ThreadClose(t)
             \/ ThreadWrite(t) \/ ThreadWait(t)
    BY <1>4, <2>1
       DEF ThreadLoop, ThreadPoll, ThreadRecv, ThreadPipeFails,
           ThreadSpawnFails, ThreadClose, ThreadWrite, ThreadWait, endVars,
           cmdVars
  <2>2. CASE ThreadPipe(t)
    <3>1. msg[t] \notin S
      BY <1>2, <2>2 DEF ThreadPipe, FreshInv
    <3>2. /\ running' = running
          /\ wr' = [wr EXCEPT ![msg[t]] = {0}]
      BY <2>2 DEF ThreadPipe
    <3> QED BY <1>1, <1>2, <1>3, <3>1, <3>2
  <2>3. CASE ThreadSpawn(t)
    BY <1>2, <1>3, <2>3 DEF ThreadSpawn
  <2>4. CASE ThreadWriteBroken(t)
    <3>1. /\ running' = running
          /\ wr' = [p \in Messages |-> wr[p] \ {0}]
      BY <2>4 DEF ThreadWriteBroken, cmdVars
    <3> QED BY <1>1, <1>2, <1>3, <3>1
  <2>5. CASE ThreadCloseInput(t)
    <3>1. /\ running' = running
          /\ wr' = [wr EXCEPT ![msg[t]] = @ \ {0}]
      BY <2>5 DEF ThreadCloseInput, cmdVars
    <3> QED BY <1>1, <1>2, <1>3, <3>1
  <2> QED BY <1>8, <2>1, <2>2, <2>3, <2>4, <2>5 DEF ThreadStep
<1>9. CASE UNCHANGED vars
  BY <1>4, <1>9 DEF vars, endVars, cmdVars
<1> QED BY <1>5, <1>6, <1>7, <1>8, <1>9 DEF Next

\* Commands that have inherited the write ends of each other's pipes
\* (_spawn_run: posix_spawnp, without O_CLOEXEC) run for ever, whatever
\* zlmb-worker does: no message that comes, no signal, not even its end closes
\* an end that a command has.
THEOREM TangledForEver ==
  ASSUME NEW S
  PROVE  Spec => [](Tangled(S) => []Tangled(S))
<1>1. Init => FreshInv
  BY DEF Init, FreshInv
<1>2. Spec => [](SpawnInv /\ FreshInv)
  BY <1>1, SpawnInvariant, FreshKeeps, PTL DEF Spec
<1>3. SpawnInv /\ FreshInv /\ Tangled(S) /\ [Next]_vars => Tangled(S)'
  BY TangledKeeps
<1> QED BY <1>2, <1>3, PTL DEF Spec
=============================================================================
