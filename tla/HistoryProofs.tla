--------------------------- MODULE HistoryProofs ---------------------------
(***************************************************************************)
(* What becomes of a history when a record is added to it.  Nothing is     *)
(* said by induction on the history: the places of the messages that have  *)
(* ended are part of what a server's invariant says of its history, and    *)
(* are carried from step to step.                                          *)
(***************************************************************************)
EXTENDS History, FiniteSetTheorems, TLAPS

\* A sequence with one element more.
LEMMA AppendFacts ==
  ASSUME NEW S, NEW q \in Seq(S), NEW x \in S, NEW r, r = Append(q, x)
  PROVE  /\ r \in Seq(S) /\ Len(q) \in Nat /\ Len(r) = Len(q) + 1
         /\ DOMAIN q = 1..Len(q) /\ DOMAIN r = 1..(Len(q) + 1)
         /\ r[Len(q) + 1] = x
         /\ \A j \in DOMAIN q : r[j] = q[j]
  OBVIOUS

\* t is h with the record r added.
Extends(t, h, r) ==
  /\ Len(h) \in Nat /\ DOMAIN h = 1..Len(h)
  /\ Len(t) = Len(h) + 1 /\ DOMAIN t = 1..(Len(h) + 1)
  /\ t[Len(h) + 1] = r
  /\ \A j \in 1..Len(h) : t[j] = h[j]

\* Append does that.
LEMMA AppendExtends ==
  ASSUME NEW S, NEW h \in Seq(S), NEW r \in S, NEW t, t = Append(h, r)
  PROVE  Extends(t, h, r)
  BY DEF Extends

\* The first messages of the application, in order, are the ones that ended.
InOrder(h, frames, c) ==
  /\ c \in Nat
  /\ Cardinality(Ends(h, frames)) = c
  /\ \A n \in 1..c : /\ Nth(Ends(h, frames), n) \in Ends(h, frames)
                     /\ h[Nth(Ends(h, frames), n)].msg = n

\* Then the messages that ended are the first c.
LEMMA InOrderEnded ==
  ASSUME NEW h, NEW frames, NEW c, InOrder(h, frames, c)
  PROVE  Ended(h, frames) = [n \in 1..c |-> n]
  BY DEF InOrder, Ended

\* No message has ended in an empty history.
LEMMA InOrderEmpty ==
  ASSUME NEW frames
  PROVE  InOrder(<<>>, frames, 0)
<1>1. Ends(<<>>, frames) = {}
  BY DEF Ends
<1> QED
  BY <1>1, FS_EmptySet DEF InOrder

\* The places of the messages that ended are finitely many.
LEMMA EndsFinite ==
  ASSUME NEW h, Len(h) \in Nat, DOMAIN h = 1..Len(h), NEW frames
  PROVE  IsFiniteSet(Ends(h, frames)) /\ Ends(h, frames) \subseteq 1..Len(h)
<1>2. Ends(h, frames) \subseteq 1..Len(h)
  BY DEF Ends
<1>3. IsFiniteSet(1..Len(h))
  BY FS_Interval
<1> QED
  BY <1>2, <1>3, FS_Subset

\* A place behind all others becomes the last of them.
LEMMA NthAppend ==
  ASSUME NEW S, IsFiniteSet(S), NEW x \in Nat, S \subseteq 1..x
  PROVE  /\ Cardinality(S \cup {x + 1}) = Cardinality(S) + 1
         /\ Nth(S \cup {x + 1}, Cardinality(S) + 1) = x + 1
         /\ \A n \in 1..Cardinality(S) :
              Nth(S \cup {x + 1}, n) = Nth(S, n)
<1> DEFINE T == S \cup {x + 1}
<1>1. x + 1 \notin S /\ \A j \in S : j \in Nat /\ j <= x
  OBVIOUS
<1>2. /\ Cardinality(S) \in Nat
      /\ IsFiniteSet(T) /\ Cardinality(T) = Cardinality(S) + 1
  BY <1>1, FS_CardinalityType, FS_AddElement
<1>3. UpTo(T, x + 1) = T
  <2>1. \A j \in T : j <= x + 1
    BY <1>1
  <2> QED
    BY <2>1 DEF UpTo
<1>4. ASSUME NEW j \in S
      PROVE  /\ UpTo(T, j) = UpTo(S, j) /\ Cardinality(UpTo(S, j)) \in Nat
             /\ Cardinality(UpTo(S, j)) <= Cardinality(S)
  <2>1. UpTo(T, j) = UpTo(S, j)
    BY <1>1 DEF UpTo
  <2>2. UpTo(S, j) \subseteq S
    BY DEF UpTo
  <2> QED
    BY <2>1, <2>2, FS_Subset, FS_CardinalityType
<1> DEFINE at(s, n) == {j \in s : Cardinality(UpTo(s, j)) = n}
<1>5. at(T, Cardinality(S) + 1) = {x + 1}
  <2>1. ASSUME NEW j \in S
        PROVE  Cardinality(UpTo(T, j)) # Cardinality(S) + 1
    <3>1. \A a, b \in Nat : a <= b => a # b + 1
      OBVIOUS
    <3> QED
      BY <1>2, <1>4, <3>1, Zenon
  <2>2. Cardinality(UpTo(T, x + 1)) = Cardinality(S) + 1
    BY <1>2, <1>3, Zenon
  <2> QED
    BY <2>1, <2>2, Zenon
<1>6. ASSUME NEW n \in 1..Cardinality(S)
      PROVE  at(T, n) = at(S, n)
  <2>1. n # Cardinality(S) + 1
    BY <1>2
  <2>2. Cardinality(UpTo(T, x + 1)) # n
    BY <1>2, <1>3, <2>1, Zenon
  <2>3. \A j \in S : Cardinality(UpTo(T, j)) = Cardinality(UpTo(S, j))
    BY <1>4, Zenon
  <2> QED
    BY <2>2, <2>3
<1> HIDE DEF at
<1>7. \A s, n : Nth(s, n) = CHOOSE i \in at(s, n) : TRUE
  BY DEF Nth, at
<1>8. Nth(T, Cardinality(S) + 1) = x + 1
  BY <1>5, <1>7
<1>9. \A n \in 1..Cardinality(S) : Nth(T, n) = Nth(S, n)
  BY <1>6, <1>7
<1> QED
  BY <1>2, <1>8, <1>9

\* A frame that is not the last of its message.
LEMMA InOrderFrame ==
  ASSUME NEW h, NEW r, NEW t, Extends(t, h, r),
         NEW frames, NEW c, InOrder(h, frames, c), r.frame # frames[r.msg]
  PROVE  InOrder(t, frames, c)
<1>1. /\ Len(h) \in Nat /\ DOMAIN h = 1..Len(h)
      /\ DOMAIN t = 1..(Len(h) + 1) /\ t[Len(h) + 1] = r
      /\ \A j \in DOMAIN h : t[j] = h[j]
  BY DEF Extends
<1>2. Ends(t, frames) = Ends(h, frames)
  BY <1>1 DEF Ends
<1>3. \A n \in Ends(h, frames) : t[n] = h[n]
  BY <1>1 DEF Ends
<1>4. c \in Nat /\ Cardinality(Ends(t, frames)) = c
  BY <1>2, Zenon DEF InOrder
<1>5. ASSUME NEW n \in 1..c
      PROVE  /\ Nth(Ends(t, frames), n) \in Ends(t, frames)
             /\ t[Nth(Ends(t, frames), n)].msg = n
  BY <1>2, <1>3 DEF InOrder
<1> QED
  BY <1>4, <1>5, Zenon DEF InOrder

\* The last frame of the message that is next.
LEMMA InOrderLast ==
  ASSUME NEW h, NEW r, NEW t, Extends(t, h, r),
         NEW frames, NEW c, InOrder(h, frames, c),
         r.msg = c + 1, r.frame = frames[c + 1]
  PROVE  InOrder(t, frames, c + 1)
<1> DEFINE E == Ends(h, frames)
           F == Ends(t, frames)
<1>1. /\ Len(h) \in Nat /\ DOMAIN h = 1..Len(h)
      /\ DOMAIN t = 1..(Len(h) + 1) /\ t[Len(h) + 1] = r
      /\ \A j \in DOMAIN h : t[j] = h[j]
  BY DEF Extends
<1>2. F = E \cup {Len(h) + 1}
  BY <1>1 DEF Ends
<1>3. IsFiniteSet(E) /\ E \subseteq 1..Len(h)
  BY <1>1, EndsFinite
<1>4. Cardinality(E) = c /\ c \in Nat
  BY DEF InOrder
<1>5. \A n \in 1..c : Nth(E, n) \in E /\ h[Nth(E, n)].msg = n
  BY DEF InOrder
<1> HIDE DEF E, F
<1>6. /\ Cardinality(F) = c + 1 /\ Nth(F, c + 1) = Len(h) + 1
      /\ \A n \in 1..c : Nth(F, n) = Nth(E, n)
  <2>1. /\ Cardinality(F) = Cardinality(E) + 1
        /\ Nth(F, Cardinality(E) + 1) = Len(h) + 1
        /\ \A n \in 1..Cardinality(E) : Nth(F, n) = Nth(E, n)
    <3>1. Len(h) \in Nat
      BY <1>1
    <3> DEFINE G == E \cup {Len(h) + 1}
    <3>2. /\ Cardinality(G) = Cardinality(E) + 1
          /\ Nth(G, Cardinality(E) + 1) = Len(h) + 1
          /\ \A n \in 1..Cardinality(E) : Nth(G, n) = Nth(E, n)
      BY <1>3, <3>1, NthAppend, Zenon
    <3>3. F = G
      BY <1>2
    <3> QED
      BY <3>2, <3>3, Zenon
  <2> QED
    BY <1>4, <2>1, Zenon
<1>7. ASSUME NEW n \in 1..(c + 1)
      PROVE  Nth(F, n) \in F /\ t[Nth(F, n)].msg = n
  <2>1. CASE n \in 1..c
    <3>1. Nth(F, n) = Nth(E, n) /\ Nth(E, n) \in E
      BY <1>5, <1>6, <2>1, Zenon
    <3>2. t[Nth(E, n)] = h[Nth(E, n)]
      BY <1>1, <1>3, <3>1
    <3> QED
      BY <1>2, <1>5, <2>1, <3>1, <3>2, Zenon
  <2>2. CASE n = c + 1
    BY <1>1, <1>2, <1>6, <2>2
  <2>3. n \in 1..c \/ n = c + 1
    BY <1>4
  <2> QED
    BY <2>1, <2>2, <2>3, Zenon
<1>8. c + 1 \in Nat
  BY <1>4
<1> QED
  BY <1>6, <1>7, <1>8 DEF InOrder, F

\* What stands in a history already is all that stands in it after a record
\* that is not its last element.
LEMMA WithinAppend ==
  ASSUME NEW h, NEW r, NEW t, Extends(t, h, r),
         NEW p, Len(p) \in Nat \ {0}, p[Len(p)] # r
  PROVE  Within(p, t) <=> Within(p, h)
<1>1. /\ Len(h) \in Nat /\ Len(t) = Len(h) + 1 /\ DOMAIN h = 1..Len(h)
      /\ t[Len(h) + 1] = r
      /\ \A j \in 1..Len(h) : t[j] = h[j]
  BY DEF Extends
<1>2. Len(p) \in Nat \ {0}
  OBVIOUS
<1>3. ASSUME NEW i \in 0..(Len(h) - Len(p)), NEW k \in 1..Len(p)
      PROVE  t[i + k] = h[i + k]
  BY <1>1, <1>2
<1>4. ASSUME Within(p, h) PROVE Within(p, t)
  <2>1. PICK i \in 0..(Len(h) - Len(p)) :
          \A k \in 1..Len(p) : h[i + k] = p[k]
    BY <1>4 DEF Within
  <2>2. i \in 0..(Len(t) - Len(p))
    BY <1>1, <1>2
  <2> QED
    BY <1>3, <2>1, <2>2 DEF Within
<1>5. ASSUME Within(p, t) PROVE Within(p, h)
  <2>1. PICK i \in 0..(Len(t) - Len(p)) :
          \A k \in 1..Len(p) : t[i + k] = p[k]
    BY <1>5 DEF Within
  <2>2. i + Len(p) # Len(h) + 1
    BY <1>1, <1>2, <2>1
  <2>3. i \in 0..(Len(h) - Len(p))
    BY <1>1, <1>2, <2>2
  <2> QED
    BY <1>3, <2>1, <2>3 DEF Within
<1> QED
  BY <1>4, <1>5

\* The elements of p are the last of a history.
LEMMA WithinLast ==
  ASSUME NEW h, NEW p, Len(h) \in Nat, Len(p) \in Nat, Len(p) <= Len(h),
         \A k \in 1..Len(p) : h[(Len(h) - Len(p)) + k] = p[k]
  PROVE  Within(p, h)
<1>1. Len(h) - Len(p) \in 0..(Len(h) - Len(p))
  OBVIOUS
<1> QED
  BY <1>1 DEF Within

-----------------------------------------------------------------------------
(***************************************************************************)
(* The frames of the message in hand.                                      *)
(***************************************************************************)
\* What becomes of frame k of a message that is relayed in mode md.
Fated(drops, md, k) ==
  IF drops /\ k = 1 THEN "key" ELSE IF md = "dump" THEN "dumped" ELSE "sent"

\* The last n records of h are the first frames of message m.
Hand(h, n, m) ==
  /\ n <= Len(h)
  /\ \A k \in 1..n : /\ h[(Len(h) - n) + k].msg = m
                     /\ h[(Len(h) - n) + k].frame = k

HandFated(h, n, drops, md) ==
  \A k \in 1..n : h[(Len(h) - n) + k].fate = Fated(drops, md, k)

\* The frames in hand are the last of the history again, with one more.
LEMMA HandExtends ==
  ASSUME NEW h, NEW t, NEW m, NEW n \in Nat, NEW fate, Hand(h, n, m),
         Extends(t, h, [msg |-> m, frame |-> n + 1, fate |-> fate])
  PROVE  Hand(t, n + 1, m)
<1> DEFINE r == [msg |-> m, frame |-> n + 1, fate |-> fate]
<1>1. /\ Len(h) \in Nat /\ Len(t) = Len(h) + 1 /\ t[Len(h) + 1] = r
      /\ \A j \in 1..Len(h) : t[j] = h[j]
  BY DEF Extends
<1>2. n <= Len(h) /\ \A k \in 1..n : /\ h[(Len(h) - n) + k].msg = m
                                      /\ h[(Len(h) - n) + k].frame = k
  BY DEF Hand
<1>3. ASSUME NEW k \in 1..(n + 1)
      PROVE  /\ t[(Len(t) - (n + 1)) + k].msg = m
             /\ t[(Len(t) - (n + 1)) + k].frame = k
  <2>1. (Len(t) - (n + 1)) + k = (Len(h) - n) + k
    BY <1>1
  <2>2. CASE k \in 1..n
    <3>1. (Len(h) - n) + k \in 1..Len(h)
      BY <1>1, <1>2, <2>2
    <3> QED
      BY <1>1, <1>2, <2>1, <2>2, <3>1
  <2>3. CASE k = n + 1
    <3>1. (Len(h) - n) + k = Len(h) + 1
      BY <1>1, <2>3
    <3> QED
      BY <1>1, <2>1, <2>3, <3>1
  <2>4. k \in 1..n \/ k = n + 1
    OBVIOUS
  <2> QED
    BY <2>2, <2>3, <2>4
<1>4. n + 1 <= Len(t)
  BY <1>1, <1>2
<1> QED
  BY <1>3, <1>4 DEF Hand

\* And they share one fate, if the new one does.
LEMMA FatedExtends ==
  ASSUME NEW h, NEW t, NEW m, NEW n \in Nat, NEW drops, NEW md, NEW fate,
         n <= Len(h), HandFated(h, n, drops, md),
         Extends(t, h, [msg |-> m, frame |-> n + 1, fate |-> fate]),
         fate = Fated(drops, md, n + 1)
  PROVE  HandFated(t, n + 1, drops, md)
<1> DEFINE r == [msg |-> m, frame |-> n + 1, fate |-> fate]
<1>1. /\ Len(h) \in Nat /\ Len(t) = Len(h) + 1 /\ t[Len(h) + 1] = r
      /\ \A j \in 1..Len(h) : t[j] = h[j]
  BY DEF Extends
<1>2. ASSUME NEW k \in 1..(n + 1)
      PROVE  t[(Len(t) - (n + 1)) + k].fate = Fated(drops, md, k)
  <2>1. (Len(t) - (n + 1)) + k = (Len(h) - n) + k
    BY <1>1
  <2>2. CASE k \in 1..n
    <3>1. (Len(h) - n) + k \in 1..Len(h)
      BY <1>1, <2>2
    <3>2. h[(Len(h) - n) + k].fate = Fated(drops, md, k)
      BY <2>2 DEF HandFated
    <3> QED
      BY <1>1, <2>1, <3>1, <3>2
  <2>3. CASE k = n + 1
    <3>1. (Len(h) - n) + k = Len(h) + 1
      BY <1>1, <2>3
    <3> QED
      BY <1>1, <2>1, <2>3, <3>1
  <2>4. k \in 1..n \/ k = n + 1
    OBVIOUS
  <2> QED
    BY <2>2, <2>3, <2>4
<1> QED
  BY <1>2 DEF HandFated

-----------------------------------------------------------------------------
(***************************************************************************)
(* What becomes of the messages that have ended.                           *)
(***************************************************************************)
\* The last record of a whole message.
LEMMA WholeLast ==
  ASSUME NEW m, NEW n \in Nat \ {0}, NEW drops, NEW fate
  PROVE  /\ Len(Whole(m, n, drops, fate)) = n
         /\ Whole(m, n, drops, fate)[n].msg = m
  BY DEF Whole

\* A record of another message changes nothing.
LEMMA FateKept ==
  ASSUME NEW h, NEW r, NEW t, Extends(t, h, r),
         NEW frames, NEW drops, NEW m, frames[m] \in Nat \ {0}, r.msg # m
  PROVE  FateIn(t, frames, drops, m) = FateIn(h, frames, drops, m)
<1>1. ASSUME NEW fate
      PROVE  Within(Whole(m, frames[m], drops, fate), t)
               <=> Within(Whole(m, frames[m], drops, fate), h)
  <2> DEFINE n == frames[m]
             p == Whole(m, n, drops, fate)
  <2>1. Len(p) \in Nat \ {0} /\ p[Len(p)].msg = m
    <3>1. n \in Nat \ {0}
      OBVIOUS
    <3> HIDE DEF n
    <3> QED
      BY <3>1, WholeLast
  <2> HIDE DEF p
  <2>2. p[Len(p)] # r
    BY <2>1
  <2>3. Within(p, t) <=> Within(p, h)
    BY <2>1, <2>2, WithinAppend
  <2> QED
    BY <2>3 DEF p
<1> QED
  BY <1>1, Zenon DEF FateIn

\* A message that stands in the history as a whole is not damaged.
LEMMA FateWhole ==
  ASSUME NEW h, NEW frames, NEW drops, NEW m, NEW n, n = frames[m],
         NEW fate \in {"sent", "dumped"},
         Within(Whole(m, n, drops, fate), h)
  PROVE  FateIn(h, frames, drops, m) # "damaged"
  BY DEF FateIn

\* The elements of a history are records with three fields.
Records(h) ==
  /\ Len(h) \in Nat /\ DOMAIN h = 1..Len(h)
  /\ \A i \in DOMAIN h :
       h[i] = [msg |-> h[i].msg, frame |-> h[i].frame, fate |-> h[i].fate]

\* A history of a server's type is one of records.
LEMMA RecordsType ==
  ASSUME NEW M, NEW F, NEW W, NEW h \in Seq([msg : M, frame : F, fate : W])
  PROVE  Records(h)
<1> DEFINE S == [msg : M, frame : F, fate : W]
<1>1. \A x \in S : x = [msg |-> x.msg, frame |-> x.frame, fate |-> x.fate]
  OBVIOUS
<1>2. h \in Seq(S)
  OBVIOUS
<1> HIDE DEF S
<1>3. Len(h) \in Nat /\ DOMAIN h = 1..Len(h) /\ \A i \in DOMAIN h : h[i] \in S
  BY <1>2
<1> QED
  BY <1>1, <1>3 DEF Records

\* When all its frames are done with and share one fate, it is not.
LEMMA HandWhole ==
  ASSUME NEW h, Records(h), NEW frames, NEW drops, NEW md, NEW m,
         NEW n \in Nat \ {0}, n = frames[m], Hand(h, n, m),
         HandFated(h, n, drops, md)
  PROVE  FateIn(h, frames, drops, m) # "damaged"
<1> DEFINE w == IF md = "dump" THEN "dumped" ELSE "sent"
           p == Whole(m, n, drops, w)
<1>1. Len(p) = n
  BY WholeLast
<1>2. Len(h) \in Nat /\ n <= Len(h) /\ w \in {"sent", "dumped"}
  BY DEF Hand, Records
<1>3. ASSUME NEW k \in 1..n PROVE h[(Len(h) - n) + k] = p[k]
  <2> DEFINE x == h[(Len(h) - n) + k]
             v == IF drops /\ k = 1 THEN "key" ELSE w
  <2>1. (Len(h) - n) + k \in 1..Len(h)
    BY <1>2
  <2>2. x = [msg |-> x.msg, frame |-> x.frame, fate |-> x.fate]
    BY <2>1 DEF Records
  <2>3. x.msg = m /\ x.frame = k
    BY DEF Hand
  <2>4. x.fate = v
    BY DEF HandFated, Fated
  <2>5. p[k] = [msg |-> m, frame |-> k, fate |-> v]
    BY DEF Whole
  <2> HIDE DEF x, v, p
  <2>6. x = [msg |-> m, frame |-> k, fate |-> v]
    BY <2>2, <2>3, <2>4
  <2> QED
    BY <2>5, <2>6 DEF x
<1> HIDE DEF p
<1>4. Within(p, h)
  BY <1>1, <1>2, <1>3, WithinLast
<1> HIDE DEF w
<1> QED
  BY <1>2, <1>4, FateWhole DEF p

\* A message that is only a key is discarded.
LEMMA FateKeyOnly ==
  ASSUME NEW h, Len(h) \in Nat, NEW frames, NEW m, frames[m] = 1,
         Len(h) >= 1, h[Len(h)] = [msg |-> m, frame |-> 1, fate |-> "key"]
  PROVE  FateIn(h, frames, TRUE, m) = "discarded"
<1> DEFINE p == Whole(m, 1, TRUE, "sent")
<1>1. Len(p) = 1
  BY DEF Whole
<1>2. Len(h) \in Nat /\ (Len(h) - 1) + 1 = Len(h)
  OBVIOUS
<1>3. p[1] = [msg |-> m, frame |-> 1, fate |-> "key"]
  BY DEF Whole
<1> HIDE DEF p
<1>4. Within(p, h)
  <2>1. /\ Len(p) \in Nat /\ Len(p) <= Len(h)
        /\ \A k \in 1..Len(p) : h[(Len(h) - Len(p)) + k] = p[k]
    BY <1>1, <1>2, <1>3
  <2> QED
    BY <1>2, <2>1, WithinLast, Zenon
<1> QED
  BY <1>4 DEF p, FateIn

\* Then what is relayed is the first c messages, each with its fate.
LEMMA RelayedInOrder ==
  ASSUME NEW h, NEW frames, NEW drops, NEW c, InOrder(h, frames, c)
  PROVE  RelayedIn(h, frames, drops) =
           [n \in 1..c |-> [msg |-> n, fate |-> FateIn(h, frames, drops, n)]]
<1> DEFINE e == Ended(h, frames)
           M == {h[i].msg : i \in Ends(h, frames)}
           fate == [m \in M |-> FateIn(h, frames, drops, m)]
<1>1. e = [n \in 1..c |-> n]
  BY InOrderEnded
<1>2. \A n \in 1..c : n \in M
  BY DEF InOrder
<1>3. RelayedIn(h, frames, drops) =
        [n \in DOMAIN e |-> [msg |-> e[n], fate |-> fate[e[n]]]]
  BY DEF RelayedIn
<1>4. \A n \in 1..c : fate[n] = FateIn(h, frames, drops, n)
  BY <1>2
<1> HIDE DEF e, fate
<1>5. DOMAIN e = 1..c /\ \A n \in 1..c : e[n] = n
  BY <1>1
<1> QED
  BY <1>3, <1>4, <1>5

\* No message ends.
LEMMA RelayedFrame ==
  ASSUME NEW h, NEW r, NEW t, Extends(t, h, r),
         NEW frames, NEW drops, NEW c, InOrder(h, frames, c),
         InOrder(t, frames, c),
         \A n \in 1..c : frames[n] \in Nat \ {0} /\ r.msg # n
  PROVE  RelayedIn(t, frames, drops) = RelayedIn(h, frames, drops)
<1>1. ASSUME NEW n \in 1..c
      PROVE  FateIn(t, frames, drops, n) = FateIn(h, frames, drops, n)
  <2>1. frames[n] \in Nat \ {0} /\ r.msg # n
    OBVIOUS
  <2>2. FateIn(t, frames, drops, n) = FateIn(h, frames, drops, n)
    BY <2>1, FateKept
  <2> QED
    BY <2>2, Zenon
<1>2. /\ RelayedIn(h, frames, drops) =
           [n \in 1..c |-> [msg |-> n, fate |-> FateIn(h, frames, drops, n)]]
      /\ RelayedIn(t, frames, drops) =
           [n \in 1..c |-> [msg |-> n, fate |-> FateIn(t, frames, drops, n)]]
  BY RelayedInOrder
<1>3. [n \in 1..c |-> [msg |-> n, fate |-> FateIn(h, frames, drops, n)]]
        = [n \in 1..c |-> [msg |-> n, fate |-> FateIn(t, frames, drops, n)]]
  BY <1>1
<1> QED
  BY <1>2, <1>3, Zenon

\* The next message ends.
LEMMA RelayedLast ==
  ASSUME NEW h, NEW r, NEW t, Extends(t, h, r),
         NEW frames, NEW drops, NEW c, InOrder(h, frames, c),
         InOrder(t, frames, c + 1), c \in Nat,
         \A n \in 1..c : frames[n] \in Nat \ {0} /\ r.msg # n
  PROVE  /\ Len(RelayedIn(h, frames, drops)) = c
         /\ RelayedIn(t, frames, drops) =
              Append(RelayedIn(h, frames, drops),
                     [msg |-> c + 1, fate |-> FateIn(t, frames, drops, c + 1)])
<1> DEFINE old(n) == [msg |-> n, fate |-> FateIn(h, frames, drops, n)]
           new(n) == [msg |-> n, fate |-> FateIn(t, frames, drops, n)]
           p == [n \in 1..c |-> old(n)]
           q == [n \in 1..(c + 1) |-> new(n)]
<1>1. ASSUME NEW n \in 1..c PROVE new(n) = old(n)
  <2>1. frames[n] \in Nat \ {0} /\ r.msg # n
    OBVIOUS
  <2>2. FateIn(t, frames, drops, n) = FateIn(h, frames, drops, n)
    BY <2>1, FateKept
  <2> QED
    BY <2>2, Zenon
<1>2. RelayedIn(h, frames, drops) = p /\ RelayedIn(t, frames, drops) = q
  BY RelayedInOrder
<1> HIDE DEF old, new
<1>3. Len(p) = c /\ q = Append(p, new(c + 1))
  BY <1>1
<1> QED
  BY <1>2, <1>3 DEF new
=============================================================================
