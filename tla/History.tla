------------------------------ MODULE History ------------------------------
(***************************************************************************)
(* What the histories of the servers are read for: the variable out of a   *)
(* server holds, oldest first, a record with fields msg and frame for      *)
(* every frame that is done with; frames[m] is the number of frames of     *)
(* message m.                                                              *)
(***************************************************************************)
EXTENDS Integers, Sequences, FiniteSets

\* The elements of p stand in h, one after the other.
Within(p, h) ==
  \E i \in 0..(Len(h) - Len(p)) : \A k \in 1..Len(p) : h[i + k] = p[k]

\* Where the last frames of the messages are.
Ends(h, frames) == {i \in DOMAIN h : h[i].frame = frames[h[i].msg]}

\* The n-th of a set of places.
UpTo(S, i) == {j \in S : j <= i}

Nth(S, n) == CHOOSE i \in {j \in S : Cardinality(UpTo(S, j)) = n} : TRUE

\* The messages whose last frame is done with, in that order.
Ended(h, frames) ==
  LET ends == Ends(h, frames)
  IN [n \in 1..Cardinality(ends) |-> h[Nth(ends, n)].msg]

-----------------------------------------------------------------------------
\* Message m of n frames: the key first, if it is dropped, and the other frames
\* all with this fate.
Whole(m, n, drops, fate) ==
  [k \in 1..n |-> [msg |-> m, frame |-> k,
                   fate |-> IF drops /\ k = 1 THEN "key" ELSE fate]]

\* What became of a message: its frames stand together in h, complete and in
\* order, or it is damaged.
FateIn(h, frames, drops, m) ==
  IF Within(Whole(m, frames[m], drops, "sent"), h)
  THEN IF drops /\ frames[m] = 1 THEN "discarded" ELSE "sent"
  ELSE IF Within(Whole(m, frames[m], drops, "dumped"), h) THEN "dumped"
                                                          ELSE "damaged"

\* The messages that have ended, in that order, and what became of them.
RelayedIn(h, frames, drops) ==
  LET ended == Ended(h, frames)
      fate  == [m \in {h[i].msg : i \in Ends(h, frames)} |->
                  FateIn(h, frames, drops, m)]
  IN [n \in DOMAIN ended |-> [msg |-> ended[n], fate |-> fate[ended[n]]]]
=============================================================================
