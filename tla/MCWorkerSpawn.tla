---------------------------- MODULE MCWorkerSpawn ----------------------------
(* zlmb-worker on small instances. *)
EXTENDS WorkerSpawn

\* A message of two frames and two of one.
MCFrames == <<2, 1, 1>>

\* Two messages, for two threads.
MCFrames2 == <<2, 1>>

-----------------------------------------------------------------------------
\* Any five calls of stack.c: the list and a sequence on which the same calls
\* are made hold the same, and shift and pop return the same.
Calls == {"push", "unshift", "shift", "pop"}

After(calls) ==
  LET step[k \in 0..Len(calls)] ==
        IF k = 0 THEN [list |-> NewStack, seq |-> <<>>, same |-> TRUE]
        ELSE LET r == step[k - 1]
                 n == Len(r.seq)
             IN CASE calls[k] = "push" ->
                       [r EXCEPT !.list = Push(@, k), !.seq = Append(@, k)]
                  [] calls[k] = "unshift" ->
                       [r EXCEPT !.list = Unshift(@, k), !.seq = <<k>> \o @]
                  [] calls[k] = "shift" /\ n > 0 ->
                       [list |-> Shift(r.list), seq |-> Tail(r.seq),
                        same |-> r.same /\ Front(r.list) = r.seq[1]]
                  [] calls[k] = "pop" /\ n > 0 ->
                       [list |-> Pop(r.list), seq |-> SubSeq(r.seq, 1, n - 1),
                        same |-> r.same /\ Back(r.list) = r.seq[n]]
                  [] OTHER -> r
  IN step[Len(calls)]

ASSUME ListIsSequence ==
  \A calls \in [1..5 -> Calls] :
    LET r == After(calls) IN r.same /\ Holds(r.list, r.seq)
=============================================================================
