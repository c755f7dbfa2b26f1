---------------------------- MODULE MessageStack ----------------------------
(***************************************************************************)
(* The doubly linked list of src/src/stack.c, in which zlmb-worker keeps   *)
(* the frames of a message.  A list is a record of its head, its tail, its *)
(* size and its items; an item has a number for its address, and 0 is      *)
(* NULL.  Memory does not run out.                                         *)
(***************************************************************************)
EXTENDS Naturals, Sequences, FiniteSets, Functions

Nil == 0

\* zlmb_stack_init
NewStack == [head |-> Nil, tail |-> Nil, size |-> 0, item |-> <<>>]

\* malloc: an address that is free.
FreeAddress(s) ==
  CHOOSE n \in 1..(s.size + 1) : n \notin DOMAIN s.item

\* zlmb_stack_item_init, and the assignments of unshift to the item.
NewItem(next, prev, data) == [next |-> next, prev |-> prev, data |-> data]

WithItem(s, n, item) ==
  [m \in DOMAIN s.item \cup {n} |-> IF m = n THEN item ELSE s.item[m]]

\* zlmb_stack_push, at the tail.
Push(s, d) ==
  LET n == FreeAddress(s)
      linked == IF s.tail = Nil THEN s.item
                ELSE [s.item EXCEPT ![s.tail].next = n]
  IN [head |-> IF s.head = Nil THEN n ELSE s.head,
      tail |-> n,
      size |-> s.size + 1,
      item |-> WithItem([s EXCEPT !.item = linked], n,
                        NewItem(Nil, s.tail, d))]

\* zlmb_stack_unshift, at the head.
Unshift(s, d) ==
  LET n == FreeAddress(s)
      linked == IF s.head = Nil THEN s.item
                ELSE [s.item EXCEPT ![s.head].prev = n]
  IN [head |-> n,
      tail |-> IF s.tail = Nil THEN n ELSE s.tail,
      size |-> s.size + 1,
      item |-> WithItem([s EXCEPT !.item = linked], n,
                        NewItem(s.head, Nil, d))]

\* The end of shift and pop: an empty list is set up anew.
Emptied(s) == IF s.size = 0 THEN NewStack ELSE s

\* What zlmb_stack_shift and zlmb_stack_pop return.
Front(s) == s.item[s.head].data
Back(s)  == s.item[s.tail].data

\* zlmb_stack_shift of a list that is not empty.
Shift(s) ==
  LET h == s.item[s.head].next
      unlinked == IF h = Nil THEN s.item ELSE [s.item EXCEPT ![h].prev = Nil]
  IN Emptied([head |-> h, tail |-> s.tail, size |-> s.size - 1,
              item |-> Restrict(unlinked, DOMAIN s.item \ {s.head})])

\* zlmb_stack_pop of a list that is not empty.
Pop(s) ==
  LET t == s.item[s.tail].prev
      unlinked == IF t = Nil THEN s.item ELSE [s.item EXCEPT ![t].next = Nil]
  IN Emptied([head |-> s.head, tail |-> t, size |-> s.size - 1,
              item |-> Restrict(unlinked, DOMAIN s.item \ {s.tail})])

-----------------------------------------------------------------------------
\* at has the address of each item of the list, from the head to the tail: an
\* item is linked to the one after it and the one before it, and there is no
\* other item.
Chain(s, at) ==
  LET n == s.size
  IN
  /\ DOMAIN s.item = {at[k] : k \in 1..n}
  /\ \A j, k \in 1..n : at[j] = at[k] => j = k
  /\ s.head = IF n = 0 THEN Nil ELSE at[1]
  /\ s.tail = IF n = 0 THEN Nil ELSE at[n]
  /\ \A k \in 1..n :
       /\ s.item[at[k]].next = IF k = n THEN Nil ELSE at[k + 1]
       /\ s.item[at[k]].prev = IF k = 1 THEN Nil ELSE at[k - 1]

\* The list holds the sequence seq.
Holds(s, seq) ==
  /\ s.size = Len(seq)
  /\ \E at \in [1..s.size -> DOMAIN s.item \ {Nil}] :
       /\ Chain(s, at)
       /\ \A k \in 1..s.size : s.item[at[k]].data = seq[k]
=============================================================================
