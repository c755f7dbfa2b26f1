---------------------------- MODULE MessageRelay ----------------------------
(***************************************************************************)
(* What every relaying mode of zlmb-server promises for the messages it    *)
(* accepts: each is relayed whole, at most once and in the order of        *)
(* arrival, either sent to the next hop or written to the dump file.  Only *)
(* a fault (a signal that interrupts the server, or a dump file that       *)
(* cannot be written) allows a message to be damaged: a frame of it        *)
(* missing, or its frames split between the two outputs.  A server told to *)
(* remove the key, the first frame, discards a message that is only a key. *)
(*                                                                         *)
(* Messages are numbered by their arrival, 1, 2, 3, ...                    *)
(***************************************************************************)
EXTENDS Naturals, Sequences

CONSTANTS
  Limit,         \* how many messages arrive (a bound for TLC)
  OneFrame       \* the messages that have no frame but the first

VARIABLES
  dropkey,       \* the server removes the first frame, the key
  accepted,      \* number of messages received so far
  relayed,       \* the messages that left the server, oldest first
  fault          \* TRUE once the server was interrupted or failed to dump

vars == <<dropkey, accepted, relayed, fault>>

Fates == {"sent", "dumped", "discarded", "damaged"}

TypeOK ==
  /\ dropkey \in BOOLEAN
  /\ accepted \in 0..Limit
  /\ relayed \in Seq([msg : 1..Limit, fate : Fates])
  /\ fault \in BOOLEAN

Init ==
  /\ dropkey \in BOOLEAN
  /\ accepted = 0
  /\ relayed = <<>>
  /\ fault = FALSE

Accept ==
  /\ accepted < Limit
  /\ accepted' = accepted + 1
  /\ UNCHANGED <<dropkey, relayed, fault>>

\* The oldest message not yet relayed leaves: discarded if nothing of it is
\* left without its key, damaged only by a fault.
Relay(fate) ==
  /\ Len(relayed) < accepted
  /\ fate = "discarded" <=> dropkey /\ Len(relayed) + 1 \in OneFrame
  /\ relayed' = Append(relayed, [msg |-> Len(relayed) + 1, fate |-> fate])
  /\ fault' \in {fault, TRUE}
  /\ fate = "damaged" => fault'
  /\ UNCHANGED <<dropkey, accepted>>

Fault ==
  /\ fault' = TRUE
  /\ UNCHANGED <<dropkey, accepted, relayed>>

Next == Accept \/ Fault \/ \E fate \in Fates : Relay(fate)

Spec == Init /\ [][Next]_vars
=============================================================================
