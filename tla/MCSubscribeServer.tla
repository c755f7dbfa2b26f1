------------------------- MODULE MCSubscribeServer -------------------------
(* The subscribe server on small instances. *)
EXTENDS SubscribeServer

\* A message that may be a key only, and one with frames after its key.
MCFrames == <<1, 3>>
=============================================================================
