--------------------------- MODULE MCClientServer ---------------------------
(* The client on small instances. *)
EXTENDS ClientServer

\* A message of one frame and one of two.
MCFrames == <<1, 2>>
=============================================================================
