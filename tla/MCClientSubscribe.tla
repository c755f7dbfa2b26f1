------------------------- MODULE MCClientSubscribe -------------------------
(* The client-subscribe server on a small instance. *)
EXTENDS ClientSubscribe

\* A message of two frames and one of one.
MCClientFrames == <<2, 1>>

\* A message of one frame.
MCSubscribeFrames == <<1>>
=============================================================================
