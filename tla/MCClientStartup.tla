--------------------------- MODULE MCClientStartup ---------------------------
(* The start of the client on small instances. *)
EXTENDS ClientStartup
=============================================================================
