-------------------------- MODULE MCPublishServer --------------------------
(* The publish server on small instances. *)
EXTENDS PublishServer

\* Messages of one frame and of two.
MCFrames == <<1, 2, 1>>

\* Content that looks like a compressed key of one letter, and other content.
MCFirst == <<<<1, 1>>, <<2>>, <<1>>>>

\* No key, a key, and one that begins with it.
MCKeys == {<<>>, <<1>>, <<1, 2>>}
=============================================================================
