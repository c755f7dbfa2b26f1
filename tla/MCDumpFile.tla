----------------------------- MODULE MCDumpFile -----------------------------
(* The dump file on small instances. *)
EXTENDS DumpFile

\* Two messages that fit the buffer, and one that overflows it and whose first
\* frame is cut at a NUL.
MCFrames ==
  LET frame(len, put) == [len |-> len, put |-> put]
  IN << <<frame(1, 1), frame(1, 1)>>,
        <<frame(1, 1)>>,
        <<frame(2, 1), frame(2, 2)>> >>
=============================================================================
