--------------------------- MODULE MCServerStart ---------------------------
(* zlmb-server with all pairs of a short command line and a short file, and *)
(* each mode with what it requires.                                         *)
EXTENDS ServerStart, SequencesExt

MCArgs == {<<"mode", "client">>, <<"client_backendpoints", "a">>,
           <<"client_backendpoints", "b">>, <<"client_dumptype", "plain">>,
           <<"client_dumpfile", "f">>, <<"verbose", "true">>,
           <<"subscribe_frontendpoints", "j">>}

MCEntry(k, array, v) == [key |-> k, array |-> array, values |-> v]

MCEntries == {MCEntry("mode", FALSE, <<"publish">>),
              MCEntry("client_backendpoints", FALSE, <<"c">>),
              MCEntry("client_backendpoints", TRUE, <<"c", "d">>),
              MCEntry("client_frontendpoint", FALSE, <<"e">>),
              MCEntry("client_dumptype", FALSE, <<"binary">>),
              MCEntry("client_dumpfile", FALSE, <<"g">>),
              MCEntry("verbose", FALSE, <<"false">>),
              MCEntry("colour", FALSE, <<"h">>),
              MCEntry("colour", TRUE, <<"h", "i">>),
              MCEntry("subscribe_frontendpoints", TRUE,
                      <<"verbose", "false">>)}

MCFiles ==
  {f \in UNION {[1..n -> MCEntries] : n \in 0..3} :
     \A i, j \in DOMAIN f : f[i].key = f[j].key => i = j}

\* All strings.
MCStrings == STRING

MCInputs ==
  [args : UNION {[1..n -> MCArgs] : n \in 0..2}, file : MCFiles,
   end : {3, 99}]
    \cup
  {[args |-> <<<<"mode", m>>>> \o SetToSeq({<<o, "a">> : o \in Required[m]}),
    file |-> <<>>, end |-> 0] : m \in Modes}
=============================================================================
