--------------------------- MODULE MCDefenderDemo ---------------------------
(* DefenderDemo with short texts: lists that are empty, that leave the      *)
(* buffer just large enough or one character too small, and that do not fit *)
(* in their arrays.                                                         *)
EXTENDS DefenderDemo

MCPart == <<4, 2, 3, 2, 1>>

Seen(tcp, udp, connections, tasks) ==
    [tcp |-> tcp, udp |-> udp, connections |-> connections, tasks |-> tasks]

\* The text of the first report has 20 characters, of the second 28, of the
\* third 29.  In the others a list is cut, or there are too many tasks.
MCObservations == {
    Seen(<<>>, <<>>, <<>>, <<1>>) ,
    Seen(<<2>>, <<1, 1>>, <<3>>, <<1>>),
    Seen(<<2>>, <<1, 2>>, <<3>>, <<1>>),
    Seen(<<1, 1, 1>>, <<>>, <<>>, <<1, 2>>),
    Seen(<<>>, <<>>, <<>>, <<1, 1, 1>>) }
=============================================================================
