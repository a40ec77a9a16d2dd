----------------------------- MODULE MCSerialIO -----------------------------
(* Hosts, lines and drivers for TLC: a host that streams, on a line with    *)
(* errors; one that awaits what is sent back, on a line without, and on one *)
(* with errors and a driver that may be early; and one that awaits as much  *)
(* as it has sent.                                                          *)
EXTENDS SerialIO

Scenario(awaits, errors, early) ==
    [awaits |-> awaits, lineErrors |-> errors, early |-> early]

Everything ==
    {Scenario(0, TRUE, FALSE), Scenario(ReplyBytes, FALSE, FALSE),
     Scenario(ReplyBytes, TRUE, TRUE), Scenario(PacketBytes, FALSE, FALSE)}
CleanStream == {Scenario(0, FALSE, FALSE)}
=============================================================================
