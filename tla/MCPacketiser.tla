---------------------------- MODULE MCPacketiser ----------------------------
(* The values TLC gives the constants of PacketiserLink.                   *)
EXTENDS PacketiserLink

WellFormed == {"escaped"}
EitherFraming == {"escaped", "tester"}
=============================================================================
