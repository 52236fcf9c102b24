-------------------------- MODULE MCPacketCapture --------------------------
(***************************************************************************)
(* Instances of PacketCapture: the sources that share the socket.          *)
(***************************************************************************)
EXTENDS PacketCapture

CONSTANTS ip1, ip2, ip3, typo, p1, p2, rest

(* Two providers by address, one with a misspelt second address, and a     *)
(* third source for everyone else.                                         *)
Split     == [s \in {p1, p2, rest} |-> CASE s = p1 -> {ip1, typo} [] s = p2 -> {ip2} [] OTHER -> {}]
SplitRest == [s \in {p1, p2, rest} |-> IF s = rest THEN {ip1, ip2} ELSE {}]

ASSUME SplitIsMeant == RoutesSplit
=============================================================================
