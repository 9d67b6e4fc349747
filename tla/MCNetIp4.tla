------------------------------ MODULE MCNetIp4 ------------------------------
(* Three stations and two addresses: the destination "near" is local, "far"  *)
(* is reached by way of the gateway.                                         *)
EXTENDS NetIp4

MCHop == [d \in {"near", "far"} |-> IF d = "near" THEN "host" ELSE "gateway"]

Says(kind, ip, station) == [kind |-> kind, ip |-> ip, mac |-> station]

\* Two stations announce the host's address, and with the gateway there are
\* more stations than the table has items.
MCHeard == {Says("reply", "host", "m1"), Says("request", "gateway", "m2"),
            Says("reply", "host", "m3")}
=============================================================================
