------------------------------ MODULE MCServer ------------------------------
(***************************************************************************)
(* A small ground-control server for TLC: one packet of every kind the     *)
(* handler tells apart.                                                    *)
(***************************************************************************)
EXTENDS ATCServer

CONSTANTS aircraft

Pkt(type, len) ==
    [type |-> type, seq |-> 0, emergency |-> FALSE, origin |-> 0, id |-> aircraft,
     len |-> len, arg |-> 0]

MCPackets ==
    {Pkt("HANDSHAKE", "full"), [Pkt("HANDSHAKE", "full") EXCEPT !.arg = 2],
     [Pkt("HANDSHAKE", "full") EXCEPT !.arg = 3],
     [Pkt("HANDSHAKE", "short") EXCEPT !.arg = 2],
     [Pkt("HANDSHAKE", "full") EXCEPT !.id = NoCallsign],
     Pkt("TAKEOFF", "full"), Pkt("TRANSIT", "full"),
     Pkt("LANDING", "full"), [Pkt("LANDING", "full") EXCEPT !.arg = 1],
     [Pkt("MAYDAY", "none") EXCEPT !.emergency = TRUE], Pkt("MAYDAY", "none"),
     Pkt("LARGE_DATA_REQUEST", "none"),
     [Pkt("HANDOFF_NOTIFY", "none") EXCEPT !.origin = SERVER_ATC_ID],
     Pkt("DISCONNECT", "none"), Pkt("ACK", "none"),
     [Pkt("TRANSIT", "full") EXCEPT !.origin = SERVER_ATC_ID + 1],
     [Pkt("UNKNOWN", "none") EXCEPT !.id = NoCallsign],
     Pkt("TAKEOFF", "oversize")}

\* For the liveness runs: packets with and without payload, one that ends
\* the session, and the heartbeat.
LivePackets == {Pkt("HANDSHAKE", "full"), Pkt("TAKEOFF", "full"),
                Pkt("DISCONNECT", "none"), Pkt("ACK", "none")}

MCCallsigns == {aircraft}
=============================================================================
