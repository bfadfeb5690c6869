-------------------------- MODULE ATCStateMachine --------------------------
(***************************************************************************)
(* The ground controller's operational state machine and the pre-handshake *)
(* gate (server/src/include/state_machine.h), with the packet types of     *)
(* shared/packet.h.  States and packet types carry the source's names      *)
(* without their STATE_ and PKT_ prefixes.                                 *)
(***************************************************************************)

\* ATCState, in the order of the enum.
States == {"IDLE", "HANDSHAKE", "TAKEOFF", "TRANSIT", "LANDING", "MAYDAY",
           "DISCONNECTED"}

\* The active flight phases, from which an emergency is honoured.
FlightStates == {"TAKEOFF", "TRANSIT", "LANDING"}

\* "UNKNOWN" stands for every byte that is not a packet type.
PacketTypes == {"HANDSHAKE", "ACK", "ERROR", "TAKEOFF", "TRANSIT", "LANDING",
                "MAYDAY", "LARGE_DATA_REQUEST", "LARGE_DATA",
                "HANDOFF_NOTIFY", "DISCONNECT", "UNKNOWN"}

PreHandshakeTypes == {"HANDSHAKE", "DISCONNECT", "ACK"}

is_allowed_before_handshake(type) == type \in PreHandshakeTypes

ValidTransitions ==
    {<<"IDLE", "HANDSHAKE">>,
     <<"HANDSHAKE", "TAKEOFF">>, <<"HANDSHAKE", "TRANSIT">>,
     <<"HANDSHAKE", "LANDING">>,
     <<"TAKEOFF", "TRANSIT">>, <<"TRANSIT", "LANDING">>,
     <<"TAKEOFF", "MAYDAY">>, <<"TRANSIT", "MAYDAY">>, <<"LANDING", "MAYDAY">>,
     <<"LANDING", "DISCONNECTED">>, <<"MAYDAY", "DISCONNECTED">>,
     <<"DISCONNECTED", "IDLE">>}

is_valid_transition(from, to) == <<from, to>> \in ValidTransitions

\* One hop of the walk a disconnect takes: move if the table allows it.
HopTo(from, to) == IF is_valid_transition(from, to) THEN to ELSE from
=============================================================================
