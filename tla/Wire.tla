-------------------------------- MODULE Wire ---------------------------------
(***************************************************************************)
(* The binary layout of a packet and the conversions on its way: the Rust  *)
(* client writes each field most significant byte first (packet.rs), the   *)
(* C server reads the bytes into a packed struct (shared/packet.h) on a    *)
(* little-endian host and swaps the fields it knows to be integers         *)
(* (network.h, main.c).                                                    *)
(*                                                                         *)
(* A value of n bytes is a function on 0 .. n-1, most significant byte     *)
(* first, as its type has more bits than an integer of TLC.  A text is one *)
(* too, first character first.  A layout gives each field its place and    *)
(* its size.                                                               *)
(***************************************************************************)
EXTENDS Integers

Byte == 0 .. 255

At(place, size) == [at |-> place, size |-> size]

\* The ranges of PacketHeader::to_bytes and from_bytes.
ClientHeader ==
    [packet_type |-> At(0, 1), seq_num |-> At(1, 4), timestamp |-> At(5, 8),
     payload_length |-> At(13, 4), origin_atc_id |-> At(17, 4),
     aircraft_id |-> At(21, 32), emergency_flag |-> At(53, 1)]

HEADER_SIZE == 54

\* The packed struct PacketHeader.
ServerHeader ==
    [packet_type |-> At(0, 1), seq_num |-> At(1, 4), timestamp |-> At(5, 8),
     payload_length |-> At(13, 4), origin_atc_id |-> At(17, 4),
     aircraft_id |-> At(21, 32), emergency_flag |-> At(53, 1)]

\* The payloads as their to_bytes pushes them: no gaps, in this order.
ClientPayload ==
    [HANDSHAKE |->
        [callsign |-> At(0, 12), aircraft_type |-> At(12, 16),
         aircraft_model |-> At(28, 16), origin |-> At(44, 4),
         destination |-> At(48, 4), initial_phase |-> At(52, 1)],
     TAKEOFF |->
        [departure_time |-> At(0, 8), clearance_type |-> At(8, 1),
         assigned_heading |-> At(9, 4), assigned_altitude |-> At(13, 4),
         squawk_code |-> At(17, 2), wind_speed |-> At(19, 4),
         wind_direction |-> At(23, 4), speed_off_runway |-> At(27, 4),
         initial_climb_rate |-> At(31, 4)],
     TRANSIT |->
        [speed |-> At(0, 4), altitude |-> At(4, 4), heading |-> At(8, 4),
         squawk_code |-> At(12, 2)],
     LANDING |->
        [approach_speed |-> At(0, 4), current_altitude |-> At(4, 4),
         heading |-> At(8, 4), assigned_runway |-> At(12, 4),
         approach_clearance |-> At(16, 1), wind_shear |-> At(17, 4),
         visibility |-> At(21, 4)]]

\* The packed structs of the payloads.
ServerPayload ==
    [HANDSHAKE |->
        [callsign |-> At(0, 12), aircraft_type |-> At(12, 16),
         aircraft_model |-> At(28, 16), origin |-> At(44, 4),
         destination |-> At(48, 4), initial_phase |-> At(52, 1)],
     TAKEOFF |->
        [departure_time |-> At(0, 8), clearance_type |-> At(8, 1),
         assigned_heading |-> At(9, 4), assigned_altitude |-> At(13, 4),
         squawk_code |-> At(17, 2), wind_speed |-> At(19, 4),
         wind_direction |-> At(23, 4), speed_off_runway |-> At(27, 4),
         initial_climb_rate |-> At(31, 4)],
     TRANSIT |->
        [speed |-> At(0, 4), altitude |-> At(4, 4), heading |-> At(8, 4),
         squawk_code |-> At(12, 2)],
     LANDING |->
        [approach_speed |-> At(0, 4), current_altitude |-> At(4, 4),
         heading |-> At(8, 4), assigned_runway |-> At(12, 4),
         approach_clearance |-> At(16, 1), wind_shear |-> At(17, 4),
         visibility |-> At(21, 4)]]

PayloadSize == [HANDSHAKE |-> 53, TAKEOFF |-> 35, TRANSIT |-> 14, LANDING |-> 25]

\* v has the fields of the layout, with as many bytes as it says.
IsValue(layout, v) ==
    v = [f \in DOMAIN layout |-> [k \in 0 .. layout[f].size - 1 |-> v[f][k]]]

\* The field a byte of a layout belongs to.
FieldAt(layout, i) ==
    CHOOSE f \in DOMAIN layout :
        layout[f].at <= i /\ i < layout[f].at + layout[f].size

\* The client's end.  to_be_bytes and from_be_bytes keep the digits' order.
to_bytes(layout, size, v) ==
    [i \in 0 .. size - 1 |->
        LET f == FieldAt(layout, i) IN v[f][i - layout[f].at]]

from_bytes(layout, b) ==
    [f \in DOMAIN layout |->
        [k \in 0 .. layout[f].size - 1 |-> b[layout[f].at + k]]]

\* The server's end.  In memory the digits of a number are in reverse; an
\* array of characters is no number.
Arrays == {"aircraft_id", "assigned_runway", "callsign", "aircraft_type",
           "aircraft_model", "origin", "destination"}

swapped(d, size) == [k \in 0 .. size - 1 |-> d[size - 1 - k]]

\* The value of a field of a struct that holds the bytes b.
Loaded(layout, b) ==
    [f \in DOMAIN layout |->
        LET bytes == [k \in 0 .. layout[f].size - 1 |-> b[layout[f].at + k]]
        IN  IF f \in Arrays THEN bytes ELSE swapped(bytes, layout[f].size)]

\* The bytes of a struct whose fields have the values v.
Stored(layout, size, v) ==
    [i \in 0 .. size - 1 |->
        LET f == FieldAt(layout, i)
            k == i - layout[f].at
        IN  IF f \in Arrays THEN v[f][k] ELSE v[f][layout[f].size - 1 - k]]

SwapFields(layout, fields, v) ==
    [f \in DOMAIN layout |->
        IF f \in fields THEN swapped(v[f], layout[f].size) ELSE v[f]]

\* Fault: payload_length is left in network byte order.
LengthNotSwapped == {"seq_num", "timestamp", "origin_atc_id"}

\* Fault: seq_num is left in network byte order.
SeqNotSwapped == {"timestamp", "payload_length", "origin_atc_id"}

\* The fields header_ntoh and header_hton convert.
HeaderNumbers == {"seq_num", "timestamp", "payload_length", "origin_atc_id"}

header_ntoh(h) == SwapFields(ServerHeader, HeaderNumbers, h)
header_hton(h) == SwapFields(ServerHeader, HeaderNumbers, h)

\* The fields the handlers convert.
PayloadNumbers ==
    {"departure_time", "assigned_heading", "assigned_altitude", "squawk_code",
     "wind_speed", "wind_direction", "speed_off_runway", "initial_climb_rate",
     "speed", "altitude", "heading", "approach_speed", "current_altitude",
     "wind_shear", "visibility"}

\* A header as the server gets it from the client, and the other way round.
ServerReads(b) == header_ntoh(Loaded(ServerHeader, b))
ServerWrites(h) == Stored(ServerHeader, HEADER_SIZE, header_hton(h))

\* A phase report as the server shows it.
ServerReport(type, b) ==
    SwapFields(ServerPayload[type], PayloadNumbers, Loaded(ServerPayload[type], b))
=============================================================================
