------------------------------- MODULE Framing -------------------------------
(***************************************************************************)
(* How packets are framed on the stream from the client to the server.     *)
(* The client's main thread writes a header and then, in a second write,   *)
(* the payload (network.rs); the heartbeat thread writes the header of its *)
(* empty ACK to a clone of the same socket, with no lock between the two   *)
(* (heartbeat.rs).  The server reads 54 bytes, and then as many as they    *)
(* announce (network.h).  A heartbeat that comes between the two writes    *)
(* splits a packet: the server takes the heartbeat's bytes for the         *)
(* payload and the rest for a header.                                      *)
(*                                                                         *)
(* A write of so few bytes enters the socket's buffer whole, and the       *)
(* stream is reliable; a connection that breaks is left to ATCServer.      *)
(***************************************************************************)
EXTENDS Wire, Sequences, FiniteSets

CONSTANTS
    Callsigns,      \* the callsigns, as sequences of characters
    Telemetry,      \* the payload the pilot enters for each type
    Timestamp,
    MaxPackets,     \* bound: packets of the main thread
    MaxBeats        \* bound: heartbeats

ASSUME FramingAssumption ==
    /\ \A c \in Callsigns : c \in Seq(Byte \ {0}) /\ Len(c) \in 1 .. 31
    /\ DOMAIN Telemetry = DOMAIN ClientPayload
    /\ \A t \in DOMAIN Telemetry : IsValue(ClientPayload[t], Telemetry[t])
    /\ Timestamp \in [0 .. 7 -> Byte]
    /\ MaxPackets \in Nat /\ MaxBeats \in Nat

VARIABLES
    callsign,
    stream,         \* the bytes written and not yet read
    wrote,          \* the packets whose header has been written, in order
    owed,           \* the payload the main thread is about to write
    hb_seq,
    split,          \* the places in wrote of packets split by a heartbeat
    held,           \* the header whose payload the server awaits
    got,            \* the packets the server has received, in order
    ended           \* the server has ended the session

clientVars == <<callsign, wrote, owed, hb_seq, split>>
serverVars == <<held, got, ended>>
vars == <<clientVars, stream, serverVars>>

TypeByte == [HANDSHAKE |-> 1, ACK |-> 2, TAKEOFF |-> 4, TRANSIT |-> 5,
             LANDING |-> 6, MAYDAY |-> 7]

NoHeader == <<>>
NoReport == <<>>

\* A number as its four bytes, and back if it is small.
Digits(n) ==
    [k \in 0 .. 3 |-> (n \div <<16777216, 65536, 256, 1>>[k + 1]) % 256]
Number(d) == (d[1] * 256 + d[2]) * 256 + d[3]

\* HandshakePayload::str_to_fixed.
str_to_fixed(s, size) == [k \in 0 .. size - 1 |-> IF k < Len(s) THEN s[k + 1] ELSE 0]

Header(type, seq, length, emergency) ==
    [packet_type |-> [k \in 0 .. 0 |-> TypeByte[type]],
     seq_num |-> Digits(seq),
     timestamp |-> Timestamp,
     payload_length |-> Digits(length),
     origin_atc_id |-> Digits(0),
     aircraft_id |-> str_to_fixed(callsign, 32),
     emergency_flag |-> [k \in 0 .. 0 |-> emergency]]

\* Between the indices of an array and those of a sequence.
AsSeq(b, size) == [i \in 1 .. size |-> b[i - 1]]
AsArray(s) == [i \in 0 .. Len(s) - 1 |-> s[i + 1]]

HeaderBytes(h) == AsSeq(to_bytes(ClientHeader, HEADER_SIZE, h), HEADER_SIZE)

PayloadBytes(type) ==
    AsSeq(to_bytes(ClientPayload[type], PayloadSize[type], Telemetry[type]),
          PayloadSize[type])

Init ==
    /\ callsign \in Callsigns
    /\ stream = <<>>
    /\ wrote = <<>>
    /\ owed = <<>>
    /\ hb_seq = 0
    /\ split = {}
    /\ held = NoHeader
    /\ got = <<>>
    /\ ended = FALSE

-----------------------------------------------------------------------------
(* The client's two writers.                                               *)

\* The first write of send_packet, for the next seq_num.  The handshake comes
\* first, and nothing else is sent before it is answered.
Writes(type, emergency, payload, report) ==
    LET seq == Len(wrote) - hb_seq + 1
        h == Header(type, seq, Len(payload), emergency)
    IN  /\ ~ended /\ owed = <<>> /\ seq <= MaxPackets
        /\ IF wrote = <<>> THEN type = "HANDSHAKE" ELSE type # "HANDSHAKE" /\ got # <<>>
        /\ stream' = stream \o HeaderBytes(h)
        /\ wrote' = Append(wrote, [header |-> h, report |-> report])
        /\ owed' = payload
        /\ UNCHANGED <<callsign, hb_seq, split, serverVars>>

WritesReport(type) == Writes(type, 0, PayloadBytes(type), Telemetry[type])
WritesMayday == Writes("MAYDAY", 1, <<>>, NoReport)

\* The second write of send_packet.
WritesPayload ==
    /\ ~ended /\ owed # <<>>
    /\ stream' = stream \o owed
    /\ owed' = <<>>
    /\ UNCHANGED <<callsign, wrote, hb_seq, split, serverVars>>

\* The heartbeat thread, which starts once the handshake is answered and
\* numbers its packets by itself.
WritesHeartbeat ==
    LET h == Header("ACK", hb_seq + 1, 0, 0)
    IN  /\ ~ended /\ got # <<>> /\ hb_seq < MaxBeats
        /\ hb_seq' = hb_seq + 1
        /\ stream' = stream \o HeaderBytes(h)
        /\ wrote' = Append(wrote, [header |-> h, report |-> NoReport])
        /\ split' = IF owed = <<>> THEN split
                    ELSE split \cup {Len(wrote), Len(wrote) + 1}
        /\ UNCHANGED <<callsign, owed, serverVars>>

-----------------------------------------------------------------------------
(* The server's recv_packet.                                               *)

\* MAX_PAYLOAD_BYTES, 10 MB, is 00 A0 00 00.
Exceeds(d) ==
    d[0] > 0 \/ d[1] > 160 \/ (d[1] = 160 /\ (d[2] > 0 \/ d[3] > 0))

\* recv_all takes n bytes off the stream.
Taken(n) == AsArray(SubSeq(stream, 1, n))
Left(n) == SubSeq(stream, n + 1, Len(stream))

ReadsHeader ==
    /\ ~ended /\ held = NoHeader /\ Len(stream) >= HEADER_SIZE
    /\ stream' = Left(HEADER_SIZE)
    /\ LET h == ServerReads(Taken(HEADER_SIZE))
       IN  \/ /\ Exceeds(h.payload_length)
              /\ ended' = TRUE
              /\ UNCHANGED <<held, got>>
           \/ /\ ~Exceeds(h.payload_length) /\ Number(h.payload_length) = 0
              /\ got' = Append(got, [header |-> h, report |-> NoReport])
              /\ UNCHANGED <<held, ended>>
           \/ /\ ~Exceeds(h.payload_length) /\ Number(h.payload_length) > 0
              /\ held' = h
              /\ UNCHANGED <<got, ended>>
    /\ UNCHANGED clientVars

\* A payload long enough for the struct of its type is shown as a report.
Report(h, b, n) ==
    LET types == {t \in DOMAIN ServerPayload :
                    h.packet_type[0] = TypeByte[t] /\ n >= PayloadSize[t]}
    IN  IF types = {} THEN NoReport ELSE ServerReport(CHOOSE t \in types : TRUE, b)

ReadsPayload ==
    LET n == Number(held.payload_length)
    IN  /\ ~ended /\ held # NoHeader /\ Len(stream) >= n
        /\ stream' = Left(n)
        /\ got' = Append(got, [header |-> held, report |-> Report(held, Taken(n), n)])
        /\ held' = NoHeader
        /\ UNCHANGED <<ended, clientVars>>

Next ==
    \/ \E type \in DOMAIN ClientPayload : WritesReport(type)
    \/ WritesMayday \/ WritesPayload \/ WritesHeartbeat
    \/ ReadsHeader \/ ReadsPayload

Spec == Init /\ [][Next]_vars

-----------------------------------------------------------------------------
(* Properties.                                                             *)

\* A split packet and the heartbeats in it are lost, and no other: every
\* packet that no heartbeat splits reaches the handlers with every field of
\* its header and its telemetry as the client had them (REQ-PKT-030), however
\* many were split before it.
DamageConfined ==
    \A i \in DOMAIN got : i \notin split => got[i] = wrote[i]

\* As a heartbeat is as long as a header, the stream falls back into step: when
\* all is read, the server waits for a header and has counted the packets
\* right, unless a callsign of more than six characters was taken for a
\* length and ended the session.
StreamRealigns ==
    /\ stream = <<>> /\ owed = <<>> /\ ~ended =>
           held = NoHeader /\ Len(got) = Len(wrote)
    /\ ended => split # {} /\ Len(callsign) > 6

\* packet.h:45: an emergency_flag of 1 is a MAYDAY.  So the server sees one
\* only in a packet whose sender set it.
NoFalseEmergency ==
    \A i \in DOMAIN got :
        got[i].header.emergency_flag[0] = 1 => wrote[i].header.emergency_flag[0] = 1
=============================================================================
