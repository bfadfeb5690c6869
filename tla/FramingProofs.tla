--------------------------- MODULE FramingProofs ----------------------------
(***************************************************************************)
(* Theorems about Framing, for every callsign and telemetry and any number *)
(* of packets and heartbeats: a heartbeat damages the packet it splits and *)
(* itself, and the stream falls back into step.                            *)
(*                                                                         *)
(* Where a packet begins on the stream is a sum over the packets before    *)
(* it.  Rather than compute it, the invariant says that there are places   *)
(* cut, each a header and a payload after the one before: the server reads *)
(* from cut to cut, whether what it finds there is a header or not.        *)
(***************************************************************************)
EXTENDS Framing, WireProofs, SequenceTheorems

-----------------------------------------------------------------------------
(* Sequences over whatever set.                                            *)

IsSeq(s) == \E S : s \in Seq(S)

\* What is given element by element up to n is a sequence of length n.
LEMMA Tabulated ==
    ASSUME NEW n \in Nat, NEW s, s = [i \in 1 .. n |-> s[i]]
    PROVE  IsSeq(s) /\ Len(s) = n
<1> DEFINE S == {s[i] : i \in 1 .. n}
<1>1. s \in [1 .. n -> S]
  OBVIOUS
<1>2. s \in Seq(S) /\ Len(s) = n
  BY <1>1
<1>3. QED
  BY <1>2 DEF IsSeq

\* A sequence is its elements from 1 to its length.
LEMMA Length ==
    ASSUME NEW s, IsSeq(s)
    PROVE  /\ Len(s) \in Nat /\ DOMAIN s = 1 .. Len(s)
           /\ Len(s) = 0 <=> s = <<>>
           /\ s = [i \in 1 .. Len(s) |-> s[i]]
BY DEF IsSeq

\* Append adds one element and leaves the others in place.
LEMMA Appended ==
    ASSUME NEW s, IsSeq(s), NEW e
    PROVE  /\ IsSeq(Append(s, e)) /\ Len(Append(s, e)) = Len(s) + 1
           /\ Append(s, e)[Len(s) + 1] = e
           /\ \A i \in 1 .. Len(s) : Append(s, e)[i] = s[i]
<1>1. PICK S : s \in Seq(S)
  BY DEF IsSeq
<1>2. s \in Seq(S \cup {e})
  BY <1>1
<1>3. Append(s, e) \in Seq(S \cup {e})
  BY <1>2
<1>4. QED
  BY <1>2, <1>3 DEF IsSeq

\* The first sequence keeps its places, the second's move up by its length.
LEMMA Joined ==
    ASSUME NEW s, NEW t, IsSeq(s), IsSeq(t)
    PROVE  /\ IsSeq(s \o t) /\ Len(s \o t) = Len(s) + Len(t)
           /\ \A i \in 1 .. Len(s) : (s \o t)[i] = s[i]
           /\ \A i \in 1 .. Len(t) : (s \o t)[Len(s) + i] = t[i]
<1>1. PICK S : s \in Seq(S)
  BY DEF IsSeq
<1>2. PICK T : t \in Seq(T)
  BY DEF IsSeq
<1>3. s \in Seq(S \cup T) /\ t \in Seq(S \cup T)
  BY <1>1, <1>2
<1>4. s \o t \in Seq(S \cup T)
  BY <1>3
<1>5. QED
  BY <1>3, <1>4 DEF IsSeq

\* Cut after n elements, both parts are sequences of what was there.
LEMMA Divided ==
    ASSUME NEW s, IsSeq(s), NEW n \in 0 .. Len(s)
    PROVE  /\ IsSeq(SubSeq(s, n + 1, Len(s)))
           /\ Len(SubSeq(s, n + 1, Len(s))) = Len(s) - n
           /\ \A i \in 1 .. Len(s) - n : SubSeq(s, n + 1, Len(s))[i] = s[n + i]
           /\ IsSeq(SubSeq(s, 1, n)) /\ Len(SubSeq(s, 1, n)) = n
           /\ \A i \in 1 .. n : SubSeq(s, 1, n)[i] = s[i]
<1>1. PICK S : s \in Seq(S)
  BY DEF IsSeq
<1>2. Len(s) \in Nat /\ \A i \in 1 .. Len(s) : s[i] \in S
  BY <1>1
<1>3. /\ SubSeq(s, n + 1, Len(s)) \in Seq(S)
      /\ Len(SubSeq(s, n + 1, Len(s))) = Len(s) - n
      /\ \A i \in 1 .. Len(s) - n : SubSeq(s, n + 1, Len(s))[i] = s[n + i]
  <2>1. \A i \in n + 1 .. Len(s) : s[i] \in S
    BY <1>2
  <2>2. /\ SubSeq(s, n + 1, Len(s)) \in Seq(S)
        /\ Len(SubSeq(s, n + 1, Len(s))) =
              IF n + 1 <= Len(s) THEN Len(s) - (n + 1) + 1 ELSE 0
        /\ \A i \in 1 .. Len(s) - (n + 1) + 1 :
              SubSeq(s, n + 1, Len(s))[i] = s[n + 1 + i - 1]
    BY <1>2, <2>1, SubSeqProperties
  <2>3. /\ Len(s) - (n + 1) + 1 = Len(s) - n
        /\ n + 1 <= Len(s) \/ Len(s) - n = 0
        /\ \A i \in 1 .. Len(s) - n : n + 1 + i - 1 = n + i
    BY <1>2
  <2>4. QED
    BY <2>2, <2>3
<1>4. /\ SubSeq(s, 1, n) \in Seq(S) /\ Len(SubSeq(s, 1, n)) = n
      /\ \A i \in 1 .. n : SubSeq(s, 1, n)[i] = s[i]
  <2>1. \A i \in 1 .. n : s[i] \in S
    BY <1>2
  <2>2. /\ SubSeq(s, 1, n) \in Seq(S)
        /\ Len(SubSeq(s, 1, n)) = IF 1 <= n THEN n - 1 + 1 ELSE 0
        /\ \A i \in 1 .. n - 1 + 1 : SubSeq(s, 1, n)[i] = s[1 + i - 1]
    BY <1>2, <2>1, SubSeqProperties
  <2>3. n - 1 + 1 = n /\ (1 <= n \/ n = 0) /\ \A i \in 1 .. n : 1 + i - 1 = i
    BY <1>2
  <2>4. QED
    BY <2>2, <2>3
<1>5. QED
  BY <1>3, <1>4 DEF IsSeq

-----------------------------------------------------------------------------
(* A run of bytes on the stream.                                           *)

\* If the place at is still on the stream s, the bytes b follow it.
Lies(s, at, b) ==
    at >= 0 => /\ at + Len(b) <= Len(s)
               /\ \A k \in 1 .. Len(b) : s[at + k] = b[k]

\* More bytes behind it move nothing.
LEMMA LiesBefore ==
    ASSUME NEW s, NEW t, NEW b, IsSeq(s), IsSeq(t), IsSeq(b), NEW at \in Int,
           Lies(s, at, b)
    PROVE  Lies(s \o t, at, b)
<1> SUFFICES ASSUME at >= 0
             PROVE  /\ at + Len(b) <= Len(s \o t)
                    /\ \A k \in 1 .. Len(b) : (s \o t)[at + k] = b[k]
  BY DEF Lies
<1>1. /\ at + Len(b) <= Len(s) /\ Len(s) \in Nat /\ Len(b) \in Nat /\ Len(t) \in Nat
      /\ \A k \in 1 .. Len(b) : s[at + k] = b[k]
  BY Length DEF Lies
<1>2. \A k \in 1 .. Len(b) : at + k \in 1 .. Len(s)
  BY <1>1
<1>3. QED
  BY <1>1, <1>2, Joined

\* A part of the bytes put at the end.
LEMMA LiesWithin ==
    ASSUME NEW s, NEW t, NEW b, IsSeq(s), IsSeq(t), IsSeq(b), NEW at \in Nat,
           Lies(t, at, b)
    PROVE  Lies(s \o t, Len(s) + at, b)
<1>1. /\ at + Len(b) <= Len(t) /\ Len(s) \in Nat /\ Len(b) \in Nat /\ Len(t) \in Nat
      /\ \A k \in 1 .. Len(b) : t[at + k] = b[k]
  BY Length DEF Lies
<1>2. \A k \in 1 .. Len(b) : at + k \in 1 .. Len(t)
  BY <1>1
<1>3. \A k \in 1 .. Len(b) : (s \o t)[Len(s) + (at + k)] = b[k]
  BY <1>1, <1>2, Joined
<1>4. \A k \in 1 .. Len(b) : Len(s) + (at + k) = (Len(s) + at) + k
  BY <1>1
<1>5. Len(s \o t) = Len(s) + Len(t)
  BY Joined
<1>6. QED
  BY <1>1, <1>3, <1>4, <1>5 DEF Lies

\* The whole of it.
LEMMA LiesAtEnd ==
    ASSUME NEW s, NEW t, IsSeq(s), IsSeq(t)
    PROVE  Lies(s \o t, Len(s), t)
<1>1. Lies(t, 0, t)
  BY Length DEF Lies
<1>2. Lies(s \o t, Len(s) + 0, t) /\ Len(s) \in Nat
  BY <1>1, LiesWithin, Length
<1>3. QED
  BY <1>2

\* n bytes taken off the front move everything by n.
LEMMA LiesBehind ==
    ASSUME NEW s, NEW b, IsSeq(s), IsSeq(b), NEW n \in 0 .. Len(s), NEW at \in Int,
           Lies(s, at, b)
    PROVE  Lies(SubSeq(s, n + 1, Len(s)), at - n, b)
<1> DEFINE r == SubSeq(s, n + 1, Len(s))
<1> SUFFICES ASSUME at - n >= 0
             PROVE  /\ (at - n) + Len(b) <= Len(r)
                    /\ \A k \in 1 .. Len(b) : r[(at - n) + k] = b[k]
  BY DEF Lies
<1>1. Len(s) \in Nat /\ Len(b) \in Nat /\ n \in Nat /\ at >= 0
  BY Length
<1>2. at + Len(b) <= Len(s) /\ \A k \in 1 .. Len(b) : s[at + k] = b[k]
  BY <1>1 DEF Lies
<1>3. \A k \in 1 .. Len(b) : (at - n) + k \in 1 .. Len(s) - n /\ n + ((at - n) + k) = at + k
  BY <1>1, <1>2
<1>4. Len(r) = Len(s) - n /\ \A i \in 1 .. Len(s) - n : r[i] = s[n + i]
  BY Divided
<1> HIDE DEF r
<1>5. (at - n) + Len(b) <= Len(r)
  BY <1>1, <1>2, <1>4
<1>6. ASSUME NEW k \in 1 .. Len(b) PROVE r[(at - n) + k] = b[k]
  BY <1>2, <1>3, <1>4
<1>7. QED
  BY <1>5, <1>6

\* What lies at the front is what is taken.
LEMMA LiesInFront ==
    ASSUME NEW s, NEW b, IsSeq(s), IsSeq(b), Lies(s, 0, b)
    PROVE  Len(b) \in 0 .. Len(s) /\ SubSeq(s, 1, Len(b)) = b
<1>1. Len(s) \in Nat /\ Len(b) \in Nat /\ b = [i \in 1 .. Len(b) |-> b[i]]
  BY Length
<1>2. Len(b) \in 0 .. Len(s) /\ \A k \in 1 .. Len(b) : s[k] = b[k]
  BY <1>1 DEF Lies
<1> DEFINE p == SubSeq(s, 1, Len(b))
<1>3. IsSeq(p) /\ Len(p) = Len(b) /\ \A i \in 1 .. Len(b) : p[i] = s[i]
  BY <1>2, Divided
<1>4. p = [i \in 1 .. Len(b) |-> p[i]]
  BY <1>3, Length
<1> HIDE DEF p
<1>5. p = b
  BY <1>1, <1>2, <1>3, <1>4
<1>6. QED
  BY <1>2, <1>5 DEF p

-----------------------------------------------------------------------------
(* What a packet is on the stream.                                         *)

\* From a sequence to an array and back.
LEMMA ArrayOfSeq ==
    ASSUME NEW n \in Nat, NEW b, b = [i \in 0 .. n - 1 |-> b[i]]
    PROVE  IsSeq(AsSeq(b, n)) /\ Len(AsSeq(b, n)) = n /\ AsArray(AsSeq(b, n)) = b
<1> DEFINE s == AsSeq(b, n)
<1>1. s = [i \in 1 .. n |-> b[i - 1]]
  BY DEF AsSeq
<1>2. s = [i \in 1 .. n |-> s[i]]
  BY <1>1
<1>3. IsSeq(s) /\ Len(s) = n
  BY <1>2, Tabulated
<1>4. AsArray(s) = [i \in 0 .. n - 1 |-> s[i + 1]]
  BY <1>3 DEF AsArray
<1>5. \A i \in 0 .. n - 1 : i + 1 \in 1 .. n /\ (i + 1) - 1 = i
  OBVIOUS
<1>6. \A i \in 0 .. n - 1 : s[i + 1] = b[i]
  BY <1>1, <1>5
<1>7. QED
  BY <1>3, <1>4, <1>6

\* A header is 54 bytes, which give it back.
LEMMA HeaderOnStream ==
    ASSUME NEW h, IsValue(ClientHeader, h)
    PROVE  /\ IsSeq(HeaderBytes(h)) /\ Len(HeaderBytes(h)) = 54
           /\ ServerReads(AsArray(HeaderBytes(h))) = h
<1> DEFINE b == to_bytes(ClientHeader, HEADER_SIZE, h)
<1>1. 54 \in Nat /\ HEADER_SIZE = 54 /\ b = [i \in 0 .. 54 - 1 |-> b[i]]
  BY DEF to_bytes, HEADER_SIZE
<1>2. ServerReads(b) = h
  BY HeaderReachesServer
<1>3. HeaderBytes(h) = AsSeq(b, 54)
  BY <1>1 DEF HeaderBytes
<1> HIDE DEF b
<1>4. IsSeq(AsSeq(b, 54)) /\ Len(AsSeq(b, 54)) = 54 /\ AsArray(AsSeq(b, 54)) = b
  BY <1>1, ArrayOfSeq
<1>5. QED
  BY <1>2, <1>3, <1>4

Types == DOMAIN ClientPayload

\* Four types have a payload, of these sizes in bytes.
LEMMA FourTypes ==
    /\ Types = {"HANDSHAKE", "TAKEOFF", "TRANSIT", "LANDING"}
    /\ DOMAIN ServerPayload = Types
    /\ PayloadSize["HANDSHAKE"] = 53 /\ PayloadSize["TAKEOFF"] = 35
    /\ PayloadSize["TRANSIT"] = 14 /\ PayloadSize["LANDING"] = 25
BY DEF Types, ClientPayload, ServerPayload, PayloadSize

\* A payload is as long as its struct, and gives the telemetry back.
LEMMA PayloadOnStream ==
    ASSUME NEW type \in Types
    PROVE  /\ IsSeq(PayloadBytes(type)) /\ Len(PayloadBytes(type)) = PayloadSize[type]
           /\ ServerReport(type, AsArray(PayloadBytes(type))) = Telemetry[type]
<1> DEFINE n == PayloadSize[type]
           b == to_bytes(ClientPayload[type], n, Telemetry[type])
<1>1. n \in Nat /\ b = [i \in 0 .. n - 1 |-> b[i]]
  BY FourTypes DEF to_bytes
<1>2. IsValue(ClientPayload[type], Telemetry[type]) /\ type \in DOMAIN ServerPayload
  BY FramingAssumption, FourTypes DEF Types
<1>3. ServerReport(type, b) = Telemetry[type]
  BY <1>2, ReportReachesServer
<1>4. PayloadBytes(type) = AsSeq(b, n)
  BY DEF PayloadBytes
<1> HIDE DEF b, n
<1>5. IsSeq(AsSeq(b, n)) /\ Len(AsSeq(b, n)) = n /\ AsArray(AsSeq(b, n)) = b
  BY <1>1, ArrayOfSeq
<1>6. QED
  BY <1>3, <1>4, <1>5 DEF n

\* What follows a header: nothing, or the payload of a report.
Payloads == {<<>>} \cup {PayloadBytes(t) : t \in Types}

\* Only these lengths follow a header.
LEMMA PayloadLengths ==
    ASSUME NEW d \in Payloads
    PROVE  /\ IsSeq(d) /\ Len(d) \in {0, 14, 25, 35, 53}
           /\ Len(d) = 0 <=> d = <<>>
<1>1. CASE d = <<>>
  <2>1. d \in Seq({}) /\ Len(d) = 0
    BY <1>1
  <2>2. QED
    BY <1>1, <2>1 DEF IsSeq
<1>2. CASE d # <<>>
  <2>1. PICK t \in Types : d = PayloadBytes(t)
    BY <1>2 DEF Payloads
  <2>2. IsSeq(d) /\ Len(d) = PayloadSize[t]
    BY <2>1, PayloadOnStream
  <2>3. PayloadSize[t] \in {14, 25, 35, 53}
    BY FourTypes
  <2>4. QED
    BY <1>2, <2>2, <2>3
<1>3. QED
  BY <1>1, <1>2

\* The server takes the lengths the client announces for what they are.
LEMMA Announced ==
    ASSUME NEW n \in {0, 14, 25, 35, 53}
    PROVE  ~Exceeds(Digits(n)) /\ Number(Digits(n)) = n
<1> DEFINE d == Digits(n)
<1>1. /\ d[0] = (n \div <<16777216, 65536, 256, 1>>[1]) % 256
      /\ d[1] = (n \div <<16777216, 65536, 256, 1>>[2]) % 256
      /\ d[2] = (n \div <<16777216, 65536, 256, 1>>[3]) % 256
      /\ d[3] = (n \div <<16777216, 65536, 256, 1>>[4]) % 256
  BY DEF Digits
<1>2. /\ <<16777216, 65536, 256, 1>>[1] = 16777216
      /\ <<16777216, 65536, 256, 1>>[2] = 65536
      /\ <<16777216, 65536, 256, 1>>[3] = 256
      /\ <<16777216, 65536, 256, 1>>[4] = 1
  OBVIOUS
<1>3. d[0] = 0 /\ d[1] = 0 /\ d[2] = 0 /\ d[3] = n
  BY <1>1, <1>2
<1> HIDE DEF d
<1>4. ~Exceeds(d) /\ Number(d) = n
  BY <1>3 DEF Exceeds, Number
<1>5. QED
  BY <1>4 DEF d

\* The packet p, whose payload is d, as the client means it.
Carries(p, d) ==
    /\ p = [header |-> p.header, report |-> p.report]
    /\ IsValue(ClientHeader, p.header)
    /\ p.header.payload_length = Digits(Len(d))
    /\ \/ d = <<>> /\ p.report = NoReport
       \/ \E t \in Types : /\ d = PayloadBytes(t) /\ p.report = Telemetry[t]
                           /\ p.header.packet_type[0] = TypeByte[t]

\* Of the whole payload the server shows what the pilot entered.
LEMMA Shown ==
    ASSUME NEW p, NEW d \in Payloads, Carries(p, d), d # <<>>
    PROVE  Report(p.header, AsArray(d), Len(d)) = p.report
<1>1. PICK t \in Types : /\ d = PayloadBytes(t) /\ p.report = Telemetry[t]
                         /\ p.header.packet_type[0] = TypeByte[t]
  BY DEF Carries
<1> DEFINE h == p.header
           types == {u \in DOMAIN ServerPayload :
                       h.packet_type[0] = TypeByte[u] /\ Len(d) >= PayloadSize[u]}
<1>2. \A u \in Types : TypeByte[u] = TypeByte[t] => u = t
  BY FourTypes DEF TypeByte
<1>3. PayloadSize[t] \in Nat /\ Len(d) = PayloadSize[t]
  BY <1>1, PayloadOnStream, FourTypes
<1>4. types = {t}
  BY <1>1, <1>2, <1>3, FourTypes
<1>5. Report(h, AsArray(d), Len(d)) =
         IF types = {} THEN NoReport ELSE ServerReport(CHOOSE u \in types : TRUE, AsArray(d))
  BY DEF Report
<1> HIDE DEF types, h
<1>6. types # {} /\ (CHOOSE u \in types : TRUE) = t
  BY <1>4
<1>7. ServerReport(t, AsArray(d)) = Telemetry[t]
  BY <1>1, PayloadOnStream
<1>8. QED
  BY <1>1, <1>5, <1>6, <1>7 DEF h

\* Every header the client makes is a value of its layout.
LEMMA HeaderIsValue ==
    ASSUME NEW type, NEW seq, NEW length, NEW emergency
    PROVE  LET h == Header(type, seq, length, emergency)
           IN  /\ IsValue(ClientHeader, h)
               /\ h.packet_type[0] = TypeByte[type]
               /\ h.payload_length = Digits(length)
               /\ h.aircraft_id = str_to_fixed(callsign, 32)
<1> DEFINE h == Header(type, seq, length, emergency)
<1>1. /\ h.packet_type = [k \in 0 .. 0 |-> TypeByte[type]]
      /\ h.payload_length = Digits(length)
      /\ h.aircraft_id = str_to_fixed(callsign, 32)
      /\ h.seq_num = Digits(seq) /\ h.timestamp = Timestamp
      /\ h.origin_atc_id = Digits(0)
      /\ h.emergency_flag = [k \in 0 .. 0 |-> emergency]
      /\ DOMAIN h = DOMAIN ClientHeader
      /\ h = [f \in DOMAIN h |-> h[f]]
  BY DEF Header, ClientHeader
<1>2. \A n : Digits(n) = [k \in 0 .. 3 |-> Digits(n)[k]]
  BY DEF Digits
<1>3. str_to_fixed(callsign, 32) = [k \in 0 .. 31 |-> str_to_fixed(callsign, 32)[k]]
  BY DEF str_to_fixed
<1>4. Timestamp = [k \in 0 .. 7 |-> Timestamp[k]]
  BY FramingAssumption
<1> HIDE DEF h
<1>5. ASSUME NEW f \in DOMAIN ClientHeader
      PROVE  h[f] = [k \in 0 .. ClientHeader[f].size - 1 |-> h[f][k]]
  <2>1. /\ ClientHeader.packet_type.size - 1 = 0 /\ ClientHeader.seq_num.size - 1 = 3
        /\ ClientHeader.timestamp.size - 1 = 7 /\ ClientHeader.payload_length.size - 1 = 3
        /\ ClientHeader.origin_atc_id.size - 1 = 3 /\ ClientHeader.aircraft_id.size - 1 = 31
        /\ ClientHeader.emergency_flag.size - 1 = 0
    BY DEF ClientHeader, At
  <2>2. f \in {"packet_type", "seq_num", "timestamp", "payload_length",
               "origin_atc_id", "aircraft_id", "emergency_flag"}
    BY DEF ClientHeader
  <2>3. CASE f = "packet_type"
    BY <2>1, <2>3, <1>1
  <2>4. CASE f = "seq_num"
    BY <2>1, <2>4, <1>1, <1>2
  <2>5. CASE f = "timestamp"
    BY <2>1, <2>5, <1>1, <1>4
  <2>6. CASE f = "payload_length"
    BY <2>1, <2>6, <1>1, <1>2
  <2>7. CASE f = "origin_atc_id"
    BY <2>1, <2>7, <1>1, <1>2
  <2>8. CASE f = "aircraft_id"
    BY <2>1, <2>8, <1>1, <1>3
  <2>9. CASE f = "emergency_flag"
    BY <2>1, <2>9, <1>1
  <2>10. QED
    BY <2>2, <2>3, <2>4, <2>5, <2>6, <2>7, <2>8, <2>9
<1>6. IsValue(ClientHeader, h)
  BY <1>1, <1>5 DEF IsValue
<1>7. QED
  BY <1>1, <1>6 DEF h

-----------------------------------------------------------------------------
(* A heartbeat taken for a payload and a header.                           *)

\* The lengths of phase reports: a heartbeat can split these and no other.
Splittable == {14, 25, 35}

\* The four bytes of the callsign that a reader finds in place of
\* payload_length if its header begins n bytes inside a heartbeat.
Window(n) == [k \in 1 .. 4 |-> str_to_fixed(callsign, 32)[n - 9 + k]]

\* A heartbeat's bytes hold that window at its place.
LEMMA WindowInHeader ==
    ASSUME NEW n \in Splittable, NEW h, IsValue(ClientHeader, h),
           h.aircraft_id = str_to_fixed(callsign, 32)
    PROVE  IsSeq(Window(n)) /\ Len(Window(n)) = 4 /\ Lies(HeaderBytes(h), n + 13, Window(n))
<1>1. IsSeq(Window(n)) /\ Len(Window(n)) = 4
  BY Tabulated DEF Window
<1>2. IsSeq(HeaderBytes(h)) /\ Len(HeaderBytes(h)) = 54
  BY HeaderOnStream
<1>3. /\ ClientHeader.aircraft_id.at = 21 /\ ClientHeader.aircraft_id.size = 32
      /\ "aircraft_id" \in DOMAIN ClientHeader
  BY DEF ClientHeader, At
<1>4. WellLaid(ClientHeader, HEADER_SIZE) /\ HEADER_SIZE = 54
  BY Layouts DEF HEADER_SIZE
<1>5. ASSUME NEW k \in 1 .. 4
      PROVE  HeaderBytes(h)[n + 13 + k] = Window(n)[k]
  <2>1. n \in Int /\ n - 9 + k \in 0 .. 31 /\ n + 13 + k \in 1 .. 54 /\ n + 13 + k - 1 = 21 + (n - 9 + k)
    BY DEF Splittable
  <2>2. HeaderBytes(h)[n + 13 + k] = to_bytes(ClientHeader, HEADER_SIZE, h)[n + 13 + k - 1]
    <3>1. HeaderBytes(h) =
            [i \in 1 .. 54 |-> to_bytes(ClientHeader, HEADER_SIZE, h)[i - 1]]
      BY <1>4 DEF HeaderBytes, AsSeq
    <3>2. \A i \in 1 .. 54 :
            HeaderBytes(h)[i] = to_bytes(ClientHeader, HEADER_SIZE, h)[i - 1]
      BY <3>1
    <3>3. QED
      BY <2>1, <3>2
  <2>3. to_bytes(ClientHeader, HEADER_SIZE, h)[21 + (n - 9 + k)] = h.aircraft_id[n - 9 + k]
    <3>1. \A j \in 0 .. ClientHeader["aircraft_id"].size - 1 :
            to_bytes(ClientHeader, HEADER_SIZE, h)[ClientHeader["aircraft_id"].at + j]
               = h["aircraft_id"][j]
      BY <1>3, <1>4, Written
    <3>2. n - 9 + k \in 0 .. ClientHeader["aircraft_id"].size - 1
      BY <2>1, <1>3
    <3>3. QED
      BY <3>1, <3>2, <1>3
  <2>4. QED
    BY <2>1, <2>2, <2>3 DEF Window
<1>6. n + 13 + 4 <= 54 /\ n \in Int
  BY DEF Splittable
<1>7. QED
  BY <1>1, <1>2, <1>5, <1>6 DEF Lies

\* It announces nothing, or more than the server takes; that only a callsign
\* of seven characters does.
LEMMA Misread ==
    ASSUME callsign \in Callsigns, IsSeq(stream), Len(stream) >= 54,
           NEW n \in Splittable, Lies(stream, 13, Window(n))
    PROVE  LET d == ServerReads(Taken(54)).payload_length
           IN  \/ Exceeds(d) /\ Len(callsign) > 6
               \/ ~Exceeds(d) /\ Number(d) = 0
<1> DEFINE b == Taken(54)
           d == ServerReads(b).payload_length
           bytes == [k \in 0 .. 3 |-> b[13 + k]]
<1>1. d = bytes
  <2> DEFINE w == Loaded(ServerHeader, b)
  <2>1. /\ ServerHeader["payload_length"].at = 13 /\ ServerHeader["payload_length"].size = 4
        /\ "payload_length" \in DOMAIN ServerHeader
        /\ "payload_length" \in HeaderNumbers /\ "payload_length" \notin Arrays
    BY DEF ServerHeader, At, HeaderNumbers, Arrays
  <2>2. 4 - 1 = 3 /\ w["payload_length"] = swapped(bytes, 4)
    BY <2>1 DEF Loaded
  <2>3. ServerReads(b) = SwapFields(ServerHeader, HeaderNumbers, w)
    BY DEF ServerReads, header_ntoh
  <2> HIDE DEF w
  <2>4. ServerReads(b)["payload_length"] = swapped(w["payload_length"], 4)
    BY <2>1, <2>3 DEF SwapFields
  <2>5. bytes = [k \in 0 .. 4 - 1 |-> bytes[k]]
    OBVIOUS
  <2> HIDE DEF bytes
  <2>6. swapped(swapped(bytes, 4), 4) = bytes
    BY <2>5, SwappedTwice
  <2>7. QED
    BY <2>2, <2>4, <2>6
<1>2. 54 \in 0 .. Len(stream) /\ Len(stream) \in Nat
  BY Length
<1>3. /\ Len(SubSeq(stream, 1, 54)) = 54
      /\ \A i \in 1 .. 54 : SubSeq(stream, 1, 54)[i] = stream[i]
  BY <1>2, Divided
<1>4. \A k \in 0 .. 3 : b[13 + k] = stream[13 + (k + 1)]
  <2>1. b = [i \in 0 .. 53 |-> SubSeq(stream, 1, 54)[i + 1]]
    BY <1>3 DEF Taken, AsArray
  <2>2. \A k \in 0 .. 3 : /\ 13 + k \in 0 .. 53 /\ 13 + (k + 1) \in 1 .. 54
                          /\ (13 + k) + 1 = 13 + (k + 1)
    OBVIOUS
  <2> HIDE DEF b
  <2>3. ASSUME NEW k \in 0 .. 3 PROVE b[13 + k] = stream[13 + (k + 1)]
    <3>1. b[13 + k] = SubSeq(stream, 1, 54)[13 + (k + 1)]
      BY <2>1, <2>2
    <3>2. QED
      BY <1>3, <2>2, <3>1
  <2>4. QED
    BY <2>3
<1>5. \A k \in 1 .. 4 : stream[13 + k] = Window(n)[k]
  <2>1. Len(Window(n)) = 4
    BY Tabulated DEF Window
  <2>2. QED
    BY <2>1 DEF Lies
<1> DEFINE fixed == str_to_fixed(callsign, 32)
<1>6. \A k \in 0 .. 3 : d[k] = fixed[n - 8 + k]
  <2>1. \A k \in 0 .. 3 : k + 1 \in 1 .. 4 /\ n - 9 + (k + 1) = n - 8 + k
    BY DEF Splittable
  <2>2. \A k \in 0 .. 3 : Window(n)[k + 1] = fixed[n - 8 + k]
    BY <2>1 DEF Window
  <2> HIDE DEF b, d, fixed
  <2>3. \A k \in 0 .. 3 : d[k] = b[13 + k]
    BY <1>1
  <2>4. QED
    BY <2>1, <2>2, <2>3, <1>4, <1>5
<1>7. /\ Len(callsign) \in 1 .. 31
      /\ \A i \in 1 .. Len(callsign) : callsign[i] \in Byte \ {0}
  BY FramingAssumption
<1>8. \A j \in 0 .. 31 : fixed[j] = IF j < Len(callsign) THEN callsign[j + 1] ELSE 0
  BY DEF str_to_fixed
<1>9. n \in Int /\ n - 8 \in 6 .. 27
  BY DEF Splittable
<1> HIDE DEF b, d, fixed
<1>10. CASE n - 8 < Len(callsign)
  <2>1. d[0] = fixed[n - 8]
    BY <1>6, <1>9, n - 8 + 0 = n - 8
  <2>2. n - 8 \in 0 .. 31 /\ n - 8 + 1 \in 1 .. Len(callsign)
    BY <1>7, <1>9, <1>10
  <2>3. d[0] > 0
    <3>1. fixed[n - 8] = callsign[n - 8 + 1]
      BY <2>2, <1>8, <1>10
    <3>2. callsign[n - 8 + 1] \in Byte \ {0}
      BY <2>2, <1>7
    <3>3. d[0] \in Byte \ {0}
      BY <2>1, <3>1, <3>2
    <3>4. \A x \in Byte \ {0} : x > 0
      BY DEF Byte
    <3>5. QED
      BY <3>3, <3>4
  <2>4. Len(callsign) > 6
    BY <1>7, <1>9, <1>10
  <2>5. QED
    BY <2>3, <2>4 DEF Exceeds, d, b
<1>11. CASE ~(n - 8 < Len(callsign))
  <2>1. \A k \in 0 .. 3 : n - 8 + k \in 0 .. 31 /\ ~(n - 8 + k < Len(callsign))
    BY <1>7, <1>9, <1>11
  <2>2. \A k \in 0 .. 3 : d[k] = 0
    BY <2>1, <1>6, <1>8
  <2>3. d[0] = 0 /\ d[1] = 0 /\ d[2] = 0 /\ d[3] = 0
    BY <2>2
  <2>4. ~Exceeds(d) /\ Number(d) = 0
    BY <2>3 DEF Exceeds, Number
  <2>5. QED
    BY <2>4 DEF d, b
<1>12. QED
  BY <1>10, <1>11

-----------------------------------------------------------------------------
(* The invariant.                                                          *)

\* data holds the payloads of the packets, cut the places where they end,
\* counted from the first byte that is still on the stream.
Ghosts(cut, data) ==
    /\ cut \in [0 .. Len(wrote) -> Int]
    /\ data \in [1 .. Len(wrote) -> Payloads]
    /\ \A i \in 1 .. Len(wrote) : Carries(wrote[i], data[i])

Cuts(cut, data) ==
    /\ \A i \in 1 .. Len(wrote) : cut[i] = cut[i - 1] + 54 + Len(data[i])
    /\ \A i, j \in 0 .. Len(wrote) : i < j => cut[i] + 54 <= cut[j]
    /\ Len(stream) = cut[Len(wrote)] - Len(owed)

\* The server stands at a cut, or behind a header that is genuine.
Reader(cut, data) ==
    /\ Len(got) <= Len(wrote)
    /\ held = NoHeader => cut[Len(got)] = 0
    /\ held # NoHeader =>
          /\ Len(got) < Len(wrote) /\ held = wrote[Len(got) + 1].header
          /\ data[Len(got) + 1] # <<>> /\ cut[Len(got)] = -54

\* Behind a cut comes the header of the next packet, or a heartbeat that has
\* begun before it; and behind the header, unless it is split, the payload.
Contents(cut, data) ==
    /\ \A i \in 1 .. Len(wrote) :
          \/ Lies(stream, cut[i - 1], HeaderBytes(wrote[i].header))
          \/ /\ i \in split /\ data[i] = <<>>
             /\ \E n \in Splittable : Lies(stream, cut[i - 1] + 13, Window(n))
    /\ \A i \in 1 .. Len(wrote) :
          \/ i \in split
          \/ i = Len(wrote) /\ owed # <<>>
          \/ Lies(stream, cut[i - 1] + 54, data[i])

\* The handshake is never split: no heartbeat is sent before its answer.
Owing(data) ==
    /\ owed \in Payloads
    /\ owed # <<>> =>
          /\ Len(wrote) > 0
          /\ Len(wrote) \in split \/ data[Len(wrote)] = owed
          /\ \/ Len(owed) \in Splittable
             \/ Len(wrote) = 1 /\ got = <<>> /\ split = {}

Frames(cut, data) ==
    Ghosts(cut, data) /\ Cuts(cut, data) /\ Reader(cut, data)
       /\ Contents(cut, data) /\ Owing(data)

Sequenced ==
    /\ callsign \in Callsigns /\ IsSeq(stream) /\ IsSeq(wrote) /\ IsSeq(got)
    /\ split \subseteq 1 .. Len(wrote)

FInv ==
    /\ Sequenced
    /\ DamageConfined
    /\ ended => split # {} /\ Len(callsign) > 6
    /\ ~ended => \E cut, data : Frames(cut, data)

\* The empty sequence is one.
LEMMA Empty == IsSeq(<<>>) /\ Len(<<>>) = 0
<1>1. <<>> \in Seq({}) /\ Len(<<>>) = 0
  OBVIOUS
<1>2. QED
  BY <1>1 DEF IsSeq

\* Nothing written: the first packet will begin where the server stands.
LEMMA FInvInit == Init => FInv
<1> SUFFICES ASSUME Init PROVE FInv
  OBVIOUS
<1> USE DEF Init
<1>1. Sequenced
  BY Empty DEF Sequenced
<1>2. DamageConfined
  BY Empty, Length DEF DamageConfined
<1>3. \E cut, data : Frames(cut, data)
  <2>1. PICK cut : cut = [i \in 0 .. 0 |-> 0]
    OBVIOUS
  <2>2. PICK data : data = [i \in 1 .. 0 |-> <<>>]
    OBVIOUS
  <2>3. Len(wrote) = 0 /\ Len(stream) = 0 /\ Len(owed) = 0 /\ Len(got) = 0
    BY Empty
  <2>4. \A i : i \notin 1 .. 0
    OBVIOUS
  <2>5. Ghosts(cut, data)
    BY <2>1, <2>2, <2>3, <2>4 DEF Ghosts
  <2>6. Cuts(cut, data)
    BY <2>1, <2>3, <2>4 DEF Cuts
  <2>7. Reader(cut, data)
    BY <2>1, <2>3 DEF Reader
  <2>8. Contents(cut, data) /\ Owing(data)
    BY <2>3, <2>4 DEF Contents, Owing, Payloads
  <2>9. QED
    BY <2>5, <2>6, <2>7, <2>8 DEF Frames
<1>4. QED
  BY <1>1, <1>2, <1>3 DEF FInv

-----------------------------------------------------------------------------
(* The client's steps.                                                     *)

\* The packet p goes behind everything written, in turn or into the middle of
\* a packet.
Adds(p, d) ==
    /\ ~ended /\ ended' = ended /\ held' = held /\ got' = got /\ callsign' = callsign
    /\ stream' = stream \o HeaderBytes(p.header)
    /\ wrote' = Append(wrote, p)

InTurn(d) ==
    /\ owed = <<>> /\ owed' = d /\ split' = split
    /\ d # <<>> => Len(d) \in Splittable \/ wrote = <<>>

Splits(p, d) ==
    /\ d = <<>> /\ p.header.aircraft_id = str_to_fixed(callsign, 32)
    /\ owed # <<>> /\ Len(owed) \in Splittable /\ owed' = owed
    /\ split' = split \cup {Len(wrote), Len(wrote) + 1}

\* A header added to the stream, in turn or into a packet, keeps the invariant:
\* the next cut is where its packet will end.
LEMMA AddsKeeps ==
    ASSUME FInv, NEW p, NEW d \in Payloads, Carries(p, d), Adds(p, d),
           InTurn(d) \/ Splits(p, d)
    PROVE  FInv'
<1> USE DEF Adds
<1>1. PICK cut, data : Frames(cut, data)
  BY DEF FInv
<1> DEFINE W == Len(wrote)
           b == HeaderBytes(p.header)
<1>2. /\ W \in Nat /\ Len(wrote') = W + 1 /\ IsSeq(wrote') /\ wrote'[W + 1] = p
      /\ \A i \in 1 .. W : wrote'[i] = wrote[i]
  BY Length, Appended DEF FInv, Sequenced
<1>3. IsSeq(stream) /\ IsSeq(b) /\ Len(b) = 54 /\ Len(stream) \in Nat
  BY HeaderOnStream, Length DEF FInv, Sequenced, Carries
<1>4. /\ IsSeq(stream') /\ Len(stream') = Len(stream) + 54
  <2> HIDE DEF b
  <2>1. ASSUME NEW s, IsSeq(s), NEW t, IsSeq(t)
        PROVE  IsSeq(s \o t) /\ Len(s \o t) = Len(s) + Len(t)
    BY <2>1, Joined
  <2>2. IsSeq(stream \o b) /\ Len(stream \o b) = Len(stream) + Len(b)
    BY <1>3, <2>1
  <2>3. QED
    BY <1>3, <2>2 DEF b
<1>5. /\ IsSeq(d) /\ Len(d) \in Nat /\ Len(d) = 0 <=> d = <<>>
      /\ IsSeq(owed) /\ Len(owed) \in Nat /\ Len(owed) = 0 <=> owed = <<>>
  BY <1>1, PayloadLengths, Length DEF Frames, Owing
<1>6. PICK c2 : c2 = [i \in 0 .. W + 1 |-> IF i <= W THEN cut[i] ELSE cut[W] + 54 + Len(d)]
  OBVIOUS
<1>7. PICK d2 : d2 = [i \in 1 .. W + 1 |-> IF i <= W THEN data[i] ELSE d]
  OBVIOUS
<1> HIDE DEF W, b
<1>8. /\ \A i \in 0 .. W : c2[i] = cut[i] /\ cut[i] \in Int
      /\ c2[W + 1] = cut[W] + 54 + Len(d)
      /\ \A i \in 1 .. W : d2[i] = data[i] /\ data[i] \in Payloads
      /\ d2[W + 1] = d
  <2>1. cut \in [0 .. W -> Int] /\ data \in [1 .. W -> Payloads]
    BY <1>1 DEF Frames, Ghosts, W
  <2>2. \A i \in 0 .. W : i \in 0 .. W + 1 /\ i <= W
    BY <1>2
  <2>3. \A i \in 1 .. W : i \in 1 .. W + 1 /\ i <= W
    BY <1>2
  <2>4. W + 1 \in 0 .. W + 1 /\ W + 1 \in 1 .. W + 1 /\ ~(W + 1 <= W)
    BY <1>2
  <2>5. (\A i \in 0 .. W : c2[i] = cut[i]) /\ c2[W + 1] = cut[W] + 54 + Len(d)
    BY <1>6, <2>2, <2>4
  <2>6. (\A i \in 1 .. W : d2[i] = data[i]) /\ d2[W + 1] = d
    BY <1>7, <2>3, <2>4
  <2>7. QED
    BY <2>1, <2>5, <2>6
<1>9. \A i \in 1 .. W + 1 : i \in 1 .. W \/ i = W + 1
  BY <1>2
<1>10. \A i \in 1 .. W : i - 1 \in 0 .. W /\ i \in 0 .. W /\ i # W + 1
  BY <1>2
<1>11. Ghosts(c2, d2)'
  <2>1. c2 \in [0 .. W + 1 -> Int]
    <3>1. \A i \in 0 .. W + 1 : i \in 0 .. W \/ i = W + 1
      BY <1>2
    <3>2. W \in 0 .. W
      BY <1>2
    <3>3. cut[W] + 54 + Len(d) \in Int
      BY <1>5, <1>8, <3>2
    <3>4. \A i \in 0 .. W + 1 : c2[i] \in Int
      BY <1>8, <3>1, <3>3
    <3>5. QED
      BY <1>6, <3>4
  <2>2. d2 \in [1 .. W + 1 -> Payloads]
    <3>1. \A i \in 1 .. W + 1 : d2[i] \in Payloads
      BY <1>8, <1>9
    <3>2. QED
      BY <1>7, <3>1
  <2>3. \A i \in 1 .. W : Carries(wrote'[i], d2[i])
    BY <1>1, <1>2, <1>8 DEF Frames, Ghosts, W
  <2>4. Carries(wrote'[W + 1], d2[W + 1])
    BY <1>2, <1>8
  <2>5. QED
    BY <1>2, <1>9, <2>1, <2>2, <2>3, <2>4 DEF Ghosts
<1>12. Len(owed') = Len(owed) + Len(d)
  BY <1>5 DEF InTurn, Splits
<1>13. Cuts(c2, d2)'
  <2>1. \A i \in 1 .. W + 1 : c2[i] = c2[i - 1] + 54 + Len(d2[i])
    <3>1. \A i \in 1 .. W : c2[i] = c2[i - 1] + 54 + Len(d2[i])
      BY <1>1, <1>8, <1>10 DEF Frames, Cuts, W
    <3>2. c2[W + 1] = c2[(W + 1) - 1] + 54 + Len(d2[W + 1])
      BY <1>2, <1>8
    <3>3. QED
      BY <1>9, <3>1, <3>2
  <2>2. \A i, j \in 0 .. W + 1 : i < j => c2[i] + 54 <= c2[j]
    <3>1. \A i, j \in 0 .. W : i < j => c2[i] + 54 <= c2[j]
      BY <1>1, <1>8 DEF Frames, Cuts, W
    <3>2. \A i \in 0 .. W : c2[i] + 54 <= c2[W + 1]
      <4>1. \A i \in 0 .. W : cut[i] <= cut[W]
        <5>1. \A i, j \in 0 .. W : i < j => cut[i] + 54 <= cut[j]
          BY <1>1 DEF Frames, Cuts, W
        <5>2. W \in 0 .. W /\ \A i \in 0 .. W : i < W \/ i = W
          BY <1>2
        <5>3. QED
          BY <1>8, <5>1, <5>2
      <4>2. W \in 0 .. W
        BY <1>2
      <4>3. cut[W] \in Int
        BY <4>2, <1>8
      <4>4. ASSUME NEW i \in 0 .. W PROVE c2[i] + 54 <= c2[W + 1]
        <5>1. c2[i] = cut[i] /\ cut[i] \in Int /\ cut[i] <= cut[W]
          BY <4>1, <1>8
        <5>2. c2[W + 1] = cut[W] + 54 + Len(d) /\ Len(d) \in Nat
          BY <1>5, <1>8
        <5>3. QED
          BY <4>3, <5>1, <5>2
      <4>5. QED
        BY <4>4
    <3>3. \A i \in 0 .. W + 1 : i \in 0 .. W \/ i = W + 1
      BY <1>2
    <3>4. \A i \in 0 .. W + 1 : ~(W + 1 < i)
      BY <1>2
    <3>5. QED
      BY <3>1, <3>2, <3>3, <3>4
  <2>3. Len(stream') = c2[W + 1] - Len(owed')
    <3>1. Len(stream) = cut[W] - Len(owed) /\ cut[W] \in Int
      BY <1>1, <1>2, <1>8 DEF Frames, Cuts, W
    <3>2. QED
      BY <1>3, <1>4, <1>5, <1>8, <1>12, <3>1
  <2>4. QED
    BY <1>2, <2>1, <2>2, <2>3 DEF Cuts
<1>14. Len(got) \in Nat /\ Len(got) <= W
  BY <1>1, Length DEF Frames, Reader, FInv, Sequenced, W
<1>15. Reader(c2, d2)'
  <2>1. Len(got) \in 0 .. W
    BY <1>2, <1>14
  <2>2. held = NoHeader => c2[Len(got)] = 0
    BY <1>1, <1>8, <2>1 DEF Frames, Reader
  <2>3. ASSUME held # NoHeader
        PROVE  /\ Len(got) < W /\ held = wrote'[Len(got) + 1].header
               /\ d2[Len(got) + 1] # <<>> /\ c2[Len(got)] = -54
    <3>1. Len(got) < W
      BY <1>1, <2>3 DEF Frames, Reader, W
    <3>2. Len(got) + 1 \in 1 .. W
      BY <3>1, <1>2, <1>14
    <3>3. QED
      BY <1>1, <1>2, <1>8, <2>1, <2>3, <3>1, <3>2 DEF Frames, Reader
  <2>4. Len(got) <= W + 1 /\ (Len(got) < W => Len(got) < W + 1)
    BY <1>2, <1>14
  <2>5. QED
    BY <1>2, <2>2, <2>3, <2>4 DEF Reader
<1>16. Contents(c2, d2)'
  <2>1. ASSUME NEW i \in 1 .. W + 1
        PROVE  \/ Lies(stream', c2[i - 1], HeaderBytes(wrote'[i].header))
               \/ /\ i \in split' /\ d2[i] = <<>>
                  /\ \E n \in Splittable : Lies(stream', c2[i - 1] + 13, Window(n)')
    <3>1. \A n : Window(n)' = Window(n) /\ IsSeq(Window(n))
      BY Tabulated DEF Window
    <3>2. CASE i \in 1 .. W
      <4>1. wrote'[i] = wrote[i] /\ d2[i] = data[i] /\ c2[i - 1] = cut[i - 1] /\ cut[i - 1] \in Int
        BY <3>2, <1>2, <1>8, <1>10
      <4>2. IsSeq(HeaderBytes(wrote[i].header))
        BY <3>2, <1>1, HeaderOnStream DEF Frames, Ghosts, Carries, W
      <4>3. \/ Lies(stream, cut[i - 1], HeaderBytes(wrote[i].header))
            \/ /\ i \in split /\ data[i] = <<>>
               /\ \E n \in Splittable : Lies(stream, cut[i - 1] + 13, Window(n))
        BY <3>2, <1>1 DEF Frames, Contents, W
      <4>4. i \in split => i \in split'
        BY DEF InTurn, Splits
      <4>5. \A n : Lies(stream, cut[i - 1] + 13, Window(n))
                      => Lies(stream', cut[i - 1] + 13, Window(n))
        <5>1. cut[i - 1] + 13 \in Int
          BY <4>1
        <5>2. QED
          BY <5>1, <3>1, <1>3, LiesBefore DEF b
      <4>6. Lies(stream, cut[i - 1], HeaderBytes(wrote[i].header))
              => Lies(stream', cut[i - 1], HeaderBytes(wrote[i].header))
        BY <4>1, <4>2, <1>3, LiesBefore DEF b
      <4>7. QED
        BY <3>1, <4>1, <4>3, <4>4, <4>5, <4>6
    <3>3. CASE i = W + 1
      <4>1. wrote'[i] = p /\ c2[i - 1] = cut[W] /\ d2[i] = d /\ cut[W] \in Int
        BY <3>3, <1>2, <1>8
      <4>2. Len(stream) = cut[W] - Len(owed)
        BY <1>1 DEF Frames, Cuts, W
      <4>3. CASE InTurn(d)
        <5>1. cut[W] = Len(stream)
          BY <4>1, <4>2, <4>3, <1>5 DEF InTurn
        <5>2. Lies(stream', Len(stream), b)
          BY <1>3, LiesAtEnd DEF b
        <5>3. QED
          BY <4>1, <5>1, <5>2 DEF b
      <4>4. CASE Splits(p, d)
        <5>1. PICK n \in Splittable : n = Len(owed)
          BY <4>4 DEF Splits
        <5>2. Lies(b, n + 13, Window(n))
          BY <4>4, WindowInHeader DEF Splits, Carries, b
        <5>3. n + 13 \in Nat
          BY DEF Splittable
        <5>4. Lies(stream', Len(stream) + (n + 13), Window(n))
          BY <5>2, <5>3, <3>1, <1>3, LiesWithin DEF b
        <5>5. Len(stream) + (n + 13) = cut[W] + 13
          BY <4>1, <4>2, <5>1, <1>3, <1>5
        <5>6. i \in split'
          BY <3>3, <4>4 DEF Splits, W
        <5>7. QED
          BY <3>1, <4>1, <4>4, <5>4, <5>5, <5>6 DEF Splits
      <4>5. QED
        BY <4>3, <4>4
    <3>4. QED
      BY <3>2, <3>3, <1>9
  <2>2. ASSUME NEW i \in 1 .. W + 1
        PROVE  \/ i \in split'
               \/ i = W + 1 /\ owed' # <<>>
               \/ Lies(stream', c2[i - 1] + 54, d2[i])
    <3>1. CASE i \in 1 .. W
      <4>1. d2[i] = data[i] /\ c2[i - 1] = cut[i - 1] /\ cut[i - 1] + 54 \in Int /\ IsSeq(data[i])
        <5>1. d2[i] = data[i] /\ data[i] \in Payloads
          BY <3>1, <1>8
        <5>2. IsSeq(data[i])
          BY <5>1, PayloadLengths
        <5>3. c2[i - 1] = cut[i - 1] /\ cut[i - 1] \in Int
          BY <3>1, <1>8, <1>10
        <5>4. QED
          BY <5>1, <5>2, <5>3
      <4>2. i \in split \/ (i = W /\ owed # <<>>) \/ Lies(stream, cut[i - 1] + 54, data[i])
        BY <3>1, <1>1 DEF Frames, Contents, W
      <4>3. i = W /\ owed # <<>> => i \in split'
        BY DEF InTurn, Splits, W
      <4>4. i \in split => i \in split'
        BY DEF InTurn, Splits
      <4>5. Lies(stream, cut[i - 1] + 54, data[i]) => Lies(stream', cut[i - 1] + 54, data[i])
        BY <4>1, <1>3, LiesBefore DEF b
      <4>6. QED
        BY <4>1, <4>2, <4>3, <4>4, <4>5
    <3>2. CASE i = W + 1
      <4>1. CASE Splits(p, d)
        BY <3>2, <4>1 DEF Splits, W
      <4>2. CASE InTurn(d) /\ d # <<>>
        BY <3>2, <4>2 DEF InTurn
      <4>3. CASE InTurn(d) /\ d = <<>>
        <5>1. c2[i - 1] = cut[W] /\ d2[i] = <<>> /\ cut[W] \in Int
          BY <3>2, <4>3, <1>2, <1>8
        <5>2. Len(stream) = cut[W]
          BY <1>1, <1>5, <4>3, <5>1 DEF Frames, Cuts, W, InTurn
        <5>3. Lies(stream', cut[W] + 54, <<>>)
          BY <5>1, <5>2, <1>4, Empty DEF Lies
        <5>4. QED
          BY <5>1, <5>3
      <4>4. QED
        BY <4>1, <4>2, <4>3
    <3>3. QED
      BY <3>1, <3>2, <1>9
  <2>3. QED
    BY <1>2, <2>1, <2>2 DEF Contents
<1>17. Owing(d2)'
  <2>1. CASE InTurn(d)
    <3>1. wrote = <<>> => W + 1 = 1 /\ got = <<>> /\ split = {}
      <4>1. ASSUME wrote = <<>> PROVE W = 0
        BY <4>1, Empty DEF W
      <4>2. W = 0 => got = <<>>
        BY <1>2, <1>14, Length DEF FInv, Sequenced
      <4>3. W = 0 => split = {}
        BY <1>2 DEF FInv, Sequenced, W
      <4>4. QED
        BY <4>1, <4>2, <4>3
    <3>2. W + 1 > 0
      BY <1>2
    <3>3. owed' = d /\ split' = split /\ got' = got
      BY <2>1 DEF InTurn
    <3>4. d # <<>> => \/ Len(d) \in Splittable
                      \/ W + 1 = 1 /\ got = <<>> /\ split = {}
      BY <2>1, <3>1 DEF InTurn
    <3>5. QED
      BY <1>2, <1>8, <3>2, <3>3, <3>4 DEF Owing
  <2>2. CASE Splits(p, d)
    <3>1. W + 1 > 0 /\ W + 1 \in split'
      BY <1>2, <2>2 DEF Splits, W
    <3>2. owed' \in Payloads /\ Len(owed') \in Splittable
      BY <2>2, <1>1 DEF Splits, Frames, Owing
    <3>3. QED
      BY <1>2, <3>1, <3>2 DEF Owing
  <2>3. QED
    BY <2>1, <2>2
<1>18. Sequenced'
  <2>1. split' \subseteq 1 .. W + 1
    <3>1. split \subseteq 1 .. W
      BY DEF FInv, Sequenced, W
    <3>2. Splits(p, d) => W \in 1 .. W + 1
      BY <1>1, <1>2 DEF Splits, Frames, Owing, W
    <3>3. split' = split \/ (Splits(p, d) /\ split' = split \cup {W, W + 1})
      BY DEF InTurn, Splits, W
    <3>4. 1 .. W \subseteq 1 .. W + 1 /\ W + 1 \in 1 .. W + 1
      BY <1>2
    <3>5. QED
      BY <3>1, <3>2, <3>3, <3>4
  <2>2. QED
    BY <1>2, <1>4, <2>1 DEF FInv, Sequenced
<1>19. DamageConfined'
  <2>1. \A i \in DOMAIN got : i \in 1 .. W
    BY <1>2, <1>14, Length DEF FInv, Sequenced
  <2>2. split \subseteq split'
    BY DEF InTurn, Splits
  <2>3. QED
    BY <1>2, <2>1, <2>2 DEF FInv, DamageConfined
<1>20. QED
  BY <1>11, <1>13, <1>15, <1>16, <1>17, <1>18, <1>19 DEF FInv, Frames

\* The first write of send_packet is such an addition, in turn.
LEMMA WritesKeeps ==
    ASSUME FInv, NEW type, NEW emergency, NEW d \in Payloads, NEW report,
           Writes(type, emergency, d, report),
           \A h : h.packet_type[0] = TypeByte[type] /\ IsValue(ClientHeader, h)
                     /\ h.payload_length = Digits(Len(d))
                  => Carries([header |-> h, report |-> report], d),
           type = "HANDSHAKE" \/ d = <<>> \/ Len(d) \in Splittable
    PROVE  FInv'
<1> DEFINE h == Header(type, Len(wrote) - hb_seq + 1, Len(d), emergency)
           p == [header |-> h, report |-> report]
<1>1. Carries(p, d)
  BY HeaderIsValue
<1>2. Adds(p, d)
  <2>1. p.header = h
    OBVIOUS
  <2>2. QED
    BY <2>1 DEF Writes, serverVars, Adds
<1>3. InTurn(d)
  BY DEF Writes, InTurn
<1> HIDE DEF h, p
<1>4. QED
  BY <1>1, <1>2, <1>3, AddsKeeps

\* It is with a report,
LEMMA WritesReportKeeps ==
    ASSUME FInv, NEW type \in DOMAIN ClientPayload, WritesReport(type)
    PROVE  FInv'
<1> DEFINE d == PayloadBytes(type)
<1>1. d \in Payloads /\ type \in Types
  BY DEF Payloads, Types
<1>2. type = "HANDSHAKE" \/ Len(d) \in Splittable
  <2>1. Len(d) = PayloadSize[type]
    BY <1>1, PayloadOnStream
  <2>2. type = "HANDSHAKE" \/ PayloadSize[type] \in Splittable
    BY <1>1, FourTypes DEF Splittable
  <2>3. QED
    BY <2>1, <2>2
<1>3. ASSUME NEW h, h.packet_type[0] = TypeByte[type], IsValue(ClientHeader, h),
             h.payload_length = Digits(Len(d))
      PROVE  Carries([header |-> h, report |-> Telemetry[type]], d)
  BY <1>1, <1>3 DEF Carries
<1>4. Writes(type, 0, d, Telemetry[type])
  BY DEF WritesReport
<1> HIDE DEF d
<1>5. QED
  BY <1>1, <1>2, <1>3, <1>4, WritesKeeps

\* and with a MAYDAY.
LEMMA WritesMaydayKeeps ==
    ASSUME FInv, WritesMayday
    PROVE  FInv'
<1>1. <<>> \in Payloads
  BY DEF Payloads
<1>2. ASSUME NEW h, h.packet_type[0] = TypeByte["MAYDAY"], IsValue(ClientHeader, h),
             h.payload_length = Digits(Len(<<>>))
      PROVE  Carries([header |-> h, report |-> NoReport], <<>>)
  BY <1>2 DEF Carries
<1>3. Writes("MAYDAY", 1, <<>>, NoReport)
  BY DEF WritesMayday
<1>4. QED
  BY <1>1, <1>2, <1>3, WritesKeeps

\* The heartbeat's write is one in turn or into a packet.
LEMMA WritesHeartbeatKeeps ==
    ASSUME FInv, WritesHeartbeat
    PROVE  FInv'
<1> DEFINE h == Header("ACK", hb_seq + 1, 0, 0)
           p == [header |-> h, report |-> NoReport]
<1>1. /\ IsValue(ClientHeader, h) /\ h.payload_length = Digits(0)
      /\ h.aircraft_id = str_to_fixed(callsign, 32)
  BY HeaderIsValue
<1>2. p.header = h /\ p.report = NoReport /\ p = [header |-> h, report |-> NoReport]
  OBVIOUS
<1> HIDE DEF h, p
<1>3. Carries(p, <<>>) /\ <<>> \in Payloads
  BY <1>1, <1>2, Empty DEF Carries, Payloads
<1>4. Adds(p, <<>>)
  BY <1>2 DEF WritesHeartbeat, serverVars, Adds, h
<1>5. InTurn(<<>>) \/ Splits(p, <<>>)
  <2>1. CASE owed = <<>>
    BY <2>1 DEF WritesHeartbeat, InTurn
  <2>2. CASE owed # <<>>
    <3>1. Len(owed) \in Splittable
      BY <2>2 DEF WritesHeartbeat, FInv, Frames, Owing
    <3>2. QED
      BY <2>2, <3>1, <1>1, <1>2 DEF WritesHeartbeat, Splits
  <2>3. QED
    BY <2>1, <2>2
<1>6. QED
  BY <1>3, <1>4, <1>5, AddsKeeps

\* The second write of send_packet pays what was owed: no cut moves.
LEMMA WritesPayloadKeeps ==
    ASSUME FInv, WritesPayload
    PROVE  FInv'
<1> USE DEF WritesPayload, serverVars
<1>1. PICK cut, data : Frames(cut, data)
  BY DEF FInv
<1> DEFINE W == Len(wrote)
<1>2. W \in Nat /\ W > 0 /\ W \in 0 .. W /\ W \in 1 .. W /\ W - 1 \in 0 .. W
  BY <1>1, Length DEF FInv, Sequenced, Frames, Owing
<1>3. IsSeq(stream) /\ IsSeq(owed) /\ Len(stream) \in Nat /\ Len(owed) \in Nat
  BY <1>1, PayloadLengths, Length DEF FInv, Sequenced, Frames, Owing
<1>4. IsSeq(stream') /\ Len(stream') = Len(stream) + Len(owed)
  BY <1>3, Joined
<1>5. /\ \A i \in 0 .. W : cut[i] \in Int
      /\ \A i \in 1 .. W : /\ data[i] \in Payloads /\ IsSeq(data[i])
                           /\ i - 1 \in 0 .. W /\ cut[i - 1] \in Int
                           /\ IsSeq(HeaderBytes(wrote[i].header))
  <2>1. \A i \in 0 .. W : cut[i] \in Int
    BY <1>1 DEF Frames, Ghosts
  <2>2. \A i \in 1 .. W : i - 1 \in 0 .. W
    BY <1>2
  <2>3. \A i \in 1 .. W : data[i] \in Payloads
    BY <1>1 DEF Frames, Ghosts
  <2>4. \A i \in 1 .. W : IsSeq(HeaderBytes(wrote[i].header))
    BY <1>1, HeaderOnStream DEF Frames, Ghosts, Carries
  <2> HIDE DEF W
  <2>5. QED
    BY <2>1, <2>2, <2>3, <2>4, PayloadLengths
<1>6. Len(stream) = cut[W] - Len(owed)
  BY <1>1 DEF Frames, Cuts
<1>7. Ghosts(cut, data)' /\ Reader(cut, data)'
  BY <1>1 DEF Frames, Ghosts, Reader
<1>8. Cuts(cut, data)'
  <2>1. Len(<<>>) = 0 /\ cut[W] \in Int
    BY <1>2, <1>5
  <2>2. Len(stream') = cut[W] - Len(<<>>)
    BY <1>3, <1>4, <1>6, <2>1
  <2>3. QED
    BY <1>1, <2>2 DEF Frames, Cuts
<1>9. Contents(cut, data)'
  <2>1. ASSUME NEW i \in 1 .. W
        PROVE  \/ Lies(stream', cut[i - 1], HeaderBytes(wrote[i].header))
               \/ /\ i \in split /\ data[i] = <<>>
                  /\ \E n \in Splittable : Lies(stream', cut[i - 1] + 13, Window(n)')
    <3>1. \A n : Window(n)' = Window(n) /\ IsSeq(Window(n))
      BY Tabulated DEF Window
    <3>2. cut[i - 1] \in Int /\ cut[i - 1] + 13 \in Int /\ IsSeq(HeaderBytes(wrote[i].header))
      BY <1>5
    <3>3. \A n : Lies(stream, cut[i - 1] + 13, Window(n))
                    => Lies(stream', cut[i - 1] + 13, Window(n))
      BY <3>1, <3>2, <1>3, LiesBefore
    <3>4. Lies(stream, cut[i - 1], HeaderBytes(wrote[i].header))
            => Lies(stream', cut[i - 1], HeaderBytes(wrote[i].header))
      BY <3>2, <1>3, LiesBefore
    <3>5. QED
      BY <3>1, <3>3, <3>4, <1>1 DEF Frames, Contents
  <2>2. ASSUME NEW i \in 1 .. W, i \notin split
        PROVE  Lies(stream', cut[i - 1] + 54, data[i])
    <3>1. CASE i = W
      <4>1. data[i] = owed
        BY <2>2, <3>1, <1>1 DEF Frames, Owing
      <4>2. cut[i] = cut[i - 1] + 54 + Len(data[i])
        BY <1>1 DEF Frames, Cuts
      <4>3. cut[i - 1] + 54 = Len(stream)
        BY <4>1, <4>2, <3>1, <1>3, <1>5, <1>6
      <4>4. QED
        BY <4>1, <4>3, <1>3, LiesAtEnd
    <3>2. CASE i # W
      <4>1. Lies(stream, cut[i - 1] + 54, data[i])
        BY <2>2, <3>2, <1>1 DEF Frames, Contents
      <4>2. cut[i - 1] + 54 \in Int /\ IsSeq(data[i])
        BY <1>5
      <4>3. QED
        BY <4>1, <4>2, <1>3, LiesBefore
    <3>3. QED
      BY <3>1, <3>2
  <2>3. QED
    BY <2>1, <2>2 DEF Contents
<1>10. Owing(data)'
  BY DEF Owing, Payloads
<1>11. Sequenced' /\ DamageConfined'
  BY <1>4 DEF FInv, Sequenced, DamageConfined
<1>12. QED
  BY <1>7, <1>8, <1>9, <1>10, <1>11 DEF FInv, Frames

-----------------------------------------------------------------------------
(* The server's steps.                                                     *)

\* n bytes taken off the stream move every cut by n.
LEMMA TakingShifts ==
    ASSUME FInv, NEW cut, NEW data, Frames(cut, data), NEW n \in 0 .. Len(stream),
           stream' = Left(n), UNCHANGED clientVars,
           NEW c2, c2 = [i \in 0 .. Len(wrote) |-> cut[i] - n]
    PROVE  /\ IsSeq(stream')
           /\ Ghosts(c2, data)' /\ Cuts(c2, data)' /\ Contents(c2, data)'
<1> USE DEF clientVars
<1> DEFINE W == Len(wrote)
<1>1. W \in Nat /\ n \in Int /\ Len(stream) \in Nat /\ IsSeq(stream)
  BY Length DEF FInv, Sequenced
<1>2. IsSeq(stream') /\ Len(stream') = Len(stream) - n
  BY <1>1, Divided DEF Left
<1>3. \A i \in 0 .. W : c2[i] = cut[i] - n /\ cut[i] \in Int /\ c2[i] \in Int
  <2>1. \A i \in 0 .. W : cut[i] \in Int
    BY DEF Frames, Ghosts
  <2> HIDE DEF W
  <2>2. QED
    BY <1>1, <2>1 DEF W
<1>4. \A i \in 1 .. W : i - 1 \in 0 .. W /\ i \in 0 .. W
  BY <1>1
<1>5. Ghosts(c2, data)'
  BY <1>3 DEF Frames, Ghosts
<1>6. \A i \in 1 .. W : Len(data[i]) \in Nat /\ IsSeq(data[i])
  <2>1. \A i \in 1 .. W : data[i] \in Payloads
    BY DEF Frames, Ghosts
  <2>2. QED
    BY <2>1, PayloadLengths, Length
<1>7. Cuts(c2, data)'
  <2>1. ASSUME NEW i \in 1 .. W PROVE c2[i] = c2[i - 1] + 54 + Len(data[i])
    <3>1. cut[i] = cut[i - 1] + 54 + Len(data[i])
      BY DEF Frames, Cuts
    <3>2. c2[i] = cut[i] - n /\ cut[i] \in Int
      BY <1>3, <1>4
    <3>3. c2[i - 1] = cut[i - 1] - n /\ cut[i - 1] \in Int
      BY <1>3, <1>4
    <3>4. Len(data[i]) \in Nat /\ n \in Int
      BY <1>1, <1>6
    <3>5. QED
      BY <3>1, <3>2, <3>3, <3>4
  <2>2. ASSUME NEW i \in 0 .. W, NEW j \in 0 .. W, i < j PROVE c2[i] + 54 <= c2[j]
    <3>1. cut[i] + 54 <= cut[j]
      BY <2>2 DEF Frames, Cuts
    <3>2. c2[i] = cut[i] - n /\ cut[i] \in Int
      BY <1>3
    <3>3. c2[j] = cut[j] - n /\ cut[j] \in Int
      BY <1>3
    <3>4. n \in Int
      BY <1>1
    <3>5. QED
      BY <3>1, <3>2, <3>3, <3>4
  <2>3. Len(stream') = c2[W] - Len(owed)
    <3>1. Len(stream) = cut[W] - Len(owed) /\ Len(owed) \in Nat
      BY PayloadLengths, Length DEF Frames, Cuts, Owing
    <3>2. W \in 0 .. W
      BY <1>1
    <3>3. QED
      BY <3>1, <3>2, <1>1, <1>2, <1>3
  <2>4. QED
    BY <2>1, <2>2, <2>3 DEF Cuts
<1>8. Contents(c2, data)'
  <2>1. ASSUME NEW at \in Int, NEW b, IsSeq(b), Lies(stream, at, b)
        PROVE  Lies(stream', at - n, b)
    BY <2>1, <1>1, LiesBehind DEF Left
  <2>2. ASSUME NEW i \in 1 .. W
        PROVE  \/ Lies(stream', c2[i - 1], HeaderBytes(wrote[i].header))
               \/ /\ i \in split /\ data[i] = <<>>
                  /\ \E m \in Splittable : Lies(stream', c2[i - 1] + 13, Window(m)')
    <3>1. \A m : Window(m)' = Window(m) /\ IsSeq(Window(m))
      BY Tabulated DEF Window
    <3>2. cut[i - 1] \in Int /\ c2[i - 1] = cut[i - 1] - n
      BY <1>3, <1>4
    <3>3. IsSeq(HeaderBytes(wrote[i].header))
      BY HeaderOnStream DEF Frames, Ghosts, Carries
    <3>4. cut[i - 1] + 13 \in Int /\ (cut[i - 1] + 13) - n = c2[i - 1] + 13
      BY <3>2, <1>1
    <3>5. \A m : Lies(stream, cut[i - 1] + 13, Window(m))
                    => Lies(stream', c2[i - 1] + 13, Window(m))
      <4>1. ASSUME NEW m, Lies(stream, cut[i - 1] + 13, Window(m))
            PROVE  Lies(stream', (cut[i - 1] + 13) - n, Window(m))
        BY <2>1, <3>1, <3>4, <4>1
      <4>2. QED
        BY <3>4, <4>1
    <3>6. Lies(stream, cut[i - 1], HeaderBytes(wrote[i].header))
            => Lies(stream', c2[i - 1], HeaderBytes(wrote[i].header))
      BY <2>1, <3>2, <3>3
    <3>7. QED
      BY <3>1, <3>5, <3>6 DEF Frames, Contents
  <2>3. ASSUME NEW i \in 1 .. W
        PROVE  \/ i \in split
               \/ i = W /\ owed # <<>>
               \/ Lies(stream', c2[i - 1] + 54, data[i])
    <3>1. cut[i - 1] + 54 \in Int /\ (cut[i - 1] + 54) - n = c2[i - 1] + 54
      BY <1>1, <1>3, <1>4
    <3>2. Lies(stream, cut[i - 1] + 54, data[i]) => Lies(stream', (cut[i - 1] + 54) - n, data[i])
      BY <2>1, <3>1, <1>6
    <3>3. QED
      BY <3>1, <3>2 DEF Frames, Contents
  <2>4. QED
    BY <2>2, <2>3 DEF Contents
<1>9. QED
  BY <1>2, <1>5, <1>7, <1>8

\* Where the server's next packet is, while there is one.
LEMMA Standing ==
    ASSUME FInv, NEW cut, NEW data, Frames(cut, data)
    PROVE  /\ Len(got) \in 0 .. Len(wrote) /\ cut[Len(got)] \in Int
           /\ Len(got) < Len(wrote) =>
                 /\ Len(got) + 1 \in 1 .. Len(wrote)
                 /\ (Len(got) + 1) - 1 = Len(got)
                 /\ cut[Len(got) + 1] = cut[Len(got)] + 54 + Len(data[Len(got) + 1])
                 /\ data[Len(got) + 1] \in Payloads
                 /\ Carries(wrote[Len(got) + 1], data[Len(got) + 1])
                 /\ cut[Len(got) + 1] \in Int
                 /\ cut[Len(got) + 1] <= cut[Len(wrote)]
           /\ Len(stream) = cut[Len(wrote)] - Len(owed)
           /\ cut[Len(wrote)] \in Int /\ Len(owed) \in Nat /\ Len(stream) \in Nat
           /\ Len(owed) = 0 <=> owed = <<>>
<1> DEFINE W == Len(wrote)
           m == Len(got)
<1>1. W \in Nat /\ m \in Nat /\ m <= W /\ Len(stream) \in Nat
  BY Length DEF FInv, Sequenced, Frames, Reader
<1>2. m \in 0 .. W /\ W \in 0 .. W
  BY <1>1
<1>3. \A i \in 0 .. W : cut[i] \in Int
  BY DEF Frames, Ghosts
<1>4. Len(stream) = cut[W] - Len(owed) /\ Len(owed) \in Nat /\ (Len(owed) = 0 <=> owed = <<>>)
  BY PayloadLengths, Length DEF Frames, Cuts, Owing
<1>5. ASSUME m < W
      PROVE  /\ m + 1 \in 1 .. W /\ (m + 1) - 1 = m
             /\ cut[m + 1] = cut[m] + 54 + Len(data[m + 1])
             /\ data[m + 1] \in Payloads /\ Carries(wrote[m + 1], data[m + 1])
             /\ cut[m + 1] \in Int /\ cut[m + 1] <= cut[W]
  <2>1. m + 1 \in 1 .. W /\ m + 1 \in 0 .. W /\ (m + 1) - 1 = m
    BY <1>1, <1>5
  <2>2. cut[m + 1] = cut[(m + 1) - 1] + 54 + Len(data[m + 1])
    BY <2>1 DEF Frames, Cuts
  <2>3. m + 1 = W \/ cut[m + 1] + 54 <= cut[W]
    <3>1. m + 1 = W \/ m + 1 < W
      BY <1>1, <1>5
    <3>2. QED
      BY <3>1, <2>1, <1>2 DEF Frames, Cuts
  <2>4. data[m + 1] \in Payloads /\ Carries(wrote[m + 1], data[m + 1])
    BY <2>1 DEF Frames, Ghosts
  <2>5. cut[m + 1] \in Int /\ cut[W] \in Int
    BY <2>1, <1>2, <1>3
  <2> HIDE DEF W, m
  <2>6. QED
    BY <2>1, <2>2, <2>3, <2>4, <2>5
<1>6. QED
  BY <1>1, <1>2, <1>3, <1>4, <1>5

\* Owing is untouched by a step that leaves got empty if the handshake is owed.
LEMMA OwingStays ==
    ASSUME NEW data, Owing(data), UNCHANGED clientVars,
           got' = got \/ owed = <<>> \/ Len(owed) \in Splittable
    PROVE  Owing(data)'
BY DEF Owing, clientVars

\* A packet is handled, as it was meant if it is not split.
LEMMA GotGrows ==
    ASSUME FInv, NEW q, got' = Append(got, q), UNCHANGED clientVars, IsSeq(stream'),
           Len(got) + 1 \in split \/ q = wrote[Len(got) + 1]
    PROVE  Sequenced' /\ DamageConfined' /\ Len(got') = Len(got) + 1
<1> DEFINE m == Len(got)
<1>1. /\ IsSeq(got) /\ IsSeq(got') /\ m \in Nat /\ Len(got') = m + 1
      /\ got'[m + 1] = q /\ \A i \in 1 .. m : got'[i] = got[i]
  BY Appended, Length DEF FInv, Sequenced
<1>2. Sequenced'
  BY <1>1 DEF FInv, Sequenced, clientVars
<1>3. DOMAIN got = 1 .. m /\ DOMAIN got' = 1 .. m + 1
  BY <1>1, Length
<1> HIDE DEF m
<1>4. \A i \in 1 .. m + 1 : i \in 1 .. m \/ i = m + 1
  BY <1>1
<1>5. ASSUME NEW i \in DOMAIN got', i \notin split
      PROVE  got'[i] = wrote[i]
  <2>1. CASE i \in 1 .. m
    BY <1>1, <1>3, <1>5, <2>1 DEF FInv, DamageConfined
  <2>2. CASE i = m + 1
    BY <1>1, <1>5, <2>2 DEF m
  <2>3. QED
    BY <1>3, <1>4, <2>1, <2>2
<1>6. DamageConfined'
  BY <1>5 DEF DamageConfined, clientVars
<1>7. QED
  BY <1>1, <1>2, <1>6 DEF m

\* What the server makes of the next 54 bytes.
LEMMA HeaderRead ==
    ASSUME FInv, ReadsHeader, NEW cut, NEW data, Frames(cut, data),
           NEW i, i = Len(got) + 1
    PROVE  /\ Len(got) < Len(wrote) /\ cut[Len(got)] = 0
           /\ \/ ended' /\ split # {} /\ Len(callsign) > 6 /\ got' = got
              \/ /\ ~ended' /\ held' = NoHeader /\ data[i] = <<>>
                 /\ \E q : got' = Append(got, q) /\ (i \in split \/ q = wrote[i])
              \/ /\ ~ended' /\ held' = wrote[i].header /\ data[i] # <<>> /\ got' = got
<1> DEFINE m == Len(got)
           d == data[i]
           h == ServerReads(Taken(54))
<1>1. held = NoHeader /\ cut[m] = 0 /\ Len(stream) >= 54 /\ ~ended /\ HEADER_SIZE = 54
  BY DEF ReadsHeader, Frames, Reader, HEADER_SIZE
<1>2. m < Len(wrote)
  <2>1. m = Len(wrote) => Len(stream) <= 0
    BY <1>1, Standing
  <2>2. m \in 0 .. Len(wrote) /\ Len(stream) \in Nat
    BY Standing
  <2>3. QED
    BY <1>1, <2>1, <2>2, Length DEF FInv, Sequenced
<1>3. /\ i \in 1 .. Len(wrote) /\ i - 1 = m /\ d \in Payloads /\ Carries(wrote[i], d)
  BY <1>2, Standing
<1>4. Len(d) \in {0, 14, 25, 35, 53} /\ (Len(d) = 0 <=> d = <<>>) /\ IsSeq(stream)
  BY <1>3, PayloadLengths DEF FInv, Sequenced
<1>5. \/ Exceeds(h.payload_length) /\ ended' = TRUE /\ got' = got
      \/ /\ ~Exceeds(h.payload_length) /\ Number(h.payload_length) = 0
         /\ got' = Append(got, [header |-> h, report |-> NoReport])
         /\ held' = held /\ ended' = ended
      \/ /\ ~Exceeds(h.payload_length) /\ Number(h.payload_length) > 0
         /\ held' = h /\ got' = got /\ ended' = ended
  BY <1>1 DEF ReadsHeader
<1>6. CASE Lies(stream, cut[i - 1], HeaderBytes(wrote[i].header))
  <2>1. /\ IsSeq(HeaderBytes(wrote[i].header)) /\ Len(HeaderBytes(wrote[i].header)) = 54
        /\ ServerReads(AsArray(HeaderBytes(wrote[i].header))) = wrote[i].header
    BY <1>3, HeaderOnStream DEF Carries
  <2>2. SubSeq(stream, 1, 54) = HeaderBytes(wrote[i].header)
    BY <1>1, <1>3, <1>4, <1>6, <2>1, LiesInFront
  <2>3. h = wrote[i].header
    BY <2>1, <2>2 DEF Taken
  <2>4. h.payload_length = Digits(Len(d))
    BY <1>3, <2>3 DEF Carries
  <2> HIDE DEF h, d
  <2>5. ~Exceeds(h.payload_length) /\ Number(h.payload_length) = Len(d)
    BY <1>4, <2>4, Announced
  <2>6. CASE d = <<>>
    <3>1. [header |-> h, report |-> NoReport] = wrote[i]
      <4>1. wrote[i].report = NoReport
        BY <1>3, <1>4, <2>6, PayloadOnStream, PayloadLengths, FourTypes, Empty DEF Carries, d
      <4>2. QED
        BY <4>1, <1>3, <2>3 DEF Carries
    <3>2. QED
      BY <1>1, <1>2, <1>4, <1>5, <2>5, <2>6, <3>1 DEF d
  <2>7. CASE d # <<>>
    BY <1>1, <1>2, <1>4, <1>5, <2>3, <2>5, <2>7 DEF d
  <2>8. QED
    BY <2>6, <2>7
<1>7. CASE ~Lies(stream, cut[i - 1], HeaderBytes(wrote[i].header))
  <2>1. PICK n \in Splittable :
          i \in split /\ d = <<>> /\ Lies(stream, cut[i - 1] + 13, Window(n))
    BY <1>3, <1>7 DEF Frames, Contents
  <2>2. cut[i - 1] + 13 = 13 /\ callsign \in Callsigns
    BY <1>1, <1>3 DEF FInv, Sequenced
  <2>3. \/ Exceeds(h.payload_length) /\ Len(callsign) > 6
        \/ ~Exceeds(h.payload_length) /\ Number(h.payload_length) = 0
    BY <1>1, <1>4, <2>1, <2>2, Misread
  <2> HIDE DEF h, d
  <2>4. QED
    BY <1>1, <1>2, <1>5, <2>1, <2>3 DEF d
<1>8. QED
  BY <1>6, <1>7

\* Reading 54 bytes at a cut yields a genuine header, a heartbeat's misread one
\* that announces nothing, or the end of the session.
LEMMA ReadsHeaderKeeps ==
    ASSUME FInv, ReadsHeader
    PROVE  FInv'
<1>1. PICK cut, data : Frames(cut, data)
  BY DEF FInv, ReadsHeader
<1> DEFINE m == Len(got)
<1>2. PICK i : i = m + 1
  OBVIOUS
<1>3. PICK c2 : c2 = [j \in 0 .. Len(wrote) |-> cut[j] - 54]
  OBVIOUS
<1>4. /\ stream' = Left(54) /\ UNCHANGED clientVars
      /\ Len(stream) >= 54 /\ held = NoHeader
  BY DEF ReadsHeader, HEADER_SIZE
<1>5. 54 \in 0 .. Len(stream)
  BY <1>1, <1>4, Standing
<1>6. IsSeq(stream') /\ Ghosts(c2, data)' /\ Cuts(c2, data)' /\ Contents(c2, data)'
  BY <1>1, <1>3, <1>4, <1>5, TakingShifts
<1>7. /\ m < Len(wrote) /\ cut[m] = 0
      /\ \/ ended' /\ split # {} /\ Len(callsign) > 6 /\ got' = got
         \/ /\ ~ended' /\ held' = NoHeader /\ data[i] = <<>>
            /\ \E q : got' = Append(got, q) /\ (i \in split \/ q = wrote[i])
         \/ /\ ~ended' /\ held' = wrote[i].header /\ data[i] # <<>> /\ got' = got
  BY <1>1, <1>2, HeaderRead
<1>8. /\ m \in 0 .. Len(wrote) /\ m \in Nat /\ i \in 1 .. Len(wrote) /\ Len(wrote) \in Nat
      /\ cut[i] = cut[m] + 54 + Len(data[i]) /\ cut[i] \in Int
      /\ data[i] \in Payloads /\ Carries(wrote[i], data[i])
  BY <1>1, <1>2, <1>7, Standing, Length DEF FInv, Sequenced
<1>9. c2[m] = -54 /\ c2[i] = cut[i] - 54
  <2>1. i \in 0 .. Len(wrote)
    BY <1>8
  <2>2. c2[m] = cut[m] - 54 /\ c2[i] = cut[i] - 54
    BY <2>1, <1>3, <1>8
  <2>3. QED
    BY <2>2, <1>7
<1>10. wrote' = wrote /\ owed' = owed /\ split' = split /\ callsign' = callsign
  BY <1>4 DEF clientVars
<1>11. CASE ended' /\ split # {} /\ Len(callsign) > 6 /\ got' = got
  BY <1>6, <1>10, <1>11 DEF FInv, Sequenced, DamageConfined
<1>12. CASE /\ ~ended' /\ held' = NoHeader /\ data[i] = <<>>
            /\ \E q : got' = Append(got, q) /\ (i \in split \/ q = wrote[i])
  <2>1. PICK q : got' = Append(got, q) /\ (i \in split \/ q = wrote[i])
    BY <1>12
  <2>2. Sequenced' /\ DamageConfined' /\ Len(got') = m + 1
    BY <2>1, <1>2, <1>4, <1>6, GotGrows
  <2>3. c2[m + 1] = 0
    BY <1>2, <1>7, <1>8, <1>9, <1>12, Empty
  <2>4. Reader(c2, data)'
    BY <2>2, <2>3, <1>2, <1>8, <1>10, <1>12 DEF Reader
  <2>5. owed = <<>> \/ Len(owed) \in Splittable
    <3>1. ASSUME owed # <<>>, Len(wrote) = 1, got = <<>>, split = {}
          PROVE  FALSE
      <4>1. data[1] = owed
        BY <3>1, <1>1 DEF Frames, Owing
      <4>2. i = 1
        BY <3>1, <1>2, Empty
      <4>3. QED
        BY <3>1, <4>1, <4>2, <1>12
    <3>2. QED
      BY <3>1, <1>1 DEF Frames, Owing
  <2>6. Owing(data)'
    BY <2>5, <1>1, <1>4, OwingStays DEF Frames
  <2>7. QED
    BY <2>2, <2>4, <2>6, <1>6, <1>12 DEF FInv, Frames
<1>13. CASE ~ended' /\ held' = wrote[i].header /\ data[i] # <<>> /\ got' = got
  <2>1. held' # NoHeader
    <3>1. DOMAIN held' = DOMAIN ClientHeader
      BY <1>8, <1>13 DEF Carries, IsValue
    <3>2. "seq_num" \in DOMAIN ClientHeader /\ "seq_num" \notin DOMAIN NoHeader
      BY DEF ClientHeader, NoHeader
    <3>3. QED
      BY <3>1, <3>2
  <2>2. Reader(c2, data)'
    BY <2>1, <1>2, <1>7, <1>8, <1>9, <1>10, <1>13 DEF Reader
  <2>3. Owing(data)'
    BY <1>1, <1>4, <1>13, OwingStays DEF Frames
  <2>4. Sequenced' /\ DamageConfined'
    BY <1>6, <1>10, <1>13 DEF FInv, Sequenced, DamageConfined
  <2>5. QED
    BY <2>2, <2>3, <2>4, <1>6, <1>13 DEF FInv, Frames
<1>14. QED
  BY <1>7, <1>11, <1>12, <1>13

\* Reading what a genuine header announces takes the server to the next cut.
LEMMA ReadsPayloadKeeps ==
    ASSUME FInv, ReadsPayload
    PROVE  FInv'
<1>1. PICK cut, data : Frames(cut, data)
  BY DEF FInv, ReadsPayload
<1> DEFINE m == Len(got)
<1>2. PICK i : i = m + 1
  OBVIOUS
<1> DEFINE d == data[i]
<1>3. /\ m < Len(wrote) /\ held = wrote[i].header /\ d # <<>> /\ cut[m] = -54
  BY <1>1, <1>2 DEF ReadsPayload, Frames, Reader
<1>4. /\ m \in 0 .. Len(wrote) /\ m \in Nat /\ i \in 1 .. Len(wrote) /\ i - 1 = m
      /\ cut[i] = cut[m] + 54 + Len(d) /\ cut[i] \in Int /\ cut[i] <= cut[Len(wrote)]
      /\ d \in Payloads /\ Carries(wrote[i], d)
  BY <1>1, <1>2, <1>3, Standing, Length DEF FInv, Sequenced
<1>5. /\ Len(d) \in {0, 14, 25, 35, 53} /\ Len(d) # 0 /\ IsSeq(d) /\ IsSeq(stream)
  BY <1>3, <1>4, PayloadLengths DEF FInv, Sequenced
<1>6. Number(held.payload_length) = Len(d)
  BY <1>3, <1>4, <1>5, Announced DEF Carries
<1> DEFINE q == [header |-> held, report |-> Report(held, Taken(Len(d)), Len(d))]
<1>7. /\ ~ended' /\ Len(stream) >= Len(d) /\ stream' = Left(Len(d))
      /\ got' = Append(got, q) /\ held' = NoHeader /\ UNCHANGED clientVars
  BY <1>6 DEF ReadsPayload
<1>8. /\ Len(stream) = cut[Len(wrote)] - Len(owed) /\ cut[Len(wrote)] \in Int
      /\ Len(owed) \in Nat /\ Len(stream) \in Nat
      /\ Len(owed) = 0 <=> owed = <<>>
  BY <1>1, Standing
<1>9. Len(d) \in 0 .. Len(stream)
  BY <1>5, <1>7, <1>8
<1>10. ASSUME i = Len(wrote) PROVE owed = <<>>
  <2>1. cut[Len(wrote)] = Len(d)
    BY <1>3, <1>4, <1>5, <1>10
  <2>2. QED
    BY <2>1, <1>5, <1>7, <1>8
<1>11. i \in split \/ q = wrote[i]
  <2>1. ASSUME i \notin split PROVE q = wrote[i]
    <3>1. Lies(stream, cut[i - 1] + 54, d)
      BY <2>1, <1>1, <1>4, <1>10 DEF Frames, Contents
    <3>2. cut[i - 1] + 54 = 0
      BY <1>3, <1>4
    <3>3. SubSeq(stream, 1, Len(d)) = d
      BY <3>1, <3>2, <1>5, LiesInFront
    <3>4. Taken(Len(d)) = AsArray(d)
      BY <3>3 DEF Taken
    <3>5. Report(held, Taken(Len(d)), Len(d)) = wrote[i].report
      BY <3>4, <1>3, <1>4, Shown
    <3>6. QED
      BY <3>5, <1>3, <1>4 DEF Carries
  <2>2. QED
    BY <2>1
<1> HIDE DEF q, d
<1>12. PICK c2 : c2 = [j \in 0 .. Len(wrote) |-> cut[j] - Len(d)]
  OBVIOUS
<1>13. IsSeq(stream') /\ Ghosts(c2, data)' /\ Cuts(c2, data)' /\ Contents(c2, data)'
  BY <1>1, <1>7, <1>9, <1>12, TakingShifts
<1>14. Sequenced' /\ DamageConfined' /\ Len(got') = m + 1
  BY <1>2, <1>7, <1>11, <1>13, GotGrows
<1>15. c2[i] = 0
  <2>1. i \in 0 .. Len(wrote)
    BY <1>4
  <2>2. c2[i] = cut[i] - Len(d) /\ cut[i] = Len(d)
    BY <2>1, <1>3, <1>4, <1>5, <1>12
  <2>3. QED
    BY <2>2, <1>5
<1>16. Reader(c2, data)'
  BY <1>2, <1>4, <1>7, <1>14, <1>15 DEF Reader, clientVars
<1>17. owed = <<>> \/ Len(owed) \in Splittable
  <2>1. ASSUME Len(wrote) = 1, got = <<>> PROVE owed = <<>>
    BY <2>1, <1>2, <1>10, Empty
  <2>2. QED
    BY <2>1, <1>1 DEF Frames, Owing
<1>18. Owing(data)'
  BY <1>1, <1>7, <1>17, OwingStays DEF Frames
<1>19. QED
  BY <1>7, <1>13, <1>14, <1>16, <1>18 DEF FInv, Frames

-----------------------------------------------------------------------------
(* Theorems.                                                               *)

\* Every step keeps the invariant.
LEMMA FInvNext == FInv /\ [Next]_vars => FInv'
<1> SUFFICES ASSUME FInv, [Next]_vars PROVE FInv'
  OBVIOUS
<1>1. ASSUME NEW type \in DOMAIN ClientPayload, WritesReport(type) PROVE FInv'
  BY <1>1, WritesReportKeeps
<1>2. CASE WritesMayday
  BY <1>2, WritesMaydayKeeps
<1>3. CASE WritesPayload
  BY <1>3, WritesPayloadKeeps
<1>4. CASE WritesHeartbeat
  BY <1>4, WritesHeartbeatKeeps
<1>5. CASE ReadsHeader
  BY <1>5, ReadsHeaderKeeps
<1>6. CASE ReadsPayload
  BY <1>6, ReadsPayloadKeeps
<1>7. CASE UNCHANGED vars
  <2>1. /\ callsign' = callsign /\ wrote' = wrote /\ owed' = owed /\ split' = split
        /\ stream' = stream /\ held' = held /\ got' = got /\ ended' = ended
    BY <1>7 DEF vars, clientVars, serverVars
  <2>2. ASSUME ~ended PROVE \E cut, data : Frames(cut, data)'
    <3>1. PICK cut, data : Frames(cut, data)
      BY <2>2 DEF FInv
    <3>2. Ghosts(cut, data)' /\ Cuts(cut, data)' /\ Reader(cut, data)' /\ Owing(data)'
      BY <2>1, <3>1 DEF Frames, Ghosts, Cuts, Reader, Owing
    <3>3. \A n : Window(n)' = Window(n)
      BY <2>1 DEF Window
    <3>4. Contents(cut, data)'
      BY <2>1, <3>1, <3>3 DEF Frames, Contents
    <3>5. QED
      BY <3>2, <3>4 DEF Frames
  <2>3. Sequenced' /\ DamageConfined'
    BY <2>1 DEF FInv, Sequenced, DamageConfined
  <2>4. QED
    BY <2>1, <2>2, <2>3 DEF FInv
<1>8. QED
  BY <1>1, <1>2, <1>3, <1>4, <1>5, <1>6, <1>7 DEF Next

\* It holds throughout.
LEMMA FInvAlways == Spec => []FInv
BY FInvInit, FInvNext, PTL DEF Spec

\* Whatever heartbeats come between the two writes of whatever packets, every
\* packet that none has split reaches the handlers with the header and the
\* telemetry it was sent with (send_packet, send_keepalive, recv_packet).
THEOREM OnlySplitDamaged == Spec => []DamageConfined
<1>1. FInv => DamageConfined
  BY DEF FInv
<1>2. QED
  BY <1>1, FInvAlways, PTL

\* Once all is read, recv_packet stands at the beginning of a packet and has
\* counted as many as were sent; only a callsign of seven characters and a
\* split packet make it end the session.
THEOREM StepRegained == Spec => []StreamRealigns
<1>1. FInv => StreamRealigns
  <2> SUFFICES ASSUME FInv PROVE StreamRealigns
    OBVIOUS
  <2>1. ASSUME stream = <<>>, owed = <<>>, ~ended
        PROVE  held = NoHeader /\ Len(got) = Len(wrote)
    <3>1. PICK cut, data : Frames(cut, data)
      BY <2>1 DEF FInv
    <3> DEFINE m == Len(got)
               W == Len(wrote)
    <3>2. m \in 0 .. W /\ W \in Nat /\ cut[W] = 0
      BY <2>1, <3>1, Standing, Length, Empty DEF FInv, Sequenced
    <3>3. ASSUME m < W PROVE FALSE
      <4>1. /\ cut[m + 1] = cut[m] + 54 + Len(data[m + 1]) /\ cut[m + 1] <= 0
            /\ data[m + 1] \in Payloads /\ cut[m] \in Int
        BY <3>1, <3>2, <3>3, Standing
      <4>2. /\ Len(data[m + 1]) \in {0, 14, 25, 35, 53}
            /\ Len(data[m + 1]) = 0 <=> data[m + 1] = <<>>
        BY <4>1, PayloadLengths
      <4>3. CASE held = NoHeader
        <5>1. cut[m] = 0
          BY <4>3, <3>1 DEF Frames, Reader
        <5>2. QED
          BY <4>1, <4>2, <5>1
      <4>4. CASE held # NoHeader
        <5>1. cut[m] = -54 /\ data[m + 1] # <<>>
          BY <4>4, <3>1 DEF Frames, Reader
        <5>2. QED
          BY <4>1, <4>2, <5>1
      <4>5. QED
        BY <4>3, <4>4
    <3>4. m = W
      BY <3>2, <3>3
    <3>5. held = NoHeader
      BY <3>2, <3>4, <3>1 DEF Frames, Reader
    <3>6. QED
      BY <3>4, <3>5
  <2>2. QED
    BY <2>1 DEF StreamRealigns, FInv
<1>2. QED
  BY <1>1, FInvAlways, PTL
=============================================================================
