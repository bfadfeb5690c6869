----------------------------- MODULE WireProofs ------------------------------
(***************************************************************************)
(* Theorems about Wire, for every value of every field: what one end puts  *)
(* into a header or a payload is what the other end takes out of it.       *)
(***************************************************************************)
EXTENDS Wire, TLAPS

\* The fields of a layout lie within its size and do not overlap.
WellLaid(layout, size) ==
    /\ size \in Nat
    /\ \A f \in DOMAIN layout :
          /\ layout[f].at \in Nat /\ layout[f].size \in Nat
          /\ layout[f].at + layout[f].size <= size
    /\ \A f, g \in DOMAIN layout :
          f # g => \/ layout[f].at + layout[f].size <= layout[g].at
                   \/ layout[g].at + layout[g].size <= layout[f].at

\* Both ends agree on each layout, and the layouts are well laid.
LEMMA Layouts ==
    /\ WellLaid(ServerHeader, HEADER_SIZE) /\ ClientHeader = ServerHeader
    /\ \A type \in DOMAIN ServerPayload :
          /\ WellLaid(ServerPayload[type], PayloadSize[type])
          /\ ClientPayload[type] = ServerPayload[type]
<1>1. WellLaid(ServerHeader, HEADER_SIZE)
  BY DEF WellLaid, ServerHeader, HEADER_SIZE, At
<1>2. ClientHeader = ServerHeader
  BY DEF ClientHeader, ServerHeader
<1>3. ClientPayload = ServerPayload
  BY DEF ClientPayload, ServerPayload
<1>4. DOMAIN ServerPayload = {"HANDSHAKE", "TAKEOFF", "TRANSIT", "LANDING"}
  BY DEF ServerPayload
<1>5. WellLaid(ServerPayload["HANDSHAKE"], PayloadSize["HANDSHAKE"])
  BY DEF WellLaid, ServerPayload, PayloadSize, At
<1>6. WellLaid(ServerPayload["TAKEOFF"], PayloadSize["TAKEOFF"])
  BY DEF WellLaid, ServerPayload, PayloadSize, At
<1>7. WellLaid(ServerPayload["TRANSIT"], PayloadSize["TRANSIT"])
  BY DEF WellLaid, ServerPayload, PayloadSize, At
<1>8. WellLaid(ServerPayload["LANDING"], PayloadSize["LANDING"])
  BY DEF WellLaid, ServerPayload, PayloadSize, At
<1>9. QED
  BY <1>1, <1>2, <1>3, <1>4, <1>5, <1>6, <1>7, <1>8

\* Every byte of a field lies in the layout and belongs to that field.
LEMMA FieldOf ==
    ASSUME NEW layout, NEW size, WellLaid(layout, size), NEW f \in DOMAIN layout,
           NEW k \in 0 .. layout[f].size - 1
    PROVE  /\ layout[f].at + k \in 0 .. size - 1
           /\ FieldAt(layout, layout[f].at + k) = f
           /\ (layout[f].at + k) - layout[f].at = k
<1> DEFINE i == layout[f].at + k
<1>1. /\ layout[f].at \in Nat /\ layout[f].size \in Nat /\ size \in Nat
      /\ layout[f].at + layout[f].size <= size
  BY DEF WellLaid
<1>2. /\ i \in 0 .. size - 1 /\ i - layout[f].at = k
      /\ layout[f].at <= i /\ i < layout[f].at + layout[f].size
  BY <1>1
<1>3. ASSUME NEW g \in DOMAIN layout, layout[g].at <= i,
             i < layout[g].at + layout[g].size
      PROVE  g = f
  BY <1>1, <1>2, <1>3 DEF WellLaid
<1> HIDE DEF i
<1>4. FieldAt(layout, i) = f
  BY <1>2, <1>3 DEF FieldAt
<1>5. QED
  BY <1>2, <1>4 DEF i

\* Where the client puts a byte of a field, and where the server does.
LEMMA Written ==
    ASSUME NEW layout, NEW size, WellLaid(layout, size), NEW v,
           NEW f \in DOMAIN layout, NEW k \in 0 .. layout[f].size - 1
    PROVE  /\ to_bytes(layout, size, v)[layout[f].at + k] = v[f][k]
           /\ Stored(layout, size, v)[layout[f].at + k] =
                IF f \in Arrays THEN v[f][k] ELSE v[f][layout[f].size - 1 - k]
BY FieldOf DEF to_bytes, Stored

\* Loading what the client wrote reverses the digits of every number.
LEMMA LoadedField ==
    ASSUME NEW layout, NEW size, WellLaid(layout, size), NEW v, IsValue(layout, v),
           NEW f \in DOMAIN layout
    PROVE  Loaded(layout, to_bytes(layout, size, v))[f] =
              IF f \in Arrays THEN v[f] ELSE swapped(v[f], layout[f].size)
<1> DEFINE b == to_bytes(layout, size, v)
<1> DEFINE bytes == [k \in 0 .. layout[f].size - 1 |-> b[layout[f].at + k]]
<1>1. v[f] = [k \in 0 .. layout[f].size - 1 |-> v[f][k]]
  BY DEF IsValue
<1>2. \A k \in 0 .. layout[f].size - 1 : b[layout[f].at + k] = v[f][k]
  BY Written
<1>3. bytes = v[f]
  BY <1>1, <1>2
<1>4. Loaded(layout, b)[f] =
         IF f \in Arrays THEN bytes ELSE swapped(bytes, layout[f].size)
  BY DEF Loaded
<1>5. QED
  BY <1>3, <1>4

\* Reversing digits twice gives them back.
LEMMA SwappedTwice ==
    ASSUME NEW n \in Nat, NEW d, d = [k \in 0 .. n - 1 |-> d[k]]
    PROVE  swapped(swapped(d, n), n) = d
<1>1. \A k \in 0 .. n - 1 : n - 1 - k \in 0 .. n - 1 /\ n - 1 - (n - 1 - k) = k
  OBVIOUS
<1>2. \A k \in 0 .. n - 1 : swapped(d, n)[n - 1 - k] = d[k]
  BY <1>1 DEF swapped
<1>3. swapped(swapped(d, n), n) = [k \in 0 .. n - 1 |-> swapped(d, n)[n - 1 - k]]
  BY DEF swapped
<1>4. QED
  BY <1>2, <1>3

\* One byte has no order.
LEMMA SwappedByte ==
    ASSUME NEW d, d = [k \in 0 .. 0 |-> d[k]]
    PROVE  swapped(d, 1) = d
<1>1. 1 - 1 = 0 /\ \A k \in 0 .. 0 : 1 - 1 - k = k
  OBVIOUS
<1>2. swapped(d, 1) = [k \in 0 .. 0 |-> d[1 - 1 - k]]
  BY <1>1 DEF swapped
<1>3. QED
  BY <1>1, <1>2

\* The server decodes a layout right if it swaps exactly its numbers of more
\* than one byte.
LEMMA Decodes ==
    ASSUME NEW layout, NEW size, WellLaid(layout, size), NEW v, IsValue(layout, v),
           NEW numbers,
           \A f \in DOMAIN layout : \/ f \in numbers /\ f \notin Arrays
                                    \/ f \notin numbers /\ f \in Arrays
                                    \/ f \notin numbers /\ layout[f].size = 1
    PROVE  SwapFields(layout, numbers, Loaded(layout, to_bytes(layout, size, v))) = v
<1> DEFINE w == Loaded(layout, to_bytes(layout, size, v))
<1>1. ASSUME NEW f \in DOMAIN layout
      PROVE  (IF f \in numbers THEN swapped(w[f], layout[f].size) ELSE w[f]) = v[f]
  <2>1. w[f] = IF f \in Arrays THEN v[f] ELSE swapped(v[f], layout[f].size)
    BY LoadedField
  <2>2. v[f] = [k \in 0 .. layout[f].size - 1 |-> v[f][k]] /\ layout[f].size \in Nat
    BY DEF IsValue, WellLaid
  <2>3. swapped(swapped(v[f], layout[f].size), layout[f].size) = v[f]
    BY <2>2, SwappedTwice
  <2>4. layout[f].size = 1 => swapped(v[f], layout[f].size) = v[f]
    BY <2>2, SwappedByte
  <2> HIDE DEF w
  <2>5. QED
    BY <2>1, <2>3, <2>4
<1>2. v = [f \in DOMAIN layout |-> v[f]]
  BY DEF IsValue
<1>3. SwapFields(layout, numbers, w) =
         [f \in DOMAIN layout |->
            IF f \in numbers THEN swapped(w[f], layout[f].size) ELSE w[f]]
  BY DEF SwapFields
<1> HIDE DEF w
<1>4. QED
  BY <1>1, <1>2, <1>3 DEF w

\* Every header the client writes is read by the server with the same fields,
\* 8-byte timestamp and callsign included (REQ-PKT-030, REQ-PKT-031).
THEOREM HeaderReachesServer ==
    ASSUME NEW h, IsValue(ClientHeader, h)
    PROVE  ServerReads(to_bytes(ClientHeader, HEADER_SIZE, h)) = h
<1>1. \A f \in DOMAIN ServerHeader : \/ f \in HeaderNumbers /\ f \notin Arrays
                                     \/ f \notin HeaderNumbers /\ f \in Arrays
                                     \/ f \notin HeaderNumbers /\ ServerHeader[f].size = 1
  BY DEF ServerHeader, HeaderNumbers, Arrays, At
<1>2. QED
  BY <1>1, Layouts, Decodes DEF ServerReads, header_ntoh

\* The telemetry of every phase report and handshake is shown by the server
\* as the pilot entered it (REQ-CLT-040).
THEOREM ReportReachesServer ==
    ASSUME NEW type \in DOMAIN ServerPayload, NEW v, IsValue(ClientPayload[type], v)
    PROVE  ServerReport(type, to_bytes(ClientPayload[type], PayloadSize[type], v)) = v
<1>1. type \in {"HANDSHAKE", "TAKEOFF", "TRANSIT", "LANDING"}
  BY DEF ServerPayload
<1> DEFINE fields == DOMAIN ServerPayload[type]
<1>2. \A f \in fields :
         \/ f \in PayloadNumbers /\ f \notin Arrays
         \/ f \notin PayloadNumbers /\ f \in Arrays
         \/ f \notin PayloadNumbers /\ ServerPayload[type][f].size = 1
  BY <1>1 DEF ServerPayload, PayloadNumbers, Arrays, At
<1>3. QED
  BY <1>2, Layouts, Decodes DEF ServerReport

\* Every header the server writes is read by the client with the same fields.
THEOREM HeaderReachesClient ==
    ASSUME NEW h, IsValue(ServerHeader, h)
    PROVE  from_bytes(ClientHeader, ServerWrites(h)) = h
<1> DEFINE w == header_hton(h)
<1> DEFINE b == Stored(ServerHeader, HEADER_SIZE, w)
<1>1. ASSUME NEW f \in DOMAIN ServerHeader, NEW k \in 0 .. ServerHeader[f].size - 1
      PROVE  b[ServerHeader[f].at + k] = h[f][k]
  <2> DEFINE n == ServerHeader[f].size
  <2>1. b[ServerHeader[f].at + k] =
            IF f \in Arrays THEN w[f][k] ELSE w[f][n - 1 - k]
    BY Layouts, Written
  <2>2. w[f] = IF f \in HeaderNumbers THEN swapped(h[f], n) ELSE h[f]
    BY DEF header_hton, SwapFields
  <2>3. n \in Nat /\ n - 1 - k \in 0 .. n - 1 /\ n - 1 - (n - 1 - k) = k
    BY Layouts DEF WellLaid
  <2>4. swapped(h[f], n)[n - 1 - k] = h[f][k]
    BY <2>3 DEF swapped
  <2>5. \/ f \in HeaderNumbers /\ f \notin Arrays
        \/ f \notin HeaderNumbers /\ f \in Arrays
        \/ f \notin HeaderNumbers /\ n = 1
    BY DEF ServerHeader, HeaderNumbers, Arrays, At
  <2>6. n = 1 => n - 1 - k = k
    BY <2>3
  <2> HIDE DEF w, b, n
  <2>7. QED
    BY <2>1, <2>2, <2>4, <2>5, <2>6
<1>2. h = [f \in DOMAIN ServerHeader |->
             [k \in 0 .. ServerHeader[f].size - 1 |-> h[f][k]]]
  BY DEF IsValue
<1>3. from_bytes(ClientHeader, b) =
         [f \in DOMAIN ServerHeader |->
            [k \in 0 .. ServerHeader[f].size - 1 |-> b[ServerHeader[f].at + k]]]
  BY Layouts DEF from_bytes
<1> HIDE DEF b
<1>4. from_bytes(ClientHeader, b) = h
  BY <1>1, <1>2, <1>3
<1>5. QED
  BY <1>4 DEF b, ServerWrites
=============================================================================
