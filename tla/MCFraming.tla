------------------------------ MODULE MCFraming ------------------------------
(***************************************************************************)
(* Framing for TLC: the callsign of client/README.md and one a character   *)
(* longer, and telemetry whose bytes differ, as a swap of equal bytes      *)
(* would go unseen.  All floats are 8.125..., the squawk code is 1537.     *)
(***************************************************************************)
EXTENDS Framing

AC8821 == <<65, 67, 56, 56, 50, 49>>
MCCallsigns == {AC8821, Append(AC8821, 50)}

Bytes(s) == [k \in 0 .. Len(s) - 1 |-> s[k + 1]]

MCTimestamp == Bytes(<<0, 0, 0, 0, 101, 2, 3, 4>>)

Sample(f, size) ==
    CASE f = "squawk_code"    -> Bytes(<<6, 1>>)
      [] f = "departure_time" -> MCTimestamp
      [] size = 1             -> Bytes(<<1>>)
      [] f \in PayloadNumbers -> Bytes(<<65, 2, 3, 4>>)
      [] OTHER                -> [k \in 0 .. size - 1 |-> 65 + k]

MCTelemetry ==
    [t \in DOMAIN ClientPayload |->
        [f \in DOMAIN ClientPayload[t] |-> Sample(f, ClientPayload[t][f].size)]]
=============================================================================
