------------------------------ MODULE Keepalive ------------------------------
(***************************************************************************)
(* The clock behind an idle connection.  The server sends a keepalive when *)
(* its select() times out and it has sent nothing for Interval; a          *)
(* heartbeat of the aircraft restarts select() without being answered.     *)
(* The aircraft's receiver thread gives the connection up after            *)
(* ReadTimeout of silence.  Time advances in units of the model; handling  *)
(* a packet takes none, and a packet is delivered within Latency.          *)
(***************************************************************************)
EXTENDS Integers

CONSTANTS
    Interval,       \* SERVER_KEEPALIVE_INTERVAL_MS
    Select,         \* the timeout given to select()
    Period,         \* HEARTBEAT_INTERVAL_SECS
    ReadTimeout,    \* READ_TIMEOUT_SECS
    Latency         \* bound on the delivery time of a packet

ASSUME TimesAssumption ==
    /\ Interval \in Nat \ {0} /\ Select \in Nat /\ Period \in Nat
    /\ ReadTimeout \in Nat /\ Latency \in Nat

\* A heartbeat never arrives twice while one select() waits.
ASSUME HeartbeatAssumption == Select + Latency < Period

VARIABLES
    sinceSend,      \* time since last_send_ms
    waited,         \* time spent in the present select()
    sinceBeat,      \* time since the latest heartbeat arrived, up to Period
    silence,        \* time since the receiver thread last read a packet
    flight          \* age of the oldest packet on its way to it; -1 for none

vars == <<sinceSend, waited, sinceBeat, silence, flight>>

Init ==
    /\ sinceSend = 0
    /\ waited = 0
    /\ sinceBeat = 0
    /\ silence = 0
    /\ flight = -1

\* A send while another is on its way arrives with it.
Sent == flight' = IF flight = -1 THEN 0 ELSE flight

\* Fault: select() returns late.
TickOverslept ==
    /\ waited <= Select
    /\ flight < Latency
    /\ sinceSend' = sinceSend + 1
    /\ waited' = waited + 1
    /\ sinceBeat' = IF sinceBeat < Period THEN sinceBeat + 1 ELSE Period
    /\ silence' = silence + 1
    /\ flight' = IF flight = -1 THEN -1 ELSE flight + 1

Tick ==
    /\ waited < Select
    /\ flight < Latency
    /\ sinceSend' = sinceSend + 1
    /\ waited' = waited + 1
    /\ sinceBeat' = IF sinceBeat < Period THEN sinceBeat + 1 ELSE Period
    /\ silence' = silence + 1
    /\ flight' = IF flight = -1 THEN -1 ELSE flight + 1

\* Fault: the comparison with the interval is strict.
TimeoutStrict ==
    /\ waited = Select
    /\ waited' = 0
    /\ \/ sinceSend > Interval /\ sinceSend' = 0 /\ Sent
       \/ sinceSend <= Interval /\ UNCHANGED <<sinceSend, flight>>
    /\ UNCHANGED <<sinceBeat, silence>>

\* select() times out: send a keepalive if one is due.
SelectTimesOut ==
    /\ waited = Select
    /\ waited' = 0
    /\ \/ /\ sinceSend >= Interval
          /\ sinceSend' = 0
          /\ Sent
       \/ /\ sinceSend < Interval
          /\ UNCHANGED <<sinceSend, flight>>
    /\ UNCHANGED <<sinceBeat, silence>>

\* Fault: a heartbeat counts as traffic, as if it had been answered.
HeartbeatResetsSend ==
    /\ sinceBeat >= Period - Latency
    /\ sinceBeat' = 0
    /\ sinceSend' = 0
    /\ waited' = 0
    /\ UNCHANGED <<silence, flight>>

\* The heartbeat thread sleeps at least Period between two heartbeats; the
\* server handles one without answering and goes back to select().
HeartbeatArrives ==
    /\ sinceBeat >= Period - Latency
    /\ sinceBeat' = 0
    /\ waited' = 0
    /\ UNCHANGED <<sinceSend, silence, flight>>

\* Any other packet of the aircraft is answered.
CommandArrives ==
    /\ sinceSend' = 0
    /\ waited' = 0
    /\ Sent
    /\ UNCHANGED <<sinceBeat, silence>>

\* The receiver thread reads what was on its way.
Delivered ==
    /\ flight # -1
    /\ silence' = 0
    /\ flight' = -1
    /\ UNCHANGED <<sinceSend, waited, sinceBeat>>

Next == \/ Tick \/ SelectTimesOut \/ HeartbeatArrives \/ CommandArrives
        \/ Delivered

Spec == Init /\ [][Next]_vars

-----------------------------------------------------------------------------
\* The types of the variables; select() is never overslept.
TypeOK ==
    /\ sinceSend \in Nat
    /\ waited \in 0 .. Select
    /\ sinceBeat \in 0 .. Period
    /\ silence \in Nat
    /\ flight \in -1 .. Latency

\* main.c:44-46: the keepalive keeps the receiver thread of an idle but
\* healthy connection from declaring it lost.
NoFalseAlarm == silence < ReadTimeout

\* The longest the server can stay silent: its last look at the clock came
\* just before the keepalive was due, the next select() ended in a heartbeat,
\* and the one after that ran its full time.
SilenceBound == sinceSend < Interval + 2 * Select
=============================================================================
