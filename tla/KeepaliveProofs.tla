--------------------------- MODULE KeepaliveProofs ---------------------------
(***************************************************************************)
(* Theorems about Keepalive, for all intervals: how long the server can    *)
(* stay silent, and when the receiver thread raises no false alarm.        *)
(***************************************************************************)
EXTENDS Keepalive, TLAPS

\* The longest the server stays silent.
Bound == Interval + 2 * Select

\* Either the present select() began before the keepalive was due, or it
\* began with the arrival of a heartbeat, and then no other can interrupt it.
DueInv ==
    /\ waited <= sinceSend
    /\ \/ sinceSend - waited < Interval
       \/ sinceBeat = waited /\ sinceSend - waited < Interval + Select

\* What the receiver has not heard for, the server has not sent for, save
\* for a packet on its way.
SilenceInv ==
    /\ flight = -1 => silence <= sinceSend
    /\ flight # -1 => silence < flight + Bound

IInv == TypeOK /\ DueInv /\ SilenceInv

\* In the invariant the silence of the server is bounded.
LEMMA InvBound == IInv => sinceSend < Bound
BY TimesAssumption DEF IInv, TypeOK, DueInv, Bound

\* Every step keeps the inductive invariant.
LEMMA InductiveStep == IInv /\ [Next]_vars => IInv'
<1> SUFFICES ASSUME IInv, [Next]_vars PROVE IInv'
  OBVIOUS
<1> USE TimesAssumption, HeartbeatAssumption
<1>1. TypeOK /\ DueInv /\ SilenceInv /\ sinceSend < Bound
  BY InvBound DEF IInv
<1>2. CASE Tick
  <2>1. TypeOK'
    BY <1>1, <1>2 DEF TypeOK, Tick
  <2>2. DueInv'
    BY <1>1, <1>2 DEF TypeOK, DueInv, Tick
  <2>3. SilenceInv'
    BY <1>1, <1>2 DEF TypeOK, SilenceInv, Tick, Bound
  <2>4. QED
    BY <2>1, <2>2, <2>3 DEF IInv
<1>3. CASE SelectTimesOut
  <2>1. TypeOK'
    BY <1>1, <1>3 DEF TypeOK, SelectTimesOut, Sent
  <2>2. DueInv'
    BY <1>1, <1>3 DEF TypeOK, DueInv, SelectTimesOut
  <2>3. SilenceInv'
    BY <1>1, <1>3 DEF TypeOK, SilenceInv, SelectTimesOut, Sent, Bound
  <2>4. QED
    BY <2>1, <2>2, <2>3 DEF IInv
<1>4. CASE HeartbeatArrives
  <2>1. TypeOK'
    BY <1>1, <1>4 DEF TypeOK, HeartbeatArrives
  <2>2. DueInv'
    \* Another heartbeat was at least Period - Latency ago, longer than select().
    BY <1>1, <1>4 DEF TypeOK, DueInv, HeartbeatArrives
  <2>3. SilenceInv'
    BY <1>1, <1>4 DEF SilenceInv, HeartbeatArrives
  <2>4. QED
    BY <2>1, <2>2, <2>3 DEF IInv
<1>5. CASE CommandArrives
  <2>1. TypeOK'
    BY <1>1, <1>5 DEF TypeOK, CommandArrives, Sent
  <2>2. DueInv'
    BY <1>1, <1>5 DEF TypeOK, DueInv, CommandArrives
  <2>3. SilenceInv'
    BY <1>1, <1>5 DEF TypeOK, SilenceInv, CommandArrives, Sent, Bound
  <2>4. QED
    BY <2>1, <2>2, <2>3 DEF IInv
<1>6. CASE Delivered
  BY <1>1, <1>6 DEF IInv, TypeOK, DueInv, SilenceInv, Delivered
<1>7. CASE UNCHANGED vars
  BY <1>1, <1>7 DEF IInv, TypeOK, DueInv, SilenceInv, vars
<1>8. QED
  BY <1>2, <1>3, <1>4, <1>5, <1>6, <1>7 DEF Next

\* The inductive invariant holds throughout.
LEMMA Invariance == Spec => []IInv
<1>1. Init => IInv
  BY TimesAssumption DEF Init, IInv, TypeOK, DueInv, SilenceInv, Bound
<1>2. QED
  BY <1>1, InductiveStep, PTL DEF Spec

\* The clocks keep their ranges (TypeOK): no select() is overslept, and no
\* packet is under way for longer than the latency.
THEOREM ClocksInRange == Spec => []TypeOK
<1>1. IInv => TypeOK
  BY DEF IInv
<1>2. QED
  BY <1>1, Invariance, PTL

\* The server never stays silent for longer than the keepalive interval and
\* two rounds of select() (SilenceBound), whatever the constants.
THEOREM SilenceIsBounded == Spec => []SilenceBound
<1>1. IInv => SilenceBound
  BY InvBound DEF SilenceBound, Bound
<1>2. QED
  BY <1>1, Invariance, PTL

\* The receiver thread raises no false alarm (NoFalseAlarm) if its read
\* timeout covers the longest silence of the server and the latency.  With
\* the code's 8 s, 1 s and 10 s this leaves no latency at all.
THEOREM ReceiverNotMisled ==
    ASSUME Interval + 2 * Select + Latency <= ReadTimeout
    PROVE  Spec => []NoFalseAlarm
<1>1. IInv => NoFalseAlarm
  BY InvBound, TimesAssumption
     DEF IInv, TypeOK, SilenceInv, NoFalseAlarm, Bound
<1>2. QED
  BY <1>1, Invariance, PTL
=============================================================================
