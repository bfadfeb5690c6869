---------------------------- MODULE ATCCommsProofs ----------------------------
(***************************************************************************)
(* Theorems about ATCComms, for every set of menu options, every bound and *)
(* any origin ids: the handoff buffer never holds more than one packet,    *)
(* neither side's phase runs ahead of the pilot's reports, and the ground  *)
(* controller handles the pilot's packets in order and none twice.         *)
(***************************************************************************)
EXTENDS ATCComms, TLAPS

\* A step of the server, or of the network.
GroundStep == ServerActs \/ WeatherSent \/ PathLost
                \/ \E k \in {"D", "other"} : ControllerPresses(k)

\* The ground and the network leave the client's own variables alone.
LEMMA GroundFrame ==
    ASSUME GroundStep
    PROVE  UNCHANGED clientSide
<1>1. Accepts => UNCHANGED clientSide
  BY DEF Accepts
<1>2. ServerWaits => UNCHANGED clientSide
  BY DEF ServerWaits, Replies
<1>3. ASSUME NEW p, ServerHandles(p) PROVE UNCHANGED clientSide
  BY <1>3 DEF ServerHandles, Replies
<1>4. WeatherSent => UNCHANGED clientSide
  BY DEF WeatherSent, Replies
<1>5. PathLost => UNCHANGED clientSide
  BY DEF PathLost
<1>6. ASSUME NEW k, ControllerPresses(k) PROVE UNCHANGED clientSide
  BY <1>6 DEF ControllerPresses
<1>7. QED
  BY <1>1, <1>2, <1>3, <1>4, <1>5, <1>6 DEF GroundStep, ServerActs

-----------------------------------------------------------------------------
(* The handoff buffer.                                                     *)

\* The menu waits for input, and for telemetry, only with an empty buffer.
BInv ==
    /\ buffer = <<>> \/ buffer = <<buffer[1]>>
    /\ main \in {"prompt"} \cup Composing => buffer = <<>>
    /\ main = "menu" /\ alive => buffer = <<>>

\* A report is sent from the end of its telemetry prompts.
LEMMA ReportsComposed ==
    ASSUME NEW option \in Options, option \in Reportable
    PROVE  OptionType[option] \in Composing
BY CommsAssumption DEF Reportable, MenuOptions, OptionType, Composing

\* No step puts a second packet in the buffer.
LEMMA BufferStep ==
    ASSUME BInv, [Next]_vars
    PROVE  BInv'
<1>1. CASE GroundStep \/ UNCHANGED vars
  BY <1>1, GroundFrame DEF BInv, clientSide, vars
<1>2. CASE Connects
  BY <1>2 DEF Connects, BInv, Composing
<1>3. CASE Exits
  BY <1>3 DEF Exits, BInv, Composing
<1>4. CASE Registers \/ Greeted
  BY <1>4 DEF Registers, Greeted, BInv, Composing
<1>5. CASE Flush
  <2>1. CASE buffer # <<>> /\ buffer' = Tail(buffer) /\ UNCHANGED <<main, alive>>
    <3>1. Tail(<<buffer[1]>>) = <<>>
      OBVIOUS
    <3>2. QED
      BY <2>1, <3>1 DEF BInv
  <2>2. CASE buffer = <<>> /\ UNCHANGED buffer
    BY <2>2 DEF BInv
  <2>3. QED
    BY <1>5, <2>1, <2>2 DEF Flush
<1>6. CASE Menu \/ Mistypes
  BY <1>6 DEF Menu, Mistypes, BInv, Composing
<1>10. ASSUME NEW option \in Options, Chooses(option) PROVE BInv'
  BY <1>10 DEF Chooses, BInv
<1>7. ASSUME NEW option \in Options, Reports(option) PROVE BInv'
  <2>1. buffer = <<>> /\ main' = "menu" /\ main' \notin {"prompt"} \cup Composing
    <3>1. main \in Composing /\ main' = "menu"
      BY <1>7, ReportsComposed DEF Reports
    <3>2. QED
      BY <3>1 DEF BInv, Composing
  <2>2. CASE UNCHANGED <<buffer, alive>>
    BY <2>1, <2>2 DEF BInv
  <2>3. CASE /\ buffer' = Append(buffer, Buffered(Command(option, Len(sent) + 1)))
             /\ alive' = FALSE
    <3>1. \A p : Append(<<>>, p) = <<p>> /\ <<p>>[1] = p
      OBVIOUS
    <3>2. QED
      BY <2>1, <2>3, <3>1 DEF BInv
  <2>4. QED
    BY <1>7, <2>2, <2>3 DEF Reports
<1>8. ASSUME NEW option \in Options, Leaves(option) PROVE BInv'
  BY <1>8 DEF Leaves, BInv, Composing
<1>9. CASE ReceiverReads \/ ReceiverEnds \/ HeartbeatSent \/ HeartbeatFails
  BY <1>9 DEF ReceiverReads, ReceiverEnds, HeartbeatSent, HeartbeatFails,
              ThreadFrame, BInv
<1>11. QED
  BY <1>1, <1>2, <1>3, <1>4, <1>5, <1>6, <1>7, <1>8, <1>9, <1>10
  DEF Next, GroundStep, MainActs, GivesUp, RegisterFails, GreetFails

\* BufferAtMostOne: a failing send ends the session before another packet can
\* be buffered, and the buffer is drained before the menu opens.
THEOREM BufferHoldsOne == Spec => []BufferAtMostOne
<1>1. Init => BInv
  BY DEF Init, BInv
<1>2. BInv => BufferAtMostOne
  <2> SUFFICES ASSUME BInv PROVE BufferAtMostOne
    OBVIOUS
  <2>1. CASE buffer = <<>>
    BY <2>1 DEF BufferAtMostOne
  <2>2. CASE buffer = <<buffer[1]>>
    <3>1. Len(<<buffer[1]>>) <= 1
      OBVIOUS
    <3>2. Len(buffer) <= 1
      BY <2>2, <3>1
    <3>3. QED
      BY <3>2 DEF BInv, BufferAtMostOne, InMenu
  <2>3. QED
    BY <2>1, <2>2 DEF BInv
<1>3. QED
  BY <1>1, <1>2, BufferStep, PTL DEF Spec

-----------------------------------------------------------------------------
(* What a step of the server does to its input, its state and its answers. *)

\* A flight phase is entered on the report of it, or on a handshake that
\* declares it.
EnteredBy(p, s) ==
    /\ s = "TAKEOFF" => state = "TAKEOFF" \/ p.type = "TAKEOFF"
    /\ s = "TRANSIT" => \/ state = "TRANSIT" \/ p.type = "TRANSIT"
                        \/ p.type = "HANDSHAKE" /\ p.arg = 2
    /\ s = "LANDING" => \/ state = "LANDING" \/ p.type = "LANDING"
                        \/ p.type = "HANDSHAKE" /\ p.arg = 3

\* A clearance answers a report of its phase.
AnsweredBy(p, replies) ==
    \/ replies \in {<<>>, <<"ack">>, <<"error">>}
    \/ replies = <<"departure">> /\ p.type = "TAKEOFF"
    \/ replies \in {<<"cleared">>, <<"not_cleared">>} /\ p.type = "LANDING"

\* The packet is the one at the head of the input; it is taken off it, or the
\* session ends.
HandleShape(p) ==
    /\ inbox # <<>> /\ p = Head(inbox).pkt
    /\ \/ pc = "select" /\ ~Server!HasPayload(p)
       \/ pc = "payload" /\ held = p
    /\ \/ /\ inbox' = Tail(inbox) /\ link' = link
          /\ pc' \in {"keys", "send"} /\ verified' \in {verified, TRUE}
       \/ inbox' = <<>> /\ pc' = "accept" /\ state' = "IDLE"

\* Every handler has these effects.
LEMMA HandleEffect ==
    ASSUME NEW p \in Server!Arriving, Server!Handle(p)
    PROVE  HandleShape(p) /\ EnteredBy(p, state') /\ AnsweredBy(p, out')
<1>1. inbox # <<>> /\ p = Head(inbox).pkt
  BY DEF Server!Arriving
<1>2. ASSUME NEW s, NEW v \in {verified, TRUE}, NEW r, Server!Received(p),
             EnteredBy(p, s), AnsweredBy(p, r), pc' \in {"keys", "send"},
             Server!Consume(p, s, v, r)
      PROVE  HandleShape(p) /\ EnteredBy(p, state') /\ AnsweredBy(p, out')
  BY <1>1, <1>2 DEF HandleShape, Server!Received, Server!Consume
<1>3. ASSUME NEW s, NEW walked, NEW d, Server!Received(p),
             Server!EndSession(s, walked, <<"ack">>, d)
      PROVE  HandleShape(p) /\ EnteredBy(p, state') /\ AnsweredBy(p, out')
  BY <1>1, <1>3 DEF HandleShape, EnteredBy, AnsweredBy, Server!Received,
                    Server!EndSession
<1>4. EnteredBy(p, state) /\ EnteredBy(p, "MAYDAY") /\ EnteredBy(p, "HANDSHAKE")
  BY DEF EnteredBy
<1>5. /\ AnsweredBy(p, <<>>) /\ AnsweredBy(p, <<"ack">>) /\ AnsweredBy(p, <<"error">>)
  BY DEF AnsweredBy
<1> DEFINE Goal == HandleShape(p) /\ EnteredBy(p, state') /\ AnsweredBy(p, out')
<1>6. ASSUME Server!Received(p), Server!Reject(p) PROVE Goal
  BY <1>2, <1>4, <1>5, <1>6 DEF Server!Reject, Server!Proceed
<1>7. ASSUME NEW s, NEW r, Server!Received(p), EnteredBy(p, s), AnsweredBy(p, <<r>>),
             Server!Grant(p, s, r)
      PROVE  Goal
  BY <1>2, <1>7 DEF Server!Grant, Server!Proceed
<1>8. CASE Server!HandleEmergency(p)
  BY <1>4, <1>5, <1>7, <1>8 DEF Server!HandleEmergency
<1>9. CASE Server!HandleBuffered(p)
  BY <1>4, <1>5, <1>7, <1>9 DEF Server!HandleBuffered
<1>10. CASE Server!HandleGated(p)
  BY <1>6, <1>10 DEF Server!HandleGated
<1>11. CASE Server!HandleHandshake(p)
  <2>1. p.type = "HANDSHAKE" /\ Server!Received(p)
    BY <1>11 DEF Server!HandleHandshake, Server!Dispatched
  <2>2. EnteredBy(p, Server!InitialState(p))
    BY <2>1 DEF EnteredBy, Server!InitialState
  <2>3. ASSUME Server!Proceed(p, Server!InitialState(p), TRUE, <<"ack">>) PROVE Goal
    BY <1>2, <1>5, <2>1, <2>2, <2>3 DEF Server!Proceed
  <2>4. QED
    BY <1>6, <1>11, <2>1, <2>3 DEF Server!HandleHandshake
<1>12. CASE Server!HandleTakeoff(p)
  <2>1. p.type = "TAKEOFF" /\ Server!Received(p)
    BY <1>12 DEF Server!HandleTakeoff, Server!Dispatched
  <2>2. EnteredBy(p, "TAKEOFF") /\ AnsweredBy(p, <<"departure">>)
    BY <2>1 DEF EnteredBy, AnsweredBy
  <2>3. QED
    BY <1>6, <1>7, <1>12, <2>1, <2>2 DEF Server!HandleTakeoff
<1>13. CASE Server!HandleTransit(p)
  <2>1. p.type = "TRANSIT" /\ Server!Received(p)
    BY <1>13 DEF Server!HandleTransit, Server!Dispatched
  <2>2. EnteredBy(p, "TRANSIT")
    BY <2>1 DEF EnteredBy
  <2>3. QED
    BY <1>5, <1>6, <1>7, <1>13, <2>1, <2>2 DEF Server!HandleTransit
<1>14. CASE Server!HandleLanding(p)
  <2>1. p.type = "LANDING" /\ Server!Received(p)
    BY <1>14 DEF Server!HandleLanding, Server!Dispatched
  <2>2. /\ EnteredBy(p, "LANDING")
        /\ AnsweredBy(p, <<"cleared">>) /\ AnsweredBy(p, <<"not_cleared">>)
    BY <2>1 DEF EnteredBy, AnsweredBy
  <2>3. QED
    BY <1>6, <1>7, <1>14, <2>1, <2>2 DEF Server!HandleLanding
<1>15. CASE Server!HandleMayday(p)
  <2>1. Server!Received(p)
    BY <1>15 DEF Server!HandleMayday, Server!Dispatched
  <2>2. QED
    BY <1>4, <1>5, <1>6, <1>7, <1>15, <2>1 DEF Server!HandleMayday
<1>16. CASE Server!HandleLargeDataRequest(p)
  BY <1>2, <1>4, <1>5, <1>16 DEF Server!HandleLargeDataRequest, Server!Dispatched
<1>17. CASE Server!HandleHandoffNotify(p) \/ Server!HandleDisconnect(p)
  BY <1>3, <1>17 DEF Server!HandleHandoffNotify, Server!HandleDisconnect,
                     Server!Dispatched
<1>18. CASE Server!HandleAck(p)
  BY <1>2, <1>4, <1>5, <1>18 DEF Server!HandleAck, Server!Proceed, Server!Dispatched
<1>19. CASE Server!HandleUnknown(p)
  BY <1>6, <1>19 DEF Server!HandleUnknown, Server!Dispatched
<1>20. QED
  BY <1>8, <1>9, <1>10, <1>11, <1>12, <1>13, <1>14, <1>15, <1>16, <1>17, <1>18,
     <1>19 DEF Server!Handle

\* So have the steps of the loop around the handlers: the input stays, loses
\* its head, or is dropped with the session.
LEMMA LoopEffect ==
    ASSUME ServerWaits \/ WeatherSent
    PROVE  /\ \/ /\ UNCHANGED <<inbox, state, verified, link>>
                 /\ {pc, pc'} \subseteq {"keys", "select", "send"}
              \/ /\ inbox # <<>> /\ inbox' = Tail(inbox) /\ UNCHANGED <<state, verified, link>>
                 /\ pc = "select" /\ pc' = "payload" /\ held' = Head(inbox).pkt
              \/ inbox' = <<>> /\ state' = "IDLE" /\ pc' = "accept"
           /\ out' \in {<<>>, <<"ack0">>, <<"keepalive">>, <<"weather">>}
           /\ UNCHANGED handled /\ Replies
<1>1. /\ \/ Server!ControllerDisconnects \/ Server!NoDisconnectKey
         \/ Server!SelectTimesOut \/ Server!KeepaliveFails
         \/ Server!RecvFails \/ Server!RecvHeader
         \/ Server!LargeDataFails \/ Server!LargeDataSent
      /\ UNCHANGED handled /\ Replies
  BY DEF ServerWaits, WeatherSent
<1>2. CASE Server!ControllerDisconnects \/ Server!KeepaliveFails \/ Server!RecvFails
  BY <1>1, <1>2 DEF Server!ControllerDisconnects, Server!KeepaliveFails,
                    Server!RecvFails, Server!EndSession
<1>3. CASE Server!NoDisconnectKey
  BY <1>1, <1>3 DEF Server!NoDisconnectKey
<1>4. CASE Server!SelectTimesOut
  BY <1>1, <1>4 DEF Server!SelectTimesOut
<1>5. CASE Server!RecvHeader
  BY <1>1, <1>5 DEF Server!RecvHeader
<1>6. CASE Server!LargeDataFails \/ Server!LargeDataSent
  BY <1>1, <1>6 DEF Server!LargeDataFails, Server!LargeDataSent, Server!LargeDataEnds
<1>7. QED
  BY <1>1, <1>2, <1>3, <1>4, <1>5, <1>6

-----------------------------------------------------------------------------
(* The connections.                                                        *)

\* The client's present connection waits in the backlog or is served.
LInv ==
    /\ backlog = <<>> \/ backlog = <<backlog[1]>>
    /\ line = "queued" => backlog # <<>>
    /\ line = "open" => backlog = <<>>

\* The connections keep this shape.
LEMMA LineStep ==
    ASSUME LInv, [Next]_vars
    PROVE  LInv'
<1>1. \A x : <<x>> # <<>> /\ <<x>> = <<(<<x>>[1])>>
  OBVIOUS
<1>2. CASE UNCHANGED <<line, backlog>>
  BY <1>2 DEF LInv
<1>3. CASE Accepts
  BY <1>3 DEF Accepts, LInv
<1>4. ASSUME Replies PROVE LInv'
  BY <1>4 DEF Replies, LInv
<1>5. CASE ServerWaits \/ WeatherSent \/ \E p \in Server!Arriving : ServerHandles(p)
  BY <1>4, <1>5 DEF ServerWaits, WeatherSent, ServerHandles
<1>6. CASE PathLost
  BY <1>1, <1>6 DEF PathLost, LInv
<1>7. CASE Exits
  <2>1. line' = "none" /\ (backlog = <<>> => backlog' = <<>>)
    BY <1>7 DEF Exits
  <2>2. backlog = <<backlog[1]>> => backlog' = <<backlog'[1]>>
    <3>1. ASSUME NEW x, NEW f(_), backlog = <<x>>,
                 backlog' = [i \in DOMAIN backlog |-> f(i)]
          PROVE  backlog' = <<f(1)>>
      BY <3>1
    <3>2. QED
      BY <1>7, <3>1 DEF Exits
  <2>3. QED
    BY <2>1, <2>2 DEF LInv
<1>8. CASE Connects
  BY <1>1, <1>8 DEF Connects, LInv
<1>9. ASSUME NEW p, SendSucceeds(p) \/ SendFails, UNCHANGED line
      PROVE  LInv'
  BY <1>1, <1>9 DEF SendSucceeds, SendFails, LInv
<1>10. CASE Registers \/ Flush
  BY <1>2, <1>9, <1>10 DEF Registers, Flush
<1>11. CASE \E option \in Options : Reports(option) \/ Leaves(option)
  BY <1>9, <1>11 DEF Reports, Leaves
<1>12. CASE Greeted \/ Menu \/ Mistypes \/ \E option \in Options : Chooses(option)
  BY <1>2, <1>12 DEF Greeted, Menu, Mistypes, Chooses
<1>13. CASE ReceiverReads \/ ReceiverEnds \/ HeartbeatSent \/ HeartbeatFails
  BY <1>2, <1>13 DEF ReceiverReads, ReceiverEnds, HeartbeatSent, HeartbeatFails,
                     ThreadFrame
<1>14. CASE \E k \in {"D", "other"} : ControllerPresses(k)
  BY <1>2, <1>14 DEF ControllerPresses
<1>15. CASE UNCHANGED vars
  BY <1>2, <1>15 DEF vars
<1>16. QED
  BY <1>3, <1>5, <1>6, <1>7, <1>8, <1>10, <1>11, <1>12, <1>13, <1>14, <1>15
  DEF Next, ServerActs, MainActs, GivesUp, RegisterFails, GreetFails

-----------------------------------------------------------------------------
(* Neither side runs ahead of the pilot.                                   *)

\* The packet, unless it is a heartbeat, is the one that was given its number.
Genuine(p) ==
    p.type = "ACK" \/ (p.seq \in DOMAIN sent /\ p.type = TypeSent(sent[p.seq]))

\* The pilot has reported what the packet says.
Told(p) ==
    /\ Genuine(p)
    /\ p.type = "TAKEOFF" => Reported(TakeoffReports)
    /\ p.type = "TRANSIT" => Reported({"transit"})
    /\ p.type = "LANDING" => Reported(LandingReports)
    /\ p.type = "HANDSHAKE" /\ p.arg = 2 => Reported(AirborneReports)
    /\ p.type = "HANDSHAKE" /\ p.arg = 3 => Reported(LandingReports)

\* The clearance answers something the pilot has reported.
ToldReply(r) ==
    /\ r = "departure" => Reported(TakeoffReports)
    /\ r \in {"cleared", "not_cleared"} => Reported(LandingReports)

ToldPackets == {p \in Packets : Told(p)}
ToldChunks == {c \in Server!Chunks : Told(c.pkt)}
ToldReplies == {r \in Server!ReplyKinds : ToldReply(r)}
Queued(chunks) == [link : {"open", "closed", "broken"}, chunks : Seq(chunks)]

\* Whatever is on its way says what the pilot has reported.
NInv ==
    /\ sent \in Seq(MenuOptions \cup {"handshake"})
    /\ phase_state \in {0, 2, 3}
    /\ inbox \in Seq(ToldChunks)
    /\ backlog \in Seq(Queued(ToldChunks))
    /\ buffer \in Seq(ToldPackets)
    /\ chan \in Seq(ToldReplies)
    /\ NeitherAhead

\* A sequence over a set is one over a larger set.
LEMMA SeqMonotone ==
    ASSUME NEW S, NEW T, S \subseteq T, NEW s \in Seq(S)
    PROVE  s \in Seq(T)
OBVIOUS

\* What is left of a sequence, and what two make, is over the same set.
LEMMA SeqParts ==
    ASSUME NEW S, NEW s \in Seq(S), NEW t \in Seq(S)
    PROVE  /\ s \o t \in Seq(S) /\ <<>> \in Seq(S)
           /\ s # <<>> => Tail(s) \in Seq(S) /\ s[1] \in S /\ Head(s) = s[1]
           /\ \A n \in 0 .. Len(s) : SubSeq(s, 1, n) \in Seq(S)
OBVIOUS

\* What has been given stays given, and what has been reported, reported.
Kept ==
    /\ \A n \in DOMAIN sent : n \in DOMAIN sent' /\ sent'[n] = sent[n]
    /\ \A S : Reported(S) => Reported(S)'

\* A packet given is added to those given before.
LEMMA ReportedGrows ==
    ASSUME NInv, NEW o \in MenuOptions \cup {"handshake"}, sent' = Append(sent, o)
    PROVE  /\ sent' \in Seq(MenuOptions \cup {"handshake"})
           /\ Kept
           /\ \A S : o \in S => Reported(S)'
           /\ Len(sent) + 1 \in DOMAIN sent' /\ sent'[Len(sent) + 1] = o
<1>1. /\ sent \in Seq(MenuOptions \cup {"handshake"}) /\ Len(sent) \in Nat
      /\ sent' \in Seq(MenuOptions \cup {"handshake"})
      /\ DOMAIN sent = 1 .. Len(sent) /\ DOMAIN sent' = 1 .. Len(sent) + 1
      /\ \A n \in DOMAIN sent : sent'[n] = sent[n]
      /\ sent'[Len(sent) + 1] = o
  BY DEF NInv
<1>2. DOMAIN sent \subseteq DOMAIN sent' /\ Len(sent) + 1 \in DOMAIN sent'
  BY <1>1
<1>3. ASSUME NEW S, Reported(S) PROVE Reported(S)'
  <2>1. PICK n \in DOMAIN sent : sent[n] \in S
    BY <1>3 DEF Reported
  <2>2. n \in DOMAIN sent' /\ sent'[n] \in S
    BY <1>1, <1>2, <2>1
  <2>3. QED
    BY <2>2 DEF Reported
<1>4. ASSUME NEW S, o \in S PROVE Reported(S)'
  BY <1>1, <1>2, <1>4 DEF Reported
<1>5. Kept
  BY <1>1, <1>2, <1>3 DEF Kept
<1>6. QED
  BY <1>1, <1>2, <1>4, <1>5

\* So whatever was on its way still says what the pilot has reported.
LEMMA ToldGrows ==
    ASSUME Kept
    PROVE  /\ ToldPackets \subseteq ToldPackets' /\ ToldChunks \subseteq ToldChunks'
           /\ ToldReplies \subseteq ToldReplies'
           /\ Seq(ToldChunks) \subseteq Seq(ToldChunks')
           /\ Seq(Queued(ToldChunks)) \subseteq Seq(Queued(ToldChunks'))
           /\ Seq(ToldReplies) \subseteq Seq(ToldReplies')
<1>1. \A p : Told(p) => Told(p)'
  <2>1. \A p : Genuine(p) => Genuine(p)'
    BY DEF Genuine, Kept
  <2>2. QED
    BY <2>1 DEF Told, Kept
<1>2. ToldChunks \subseteq ToldChunks' /\ ToldPackets \subseteq ToldPackets'
  BY <1>1 DEF ToldChunks, ToldPackets
<1>3. ToldReplies \subseteq ToldReplies'
  BY DEF ToldReplies, ToldReply, Kept
<1>4. Seq(ToldChunks) \subseteq Seq(ToldChunks')
  BY <1>2, SeqMonotone
<1>5. Queued(ToldChunks) \subseteq Queued(ToldChunks')
  BY <1>4 DEF Queued
<1>6. QED
  BY <1>2, <1>3, <1>4, <1>5, SeqMonotone

\* A send of a packet that says what has been reported, or its failure.
LEMMA SendTold ==
    ASSUME NInv, LInv, NEW p \in ToldPackets', SendSucceeds(p) \/ SendFails,
           Kept
    PROVE  inbox' \in Seq(ToldChunks') /\ backlog' \in Seq(Queued(ToldChunks'))
<1>1. /\ inbox \in Seq(ToldChunks') /\ backlog \in Seq(Queued(ToldChunks'))
  BY ToldGrows DEF NInv
<1>2. Chunks(p) \in Seq(ToldChunks')
  <2>1. p \in Packets /\ Told(p)'
    BY DEF ToldPackets
  <2>2. Server!Header(p) \in ToldChunks' /\ Server!Payload(p) \in ToldChunks'
    BY <2>1 DEF ToldChunks, Server!Chunks, Server!Header, Server!Payload
  <2>3. QED
    BY <2>2 DEF Chunks
<1>3. CASE UNCHANGED backlog /\ (UNCHANGED inbox \/ inbox' = inbox \o Chunks(p))
  <2>1. inbox \o Chunks(p) \in Seq(ToldChunks')
    BY <1>1, <1>2, SeqParts
  <2>2. QED
    BY <1>1, <1>3, <2>1
<1>4. CASE /\ line = "queued" /\ UNCHANGED inbox
           /\ backlog' = <<[backlog[1] EXCEPT !.chunks = @ \o Chunks(p)]>>
  <2>1. backlog # <<>> /\ backlog[1] \in Queued(ToldChunks')
    BY <1>1, <1>4 DEF LInv
  <2>2. backlog[1].chunks \o Chunks(p) \in Seq(ToldChunks')
    BY <1>2, <2>1 DEF Queued
  <2>3. [backlog[1] EXCEPT !.chunks = @ \o Chunks(p)] \in Queued(ToldChunks')
    BY <2>1, <2>2 DEF Queued
  <2>4. QED
    BY <1>1, <1>4, <2>3
<1>5. QED
  BY <1>3, <1>4 DEF SendSucceeds, SendFails

\* A step that sends nothing new and moves no phase keeps NInv.
LEMMA ToldKeeps ==
    ASSUME NInv, UNCHANGED <<sent, main, phase_state, buffer>>,
           inbox' \in Seq(ToldChunks), backlog' \in Seq(Queued(ToldChunks)),
           chan' \in Seq(ToldReplies),
           state' = "TAKEOFF" => Reported(TakeoffReports),
           state' = "TRANSIT" => Reported(AirborneReports),
           state' = "LANDING" => Reported(LandingReports)
    PROVE  NInv'
<1>1. \A S : Reported(S)' <=> Reported(S)
  BY DEF Reported
<1>2. /\ ToldPackets' = ToldPackets /\ ToldChunks' = ToldChunks
      /\ ToldReplies' = ToldReplies
  BY <1>1 DEF ToldPackets, ToldChunks, ToldReplies, Told, Genuine, ToldReply
<1>3. NeitherAhead'
  BY <1>1 DEF NInv, NeitherAhead, AirborneReports
<1>4. QED
  BY <1>2, <1>3 DEF NInv

\* The server's answers go down the present connection, or nowhere.
LEMMA RepliesTold ==
    ASSUME NInv, Replies, out' \in Seq(ToldReplies)
    PROVE  chan' \in Seq(ToldReplies)
<1>1. chan \in Seq(ToldReplies) /\ <<>> \in Seq(ToldReplies)
      /\ chan \o out' \in Seq(ToldReplies)
  BY DEF NInv
<1>2. chan' \in {chan, chan \o out', <<>>}
  BY DEF Replies
<1>3. QED
  BY <1>1, <1>2

\* Handling a packet enters no phase that has not been reported.
LEMMA HandlesTold ==
    ASSUME NInv, NEW p \in Server!Arriving, ServerHandles(p)
    PROVE  NInv'
<1>1. /\ HandleShape(p) /\ EnteredBy(p, state') /\ AnsweredBy(p, out')
      /\ Replies
  BY HandleEffect DEF ServerHandles
<1>2. Told(p)
  <2>1. inbox # <<>> /\ p = Head(inbox).pkt /\ inbox \in Seq(ToldChunks)
    BY <1>1 DEF HandleShape, NInv
  <2>2. QED
    BY <2>1 DEF ToldChunks
<1>3. Reported({"transit"}) \/ Reported(LandingReports) => Reported(AirborneReports)
  BY DEF Reported, AirborneReports
<1>4. inbox' \in Seq(ToldChunks)
  BY <1>1, SeqParts DEF HandleShape, NInv
<1>5. chan' \in Seq(ToldReplies)
  <2>1. ASSUME NEW r \in {"ack", "error", "departure", "cleared", "not_cleared"},
               ToldReply(r)
        PROVE  <<r>> \in Seq(ToldReplies)
    BY <2>1 DEF ToldReplies, Server!ReplyKinds, Server!AnswerKinds
  <2>2. ToldReply("ack") /\ ToldReply("error")
    BY DEF ToldReply
  <2>3. p.type = "TAKEOFF" => ToldReply("departure")
    BY <1>2 DEF ToldReply, Told
  <2>4. p.type = "LANDING" => ToldReply("cleared") /\ ToldReply("not_cleared")
    BY <1>2 DEF ToldReply, Told
  <2>5. <<>> \in Seq(ToldReplies)
    OBVIOUS
  <2>6. out' \in Seq(ToldReplies)
    BY <1>1, <2>1, <2>2, <2>3, <2>4, <2>5 DEF AnsweredBy
  <2>7. QED
    BY <1>1, <2>6, RepliesTold
<1>6. /\ state' = "TAKEOFF" => Reported(TakeoffReports)
      /\ state' = "TRANSIT" => Reported(AirborneReports)
      /\ state' = "LANDING" => Reported(LandingReports)
  BY <1>1, <1>2, <1>3 DEF EnteredBy, Told, NInv, NeitherAhead, AirborneReports
<1>7. QED
  BY <1>1, <1>4, <1>5, <1>6, ToldKeeps DEF Replies, clientSide, NInv

\* Nor do the server's other steps, an accept, or the loss of the path.
LEMMA GroundTold ==
    ASSUME NInv, LInv, GroundStep
    PROVE  NInv'
<1>1. ASSUME NEW S, NEW s \in Seq(S), NEW t \in Prefixes(s) PROVE t \in Seq(S)
  BY DEF Prefixes
<1>2. /\ inbox \in Seq(ToldChunks) /\ backlog \in Seq(Queued(ToldChunks))
      /\ chan \in Seq(ToldReplies) /\ <<>> \in Seq(ToldChunks)
      /\ <<>> \in Seq(Queued(ToldChunks))
  BY DEF NInv
<1>3. /\ UNCHANGED clientSide
      /\ state = "TAKEOFF" => Reported(TakeoffReports)
      /\ state = "TRANSIT" => Reported(AirborneReports)
      /\ state = "LANDING" => Reported(LandingReports)
  BY GroundFrame DEF NInv, NeitherAhead, AirborneReports
<1>4. CASE Accepts
  <2>1. backlog # <<>> /\ backlog[1] \in Queued(ToldChunks)
        /\ inbox' = backlog[1].chunks /\ state' = "HANDSHAKE"
        /\ backlog' = <<>> /\ UNCHANGED chan
    BY <1>2, <1>4 DEF Accepts, Server!AcceptFrom
  <2>2. inbox' \in Seq(ToldChunks)
    BY <2>1 DEF Queued
  <2>3. QED
    BY <1>2, <1>3, <2>1, <2>2, ToldKeeps DEF clientSide
<1>5. CASE ServerWaits \/ WeatherSent
  <2>1. inbox' \in Seq(ToldChunks) /\ state' \in {state, "IDLE"}
        /\ out' \in {<<>>, <<"ack0">>, <<"keepalive">>, <<"weather">>} /\ Replies
    BY <1>2, <1>5, LoopEffect, SeqParts
  <2>2. out' \in Seq(ToldReplies)
    <3>1. {"ack0", "keepalive", "weather"} \subseteq ToldReplies
      BY DEF ToldReplies, ToldReply, Server!ReplyKinds, Server!AnswerKinds
    <3>2. <<>> \in Seq(ToldReplies) /\ \A r \in ToldReplies : <<r>> \in Seq(ToldReplies)
      OBVIOUS
    <3>3. QED
      BY <2>1, <3>1, <3>2
  <2>3. chan' \in Seq(ToldReplies) /\ UNCHANGED backlog
    BY <2>1, <2>2, RepliesTold DEF Replies
  <2>4. QED
    BY <1>2, <1>3, <2>1, <2>3, ToldKeeps DEF clientSide
<1>6. CASE PathLost
  <2>1. inbox' \in Seq(ToldChunks) /\ chan' \in Seq(ToldReplies)
        /\ UNCHANGED state
    BY <1>1, <1>2, <1>6 DEF PathLost, Server!Keeps, serverSide
  <2>2. CASE UNCHANGED backlog
    BY <1>2, <1>3, <2>1, <2>2, ToldKeeps DEF clientSide
  <2>3. ASSUME NEW kept \in Prefixes(backlog[1].chunks), line = "queued",
               backlog' = <<[link |-> "broken", chunks |-> kept]>>
        PROVE  NInv'
    <3>1. backlog # <<>> /\ backlog[1] \in Queued(ToldChunks)
      BY <1>2, <2>3, SeqParts DEF LInv
    <3>6. backlog[1].chunks \in Seq(ToldChunks)
      BY <3>1 DEF Queued
    <3>2. kept \in Seq(ToldChunks)
      BY <1>1, <2>3, <3>6
    <3>3. [link |-> "broken", chunks |-> kept] \in Queued(ToldChunks)
      BY <3>2 DEF Queued
    <3>4. backlog' \in Seq(Queued(ToldChunks))
      BY <2>3, <3>3
    <3>5. QED
      BY <1>3, <2>1, <3>4, ToldKeeps DEF clientSide
  <2>4. QED
    BY <1>6, <2>2, <2>3 DEF PathLost
<1>7. ASSUME NEW k, ControllerPresses(k) PROVE NInv'
  BY <1>2, <1>3, <1>7, ToldKeeps DEF ControllerPresses, Server!PressKey, clientSide,
     Server!serverVars
<1>8. QED
  BY <1>4, <1>5, <1>6, <1>7, HandlesTold DEF GroundStep, ServerActs

\* A step of the client that sends, buffers and moves no more than the pilot
\* has reported keeps NInv.
LEMMA ClientKeeps ==
    ASSUME NInv, UNCHANGED state,
           Kept,
           sent' \in Seq(MenuOptions \cup {"handshake"}),
           phase_state' \in {0, 2, 3},
           phase_state' = 2 => Reported(AirborneReports)' \/ main' = "TRANSIT",
           phase_state' = 3 => Reported(LandingReports)' \/ main' = "LANDING",
           inbox' \in Seq(ToldChunks'), backlog' \in Seq(Queued(ToldChunks')),
           buffer' \in Seq(ToldPackets'), chan' \in Seq(ToldReplies)
    PROVE  NInv'
<1>1. chan' \in Seq(ToldReplies')
  BY ToldGrows
<1>2. NeitherAhead'
  BY DEF NInv, NeitherAhead, AirborneReports, TakeoffReports, LandingReports, Kept
<1>3. QED
  BY <1>1, <1>2 DEF NInv

\* The client reports nothing but what the pilot told it, and no answer moves
\* its phase further.
LEMMA ClientTold ==
    ASSUME NInv, LInv, BInv,
           MainActs \/ GivesUp \/ ReceiverReads \/ ReceiverEnds
              \/ HeartbeatSent \/ HeartbeatFails
    PROVE  NInv'
<1>1. /\ inbox \in Seq(ToldChunks) /\ backlog \in Seq(Queued(ToldChunks))
      /\ chan \in Seq(ToldReplies) /\ buffer \in Seq(ToldPackets)
      /\ <<>> \in Seq(ToldReplies) /\ <<>> \in Seq(ToldPackets)
      /\ <<>> \in Seq(ToldChunks)
      /\ sent \in Seq(MenuOptions \cup {"handshake"}) /\ phase_state \in {0, 2, 3}
  BY DEF NInv
<1>2. /\ phase_state = 2 => Reported(AirborneReports) \/ main = "TRANSIT"
      /\ phase_state = 3 => Reported(LandingReports) \/ main = "LANDING"
  BY DEF NInv, NeitherAhead, AirborneReports
<1>3. ASSUME UNCHANGED sent
      PROVE  /\ \A S : Reported(S) <=> Reported(S)'
             /\ Kept
             /\ AirborneReports' = AirborneReports /\ LandingReports' = LandingReports
             /\ ToldPackets' = ToldPackets /\ ToldChunks' = ToldChunks
  <2>1. \A S : Reported(S) <=> Reported(S)'
    BY <1>3 DEF Reported
  <2>2. QED
    BY <1>3, <2>1 DEF ToldPackets, ToldChunks, Told, Genuine, Kept, AirborneReports,
                      TakeoffReports, LandingReports
\* Nothing is sent, and no telemetry is given up.
<1>4. ASSUME UNCHANGED <<sent, phase_state, state, buffer>>,
             main' = main \/ main \notin {"TRANSIT", "LANDING"},
             inbox' \in Seq(ToldChunks), backlog' \in Seq(Queued(ToldChunks)),
             chan' \in Seq(ToldReplies)
      PROVE  NInv'
  <2>1. /\ phase_state' = 2 => Reported(AirborneReports)' \/ main' = "TRANSIT"
        /\ phase_state' = 3 => Reported(LandingReports)' \/ main' = "LANDING"
    BY <1>2, <1>3, <1>4
  <2>2. QED
    BY <1>1, <1>3, <1>4, <2>1, ClientKeeps
<1>5. CASE Connects
  <2>1. [link |-> "open", chunks |-> <<>>] \in Queued(ToldChunks)
    BY DEF Queued
  <2>2. backlog' \in Seq(Queued(ToldChunks)) /\ chan' = <<>>
    BY <1>5, <2>1 DEF Connects
  <2>3. QED
    BY <1>1, <1>4, <1>5, <2>2 DEF Connects, SendFrame, serverSide
<1>6. CASE Exits /\ main \notin {"TRANSIT", "LANDING"}
  <2>1. \A b \in Queued(ToldChunks) :
           [b EXCEPT !.link = IF @ = "open" THEN "closed" ELSE @] \in Queued(ToldChunks)
    BY DEF Queued
  <2>2. backlog' \in Seq(Queued(ToldChunks))
    BY <1>1, <1>6, <2>1 DEF Exits
  <2>3. inbox' \in Seq(ToldChunks)
    BY <1>1, <1>6 DEF Exits, Server!Keeps
  <2>4. QED
    BY <1>1, <1>4, <1>6, <2>2, <2>3 DEF Exits, serverSide
<1>7. CASE Greeted \/ Menu \/ Mistypes
  <2>1. chan' \in {chan, Tail(chan)} /\ (chan' = Tail(chan) => chan # <<>> \/ chan' = chan)
    BY <1>7 DEF Greeted, Menu, Mistypes
  <2>2. chan' \in Seq(ToldReplies)
    BY <1>1, <2>1, SeqParts
  <2>3. /\ UNCHANGED <<sent, phase_state, state, buffer, inbox, backlog>>
        /\ main \notin {"TRANSIT", "LANDING"}
    BY <1>7 DEF Greeted, Menu, Mistypes, SendFrame, serverSide
  <2>4. QED
    BY <1>1, <1>4, <2>2, <2>3
<1>8. CASE Registers
  <2>1. UNCHANGED <<phase_state, state, buffer, chan>> /\ sent' = Append(sent, "handshake")
        /\ Len(sent) < MaxSent /\ main \notin {"TRANSIT", "LANDING"}
    BY <1>8 DEF Registers, SendFrame, serverSide
  <2>2. /\ sent' \in Seq(MenuOptions \cup {"handshake"})
        /\ Kept
        /\ Len(sent) + 1 \in DOMAIN sent' /\ sent'[Len(sent) + 1] = "handshake"
    BY <2>1, ReportedGrows
  <2>3. Handshake(Len(sent) + 1, phase_state) \in ToldPackets'
    <3>1. Len(sent) + 1 \in 1 .. MaxSent
      BY <1>1, <2>1, CommsAssumption
    <3>2. Handshake(Len(sent) + 1, phase_state) \in Packets
      BY <1>1, <3>1 DEF Packets
    <3>3. ASSUME NEW q \in Packets, q.type = "HANDSHAKE", q.arg = phase_state,
                 q.seq = Len(sent) + 1
          PROVE  q \in ToldPackets'
      <4>1. Genuine(q)'
        BY <2>2, <3>3 DEF Genuine, TypeSent
      <4>2. QED
        BY <1>2, <2>1, <2>2, <3>3, <4>1
        DEF ToldPackets, Told, AirborneReports, TakeoffReports, LandingReports, Kept
    <3>4. QED
      BY <3>2, <3>3 DEF Handshake
  <2>4. SendSucceeds(Handshake(Len(sent) + 1, phase_state))
    BY <1>8 DEF Registers
  <2>5. inbox' \in Seq(ToldChunks') /\ backlog' \in Seq(Queued(ToldChunks'))
    BY <2>2, <2>3, <2>4, SendTold
  <2>6. buffer' \in Seq(ToldPackets')
    BY <1>1, <2>1, <2>2, ToldGrows, SeqMonotone
  <2>7. /\ phase_state' = 2 => Reported(AirborneReports)'
        /\ phase_state' = 3 => Reported(LandingReports)'
    BY <1>2, <2>1, <2>2 DEF Kept, AirborneReports, TakeoffReports, LandingReports
  <2>8. QED
    BY <1>1, <2>1, <2>2, <2>5, <2>6, <2>7, ClientKeeps
<1>9. CASE Flush
  <2>1. UNCHANGED <<phase_state, state, chan, sent>> /\ main \notin {"TRANSIT", "LANDING"}
    BY <1>9 DEF Flush, SendFrame, serverSide
  <2>2. CASE buffer # <<>> /\ (SendSucceeds(Head(buffer)) \/ SendFails)
             /\ buffer' = Tail(buffer)
    <3>1. Head(buffer) \in ToldPackets /\ Tail(buffer) \in Seq(ToldPackets)
      BY <1>1, <2>2, SeqParts
    <3>2. Head(buffer) \in ToldPackets'
      BY <1>3, <2>1, <3>1
    <3>3. inbox' \in Seq(ToldChunks') /\ backlog' \in Seq(Queued(ToldChunks'))
      BY <1>3, <2>1, <2>2, <3>2, SendTold
    <3>4. /\ phase_state' = 2 => Reported(AirborneReports)'
          /\ phase_state' = 3 => Reported(LandingReports)'
      BY <1>2, <1>3, <2>1
    <3>5. QED
      BY <1>1, <1>3, <2>1, <2>2, <3>1, <3>3, <3>4, ClientKeeps
  <2>3. CASE UNCHANGED <<buffer, inbox, backlog>>
    BY <1>1, <1>4, <2>1, <2>3
  <2>4. QED
    BY <1>9, <2>2, <2>3 DEF Flush
<1>10. ASSUME NEW option \in Options, Reports(option) \/ Leaves(option) PROVE NInv'
  <2> DEFINE p == Command(option, Len(sent) + 1)
  <2>1. /\ UNCHANGED <<state, chan>> /\ sent' = Append(sent, option)
        /\ option \in MenuOptions /\ Len(sent) + 1 \in 1 .. MaxSent
        /\ SendSucceeds(p) \/ SendFails
    BY <1>1, <1>10, CommsAssumption DEF Reports, Leaves, SendFrame, serverSide
  <2>2. /\ sent' \in Seq(MenuOptions \cup {"handshake"})
        /\ Kept
        /\ \A S : option \in S => Reported(S)'
        /\ Len(sent) + 1 \in DOMAIN sent' /\ sent'[Len(sent) + 1] = option
    BY <2>1, ReportedGrows
  <2>3. p \in ToldPackets' /\ Buffered(p) \in ToldPackets'
    <3>1. p \in Packets /\ Buffered(p) \in Packets
      <4>1. p \in Commands
        BY <1>10, <2>1 DEF Commands
      <4>2. QED
        BY <4>1 DEF Packets
    <3>2. /\ p.type = OptionType[option] /\ Buffered(p).type = p.type
          /\ p.seq = Len(sent) + 1 /\ Buffered(p).seq = p.seq
      BY DEF Command, Buffered
    <3>3. ASSUME NEW q \in Packets, q.type = OptionType[option], q.seq = Len(sent) + 1
          PROVE  q \in ToldPackets'
      <4>1. /\ q.type # "HANDSHAKE"
            /\ q.type = "TAKEOFF" => option \in TakeoffReports
            /\ q.type = "TRANSIT" => option \in {"transit"}
            /\ q.type = "LANDING" => option \in LandingReports
        BY <2>1, <3>3 DEF OptionType, MenuOptions, TakeoffReports, LandingReports
      <4>2. /\ q.type = "TAKEOFF" => Reported(TakeoffReports)'
            /\ q.type = "TRANSIT" => Reported({"transit"})'
            /\ q.type = "LANDING" => Reported(LandingReports)'
        <5>1. \A S : option \in S => Reported(S)'
          BY <2>2
        <5>2. QED
          BY <4>1, <5>1 DEF TakeoffReports, LandingReports
      <4>3. Genuine(q)'
        <5>1. option # "handshake"
          BY <2>1 DEF MenuOptions
        <5>2. QED
          BY <2>2, <3>3, <5>1 DEF Genuine, TypeSent
      <4>4. QED
        BY <4>1, <4>2, <4>3 DEF ToldPackets, Told
    <3>4. QED
      BY <3>1, <3>2, <3>3
  <2>4. inbox' \in Seq(ToldChunks') /\ backlog' \in Seq(Queued(ToldChunks'))
    BY <2>1, <2>2, <2>3, SendTold
  <2>5. /\ phase_state' = phase_state
        /\ phase_state' = 2 => Reported(AirborneReports)'
        /\ phase_state' = 3 => Reported(LandingReports)'
    <3>1. /\ main = "TRANSIT" => option \in AirborneReports
          /\ main = "LANDING" => option \in LandingReports
      BY <1>10, <2>1 DEF Reports, Leaves, OptionType, MenuOptions, AirborneReports,
                         LandingReports
    <3>2. /\ phase_state = 2 => Reported(AirborneReports) \/ option \in AirborneReports
          /\ phase_state = 3 => Reported(LandingReports) \/ option \in LandingReports
      BY <1>2, <3>1
    <3>3. /\ option \in AirborneReports => Reported(AirborneReports)'
          /\ option \in LandingReports => Reported(LandingReports)'
      BY <2>2 DEF AirborneReports, TakeoffReports, LandingReports
    <3>4. /\ Reported(AirborneReports) => Reported(AirborneReports)'
          /\ Reported(LandingReports) => Reported(LandingReports)'
      BY <2>2 DEF Kept, AirborneReports, TakeoffReports, LandingReports
    <3>5. phase_state' = phase_state
      BY <1>10 DEF Reports, Leaves
    <3>6. QED
      BY <3>2, <3>3, <3>4, <3>5
  <2>6. buffer' \in Seq(ToldPackets')
    <3>1. buffer \in Seq(ToldPackets')
      BY <1>1, <2>2, ToldGrows, SeqMonotone
    <3>2. Append(buffer, Buffered(p)) \in Seq(ToldPackets')
      BY <2>3, <3>1
    <3>3. QED
      BY <1>10, <3>1, <3>2 DEF Reports, Leaves
  <2>7. QED
    BY <1>1, <2>1, <2>2, <2>4, <2>5, <2>6, ClientKeeps
<1>11. CASE ReceiverReads
  <2>1. /\ UNCHANGED <<sent, state, buffer, inbox, backlog>> /\ chan # <<>>
        /\ chan' = Tail(chan) /\ phase_state' = PhaseCleared(Head(chan))
    BY <1>11 DEF ReceiverReads, ThreadFrame, serverSide
  <2>2. chan' \in Seq(ToldReplies) /\ ToldReply(Head(chan))
    BY <1>1, <2>1, SeqParts DEF ToldReplies
  <2>3. Reported(TakeoffReports) \/ Reported(LandingReports) => Reported(AirborneReports)
    BY DEF Reported, AirborneReports
  <2>4. /\ phase_state' \in {0, 2, 3}
        /\ phase_state' = 2 => phase_state = 2 \/ Reported(AirborneReports)
        /\ phase_state' = 3 => phase_state = 3 \/ Reported(LandingReports)
    BY <1>1, <2>1, <2>2, <2>3 DEF PhaseCleared, ToldReply
  <2>5. /\ phase_state' = 2 => Reported(AirborneReports)' \/ main' = "TRANSIT"
        /\ phase_state' = 3 => Reported(LandingReports)' \/ main' = "LANDING"
    BY <1>2, <1>3, <1>11, <2>1, <2>4 DEF ReceiverReads, ThreadFrame
  <2>6. QED
    BY <1>1, <1>3, <2>1, <2>2, <2>4, <2>5, ClientKeeps
<1>12. CASE HeartbeatSent
  <2>1. Heartbeat \in Packets /\ Told(Heartbeat)
    BY DEF Packets, Told, Genuine, Heartbeat
  <2>2. Server!Header(Heartbeat) \in ToldChunks
    BY <2>1 DEF ToldChunks, Server!Chunks, Server!Header
  <2>3. inbox' \in Seq(ToldChunks)
    BY <1>1, <1>12, <2>2 DEF HeartbeatSent
  <2>4. QED
    BY <1>1, <1>4, <1>12, <2>3 DEF HeartbeatSent, ThreadFrame, serverSide
<1>13. CASE ReceiverEnds \/ HeartbeatFails
  BY <1>1, <1>4, <1>13 DEF ReceiverEnds, HeartbeatFails, ThreadFrame, serverSide
\* The phase is set, and its telemetry asked for.
<1>14. ASSUME NEW option \in Options, Chooses(option) PROVE NInv'
  <2>1. /\ UNCHANGED <<sent, state, buffer, inbox, backlog, chan>>
        /\ main = "prompt" /\ main' = OptionType[option]
        /\ phase_state' = PhaseAfter(option) /\ option \in MenuOptions
    BY <1>14, CommsAssumption DEF Chooses, SendFrame, serverSide
  <2>2. /\ phase_state' \in {0, 2, 3}
        /\ phase_state' = 2 => phase_state = 2 \/ main' = "TRANSIT"
        /\ phase_state' = 3 => phase_state = 3 \/ main' = "LANDING"
    BY <1>1, <2>1 DEF PhaseAfter, OptionType, MenuOptions
  <2>3. /\ phase_state' = 2 => Reported(AirborneReports)' \/ main' = "TRANSIT"
        /\ phase_state' = 3 => Reported(LandingReports)' \/ main' = "LANDING"
    BY <1>2, <1>3, <2>1, <2>2
  <2>4. QED
    BY <1>1, <1>3, <2>1, <2>2, <2>3, ClientKeeps
<1>15. QED
  <2>1. GivesUp \/ RegisterFails \/ GreetFails => Exits /\ main \notin {"TRANSIT", "LANDING"}
    BY DEF GivesUp, RegisterFails, GreetFails
  <2>2. QED
    BY <1>5, <1>6, <1>7, <1>8, <1>9, <1>10, <1>11, <1>12, <1>13, <1>14, <2>1 DEF MainActs

\* The three together are inductive.
CInv == BInv /\ LInv /\ NInv

\* Nothing is on its way at the start.
LEMMA CInvInit == Init => CInv
<1> SUFFICES ASSUME Init PROVE CInv
  OBVIOUS
<1>1. \A S : <<>> \in Seq(S)
  OBVIOUS
<1>2. BInv /\ LInv
  BY DEF Init, BInv, LInv
<1>3. NInv
  BY <1>1 DEF Init, Server!Init, NInv, NeitherAhead
<1>4. QED
  BY <1>2, <1>3 DEF CInv

\* Every step keeps what is said of the connections and of all that is on its way.
LEMMA CInvStep == CInv /\ [Next]_vars => CInv'
<1> SUFFICES ASSUME BInv, LInv, NInv, [Next]_vars PROVE NInv'
  BY BufferStep, LineStep DEF CInv
<1>1. CASE UNCHANGED vars
  <2>1. UNCHANGED <<sent, main, phase_state, state, buffer, inbox, backlog, chan>>
    BY <1>1 DEF vars, serverSide, toServer, clientSide
  <2>2. QED
    BY <2>1, ToldKeeps DEF NInv, NeitherAhead, AirborneReports
<1>2. QED
  BY <1>1, GroundTold, ClientTold DEF Next, GroundStep

\* NeitherAhead: across late clearances, refused or lost reports and
\* handshakes that declare the phase of an earlier session, the ground
\* controller is in no phase the pilot has not reported, and the client in none
\* but the one whose telemetry it is asking for (main.rs:338-345).
THEOREM PhasesFollowPilot == Spec => []NeitherAhead
<1>1. CInv => NeitherAhead
  BY DEF CInv, NInv
<1>2. QED
  BY <1>1, CInvInit, CInvStep, PTL DEF Spec
=============================================================================
