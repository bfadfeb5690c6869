------------------------- MODULE ATCConnectionProofs ------------------------
(***************************************************************************)
(* What the client may rely on of its present connection, for every set of *)
(* menu options, every bound and any origin ids: that it is the one the    *)
(* server serves, or one that waits in the backlog with its path up (in    *)
(* TypeOK of ATCComms, with the types of all variables), that the          *)
(* registration is the first packet on it (MenuMeansVerified), and that    *)
(* the session it leads to keeps the promise of ATCSession.                *)
(*                                                                         *)
(* Any ACK opens the menu, so nothing the client has received shows that   *)
(* it is verified.  VInv says why it will be: as nothing comes before the  *)
(* handshake, no handler but its own can see it.  What is on its way has   *)
(* its type by CInv of ATCCommsProofs.                                     *)
(***************************************************************************)
EXTENDS ATCCommsProofs, FiniteSetTheorems

-----------------------------------------------------------------------------
(* Types.                                                                  *)

\* The server's variables, its input apart.
STypes ==
    /\ pc \in {"accept", "keys", "select", "payload", "send"}
    /\ state \in Server!States
    /\ verified \in BOOLEAN
    /\ aircraft_id \in Callsigns \cup {NoCallsign}
    /\ held \in Packets \cup {NoPacket}
    /\ keys \in Seq({"D", "other"})
    /\ journal \subseteq Server!States \X Server!States
    /\ link \in {"none", "open", "closed", "broken"}
    /\ owed \in Packets \cup {NoPacket}
    /\ out \in Seq(Server!ReplyKinds)
    /\ unanswered \in Int

\* The client's variables, apart from what CInv types.
CTypes ==
    /\ main \in {"connect", "register", "greet", "flush", "menu", "prompt",
                 "leaving", "exited"} \cup Composing
    /\ line \in {"none", "queued", "open", "closed", "lost"}
    /\ line = "queued" => backlog[1].link = "open"
    /\ line = "open" => link = "open"
    /\ listening \in BOOLEAN /\ alive \in BOOLEAN
    /\ Len(sent) <= MaxSent
    /\ handled \in Seq(Packets)

TInv == STypes /\ CTypes /\ CInv

\* The three together give every type.
LEMMA TInvTypes == TInv => TypeOK
<1> SUFFICES ASSUME TInv PROVE TypeOK
  OBVIOUS
<1>1. /\ ToldChunks \subseteq Server!Chunks /\ ToldReplies \subseteq Server!ReplyKinds
      /\ ToldPackets \subseteq Packets
  BY DEF ToldChunks, ToldReplies, ToldPackets
<1>2. /\ inbox \in Seq(Server!Chunks) /\ chan \in Seq(Server!ReplyKinds)
      /\ buffer \in Seq(Packets)
  BY <1>1, SeqMonotone DEF TInv, CInv, NInv
<1>3. Seq(ToldChunks) \subseteq Seq(Server!Chunks)
  BY <1>1, SeqMonotone
<1>4. Queued(ToldChunks) \subseteq Queued(Server!Chunks)
  BY <1>3 DEF Queued
<1>5. backlog \in Seq([link : {"open", "closed", "broken"}, chunks : Seq(Server!Chunks)])
  <2>1. backlog \in Seq(Queued(Server!Chunks))
    BY <1>4, SeqMonotone DEF TInv, CInv, NInv
  <2>2. QED
    BY <2>1 DEF Queued
<1>6. Server!TypeOK
  BY <1>2 DEF TInv, STypes, Server!TypeOK
<1>7. line = "queued" => backlog # <<>> /\ backlog[1].link = "open"
  BY DEF TInv, CTypes, CInv, LInv
<1>8. QED
  BY <1>2, <1>5, <1>6, <1>7 DEF TInv, CTypes, CInv, NInv, TypeOK

\* What waits in the backlog is a connection.
LEMMA FirstQueued ==
    ASSUME TypeOK, backlog # <<>>
    PROVE  /\ backlog[1] \in [link : {"open", "closed", "broken"},
                              chunks : Seq(Server!Chunks)]
           /\ backlog[1].link \in {"open", "closed", "broken"}
           /\ backlog[1].chunks \in Seq(Server!Chunks)
<1>1. backlog[1] \in [link : {"open", "closed", "broken"}, chunks : Seq(Server!Chunks)]
  BY SeqParts DEF TypeOK
<1>2. QED
  BY <1>1

-----------------------------------------------------------------------------
(* The server.  What ATCServerProofs proves of ATCServer carries over to   *)
(* the composition, whose server has the same handlers and the same loop.  *)

SP == INSTANCE ATCServerProofs

\* The packets of the composition are packets of the server's.
LEMMA ServerAssumptions == SP!PacketsAssumption /\ SP!BoundsAssumption
<1>1. \A n \in 1 .. MaxSent : n \in Nat
  BY CommsAssumption
<1>2. ASSUME NEW o \in Options, NEW n \in 1 .. MaxSent
      PROVE  /\ Command(o, n) \in SP!PacketSpace
             /\ Buffered(Command(o, n)) \in SP!PacketSpace
  <2>1. OptionType[o] \in SP!PacketTypes
    BY CommsAssumption DEF MenuOptions, OptionType, SP!PacketTypes
  <2>2. Command(o, n) \in SP!PacketSpace
    BY <1>1, <2>1, CommsAssumption DEF Command, SP!PacketSpace, SP!Lengths, Callsigns
  <2>3. PREV_ATC_ID \in Nat
    BY CommsAssumption
  <2>4. QED
    BY <2>2, <2>3 DEF Buffered, SP!PacketSpace
<1>3. Heartbeat \in SP!PacketSpace
  BY DEF Heartbeat, SP!PacketSpace, SP!Lengths, SP!PacketTypes, Callsigns
<1>4. ASSUME NEW n \in 1 .. MaxSent, NEW ph \in {0, 2, 3}
      PROVE  Handshake(n, ph) \in SP!PacketSpace
  BY <1>1 DEF Handshake, SP!PacketSpace, SP!Lengths, SP!PacketTypes, Callsigns
<1>5. Packets \subseteq SP!PacketSpace
  BY <1>2, <1>3, <1>4 DEF Packets, Commands
<1>6. NoCallsign \notin Callsigns
  BY CommsAssumption DEF Callsigns
<1>7. QED
  BY <1>5, <1>6, CommsAssumption, NoPacketAssumption
  DEF SP!PacketsAssumption, SP!BoundsAssumption

\* A handler of the composition's server is one of ATCServer's.
LEMMA SameHandler ==
    ASSUME NEW p, Server!Handle(p)
    PROVE  SP!Handle(p)
BY DEF Server!Handle, Server!HandleEmergency, Server!HandleBuffered, Server!HandleGated,
       Server!HandleHandshake, Server!HandleTakeoff, Server!HandleTransit,
       Server!HandleLanding, Server!HandleMayday, Server!HandleLargeDataRequest,
       Server!HandleHandoffNotify, Server!HandleDisconnect, Server!HandleAck,
       Server!HandleUnknown, Server!HandledTypes, Server!Dispatched, Server!Received,
       Server!Foreign, Server!PassesGate, Server!is_allowed_before_handshake,
       Server!PreHandshakeTypes, Server!Reject, Server!Grant, Server!Proceed,
       Server!Consume, Server!HasPayload, Server!CapturedId, Server!Answers,
       Server!AnswerableIn, Server!Answerable, Server!AnswerKinds, Server!Cardinality, Server!FlightStates, Server!InitialState,
       Server!EndSession, Server!ClosingHops, Server!WalkEnd, Server!WalkToLanding,
       Server!WalkToTransit, Server!Walked, Server!HopTo, Server!is_valid_transition,
       Server!ValidTransitions,
       SP!Handle, SP!HandleEmergency, SP!HandleBuffered, SP!HandleGated,
       SP!HandleHandshake, SP!HandleTakeoff, SP!HandleTransit,
       SP!HandleLanding, SP!HandleMayday, SP!HandleLargeDataRequest,
       SP!HandleHandoffNotify, SP!HandleDisconnect, SP!HandleAck,
       SP!HandleUnknown, SP!HandledTypes, SP!Dispatched, SP!Received,
       SP!Foreign, SP!PassesGate, SP!is_allowed_before_handshake,
       SP!PreHandshakeTypes, SP!Reject, SP!Grant, SP!Proceed,
       SP!Consume, SP!HasPayload, SP!CapturedId, SP!Answers,
       SP!AnswerableIn, SP!Answerable, SP!AnswerKinds, SP!Cardinality, SP!FlightStates, SP!InitialState,
       SP!EndSession, SP!ClosingHops, SP!WalkEnd, SP!WalkToLanding,
       SP!WalkToTransit, SP!Walked, SP!HopTo, SP!is_valid_transition,
       SP!ValidTransitions

\* So are the other steps of its loop.
LEMMA SameLoop ==
    ASSUME ServerWaits \/ WeatherSent
    PROVE  SP!ServerStep \/ SP!LargeDataSent
BY DEF ServerWaits, WeatherSent, Server!ControllerDisconnects, Server!NoDisconnectKey,
       Server!SelectTimesOut, Server!KeepaliveFails, Server!RecvFails, Server!RecvHeader,
       Server!LargeDataFails, Server!LargeDataSent, Server!LargeDataEnds,
       Server!EndSession, Server!ClosingHops, Server!Unhandled, Server!AnswerableIn,
       Server!Due, Server!Answerable, Server!Foreign, Server!HasPayload,
       Server!Answers, Server!AnswerKinds, Server!Cardinality,
       SP!ServerStep, SP!ControllerDisconnects, SP!NoDisconnectKey,
       SP!SelectTimesOut, SP!KeepaliveFails, SP!RecvFails, SP!RecvHeader,
       SP!LargeDataFails, SP!LargeDataSent, SP!LargeDataEnds,
       SP!EndSession, SP!ClosingHops, SP!Unhandled, SP!AnswerableIn,
       SP!Due, SP!Answerable, SP!Foreign, SP!HasPayload,
       SP!Answers, SP!AnswerKinds, SP!Cardinality

\* The composition's server has the types of ATCServer.
LEMMA SameTypes == TInv => SP!TypeOK
<1> SUFFICES ASSUME TypeOK PROVE SP!TypeOK
  BY TInvTypes
<1>1. /\ Server!States = SP!States /\ Server!Chunks = SP!Chunks
      /\ Server!ReplyKinds = SP!ReplyKinds
  BY DEF Server!States, SP!States, Server!Chunks, SP!Chunks, Server!ReplyKinds,
         SP!ReplyKinds, Server!AnswerKinds, SP!AnswerKinds
<1>2. QED
  BY <1>1 DEF TypeOK, Server!TypeOK, SP!TypeOK

\* The server's Cardinality is that of the library's theorems.
LEMMA SameCardinality ==
    ASSUME NEW S
    PROVE  Server!Cardinality(S) = Cardinality(S)
BY DEF Server!Cardinality, Cardinality

\* The packets among the chunks are counted.
LEMMA AnswerableType ==
    ASSUME NEW s \in Seq(Server!Chunks)
    PROVE  Server!AnswerableIn(s) \in Nat
<1> DEFINE due == {i \in DOMAIN s : s[i].part = "header" /\ Server!Answerable(s[i].pkt)}
<1>1. due \subseteq 1 .. Len(s) /\ Len(s) \in Nat
  OBVIOUS
<1>2. IsFiniteSet(due)
  BY <1>1, FS_Interval, FS_Subset
<1>3. Cardinality(due) \in Nat
  BY <1>2, FS_CardinalityType
<1>4. Server!AnswerableIn(s) = Cardinality(due)
  BY SameCardinality DEF Server!AnswerableIn
<1>5. QED
  BY <1>3, <1>4

\* Cutting what is under way short keeps the count one.
LEMMA KeepsInt ==
    ASSUME TInv, NEW kept \in Seq(Server!Chunks), Server!Keeps(kept)
    PROVE  unanswered' \in Int
<1>1. /\ Server!AnswerableIn(inbox) \in Nat /\ Server!AnswerableIn(kept) \in Nat
      /\ unanswered \in Int
  BY TInvTypes, AnswerableType DEF TypeOK, Server!TypeOK
<1>2. QED
  BY <1>1 DEF Server!Keeps

\* The replies the server gives are of the known kinds.
LEMMA ReplyTypes ==
    /\ <<>> \in Seq(Server!ReplyKinds)
    /\ \A r \in Server!ReplyKinds : <<r>> \in Seq(Server!ReplyKinds)
    /\ {"ack", "error", "departure", "cleared", "not_cleared", "ack0",
        "keepalive", "weather"} \subseteq Server!ReplyKinds
BY DEF Server!ReplyKinds, Server!AnswerKinds

\* The server's own steps keep the types, and its connection for as long as the
\* session lasts.
LEMMA StepTypes ==
    ASSUME TInv,
           ServerWaits \/ WeatherSent \/ \E p \in Server!Arriving : ServerHandles(p)
    PROVE  STypes' /\ (pc' = "accept" \/ UNCHANGED link)
<1>1. SP!PacketsAssumption /\ SP!BoundsAssumption /\ SP!TypeOK
  BY ServerAssumptions, SameTypes
<1>2. SP!Next /\ (pc' = "accept" \/ UNCHANGED link)
  <2>1. CASE ServerWaits \/ WeatherSent
    BY <2>1, SameLoop, LoopEffect DEF SP!Next
  <2>2. ASSUME NEW p \in Server!Arriving, ServerHandles(p)
        PROVE  SP!Next /\ (pc' = "accept" \/ UNCHANGED link)
    <3>1. p \in SP!Arriving
      BY DEF Server!Arriving, SP!Arriving
    <3>2. QED
      BY <2>2, <3>1, SameHandler, HandleEffect
      DEF ServerHandles, HandleShape, SP!Next, SP!ServerStep
  <2>3. QED
    BY <2>1, <2>2
<1>3. SP!TypeOK'
  BY <1>1, <1>2, SP!StepCases
<1>4. STypes'
  BY <1>3 DEF SP!TypeOK, STypes, Server!States, SP!States, Server!ReplyKinds,
     SP!ReplyKinds, Server!AnswerKinds, SP!AnswerKinds
<1>5. QED
  BY <1>2, <1>4

\* Every step keeps the types.  Only the end of a session takes the server
\* off a connection, and Replies then closes the client's end of it.
LEMMA ServerTypes ==
    ASSUME TInv, ServerActs \/ WeatherSent
    PROVE  STypes' /\ CTypes'
<1>1. STypes /\ CTypes /\ TypeOK
  BY TInvTypes DEF TInv
<1>2. ASSUME STypes', pc' = "accept" \/ UNCHANGED link, Replies,
             handled' \in Seq(Packets)
      PROVE  CTypes'
  BY <1>1, <1>2 DEF Replies, CTypes, clientSide
<1>3. CASE Accepts
  <2> DEFINE c == backlog[1]
  <2>1. /\ c.link \in {"open", "closed", "broken"} /\ c.chunks \in Seq(Server!Chunks)
        /\ Server!AcceptFrom(c.link, c.chunks)
    BY <1>1, <1>3, FirstQueued DEF Accepts
  <2>2. unanswered' \in Int
    <3>1. Server!AnswerableIn(c.chunks) \in Nat
      BY <2>1, AnswerableType
    <3>2. unanswered' = unanswered + Server!AnswerableIn(c.chunks)
      BY <2>1 DEF Server!AcceptFrom
    <3>3. QED
      BY <1>1, <3>1, <3>2 DEF STypes
  <2>3. /\ state' = "HANDSHAKE" /\ verified' = FALSE
        /\ journal' = {<<"IDLE", "HANDSHAKE">>}
    BY <2>1 DEF Server!AcceptFrom
  <2>4. /\ pc' = "keys" /\ link' = c.link /\ aircraft_id' = NoCallsign
        /\ held' = NoPacket /\ owed' = NoPacket /\ out' = <<>> /\ keys' = keys
    BY <2>1 DEF Server!AcceptFrom
  <2>5. STypes'
    <3>1. state' \in Server!States /\ journal' \subseteq Server!States \X Server!States
      BY <2>3 DEF Server!States
    <3>2. verified' \in BOOLEAN
      BY <2>3
    <3>3. keys' \in Seq({"D", "other"}) /\ out' \in Seq(Server!ReplyKinds)
      BY <1>1, <2>4, ReplyTypes DEF STypes
    <3>4. QED
      BY <2>1, <2>2, <2>4, <3>1, <3>2, <3>3 DEF STypes
  <2>6. CTypes'
    <3>1. line' = IF line = "queued" THEN "open" ELSE line
      BY <1>3 DEF Accepts
    <3>2. line # "open"
      BY <1>3 DEF Accepts, TInv, CInv, LInv
    <3>3. QED
      BY <1>1, <1>3, <2>4, <3>1, <3>2 DEF Accepts, CTypes, clientSide
  <2>7. QED
    BY <2>5, <2>6
<1>4. CASE ServerWaits \/ WeatherSent
  <2>1. Replies /\ UNCHANGED handled
    BY <1>4 DEF ServerWaits, WeatherSent
  <2>2. QED
    BY <1>1, <1>2, <1>4, <2>1, StepTypes DEF CTypes
<1>5. ASSUME NEW p \in Server!Arriving, ServerHandles(p) PROVE STypes' /\ CTypes'
  <2>1. p \in Packets
    <3>1. inbox # <<>> /\ p = Head(inbox).pkt
      BY DEF Server!Arriving
    <3>2. Head(inbox) \in Server!Chunks
      BY <1>1, <3>1 DEF TypeOK, Server!TypeOK
    <3>3. QED
      BY <3>1, <3>2 DEF Server!Chunks
  <2>2. STypes' /\ (pc' = "accept" \/ UNCHANGED link)
    BY <1>5, StepTypes
  <2>3. Replies /\ handled' \in Seq(Packets)
    BY <1>1, <1>5, <2>1 DEF ServerHandles, CTypes
  <2>4. QED
    BY <1>2, <2>2, <2>3
<1>6. QED
  BY <1>3, <1>4, <1>5 DEF ServerActs

-----------------------------------------------------------------------------
(* The steps of the client and of the network.                             *)

\* A step that leaves the server's thread alone keeps its types.
LEMMA ServerIdle ==
    ASSUME TInv, UNCHANGED <<serverSide, owed>>, out' = <<>>, unanswered' \in Int,
           link' \in {"none", "open", "closed", "broken"}
    PROVE  STypes'
BY ReplyTypes DEF TInv, STypes, serverSide

\* What a send keeps.
LEMMA SendTypes ==
    ASSUME TInv, NEW p, SendSucceeds(p) \/ SendFails, SendFrame
    PROVE  /\ STypes' /\ UNCHANGED <<link, handled>>
           /\ line = "queued" => backlog'[1].link = "open"
<1>1. unanswered' \in Int /\ UNCHANGED <<link, handled, owed, serverSide>> /\ out' = <<>>
  BY DEF TInv, STypes, SendSucceeds, SendFails, SendFrame
<1>2. STypes'
  BY <1>1, ServerIdle DEF TInv, STypes
<1>3. CASE line = "queued"
  <2>1. backlog' = <<[backlog[1] EXCEPT !.chunks = @ \o Chunks(p)]>>
    BY <1>3 DEF SendSucceeds, SendFails
  <2>2. /\ backlog[1].link = "open"
        /\ backlog[1] \in [link : {"open", "closed", "broken"}, chunks : Seq(Server!Chunks)]
    <3>1. TypeOK /\ backlog # <<>> /\ backlog[1].link = "open"
      BY <1>3, TInvTypes DEF TInv, CTypes, CInv, LInv
    <3>2. QED
      BY <3>1, FirstQueued
  <2>3. backlog'[1].link = "open"
    BY <2>1, <2>2
  <2>4. QED
    BY <1>1, <1>2, <2>3
<1>4. QED
  BY <1>1, <1>2, <1>3

\* The path goes down for whatever the client and the server hold of it.
LEMMA PathTypes ==
    ASSUME TInv, PathLost
    PROVE  STypes' /\ CTypes'
<1>1. /\ link' \in {link, "broken"}
      /\ line' \in {line, "lost"} /\ line' # "queued" /\ line' # "open"
      /\ UNCHANGED <<serverSide, owed, main, listening, alive, sent, handled>>
      /\ out' = <<>>
  BY DEF PathLost, clientSide
<1>2. unanswered' \in Int /\ link' \in {"none", "open", "closed", "broken"}
  <2>1. PICK kept \in {inbox} \cup Prefixes(inbox) : Server!Keeps(kept)
    BY DEF PathLost
  <2>2. kept \in Seq(Server!Chunks)
    <3>1. inbox \in Seq(Server!Chunks)
      BY TInvTypes DEF TypeOK, Server!TypeOK
    <3>2. QED
      BY <2>1, <3>1, SeqParts DEF Prefixes
  <2>3. QED
    BY <1>1, <2>1, <2>2, KeepsInt DEF TInv, STypes
<1>3. STypes'
  BY <1>1, <1>2, ServerIdle
<1>4. QED
  BY <1>1, <1>3 DEF TInv, CTypes

\* The client's process ends, and its connections with it.
LEMMA ExitTypes ==
    ASSUME TInv, Exits
    PROVE  STypes' /\ CTypes'
<1>1. /\ main' = "exited" /\ line' = "none" /\ listening' = FALSE /\ out' = <<>>
      /\ link' \in {link, "closed"}
      /\ UNCHANGED <<serverSide, owed, alive, sent, handled>>
  BY DEF Exits
<1>2. STypes'
  <2>1. PICK kept \in {inbox, <<>>} : Server!Keeps(kept)
    BY DEF Exits
  <2>2. kept \in Seq(Server!Chunks)
    BY TInvTypes, SeqParts DEF TypeOK, Server!TypeOK
  <2>3. QED
    BY <1>1, <2>1, <2>2, KeepsInt, ServerIdle DEF TInv, STypes
<1>3. QED
  BY <1>1, <1>2 DEF TInv, CTypes

\* Only a packet that may still be sent is counted.
LEMMA CountGrows ==
    ASSUME TInv, Len(sent) < MaxSent, NEW o, sent' = Append(sent, o)
    PROVE  Len(sent') <= MaxSent
BY CommsAssumption DEF TInv, CInv, NInv

\* Every step of the client keeps the types.
LEMMA ClientTypes ==
    ASSUME TInv, MainActs \/ GivesUp \/ ReceiverReads \/ ReceiverEnds
                          \/ HeartbeatSent \/ HeartbeatFails
    PROVE  STypes' /\ CTypes'
<1>1. STypes /\ CTypes /\ unanswered \in Int /\ link \in {"none", "open", "closed", "broken"}
  BY DEF TInv, STypes
<1>2. ASSUME SendFrame, UNCHANGED <<unanswered, line>>,
             backlog' = backlog \/ line # "queued",
             main' \in {"connect", "flush", "menu", "prompt"} \cup Composing,
             listening' \in BOOLEAN, alive' \in BOOLEAN, UNCHANGED sent
      PROVE  STypes' /\ CTypes'
  <2>1. STypes'
    BY <1>1, <1>2, ServerIdle DEF SendFrame
  <2>2. QED
    BY <1>1, <1>2, <2>1 DEF SendFrame, CTypes
<1>3. ASSUME NEW p, SendSucceeds(p) \/ SendFails, SendFrame, UNCHANGED line,
             main' \in {"connect", "greet", "flush", "menu", "leaving"},
             listening' \in BOOLEAN, alive' \in BOOLEAN, Len(sent') <= MaxSent
      PROVE  STypes' /\ CTypes'
  BY <1>1, <1>3, SendTypes DEF CTypes
<1>4. ASSUME ThreadFrame, unanswered' = unanswered, listening' \in BOOLEAN,
             alive' \in BOOLEAN
      PROVE  STypes' /\ CTypes'
  <2>1. STypes'
    BY <1>1, <1>4, ServerIdle DEF ThreadFrame
  <2>2. QED
    BY <1>1, <1>4, <2>1 DEF ThreadFrame, CTypes
<1>5. listening \in BOOLEAN /\ alive \in BOOLEAN /\ Len(sent) <= MaxSent
  BY <1>1 DEF CTypes
<1>6. CASE Exits
  BY <1>6, ExitTypes
<1>7. CASE Connects
  <2>1. STypes'
    BY <1>1, <1>7, ServerIdle DEF Connects, SendFrame
  <2>2. backlog'[1].link = "open"
    BY <1>7 DEF Connects
  <2>3. QED
    BY <1>1, <1>7, <2>1, <2>2 DEF Connects, SendFrame, CTypes
<1>8. CASE Registers
  BY <1>3, <1>5, <1>8, CountGrows DEF Registers
<1>9. CASE Greeted
  BY <1>2, <1>5, <1>9 DEF Greeted
<1>10. CASE Flush
  <2>1. CASE /\ buffer # <<>> /\ (SendSucceeds(Head(buffer)) \/ SendFails)
             /\ UNCHANGED <<main, alive>>
    BY <1>3, <1>5, <1>10, <2>1 DEF Flush
  <2>2. CASE UNCHANGED <<inbox, unanswered, backlog>> /\ main' = "menu" /\ alive' = TRUE
    BY <1>2, <1>5, <1>10, <2>2 DEF Flush
  <2>3. QED
    BY <1>10, <2>1, <2>2 DEF Flush
<1>11. CASE Menu
  <2>1. main' \in {"prompt", "connect"} /\ listening' \in BOOLEAN
    BY <1>5, <1>11 DEF Menu
  <2>2. QED
    BY <1>2, <1>5, <1>11, <2>1 DEF Menu
<1>12. CASE Mistypes
  BY <1>2, <1>5, <1>12 DEF Mistypes
<1>13. ASSUME NEW option \in Options, Reports(option) PROVE STypes' /\ CTypes'
  <2>1. alive' \in BOOLEAN /\ Len(sent') <= MaxSent
    BY <1>5, <1>13, CountGrows DEF Reports
  <2>2. QED
    BY <1>3, <1>5, <1>13, <2>1 DEF Reports
<1>14. ASSUME NEW option \in Options, Leaves(option) PROVE STypes' /\ CTypes'
  <2>1. Len(sent') <= MaxSent /\ main' \in {"connect", "leaving"}
    BY <1>14, CountGrows DEF Leaves
  <2>2. QED
    BY <1>3, <1>5, <1>14, <2>1 DEF Leaves
<1>15. CASE ReceiverReads \/ ReceiverEnds \/ HeartbeatSent \/ HeartbeatFails
  BY <1>4, <1>5, <1>15 DEF ReceiverReads, ReceiverEnds, HeartbeatSent, HeartbeatFails
<1>16. ASSUME NEW option \in Options, Chooses(option) PROVE STypes' /\ CTypes'
  <2>1. main' \in Composing
    BY <1>16, ReportsComposed DEF Chooses
  <2>2. QED
    BY <1>2, <1>5, <1>16, <2>1 DEF Chooses
<1>17. QED
  BY <1>6, <1>7, <1>8, <1>9, <1>10, <1>11, <1>12, <1>13, <1>14, <1>15, <1>16
  DEF MainActs, GivesUp, RegisterFails, GreetFails

-----------------------------------------------------------------------------
\* The initial values have their types.
LEMMA TInvInit == Init => TInv
<1> SUFFICES ASSUME Init PROVE TInv
  OBVIOUS
<1>1. /\ Len(<<>>) <= MaxSent /\ <<>> \in Seq(Packets) /\ <<>> \in Seq({"D", "other"})
  BY CommsAssumption
<1>2. STypes
  <2>1. state \in Server!States /\ journal \subseteq Server!States \X Server!States
    BY DEF Init, Server!Init, Server!States
  <2>2. verified = FALSE /\ unanswered = 0 /\ keys = <<>> /\ out = <<>>
    BY DEF Init, Server!Init
  <2>3. verified \in BOOLEAN
    BY <2>2
  <2>4. /\ pc = "accept" /\ link = "none" /\ aircraft_id = NoCallsign
        /\ held = NoPacket /\ owed = NoPacket
    BY DEF Init, Server!Init
  <2>5. QED
    BY <1>1, <2>1, <2>2, <2>3, <2>4, ReplyTypes DEF STypes
<1>3. CTypes
  BY <1>1 DEF Init, CTypes
<1>4. QED
  BY <1>2, <1>3, CInvInit DEF TInv

\* Every step keeps the types.
LEMMA TInvStep == TInv /\ [Next]_vars => TInv'
<1> SUFFICES ASSUME TInv, [Next]_vars PROVE STypes' /\ CTypes'
  BY CInvStep DEF TInv
<1>1. CASE UNCHANGED vars
  BY <1>1 DEF vars, serverSide, toServer, clientSide, TInv, STypes, CTypes
<1>2. ASSUME NEW k \in {"D", "other"}, ControllerPresses(k) PROVE STypes' /\ CTypes'
  <2>1. keys' \in Seq({"D", "other"}) /\ out' \in Seq(Server!ReplyKinds)
    BY <1>2, ReplyTypes DEF ControllerPresses, Server!PressKey, TInv, STypes
  <2>2. UNCHANGED <<pc, state, verified, aircraft_id, held, journal, link, owed, unanswered>>
    BY <1>2 DEF ControllerPresses, Server!PressKey, Server!serverVars
  <2>3. QED
    BY <1>2, <2>1, <2>2 DEF ControllerPresses, clientSide, TInv, STypes, CTypes
<1>3. QED
  BY <1>1, <1>2, ServerTypes, PathTypes, ClientTypes DEF Next

\* The variables of the client, of the server and of the connections between
\* them keep their types (TypeOK); in particular the connection the client
\* takes to be open is the one the server serves.
THEOREM CompositionTypes == Spec => []TypeOK
<1>1. QED
  BY TInvInit, TInvStep, TInvTypes, PTL DEF Spec

-----------------------------------------------------------------------------
(* The registration comes first.                                           *)

\* A handshake the client sends.
Registration(p) ==
    /\ p.type = "HANDSHAKE" /\ ~p.emergency /\ p.origin = 0
    /\ p.id = Callsign /\ p.len = "full"

\* The chunks begin with a whole registration.
Starts(s) == Len(s) >= 2 /\ Registration(s[1].pkt) /\ s[2].pkt = s[1].pkt

\* The aircraft is verified, or its registration comes next.
Verifying ==
    \/ verified
    \/ state = "HANDSHAKE" /\ pc # "payload" /\ Starts(inbox)
    \/ /\ state = "HANDSHAKE" /\ pc = "payload" /\ Registration(held)
       /\ inbox # <<>> /\ inbox[1].pkt = held

Registered == {"greet", "flush", "menu", "prompt"} \cup Composing

VInv ==
    /\ line = "open" => pc # "accept"
    /\ line = "open" /\ main = "register" =>
           inbox = <<>> /\ state = "HANDSHAKE" /\ pc # "payload"
    /\ line = "queued" /\ main = "register" => backlog[1].chunks = <<>>
    /\ line = "open" /\ main \in Registered => Verifying
    /\ line = "queued" /\ main \in Registered => Starts(backlog[1].chunks)

\* More packets do not change the beginning.
LEMMA StartsAppend ==
    ASSUME NEW S, NEW s \in Seq(S), NEW p
    PROVE  /\ Starts(s) => Starts(s \o Chunks(p))
           /\ s # <<>> => s \o Chunks(p) # <<>> /\ (s \o Chunks(p))[1] = s[1]
<1> DEFINE T == S \cup {Server!Header(p), Server!Payload(p)}
<1>1. s \in Seq(T) /\ Chunks(p) \in Seq(T)
  <2>1. s \in Seq(T)
    BY SeqMonotone
  <2>2. \A c, d \in T : <<c>> \in Seq(T) /\ <<c, d>> \in Seq(T)
    OBVIOUS
  <2>3. Server!Header(p) \in T /\ Server!Payload(p) \in T
    OBVIOUS
  <2>4. QED
    BY <2>1, <2>2, <2>3 DEF Chunks
<1> HIDE DEF T
<1>2. ASSUME NEW t \in Seq(T)
      PROVE  /\ Starts(s) => Starts(s \o t)
             /\ s # <<>> => s \o t # <<>> /\ (s \o t)[1] = s[1]
  BY <1>1 DEF Starts
<1>3. QED
  BY <1>1, <1>2

\* After the first chunk comes the second.
LEMMA StartsTail ==
    ASSUME NEW S, NEW s \in Seq(S), Starts(s)
    PROVE  /\ s # <<>> /\ Head(s) = s[1]
           /\ Tail(s) # <<>> /\ Tail(s)[1].pkt = s[1].pkt
<1>1. Len(s) >= 2 /\ s[2].pkt = s[1].pkt
  BY DEF Starts
<1>2. /\ s # <<>> /\ Head(s) = s[1]
      /\ Tail(s) \in Seq(S) /\ Len(Tail(s)) = Len(s) - 1 /\ Tail(s)[1] = s[2]
  BY <1>1
<1>3. Tail(s) # <<>>
  <2>1. Len(<<>>) = 0 /\ Len(s) \in Nat
    OBVIOUS
  <2>2. Len(Tail(s)) # 0
    BY <1>1, <1>2, <2>1
  <2>3. QED
    BY <2>1, <2>2, Zenon
<1>4. QED
  BY <1>1, <1>2, <1>3

\* The registration is the whole of what a new connection carries first.
LEMMA RegistrationStarts ==
    ASSUME NEW n, NEW phase
    PROVE  LET p == Handshake(n, phase)
           IN  Starts(Chunks(p)) /\ <<>> \o Chunks(p) = Chunks(p)
<1> DEFINE p == Handshake(n, phase)
<1>1. Registration(p) /\ Server!HasPayload(p)
  BY DEF Registration, Handshake, Server!HasPayload
<1>2. Chunks(p) = <<Server!Header(p), Server!Payload(p)>>
  BY <1>1 DEF Chunks
<1>3. \A c, d : /\ Len(<<c, d>>) = 2 /\ <<c, d>>[1] = c /\ <<c, d>>[2] = d
               /\ <<>> \o <<c, d>> = <<c, d>>
  OBVIOUS
<1>4. Server!Header(p).pkt = p /\ Server!Payload(p).pkt = p
  BY DEF Server!Header, Server!Payload
<1> HIDE DEF p
<1>5. QED
  BY <1>1, <1>2, <1>3, <1>4 DEF Starts, p

\* The registration of an unverified aircraft verifies it.
LEMMA RegistrationVerifies ==
    ASSUME NEW p, Registration(p), state = "HANDSHAKE", Server!Handle(p)
    PROVE  verified' = TRUE
<1>1. /\ ~p.emergency /\ ~Server!Foreign(p) /\ Server!PassesGate(p)
      /\ p.type = "HANDSHAKE" /\ p.id # NoCallsign
  BY CommsAssumption DEF Registration, Server!Foreign, Server!PassesGate,
     Server!is_allowed_before_handshake, Server!PreHandshakeTypes
<1>2. Server!HandleHandshake(p)
  BY <1>1 DEF Server!Handle, Server!HandleEmergency, Server!HandleBuffered,
     Server!HandleGated, Server!HandleTakeoff, Server!HandleTransit,
     Server!HandleLanding, Server!HandleMayday, Server!HandleLargeDataRequest,
     Server!HandleHandoffNotify, Server!HandleDisconnect, Server!HandleAck,
     Server!HandleUnknown, Server!HandledTypes, Server!Dispatched
<1>3. Server!Proceed(p, Server!InitialState(p), TRUE, <<"ack">>)
  BY <1>1, <1>2 DEF Server!HandleHandshake
<1>4. QED
  BY <1>3 DEF Server!Proceed, Server!Consume

\* Handling a packet verifies the aircraft or ends its session.
LEMMA HandleVerifies ==
    ASSUME NInv, VInv, NEW p \in Server!Arriving, ServerHandles(p)
    PROVE  VInv'
<1>1. HandleShape(p) /\ Server!Handle(p) /\ Replies
  BY HandleEffect DEF ServerHandles
<1>2. /\ UNCHANGED <<main, backlog>>
      /\ line' = IF line = "open" /\ pc' = "accept" THEN "closed" ELSE line
  BY <1>1 DEF Replies, clientSide
<1>3. CASE line # "open" \/ pc' = "accept"
  BY <1>2, <1>3 DEF VInv
<1>4. CASE line = "open" /\ pc' # "accept"
  <2>1. main # "register"
    BY <1>1, <1>4 DEF VInv, HandleShape
  <2>2. main \in Registered => verified'
    <3>1. CASE verified
      BY <1>1, <1>4, <3>1 DEF HandleShape
    <3>2. CASE state = "HANDSHAKE" /\ pc # "payload" /\ Starts(inbox)
      <4>1. Registration(p)
        BY <1>1, <3>2, StartsTail DEF HandleShape, Starts, NInv
      <4>2. QED
        BY <1>1, <3>2, <4>1 DEF HandleShape, Registration, Server!HasPayload
    <3>3. CASE state = "HANDSHAKE" /\ pc = "payload" /\ Registration(held)
      <4>1. Registration(p)
        BY <1>1, <3>3 DEF HandleShape
      <4>2. QED
        BY <1>1, <3>3, <4>1, RegistrationVerifies
    <3>4. QED
      BY <1>4, <3>1, <3>2, <3>3 DEF VInv, Verifying
  <2>3. QED
    BY <1>2, <1>4, <2>1, <2>2 DEF VInv, Verifying
<1>5. QED
  BY <1>3, <1>4

\* So do the other steps of the ground, and the loss of the path.
LEMMA GroundVerifies ==
    ASSUME NInv, LInv, VInv, GroundStep
    PROVE  VInv'
<1>1. UNCHANGED main
  BY GroundFrame DEF clientSide
<1>2. CASE Accepts
  <2>1. /\ pc' = "keys" /\ state' = "HANDSHAKE" /\ inbox' = backlog[1].chunks
        /\ line' = IF line = "queued" THEN "open" ELSE line
        /\ backlog # <<>>
    BY <1>2 DEF Accepts, Server!AcceptFrom
  <2>2. QED
    BY <1>1, <2>1 DEF VInv, LInv, Verifying
<1>3. CASE ServerWaits \/ WeatherSent
  <2>1. /\ UNCHANGED backlog
        /\ line' = IF line = "open" /\ pc' = "accept" THEN "closed" ELSE line
    BY <1>3, LoopEffect DEF Replies
  <2>2. CASE /\ UNCHANGED <<inbox, state, verified>>
             /\ {pc, pc'} \subseteq {"keys", "select", "send"}
    BY <1>1, <2>1, <2>2 DEF VInv, Verifying, Starts
  <2>3. CASE /\ inbox # <<>> /\ inbox' = Tail(inbox) /\ UNCHANGED <<state, verified>>
             /\ pc = "select" /\ pc' = "payload" /\ held' = Head(inbox).pkt
    <3>1. line = "open" => main # "register"
      BY <2>3 DEF VInv
    <3>2. Verifying => Verifying'
      <4>1. ASSUME Starts(inbox)
            PROVE  Registration(held') /\ inbox' # <<>> /\ inbox'[1].pkt = held'
        BY <2>3, <4>1, StartsTail DEF NInv, Starts
      <4>2. QED
        BY <2>3, <4>1 DEF Verifying
    <3>3. QED
      BY <1>1, <2>1, <2>3, <3>1, <3>2 DEF VInv
  <2>4. CASE pc' = "accept"
    BY <1>1, <2>1, <2>4 DEF VInv
  <2>5. QED
    BY <1>3, <2>2, <2>3, <2>4, LoopEffect
<1>4. CASE PathLost
  <2>1. line' \notin {"open", "queued"}
    BY <1>4 DEF PathLost
  <2>2. QED
    BY <2>1 DEF VInv
<1>5. ASSUME NEW k, ControllerPresses(k) PROVE VInv'
  <2>1. UNCHANGED <<line, backlog, inbox, state, verified, pc, held>>
    BY <1>5 DEF ControllerPresses, Server!PressKey, Server!serverVars
  <2>2. QED
    BY <1>1, <2>1 DEF VInv, Verifying
<1>6. QED
  BY <1>2, <1>3, <1>4, <1>5, HandleVerifies DEF GroundStep, ServerActs

\* The client's steps put nothing before the registration.
LEMMA ClientVerifies ==
    ASSUME NInv, LInv, VInv,
           MainActs \/ GivesUp \/ ReceiverReads \/ ReceiverEnds
              \/ HeartbeatSent \/ HeartbeatFails
    PROVE  VInv'
<1>1. /\ inbox \in Seq(ToldChunks)
      /\ line = "queued" => backlog[1].chunks \in Seq(ToldChunks)
  <2>1. inbox \in Seq(ToldChunks) /\ backlog \in Seq(Queued(ToldChunks))
    BY DEF NInv
  <2>2. line = "queued" => backlog[1] \in Queued(ToldChunks)
    BY <2>1, SeqParts DEF LInv
  <2>3. QED
    BY <2>1, <2>2 DEF Queued
\* A registered client stays one, is about to connect, or leaves.
<1>2. ASSUME UNCHANGED <<state, verified, pc, held, line, backlog>>,
             main \in Registered, main' \in Registered \cup {"connect", "leaving"},
             inbox' = inbox \/ \E p : inbox' = inbox \o Chunks(p)
      PROVE  VInv'
  <2>1. /\ Starts(inbox) => Starts(inbox')
        /\ inbox # <<>> => inbox' # <<>> /\ inbox'[1] = inbox[1]
    <3>1. ASSUME NEW p, inbox' = inbox \o Chunks(p)
          PROVE  /\ Starts(inbox) => Starts(inbox')
                 /\ inbox # <<>> => inbox' # <<>> /\ inbox'[1] = inbox[1]
      <4>1. /\ Starts(inbox) => Starts(inbox \o Chunks(p))
            /\ inbox # <<>> =>
                  inbox \o Chunks(p) # <<>> /\ (inbox \o Chunks(p))[1] = inbox[1]
        BY <1>1, StartsAppend
      <4>2. QED
        BY <3>1, <4>1
    <3>2. QED
      BY <1>2, <3>1
  <2>2. Verifying => Verifying'
    BY <1>2, <2>1 DEF Verifying
  <2>3. QED
    BY <1>2, <2>2 DEF VInv, Registered, Composing
<1>3. ASSUME NEW p, SendSucceeds(p) \/ SendFails,
             UNCHANGED <<state, verified, pc, held, line>>,
             main \in Registered, main' \in Registered \cup {"connect", "leaving"}
      PROVE  VInv'
  <2>1. CASE UNCHANGED backlog /\ (inbox' = inbox \/ inbox' = inbox \o Chunks(p))
    BY <1>2, <1>3, <2>1
  <2>2. CASE /\ line = "queued" /\ UNCHANGED inbox
             /\ backlog' = <<[backlog[1] EXCEPT !.chunks = @ \o Chunks(p)]>>
    <3>1. \A x : <<x>>[1] = x
      OBVIOUS
    <3>2. backlog'[1].chunks = backlog[1].chunks \o Chunks(p)
      <4>1. backlog[1] \in Queued(ToldChunks)
        BY <2>2, SeqParts DEF NInv, LInv
      <4>2. QED
        BY <2>2, <3>1, <4>1 DEF Queued
    <3>3. Starts(backlog[1].chunks) => Starts(backlog'[1].chunks)
      <4> DEFINE early == backlog[1].chunks
      <4>1. early \in Seq(ToldChunks)
        BY <1>1, <2>2
      <4> HIDE DEF early
      <4>2. Starts(early) => Starts(early \o Chunks(p))
        BY <4>1, StartsAppend
      <4>3. QED
        BY <3>2, <4>2 DEF early
    <3>4. QED
      BY <1>3, <2>2, <3>3 DEF VInv, Registered, Composing
  <2>3. QED
    BY <1>3, <2>1, <2>2 DEF SendSucceeds, SendFails
<1>4. CASE Connects
  BY <1>4 DEF Connects, VInv, Registered, Composing
<1>5. CASE Exits
  BY <1>5 DEF Exits, VInv
<1>6. CASE Registers
  <2> DEFINE p == Handshake(Len(sent) + 1, phase_state)
  <2>1. /\ main = "register" /\ main' = "greet" /\ SendSucceeds(p)
        /\ UNCHANGED <<state, verified, pc, held, line>>
    BY <1>6 DEF Registers, SendFrame, serverSide
  <2>2. Starts(Chunks(p)) /\ <<>> \o Chunks(p) = Chunks(p)
    BY RegistrationStarts
  <2> HIDE DEF p
  <2>3. CASE line = "open"
    <3>1. inbox' = inbox \o Chunks(p)
      BY <2>1, <2>3 DEF SendSucceeds
    <3>2. QED
      BY <2>1, <2>2, <2>3, <3>1 DEF VInv, Verifying
  <2>4. CASE line = "queued"
    <3>1. backlog' = <<[backlog[1] EXCEPT !.chunks = @ \o Chunks(p)]>>
      BY <2>1, <2>4 DEF SendSucceeds
    <3>2. backlog[1].chunks = <<>> /\ backlog[1] \in Queued(ToldChunks)
      BY <2>1, <2>4, SeqParts DEF VInv, NInv, LInv
    <3>3. backlog'[1].chunks = Chunks(p)
      BY <2>2, <3>1, <3>2 DEF Queued
    <3>4. QED
      BY <2>1, <2>2, <2>4, <3>3 DEF VInv
  <2>5. CASE line \notin {"open", "queued"}
    BY <2>1, <2>5 DEF VInv
  <2>6. QED
    BY <2>3, <2>4, <2>5
<1>7. CASE Greeted \/ Menu \/ Mistypes
  BY <1>2, <1>7 DEF Greeted, Menu, Mistypes, SendFrame, serverSide, Registered
<1>8. CASE Flush
  <2>1. /\ UNCHANGED <<state, verified, pc, held, line>>
        /\ main \in Registered /\ main' \in Registered
    BY <1>8 DEF Flush, SendFrame, serverSide, Registered
  <2>2. CASE SendSucceeds(Head(buffer)) \/ SendFails
    BY <1>3, <2>1, <2>2
  <2>3. CASE UNCHANGED <<inbox, backlog>>
    BY <1>2, <2>1, <2>3
  <2>4. QED
    BY <1>8, <2>2, <2>3 DEF Flush
<1>9. ASSUME NEW option \in Options, Reports(option) \/ Leaves(option) PROVE VInv'
  <2>1. /\ UNCHANGED <<state, verified, pc, held, line>>
        /\ main \in Registered /\ main' \in Registered \cup {"connect", "leaving"}
        /\ SendSucceeds(Command(option, Len(sent) + 1)) \/ SendFails
    BY <1>9, ReportsComposed DEF Reports, Leaves, SendFrame, serverSide, Registered
  <2>2. QED
    BY <1>3, <2>1
<1>10. CASE ReceiverReads \/ ReceiverEnds \/ HeartbeatSent \/ HeartbeatFails
  <2>1. /\ UNCHANGED <<state, verified, pc, held, line, backlog, main>>
        /\ main \in Registered
    BY <1>10 DEF ReceiverReads, ReceiverEnds, HeartbeatSent, HeartbeatFails,
                 ThreadFrame, serverSide, InMenu, Registered
  <2>2. inbox' = inbox \/ inbox' = inbox \o Chunks(Heartbeat)
    <3>1. Chunks(Heartbeat) = <<Server!Header(Heartbeat)>>
      BY DEF Heartbeat, Chunks, Server!HasPayload
    <3>2. Append(inbox, Server!Header(Heartbeat)) = inbox \o Chunks(Heartbeat)
      BY <1>1, <3>1
    <3>3. QED
      BY <1>10, <3>2 DEF ReceiverReads, ReceiverEnds, HeartbeatSent, HeartbeatFails
  <2>3. QED
    BY <1>2, <2>1, <2>2
<1>11. ASSUME NEW option \in Options, Chooses(option) PROVE VInv'
  <2>1. main = "prompt" /\ main' \in Composing
    BY <1>11, ReportsComposed DEF Chooses
  <2>2. QED
    BY <1>2, <1>11, <2>1 DEF Chooses, SendFrame, serverSide, Registered
<1>12. QED
  BY <1>4, <1>5, <1>6, <1>7, <1>8, <1>9, <1>10, <1>11
  DEF MainActs, GivesUp, RegisterFails, GreetFails

\* MenuMeansVerified: whichever ACK let the pilot into the menu, the ground
\* controller has verified the aircraft once it has handled what was sent.
THEOREM MenuIsVerified == Spec => []MenuMeansVerified
<1>1. Init => CInv /\ VInv
  BY CInvInit DEF Init, VInv
<1>2. CInv /\ VInv /\ [Next]_vars => (CInv /\ VInv)'
  <2> SUFFICES ASSUME CInv, VInv, [Next]_vars PROVE VInv'
    BY CInvStep
  <2>1. CASE UNCHANGED vars
    <3>1. UNCHANGED <<main, line, backlog, inbox, state, verified, pc, held>>
      BY <2>1 DEF vars, serverSide, toServer, clientSide
    <3>2. QED
      BY <3>1 DEF VInv, Verifying
  <2>2. QED
    BY <2>1, GroundVerifies, ClientVerifies DEF Next, GroundStep, CInv
<1>3. VInv => MenuMeansVerified
  <2> SUFFICES ASSUME VInv, InMenu, line = "open", inbox = <<>> PROVE verified
    BY DEF MenuMeansVerified
  <2>1. Len(<<>>) = 0
    OBVIOUS
  <2>2. QED
    BY <2>1 DEF VInv, InMenu, Registered, Verifying, Starts
<1>4. QED
  BY <1>1, <1>2, <1>3, PTL DEF Spec

-----------------------------------------------------------------------------
(* The sessions.                                                           *)

\* Every step of the composition does to the server's session what a step of
\* ATCServer does: it opens one, goes on with it, ends it, or leaves it alone.
LEMMA ComposedStep == TInv /\ [Next]_vars => SP!SessionStep
<1> SUFFICES ASSUME TInv, [Next]_vars PROVE SP!SessionStep
  OBVIOUS
<1>1. SP!PacketsAssumption /\ SP!BoundsAssumption /\ SP!TypeOK
  BY ServerAssumptions, SameTypes
<1>2. SP!Next => SP!SessionStep
  BY <1>1, SP!StepCases
<1>3. CASE Accepts
  BY <1>3 DEF Accepts, Server!AcceptFrom, Server!Answerable, Server!Foreign,
     Server!Cardinality, Server!AnswerableIn, SP!AnswerableIn,
     SP!SessionStep, SP!Opens, SP!AcceptFrom, SP!Answerable,
     SP!Foreign, SP!Cardinality
<1>4. CASE ServerWaits \/ WeatherSent
  BY <1>2, <1>4, SameLoop DEF SP!Next
<1>5. ASSUME NEW p \in Server!Arriving, ServerHandles(p) PROVE SP!SessionStep
  <2>1. SP!Handle(p)
    BY <1>5, SameHandler DEF ServerHandles
  <2>2. p \in SP!Arriving
    BY DEF Server!Arriving, SP!Arriving
  <2>3. QED
    BY <1>2, <2>1, <2>2 DEF SP!Next, SP!ServerStep
<1>6. ASSUME UNCHANGED <<state, verified, aircraft_id, journal, pc>> PROVE SP!SessionStep
  BY <1>6 DEF SP!SessionStep, SP!Stays
<1>7. CASE \E k \in {"D", "other"} : ControllerPresses(k)
  BY <1>6, <1>7 DEF ControllerPresses, Server!PressKey, Server!serverVars
<1>8. CASE Exits
  BY <1>6, <1>8 DEF Exits, serverSide
<1>9. CASE MainActs
  BY <1>6, <1>8, <1>9 DEF MainActs, Connects, Registers, RegisterFails, Greeted,
     GreetFails, Flush, Menu, Chooses, Reports, Leaves, Mistypes, SendFrame, serverSide
<1>10. CASE PathLost \/ GivesUp
  BY <1>6, <1>8, <1>10 DEF PathLost, GivesUp, serverSide
<1>11. CASE ReceiverReads \/ ReceiverEnds \/ HeartbeatSent \/ HeartbeatFails
  BY <1>6, <1>11 DEF ReceiverReads, ReceiverEnds, HeartbeatSent, HeartbeatFails,
     ThreadFrame, serverSide
<1>12. CASE UNCHANGED vars
  BY <1>6, <1>12 DEF vars, serverSide
<1>13. QED
  BY <1>3, <1>4, <1>5, <1>7, <1>9, <1>10, <1>11, <1>12 DEF Next, ServerActs

\* What holds of the server throughout holds of it in the composition.
LEMMA ComposedInvariance == Spec => [](TInv /\ SP!IInv)
<1>1. Init => TInv /\ SP!IInv
  <2>1. Init => SP!Init
    BY DEF Init, Server!Init, SP!Init
  <2>2. QED
    BY <2>1, TInvInit, ServerAssumptions, SP!InductiveInit
<1>2. TInv /\ SP!IInv /\ [Next]_vars /\ SP!TypeOK' => SP!IInv'
  BY ServerAssumptions, ComposedStep, SP!SessionStepKeeps
<1>3. QED
  BY <1>1, <1>2, TInvStep, SameTypes, PTL DEF Spec

\* In the composition too, no aircraft is shown in flight or in MAYDAY before a
\* handshake verified it, and the log of a session is one path, whatever waited
\* in the backlog and whatever an earlier session left in buffer and keys
\* (VerifiedBeforeFlight, JournalIsAPath of ATCServer).
THEOREM SessionsVerified == Spec => [](Server!VerifiedBeforeFlight /\ Server!JournalIsAPath)
<1>1. SP!IInv => Server!VerifiedBeforeFlight /\ Server!JournalIsAPath
  <2>1. SP!IInv => SP!VerifiedBeforeFlight /\ SP!JournalIsAPath
    BY ServerAssumptions, SP!InvariantSafe
  <2>2. QED
    BY <2>1 DEF SP!VerifiedBeforeFlight, SP!JournalIsAPath, Server!VerifiedBeforeFlight,
       Server!JournalIsAPath, Server!FlightStates, SP!FlightStates
<1>2. QED
  BY <1>1, ComposedInvariance, PTL

\* And only the end of a session leaves MAYDAY (MaydayLatched of ATCServer).
THEOREM SessionsLatch == Spec => Server!MaydayLatched
<1>1. TInv /\ SP!IInv /\ [Next]_vars =>
        [state = "MAYDAY" /\ state' # "MAYDAY" =>
            pc' = "accept" /\ <<"MAYDAY", "DISCONNECTED">> \in journal']_(Server!vars)
  BY ServerAssumptions, ComposedStep, SP!SessionStepLatches
<1>2. QED
  BY <1>1, ComposedInvariance, PTL DEF Spec, Server!MaydayLatched

\* The composition implements ATCSession (EverySessionPromised): each of its
\* steps, the client's, the network's and the server's, is one step of the
\* abstract session or leaves its variables alone.
THEOREM SessionsKeepPromise == Spec => EverySessionPromised
<1>1. Init => Server!Session!Init
  BY DEF Init, Server!Init, Server!Session!Init
<1>2. TInv /\ SP!IInv /\ [Next]_vars => [Server!Session!Next]_(Server!Session!sessionVars)
  <2> SUFFICES ASSUME TInv, SP!IInv, [Next]_vars
               PROVE  [Server!Session!Next]_(Server!Session!sessionVars)
    OBVIOUS
  <2>1. [SP!Session!Next]_(SP!Session!sessionVars)
    BY ServerAssumptions, ComposedStep, SP!SessionStepPromised
  <2>2. QED
    BY <2>1 DEF SP!Session!Next, SP!Session!Open, SP!Session!Verify, SP!Session!Advance,
       SP!Session!Emergency, SP!Session!Close, SP!Session!FlightStates,
       SP!Session!sessionVars,
       Server!Session!Next, Server!Session!Open, Server!Session!Verify, Server!Session!Advance,
       Server!Session!Emergency, Server!Session!Close, Server!Session!FlightStates,
       Server!Session!sessionVars
<1>3. QED
  BY <1>1, <1>2, ComposedInvariance, PTL
  DEF Spec, EverySessionPromised, Server!SessionPromise, Server!Session!Spec
=============================================================================
