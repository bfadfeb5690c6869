--------------------------- MODULE ATCServerProofs ---------------------------
(***************************************************************************)
(* Theorems about ATCServer, for every set of packets and callsigns and    *)
(* every bound: its types, that no aircraft flies unverified, that the     *)
(* session log is a path, that MAYDAY is latched, and that the server      *)
(* implements the promise of a session (ATCSession).                       *)
(***************************************************************************)
EXTENDS ATCServer, FiniteSetTheorems, TLAPS

\* A reply sequence holds a natural number of answers.
LEMMA AnswersType ==
    ASSUME NEW replies \in Seq(ReplyKinds)
    PROVE  Answers(replies) \in Nat
<1>1. IsFiniteSet(1 .. Len(replies))
  BY FS_Interval
<1>2. {i \in DOMAIN replies : replies[i] \in AnswerKinds} \subseteq 1 .. Len(replies)
  OBVIOUS
<1>3. QED
  BY <1>1, <1>2, FS_Subset, FS_CardinalityType DEF Answers

\* The answerable headers of a sequence of chunks.
Headers(s) == {i \in DOMAIN s : s[i].part = "header" /\ Answerable(s[i].pkt)}

\* They can be counted.
LEMMA HeadersFinite ==
    ASSUME NEW s \in Seq(Chunks)
    PROVE  /\ IsFiniteSet(Headers(s))
           /\ AnswerableIn(s) = Cardinality(Headers(s)) /\ AnswerableIn(s) \in Nat
<1>1. Headers(s) \subseteq 1 .. Len(s)
  BY DEF Headers
<1>2. IsFiniteSet(1 .. Len(s))
  BY FS_Interval
<1>3. QED
  BY <1>1, <1>2, FS_Subset, FS_CardinalityType DEF AnswerableIn, Headers

\* No chunks hold no header, and what is not yet handled is a number.
LEMMA UnhandledType ==
    /\ AnswerableIn(<<>>) = 0
    /\ TypeOK => Unhandled \in Nat
<1>1. Headers(<<>>) = {}
  BY DEF Headers
<1>2. AnswerableIn(<<>>) = Cardinality({})
  BY <1>1 DEF AnswerableIn, Headers
<1>3. TypeOK => Unhandled \in Nat
  BY HeadersFinite DEF TypeOK, Unhandled, Due
<1>4. QED
  BY <1>2, <1>3, FS_EmptySet

\* What is discarded when a packet ends the session is a number.
LEMMA DiscardedType ==
    ASSUME TypeOK, inbox # <<>>
    PROVE  AnswerableIn(Tail(inbox)) \in Nat
<1>1. Tail(inbox) \in Seq(Chunks)
  BY DEF TypeOK
<1>2. QED
  BY <1>1, HeadersFinite

\* What is left of the input keeps its type, and so does the count.
LEMMA KeepsType ==
    ASSUME TypeOK, NEW kept \in Seq(Chunks), Keeps(kept)
    PROVE  inbox' \in Seq(Chunks) /\ unanswered' \in Int
<1>1. AnswerableIn(inbox) \in Nat /\ AnswerableIn(kept) \in Nat /\ unanswered \in Int
  BY HeadersFinite DEF TypeOK
<1>2. unanswered' = unanswered - AnswerableIn(inbox) + AnswerableIn(kept)
  BY DEF Keeps
<1>3. unanswered' \in Int
  BY <1>1, <1>2
<1>4. QED
  BY <1>3 DEF Keeps

\* A packet's callsign has the type of aircraft_id.
LEMMA CallsignType ==
    ASSUME NEW p \in Packets
    PROVE  p.id \in Callsigns \cup {NoCallsign}
BY PacketsAssumption DEF PacketSpace

\* Handling a packet keeps the types.
LEMMA ConsumeType ==
    ASSUME TypeOK, NEW p \in Packets, inbox # <<>>,
           NEW s \in States, NEW v \in BOOLEAN, NEW replies \in Seq(ReplyKinds),
           pc' \in {"keys", "send"}, Consume(p, s, v, replies)
    PROVE  TypeOK'
<1>1. inbox' \in Seq(Chunks)
  BY DEF TypeOK, Consume
<1>2. aircraft_id' \in Callsigns \cup {NoCallsign}
  BY CallsignType DEF TypeOK, Consume, CapturedId
<1>3. journal' \subseteq States \X States
  BY DEF TypeOK, Consume
<1>4. unanswered' \in Int
  BY AnswersType DEF TypeOK, Consume
<1>5. QED
  BY <1>1, <1>2, <1>3, <1>4 DEF TypeOK, Consume

\* Ending a session keeps the types.
LEMMA EndSessionType ==
    ASSUME TypeOK, NEW s \in States, NEW walked \in SUBSET (States \X States),
           NEW replies \in Seq(ReplyKinds), NEW discarded \in Nat,
           EndSession(s, walked, replies, discarded), keys' \in Seq({"D", "other"})
    PROVE  TypeOK'
<1>1. {"IDLE", "DISCONNECTED"} \subseteq States
  BY DEF States
<1>2. ClosingHops(s) \subseteq States \X States
  BY <1>1 DEF ClosingHops
<1>3. journal' \subseteq States \X States
  BY <1>2 DEF TypeOK, EndSession
<1>4. <<>> \in Seq(Chunks)
  OBVIOUS
<1>5. state' \in States
  BY <1>1 DEF EndSession
<1>6. pc' = "accept" /\ link' = "none" /\ verified' = FALSE
  BY DEF EndSession
<1>7. aircraft_id' = NoCallsign /\ held' = NoPacket /\ owed' = NoPacket
  BY DEF EndSession
<1>8. inbox' \in Seq(Chunks) /\ out' \in Seq(ReplyKinds) /\ unanswered' \in Int
  BY <1>4, AnswersType DEF EndSession, TypeOK
<1>9. QED
  BY <1>3, <1>5, <1>6, <1>7, <1>8 DEF TypeOK

\* Where the walk of a disconnect ends, and that it logs pairs of states.
LEMMA WalkType ==
    ASSUME TypeOK
    PROVE  WalkEnd \in States /\ Walked \subseteq States \X States
<1>1. ASSUME NEW s \in States, NEW t \in States
      PROVE  HopTo(s, t) \in States
  BY DEF HopTo
<1>2. {"TRANSIT", "LANDING", "DISCONNECTED"} \subseteq States
  BY DEF States
<1>3. state \in States
  BY DEF TypeOK
<1>4. WalkToTransit \in States
  BY <1>1, <1>2, <1>3 DEF WalkToTransit
<1>5. WalkToLanding \in States
  BY <1>1, <1>2, <1>4 DEF WalkToLanding
<1>6. WalkEnd \in States
  BY <1>1, <1>2, <1>5 DEF WalkEnd
<1>7. QED
  BY <1>3, <1>4, <1>5, <1>6 DEF Walked

\* What a handled packet may do to the session: nothing; verify it and enter
\* the declared phase; advance a verified one; turn a flight into a MAYDAY.
Moves(p, s, v) ==
    \/ s = state /\ v = verified
    \/ /\ state = "HANDSHAKE" /\ s \in {"HANDSHAKE", "TRANSIT", "LANDING"}
       /\ v = TRUE /\ p.id # NoCallsign
    \/ /\ verified /\ v = verified
       /\ <<state, s>> \in {<<"HANDSHAKE", "TAKEOFF">>, <<"TAKEOFF", "TRANSIT">>,
                            <<"TRANSIT", "LANDING">>}
    \/ state \in FlightStates /\ s = "MAYDAY" /\ v = verified

\* The four things a step does to the session, seen from pc.
Opens == \E l, early : AcceptFrom(l, early)
Goes == \E p \in Packets, s \in States, v \in BOOLEAN, r \in Seq(ReplyKinds) :
            Moves(p, s, v) /\ pc' \in {"keys", "send"} /\ Consume(p, s, v, r)
Ends == \E r \in Seq(ReplyKinds), d \in Nat :
            EndSession(state, {}, r, d) \/ EndSession(WalkEnd, Walked, r, d)
Stays == UNCHANGED <<state, verified, aircraft_id, journal>>
            /\ (pc' = "accept" <=> pc = "accept")
SessionStep == Opens \/ (pc # "accept" /\ (Goes \/ Ends)) \/ Stays

\* Every handler either moves the session and goes round the loop, or ends it.
LEMMA HandleCases ==
    ASSUME TypeOK, NEW p \in Packets, Handle(p)
    PROVE  /\ inbox # <<>> /\ pc # "accept"
           /\ Goes \/ (Ends /\ UNCHANGED keys)
<1>1. inbox # <<>> /\ pc # "accept"
  BY DEF Handle, HandleEmergency, HandleBuffered, HandleGated, HandleHandshake,
         HandleTakeoff, HandleTransit, HandleLanding, HandleMayday,
         HandleLargeDataRequest, HandleHandoffNotify, HandleDisconnect,
         HandleAck, HandleUnknown, Dispatched, Received
<1> SUFFICES Goes \/ (Ends /\ UNCHANGED keys)
  BY <1>1
<1>2. state \in States /\ verified \in BOOLEAN
  BY DEF TypeOK
<1>3. {"HANDSHAKE", "TAKEOFF", "TRANSIT", "LANDING", "MAYDAY"} \subseteq States
  BY DEF States
<1>4. /\ <<>> \in Seq(ReplyKinds) /\ <<"ack">> \in Seq(ReplyKinds)
      /\ \A r \in ReplyKinds : <<r>> \in Seq(ReplyKinds)
  BY DEF ReplyKinds, AnswerKinds
<1>5. {"ack", "error", "departure", "cleared", "not_cleared"} \subseteq ReplyKinds
  BY DEF ReplyKinds, AnswerKinds
<1>6. ASSUME NEW r \in Seq(ReplyKinds), Proceed(p, state, verified, r) PROVE Goes
  BY <1>2, <1>6 DEF Proceed, Goes, Moves
<1>7. ASSUME Reject(p) PROVE Goes
  BY <1>4, <1>5, <1>6, <1>7 DEF Reject
<1>8. ASSUME NEW s \in States, NEW r \in ReplyKinds, Moves(p, s, verified),
             Grant(p, s, r)
      PROVE  Goes
  BY <1>2, <1>4, <1>8 DEF Grant, Proceed, Goes
<1>9. ASSUME NEW type \in PacketTypes, Dispatched(p, type),
             type \notin PreHandshakeTypes
      PROVE  verified
  BY <1>9 DEF Dispatched, PassesGate, is_allowed_before_handshake
<1>10. CASE HandleEmergency(p)
  BY <1>2, <1>3, <1>5, <1>8, <1>10 DEF HandleEmergency, Moves
<1>11. CASE HandleBuffered(p)
  BY <1>2, <1>5, <1>8, <1>11 DEF HandleBuffered, Moves
<1>12. CASE HandleGated(p)
  BY <1>7, <1>12 DEF HandleGated
<1>13. CASE HandleHandshake(p)
  <2>1. InitialState(p) \in {"HANDSHAKE", "TRANSIT", "LANDING"}
    BY DEF InitialState
  <2>2. CASE state = "HANDSHAKE" /\ p.id # NoCallsign
              /\ Proceed(p, InitialState(p), TRUE, <<"ack">>)
    <3>1. Moves(p, InitialState(p), TRUE)
      BY <2>1, <2>2 DEF Moves
    <3>2. QED
      BY <1>3, <1>4, <1>5, <2>1, <2>2, <3>1 DEF Proceed, Goes
  <2>3. QED
    BY <1>7, <1>13, <2>2 DEF HandleHandshake
<1>14. CASE HandleTakeoff(p)
  <2>1. verified
    BY <1>9, <1>14 DEF HandleTakeoff, PacketTypes, PreHandshakeTypes
  <2>2. state \in {"HANDSHAKE", "TAKEOFF"} => Moves(p, "TAKEOFF", verified)
    BY <2>1 DEF Moves
  <2>3. QED
    BY <1>3, <1>5, <1>7, <1>8, <1>14, <2>2 DEF HandleTakeoff
<1>15. CASE HandleTransit(p)
  <2>1. verified
    BY <1>9, <1>15 DEF HandleTransit, PacketTypes, PreHandshakeTypes
  <2>2. state \in {"TAKEOFF", "TRANSIT"} => Moves(p, "TRANSIT", verified)
    BY <2>1 DEF Moves
  <2>3. QED
    BY <1>3, <1>5, <1>7, <1>8, <1>15, <2>2 DEF HandleTransit
<1>16. CASE HandleLanding(p)
  <2>1. verified
    BY <1>9, <1>16 DEF HandleLanding, PacketTypes, PreHandshakeTypes
  <2>2. state \in {"TRANSIT", "LANDING"} => Moves(p, "LANDING", verified)
    BY <2>1 DEF Moves
  <2>3. QED
    BY <1>3, <1>5, <1>7, <1>8, <1>16, <2>2 DEF HandleLanding
<1>17. CASE HandleMayday(p)
  <2>1. state \in FlightStates \cup {"MAYDAY"} => Moves(p, "MAYDAY", verified)
    BY DEF Moves
  <2>2. QED
    BY <1>3, <1>5, <1>7, <1>8, <1>17, <2>1 DEF HandleMayday
<1>18. CASE HandleLargeDataRequest(p)
  <2>1. Moves(p, state, verified)
    BY DEF Moves
  <2>2. pc' \in {"keys", "send"} /\ Consume(p, state, verified, <<"ack">>)
    BY <1>18 DEF HandleLargeDataRequest
  <2>3. QED
    BY <1>2, <1>4, <2>1, <2>2 DEF Goes
<1>19. CASE HandleHandoffNotify(p)
  BY <1>1, <1>4, <1>19, DiscardedType DEF HandleHandoffNotify, Ends
<1>20. CASE HandleDisconnect(p)
  BY <1>1, <1>4, <1>20, DiscardedType DEF HandleDisconnect, Ends
<1>21. CASE HandleAck(p)
  BY <1>4, <1>6, <1>21 DEF HandleAck
<1>22. CASE HandleUnknown(p)
  BY <1>7, <1>22 DEF HandleUnknown
<1>23. QED
  BY <1>10, <1>11, <1>12, <1>13, <1>14, <1>15, <1>16, <1>17, <1>18,
     <1>19, <1>20, <1>21, <1>22 DEF Handle

\* Every step keeps the types, and does one of the four things.
LEMMA StepCases == TypeOK /\ [Next]_vars => TypeOK' /\ SessionStep
<1> SUFFICES ASSUME TypeOK, [Next]_vars
             PROVE  TypeOK' /\ (Opens \/ (pc # "accept" /\ (Goes \/ Ends)) \/ Stays)
  BY DEF SessionStep
<1>1. /\ {"IDLE", "HANDSHAKE"} \subseteq States
      /\ {} \in SUBSET (States \X States) /\ state \in States
  BY DEF States, TypeOK
<1>2. /\ <<>> \in Seq(ReplyKinds) /\ <<"ack0">> \in Seq(ReplyKinds)
      /\ <<"ack">> \in Seq(ReplyKinds) /\ <<"keepalive">> \in Seq(ReplyKinds)
      /\ <<"weather">> \in Seq(ReplyKinds)
  BY DEF ReplyKinds, AnswerKinds
<1>3. \A p \in Packets : Header(p) \in Chunks /\ Payload(p) \in Chunks
  BY DEF Header, Payload, Chunks
<1>4. CASE Accept
  <2>1. state' \in States /\ journal' \subseteq States \X States
    BY <1>1, <1>4 DEF Accept, AcceptFrom
  <2>2. inbox' \in Seq(Chunks) /\ out' \in Seq(ReplyKinds)
        /\ keys' \in Seq({"D", "other"})
    BY <1>2, <1>4 DEF Accept, AcceptFrom, TypeOK
  <2>6. unanswered' \in Int
    BY <1>4, UnhandledType DEF Accept, AcceptFrom, TypeOK
  <2>3. verified' = FALSE /\ aircraft_id' = NoCallsign /\ held' = NoPacket
    BY <1>4 DEF Accept, AcceptFrom
  <2>4. pc' = "keys" /\ link' = "open" /\ owed' = NoPacket
    BY <1>4 DEF Accept, AcceptFrom
  <2>5. QED
    BY <1>4, <2>1, <2>2, <2>6, <2>3, <2>4 DEF TypeOK, Accept, Opens
<1>5. ASSUME NEW r \in {<<>>, <<"ack0">>}, EndSession(state, {}, r, Unhandled),
             keys' \in Seq({"D", "other"})
      PROVE  TypeOK' /\ Ends
  BY <1>1, <1>2, <1>5, EndSessionType, UnhandledType DEF Ends
<1>6. CASE ControllerDisconnects
  <2>1. keys' \in Seq({"D", "other"})
    BY <1>6 DEF ControllerDisconnects, TypeOK
  <2>2. QED
    BY <1>5, <1>6, <2>1 DEF ControllerDisconnects
<1>7. CASE NoDisconnectKey
  BY <1>2, <1>7 DEF NoDisconnectKey, Stays, TypeOK
<1>8. CASE SelectTimesOut
  BY <1>2, <1>8 DEF SelectTimesOut, Stays, TypeOK
<1>9. CASE KeepaliveFails
  BY <1>5, <1>9 DEF KeepaliveFails, TypeOK
<1>10. CASE RecvFails
  BY <1>5, <1>10 DEF RecvFails, TypeOK
<1>11. CASE RecvRejects
  BY <1>5, <1>11 DEF RecvRejects, TypeOK
<1>12. CASE RecvHeader
  <2>1. Head(inbox) \in Chunks /\ inbox' \in Seq(Chunks)
    BY <1>12 DEF RecvHeader, TypeOK
  <2>2. held' \in Packets
    BY <1>12, <2>1 DEF RecvHeader, Chunks
  <2>3. QED
    BY <1>2, <1>12, <2>1, <2>2 DEF RecvHeader, Stays, TypeOK
<1>13. ASSUME NEW p \in Packets, Handle(p)
       PROVE  TypeOK' /\ pc # "accept" /\ (Goes \/ Ends)
  <2>1. inbox # <<>> /\ pc # "accept"
    BY <1>13, HandleCases
  <2>2. CASE Goes
    BY <2>1, <2>2, ConsumeType DEF Goes
  <2>3. CASE Ends /\ UNCHANGED keys
    <3>1. keys' \in Seq({"D", "other"})
      BY <2>3 DEF TypeOK
    <3>2. QED
      BY <1>1, <2>1, <2>3, <3>1, EndSessionType, WalkType DEF Ends
  <2>4. QED
    BY <1>13, <2>2, <2>3, HandleCases
<1>14. ASSUME NEW p \in Packets, Sends(p) PROVE TypeOK' /\ Stays
  <2>1. inbox' \in Seq(Chunks) /\ owed' \in Packets \cup {NoPacket}
    BY <1>3, <1>14 DEF Sends, TypeOK
  <2>2. unanswered' \in Int
    BY <1>14 DEF Sends, TypeOK
  <2>3. QED
    BY <1>2, <1>14, <2>1, <2>2 DEF Sends, Stays, TypeOK, serverVars
<1>15. CASE SendsPayload
  <2>1. inbox' \in Seq(Chunks)
    BY <1>3, <1>15 DEF SendsPayload, TypeOK
  <2>2. QED
    BY <1>2, <1>15, <2>1 DEF SendsPayload, Stays, TypeOK, serverVars
<1>16. CASE Closes
  <2>1. inbox \in Seq(Chunks) /\ <<>> \in Seq(Chunks)
    BY DEF TypeOK
  <2>2. Keeps(inbox) \/ Keeps(<<>>)
    BY <1>16 DEF Closes
  <2>3. inbox' \in Seq(Chunks) /\ unanswered' \in Int
    BY <2>1, <2>2, KeepsType
  <2>4. link' = "closed" /\ out' = <<>> /\ UNCHANGED <<serverVars, keys, owed>>
    BY <1>16 DEF Closes
  <2>5. QED
    BY <1>2, <2>3, <2>4 DEF Stays, TypeOK, serverVars
<1>17. CASE LinkLost
  BY <1>2, <1>17 DEF LinkLost, Stays, TypeOK, serverVars
<1>18. ASSUME NEW k \in {"D", "other"}, PressKey(k) PROVE TypeOK' /\ Stays
  BY <1>2, <1>18 DEF PressKey, Stays, TypeOK, serverVars
<1>19. CASE UNCHANGED vars
  BY <1>19 DEF vars, serverVars, networkVars, Stays, TypeOK
<1>20. ASSUME NEW r \in {<<>>, <<"weather">>}, LargeDataEnds(r) PROVE TypeOK' /\ Stays
  BY <1>2, <1>20 DEF LargeDataEnds, Stays, TypeOK
<1>21. LargeDataSent \/ LargeDataFails => TypeOK' /\ Stays
  BY <1>20 DEF LargeDataSent, LargeDataFails
<1>22. Arriving \subseteq Packets
  <2>1. inbox # <<>> => Head(inbox) \in Chunks
    BY DEF TypeOK
  <2>2. QED
    BY <2>1 DEF Arriving, Chunks
<1>23. CASE ServerStep
  <2>1. CASE ControllerDisconnects
    BY <1>6, <2>1 DEF ControllerDisconnects
  <2>2. CASE KeepaliveFails \/ RecvFails \/ RecvRejects
    BY <1>9, <1>10, <1>11, <2>2 DEF KeepaliveFails, RecvFails, RecvRejects
  <2>3. QED
    BY <1>7, <1>8, <1>12, <1>13, <1>21, <1>22, <1>23, <2>1, <2>2 DEF ServerStep
<1>24. CASE Environment
  BY <1>14, <1>15, <1>16, <1>17, <1>18, <1>24 DEF Environment
<1>25. QED
  BY <1>4, <1>19, <1>21, <1>23, <1>24 DEF Next

\* The server starts with variables of the right types.
LEMMA InitType == Init => TypeOK
<1> SUFFICES ASSUME Init PROVE TypeOK
  OBVIOUS
<1>1. state \in States /\ journal \subseteq States \X States
  BY DEF Init, States
<1>2. /\ inbox \in Seq(Chunks) /\ out \in Seq(ReplyKinds)
      /\ keys \in Seq({"D", "other"}) /\ unanswered \in Int
  BY DEF Init
<1>3. verified = FALSE /\ aircraft_id = NoCallsign /\ held = NoPacket
      /\ pc = "accept" /\ link = "none" /\ owed = NoPacket
  BY DEF Init
<1>4. QED
  BY <1>1, <1>2, <1>3 DEF TypeOK

\* The variables of the server keep their types (TypeOK): those of
\* handle_client and of the connection it reads from.
THEOREM TypeCorrect == Spec => []TypeOK
<1>1. TypeOK /\ [Next]_vars => TypeOK'
  BY StepCases
<1>2. QED
  BY <1>1, InitType, PTL DEF Spec

-----------------------------------------------------------------------------
(* The session log.  A state has a rank as the source of a transition and  *)
(* one as its target; they differ only for IDLE, where a session's path    *)
(* begins and ends.                                                        *)

SourceRank == [s \in States |->
    CASE s = "IDLE" -> 0      [] s = "HANDSHAKE" -> 1 [] s = "TAKEOFF" -> 2
      [] s = "TRANSIT" -> 3   [] s = "LANDING" -> 4   [] s = "MAYDAY" -> 5
      [] s = "DISCONNECTED" -> 6]
TargetRank == [s \in States |-> IF s = "IDLE" THEN 7 ELSE SourceRank[s]]

\* J is a path that ends in s, whose sources are below r and whose targets
\* are at most r.
Path(J, s, r) ==
    /\ \A e \in J : SourceRank[e[1]] < r /\ TargetRank[e[2]] <= r
    /\ \A e, f \in J : (e[1] = f[1] \/ e[2] = f[2]) => e = f
    /\ \A e \in J : e[2] = s \/ \E f \in J : f[1] = e[2]

\* The ranks are numbers below 8.
LEMMA Ranks ==
    ASSUME NEW s \in States
    PROVE  SourceRank[s] \in 0 .. 6 /\ TargetRank[s] \in 1 .. 7
BY DEF SourceRank, TargetRank, States

\* A hop to a higher rank extends a path.
LEMMA PathExtends ==
    ASSUME NEW J \in SUBSET (States \X States), NEW s \in States, NEW t \in States,
           Path(J, s, SourceRank[s]), SourceRank[s] < TargetRank[t]
    PROVE  Path(J \cup {<<s, t>>}, t, TargetRank[t])
<1> DEFINE K == J \cup {<<s, t>>}
<1> DEFINE r == SourceRank[s]
<1> DEFINE q == TargetRank[t]
<1>1. /\ r \in Int /\ q \in Int /\ r < q
      /\ \A e \in J : e[1] \in States /\ e[2] \in States /\ e = <<e[1], e[2]>>
  BY Ranks
<1>2. \A e \in J : SourceRank[e[1]] \in Int /\ TargetRank[e[2]] \in Int
  BY <1>1, Ranks
<1>3. \A e \in J : SourceRank[e[1]] < r /\ TargetRank[e[2]] <= r
  BY DEF Path
<1>4. \A e \in K : SourceRank[e[1]] < q /\ TargetRank[e[2]] <= q
  BY <1>1, <1>2, <1>3
<1>5. \A e \in J : e[1] # s /\ e[2] # t
  BY <1>1, <1>2, <1>3
<1>6. \A e, f \in K : (e[1] = f[1] \/ e[2] = f[2]) => e = f
  BY <1>5 DEF Path
<1>7. \A e \in K : e[2] = t \/ \E f \in K : f[1] = e[2]
  <2>1. \A e \in J : e[2] = s \/ \E f \in J : f[1] = e[2]
    BY DEF Path
  <2>2. <<s, t>> \in K /\ <<s, t>>[1] = s /\ <<s, t>>[2] = t /\ J \subseteq K
    OBVIOUS
  <2>3. QED
    BY <2>1, <2>2
<1>8. QED
  BY <1>4, <1>6, <1>7 DEF Path

\* What holds of the server throughout, with the path of the log made explicit.
IInv ==
    /\ TypeOK
    /\ VerifiedBeforeFlight
    /\ pc = "accept" <=> state = "IDLE"
    /\ state # "DISCONNECTED"
    /\ Path(journal, state, TargetRank[state])

\* While a session is open both ranks of its state agree.
LEMMA OpenSession ==
    ASSUME IInv, pc # "accept"
    PROVE  /\ state \in {"HANDSHAKE", "TAKEOFF", "TRANSIT", "LANDING", "MAYDAY"}
           /\ Path(journal, state, SourceRank[state])
<1>1. state \in {"HANDSHAKE", "TAKEOFF", "TRANSIT", "LANDING", "MAYDAY"}
  BY DEF IInv, TypeOK, States
<1>2. TargetRank[state] = SourceRank[state]
  BY <1>1 DEF TargetRank, SourceRank, States
<1>3. QED
  BY <1>1, <1>2 DEF IInv

\* A hop of the disconnect walk extends the path, or changes nothing.
LEMMA HopExtends ==
    ASSUME NEW J \in SUBSET (States \X States), NEW s \in States \ {"IDLE"},
           NEW t \in {"TRANSIT", "LANDING", "DISCONNECTED"},
           Path(J, s, SourceRank[s])
    PROVE  /\ HopTo(s, t) \in States \ {"IDLE"}
           /\ Path(J \cup {e \in {<<s, HopTo(s, t)>>} : e[1] # e[2]},
                   HopTo(s, t), SourceRank[HopTo(s, t)])
<1>1. t \in States /\ s \in States /\ t # "IDLE"
  BY DEF States
<1>2. CASE is_valid_transition(s, t)
  <2>1. HopTo(s, t) = t
    BY <1>2 DEF HopTo
  <2>2. SourceRank[s] < TargetRank[t] /\ TargetRank[t] = SourceRank[t] /\ s # t
    BY <1>1, <1>2 DEF is_valid_transition, ValidTransitions, SourceRank, TargetRank,
                      States
  <2>3. {e \in {<<s, t>>} : e[1] # e[2]} = {<<s, t>>}
    BY <2>2
  <2>4. QED
    BY <1>1, <2>1, <2>2, <2>3, PathExtends
<1>3. CASE ~is_valid_transition(s, t)
  <2>1. HopTo(s, t) = s
    BY <1>3 DEF HopTo
  <2>2. J \cup {e \in {<<s, s>>} : e[1] # e[2]} = J
    OBVIOUS
  <2>3. QED
    BY <2>1, <2>2
<1>4. QED
  BY <1>2, <1>3

\* What session_end logs completes the path.
LEMMA ClosingExtends ==
    ASSUME NEW J \in SUBSET (States \X States), NEW s \in States \ {"IDLE"},
           Path(J, s, SourceRank[s])
    PROVE  Path(J \cup ClosingHops(s), "IDLE", TargetRank["IDLE"])
<1>1. /\ "IDLE" \in States /\ "DISCONNECTED" \in States /\ s \in States
      /\ TargetRank["DISCONNECTED"] = SourceRank["DISCONNECTED"]
      /\ SourceRank["DISCONNECTED"] < TargetRank["IDLE"]
      /\ s # "DISCONNECTED" => SourceRank[s] < TargetRank["DISCONNECTED"]
  BY DEF States, SourceRank, TargetRank
<1>2. ASSUME NEW K \in SUBSET (States \X States),
             Path(K, "DISCONNECTED", SourceRank["DISCONNECTED"])
      PROVE  Path(K \cup {<<"DISCONNECTED", "IDLE">>}, "IDLE", TargetRank["IDLE"])
  BY <1>1, <1>2, PathExtends
<1>3. CASE s = "DISCONNECTED"
  <2>1. ClosingHops(s) = {<<"DISCONNECTED", "IDLE">>}
    BY <1>3 DEF ClosingHops
  <2>2. QED
    BY <1>2, <1>3, <2>1
<1>4. CASE s # "DISCONNECTED"
  <2> DEFINE K == J \cup {<<s, "DISCONNECTED">>}
  <2>1. K \in SUBSET (States \X States)
    BY <1>1
  <2>2. Path(K, "DISCONNECTED", SourceRank["DISCONNECTED"])
    BY <1>1, <1>4, PathExtends
  <2>3. J \cup ClosingHops(s) = K \cup {<<"DISCONNECTED", "IDLE">>}
    BY <1>4 DEF ClosingHops
  <2> HIDE DEF K
  <2>4. QED
    BY <1>2, <2>1, <2>2, <2>3
<1>5. QED
  BY <1>3, <1>4

\* However a session ends, its log is complete.
LEMMA EndsPath ==
    ASSUME IInv, pc # "accept", Ends
    PROVE  Path(journal', "IDLE", TargetRank["IDLE"])
<1>1. /\ state \in States \ {"IDLE"} /\ journal \in SUBSET (States \X States)
      /\ Path(journal, state, SourceRank[state])
  BY OpenSession DEF IInv, TypeOK, States
<1>2. CASE \E r, d : EndSession(state, {}, r, d)
  <2>1. journal' = journal \cup ClosingHops(state)
    BY <1>2 DEF EndSession
  <2>2. QED
    BY <1>1, <2>1, ClosingExtends
<1>3. CASE \E r, d : EndSession(WalkEnd, Walked, r, d)
  <2> DEFINE A == journal \cup {e \in {<<state, WalkToTransit>>} : e[1] # e[2]}
  <2> DEFINE B == A \cup {e \in {<<WalkToTransit, WalkToLanding>>} : e[1] # e[2]}
  <2> DEFINE C == B \cup {e \in {<<WalkToLanding, WalkEnd>>} : e[1] # e[2]}
  <2>1. WalkToTransit \in States \ {"IDLE"}
        /\ Path(A, WalkToTransit, SourceRank[WalkToTransit])
    BY <1>1, HopExtends DEF WalkToTransit
  <2>2. A \in SUBSET (States \X States)
    BY <1>1, <2>1
  <2>3. WalkToLanding \in States \ {"IDLE"}
        /\ Path(B, WalkToLanding, SourceRank[WalkToLanding])
    <3> HIDE DEF A
    <3>1. QED
      BY <2>1, <2>2, HopExtends DEF WalkToLanding
  <2>4. B \in SUBSET (States \X States)
    BY <2>1, <2>2, <2>3
  <2>5. WalkEnd \in States \ {"IDLE"} /\ Path(C, WalkEnd, SourceRank[WalkEnd])
    <3> HIDE DEF B
    <3>1. QED
      BY <2>3, <2>4, HopExtends DEF WalkEnd
  <2>6. C \in SUBSET (States \X States)
    BY <2>3, <2>4, <2>5
  <2>7. C = journal \cup Walked
    BY DEF Walked
  <2>8. journal' = C \cup ClosingHops(WalkEnd)
    BY <1>3, <2>7 DEF EndSession
  <2> HIDE DEF C
  <2>9. QED
    BY <2>5, <2>6, <2>8, ClosingExtends
<1>4. QED
  BY <1>2, <1>3 DEF Ends

-----------------------------------------------------------------------------
(* The inductive invariant.                                                *)

\* A handled packet keeps an open session open, verified before it flies,
\* and its log a path.
LEMMA GoesKeeps ==
    ASSUME IInv, pc # "accept", TypeOK', Goes
    PROVE  IInv'
<1>1. PICK p \in Packets, s \in States, v \in BOOLEAN, r \in Seq(ReplyKinds) :
            Moves(p, s, v) /\ pc' \in {"keys", "send"} /\ Consume(p, s, v, r)
  BY DEF Goes
<1>2. /\ state' = s /\ verified' = v /\ pc' \in {"keys", "send"}
      /\ aircraft_id' = CapturedId(p)
      /\ journal' = IF s = state THEN journal ELSE journal \cup {<<state, s>>}
  BY <1>1 DEF Consume
<1>3. /\ state \in {"HANDSHAKE", "TAKEOFF", "TRANSIT", "LANDING", "MAYDAY"}
      /\ Path(journal, state, SourceRank[state])
  BY OpenSession
<1>4. s \in {"HANDSHAKE", "TAKEOFF", "TRANSIT", "LANDING", "MAYDAY"}
      /\ (s # state => SourceRank[state] < TargetRank[s])
  BY <1>1, <1>3 DEF Moves, FlightStates, SourceRank, TargetRank, States
<1>5. VerifiedBeforeFlight'
  <2>1. state' \in FlightStates \cup {"MAYDAY"} => verified'
    BY <1>1, <1>2, <1>3 DEF Moves, IInv, VerifiedBeforeFlight, FlightStates
  <2>2. aircraft_id # NoCallsign => aircraft_id' # NoCallsign
    BY <1>2 DEF CapturedId
  <2>3. verified' /\ ~verified => aircraft_id' # NoCallsign
    BY <1>1, <1>2 DEF Moves, CapturedId
  <2>4. verified => aircraft_id # NoCallsign
    BY DEF IInv, VerifiedBeforeFlight
  <2>5. QED
    BY <2>1, <2>2, <2>3, <2>4 DEF VerifiedBeforeFlight
<1>6. Path(journal', state', TargetRank[state'])
  <2>1. CASE s = state
    BY <1>2, <2>1 DEF IInv
  <2>2. CASE s # state
    <3>1. journal \in SUBSET (States \X States) /\ state \in States
      BY DEF IInv, TypeOK
    <3>2. QED
      BY <1>2, <1>3, <1>4, <2>2, <3>1, PathExtends
  <2>3. QED
    BY <2>1, <2>2
<1>7. QED
  BY <1>2, <1>4, <1>5, <1>6 DEF IInv

\* A step of the four kinds keeps the inductive invariant: a handled packet by
\* GoesKeeps, the end of a session by EndsPath, the rest directly.
LEMMA SessionStepKeeps == IInv /\ TypeOK' /\ SessionStep => IInv'
<1> SUFFICES ASSUME IInv, TypeOK', SessionStep PROVE IInv'
  OBVIOUS
<1>1. CASE Opens
  <2>1. /\ pc' = "keys" /\ state' = "HANDSHAKE" /\ verified' = FALSE
        /\ journal' = {<<"IDLE", "HANDSHAKE">>}
    BY <1>1 DEF Opens, AcceptFrom
  <2>2. SourceRank["IDLE"] < TargetRank["HANDSHAKE"]
        /\ "IDLE" \in States /\ "HANDSHAKE" \in States
    BY DEF SourceRank, TargetRank, States
  <2>3. Path({}, "IDLE", SourceRank["IDLE"])
    BY DEF Path
  <2>4. {} \cup {<<"IDLE", "HANDSHAKE">>} = {<<"IDLE", "HANDSHAKE">>}
    OBVIOUS
  <2>5. Path(journal', state', TargetRank[state'])
    BY <2>1, <2>2, <2>3, <2>4, PathExtends
  <2>6. VerifiedBeforeFlight'
    BY <2>1 DEF VerifiedBeforeFlight, FlightStates
  <2>7. QED
    BY <2>1, <2>5, <2>6 DEF IInv
<1>2. CASE pc # "accept" /\ Goes
  BY <1>2, GoesKeeps
<1>3. CASE pc # "accept" /\ Ends
  <2>1. state' = "IDLE" /\ pc' = "accept" /\ verified' = FALSE
    BY <1>3 DEF Ends, EndSession
  <2>2. VerifiedBeforeFlight'
    BY <2>1 DEF VerifiedBeforeFlight, FlightStates
  <2>3. QED
    BY <1>3, <2>1, <2>2, EndsPath DEF IInv
<1>4. CASE Stays
  <2>1. VerifiedBeforeFlight'
    BY <1>4 DEF Stays, IInv, VerifiedBeforeFlight
  <2>2. Path(journal', state', TargetRank[state'])
    BY <1>4 DEF Stays, IInv
  <2>3. QED
    BY <1>4, <2>1, <2>2 DEF Stays, IInv
<1>5. QED
  BY <1>1, <1>2, <1>3, <1>4 DEF SessionStep

\* The server starts in the inductive invariant, with an empty log.
LEMMA InductiveInit == Init => IInv
<1> SUFFICES ASSUME Init, TypeOK PROVE IInv
  BY InitType
<1>1. VerifiedBeforeFlight
  BY DEF Init, VerifiedBeforeFlight, FlightStates
<1>2. Path(journal, state, TargetRank[state])
  BY DEF Init, Path
<1>3. QED
  BY <1>1, <1>2 DEF Init, IInv

\* The inductive invariant holds throughout.
LEMMA Invariance == Spec => []IInv
<1>1. IInv /\ [Next]_vars => IInv'
  BY StepCases, SessionStepKeeps DEF IInv
<1>2. QED
  BY <1>1, InductiveInit, PTL DEF Spec

\* What the inductive invariant says of the session.
LEMMA InvariantSafe == IInv => VerifiedBeforeFlight /\ JournalIsAPath
<1>1. ASSUME IInv PROVE JournalIsAPath
  <2>1. Path(journal, state, TargetRank[state])
    BY <1>1 DEF IInv
  <2>2. ASSUME state # "IDLE", NEW e \in journal PROVE e[1] # state
    <3>1. state \in States /\ e \in States \X States
      BY <1>1 DEF IInv, TypeOK
    <3>2. SourceRank[e[1]] < SourceRank[state]
      BY <2>1, <2>2, <3>1 DEF Path, TargetRank
    <3>3. SourceRank[state] \in Int
      BY <3>1, Ranks
    <3>4. QED
      BY <3>2, <3>3
  <2>3. QED
    BY <2>1, <2>2 DEF Path, JournalIsAPath
<1>2. QED
  BY <1>1 DEF IInv

\* No aircraft is shown in flight or in MAYDAY before a handshake verified it,
\* and a verified aircraft has a callsign, whatever packets arrive and in
\* whatever order (VerifiedBeforeFlight, REQ-SYS-080).
THEOREM FlightIsVerified == Spec => []VerifiedBeforeFlight
BY InvariantSafe, Invariance, PTL

\* The transitions logged for a session form a path that enters no state
\* twice (JournalIsAPath, REQ-LOG-020).
THEOREM JournalPath == Spec => []JournalIsAPath
BY InvariantSafe, Invariance, PTL

\* None of the four kinds of step leaves MAYDAY but the end of the session.
LEMMA SessionStepLatches ==
    IInv /\ SessionStep /\ state = "MAYDAY" /\ state' # "MAYDAY" =>
        pc' = "accept" /\ <<"MAYDAY", "DISCONNECTED">> \in journal'
<1> SUFFICES ASSUME IInv, SessionStep, state = "MAYDAY", state' # "MAYDAY"
             PROVE  pc' = "accept" /\ <<"MAYDAY", "DISCONNECTED">> \in journal'
  OBVIOUS
<1>1. pc # "accept"
  BY DEF IInv
<1>2. ~Opens /\ ~Stays
  BY <1>1 DEF Opens, AcceptFrom, Stays
<1>3. ~Goes
  BY DEF Goes, Moves, Consume, FlightStates
<1>4. CASE \E r, d : EndSession(state, {}, r, d)
  BY <1>4 DEF EndSession, ClosingHops
<1>5. CASE \E r, d : EndSession(WalkEnd, Walked, r, d)
  <2>1. WalkToTransit = "MAYDAY" /\ WalkToLanding = "MAYDAY" /\ WalkEnd = "DISCONNECTED"
    BY DEF WalkToTransit, WalkToLanding, WalkEnd, HopTo,
           is_valid_transition, ValidTransitions
  <2>2. <<"MAYDAY", "DISCONNECTED">> \in Walked
    BY <2>1 DEF Walked
  <2>3. QED
    BY <1>5, <2>2 DEF EndSession
<1>6. QED
  BY <1>2, <1>3, <1>4, <1>5 DEF SessionStep, Ends

\* MAYDAY is left only by ending the session, and the log shows it
\* (MaydayLatched, REQ-STM-040).
THEOREM MaydayIsLatched == Spec => MaydayLatched
<1>1. IInv /\ [Next]_vars =>
        [state = "MAYDAY" /\ state' # "MAYDAY" =>
            pc' = "accept" /\ <<"MAYDAY", "DISCONNECTED">> \in journal']_vars
  BY StepCases, SessionStepLatches DEF IInv
<1>2. QED
  BY <1>1, Invariance, PTL DEF Spec, MaydayLatched

\* Each of the four kinds of step is one of the abstract session or a stutter.
LEMMA SessionStepPromised ==
    IInv /\ SessionStep => [Session!Next]_(Session!sessionVars)
<1> SUFFICES ASSUME IInv, SessionStep PROVE [Session!Next]_(Session!sessionVars)
  OBVIOUS
<1>1. CASE Opens
  BY <1>1 DEF Opens, AcceptFrom, IInv, Session!Next, Session!Open
<1>2. CASE pc # "accept" /\ Goes
  <2>1. PICK p \in Packets, s \in States, v \in BOOLEAN, r \in Seq(ReplyKinds) :
              Moves(p, s, v) /\ pc' \in {"keys", "send"} /\ Consume(p, s, v, r)
    BY <1>2 DEF Goes
  <2>2. state' = s /\ verified' = v
    BY <2>1 DEF Consume
  <2>3. state \in FlightStates => verified
    BY DEF IInv, VerifiedBeforeFlight
  <2>4. CASE s = state /\ v = verified
    BY <2>2, <2>4 DEF Session!sessionVars
  <2>5. CASE /\ state = "HANDSHAKE" /\ s \in {"HANDSHAKE", "TRANSIT", "LANDING"}
             /\ v = TRUE
    BY <2>2, <2>5 DEF Session!Next, Session!Verify
  <2>6. CASE /\ verified /\ v = verified
             /\ <<state, s>> \in {<<"HANDSHAKE", "TAKEOFF">>,
                                  <<"TAKEOFF", "TRANSIT">>, <<"TRANSIT", "LANDING">>}
    BY <2>2, <2>6 DEF Session!Next, Session!Advance
  <2>7. CASE state \in FlightStates /\ s = "MAYDAY" /\ v = verified
    BY <2>2, <2>3, <2>7 DEF Session!Next, Session!Emergency, Session!FlightStates,
                            FlightStates
  <2>8. QED
    BY <2>1, <2>4, <2>5, <2>6, <2>7 DEF Moves
<1>3. CASE pc # "accept" /\ Ends
  BY <1>3 DEF Ends, EndSession, IInv, Session!Next, Session!Close
<1>4. CASE Stays
  BY <1>4 DEF Stays, Session!sessionVars
<1>5. QED
  BY <1>1, <1>2, <1>3, <1>4 DEF SessionStep

\* The server implements the promise of a session (SessionPromise): every
\* step of the handler, with everything it logs, is one step of ATCSession or
\* leaves its variables alone.
THEOREM ServerKeepsPromise == Spec => SessionPromise
<1>1. Init => Session!Init
  BY DEF Init, Session!Init
<1>2. IInv /\ [Next]_vars => [Session!Next]_(Session!sessionVars)
  BY StepCases, SessionStepPromised DEF IInv
<1>3. QED
  BY <1>1, <1>2, Invariance, PTL DEF Spec, SessionPromise, Session!Spec
=============================================================================
