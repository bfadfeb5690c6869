--------------------------- MODULE ATCAnswerProofs ---------------------------
(***************************************************************************)
(* Every packet that reaches the handler, but a heartbeat, is answered     *)
(* exactly once (AnsweredOnce of ATCServer), for every set of packets and  *)
(* every bound.                                                            *)
(*                                                                         *)
(* The count alone is not inductive: the server reads one packet's bytes   *)
(* as another's as soon as it takes a payload for a header.  The invariant *)
(* therefore also says that headers and payloads alternate as they should, *)
(* in the input and across the two ends of it.                             *)
(***************************************************************************)
EXTENDS ATCServerProofs

\* What a chunk adds to the count.
HeaderDue(c) == IF c.part = "header" THEN Due(c.pkt) ELSE 0

\* Packets are told from their absence, so what one is owed is plain.
LEMMA DueOfPacket ==
    ASSUME NEW p \in Packets
    PROVE  p # NoPacket /\ Due(p) = IF Answerable(p) THEN 1 ELSE 0
BY PacketsAssumption DEF Due

\* A chunk sent adds what it is owed to the count.
LEMMA HeadersAppend ==
    ASSUME NEW s \in Seq(Chunks), NEW c \in Chunks
    PROVE  AnswerableIn(Append(s, c)) = AnswerableIn(s) + HeaderDue(c)
<1> DEFINE n == Len(s) + 1
<1>1. DOMAIN Append(s, c) = 1 .. n /\ DOMAIN s = 1 .. Len(s) /\ Len(s) \in Nat
      /\ Append(s, c)[n] = c /\ \A i \in 1 .. Len(s) : Append(s, c)[i] = s[i]
  OBVIOUS
<1>2. c.pkt \in Packets /\ Append(s, c) \in Seq(Chunks)
  BY DEF Chunks
<1>3. AnswerableIn(Append(s, c)) = Cardinality(Headers(Append(s, c)))
      /\ AnswerableIn(s) = Cardinality(Headers(s)) /\ IsFiniteSet(Headers(s))
      /\ AnswerableIn(s) \in Nat
  BY <1>2, HeadersFinite
<1>4. CASE c.part = "header" /\ Answerable(c.pkt)
  <2>1. Headers(Append(s, c)) = Headers(s) \cup {n} /\ n \notin Headers(s)
    BY <1>1, <1>4 DEF Headers
  <2>2. HeaderDue(c) = 1
    BY <1>2, <1>4, DueOfPacket DEF HeaderDue
  <2>3. QED
    BY <1>3, <2>1, <2>2, FS_AddElement
<1>5. CASE ~(c.part = "header" /\ Answerable(c.pkt))
  <2>1. Headers(Append(s, c)) = Headers(s)
    BY <1>1, <1>5 DEF Headers
  <2>2. HeaderDue(c) = 0
    BY <1>2, <1>5, DueOfPacket DEF HeaderDue
  <2>3. QED
    BY <1>3, <2>1, <2>2
<1>6. QED
  BY <1>4, <1>5

\* A chunk received takes what it is owed from the count.
LEMMA HeadersTail ==
    ASSUME NEW s \in Seq(Chunks), s # <<>>
    PROVE  /\ AnswerableIn(s) = AnswerableIn(Tail(s)) + HeaderDue(Head(s))
           /\ AnswerableIn(Tail(s)) \in Nat
<1> DEFINE T == Headers(Tail(s))
<1> DEFINE R == Headers(s) \ {1}
<1>1. /\ Len(s) \in Nat \ {0} /\ DOMAIN s = 1 .. Len(s) /\ Head(s) = s[1]
      /\ DOMAIN Tail(s) = 1 .. Len(s) - 1 /\ Tail(s) \in Seq(Chunks)
      /\ \A i \in 1 .. Len(s) - 1 : Tail(s)[i] = s[i + 1]
  OBVIOUS
<1>2. /\ IsFiniteSet(T) /\ Cardinality(T) \in Nat
      /\ AnswerableIn(s) = Cardinality(Headers(s)) /\ AnswerableIn(Tail(s)) = Cardinality(T)
  BY <1>1, HeadersFinite
<1>0. Head(s).pkt \in Packets
  <2>1. Head(s) \in Chunks
    BY <1>1
  <2>2. QED
    BY <2>1 DEF Chunks
<1>3. Cardinality(R) = Cardinality(T) /\ IsFiniteSet(R)
  <2> DEFINE f == [i \in T |-> i + 1]
  <2>1. \A i \in T : i \in 1 .. Len(s) - 1 /\ f[i] = i + 1 /\ f[i] \in R
    BY <1>1 DEF Headers
  <2>2. \A j \in R : j - 1 \in T /\ f[j - 1] = j
    BY <1>1 DEF Headers
  <2>3. f \in Bijection(T, R)
    <3>1. f \in [T -> R]
      BY <2>1
    <3>2. \A i, j \in T : f[i] = f[j] => i = j
      BY <2>1
    <3>3. \A j \in R : \E i \in T : f[i] = j
      BY <2>2
    <3> HIDE DEF f, T, R
    <3>4. QED
      BY <3>1, <3>2, <3>3 DEF Bijection, Injection, Surjection, IsInjective
  <2>4. ExistsBijection(T, R)
    BY <2>3 DEF ExistsBijection
  <2> HIDE DEF T, R
  <2>5. QED
    BY <1>2, <2>4, FS_Bijection
<1>4. CASE s[1].part = "header" /\ Answerable(s[1].pkt)
  <2>1. Headers(s) = R \cup {1} /\ 1 \notin R
    BY <1>1, <1>4 DEF Headers
  <2> HIDE DEF R
  <2>2. Cardinality(Headers(s)) = Cardinality(R) + 1
    BY <1>3, <2>1, FS_AddElement
  <2>3. HeaderDue(Head(s)) = 1
    BY <1>0, <1>1, <1>4, DueOfPacket DEF HeaderDue
  <2>4. QED
    BY <1>2, <1>3, <2>2, <2>3
<1>5. CASE ~(s[1].part = "header" /\ Answerable(s[1].pkt))
  <2>1. Headers(s) = R
    BY <1>1, <1>5 DEF Headers
  <2>2. HeaderDue(Head(s)) = 0
    BY <1>0, <1>1, <1>5, DueOfPacket DEF HeaderDue
  <2> HIDE DEF R
  <2>3. QED
    BY <1>2, <1>3, <2>1, <2>2
<1>6. QED
  BY <1>4, <1>5

\* No replies hold no answer, an answer is one, and the ACK of a controller's
\* disconnect is none.
LEMMA AnswersOfOne ==
    /\ Answers(<<>>) = 0 /\ Answers(<<"ack0">>) = 0
    /\ \A r \in AnswerKinds : Answers(<<r>>) = 1
<1>1. {i \in DOMAIN <<>> : <<>>[i] \in AnswerKinds} = {}
  OBVIOUS
<1>2. {i \in DOMAIN <<"ack0">> : <<"ack0">>[i] \in AnswerKinds} = {}
  BY DEF AnswerKinds
<1>3. ASSUME NEW r \in AnswerKinds
      PROVE  {i \in DOMAIN <<r>> : <<r>>[i] \in AnswerKinds} = {1}
  OBVIOUS
<1>4. QED
  BY <1>1, <1>2, <1>3, FS_EmptySet, FS_Singleton DEF Answers

\* What a handler leaves behind: its packet is consumed and has had the answer
\* it is owed; or the session is over, and what lay behind it is discarded.
Answered(p) ==
    /\ pc' \in {"keys", "send"}
    /\ inbox' = Tail(inbox) /\ held' = NoPacket
    /\ unanswered' = unanswered - Due(p)
    /\ UNCHANGED <<link, owed>>
AnsweredAtEnd(p) ==
    /\ pc' = "accept" /\ inbox' = <<>> /\ held' = NoPacket /\ owed' = NoPacket
    /\ link' = "none"
    /\ unanswered' = unanswered - Due(p) - AnswerableIn(Tail(inbox))

\* Every handler gives its packet the one answer the packet is owed.
LEMMA HandleAnswers ==
    ASSUME NEW p \in Packets, Handle(p)
    PROVE  Received(p) /\ (Answered(p) \/ AnsweredAtEnd(p))
<1>0. Received(p)
  BY DEF Handle, HandleEmergency, HandleBuffered, HandleGated, HandleHandshake,
         HandleTakeoff, HandleTransit, HandleLanding, HandleMayday,
         HandleLargeDataRequest, HandleHandoffNotify, HandleDisconnect,
         HandleAck, HandleUnknown, Dispatched
<1> SUFFICES Answered(p) \/ AnsweredAtEnd(p)
  BY <1>0
<1>1. ASSUME NEW s, NEW v, NEW r, Consume(p, s, v, r), pc' \in {"keys", "send"},
             Answers(r) = Due(p)
      PROVE  Answered(p)
  BY <1>1 DEF Consume, Answered
<1>2. {"ack", "error", "departure", "cleared", "not_cleared"} = AnswerKinds
  BY DEF AnswerKinds
<1>3. ASSUME Answerable(p), NEW r \in AnswerKinds, NEW s, NEW v, Proceed(p, s, v, <<r>>)
      PROVE  Answered(p)
  BY <1>1, <1>3, AnswersOfOne, DueOfPacket DEF Proceed
<1>4. ASSUME Answerable(p), Reject(p) PROVE Answered(p)
  BY <1>2, <1>3, <1>4 DEF Reject
<1>5. ASSUME Answerable(p), NEW s, NEW r \in AnswerKinds, Grant(p, s, r) PROVE Answered(p)
  BY <1>3, <1>5 DEF Grant
<1>6. CASE HandleEmergency(p)
  BY <1>2, <1>5, <1>6 DEF HandleEmergency, Answerable
<1>7. CASE HandleBuffered(p)
  BY <1>2, <1>5, <1>7 DEF HandleBuffered, Answerable
<1>8. CASE HandleGated(p)
  BY <1>4, <1>8 DEF HandleGated, Answerable, PassesGate, is_allowed_before_handshake,
                    PreHandshakeTypes
<1>9. CASE HandleHandshake(p)
  <2>1. Answerable(p)
    BY <1>9 DEF HandleHandshake, Dispatched, Answerable
  <2>2. QED
    BY <1>2, <1>3, <1>4, <1>9, <2>1 DEF HandleHandshake
<1>10. CASE HandleTakeoff(p) \/ HandleTransit(p) \/ HandleMayday(p)
  <2>1. Answerable(p)
    BY <1>10 DEF HandleTakeoff, HandleTransit, HandleMayday, Dispatched, Answerable
  <2>2. QED
    BY <1>2, <1>4, <1>5, <1>10, <2>1 DEF HandleTakeoff, HandleTransit, HandleMayday
<1>11. CASE HandleLanding(p)
  <2>1. Answerable(p)
    BY <1>11 DEF HandleLanding, Dispatched, Answerable
  <2>2. QED
    BY <1>2, <1>4, <1>5, <1>11, <2>1 DEF HandleLanding
<1>12. CASE HandleLargeDataRequest(p)
  <2>1. Answerable(p)
    BY <1>12 DEF HandleLargeDataRequest, Dispatched, Answerable
  <2>2. Answers(<<"ack">>) = Due(p)
    BY <1>2, <2>1, AnswersOfOne, DueOfPacket
  <2>3. QED
    BY <1>1, <1>12, <2>2 DEF HandleLargeDataRequest
<1>13. CASE HandleAck(p)
  <2>1. Answers(<<>>) = Due(p)
    BY <1>13, AnswersOfOne DEF HandleAck, Dispatched, Answerable, Due
  <2>2. QED
    BY <1>1, <1>13, <2>1 DEF HandleAck, Proceed
<1>14. CASE HandleUnknown(p)
  BY <1>4, <1>14 DEF HandleUnknown, HandledTypes, Answerable
<1>15. CASE HandleHandoffNotify(p) \/ HandleDisconnect(p)
  <2>1. Answerable(p)
    BY <1>15 DEF HandleHandoffNotify, HandleDisconnect, Dispatched, Answerable
  <2>2. Answers(<<"ack">>) = Due(p)
    BY <1>2, <2>1, AnswersOfOne, DueOfPacket
  <2>3. AnsweredAtEnd(p)
    BY <1>15, <2>2 DEF HandleHandoffNotify, HandleDisconnect, EndSession, AnsweredAtEnd
  <2>4. QED
    BY <2>3
<1>16. QED
  BY <1>6, <1>7, <1>8, <1>9, <1>10, <1>11, <1>12, <1>13, <1>14, <1>15 DEF Handle

-----------------------------------------------------------------------------
(* The inductive invariant.                                                *)

\* After the first i chunks of the input, the next one is a payload.
Pending(i) == IF i = 0 THEN pc = "payload"
              ELSE inbox[i].part = "header" /\ HasPayload(inbox[i].pkt)

Alternates ==
    /\ \A i \in DOMAIN inbox : inbox[i].part = "payload" <=> Pending(i - 1)
    /\ link = "open" => (owed # NoPacket <=> Pending(Len(inbox)))

AInv ==
    /\ TypeOK
    /\ held # NoPacket <=> pc = "payload"
    /\ pc = "accept" => inbox = <<>> /\ link = "none"
    /\ Alternates
    /\ AnsweredOnce

\* A step that leaves the input and both ends of it alone keeps the invariant.
LEMMA QuietKeeps ==
    ASSUME AInv, TypeOK', pc # "payload", pc' \notin {"payload", "accept"},
           link' = "open" => link = "open",
           UNCHANGED <<held, inbox, owed, unanswered>>
    PROVE  AInv'
<1>1. \A i \in 0 .. Len(inbox) : Pending(i)' <=> Pending(i)
  BY DEF Pending
<1>2. Len(inbox) \in Nat /\ DOMAIN inbox = 1 .. Len(inbox)
  BY DEF AInv, TypeOK
<1>3. Alternates'
  BY <1>1, <1>2 DEF AInv, Alternates
<1>4. AnsweredOnce'
  BY DEF AInv, AnsweredOnce, Unhandled
<1>5. QED
  BY <1>3, <1>4 DEF AInv

\* Between sessions, and at the start of one, nothing is under way.
LEMMA FreshKeeps ==
    ASSUME TypeOK', pc' # "payload", pc' = "accept" => link' = "none",
           inbox' = <<>>, held' = NoPacket, owed' = NoPacket, unanswered' = 0
    PROVE  AInv'
<1>1. AnsweredOnce'
  BY UnhandledType DEF AnsweredOnce, Unhandled, Due
<1>2. Alternates'
  BY DEF Alternates, Pending
<1>3. QED
  BY <1>1, <1>2 DEF AInv

\* What is received leaves the alternation of the rest as it was.
LEMMA TailAlternates ==
    ASSUME AInv, inbox # <<>>, inbox' = Tail(inbox),
           pc' = "payload" <=> Pending(1), UNCHANGED <<link, owed>>
    PROVE  Alternates'
<1>1. /\ Len(inbox) \in Nat \ {0} /\ DOMAIN inbox = 1 .. Len(inbox)
      /\ Len(inbox') = Len(inbox) - 1 /\ DOMAIN inbox' = 1 .. Len(inbox) - 1
      /\ \A i \in 1 .. Len(inbox) - 1 : inbox'[i] = inbox[i + 1]
  BY DEF AInv, TypeOK
<1>2. \A i \in 0 .. Len(inbox) - 1 : Pending(i)' <=> Pending(i + 1)
  BY <1>1 DEF Pending
<1>3. Alternates
  BY DEF AInv
<1>4. QED
  BY <1>1, <1>2, <1>3 DEF Alternates

\* Reading a header moves what it is owed from the input to the held packet.
LEMMA RecvHeaderKeeps ==
    ASSUME AInv, TypeOK', RecvHeader
    PROVE  AInv'
<1>1. /\ inbox \in Seq(Chunks) /\ inbox # <<>> /\ inbox' = Tail(inbox)
      /\ pc = "select" /\ pc' = "payload" /\ held' = Head(inbox).pkt
      /\ HasPayload(Head(inbox).pkt) /\ UNCHANGED <<link, owed, unanswered>>
  BY DEF RecvHeader, HasPayload, AInv, TypeOK
<1>2. /\ Head(inbox) = inbox[1] /\ 1 \in DOMAIN inbox /\ Head(inbox) \in Chunks
  BY <1>1
<1>3. held = NoPacket /\ held' # NoPacket
  BY <1>1, <1>2, PacketsAssumption DEF AInv, Chunks
<1>4. Head(inbox).part = "header" /\ Pending(1)
  <2>1. inbox[1].part = "payload" <=> Pending(0)
    BY <1>2 DEF AInv, Alternates
  <2>2. ~Pending(0)
    BY <1>1 DEF Pending
  <2>3. Head(inbox).part \in {"header", "payload"}
    BY <1>2 DEF Chunks
  <2>4. QED
    BY <1>1, <1>2, <2>1, <2>2, <2>3 DEF Pending
<1>5. Alternates'
  BY <1>1, <1>4, TailAlternates
<1>6. AnswerableIn(inbox) = AnswerableIn(inbox') + Due(held')
      /\ AnswerableIn(inbox') \in Nat
  BY <1>1, <1>4, HeadersTail DEF HeaderDue
<1>7. Due(NoPacket) = 0 /\ Due(held') \in Nat
  BY DEF Due
<1>8. AnsweredOnce'
  BY <1>1, <1>3, <1>6, <1>7 DEF AInv, AnsweredOnce, Unhandled
<1>9. QED
  BY <1>1, <1>3, <1>5, <1>8 DEF AInv

\* When a packet is complete, the count is made up of what it is owed and of
\* what lies behind it, which begins with a header.
LEMMA ReceivedDue ==
    ASSUME AInv, NEW p \in Packets, Received(p)
    PROVE  /\ inbox # <<>> /\ ~Pending(1)
           /\ unanswered = AnswerableIn(Tail(inbox)) + Due(p)
           /\ AnswerableIn(Tail(inbox)) \in Nat /\ Due(p) \in Nat
<1>1. /\ inbox \in Seq(Chunks) /\ inbox # <<>>
      /\ Head(inbox) = inbox[1] /\ 1 \in DOMAIN inbox /\ Head(inbox) \in Chunks
  BY DEF AInv, TypeOK, Received
<1>2. /\ AnswerableIn(inbox) = AnswerableIn(Tail(inbox)) + HeaderDue(Head(inbox))
      /\ AnswerableIn(Tail(inbox)) \in Nat
  BY <1>1, HeadersTail
<1>3. unanswered = AnswerableIn(inbox) + Due(held) /\ Due(NoPacket) = 0 /\ Due(p) \in Nat
  BY DEF AInv, AnsweredOnce, Unhandled, Due
<1>4. CASE pc = "select" /\ Head(inbox).pkt = p /\ ~HasPayload(p)
  <2>1. Head(inbox).part = "header" /\ ~Pending(1)
    BY <1>1, <1>4 DEF AInv, Alternates, Pending, Chunks
  <2>2. held = NoPacket /\ HeaderDue(Head(inbox)) = Due(p)
    BY <1>4, <2>1 DEF AInv, HeaderDue
  <2>3. QED
    BY <1>1, <1>2, <1>3, <2>1, <2>2
<1>5. CASE pc = "payload" /\ held = p
  <2>1. Head(inbox).part = "payload" /\ ~Pending(1)
    BY <1>1, <1>5 DEF AInv, Alternates, Pending
  <2>2. HeaderDue(Head(inbox)) = 0
    BY <2>1 DEF HeaderDue
  <2>3. QED
    BY <1>1, <1>2, <1>3, <1>5, <2>1, <2>2
<1>6. QED
  BY <1>4, <1>5 DEF Received

\* Handling a packet takes exactly what it is owed from the count.
LEMMA HandleKeeps ==
    ASSUME AInv, TypeOK', NEW p \in Packets, Handle(p)
    PROVE  AInv'
<1>1. /\ inbox # <<>> /\ ~Pending(1)
      /\ unanswered = AnswerableIn(Tail(inbox)) + Due(p)
      /\ AnswerableIn(Tail(inbox)) \in Nat /\ Due(p) \in Nat
  BY HandleAnswers, ReceivedDue
<1>2. CASE Answered(p)
  <2>1. Alternates'
    BY <1>1, <1>2, TailAlternates DEF Answered
  <2>2. AnsweredOnce'
    BY <1>1, <1>2 DEF Answered, AnsweredOnce, Unhandled, Due
  <2>3. QED
    BY <1>2, <2>1, <2>2 DEF Answered, AInv
<1>3. CASE AnsweredAtEnd(p)
  BY <1>1, <1>3, FreshKeeps DEF AnsweredAtEnd
<1>4. QED
  BY <1>2, <1>3, HandleAnswers

\* Every step keeps the invariant.
LEMMA AnswersStep ==
    ASSUME AInv, [Next]_vars
    PROVE  AInv'
<1>1. TypeOK' /\ TypeOK
  BY StepCases DEF AInv
<1>2. inbox \in Seq(Chunks) /\ DOMAIN inbox = 1 .. Len(inbox) /\ Len(inbox) \in Nat
  BY <1>1 DEF TypeOK
<1>3. \A p \in Packets : Header(p) \in Chunks /\ Payload(p) \in Chunks
  BY DEF Header, Payload, Chunks
<1>4. CASE Accept
  <2>1. pc = "accept" /\ inbox = <<>> /\ held = NoPacket
    BY <1>4 DEF Accept, AcceptFrom, AInv
  <2>2. unanswered = 0
    BY <2>1, UnhandledType DEF AInv, AnsweredOnce, Unhandled, Due
  <2>3. unanswered' = 0
    BY <1>4, <2>2, UnhandledType DEF Accept, AcceptFrom
  <2>4. QED
    BY <1>1, <1>4, <2>3, FreshKeeps DEF Accept, AcceptFrom
<1>5. ASSUME NEW r \in {<<>>, <<"ack0">>}, EndSession(state, {}, r, Unhandled) PROVE AInv'
  <2>1. unanswered' = 0
    BY <1>1, <1>5, UnhandledType, AnswersOfOne DEF EndSession, AInv, AnsweredOnce
  <2>2. QED
    BY <1>1, <1>5, <2>1, FreshKeeps DEF EndSession
<1>6. CASE ControllerDisconnects \/ KeepaliveFails \/ RecvFails \/ RecvRejects
  BY <1>5, <1>6 DEF ControllerDisconnects, KeepaliveFails, RecvFails, RecvRejects
<1>7. CASE NoDisconnectKey
  BY <1>1, <1>7, QuietKeeps DEF NoDisconnectKey
<1>8. CASE SelectTimesOut
  BY <1>1, <1>8, QuietKeeps DEF SelectTimesOut
<1>9. CASE LargeDataSent \/ LargeDataFails
  BY <1>1, <1>9, QuietKeeps DEF LargeDataSent, LargeDataFails, LargeDataEnds
<1>10. CASE RecvHeader
  BY <1>1, <1>10, RecvHeaderKeeps
<1>11. ASSUME NEW p \in Arriving, Handle(p) PROVE AInv'
  <2>1. p \in Packets
    <3>1. inbox # <<>> => Head(inbox) \in Chunks
      BY <1>2
    <3>2. QED
      BY <3>1 DEF Arriving, Chunks
  <2>2. QED
    BY <1>1, <1>11, <2>1, HandleKeeps
<1>12. ASSUME NEW p \in Packets, Sends(p) PROVE AInv'
  <2>1. /\ link = "open" /\ link' = "open" /\ owed = NoPacket
        /\ inbox' = Append(inbox, Header(p)) /\ unanswered' = unanswered + Due(p)
        /\ owed' = IF HasPayload(p) THEN p ELSE NoPacket
        /\ UNCHANGED <<pc, held>>
    BY <1>1, <1>12, DueOfPacket DEF Sends, serverVars, TypeOK
  <2>2. /\ DOMAIN inbox' = 1 .. Len(inbox) + 1 /\ Len(inbox') = Len(inbox) + 1
        /\ inbox'[Len(inbox) + 1] = Header(p)
        /\ \A i \in 1 .. Len(inbox) : inbox'[i] = inbox[i]
    BY <1>2, <2>1
  <2>3. \A i \in 0 .. Len(inbox) : Pending(i)' <=> Pending(i)
    BY <1>2, <2>1, <2>2 DEF Pending
  <2>4. Pending(Len(inbox))' <=> HasPayload(p)
    BY <1>2, <2>2 DEF Pending, Header
  <2>5. owed' # NoPacket <=> HasPayload(p)
    BY <2>1, PacketsAssumption
  <2>6. Alternates /\ AnsweredOnce
    BY DEF AInv
  <2>7. Alternates'
    <3>1. \A i \in DOMAIN inbox' : inbox'[i].part = "payload" <=> Pending(i - 1)'
      BY <1>2, <2>1, <2>2, <2>3, <2>6 DEF Alternates, Header
    <3>2. QED
      BY <2>4, <2>5, <3>1 DEF Alternates
  <2>8. /\ AnswerableIn(inbox') = AnswerableIn(inbox) + Due(p)
        /\ AnswerableIn(inbox) \in Nat /\ Due(p) \in Nat /\ Due(held) \in Nat
    BY <1>2, <1>3, <2>1, HeadersAppend, HeadersFinite DEF HeaderDue, Header, Due
  <2>9. AnsweredOnce'
    BY <2>1, <2>6, <2>8 DEF AnsweredOnce, Unhandled
  <2>10. QED
    BY <1>1, <2>1, <2>7, <2>9 DEF AInv
<1>13. CASE SendsPayload
  <2>1. /\ link = "open" /\ link' = "open" /\ owed # NoPacket /\ owed' = NoPacket
        /\ inbox' = Append(inbox, Payload(owed)) /\ UNCHANGED <<pc, held, unanswered>>
    BY <1>13 DEF SendsPayload, serverVars
  <2>2. /\ DOMAIN inbox' = 1 .. Len(inbox) + 1 /\ Len(inbox') = Len(inbox) + 1
        /\ inbox'[Len(inbox) + 1] = Payload(owed)
        /\ \A i \in 1 .. Len(inbox) : inbox'[i] = inbox[i]
    BY <1>2, <2>1
  <2>3. \A i \in 0 .. Len(inbox) : Pending(i)' <=> Pending(i)
    BY <1>2, <2>1, <2>2 DEF Pending
  <2>4. ~Pending(Len(inbox))'
    BY <1>2, <2>2 DEF Pending, Payload
  <2>5. Alternates /\ AnsweredOnce
    BY DEF AInv
  <2>6. Alternates'
    <3>1. \A i \in DOMAIN inbox' : inbox'[i].part = "payload" <=> Pending(i - 1)'
      BY <1>2, <2>1, <2>2, <2>3, <2>5 DEF Alternates, Payload
    <3>2. QED
      BY <2>1, <2>4, <3>1 DEF Alternates
  <2>7. Payload(owed) \in Chunks
    BY <1>1, <1>3, <2>1 DEF TypeOK
  <2>8. AnswerableIn(inbox') = AnswerableIn(inbox)
    BY <1>2, <2>1, <2>7, HeadersAppend, HeadersFinite DEF HeaderDue, Payload
  <2>9. AnsweredOnce'
    BY <2>1, <2>5, <2>8 DEF AnsweredOnce, Unhandled
  <2>10. QED
    BY <1>1, <2>1, <2>6, <2>9 DEF AInv
<1>14. CASE Closes
  <2>1. link = "open" /\ link' = "closed" /\ UNCHANGED <<pc, held>>
    BY <1>14 DEF Closes, serverVars
  <2>2. PICK kept \in {inbox, <<>>} : Keeps(kept)
    BY <1>14 DEF Closes
  <2>3. inbox' = kept /\ unanswered' = unanswered - AnswerableIn(inbox) + AnswerableIn(kept)
    BY <2>2 DEF Keeps
  <2>4. /\ AnswerableIn(inbox) \in Nat /\ AnswerableIn(kept) \in Nat /\ Due(held) \in Nat
    BY <1>2, HeadersFinite, UnhandledType DEF Due
  <2>5. AnsweredOnce'
    BY <2>1, <2>3, <2>4 DEF AInv, AnsweredOnce, Unhandled
  <2>6. Alternates'
    BY <1>2, <2>1, <2>3 DEF AInv, Alternates, Pending
  <2>7. QED
    BY <1>1, <2>1, <2>5, <2>6 DEF AInv
<1>15. CASE LinkLost \/ (\E k \in {"D", "other"} : PressKey(k)) \/ UNCHANGED vars
  <2>1. /\ UNCHANGED <<pc, held, inbox, owed, unanswered>>
        /\ link' = link \/ (link = "open" /\ link' = "broken")
    BY <1>15 DEF LinkLost, PressKey, vars, serverVars, networkVars
  <2>2. Pending(0)' = Pending(0) /\ \A i : Pending(i)' <=> Pending(i)
    BY <2>1 DEF Pending
  <2>3. Alternates' /\ AnsweredOnce'
    BY <2>1, <2>2 DEF AInv, Alternates, AnsweredOnce, Unhandled
  <2>4. QED
    BY <1>1, <2>1, <2>3 DEF AInv
<1>16. QED
  BY <1>4, <1>6, <1>7, <1>8, <1>9, <1>10, <1>11, <1>12, <1>13, <1>14, <1>15
     DEF Next, ServerStep, Environment

\* Every packet that reaches the handler, but a heartbeat, is answered exactly
\* once, also when it ends the session: packets sent, less answers given and
\* packets discarded unhandled, are the packets the server has yet to handle,
\* in every state (AnsweredOnce, REQ-COM-060).
THEOREM EveryPacketAnswered == Spec => []AnsweredOnce
<1>1. Init => AInv
  <2> SUFFICES ASSUME Init PROVE AInv
    OBVIOUS
  <2>1. AnsweredOnce
    BY UnhandledType DEF Init, AnsweredOnce, Unhandled, Due
  <2>2. Alternates
    BY DEF Init, Alternates, Pending
  <2>3. QED
    BY <2>1, <2>2, InitType DEF Init, AInv
<1>2. AInv => AnsweredOnce
  BY DEF AInv
<1>3. QED
  BY <1>1, <1>2, AnswersStep, PTL DEF Spec
=============================================================================
