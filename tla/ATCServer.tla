----------------------------- MODULE ATCServer ------------------------------
(***************************************************************************)
(* The ground-control server: main's accept loop and handle_client         *)
(* (server/src/main.c) over the packet I/O of include/network.h.  The      *)
(* server is one thread that serves one connection at a time.              *)
(*                                                                         *)
(* pc is the point where that thread waits: in accept(), at the keyboard   *)
(* check on top of the loop, in select(), in recv() for the payload of a   *)
(* packet whose header it has read, or in send() with the megabyte of      *)
(* weather data.  The network delivers a packet as a header and, where     *)
(* there is one, a payload, which arrive separately.                       *)
(* The aircraft, the link and the controller's keyboard are the            *)
(* environment.  Time is left out: a select() that times out may or may    *)
(* not find a keepalive due (Keepalive has the clock).                     *)
(***************************************************************************)
EXTENDS Integers, Sequences, FiniteSets, ATCStateMachine

CONSTANTS
    Packets,        \* the packets an aircraft may send
    NoPacket,
    Callsigns,
    NoCallsign,     \* the empty aircraft_id
    SERVER_ATC_ID,
    MaxInbox,       \* bound: chunks on their way to the server
    MaxKeys         \* bound: key presses the console holds

Lengths == {"none", "short", "full", "oversize"}

\* seq identifies the packet among those of all sessions, as the session and
\* its seq_num do.  arg is the one payload byte the server acts on:
\* initial_phase of a handshake, approach_clearance of a landing report.
PacketSpace == [type : PacketTypes, seq : Nat, emergency : BOOLEAN, origin : Nat,
                id : Callsigns \cup {NoCallsign}, len : Lengths, arg : 0 .. 3]

ASSUME PacketsAssumption ==
    /\ Packets \subseteq PacketSpace
    /\ NoPacket \notin Packets
    /\ NoCallsign \notin Callsigns

ASSUME BoundsAssumption ==
    /\ SERVER_ATC_ID \in Nat
    /\ MaxInbox \in Nat
    /\ MaxKeys \in Nat

VARIABLES
    pc,             \* "accept", "keys", "select", "payload" or "send"
    state,          \* ATCState
    verified,       \* handshake_verified
    aircraft_id,
    held,           \* the packet whose header is read and payload awaited
    keys,           \* key presses not yet read by _getch
    journal,        \* the <<from, to>> pairs logged for the latest session
    link,           \* "none", "open", "closed" by the aircraft, "broken"
    inbox,          \* chunks sent by the aircraft and not yet received
    owed,           \* the packet of which the aircraft has sent only the header
    out,            \* what the latest step put on the wire
    unanswered      \* packets sent minus answers given and packets discarded

serverVars == <<pc, state, verified, aircraft_id, held, journal>>
networkVars == <<link, inbox, owed, out, unanswered>>
vars == <<serverVars, keys, networkVars>>

\* What the server sends.  "ack0" acknowledges no packet (a controller's
\* disconnect), "keepalive" is the empty ACK, the clearances are ACKs with text.
AnswerKinds == {"ack", "error", "departure", "cleared", "not_cleared"}
ReplyKinds == AnswerKinds \cup {"ack0", "keepalive", "weather"}

HasPayload(p) == p.len # "none"
Foreign(p) == p.origin # 0 /\ p.origin # SERVER_ATC_ID

\* Every packet is owed an answer but the aircraft's own heartbeat.
Answerable(p) == p.type # "ACK" \/ p.emergency \/ Foreign(p)

Header(p) == [part |-> "header", pkt |-> p]
Payload(p) == [part |-> "payload", pkt |-> p]
Chunks == [part : {"header", "payload"}, pkt : Packets]

Answers(replies) == Cardinality({i \in DOMAIN replies : replies[i] \in AnswerKinds})

\* The packets among the chunks, and the packet, that are owed an answer.
AnswerableIn(chunks) == Cardinality({i \in DOMAIN chunks :
    chunks[i].part = "header" /\ Answerable(chunks[i].pkt)})
Due(p) == IF p # NoPacket /\ Answerable(p) THEN 1 ELSE 0

\* What the server has yet to handle.
Unhandled == AnswerableIn(inbox) + Due(held)

Init ==
    /\ pc = "accept"
    /\ state = "IDLE"
    /\ verified = FALSE
    /\ aircraft_id = NoCallsign
    /\ held = NoPacket
    /\ keys = <<>>
    /\ journal = {}
    /\ link = "none"
    /\ inbox = <<>>
    /\ owed = NoPacket
    /\ out = <<>>
    /\ unanswered = 0

-----------------------------------------------------------------------------
(* The environment: the aircraft's end of the connection, the link, and    *)
(* the controller's keyboard.                                              *)

Sends(p) ==
    /\ link = "open" /\ owed = NoPacket /\ Len(inbox) < MaxInbox
    /\ inbox' = Append(inbox, Header(p))
    /\ owed' = IF HasPayload(p) THEN p ELSE NoPacket
    /\ unanswered' = IF Answerable(p) THEN unanswered + 1 ELSE unanswered
    /\ out' = <<>>
    /\ UNCHANGED <<serverVars, keys, link>>

SendsPayload ==
    /\ link = "open" /\ owed # NoPacket /\ Len(inbox) < MaxInbox
    /\ inbox' = Append(inbox, Payload(owed))
    /\ owed' = NoPacket
    /\ out' = <<>>
    /\ UNCHANGED <<serverVars, keys, link, unanswered>>

\* Of the chunks under way the server will find no more than `kept`.
Keeps(kept) ==
    /\ inbox' = kept
    /\ unanswered' = unanswered - AnswerableIn(inbox) + AnswerableIn(kept)

\* An orderly close leaves what was sent; a reset discards it.
Closes ==
    /\ link = "open"
    /\ link' = "closed"
    /\ Keeps(inbox) \/ Keeps(<<>>)
    /\ out' = <<>>
    /\ UNCHANGED <<serverVars, keys, owed>>

\* The peer vanishes without a FIN or a reset.
LinkLost ==
    /\ link = "open"
    /\ link' = "broken"
    /\ out' = <<>>
    /\ UNCHANGED <<serverVars, keys, inbox, owed, unanswered>>

PressKey(k) ==
    /\ Len(keys) < MaxKeys
    /\ keys' = Append(keys, k)
    /\ out' = <<>>
    /\ UNCHANGED <<serverVars, link, inbox, owed, unanswered>>

-----------------------------------------------------------------------------
(* Opening and closing a session.                                          *)

\* accept() returns and handle_client begins: its locals are fresh, the key
\* presses of the console are not.  The connection has waited in the backlog,
\* where the aircraft may have sent `early` and may have closed it again.
AcceptFrom(l, early) ==
    /\ pc = "accept"
    /\ pc' = "keys"
    /\ state' = "HANDSHAKE"
    /\ verified' = FALSE
    /\ aircraft_id' = NoCallsign
    /\ held' = NoPacket
    /\ journal' = {<<"IDLE", "HANDSHAKE">>}
    /\ link' = l
    /\ inbox' = early
    /\ owed' = NoPacket
    /\ out' = <<>>
    /\ unanswered' = unanswered + AnswerableIn(early)
    /\ UNCHANGED keys

Accept == AcceptFrom("open", <<>>)

\* Fault: the guard of the first hop is missing.
ClosingHopsUnguarded(s) == {<<s, "DISCONNECTED">>, <<"DISCONNECTED", "IDLE">>}

\* What session_end logs when it is reached in state s.
ClosingHops(s) ==
    {<<"DISCONNECTED", "IDLE">>} \cup
        (IF s = "DISCONNECTED" THEN {} ELSE {<<s, "DISCONNECTED">>})

\* session_end, the return of handle_client and closesocket; `walked` was
\* logged on the way from the current state to s.  Packets not yet handled
\* are discarded with the socket.
EndSession(s, walked, replies, discarded) ==
    /\ state' = "IDLE"
    /\ journal' = journal \cup walked \cup ClosingHops(s)
    /\ pc' = "accept"
    /\ verified' = FALSE
    /\ aircraft_id' = NoCallsign
    /\ held' = NoPacket
    /\ link' = "none"
    /\ inbox' = <<>>
    /\ owed' = NoPacket
    /\ out' = replies
    /\ unanswered' = unanswered - Answers(replies) - discarded

-----------------------------------------------------------------------------
(* The loop of handle_client up to the point where a packet is complete.   *)

ControllerDisconnects ==
    /\ pc = "keys" /\ keys # <<>> /\ Head(keys) = "D"
    /\ keys' = Tail(keys)
    /\ EndSession(state, {}, <<"ack0">>, Unhandled)

\* One key is read per round, and any key but D is dropped.
NoDisconnectKey ==
    /\ pc = "keys"
    /\ keys # <<>> => Head(keys) # "D"
    /\ keys' = IF keys = <<>> THEN <<>> ELSE Tail(keys)
    /\ pc' = "select"
    /\ out' = <<>>
    /\ UNCHANGED <<state, verified, aircraft_id, held, journal, link, inbox,
                   owed, unanswered>>

SelectTimesOut ==
    /\ pc = "select" /\ inbox = <<>> /\ link # "closed"
    /\ out' \in {<<>>, <<"keepalive">>}
    /\ pc' = "keys"
    /\ UNCHANGED <<state, verified, aircraft_id, held, keys, journal, link,
                   inbox, owed, unanswered>>

\* Fault: the result of the keepalive's send is ignored.
KeepaliveResultIgnored ==
    /\ pc = "select" /\ inbox = <<>> /\ link = "broken"
    /\ pc' = "keys"
    /\ out' = <<>>
    /\ UNCHANGED <<state, verified, aircraft_id, held, keys, journal, link,
                   inbox, owed, unanswered>>

KeepaliveFails ==
    /\ pc = "select" /\ inbox = <<>> /\ link = "broken"
    /\ EndSession(state, {}, <<>>, Unhandled)
    /\ UNCHANGED keys

\* Fault: only a failure to read a header is looked at.
HeaderRecvFails ==
    /\ pc = "select" /\ inbox = <<>> /\ link = "closed"
    /\ EndSession(state, {}, <<>>, Unhandled)
    /\ UNCHANGED keys

RecvFails ==
    /\ pc \in {"select", "payload"} /\ inbox = <<>> /\ link = "closed"
    /\ EndSession(state, {}, <<>>, Unhandled)
    /\ UNCHANGED keys

\* recv_packet refuses a payload over MAX_PAYLOAD_BYTES, or finds no memory.
RecvRejects ==
    /\ pc = "select" /\ inbox # <<>>
    /\ HasPayload(Head(inbox).pkt)
    /\ EndSession(state, {}, <<>>, Unhandled)
    /\ UNCHANGED keys

RecvHeader ==
    /\ pc = "select" /\ inbox # <<>>
    /\ Head(inbox).pkt.len \in {"short", "full"}
    /\ held' = Head(inbox).pkt
    /\ inbox' = Tail(inbox)
    /\ pc' = "payload"
    /\ out' = <<>>
    /\ UNCHANGED <<state, verified, aircraft_id, keys, journal, link, owed,
                   unanswered>>

\* recv_packet returns the whole of p.
Received(p) ==
    /\ inbox # <<>>
    /\ \/ pc = "select" /\ Head(inbox).pkt = p /\ ~HasPayload(p)
       \/ pc = "payload" /\ held = p

-----------------------------------------------------------------------------
(* One action per outcome of handle_client for a complete packet.          *)

\* The first callsign seen on the connection is kept.
CapturedId(p) == IF aircraft_id = NoCallsign THEN p.id ELSE aircraft_id

\* The packet is consumed, answered, and a change of state is logged.
Consume(p, s, v, replies) ==
    /\ inbox' = Tail(inbox)
    /\ held' = NoPacket
    /\ aircraft_id' = CapturedId(p)
    /\ state' = s
    /\ journal' = IF s = state THEN journal ELSE journal \cup {<<state, s>>}
    /\ verified' = v
    /\ out' = replies
    /\ unanswered' = unanswered - Answers(replies)
    /\ UNCHANGED <<keys, link, owed>>

\* Then the loop goes round.
Proceed(p, s, v, replies) == pc' = "keys" /\ Consume(p, s, v, replies)

Reject(p) == Proceed(p, state, verified, <<"error">>)
Grant(p, s, reply) == Proceed(p, s, verified, <<reply>>)

\* Fault: an emergency is honoured in any state.
EmergencyUnguarded(p) == Received(p) /\ p.emergency /\ Grant(p, "MAYDAY", "ack")

\* The emergency flag is looked at before anything else.
HandleEmergency(p) ==
    /\ Received(p) /\ p.emergency
    /\ Grant(p, IF state \in FlightStates THEN "MAYDAY" ELSE state, "ack")

\* A retransmission from another ATC is acknowledged and otherwise ignored.
HandleBuffered(p) ==
    /\ Received(p) /\ ~p.emergency /\ Foreign(p)
    /\ Grant(p, state, "ack")

PassesGate(p) == verified \/ is_allowed_before_handshake(p.type)

HandleGated(p) ==
    /\ Received(p) /\ ~p.emergency /\ ~Foreign(p)
    /\ ~PassesGate(p)
    /\ Reject(p)

\* The packet reaches the switch of handle_client.
Dispatched(p, type) ==
    /\ Received(p) /\ ~p.emergency /\ ~Foreign(p) /\ PassesGate(p)
    /\ p.type = type

\* Fault: a phase other than 2 and 3 is not mapped to a state.
InitialStateUnmapped(p) ==
    CASE p.len = "full" /\ p.arg = 2 -> "TRANSIT"
      [] p.len = "full" /\ p.arg = 3 -> "LANDING"
      [] OTHER                       -> "NO_STATE"

\* A phase declared in a payload too short to hold it reads as 0.
InitialState(p) ==
    CASE p.len = "full" /\ p.arg = 2 -> "TRANSIT"
      [] p.len = "full" /\ p.arg = 3 -> "LANDING"
      [] OTHER                       -> "HANDSHAKE"

HandleHandshake(p) ==
    /\ Dispatched(p, "HANDSHAKE")
    /\ \/ /\ state # "HANDSHAKE" \/ p.id = NoCallsign
          /\ Reject(p)
       \/ /\ state = "HANDSHAKE" /\ p.id # NoCallsign
          /\ Proceed(p, InitialState(p), TRUE, <<"ack">>)

HandleTakeoff(p) ==
    /\ Dispatched(p, "TAKEOFF")
    /\ \/ state \notin {"HANDSHAKE", "TAKEOFF"} /\ Reject(p)
       \/ state \in {"HANDSHAKE", "TAKEOFF"} /\ Grant(p, "TAKEOFF", "departure")

\* Fault: TRANSIT is taken in any state.
TransitUnguarded(p) == Dispatched(p, "TRANSIT") /\ Grant(p, "TRANSIT", "ack")

HandleTransit(p) ==
    /\ Dispatched(p, "TRANSIT")
    /\ \/ state \notin {"TAKEOFF", "TRANSIT"} /\ Reject(p)
       \/ state \in {"TAKEOFF", "TRANSIT"} /\ Grant(p, "TRANSIT", "ack")

\* Fault: LANDING is taken while still in TAKEOFF.
LandingFromTakeoff(p) ==
    /\ Dispatched(p, "LANDING")
    /\ \/ state \notin FlightStates /\ Reject(p)
       \/ state \in FlightStates /\ Grant(p, "LANDING", "cleared")

\* The landing clearance repeats the aircraft's own approach_clearance.
HandleLanding(p) ==
    /\ Dispatched(p, "LANDING")
    /\ \/ state \notin {"TRANSIT", "LANDING"} /\ Reject(p)
       \/ /\ state \in {"TRANSIT", "LANDING"}
          /\ Grant(p, "LANDING",
                   IF p.len = "full" /\ p.arg # 0 THEN "cleared" ELSE "not_cleared")

HandleMayday(p) ==
    /\ Dispatched(p, "MAYDAY")
    /\ \/ state \notin FlightStates \cup {"MAYDAY"} /\ Reject(p)
       \/ state \in FlightStates \cup {"MAYDAY"} /\ Grant(p, "MAYDAY", "ack")

\* send_large_data gives up at once when it finds no memory for the data.
HandleLargeDataRequest(p) ==
    /\ Dispatched(p, "LARGE_DATA_REQUEST")
    /\ pc' \in {"send", "keys"}
    /\ Consume(p, state, verified, <<"ack">>)

\* send_large_data returns, and its result is ignored: a send of that size
\* ends when the aircraft has read most of it, or fails on a dead link.
LargeDataEnds(reply) ==
    /\ pc = "send"
    /\ pc' = "keys"
    /\ out' = reply
    /\ UNCHANGED <<state, verified, aircraft_id, held, keys, journal, link, inbox,
                   owed, unanswered>>

LargeDataSent == link = "open" /\ LargeDataEnds(<<"weather">>)
LargeDataFails == link # "open" /\ LargeDataEnds(<<>>)

HandleHandoffNotify(p) ==
    /\ Dispatched(p, "HANDOFF_NOTIFY")
    /\ EndSession(state, {}, <<"ack">>, AnswerableIn(Tail(inbox)))
    /\ UNCHANGED keys

\* Where the walk TRANSIT, LANDING, DISCONNECTED leads from the current
\* state, and the hops it logs.
WalkToTransit == HopTo(state, "TRANSIT")
WalkToLanding == HopTo(WalkToTransit, "LANDING")
WalkEnd == HopTo(WalkToLanding, "DISCONNECTED")
Walked == {hop \in {<<state, WalkToTransit>>, <<WalkToTransit, WalkToLanding>>,
                    <<WalkToLanding, WalkEnd>>} : hop[1] # hop[2]}

\* Fault: a disconnect is not acknowledged.
DisconnectUnanswered(p) ==
    /\ Dispatched(p, "DISCONNECT")
    /\ EndSession(WalkEnd, Walked, <<>>, AnswerableIn(Tail(inbox)))
    /\ UNCHANGED keys

HandleDisconnect(p) ==
    /\ Dispatched(p, "DISCONNECT")
    /\ EndSession(WalkEnd, Walked, <<"ack">>, AnswerableIn(Tail(inbox)))
    /\ UNCHANGED keys

\* The aircraft's heartbeat: no answer.
HandleAck(p) ==
    /\ Dispatched(p, "ACK")
    /\ Proceed(p, state, verified, <<>>)

HandledTypes == {"HANDSHAKE", "TAKEOFF", "TRANSIT", "LANDING", "MAYDAY",
                 "LARGE_DATA_REQUEST", "HANDOFF_NOTIFY", "DISCONNECT", "ACK"}

HandleUnknown(p) ==
    /\ Dispatched(p, p.type)
    /\ p.type \notin HandledTypes
    /\ Reject(p)

-----------------------------------------------------------------------------
Handle(p) ==
    \/ HandleEmergency(p) \/ HandleBuffered(p) \/ HandleGated(p)
    \/ HandleHandshake(p)
    \/ HandleTakeoff(p) \/ HandleTransit(p) \/ HandleLanding(p)
    \/ HandleMayday(p)
    \/ HandleLargeDataRequest(p)
    \/ HandleHandoffNotify(p) \/ HandleDisconnect(p)
    \/ HandleAck(p) \/ HandleUnknown(p)

\* The packet at the head of the server's input.
Arriving == IF inbox = <<>> THEN {} ELSE {Head(inbox).pkt}

\* A step the server's thread takes by itself once accept() has returned.
ServerStep ==
    \/ ControllerDisconnects \/ NoDisconnectKey
    \/ SelectTimesOut \/ KeepaliveFails
    \/ RecvFails \/ RecvRejects \/ RecvHeader
    \/ LargeDataFails
    \/ \E p \in Arriving : Handle(p)

Environment ==
    \/ \E p \in Packets : Sends(p)
    \/ SendsPayload \/ Closes \/ LinkLost
    \/ \E k \in {"D", "other"} : PressKey(k)

Next == Accept \/ ServerStep \/ LargeDataSent \/ Environment

Spec == Init /\ [][Next]_vars

\* The operating system runs the server's thread, and TCP does not let sends
\* on a dead link succeed for ever.  Nothing makes an aircraft whose link is
\* up read what it is sent: LargeDataSent may never happen.
Fairness == WF_vars(ServerStep) /\ SF_vars(KeepaliveFails)

FairSpec == Spec /\ Fairness

-----------------------------------------------------------------------------
(* Properties.                                                             *)

\* The types of the variables.
TypeOK ==
    /\ pc \in {"accept", "keys", "select", "payload", "send"}
    /\ state \in States
    /\ verified \in BOOLEAN
    /\ aircraft_id \in Callsigns \cup {NoCallsign}
    /\ held \in Packets \cup {NoPacket}
    /\ keys \in Seq({"D", "other"})
    /\ journal \subseteq States \X States
    /\ link \in {"none", "open", "closed", "broken"}
    /\ inbox \in Seq(Chunks)
    /\ owed \in Packets \cup {NoPacket}
    /\ out \in Seq(ReplyKinds)
    /\ unanswered \in Int

\* Whatever arrives before the handshake (emergencies and buffered packets
\* bypass the gate of REQ-SYS-080), an aircraft shown in flight or in MAYDAY
\* has been verified, and a verified one has a callsign.
VerifiedBeforeFlight ==
    /\ state \in FlightStates \cup {"MAYDAY"} => verified
    /\ verified => aircraft_id # NoCallsign

\* The session log tells one story: the transitions logged for the latest
\* session form a path from IDLE to the present state that enters no state
\* twice, also across the several hops of a disconnect (REQ-LOG-020).
JournalIsAPath ==
    /\ \A e, f \in journal : (e[1] = f[1] \/ e[2] = f[2]) => e = f
    /\ \A e \in journal : e[2] = state \/ \E f \in journal : f[1] = e[2]
    /\ state # "IDLE" => \A e \in journal : e[1] # state

\* The MAYDAY state outlives every later packet, accepted or not: only the
\* end of the session leaves it, and the log then shows it (REQ-STM-040).
MaydayLatched ==
    [][state = "MAYDAY" /\ state' # "MAYDAY" =>
          pc' = "accept" /\ <<"MAYDAY", "DISCONNECTED">> \in journal']_vars

\* REQ-COM-060: every packet that reaches the handler, but a heartbeat, is
\* answered exactly once, rejected ones and those that end the session
\* included (main.c:562 and 571): packets sent, less answers given, are the
\* packets not yet handled.  Those that never reach the handler (unread when
\* a session ends or the connection is reset, refused by recv_packet, cut
\* short) are answered by nobody and off the count.
AnsweredOnce == unanswered = Unhandled

Session == INSTANCE ATCSession WITH phase <- state

\* The server implements the promise of a session.
SessionPromise == Session!Spec

\* An aircraft that closes its connection releases the server for the next
\* one, whatever it had sent before.
ClosedLinkReleased == link = "closed" ~> pc = "accept"

\* A link that dies between two packets is found out by a failing keepalive,
\* and the server returns to listening.
LostLinkReleased == (link = "broken" /\ owed = NoPacket) ~> pc = "accept"

\* server/README.md:72: pressing D force-disconnects the aircraft at any time
\* while it is connected.
DisconnectAtAnyTime ==
    (pc # "accept" /\ keys # <<>> /\ Head(keys) = "D") ~> pc = "accept"
=============================================================================
