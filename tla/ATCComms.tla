------------------------------- MODULE ATCComms -------------------------------
(***************************************************************************)
(* One aircraft and its ground controller: the client of client/src        *)
(* (main.rs, receiver.rs, heartbeat.rs, buffer.rs, network.rs) composed    *)
(* with the server of ATCServer.                                           *)
(*                                                                         *)
(* The client is its main thread (connect, register, wait for the ACK,     *)
(* flush the buffer, menu), the receiver thread and the heartbeat thread   *)
(* of the present session.  Whenever the pilot reconnects, run_session     *)
(* calls itself, so the old connection is left open: `line` is what became *)
(* of the client's present connection, `link` the server's view of the one *)
(* it serves, which may be an older one.  A connection the server has yet  *)
(* to accept waits in the backlog.  The pilot reconnects to the same       *)
(* ground controller.                                                      *)
(***************************************************************************)
EXTENDS Integers, Sequences, FiniteSets, ATCStateMachine

CONSTANTS
    Callsign, NoCallsign, NoPacket,
    SERVER_ATC_ID,
    PREV_ATC_ID,    \* the origin stamped on a buffered packet
    Options,        \* the menu options the pilot uses
    FalseAlarm,     \* may the read timeout expire on a healthy connection?
    MaxSent,        \* bound: packets the main thread sends, heartbeats apart
    MaxInbox, MaxChan, MaxKeys  \* bounds: chunks and replies under way, keys

MenuOptions == {"takeoff", "transit", "landing", "landing_cleared", "mayday",
                "disconnect", "weather", "handoff"}

ASSUME CommsAssumption ==
    /\ Options \subseteq MenuOptions
    /\ FalseAlarm \in BOOLEAN
    /\ {SERVER_ATC_ID, PREV_ATC_ID, MaxSent, MaxInbox, MaxChan, MaxKeys} \subseteq Nat
    /\ Callsign # NoCallsign

VARIABLES
    pc, state, verified, aircraft_id, held, keys, journal,      \* the server
    link, inbox, owed, out, unanswered,
    main,           \* where the client's main thread is
    line,           \* "none", "queued", "open", "closed" by the server, "lost"
    backlog,        \* the connection waiting for accept()
    chan,           \* replies on their way to the client
    listening,      \* somebody still reads the present connection
    alive,
    phase_state,
    buffer,         \* the handoff buffer
    sent,           \* what the main thread has sent or tried to, in order
    handled         \* of these, the ones the server handled, in order

OptionType == [takeoff |-> "TAKEOFF", transit |-> "TRANSIT", landing |-> "LANDING",
             landing_cleared |-> "LANDING", mayday |-> "MAYDAY",
             disconnect |-> "DISCONNECT", weather |-> "LARGE_DATA_REQUEST",
             handoff |-> "HANDOFF_NOTIFY"]

Handshake(n, phase) ==
    [type |-> "HANDSHAKE", seq |-> n, emergency |-> FALSE, origin |-> 0,
     id |-> Callsign, len |-> "full", arg |-> phase]

Heartbeat ==
    [type |-> "ACK", seq |-> 0, emergency |-> FALSE, origin |-> 0,
     id |-> Callsign, len |-> "none", arg |-> 0]

\* Fault: the number is taken before it is advanced.
CommandMisnumbered(option, n) ==
    [type |-> OptionType[option], seq |-> n - 1, emergency |-> option = "mayday",
     origin |-> IF option = "handoff" THEN PREV_ATC_ID ELSE 0,
     id |-> Callsign, len |-> "full", arg |-> 0]

\* The packet built for a menu option; a phase report carries telemetry.
Command(option, n) ==
    [type |-> OptionType[option], seq |-> n, emergency |-> option = "mayday",
     origin |-> IF option = "handoff" THEN PREV_ATC_ID ELSE 0,
     id |-> Callsign,
     len |-> IF option \in {"takeoff", "transit", "landing", "landing_cleared"}
             THEN "full" ELSE "none",
     arg |-> IF option = "landing_cleared" THEN 1 ELSE 0]

Buffered(p) == [p EXCEPT !.origin = PREV_ATC_ID]

Commands == {Command(o, n) : o \in Options, n \in 1 .. MaxSent}
Packets == {Heartbeat} \cup {Handshake(n, ph) : n \in 1 .. MaxSent, ph \in {0, 2, 3}}
             \cup Commands \cup {Buffered(p) : p \in Commands}
Callsigns == {Callsign}

ASSUME NoPacketAssumption == NoPacket \notin Packets

Server == INSTANCE ATCServer

serverSide == <<pc, state, verified, aircraft_id, held, keys, journal>>
toServer == <<link, inbox, owed, unanswered>>
clientSide == <<main, listening, alive, phase_state, buffer, sent>>
vars == <<serverSide, toServer, out, clientSide, line, backlog, chan, handled>>

Init ==
    /\ Server!Init
    /\ main = "connect"
    /\ line = "none"
    /\ backlog = <<>>
    /\ chan = <<>>
    /\ listening = FALSE
    /\ alive = FALSE
    /\ phase_state = 0
    /\ buffer = <<>>
    /\ sent = <<>>
    /\ handled = <<>>

-----------------------------------------------------------------------------
(* The connection.                                                         *)

Prefixes(s) == {SubSeq(s, 1, n) : n \in 0 .. Len(s)}

Chunks(p) == IF Server!HasPayload(p) THEN <<Server!Header(p), Server!Payload(p)>>
             ELSE <<Server!Header(p)>>

\* send_packet reports success.  On a dead connection that means nothing.
SendSucceeds(p) ==
    \/ /\ line = "open" /\ Len(inbox) + Len(Chunks(p)) <= MaxInbox
       /\ inbox' = inbox \o Chunks(p)
       /\ unanswered' = unanswered + (IF Server!Answerable(p) THEN 1 ELSE 0)
       /\ UNCHANGED backlog
    \/ /\ line = "queued"
       /\ backlog' = <<[backlog[1] EXCEPT !.chunks = @ \o Chunks(p)]>>
       /\ UNCHANGED <<inbox, unanswered>>
    \/ /\ line \in {"lost", "closed"}
       /\ UNCHANGED <<inbox, unanswered, backlog>>

SendFails == line \in {"lost", "closed"} /\ UNCHANGED <<inbox, unanswered, backlog>>

\* What a send leaves alone.
SendFrame == out' = <<>> /\ UNCHANGED <<serverSide, link, owed, handled>>

\* The path between the two goes down: what was under way may be cut short.
PathLost ==
    /\ link = "open" \/ line \in {"open", "queued"}
    /\ link' = IF link = "open" THEN "broken" ELSE link
    /\ \E kept \in IF link = "open" THEN Prefixes(inbox) ELSE {inbox} : Server!Keeps(kept)
    /\ line' = IF line \in {"open", "queued"} THEN "lost" ELSE line
    /\ chan' \in IF line = "open" THEN Prefixes(chan) ELSE {chan}
    /\ \/ /\ line = "queued"
          /\ \E kept \in Prefixes(backlog[1].chunks) :
                backlog' = <<[link |-> "broken", chunks |-> kept]>>
       \/ line # "queued" /\ UNCHANGED backlog
    /\ out' = <<>>
    /\ UNCHANGED <<serverSide, owed, clientSide, handled>>

\* process::exit and the return of main close every socket of the client.
Exits ==
    /\ main' = "exited"
    /\ line' = "none"
    /\ chan' = <<>>
    /\ listening' = FALSE
    /\ link' = IF link = "open" THEN "closed" ELSE link
    /\ \E kept \in IF link = "open" THEN {inbox, <<>>} ELSE {inbox} : Server!Keeps(kept)
    /\ backlog' = [i \in DOMAIN backlog |->
            [backlog[i] EXCEPT !.link = IF @ = "open" THEN "closed" ELSE @]]
    /\ out' = <<>>
    /\ UNCHANGED <<serverSide, owed, alive, phase_state, buffer, sent, handled>>

-----------------------------------------------------------------------------
(* The client's main thread.                                               *)

\* A connection is established as soon as it is in the backlog.  The socket
\* of the session before it stays open.
Connects ==
    /\ main = "connect" /\ backlog = <<>>
    /\ main' = "register"
    /\ line' = "queued"
    /\ backlog' = <<[link |-> "open", chunks |-> <<>>]>>
    /\ chan' = <<>>
    /\ listening' = TRUE
    /\ SendFrame
    /\ UNCHANGED <<inbox, unanswered, alive, phase_state, buffer, sent>>

\* The retries of Connection::connect are used up, or the pilot's input fails.
GivesUp == main \in {"connect", "prompt", "leaving"} /\ Exits

\* Fault: a client that reconnects does not register again.
RegistersOnce ==
    /\ main = "register" /\ Len(sent) < MaxSent
    /\ main' = "greet"
    /\ sent' = Append(sent, "handshake")
    /\ \/ sent = <<>> /\ SendSucceeds(Handshake(1, phase_state))
       \/ sent # <<>> /\ UNCHANGED <<inbox, unanswered, backlog>>
    /\ SendFrame
    /\ UNCHANGED <<line, chan, listening, alive, phase_state, buffer>>

Registers ==
    /\ main = "register" /\ Len(sent) < MaxSent
    /\ main' = "greet"
    /\ sent' = Append(sent, "handshake")
    /\ SendSucceeds(Handshake(Len(sent) + 1, phase_state))
    /\ SendFrame
    /\ UNCHANGED <<line, chan, listening, alive, phase_state, buffer>>

RegisterFails == main = "register" /\ line \in {"lost", "closed"} /\ Exits

\* Any ACK is taken for the answer to the handshake.
AckKinds == Server!ReplyKinds \ {"error", "weather"}

Greeted ==
    /\ main = "greet" /\ chan # <<>> /\ Head(chan) \in AckKinds
    /\ main' = "flush"
    /\ chan' = Tail(chan)
    /\ SendFrame
    /\ UNCHANGED <<inbox, unanswered, backlog, line, listening, alive,
                   phase_state, buffer, sent>>

\* Any other answer, or none, ends the client.
GreetFails ==
    /\ main = "greet"
    /\ IF chan # <<>> THEN Head(chan) \notin AckKinds ELSE line # "open" \/ FalseAlarm
    /\ Exits

\* Fault: the buffer is copied, not drained.
FlushKeeps ==
    /\ main = "flush"
    /\ \/ /\ buffer # <<>>
          /\ SendSucceeds(Head(buffer)) \/ SendFails
       \/ /\ buffer = <<>>
          /\ UNCHANGED <<inbox, unanswered, backlog>>
    /\ alive' = TRUE
    /\ main' = "menu"
    /\ SendFrame
    /\ UNCHANGED <<line, chan, listening, phase_state, sent, buffer>>

\* flush_buffer: a packet that cannot be sent is dropped.  When the buffer is
\* drained the receiver and heartbeat threads start.
Flush ==
    /\ main = "flush"
    /\ \/ /\ buffer # <<>>
          /\ SendSucceeds(Head(buffer)) \/ SendFails
          /\ buffer' = Tail(buffer)
          /\ UNCHANGED <<main, alive>>
       \/ /\ buffer = <<>>
          /\ main' = "menu"
          /\ alive' = TRUE
          /\ UNCHANGED <<buffer, inbox, unanswered, backlog>>
    /\ SendFrame
    /\ UNCHANGED <<line, chan, listening, phase_state, sent>>

\* The top of the menu loop looks at alive before it waits for input.
Menu ==
    /\ main = "menu"
    /\ main' = IF alive THEN "prompt" ELSE "connect"
    /\ listening' = (alive /\ listening)
    /\ SendFrame
    /\ UNCHANGED <<inbox, unanswered, backlog, line, chan, alive, phase_state,
                   buffer, sent>>

\* Fault: the phase is one too high for a landing.
PhaseAfterLanding(option) ==
    CASE option = "transit"                       -> 2
      [] option \in {"landing", "landing_cleared"} -> 4
      [] OTHER                                    -> phase_state

PhaseAfter(option) ==
    CASE option = "transit"                       -> 2
      [] option \in {"landing", "landing_cleared"} -> 3
      [] OTHER                                    -> phase_state

Reportable == Options \ {"disconnect", "handoff"}

\* The pilot picks an option, and the phase is set at once: before the
\* telemetry is asked for, and before anything is sent.
Chooses(option) ==
    /\ main = "prompt" /\ option \in Reportable /\ Len(sent) < MaxSent
    /\ main' = OptionType[option]
    /\ phase_state' = PhaseAfter(option)
    /\ SendFrame
    /\ UNCHANGED <<inbox, unanswered, backlog, line, chan, listening, alive,
                   buffer, sent>>

\* Fault: a failing send is buffered, but the session goes on.
ReportsRegardless(option) ==
    /\ option \in Reportable /\ main = OptionType[option] /\ Len(sent) < MaxSent
    /\ main' = "menu"
    /\ sent' = Append(sent, option)
    /\ \/ /\ SendSucceeds(Command(option, Len(sent) + 1))
          /\ UNCHANGED buffer
       \/ /\ SendFails
          /\ buffer' = Append(buffer, Buffered(Command(option, Len(sent) + 1)))
    /\ SendFrame
    /\ UNCHANGED <<line, chan, listening, alive, phase_state>>

\* The telemetry is complete: send_or_buffer.
Reports(option) ==
    /\ option \in Reportable /\ main = OptionType[option] /\ Len(sent) < MaxSent
    /\ main' = "menu"
    /\ sent' = Append(sent, option)
    /\ \/ /\ SendSucceeds(Command(option, Len(sent) + 1))
          /\ UNCHANGED <<buffer, alive>>
       \/ /\ SendFails
          /\ buffer' = Append(buffer, Buffered(Command(option, Len(sent) + 1)))
          /\ alive' = FALSE
    /\ SendFrame
    /\ UNCHANGED <<line, chan, listening, phase_state>>

\* The last packet of a session is sent, or not, and never buffered.
Leaves(option) ==
    /\ main = "prompt" /\ Len(sent) < MaxSent /\ option \in {"disconnect", "handoff"}
    /\ main' = IF option = "handoff" THEN "connect" ELSE "leaving"
    /\ listening' = FALSE
    /\ sent' = Append(sent, option)
    /\ SendSucceeds(Command(option, Len(sent) + 1)) \/ SendFails
    /\ SendFrame
    /\ UNCHANGED <<line, chan, alive, phase_state, buffer>>

\* An unknown option.
Mistypes ==
    /\ main = "prompt"
    /\ main' = "menu"
    /\ SendFrame
    /\ UNCHANGED <<inbox, unanswered, backlog, line, chan, listening, alive,
                   phase_state, buffer, sent>>

-----------------------------------------------------------------------------
(* The client's receiver and heartbeat threads.                            *)

\* They run while the pilot is in the menu, or asked for telemetry there.
Composing == {"TAKEOFF", "TRANSIT", "LANDING", "MAYDAY", "LARGE_DATA_REQUEST"}
InMenu == main \in {"menu", "prompt"} \cup Composing

ThreadFrame ==
    /\ out' = <<>>
    /\ UNCHANGED <<serverSide, link, owed, backlog, line, main, buffer, sent, handled>>

\* Fault: a departure clearance is taken for a landing clearance.
DepartureLands(reply) ==
    CASE reply = "not_cleared"             -> 2
      [] reply \in {"departure", "cleared"} -> 3
      [] OTHER                             -> phase_state

\* The phase a clearance puts the client in.
PhaseCleared(reply) ==
    CASE reply \in {"departure", "not_cleared"} -> 2
      [] reply = "cleared"                     -> 3
      [] OTHER                                 -> phase_state

ReceiverReads ==
    /\ InMenu /\ listening /\ chan # <<>>
    /\ chan' = Tail(chan)
    /\ phase_state' = PhaseCleared(Head(chan))
    /\ ThreadFrame
    /\ UNCHANGED <<inbox, unanswered, listening, alive>>

\* Fault: the thread ends without telling the main thread.
ReceiverEndsQuietly ==
    /\ InMenu /\ listening /\ chan = <<>>
    /\ line \in {"lost", "closed"} \/ FalseAlarm
    /\ listening' = FALSE
    /\ ThreadFrame
    /\ UNCHANGED <<inbox, unanswered, chan, phase_state, alive>>

\* The end of the stream, a reset, or READ_TIMEOUT_SECS without a byte.
ReceiverEnds ==
    /\ InMenu /\ listening /\ chan = <<>>
    /\ line \in {"lost", "closed"} \/ FalseAlarm
    /\ listening' = FALSE
    /\ alive' = FALSE
    /\ ThreadFrame
    /\ UNCHANGED <<inbox, unanswered, chan, phase_state>>

HeartbeatSent ==
    /\ InMenu /\ alive /\ line = "open" /\ Len(inbox) < MaxInbox
    /\ inbox' = Append(inbox, Server!Header(Heartbeat))
    /\ ThreadFrame
    /\ UNCHANGED <<unanswered, chan, listening, alive, phase_state>>

HeartbeatFails ==
    /\ InMenu /\ alive /\ line \in {"lost", "closed"}
    /\ alive' = FALSE
    /\ ThreadFrame
    /\ UNCHANGED <<inbox, unanswered, chan, listening, phase_state>>

-----------------------------------------------------------------------------
(* The server, as in ATCServer, its replies sent down the connection it    *)
(* serves.                                                                 *)

Accepts ==
    /\ backlog # <<>>
    /\ Server!AcceptFrom(backlog[1].link, backlog[1].chunks)
    /\ backlog' = <<>>
    /\ line' = IF line = "queued" THEN "open" ELSE line
    /\ UNCHANGED <<clientSide, chan, handled>>

\* A connection closed with packets unread is reset, and what the client has
\* not read is discarded.  The client registers as soon as it is connected,
\* long before a keepalive is due.
Replies ==
    /\ main = "register" => out' # <<"keepalive">>
    /\ line' = IF line = "open" /\ pc' = "accept" THEN "closed" ELSE line
    /\ chan' \in IF line = "open" /\ listening
                 THEN {chan \o out'} \cup
                      (IF pc' = "accept" /\ inbox # <<>> THEN {<<>>} ELSE {})
                 ELSE {chan}
    /\ Len(chan') <= MaxChan
    /\ UNCHANGED <<clientSide, backlog>>

ServerHandles(p) ==
    /\ Server!Handle(p)
    /\ handled' = IF p.type = "ACK" THEN handled ELSE Append(handled, p)
    /\ Replies

\* The client sends no oversize payload, and the server finds memory for the
\* payloads it reads: recv_packet rejects nothing.
ServerWaits ==
    /\ \/ Server!ControllerDisconnects \/ Server!NoDisconnectKey
       \/ Server!SelectTimesOut \/ Server!KeepaliveFails
       \/ Server!RecvFails \/ Server!RecvHeader
       \/ Server!LargeDataFails
    /\ Replies
    /\ UNCHANGED handled

\* The client reads the present connection while somebody listens there; an
\* older one, left open by a reconnect, may still have its receiver thread.
WeatherSent ==
    /\ InMenu /\ line = "open" => listening
    /\ Server!LargeDataSent
    /\ Replies
    /\ UNCHANGED handled

ControllerPresses(k) ==
    /\ Server!PressKey(k)
    /\ UNCHANGED <<clientSide, line, backlog, chan, handled>>

ServerActs == Accepts \/ ServerWaits \/ \E p \in Server!Arriving : ServerHandles(p)

MainActs ==
    \/ Connects \/ Registers \/ RegisterFails
    \/ Greeted \/ GreetFails
    \/ Flush \/ Menu
    \/ \E option \in Options : Chooses(option) \/ Reports(option) \/ Leaves(option)
    \/ Mistypes

Next ==
    \/ ServerActs \/ WeatherSent
    \/ MainActs \/ GivesUp
    \/ ReceiverReads \/ ReceiverEnds
    \/ HeartbeatSent \/ HeartbeatFails
    \/ PathLost \/ \E k \in {"D", "other"} : ControllerPresses(k)

Spec == Init /\ [][Next]_vars

\* The server's thread and the receiver thread are run by their operating
\* systems.  Nothing is assumed of the pilot or of the heartbeat.
Fairness ==
    /\ WF_vars(ServerActs)
    /\ SF_vars(Server!KeepaliveFails /\ Replies /\ UNCHANGED handled)
    /\ WF_vars(ReceiverReads)
    /\ WF_vars(ReceiverEnds /\ line # "open")

FairSpec == Spec /\ Fairness

-----------------------------------------------------------------------------
(* Properties.                                                             *)

\* The types of the variables.
TypeOK ==
    /\ Server!TypeOK
    /\ main \in {"connect", "register", "greet", "flush", "menu", "prompt",
                 "leaving", "exited"} \cup Composing
    /\ line \in {"none", "queued", "open", "closed", "lost"}
    /\ backlog \in Seq([link : {"open", "closed", "broken"}, chunks : Seq(Server!Chunks)])
    /\ line = "queued" => backlog # <<>> /\ backlog[1].link = "open"
    /\ line = "open" => link = "open"
    /\ chan \in Seq(Server!ReplyKinds)
    /\ listening \in BOOLEAN /\ alive \in BOOLEAN
    /\ phase_state \in {0, 2, 3}
    /\ buffer \in Seq(Packets)
    /\ sent \in Seq(MenuOptions \cup {"handshake"}) /\ Len(sent) <= MaxSent
    /\ handled \in Seq(Packets)

\* REQ-SYS-090: whatever is lost, buffered and retransmitted across however
\* many sessions, the ground controller handles the pilot's packets in the
\* order they were given and none of them twice.
InOrderOnce ==
    \A i, j \in {n \in DOMAIN handled : handled[n].type # "HANDSHAKE"} :
        i < j => handled[i].seq < handled[j].seq

\* The packet an entry of `sent` stands for.
TypeSent(option) == IF option = "handshake" THEN "HANDSHAKE" ELSE OptionType[option]

Delivery == INSTANCE ATCDelivery WITH TypeOf <- TypeSent, given <- sent,
                                      delivered <- handled

\* REQ-SYS-090 and buffer.rs: all the sessions together deliver the pilot's
\* packets as one channel does that may lose a packet but invents, alters,
\* repeats and reorders none.
DeliveryPromise == Delivery!Spec

\* Every session the server opens here keeps the promise of ATCSession, though
\* its connection may have waited in the backlog, filled and been closed or
\* lost there, and whatever an earlier session left in the buffer, in the
\* client's phase and in the controller's keys.
EverySessionPromised == Server!SessionPromise

\* A failing send ends the session, so the buffer never holds more than the
\* one packet whose send failed, and none while a session is up.
BufferAtMostOne ==
    /\ Len(buffer) <= 1
    /\ InMenu /\ alive => buffer = <<>>

\* However the ACK that let the pilot into the menu came about, the ground
\* controller has verified the aircraft once it has handled what was sent.
MenuMeansVerified ==
    (InMenu /\ line = "open" /\ inbox = <<>>) => verified

Reported(options) == \E n \in DOMAIN sent : sent[n] \in options
TakeoffReports == {"takeoff"}
LandingReports == {"landing", "landing_cleared"}
AirborneReports == TakeoffReports \cup {"transit"} \cup LandingReports

\* Neither side runs ahead of the pilot: across clearances that arrive late,
\* reports that are refused or lost and handshakes that declare the phase of
\* an earlier session, the state of the ground controller is one the pilot has
\* reported, or been cleared for upon a report, and so is the client's phase,
\* but for the time from the choice of an option (main.rs:338, 343) to the end
\* of the telemetry prompts, when the phase is set and the report not sent.
NeitherAhead ==
    /\ state = "TAKEOFF" => Reported(TakeoffReports)
    /\ state = "TRANSIT" => Reported(AirborneReports)
    /\ state = "LANDING" => Reported(LandingReports)
    /\ phase_state = 2 => Reported(AirborneReports) \/ main = "TRANSIT"
    /\ phase_state = 3 => Reported(LandingReports) \/ main = "LANDING"

\* A lost or closed connection is noticed without the pilot doing anything.
LossNoticed == (InMenu /\ line \in {"lost", "closed"}) ~> (~alive \/ ~InMenu)

\* The server waits for the rest of a packet on a connection that broke in
\* the middle of it: recv() has no timeout.
WaitsForRest ==
    /\ link = "broken"
    /\ \/ inbox = <<>> /\ pc = "payload"
       \/ inbox # <<>> /\ inbox[Len(inbox)].part = "header"
                       /\ Server!HasPayload(inbox[Len(inbox)].pkt)

\* When the client has exited, the server gets back to listening for the
\* next aircraft, and stays there, whatever was under way.
ExitReleasesServer ==
    (main = "exited" /\ ~WaitsForRest /\ backlog = <<>>) ~> [](pc = "accept")

\* buffer.rs:11, "no data loss during ATC boundary crossing": once the client
\* is back in its menu and the ground controller has handled all that was
\* sent, no phase report or MAYDAY of an earlier session is missing.
NoDataLoss ==
    (InMenu /\ alive /\ line = "open" /\ inbox = <<>>) =>
        \A n \in DOMAIN sent :
            sent[n] \notin {"handshake", "disconnect", "handoff"}
                => \E i \in DOMAIN handled : handled[i].seq = n

\* main.rs:182: a client that shows "Connection verified by ATC" has had this
\* session's handshake handled by the ground controller.
VerifiedByATC ==
    [][main = "greet" /\ main' = "flush" =>
          \E i \in DOMAIN handled : handled[i].seq = Len(sent)]_vars

\* main.c:245-246: a retransmitted packet is history, not a new command.
HistoryIsNotReplayed ==
    [][Len(handled') > Len(handled) /\ pc' # "accept" =>
          LET p == handled'[Len(handled')]
          IN  p.origin # 0 /\ p.type # "HANDOFF_NOTIFY" /\ ~p.emergency
                => state' = state]_vars

\* main.c:312-313: an aircraft that reconnects in flight is let in; it is not
\* kept waiting by a session of its own that is still open.
MidFlightReconnect ==
    [][~(/\ main = "greet" /\ main' = "exited" /\ line = "queued"
         /\ link = "open" /\ phase_state # 0)]_vars
=============================================================================
