# Plane-to-ATC communications: a TLA+ model

A verification development for the two programs of this repository, the ground
controller (`src/server`, C) and the aircraft client (`src/client`, Rust), and for
the packet protocol they share (`src/shared/packet.h`). The modules here are
translated from that code. TLC checks them on small instances; TLAPS proves their
safety properties for all values of the constants.

## 1. The system

The ground controller listens on a TCP port and serves **one aircraft at a time in
one thread**. The aircraft connects, registers with a HANDSHAKE, waits for an ACK,
and then sends phase reports (TAKEOFF, TRANSIT, LANDING), emergencies, requests and
a DISCONNECT from the pilot's menu, while a second thread reads what the ground sends
and a third sends heartbeats. When its connection fails, the client buffers the
report it could not send and reconnects.

| Component | State | Operations | Hard behaviour | What makes it correct |
|---|---|---|---|---|
| State machine and gate (`state_machine.h`) | the transition table | `is_valid_transition`, `is_allowed_before_handshake` | used from many places, once unvalidated (`session_end`) | no flight before verification; phases move forward |
| Session handler (`main.c`) | `state`, `handshake_verified`, `aircraft_id`, console keys, transition log | accept, keyboard check, select, receive, one case per packet type, `session_end` | emergencies and retransmissions bypass the gate; early exits; keys of an earlier moment; `recv` without timeout | MAYDAY latched; each packet answered once; the log is one path; the thread always gets back to `accept` |
| Server packet I/O (`network.h`) | the socket, `g_server_seq` | `recv_packet`, `send_ack`, `send_error_pkt`, `send_large_data`, `send_disconnect` | header and payload arrive separately; sends whose result nobody reads, one of which waits for the aircraft to read | a packet is whole or the session ends; the stream is never out of step for good |
| Keepalive (`main.c`, `heartbeat.rs`, `network.rs`) | `last_send_ms`, the select timeout, the read timeout | keepalive on timeout, unanswered heartbeats, read timeout | due only at the end of a select that timed out | the server is never silent for as long as the read timeout |
| Client session (`main.rs`) | `alive`, `phase_state`, the present connection, the buffer | connect, register, wait for ACK, flush, menu, reconnect | decisions on a flag read earlier; nested sessions; success of a send taken for delivery; a phase set before the telemetry is asked for and the report sent | verified when the menu opens; reports in order, once, none lost; phases that follow the pilot |
| Receiver thread (`receiver.rs`) | the connection, `alive`, `phase_state` | read a reply, notice the end | races with the menu | a loss is noticed without the pilot |
| Heartbeat thread (`heartbeat.rs`) | `alive` | a header every 5 s | writes into the same stream as the menu, without a lock | costs no packet but the one it splits |
| Handoff buffer (`buffer.rs`) | a queue of packets | `push`, `drain`, `flush_buffer` | failures while flushing | order, no duplicates |
| Codec (`packet.h`, `packet.rs`) | none | encode, decode | byte order, padding | both sides agree |
| Logs (`logger.h`, `logger.rs`) | counters, file | append, summary | none: nothing reads them back | one line per packet |
| Prompts (`phases.rs`) | none | one builder per report | the main thread waits in them while the other threads run | none |

Interaction: bytes over one TCP connection; `alive`, `phase_state` and
`handoff_flag` shared by the client's threads; a console on each side.

## 2. Modules

| Module | Models |
|---|---|
| `ATCStateMachine` | the states, packet types, transition table and gate |
| `ATCSession` | the abstract specification: what the controller promises of one aircraft's session |
| `ATCDelivery` | the abstract specification: what all sessions together promise of the pilot's packets |
| `ATCServer` | the server's thread, its network and its console |
| `Keepalive` | the clock of an idle connection |
| `ATCComms` | the whole system: the client's three threads, the connections, and `ATCServer` by `INSTANCE` |
| `Wire` | the bytes of headers and payloads, as each side writes and reads them |
| `Framing` | the client's two writers and the server's `recv_packet` on one stream of bytes, over `Wire` |
| `ATCServerProofs`, `ATCAnswerProofs` | theorems about `ATCServer` |
| `KeepaliveProofs` | theorems about `Keepalive` |
| `ATCCommsProofs`, `ATCOrderProofs`, `ATCConnectionProofs` | theorems about `ATCComms`, the last with those of `ATCServer` carried over to it |
| `WireProofs` | theorems about `Wire` |
| `FramingProofs` | theorems about `Framing`, from those of `WireProofs` |
| `MCServer`, `MCKeepalive`, `MCComms`, `MCFraming` | instances for TLC |

### ATCServer

`pc` is where the thread waits: in `accept`, at the `_kbhit` check on top of the
loop of `handle_client`, in `select`, in `recv` for the payload of a packet whose
header it holds (`held`), or in `send` with the megabyte of weather data. One action is one step from such a point to the next, with
everything the code does in between: `HandleDisconnect`, for example, is the whole
case of `main.c`, its ACK, the hops it walks and logs, `session_end` with its own
hops, and `closesocket`.

- *Environment.* `Sends` and `SendsPayload` deliver a packet in two chunks, so that
  the connection can close (`Closes`) or vanish (`LinkLost`) between them.
  `PressKey` fills the console's queue, which outlives sessions as the real one does.
- *Loop.* `ControllerDisconnects`, `NoDisconnectKey` (one key is read per round and
  any other than D is dropped), `SelectTimesOut`, `KeepaliveFails`, `RecvFails`,
  `RecvRejects` (a payload too large, or no memory for it), `RecvHeader`.
- *Packets.* `Handle(p)` is a disjunct per outcome in the order of the code:
  emergency, retransmission of another ATC, gate, then the switch. `Received(p)`
  says that the packet is complete.
- *Weather.* `HandleLargeDataRequest` answers and goes into `send`, from which only
  `LargeDataSent` (the aircraft has read) or `LargeDataFails` (the link is dead)
  returns; the code ignores which. When there is no memory for the data,
  `send_large_data` returns at once, and the loop goes round.
- *Data.* A packet is a record of the fields the server acts on. `len` tells no
  payload, one too short for its structure, a whole one and one over
  `MAX_PAYLOAD_BYTES`; `arg` is the one payload byte the server reads.
- *History variables.* `journal`, the transitions logged for the latest session;
  `out`, what the latest step sent; `unanswered`, packets sent minus answers given and
  minus packets discarded with their connection before the server handled them.

Left out: byte order (`Wire`), sequence numbers of the server, texts, the summary
counters. A short answer could wait for a reader too, once the client's and the
server's socket buffers are full; only the weather data is large enough to fill them.

### Keepalive

Time advances in ticks; a heartbeat ends `select` without being answered, a command
ends it and is answered, and the receiver's silence is reset when a packet reaches it
after at most `Latency`. The instance counts quarters of a second with the constants
of the code (8 s, 1 s, 5 s, 10 s).

### ATCComms

The client's main thread goes through `connect`, `register`, `greet`, `flush`, `menu`
(the check of `alive`), `prompt` (waiting for input, with the check behind it), the type
of the report that is being composed, and `leaving` or `exited`. `ReceiverReads`,
`ReceiverEnds`, `HeartbeatSent` and `HeartbeatFails` are the other two threads. `Chooses`
is the choice of a menu option, which stores the phase; then come the telemetry prompts,
which take as long as the pilot does while the other threads go on; `Reports` is
`send_or_buffer` behind them. `Leaves` is the DISCONNECT and HANDOFF branches, `Flush` one
packet of `flush_buffer`.

`run_session` reconnects by calling itself while its own `conn` is alive, so an old
connection stays open until the process ends. Hence `line` (the client's present
connection) and `link` (the connection the server serves) are separate variables, and
`backlog` holds a connection that is established but not accepted. `Accepts` reuses
`ATCServer!AcceptFrom` with what has arrived meanwhile.

A send to a dead connection may succeed (`SendSucceeds`), as a TCP send does until a
reset or a timeout is known. `PathLost` cuts what is under way at any chunk.

Assumptions of the composition, each narrower than `ATCServer`:

- the client registers as soon as it is connected, so that no keepalive precedes its
  handshake (`Replies`; the first keepalive is due after eight seconds);
- `RecvRejects` does not occur: the client's payloads are far below the limit, and
  the server finds memory for them (for the weather it may find none);
- one packet of the main thread enters the stream whole; what happens when a
  heartbeat comes between its header and its payload is the subject of `Framing`;
- while the pilot is in the menu, the weather data goes out on the present connection
  only if the receiver thread still runs (`WeatherSent`). An older connection, left open by
  a reconnect, may or may not have its receiver thread (`receiver.rs:41-186`): there the
  weather may go out at any time and need never;
- of the threads of older sessions nothing else is modelled: they hold a clone of the older
  connection and that session's own `alive` and `phase_state`, which nobody looks at any
  more, so they could only send a heartbeat to, or take an answer from, the older
  connection;
- the pilot reconnects to the same address, and a loss of the path breaks every
  connection established over it;
- `handoff_flag` is never set, since this server sends no HANDOFF_NOTIFY;
- packets are numbered across sessions (`seq`), so that the properties can name them;
  on the wire the numbers restart with each session.

### Wire

The layout of the header and of the four payloads is written down twice, from the
packed structs of `packet.h` and from the offsets in `to_bytes` and `from_bytes` of
`packet.rs`. The client puts every number together byte by byte (`to_bytes`,
`from_bytes`); the server casts the buffer to a struct on a little-endian machine
(`Loaded`, `Stored`) and swaps the fields it names one by one (`header_ntoh`,
`header_hton`, `ServerReport`). A field is an array of digits; what float a pattern of
bits stands for is left out.

### Framing

The main thread writes a header and then the payload (`Writes`, `WritesPayload`), the
heartbeat thread the header of its ACK, numbered by a counter of its own
(`WritesHeartbeat`); the server reads 54 bytes and then as many as they announce
(`ReadsHeader`, `ReadsPayload`). `split` remembers which packets a heartbeat has cut
in two. A write of so few bytes enters the socket's buffer whole; connections that
break are left to `ATCServer`.

## 3. Runs

`pass` runs end without error; `violation` runs exhibit a statement of the
repository that its code does not keep (section 6).

| Run | Shows | Bounds, and why they suffice |
|---|---|---|
| `server` | `VerifiedBeforeFlight`, `JournalIsAPath`, `AnsweredOnce`, `MaydayLatched`, that the server implements `ATCSession` (`SessionPromise`), and the liveness properties `ClosedLinkReleased` and `LostLinkReleased` | Eighteen packets, one for every case the handler distinguishes. Two chunks under way, enough for a packet to wait behind another or to be cut; the handler never looks past the first. One key at a time; a dropped key in front of a D is two presses in a row. 108,375 states. |
| `server_any_time` | `DisconnectAtAnyTime` fails | four packets, one key |
| `keepalive` | `NoFalseAlarm`, `SilenceBound` with instant delivery | the code's own constants; every variable is bounded by them |
| `keepalive_late` | `NoFalseAlarm` fails with a quarter of a second of delivery time | same |
| `comms` | `DeliveryPromise`, `EverySessionPromised`, `InOrderOnce`, `BufferAtMostOne`, `MenuMeansVerified`, `NeitherAhead` | Takeoff, cleared landing, handoff and disconnect (a landing without the clearance is in `server`); four packets of the main thread, hence up to three sessions and a retransmission with a later report behind it; false alarms, a lost path, a controller's D. 1.03 million states. |
| `comms_live` | `LossNoticed`, `ExitReleasesServer` | Weather and disconnect, three packets: two sessions, with an exit while a connection is served, while one waits, and while the server is in `send`. 66,606 states. |
| `comms_loss` | `NoDataLoss` fails | handshake, report, handshake |
| `comms_belief` | `VerifiedByATC` fails | one session, one key |
| `comms_history` | `HistoryIsNotReplayed` fails | a report, a reconnect and the flush |
| `comms_reconnect` | `MidFlightReconnect` fails | a report in flight, a false alarm and a reconnect |
| `framing` | `DamageConfined`, `StreamRealigns` | Four packets and two heartbeats: a split of every kind of report, two splits, and whole packets before and after them; a callsign of six characters and one of seven, since the seventh is where a heartbeat read as a header announces a payload. 53,124 states. |
| `framing_mayday` | `NoFalseEmergency` fails | a handshake, one report, one heartbeat |

Bounds: `MaxInbox`, `MaxKeys` in `ATCServer`; `MaxSent`, `MaxChan` in `ATCComms`. They
occur only in the guards of the environment's and the client's actions, save for
`MaxChan`, which holds back a server step whose reply would not fit; the client's
reading frees it, and the largest reply (an ACK and the weather) is two packets.

No run checks for deadlock. The system does stop: a server in `recv` whose peer
vanished in the middle of a packet waits for ever, and a client that has exited takes
no step. The liveness properties say where stopping is not allowed.

### Properties

*Safety of the session.* `VerifiedBeforeFlight` relates state, verification and
callsign across the bypasses of the gate. `JournalIsAPath` makes the transition log
one path that enters no state twice, through the several hops of a disconnect and of
`session_end`. `MaydayLatched`: only the end of a session leaves MAYDAY.
`AnsweredOnce`: the packets sent, less the answers given, are the packets the server has
yet to handle, also in the step that ends a session: HANDOFF_NOTIFY and DISCONNECT are
acknowledged once like the rest. Packets that never reach the handler are off the count,
since nobody answers them: those unread when a session ends or the connection is reset, one
whose payload `recv_packet` refuses, one cut short.

*Safety of the whole.* `DeliveryPromise` is the refinement of `ATCDelivery`, with
`given` as `sent`, `delivered` as `handled` and `TypeOf` as `TypeSent`: all sessions,
buffers and lost connections come down to one channel that may lose a packet, but
handles none that was not given, with another number or type, twice, or behind a later
one. Registrations are exempt from the order: a session's handshake goes ahead of the
packets buffered before it. A packet's number is its position among all sessions (the
code's `seq_num` restarts in each), and each send is whole here: what a heartbeat
between its two writes does to a packet is the subject of `Framing`.
`InOrderOnce`, the part of it the proof starts from: over all sessions, losses and retransmissions,
the controller handles the pilot's packets in order and none twice.
`EverySessionPromised`: the composition implements `ATCSession` too, though a connection
may have been filled, closed or lost before it is accepted, and the client's phase, its
buffer and the controller's keys come from an earlier session.
`BufferAtMostOne`: a failing send ends the session before another can follow.
`MenuMeansVerified`: any ACK opens the client's menu, yet once the controller has
handled what was sent, the aircraft is verified or the connection is over.
`NeitherAhead`: whatever clearances arrive late, reports are refused or lost and
handshakes declare an earlier session's phase, the controller is in no phase that the
pilot has not reported, or been cleared for upon a report. Nor is the client, except
between the choice of a report, when `main.rs` stores its phase (338, 343), and the end of
its telemetry prompts, when it sends it. `Reported` says that the pilot completed the
report and `send_or_buffer` was called with it: not that it arrived, and not that it was
granted (section 6).

*Safety of the stream.* `DamageConfined`: every packet that no heartbeat splits
reaches the handlers with every field and all telemetry as the client had them, also
after others were split. `StreamRealigns`: when all is read, the server stands at the
beginning of a packet and has counted right, or it has ended the session because seven
characters of callsign were taken for a length.

*Liveness.* `ClosedLinkReleased`, `LostLinkReleased`: a closed connection, or one that
died between two packets, gives the thread back. `LossNoticed`: the client learns of a
dead connection with the pilot idle. `ExitReleasesServer`: after the client's exit the
server returns to `accept` for good, the one exception being a path that broke in the
middle of a packet (`WaitsForRest`).

### Fairness

`ATCServer`: `WF(ServerStep)`, since the operating system schedules the server's
thread, and `SF(KeepaliveFails)`, since a keepalive is sent every eight seconds of
silence and TCP does not let sends on a dead connection succeed for ever. `Accept` is
not fair: nobody need connect. Nor is `LargeDataSent`: nobody need read the weather.
`ATCComms`: the same for the server, with a waiting
connection accepted; `WF(ReceiverReads)` and `WF` of `ReceiverEnds` on a dead
connection, since the receiver thread is scheduled and its read has a timeout. Nothing
is assumed of the pilot, the controller, the heartbeat or the network.

## 4. Proofs

`ATCServerProofs`, from `PacketsAssumption` (packets have their type) and
`BoundsAssumption` (bounds are natural numbers), for every set of packets and
callsigns:

- `TypeCorrect`: types. `HandleCases` and `StepCases` reduce every step to one of four
  things: the session moves (`Goes`), ends (`Ends`), stays (`Stays`) or opens.
- `FlightIsVerified`, `JournalPath`: invariants, from the inductive `IInv`.
- `MaydayIsLatched`: an action property, from `IInv`.
- `ServerKeepsPromise`: the server implements `ATCSession` with `phase` mapped to
  `state`; every step is one step of it or leaves its variables alone.

`IInv` joins the types, `VerifiedBeforeFlight`, `pc = "accept" <=> state = "IDLE"`,
`state # "DISCONNECTED"` and `Path(journal, state, TargetRank[state])`. The last is
needed because `JournalIsAPath` is not inductive: that no state is entered twice does
not exclude that the next step enters one again. `Path` bounds the ranks of the logged
states by the present one, and every transition the handler makes goes to a higher
rank; IDLE, where a path both begins and ends, has rank 0 as a source and 7 as a
target. The second and third conjuncts say where a session can be opened and ended.

`SessionStep` names the four things apart from the actions that do them, so that the
lemmas below it (`SessionStepKeeps`, `SessionStepLatches`, `SessionStepPromised`) hold of
any system whose steps are of these four kinds; `ATCConnectionProofs` uses them again.

`KeepaliveProofs`, from `TimesAssumption` and `HeartbeatAssumption` (`Select + Latency
< Period`: two heartbeats never fall into one `select`):

- `SilenceIsBounded`: the server is silent for less than `Interval + 2 * Select`;
- `ReceiverNotMisled`: a read timeout of at least `Interval + 2 * Select + Latency` is
  never raised on a healthy connection. With the constants of the code this is an
  equality at `Latency = 0`, which is why `keepalive_late` fails.

`DueInv` is what makes this inductive: either the present `select` began before the
keepalive was due, or a heartbeat began it and no other can end it.

- `ClocksInRange`: no clock runs past its timeout, so that the bounds of the model are
  bounds of the system.

`ATCAnswerProofs`: `EveryPacketAnswered` is `AnsweredOnce`, from the same assumptions as
`ATCServerProofs`. A count of headers says nothing about what the server will take for
a header next, so the invariant `AInv` adds that headers and payloads alternate in the
input as a sender puts them there, also across the packet in `held` and the one in
`owed`. The end of a session is counted like any other step: `EndSession` takes off the
answers it gives and the packets it discards, and leaves the rest to the equation, which
therefore fails for a handler that ends the session without its ACK. The counting itself is
`HeadersAppend` and its relatives, over cardinalities.

`ATCCommsProofs`, `ATCOrderProofs`, `ATCConnectionProofs`, from `CommsAssumption` (the menu
options are among the menu's, bounds and ids are natural numbers, the callsign is not
the empty one) and `NoPacketAssumption` (`NoPacket` is not a packet): any options, any
bounds, false alarms or none, and equal or distinct origin ids. `HandleEffect` and
`LoopEffect` say once what a step of the server may do; the rest is one step per action of
the client.

- `BufferHoldsOne`: the buffer is empty whenever the pilot is asked for input, be it an
  option or telemetry (`BInv`).
- `PhasesFollowPilot`: `NeitherAhead` alone is not inductive, since a clearance or a
  report on its way may enter a phase later. `NInv` therefore says of every chunk in
  the input and in the backlog, every packet in the buffer and every reply under way
  that it is the packet given that number (`Genuine`) and that the pilot has reported
  what it says.
- `HandledInOrderOnce`: `OInv` orders everything on its way by three thresholds:
  what is handled, what is in the server's input, what waits in the backlog, what is in
  the buffer, what comes next. Sending a report needs the empty buffer (`BInv`),
  accepting a connection the shape of the backlog (`LInv`).
- `SessionsDeliver`: the refinement. A step that handles a packet is `Deliver`: the
  packet is one that was given by `Genuine`, and in turn by `InOrderOnce` of the next
  state; a step that adds to `sent` is `Give`; every other step is a stutter.
- `CompositionTypes`: `TypeOK`, from `CInv` and the types of the rest. Its two relations
  between variables, `line = "open" => link = "open"` and the state of the connection in
  the backlog, need every step that opens or closes a connection.
- `MenuIsVerified`: `VInv` says that on the present connection the registration comes
  first, so that no handler but its own can see it.
- `SessionsKeepPromise`, `SessionsVerified`, `SessionsLatch`: `EverySessionPromised`, and
  `VerifiedBeforeFlight`, `JournalIsAPath` and `MaydayLatched` of `ATCServer`, in the
  composition. They do not follow from the theorems on `ATCServer`, where a connection is
  accepted empty and open and a packet arrives in one of its own actions. `ComposedStep`
  shows that every step here, the client's and the network's included, does to a session
  one of the four things `SessionStep` lists; `SameHandler` and `SameLoop` identify the
  server's own steps with those of `ATCServer`, `ServerAssumptions` proves that the
  packets and constants of the composition meet its assumptions. The rest is `IInv` and
  the lemmas of `ATCServerProofs`, by `INSTANCE`. `AnsweredOnce` is stated and proved
  of `ATCServer` only; the composition keeps its count (`Keeps`) without a property on it.

`WireProofs`, without assumptions: `HeaderReachesServer`, `ReportReachesServer` and
`HeaderReachesClient`, that what one side writes into a field is what the other reads
from it, for every value of every field. `Layouts` checks the two descriptions against
each other and that no fields overlap, `Decodes` does the rest for any layout.

`FramingProofs`, from `FramingAssumption` (a callsign has 1 to 31 characters, none of them
NUL; the telemetry fits its fields; bounds are natural numbers), for every callsign, every
telemetry (one report per type) and any number of packets and heartbeats: `OnlySplitDamaged` is `DamageConfined`,
`StepRegained` is `StreamRealigns`.

Neither is inductive, since both speak of what has been read and the damage is done by what
is still on the stream. Where a packet begins there is a sum over the packets before it,
whose computation would be an induction over data. `FInv` asks only that there *are* cut
points `cut` and payloads `data` (`Frames`): each cut lies one header and one payload behind
the one before (`Cuts`), the server stands at the cut of its next packet or behind a header
that is genuine (`Reader`), and behind a cut lie the bytes of that packet or, where a
heartbeat came in between, those of the heartbeat from some place on (`Contents`). Each
step supplies the cuts of the next state from those it was given. What makes the stream
fall back into step is that a heartbeat is a header without payload, as long as what is
read in its place: all that is displaced is displaced within the packet it splits.
`Misread` is the case where the server reads on from inside a heartbeat. It finds four bytes
of the callsign in place of `payload_length`, and these announce nothing, or more than
`MAX_PAYLOAD_BYTES`; only a callsign of more than six characters does the latter. The
handshake, for which this would not hold, is never split, as no heartbeat is sent before
its answer (`Owing`). The bytes of a header or payload come from `WireProofs`.

With this, every safety property of every passing run is proved. Only model-checked are
the liveness properties (`ClosedLinkReleased`, `LostLinkReleased`, `LossNoticed`,
`ExitReleasesServer`): liveness under fairness and `ENABLED` are outside what the prover
does. TLC checked `FInv`, with the cuts computed as their sum, in all states of `framing`
before it was proved.

## 5. Reading the specifications

Each module states its properties at the end, each with the requirement or comment it
comes from. Operators marked *Fault* are deliberately wrong variants of the operator
that follows; no specification uses them. Putting one in place of the operator it
precedes breaks the property listed with it in `PROJECT.json`, which shows that the
property depends on that code.

## 6. Where code and documents differ

1. *D at any time* (`server/README.md:72`): a D is not read while `recv` waits for the
   rest of a packet; `recv_all` has no timeout (`server_any_time`).
2. *Keepalive more often than the read timeout* (`main.c:44-46`): the longest silence
   equals the timeout up to the resolution of the clock, and the comment's 8 seconds
   are 10 in the client (`keepalive_late`).
3. *No data loss* (`buffer.rs:11`): a report written to a dying connection is neither
   delivered nor buffered (`comms_loss`).
4. *Connection verified by ATC* (`main.rs:182`): the ACK of a controller's disconnect
   is taken for that of the handshake (`comms_belief`).
5. *Historical retransmissions, not new commands* (`main.c:245-246`): the client's
   `PREV_ATC_ID` is the server's own `SERVER_ATC_ID`, so retransmissions are executed
   (`comms_history`).
6. *Mid-flight reconnect* (`main.c:312-313`): a client that reconnects after a false
   alarm waits behind its own open connection and exits (`comms_reconnect`).
7. *emergency_flag, 1 = MAYDAY* (`packet.h:44`): a heartbeat between the header and
   the payload of a TRANSIT report makes the low byte of the squawk code the emergency
   flag of a packet nobody sent (`framing_mayday`).

Others, without a run:

- A landing report that was chosen and then lost is declared by the next handshake, and the
  server is in LANDING without having handled one, or any report before it
  (`server/README.md:88`: TRANSIT to LANDING when the client sends a landing packet; `:94`:
  the server stays in the current phase until the client explicitly sends the next phase's
  packet).
- A departure clearance that is read after the pilot has chosen to report landing takes the
  client from LANDING back to TRANSIT (`receiver.rs:101` logs "phase advanced to TRANSIT");
  after NOT CLEARED the client is back in TRANSIT while the server stays in LANDING.
- A disconnect in TAKEOFF or HANDSHAKE logs a landing that was not flown
  (`server/README.md:88` again), and `session_end` logs hops (TRANSIT to DISCONNECTED, for
  one) that are not in the table.
- `server/README.md:86` calls HANDSHAKE to TAKEOFF automatic, while `main.c` enters TAKEOFF
  on the aircraft's report only; the handshake payload is documented with 52 bytes and has
  53; `packet.h` speaks of timestamps in seconds where the server sends milliseconds.

## 7. What is not modelled

- The counters of both logs, files and wording: nothing reads a counter back before
  the summary. What the prompts ask and how they loop on a wrong input.
- What float a bit pattern stands for; the values of wire sequence numbers, which
  restart with each session and which neither side compares with anything.
- A wall clock that is set back (`main.c:186` computes the keepalive's due time from
  it): `Keepalive` assumes that time advances.
- A short answer that waits for a reader, and writes cut short by the client's 10 s
  write timeout.
- `handoff_flag` and `HANDOFF_NOTIFY` to the client: this server sends none.
- Reconnecting to a different ground controller; more than one aircraft at the level
  of `ATCComms` (in `ATCServer` each session may be another aircraft's).
- Start-up: arguments, `WSAStartup`, `bind`.

## 8. Plan

Built, in this order: the server and its session, because every packet of the system
passes through it; the keepalive; the composition with the client; the wire format and
the framing of the stream; the proofs of every safety property of the server, the
keepalive, the composition and the framing; the server's session properties carried over
to the composition.

To come: *two ground controllers*, a second server in `ATCComms` and the buffer crossing
from one to the other with distinct origin ids. The old connection stays open, so each
controller should implement `ATCDelivery` while the two parts may overlap.
