----------------------------- MODULE ATCSession -----------------------------
(***************************************************************************)
(* What the ground controller promises of one aircraft's session, without  *)
(* packets, sockets or keys: a session opens unverified, a handshake       *)
(* verifies it, a verified session's phase only moves forward one step at  *)
(* a time (or enters at the phase the handshake declares), an emergency in *)
(* flight is kept until the session closes, and closing forgets it all.    *)
(* ATCServer implements this specification.                                *)
(***************************************************************************)
EXTENDS ATCStateMachine

VARIABLES
    phase,      \* the phase the console shows
    verified    \* the aircraft has been verified by a handshake

sessionVars == <<phase, verified>>

Init ==
    /\ phase = "IDLE"
    /\ verified = FALSE

Open ==
    /\ phase = "IDLE"
    /\ phase' = "HANDSHAKE"
    /\ verified' = FALSE

\* A repeated handshake may still declare a phase while none is flown.
Verify ==
    /\ phase = "HANDSHAKE"
    /\ phase' \in {"HANDSHAKE", "TRANSIT", "LANDING"}
    /\ verified' = TRUE

Advance ==
    /\ verified
    /\ <<phase, phase'>> \in {<<"HANDSHAKE", "TAKEOFF">>,
                              <<"TAKEOFF", "TRANSIT">>,
                              <<"TRANSIT", "LANDING">>}
    /\ UNCHANGED verified

Emergency ==
    /\ verified
    /\ phase \in FlightStates
    /\ phase' = "MAYDAY"
    /\ UNCHANGED verified

Close ==
    /\ phase # "IDLE"
    /\ phase' = "IDLE"
    /\ verified' = FALSE

Next == Open \/ Verify \/ Advance \/ Emergency \/ Close

Spec == Init /\ [][Next]_sessionVars
=============================================================================
