----------------------------- MODULE MCKeepalive -----------------------------
(***************************************************************************)
(* The clock of Keepalive with the constants of the code, in quarters of a *)
(* second: keepalive 8 s, select 1 s, heartbeat 5 s, read timeout 10 s.    *)
(***************************************************************************)
EXTENDS Keepalive
=============================================================================
