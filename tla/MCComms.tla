------------------------------- MODULE MCComms -------------------------------
(***************************************************************************)
(* One aircraft and its ground controller for TLC.                         *)
(***************************************************************************)
EXTENDS ATCComms
=============================================================================
