-------------------------- MODULE MCClientSession --------------------------
(* Small instances of ClientSession for TLC. *)
EXTENDS ClientSession
=============================================================================
