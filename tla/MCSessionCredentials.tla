------------------------- MODULE MCSessionCredentials -------------------------
(* The instance of SessionCredentials for TLC. *)
EXTENDS SessionCredentials, TLC
=============================================================================
