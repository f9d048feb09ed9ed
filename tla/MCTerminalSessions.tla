------------------------- MODULE MCTerminalSessions -------------------------
(* The instance of TerminalSessions for TLC. *)
EXTENDS TerminalSessions, TLC
=============================================================================
