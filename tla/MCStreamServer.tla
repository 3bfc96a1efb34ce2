--------------------------- MODULE MCStreamServer ---------------------------
(***************************************************************************)
(* Small instances of StreamServer for TLC: one operator, whose requests   *)
(* overlap with the scheduler's goroutine, with the transition goroutines  *)
(* and with the completions that handleStop leaves behind.                 *)
(***************************************************************************)
EXTENDS StreamServer, TLC

CONSTANTS c1, loop, boot

MCClients == {c1}
MCScheduled == {1}
MCNoneScheduled == {}
=============================================================================
