--------------------------- MODULE MCSrtReceiver ----------------------------
(***************************************************************************)
(* Small instances of SrtReceiver for TLC.                                 *)
(***************************************************************************)
EXTENDS SrtReceiver, TLC

CONSTANTS c1, c2, p1, p2

MCCallers == {c1, c2}
MCConfigs == {p1, p2}
=============================================================================
