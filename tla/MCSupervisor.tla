---------------------------- MODULE MCSupervisor ----------------------------
(***************************************************************************)
(* Small instances of Supervisor for TLC.                                  *)
(***************************************************************************)
EXTENDS Supervisor, TLC

CONSTANTS c1, c2

MCCallers == {c1, c2}

CallerSymmetry == Permutations(MCCallers)
=============================================================================
