----------------------------- MODULE MCScheduler -----------------------------
(***************************************************************************)
(* Small instances of Scheduler for TLC: two occurrences of two schedules, *)
(* back to back, the second one prepared in advance, or one occurrence     *)
(* with more time, failures and an extension.                              *)
(***************************************************************************)
EXTENDS Scheduler, TLC

CONSTANTS e1, e2, o1, loop, none

MCEvents == {e1, e2}
MCOwners == {1, 2}
MCOwner == e1 :> 1 @@ e2 :> 2
MCStart == e1 :> 0 @@ e2 :> 1
MCLength == e1 :> 1 @@ e2 :> 2
MCLead == e1 :> 0 @@ e2 :> 7
MCEvent == {e1}
MCOneOwner == {1}
MCOneOwnerOf == e1 :> 1
MCOneStart == e1 :> 1
MCOneLength == e1 :> 1
MCOneLead == e1 :> 1

MCOperators == {o1}
=============================================================================
