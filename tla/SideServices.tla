---------------------------- MODULE SideServices ----------------------------
(***************************************************************************)
(* The services beside the stream, composed: the event hub, the YouTube    *)
(* login, the camera preview, the adaptive quality controller, the health  *)
(* poll of the destination and the lookup of the capture device.  They     *)
(* share no state: the steps of each interleave freely with those of the   *)
(* others and leave these alone.                                           *)
(***************************************************************************)
EXTENDS Hub, OAuthToken, Preview, Adaptive, HealthPoll, CaptureSource

sideVars == <<hubVars, oauthVars, previewVars, adaptiveVars, healthVars, captureVars>>

Init == HubInit /\ OAuthInit /\ PreviewInit /\ AdaptiveInit /\ HealthInit /\ CaptureInit

HubMoves == HubNext /\ UNCHANGED <<oauthVars, previewVars, adaptiveVars, healthVars, captureVars>>

OAuthMoves == OAuthNext /\ UNCHANGED <<hubVars, previewVars, adaptiveVars, healthVars, captureVars>>

PreviewMoves == PreviewNext /\ UNCHANGED <<hubVars, oauthVars, adaptiveVars, healthVars, captureVars>>

AdaptiveMoves == AdaptiveNext /\ UNCHANGED <<hubVars, oauthVars, previewVars, healthVars, captureVars>>

HealthMoves == HealthNext /\ UNCHANGED <<hubVars, oauthVars, previewVars, adaptiveVars, captureVars>>

CaptureMoves == CaptureNext /\ UNCHANGED <<hubVars, oauthVars, previewVars, adaptiveVars, healthVars>>

Next == HubMoves \/ OAuthMoves \/ PreviewMoves \/ AdaptiveMoves \/ HealthMoves \/ CaptureMoves

Spec == Init /\ [][Next]_sideVars

\* The type invariants of the six services.
TypeOK ==
  /\ HubTypeOK /\ OAuthTypeOK /\ PreviewTypeOK
  /\ AdaptiveTypeOK /\ HealthTypeOK /\ CaptureTypeOK
=============================================================================
