--------------------------- MODULE MCSideServices ---------------------------
(***************************************************************************)
(* Small instances of the services beside the stream for TLC.  The product *)
(* of their states is out of reach; as they share none, TLC follows the    *)
(* behaviours of Spec that move one service, each of the six in its turn,  *)
(* and adds the states instead of multiplying them.                        *)
(***************************************************************************)
EXTENDS SideServices, TLC

CONSTANTS r1, p1, p2, t1, t2, o1, o2, c1, c2, d1, d2, d3

MCReaders == {r1}
MCPublishers == {p1, p2}
MCTasks == {t1, t2}
MCOffers == {o1, o2}
MCCallers == {c1, c2}

\* The ladder of internal/quality: the emergency preset, three tiers and a
\* cinema preset
MCAutoOnly == {0}
MCExcluded == {4}
MCChosen == {0, 3, 4}

\* Two capture devices share a name.
MCUnits == {d1, d2, d3}
MCNameOf == d1 :> "capture" @@ d2 :> "capture" @@ d3 :> "desk"

VARIABLE part  \* the service that moves

\* The other services run with one listing and one choice of device.
MCInit ==
  /\ Init
  /\ part \in {"hub", "oauth", "preview", "camera", "adaptive", "health", "capture"}
  /\ part # "capture" =>
       /\ kind = "video" /\ resolves /\ at[d1] = 1 /\ at[d2] = 2
       /\ saved = Choice(d1)

\* Behaviours stop short of what the properties excuse: a login or logout that
\* meets a request, an FFmpeg started late.  As the latter does not excuse
\* NoLostSession, the preview is followed once more, past it, with nobody to block
\* its camera; where both block and make offers, not both twice at once.
MCNext ==
  /\ UNCHANGED part
  /\ \/ part = "hub" /\ HubMoves
     \/ part = "oauth" /\ OAuthMoves /\ ~overlapped'
     \/ part = "preview" /\ PreviewMoves /\ UNCHANGED <<blocked, call>>
     \/ part = "camera" /\ PreviewMoves /\ ~strayed' /\ (call'[c2] = "idle" \/ offer'[o2] = "idle")
     \/ part = "adaptive" /\ AdaptiveMoves
     \/ part = "health" /\ HealthMoves
     \/ part = "capture" /\ CaptureMoves

\* Goroutines run, and a stalled write fails at its deadline.  Whether anything
\* changes, whether a browser connects and what an operator does is nobody's duty.
FairSpec ==
  /\ MCInit /\ [][MCNext]_<<part, sideVars>>
  /\ \A p \in Publishers : WF_hubVars(part = "hub" /\ PublisherStep(p))
  /\ \A r \in Readers : WF_hubVars(part = "hub" /\ ReaderStep(r))
  /\ WF_hubVars(part = "hub" /\ (CloseSub \/ Signal(Closer)))
  /\ WF_adaptiveVars(part = "adaptive" /\ WatchdogStep)
  /\ WF_adaptiveVars(part = "adaptive" /\ HandlerStep)
  /\ WF_adaptiveVars(part = "adaptive" /\ TimePasses)
  /\ WF_captureVars(part = "capture" /\ BuildInputs)
  /\ WF_captureVars(part = "capture" /\ WatchAudioRecovery)
=============================================================================
