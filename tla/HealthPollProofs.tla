-------------------------- MODULE HealthPollProofs --------------------------
(***************************************************************************)
(* Proofs about HealthPoll for every grace, deadline, number of bad polls  *)
(* and number of streams.  That a restart hits the stream whose answers    *)
(* asked for it rests on time: an answer about an older stream is at most  *)
(* CallDeadline old, the stream that replaced the older one while it was   *)
(* under way is younger than that, and the poller leaves an FFmpeg younger *)
(* than StartupGrace alone.                                                *)
(***************************************************************************)
EXTENDS HealthPoll, TLAPS

\* The stream on air was not started beside an older activeStreamID.
Own == onAir # 0 /\ ~adrift

\* activeStreamID then names that stream, or none.
Bound == Own => bound \in {0, onAir}

\* A stream that replaced the one asked about began after the question.
Younger ==
  poll \in {"called", "apply"} /\ Own /\ onAir # polled => spawnAge <= callAge

\* What is counted was said of the stream on air.
Counted == Own /\ ~slipped => badCount <= faults

\* What is about to be counted is said of the stream on air.
Counting == poll = "count" /\ Own /\ ~slipped => polled = onAir

HealthInv == HealthTypeOK /\ Bound /\ Younger /\ Counted /\ Counting /\ HealthRestartIsOwn

\* The Boolean variables.
Flags == adrift \in BOOLEAN /\ down \in BOOLEAN /\ verdict \in BOOLEAN /\ slipped \in BOOLEAN

LEMMA HealthInitInv == HealthInit => HealthInv
<1> SUFFICES ASSUME HealthInit PROVE HealthInv
  OBVIOUS
<1>1. Flags
  BY Zenon DEF HealthInit, Flags
<1>2. HealthTypeOK
  BY <1>1, HealthAssumption DEF HealthInit, HealthTypeOK, Flags
<1>3. Bound /\ Younger /\ Counted /\ Counting /\ HealthRestartIsOwn
  BY DEF HealthInit, Own, Bound, Younger, Counted, Counting, HealthRestartIsOwn
<1>4. QED
  BY <1>2, <1>3 DEF HealthInv

LEMMA FlagsStay == Flags /\ HealthNext => Flags'
<1> SUFFICES ASSUME Flags, HealthNext PROVE Flags'
  OBVIOUS
<1> USE DEF Flags, airing
<1>1. CASE GoOnAir \/ StartByHand
  BY <1>1, Zenon DEF GoOnAir, StartByHand, Begins, Slips
<1>2. CASE StartIsRefused \/ GoOffAir \/ GiveUp
  BY <1>2, Zenon DEF StartIsRefused, GoOffAir, GiveUp, Slips
<1>3. CASE FFmpegDies \/ FFmpegRespawns \/ HealthTimePasses
  BY <1>3, Zenon DEF FFmpegDies, FFmpegRespawns, HealthTimePasses
<1>4. CASE PollStreamHealth \/ CallFails \/ HealthAnswer
  BY <1>4, Zenon DEF PollStreamHealth, CallFails, HealthAnswer, Waits
<1>5. CASE ApplyDestinationHealth
  BY <1>5, Zenon DEF ApplyDestinationHealth, Applies, Waits, ClearCount
<1>6. CASE CountBad
  BY <1>6, Zenon DEF CountBad, Waits
<1>7. CASE RestartFFmpeg
  BY <1>7, Zenon DEF RestartFFmpeg, Waits, ClearCount
<1>8. QED
  BY <1>1, <1>2, <1>3, <1>4, <1>5, <1>6, <1>7 DEF HealthNext

\* The answer that is let through to be counted is about the stream on air:
\* were it about an older one, the one on air would still have its grace.
LEMMA AnswerIsOwn ==
  ASSUME HealthTypeOK, Younger, Own, poll = "apply", spawnAge >= StartupGrace
  PROVE  polled = onAir
  BY HealthAssumption DEF HealthTypeOK, Younger

\* Where the operator did not slip in, nothing was about to be counted.
LEMMA NoSlip == Slips /\ ~slipped' => ~slipped /\ poll # "count" /\ poll # "restart"
  BY Zenon DEF Slips

LEMMA HealthNextInv == HealthInv /\ [HealthNext]_healthVars => HealthInv'
<1> SUFFICES ASSUME HealthInv, [HealthNext]_healthVars PROVE HealthInv'
  OBVIOUS
<1>0. HealthNext => Flags'
  BY FlagsStay DEF HealthInv, HealthTypeOK, Flags
<1> USE HealthAssumption
    DEF HealthInv, HealthTypeOK, Own, Bound, Younger, Counted, Counting, HealthRestartIsOwn, airing
<1>1. CASE GoOnAir
  <2>1. HealthTypeOK'
    BY <1>0, <1>1 DEF HealthNext, Flags, GoOnAir, Begins
  <2>2. Bound' /\ Younger'
    BY <1>1 DEF GoOnAir, Begins
  <2>3. ~slipped' => ~slipped /\ poll # "count" /\ poll # "restart"
    BY <1>1, NoSlip DEF GoOnAir, Begins
  <2>4. Counted' /\ Counting' /\ HealthRestartIsOwn'
    BY <1>1, <2>3 DEF GoOnAir, Begins
  <2>5. QED
    BY <2>1, <2>2, <2>4
<1>2. CASE StartByHand
  <2>1. HealthTypeOK'
    BY <1>0, <1>2 DEF HealthNext, Flags, StartByHand, Begins
  <2>0. Own' => bound' \in {0, onAir'}
    BY <1>2, Zenon DEF StartByHand, Own
  <2>2. Bound' /\ Younger'
    BY <1>2, <2>0 DEF StartByHand, Begins
  <2>3. ~slipped' => ~slipped /\ poll # "count" /\ poll # "restart"
    BY <1>2, NoSlip DEF StartByHand, Begins
  <2>4. Counted' /\ Counting' /\ HealthRestartIsOwn'
    BY <1>2, <2>3 DEF StartByHand, Begins
  <2>5. QED
    BY <2>1, <2>2, <2>4
<1>3. CASE StartIsRefused
  <2>1. HealthTypeOK'
    BY <1>0, <1>3 DEF HealthNext, Flags, StartIsRefused
  <2>2. Bound' /\ Younger'
    BY <1>3 DEF StartIsRefused
  <2>3. ~slipped' => ~slipped /\ poll # "count" /\ poll # "restart"
    BY <1>3, NoSlip DEF StartIsRefused
  <2>4. Counted' /\ Counting' /\ HealthRestartIsOwn'
    BY <1>3, <2>3 DEF StartIsRefused
  <2>5. QED
    BY <2>1, <2>2, <2>4
<1>4. CASE GoOffAir
  <2>1. HealthTypeOK'
    BY <1>0, <1>4 DEF HealthNext, Flags, GoOffAir
  <2>2. Bound' /\ Younger'
    BY <1>4 DEF GoOffAir
  <2>3. ~slipped' => ~slipped /\ poll # "count" /\ poll # "restart"
    BY <1>4, NoSlip DEF GoOffAir
  <2>4. Counted' /\ Counting' /\ HealthRestartIsOwn'
    BY <1>4, <2>3 DEF GoOffAir
  <2>5. QED
    BY <2>1, <2>2, <2>4
<1>5. CASE GiveUp
  BY <1>0, <1>5 DEF HealthNext, Flags, GiveUp
<1>6. CASE FFmpegDies
  BY <1>0, <1>6 DEF HealthNext, Flags, FFmpegDies
<1>7. CASE FFmpegRespawns
  BY <1>0, <1>7 DEF HealthNext, Flags, FFmpegRespawns
<1>8. CASE HealthTimePasses
  BY <1>0, <1>8 DEF HealthNext, Flags, HealthTimePasses
<1>9. CASE PollStreamHealth
  BY <1>0, <1>9 DEF HealthNext, Flags, PollStreamHealth
<1>10. CASE CallFails
  BY <1>0, <1>10 DEF HealthNext, Flags, CallFails, Waits
<1>11. CASE HealthAnswer
  BY <1>0, <1>11 DEF HealthNext, Flags, HealthAnswer
<1>12. CASE ApplyDestinationHealth
  <2>1. CASE poll' = "waits"
    BY <1>0, <1>12, <2>1 DEF HealthNext, Flags, ApplyDestinationHealth, Applies, Waits, ClearCount
  <2>2. CASE poll' = "count"
    <3>1. onAir # 0 /\ spawnAge >= StartupGrace /\ poll = "apply"
      BY <1>12, <2>2 DEF ApplyDestinationHealth, Applies, Waits, ClearCount
    <3>2. ~adrift => polled = onAir
      BY <3>1, AnswerIsOwn
    <3>3. QED
      BY <1>0, <1>12, <2>2, <3>2 DEF HealthNext, Flags, ApplyDestinationHealth, Applies, Waits, ClearCount
  <2>3. QED
    BY <1>12, <2>1, <2>2 DEF ApplyDestinationHealth, Applies, Waits
<1>13. CASE CountBad
  BY <1>0, <1>13 DEF HealthNext, Flags, CountBad, Waits
<1>14. CASE RestartFFmpeg
  <2>1. CASE onAir = 0
    BY <1>0, <1>14, <2>1 DEF HealthNext, Flags, RestartFFmpeg, Waits
  <2>2. CASE onAir # 0
    BY <1>0, <1>14, <2>2 DEF HealthNext, Flags, RestartFFmpeg, Waits, ClearCount
  <2>3. QED
    BY <2>1, <2>2
<1>15. CASE UNCHANGED healthVars
  BY <1>15 DEF healthVars
<1>16. QED
  BY <1>1, <1>2, <1>3, <1>4, <1>5, <1>6, <1>7, <1>8, <1>9, <1>10, <1>11, <1>12, <1>13, <1>14, <1>15
     DEF HealthNext

LEMMA HealthInvAlways == HealthSpec => []HealthInv
  BY HealthInitInv, HealthNextInv, PTL DEF HealthSpec

\* The health poller restarts FFmpeg only for enough bad answers about the
\* stream on air (applyDestinationHealth), whatever the deadline of a call, as
\* long as it is shorter than the grace of a fresh FFmpeg; except where the
\* operator acted between the poller's check and its count or restart, or the
\* stream was started by hand beside an older activeStreamID.
THEOREM HealthRestartSafe == HealthSpec => []HealthRestartIsOwn
<1>1. HealthInv => HealthRestartIsOwn
  BY DEF HealthInv
<1>2. QED
  BY <1>1, HealthInvAlways, PTL
=============================================================================
