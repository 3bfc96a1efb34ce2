----------------------------- MODULE HealthPoll -----------------------------
(***************************************************************************)
(* internal/app/healthpoll.go: the poller that asks YouTube how the bound  *)
(* stream arrives and restarts FFmpeg after a few bad answers in a row.    *)
(* Between reading the stream's id and acting on the answer the operator   *)
(* may stop the stream and start another one; what keeps the answer from   *)
(* hitting the wrong stream is that a call has a deadline which is shorter *)
(* than the grace a fresh FFmpeg is given.  activeStreamID is a field of   *)
(* its own: a start by hand leaves it alone, and so does the Supervisor    *)
(* when it gives FFmpeg up.  YouTube is external.                          *)
(***************************************************************************)
EXTENDS Naturals

CONSTANTS
  StartupGrace,  \* destinationRecoveryStartupGrace
  CallDeadline,  \* the deadline of a poll's calls
  BadPolls,      \* destinationBadPollsBeforeRestart
  MaxStreams     \* bound: streams the operator starts

ASSUME HealthAssumption ==
  /\ StartupGrace \in Nat /\ CallDeadline \in Nat /\ BadPolls \in Nat /\ MaxStreams \in Nat
  /\ CallDeadline < StartupGrace

VARIABLES
  onAir,     \* the stream the Supervisor runs, or 0
  bound,     \* s.activeStreamID: the stream YouTube is asked about, or 0
  streams,   \* streams made so far
  down,      \* its FFmpeg is being restarted
  spawnAge,  \* age of the Supervisor's StartedAt
  badCount,  \* s.destinationBad
  poll,      \* where the poller is
  polled,    \* the stream it asks about
  callAge,   \* how long its calls have taken
  verdict,   \* what destinationRestartReason makes of the answer
  faults,    \* history: bad answers about the stream on air that were counted
  slipped,   \* history: since the count was last 0, the operator acted between the
             \* poller's check and its count or restart
  adrift     \* history: the stream on air was started by hand, to a destination
             \* that is not the stream activeStreamID names

airing == <<onAir, bound, streams, adrift>>
healthVars == <<airing, down, spawnAge, badCount, poll, polled, callAge, verdict, faults, slipped>>

HealthInit ==
  /\ onAir = 0 /\ bound = 0 /\ streams = 0 /\ adrift = FALSE /\ down = FALSE /\ spawnAge = 0 /\ badCount = 0
  /\ poll = "waits" /\ polled = 0 /\ callAge = 0 /\ verdict = FALSE
  /\ faults = 0 /\ slipped = FALSE

Slips == slipped' = (slipped \/ poll \in {"count", "restart"})
-----------------------------------------------------------------------------
(* The operator, the Supervisor and time *)

\* A stream begins with a fresh FFmpeg and a count of 0.
Begins ==
  /\ down' = FALSE /\ spawnAge' = 0 /\ badCount' = 0 /\ faults' = 0
  /\ Slips
  /\ UNCHANGED <<poll, polled, callAge, verdict>>

\* StartWithIngest, GoLiveNow: activeStreamID is set and the Supervisor started.
GoOnAir ==
  /\ onAir = 0 /\ streams < MaxStreams
  /\ streams' = streams + 1 /\ onAir' = streams + 1 /\ bound' = streams + 1
  /\ adrift' = FALSE
  /\ Begins

\* handleStart: the configured destination is still the bound stream, after it was
\* given up, or another one; activeStreamID is left as it is.
StartByHand ==
  /\ onAir = 0
  /\ \/ /\ bound # 0
        /\ onAir' = bound /\ adrift' = FALSE
        /\ UNCHANGED <<bound, streams>>
     \/ /\ streams < MaxStreams
        /\ streams' = streams + 1 /\ onAir' = streams + 1 /\ adrift' = (bound # 0)
        /\ UNCHANGED bound
  /\ Begins

\* A start beside a stream is refused; activeStreamID, set for it, is cleared.
StartIsRefused ==
  /\ onAir # 0
  /\ bound' = 0 /\ badCount' = 0 /\ faults' = 0
  /\ Slips
  /\ UNCHANGED <<onAir, streams, adrift, down, spawnAge, poll, polled, callAge, verdict>>

\* Every path of a stop clears the fields the Supervisor's stop leaves.
GoOffAir ==
  /\ onAir # 0 \/ bound # 0
  /\ onAir' = 0 /\ bound' = 0
  /\ down' = FALSE /\ badCount' = 0 /\ faults' = 0
  /\ Slips
  /\ UNCHANGED <<streams, adrift, spawnAge, poll, polled, callAge, verdict>>

\* The Supervisor gives up: nothing tells the poller, and activeStreamID stays.
GiveUp ==
  /\ onAir # 0 /\ down
  /\ onAir' = 0 /\ down' = FALSE
  /\ UNCHANGED <<bound, streams, adrift, spawnAge, badCount, poll, polled, callAge, verdict, faults, slipped>>

FFmpegDies ==
  /\ onAir # 0 /\ ~down
  /\ down' = TRUE
  /\ UNCHANGED <<airing, spawnAge, badCount, poll, polled, callAge, verdict, faults, slipped>>

FFmpegRespawns ==
  /\ down
  /\ down' = FALSE /\ spawnAge' = 0
  /\ UNCHANGED <<airing, badCount, poll, polled, callAge, verdict, faults, slipped>>

\* A call in flight ends at its deadline, and applying an answer takes no time.
HealthTimePasses ==
  /\ poll \in {"waits", "called"}
  /\ poll = "called" => callAge < CallDeadline
  /\ spawnAge' = IF spawnAge < StartupGrace THEN spawnAge + 1 ELSE spawnAge
  /\ callAge' = IF poll = "called" THEN callAge + 1 ELSE callAge
  /\ <<spawnAge, callAge>>' # <<spawnAge, callAge>>
  /\ UNCHANGED <<airing, down, badCount, poll, polled, verdict, faults, slipped>>
-----------------------------------------------------------------------------
(* pollStreamHealth *)

\* Without a bound stream there is nothing to ask.
PollStreamHealth ==
  /\ poll = "waits" /\ bound # 0
  /\ poll' = "called" /\ polled' = bound /\ callAge' = 0
  /\ UNCHANGED <<airing, down, spawnAge, badCount, verdict, faults, slipped>>

ClearCount == badCount' = 0 /\ faults' = 0 /\ slipped' = FALSE

Waits == poll' = "waits" /\ polled' = 0 /\ callAge' = 0 /\ verdict' = FALSE

CallFails ==
  /\ poll = "called"
  /\ Waits
  /\ UNCHANGED <<airing, down, spawnAge, badCount, faults, slipped>>

HealthAnswer ==
  /\ poll = "called"
  /\ poll' = "apply" /\ verdict' \in BOOLEAN
  /\ UNCHANGED <<airing, down, spawnAge, badCount, polled, callAge, faults, slipped>>

Applies(grace) ==
  /\ poll = "apply"
  /\ \/ /\ onAir = 0 \/ down
        /\ ClearCount /\ Waits
     \/ /\ onAir # 0 /\ ~down /\ spawnAge < grace
        /\ Waits /\ UNCHANGED <<badCount, faults, slipped>>
     \/ /\ onAir # 0 /\ ~down /\ spawnAge >= grace
        /\ \/ ~verdict /\ ClearCount /\ Waits
           \/ verdict /\ poll' = "count" /\ UNCHANGED <<badCount, faults, slipped, polled, callAge, verdict>>
  /\ UNCHANGED <<airing, down, spawnAge>>

ApplyAtOnce == Applies(0)

\* applyDestinationHealth, up to its second critical section
ApplyDestinationHealth == Applies(StartupGrace)

\* A bad answer is counted; enough of them ask for a restart.
CountBad ==
  /\ poll = "count"
  /\ badCount' = badCount + 1
  /\ faults' = IF polled = onAir THEN faults + 1 ELSE faults
  /\ IF badCount + 1 < BadPolls THEN Waits ELSE poll' = "restart" /\ UNCHANGED <<polled, callAge, verdict>>
  /\ UNCHANGED <<airing, down, spawnAge, slipped>>

\* Supervisor.Restart refuses when nothing runs, and then the count stays.
RestartFFmpeg ==
  /\ poll = "restart"
  /\ Waits
  /\ IF onAir = 0 THEN UNCHANGED <<badCount, down, faults, slipped>>
     ELSE ClearCount /\ down' = TRUE
  /\ UNCHANGED <<airing, spawnAge>>
-----------------------------------------------------------------------------
HealthNext ==
  \/ GoOnAir \/ StartByHand \/ StartIsRefused \/ GoOffAir \/ GiveUp
  \/ FFmpegDies \/ FFmpegRespawns \/ HealthTimePasses
  \/ PollStreamHealth \/ CallFails \/ HealthAnswer \/ ApplyDestinationHealth \/ CountBad
  \/ RestartFFmpeg

HealthSpec == HealthInit /\ [][HealthNext]_healthVars

\* Every variable has its type.
HealthTypeOK ==
  /\ {onAir, bound, streams, polled} \subseteq 0..MaxStreams
  /\ adrift \in BOOLEAN /\ down \in BOOLEAN /\ verdict \in BOOLEAN /\ slipped \in BOOLEAN
  /\ spawnAge \in 0..StartupGrace /\ callAge \in 0..CallDeadline
  /\ badCount \in Nat /\ faults \in Nat
  /\ poll \in {"waits", "called", "apply", "count", "restart"}

\* FFmpeg is restarted for bad answers about its own stream, and for enough of
\* them: an answer that arrives after the operator changed streams, and the
\* count the old stream left, never restart the new one.  Excused: an operator
\* who changes streams between the poller's check of the status and the count
\* or the restart that follows it, until the poller next clears its count; and a
\* stream started by hand while activeStreamID still names another one, which
\* that other one's bad answers do restart.
HealthRestartIsOwn ==
  poll = "restart" /\ onAir # 0 /\ ~slipped /\ ~adrift => polled = onAir /\ faults >= BadPolls
=============================================================================
