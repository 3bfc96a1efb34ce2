------------------------------ MODULE Adaptive ------------------------------
(***************************************************************************)
(* internal/ffmpeg/adaptive.go with the ladder of internal/quality: the    *)
(* watchdog that steps a live stream down when it degrades and back up     *)
(* when it recovers, by stopping the Supervisor and starting it again,     *)
(* beside an operator who starts and stops streams.  The Supervisor is     *)
(* reduced to what it runs, and to whether it shows Degraded where nothing *)
(* runs.  The windows of drop rate, speed, stalls and restarts are one     *)
(* Boolean, `bad`, that the network sets.  Time is the age of the last     *)
(* start or step: the start-up grace, the cooldown and the recovery time,  *)
(* which grow in this order, are its values 1, 2 and 3.                    *)
(***************************************************************************)
EXTENDS Integers, FiniteSets

CONSTANTS
  Tiers,          \* number of presets: tiers 0..Tiers-1
  AutoOnly,       \* tiers with Preset.AutoOnly
  Excluded,       \* tiers with Preset.ExcludeFromAdaptive
  Chosen,         \* tiers the operator may choose
  MaxDowngrades,  \* AdaptiveConfig.MaxDowngrades
  MaxStarts       \* bound: streams the operator starts

ASSUME AdaptiveAssumption ==
  /\ Chosen \subseteq 0..(Tiers - 1)
  /\ Tiers \in Nat \ {0} /\ {MaxDowngrades, MaxStarts} \subseteq Nat

Unset == -1

VARIABLES
  target, current,   \* targetPreset and currentPreset, or Unset
  age,               \* age of streamStartedAt and lastTransitionAt
  stepped,           \* lastTransitionAt is set
  downgradeCount,
  enabled,           \* cfg.Enabled
  bad,               \* the stream is degraded
  encoder,           \* what the Supervisor runs: its stream and tier; stream 0: nothing
  config,            \* the Supervisor's CurrentConfig, alike
  stale,             \* the Supervisor shows Degraded, of a session that is over
  starts,            \* streams the operator started
  operator,          \* what the operator's handler has still to tell the controller
  watchdog,          \* where the tick is
  goal,              \* the tier the tick steps to
  restart,           \* the config it captured
  wanted,            \* history: the stream the operator wants, or 0
  untold,            \* history: the running stream was started without OnStreamStart
  collided           \* history: since the last stop that met no step, the operator
                     \* acted while a tick was stepping, or a tick took the stale
                     \* status for a stream

adaptiveVars == <<target, current, age, stepped, downgradeCount, enabled, bad, encoder, config, stale,
                  starts, operator, watchdog, goal, restart, wanted, untold, collided>>

Configs == [stream: 0..MaxStarts, tier: 0..(Tiers - 1)]
Nothing == [stream |-> 0, tier |-> 0]

Live == encoder.stream # 0

AdaptiveInit ==
  /\ target = Unset /\ current = Unset
  /\ age = 0 /\ stepped = FALSE /\ downgradeCount = 0
  /\ enabled = TRUE /\ bad = FALSE
  /\ encoder = Nothing /\ config = Nothing /\ stale = FALSE /\ starts = 0
  /\ operator = "done" /\ watchdog = "waits" /\ goal = 0 /\ restart = Nothing
  /\ wanted = 0 /\ untold = FALSE /\ collided = FALSE
-----------------------------------------------------------------------------
(* The ladder *)

\* LowerTier: the tier below, unless it or this one is off the ladder.
Lower(t) == IF t > 0 /\ {t, t - 1} \cap Excluded = {} THEN t - 1 ELSE Unset

HigherBelow(t, cap) ==
  LET above == {u \in (t + 1)..(cap - 1) : u \notin AutoOnly \cup Excluded}
  IN  IF t \in Excluded \/ above = {} THEN Unset ELSE CHOOSE u \in above : \A v \in above : u <= v

\* HigherTier: the next tier up to the cap that an operator could choose too.
Higher(t, cap) ==
  LET above == {u \in (t + 1)..cap : u \notin AutoOnly \cup Excluded}
  IN  IF t \in Excluded \/ above = {} THEN Unset ELSE CHOOSE u \in above : \A v \in above : u <= v
-----------------------------------------------------------------------------
(* The operator: start and stop handlers, the scheduler's adapters *)

Stepping == watchdog \notin {"waits", "looks"}
Acts == collided' = (collided \/ Stepping)

\* The Supervisor's session is over.  A Restart between its exit status and its
\* cleanup leaves the status Degraded, and nothing corrects it before a start.
SessionEnds ==
  /\ encoder' = Nothing
  /\ IF Live THEN stale' \in BOOLEAN ELSE UNCHANGED stale

\* Supervisor.Start, before OnStreamStart
StartStream(t) ==
  /\ operator = "done" /\ ~Live /\ starts < MaxStarts
  /\ starts' = starts + 1
  /\ encoder' = [stream |-> starts + 1, tier |-> t]
  /\ config' = encoder' /\ wanted' = starts + 1
  /\ stale' = FALSE
  /\ operator' = "started" /\ untold' = FALSE /\ Acts
  /\ UNCHANGED <<target, current, age, stepped, downgradeCount, enabled, bad, watchdog, goal, restart>>

OnStreamStart ==
  /\ operator = "started"
  /\ operator' = "done"
  /\ target' = config.tier /\ current' = config.tier
  /\ age' = 0 /\ stepped' = FALSE /\ downgradeCount' = 0
  /\ Acts
  /\ UNCHANGED <<enabled, bad, encoder, config, stale, starts, watchdog, goal, restart, wanted, untold>>

\* Supervisor.Stop, before OnStreamStop
StopStream ==
  /\ operator = "done" /\ (Live \/ wanted # 0)
  /\ SessionEnds /\ wanted' = 0
  /\ operator' = "stopped" /\ untold' = FALSE /\ collided' = Stepping
  /\ UNCHANGED <<target, current, age, stepped, downgradeCount, enabled, bad, config, starts, watchdog,
                 goal, restart>>

OnStreamStop ==
  /\ operator = "stopped"
  /\ operator' = "done"
  /\ target' = Unset /\ current' = Unset
  /\ Acts
  /\ UNCHANGED <<age, stepped, downgradeCount, enabled, bad, encoder, config, stale, starts, watchdog, goal,
                 restart, wanted, untold>>

\* Go Live Now stops what is live and starts its own stream, and tells the
\* controller of neither.
TakeOver ==
  /\ operator = "done"
  /\ SessionEnds /\ wanted' = 0
  /\ operator' = "takes over" /\ Acts
  /\ UNCHANGED <<target, current, age, stepped, downgradeCount, enabled, bad, config, starts, watchdog,
                 goal, restart, untold>>

\* ... or fails in between.
GoLiveNow(t) ==
  /\ operator = "takes over"
  /\ operator' = "done" /\ Acts
  /\ \/ /\ starts < MaxStarts /\ ~Live
        /\ starts' = starts + 1
        /\ encoder' = [stream |-> starts + 1, tier |-> t]
        /\ config' = encoder' /\ wanted' = starts + 1
        /\ untold' = TRUE
        /\ stale' = FALSE
     \/ UNCHANGED <<starts, encoder, config, wanted, untold, stale>>
  /\ UNCHANGED <<target, current, age, stepped, downgradeCount, enabled, bad, watchdog, goal, restart>>

\* handleCompleteBroadcast stops the stream and does not tell the controller.
CompleteBroadcast ==
  /\ operator = "done" /\ wanted # 0
  /\ SessionEnds /\ wanted' = 0 /\ Acts
  /\ UNCHANGED <<target, current, age, stepped, downgradeCount, enabled, bad, config, starts, operator,
                 watchdog, goal, restart, untold>>

SetEnabled ==
  /\ enabled' = ~enabled
  /\ UNCHANGED <<target, current, age, stepped, downgradeCount, bad, encoder, config, stale, starts, operator,
                 watchdog, goal, restart, wanted, untold, collided>>

EncoderFails ==
  /\ Live
  /\ SessionEnds
  /\ UNCHANGED <<target, current, age, stepped, downgradeCount, enabled, bad, config, starts, operator,
                 watchdog, goal, restart, wanted, untold, collided>>

NetworkChanges ==
  /\ bad' = ~bad
  /\ UNCHANGED <<target, current, age, stepped, downgradeCount, enabled, encoder, config, stale, starts,
                 operator, watchdog, goal, restart, wanted, untold, collided>>

TimePasses ==
  /\ age < 3
  /\ age' = age + 1
  /\ UNCHANGED <<target, current, stepped, downgradeCount, enabled, bad, encoder, config, stale, starts,
                 operator, watchdog, goal, restart, wanted, untold, collided>>
-----------------------------------------------------------------------------
(* The watchdog: one tick *)

\* The first critical section: enabled, a stream is known, its grace is over.
Tick ==
  /\ watchdog = "waits"
  /\ enabled /\ target # Unset /\ current # Unset /\ age >= 1
  /\ watchdog' = "looks"
  /\ UNCHANGED <<target, current, age, stepped, downgradeCount, enabled, bad, encoder, config, stale, starts,
                 operator, goal, restart, wanted, untold, collided>>

\* A Degraded status counts as degradation, stale or not.
Degraded == bad \/ stale

NextTierForever ==
  IF Degraded THEN IF (stepped /\ age < 2) \/ current = Unset THEN Unset ELSE Lower(current)
  ELSE IF current = target \/ ~stepped \/ age < 3 THEN Unset ELSE Higher(current, target)

\* Where handleDegradation or maybeRecover wants to go, or Unset.
NextTier ==
  IF Degraded
  THEN IF (stepped /\ age < 2) \/ downgradeCount >= MaxDowngrades \/ current = Unset THEN Unset
       ELSE Lower(current)
  ELSE IF current = target \/ ~stepped \/ age < 3 THEN Unset
       ELSE Higher(current, target)

Looks(live) ==
  /\ watchdog = "looks"
  /\ IF ~live \/ NextTier = Unset
     THEN watchdog' = "waits" /\ UNCHANGED <<goal, collided>>
     ELSE watchdog' = "captures" /\ goal' = NextTier /\ collided' = (collided \/ stale)
  /\ UNCHANGED <<target, current, age, stepped, downgradeCount, enabled, bad, encoder, config, stale,
                 starts, operator, restart, wanted, untold>>

LookAnyway == Looks(TRUE)

\* Only what the Supervisor shows as live is stepped.
Look == Looks(Live \/ stale)

\* transitionTo, in its steps
Capture ==
  /\ watchdog = "captures"
  /\ restart' = [config EXCEPT !.tier = goal]
  /\ watchdog' = "stops"
  /\ UNCHANGED <<target, current, age, stepped, downgradeCount, enabled, bad, encoder, config, stale, starts,
                 operator, goal, wanted, untold, collided>>

StopForStep ==
  /\ watchdog = "stops"
  /\ SessionEnds
  /\ watchdog' = "starts"
  /\ UNCHANGED <<target, current, age, stepped, downgradeCount, enabled, bad, config, starts, operator,
                 goal, restart, wanted, untold, collided>>

\* Supervisor.Start refuses when another stream has started.
StartAtTier ==
  /\ watchdog = "starts"
  /\ IF Live
     THEN watchdog' = "waits" /\ UNCHANGED <<encoder, config, stale>>
     ELSE watchdog' = "records" /\ encoder' = restart /\ config' = restart /\ stale' = FALSE
  /\ UNCHANGED <<target, current, age, stepped, downgradeCount, enabled, bad, starts, operator, goal,
                 restart, wanted, untold, collided>>

RecordNothing ==
  /\ watchdog = "records"
  /\ watchdog' = "waits"
  /\ age' = 0 /\ stepped' = TRUE
  /\ UNCHANGED <<target, current, downgradeCount, enabled, bad, encoder, config, stale, starts, operator, goal,
                 restart, wanted, untold, collided>>

RecordStep ==
  /\ watchdog = "records"
  /\ watchdog' = "waits"
  /\ downgradeCount' = IF goal < current THEN downgradeCount + 1 ELSE downgradeCount
  /\ current' = goal
  /\ age' = 0 /\ stepped' = TRUE
  /\ UNCHANGED <<target, enabled, bad, encoder, config, stale, starts, operator, goal, restart, wanted, untold,
                 collided>>
-----------------------------------------------------------------------------
WatchdogStep == Tick \/ Look \/ Capture \/ StopForStep \/ StartAtTier \/ RecordStep
HandlerStep == OnStreamStart \/ OnStreamStop \/ \E t \in Chosen : GoLiveNow(t)

AdaptiveNext ==
  \/ \E t \in Chosen : StartStream(t)
  \/ StopStream \/ TakeOver \/ CompleteBroadcast \/ HandlerStep
  \/ SetEnabled \/ EncoderFails \/ NetworkChanges \/ TimePasses
  \/ WatchdogStep

AdaptiveSpec == AdaptiveInit /\ [][AdaptiveNext]_adaptiveVars

\* Every variable has its type.
AdaptiveTypeOK ==
  /\ {target, current} \subseteq {Unset} \cup 0..(Tiers - 1)
  /\ age \in 0..3 /\ downgradeCount \in 0..MaxDowngrades
  /\ {stepped, enabled, bad, stale, untold, collided} \subseteq BOOLEAN
  /\ {encoder, config, restart} \subseteq Configs
  /\ starts \in 0..MaxStarts /\ wanted \in 0..MaxStarts
  /\ operator \in {"done", "started", "stopped", "takes over"}
  /\ watchdog \in {"waits", "looks", "captures", "stops", "starts", "records"}
  /\ goal \in 0..(Tiers - 1)

Settled == operator = "done" /\ watchdog = "waits" /\ ~collided

\* Between ticks and requests, what runs is the operator's stream at the tier
\* the controller believes in: never above the operator's choice, never more
\* than MaxDowngrades below it, and off the ladder never stepped at all.
\* Excused, until the next stop that meets no step: an operator who acted while
\* a tick was stepping (transitionTo would restart the config it captured), and
\* a tick that took the stale Degraded of a session that is over for a stream;
\* and a stream of Go Live Now, which the controller takes for its predecessor.
TierWithinTarget ==
  Settled /\ ~untold /\ Live =>
    /\ encoder = [stream |-> wanted, tier |-> current]
    /\ current <= target /\ target - current <= MaxDowngrades
    /\ target \in Excluded => current = target

\* A stream the operator stopped stays stopped, whichever handler stopped it:
\* one that tells the controller, or Complete, or Go Live Now failing after its
\* take-over, which do not.  Excused as above: after those two, a stale Degraded
\* status makes the next tick start the stopped stream again.
UserStopIsFinal == Settled /\ wanted = 0 => ~Live

\* A stepped-down stream comes back to the operator's choice when the network
\* stays good and nobody intervenes.
QualityReturns ==
  <>[](~bad /\ enabled /\ Live /\ operator = "done" /\ ~untold /\ ~collided) => <>[](current = target)
=============================================================================
