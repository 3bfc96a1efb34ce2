# EasyStream in TLA+

EasyStream streams a camera to YouTube (or another RTMP destination) through an
FFmpeg child process that must keep going unattended: it is restarted when it
dies, started and stopped by a weekly schedule, brought back after a power cut,
and stopped at once when an operator says so.  This directory models the parts
of the program that decide when FFmpeg runs and what it reads, and the services
around it (browser events, login, preview, adaptive quality, health poll), checks
them with TLC and proves the most important properties with TLAPS.

- [Inventory](#inventory): the system's parts, their state and what is hard
- [Modules](#modules): which module models what, and how it maps to the code
- [Runs](#runs): what each run of TLC asks, its bounds and what it shows
- [Fairness](#fairness)
- [Proofs](#proofs)
- [Disagreements](#disagreements-with-comments-and-tests) between code and its comments
- [Not modelled](#not-modelled), and the [plan](#plan)

## Inventory

All paths are under `src/internal/`.

| Component | State | Operations | Talks to |
|---|---|---|---|
| **Supervisor** `ffmpeg/supervisor.go`, `pidfile.go` | `cancel`, `done`, `restart`, `status` under `mu`; the pid file; one run goroutine per session with its restart counters | `Start`, `Stop`, `Restart`, the loop `run`/`runOnce`, `ReapOrphan` at boot | called by handlers, scheduler adapter, adaptive controller, health poll, audio watcher; owns the FFmpeg process |
| **Schedule store** `schedule/store.go` | schedules, overrides, `Broadcasts`, `Streams`, `Skipped`; a JSON file | CRUD, `NextEvents`, `SetBroadcastID`, `ClearBroadcast`, `SkipEvent` | scheduler, schedule handlers |
| **Scheduler** `schedule/scheduler.go` | `activeEvent`, `activeBroadcast`, `extraMinutes`, `prepFailures`, `ingestCache` under `mu` | `tick` every second (prepare, preroll, go live, stop), `StopActive`, `Extend` | store; stream and broadcast controllers |
| **Stream server** `app/server.go`, `adapters.go`, `handlers_stream.go`, `handlers_youtube.go`, `intent.go` | config, active broadcast and stream ids, transition goroutine, intent file | Start, Stop, GoLiveNow, Complete, config update, boot-time resume, Close | everything |
| **Adaptive controller** `ffmpeg/adaptive.go`, `quality/quality.go` | current and target preset, cooldowns, downgrade count | `tick`, `transitionTo` (Stop then Start) | Supervisor |
| **Health poll** `app/healthpoll.go` | `destinationBad`, health snapshot | poll, `applyDestinationHealth` | YouTube, Supervisor.Restart |
| **SRT receiver** `ingest/srt.go` | desired config, run loop, status | `Apply`, `Stop`, run loop with backoff, watchdog | its own FFmpeg |
| **Preview** `preview/preview.go` | session, `blocked`, config | `ServeHTTP`, `Block`, `Unblock`, `UpdateConfig` | its own FFmpeg; blocked by the stream server |
| **Capture devices** `ffmpeg/config.go` (resolution), `devices/` | none; the chosen name and index are in the configuration | resolve a name to an index, at boot and at every spawn | Supervisor, stream server |
| **Event hub** `app/hub.go`, `events.go` | subscribers with the latest frame per topic | subscribe, publish, drain, Close | browsers |
| **OAuth** `youtube/oauth.go` | token, cached client, state; token file | `Exchange`, `HTTPClient`, `Logout`, refresh | YouTube |
| **The rest** | none or files | argument building, device lists, log parsing, HLS files, atomic writes, UI, main | |

What makes the code hard, and which properties make each part correct:

- *Supervisor.* Five kinds of callers share one lock, three channels and a
  process that outlives the program.  Two sessions must never overlap, `Stop`
  must return and only after FFmpeg is gone, channels must not be closed under a
  sender, and after a crash the next boot must find the FFmpeg that was left.
- *Scheduler and store.* The loop works through a snapshot while it makes calls
  that take up to 30 s and may fail, and the lock is held only for single reads
  and writes.  An occurrence must get one broadcast, no service may carry
  another one's broadcast or be cut off by its end, every event must end, and an
  operator's stop must be final, across reboots too.
- *Stream server.* Handlers run concurrently with the scheduler and with each
  other, and each one updates the Supervisor, the preview, the intent file and
  the active broadcast in turn, with no lock across.  The intent file must agree
  with what the operator asked for last, and a refused start must leave a running
  stream alone.
- *Adaptive controller.* `transitionTo` must not revive a stream the user stopped
  and must not exceed the target tier.
- *SRT receiver, preview.* One FFmpeg per port or camera, whatever concurrent
  requests ask for, and none left behind.
- *Event hub.* Nothing blocks, nobody is woken for nothing forever, and the last
  frame a browser gets is the newest.
- *OAuth.* A logged-out token stays out; refreshes are not lost.
- *Capture devices.* The index of a device changes when another is plugged in; two
  devices may have one name.  FFmpeg must read the one that was chosen, and come
  back to it.

`PROJECT.json` lists the hazards line by line, with the property that covers
each one or why none does yet.

## Modules

| Module | Models | About |
|---|---|---|
| `EncoderLease` | – (abstract) | a resource leased to one session at a time, with one FFmpeg: what the Supervisor (camera and destination), the SRT receiver (its port) and the preview (its two listeners) promise |
| `Supervisor` | `ffmpeg/supervisor.go`, `ffmpeg/pidfile.go` | callers, run goroutines, FFmpegs, pid file, crash and boot |
| `MCSupervisor` | – | small instances of it |
| `SupervisorProofs` | – | type correctness and safety, for all constants |
| `SupervisorRefinement` | – | `Supervisor` implements `EncoderLease`, for all constants |
| `ScheduleStore` | `schedule/store.go` | the Store as a value and its methods as operators |
| `Scheduler` | `schedule/scheduler.go`, and what it needs of `app/adapters.go`, `app/server.go` | the loop against operators, edits, crashes and failing calls |
| `MCScheduler` | – | small instances of it |
| `SchedulerProofs` | – | safety, for all constants |
| `StreamServer` | `app/server.go`, `adapters.go`, `handlers_stream.go`, `handlers_youtube.go`, `intent.go` | requests as lists of calls, the scheduler's adapters, transition goroutines, crash and resume |
| `MCStreamServer` | – | small instances of it |
| `StreamServerProofs` | – | type correctness and safety, for all constants |
| `SrtReceiver` | `ingest/srt.go` | concurrent config updates, run loops, their FFmpegs, the watchdog |
| `MCSrtReceiver` | – | small instances of it |
| `SrtReceiverProofs` | – | type correctness, safety, and that `SrtReceiver` implements `EncoderLease`, for all constants |
| `Hub` | `app/hub.go`, `app/events.go` | publishers, subscribers and their signal, shutdown |
| `OAuthToken` | `youtube/oauth.go` | token, file and cached client against login, logout, refresh, crash |
| `Preview` | `preview/preview.go` | concurrent offers, Block, UpdateConfig and closing sessions over one pair of ports |
| `Adaptive` | `ffmpeg/adaptive.go`, `quality/quality.go` | the watchdog's steps against an operator |
| `HealthPoll` | `app/healthpoll.go` | answers that arrive after the stream has changed |
| `HealthPollProofs` | – | a restart is for bad answers about its own stream, for all constants |
| `CaptureSource` | `ffmpeg/config.go`, `app/server.go`, `ffmpeg/supervisor.go` | names, indices, twins, the audio watcher |
| `SideServices` | – (composition) | the six services above, whose steps interleave freely; they share no state |
| `MCSideServices` | – | small instances of it, with fairness, one moving service at a time |
| `PreviewProofs` | – | the safety of `Preview`, and that it implements `EncoderLease`, for all constants |
| `SideServicesProofs` | – | the safety of `CaptureSource`, `Adaptive`, `OAuthToken` and `Hub`; types of the six together; for all constants |

### Supervisor

One action is one critical section of `s.mu`, one channel operation, one
process event or one write of the pid file, so that TLC interleaves what the Go
scheduler may interleave.  A *session* is one successful `Start`: its context,
`done` and `restart` channels and its `run` goroutine, whose program counter is
`pc[s]`.

| State | Code |
|---|---|
| `cur` | `s.cancel`, `s.done`, `s.restart`: set together by `Start`, cleared together by the deferred cleanup; `None` is nil |
| `state` | `s.status.State` |
| `cancelled`, `doneClosed`, `restartClosed`, `queued` | the session's context, closed channels and the request in the one-slot `restart` channel |
| `restarts`, `quick`, `cause` | the loop's locals `restarts`, `quickFailures`, and what ended the attempt |
| `callPc`, `captured` | how far a caller is in `Stop`, and the `cancel`/`done` it captured |
| `live`, `pid`, `pidfile` | running FFmpegs, the one of a session's attempt, `ffmpeg.pid` |
| `host`, `stray`, `scan` | whether EasyStream is up; FFmpegs it lost; whether a boot missed one the pid file named |

`Start`, `Restart`, `StopBegin`/`StopCancel`/`StopReturn` are the callers.
`Spawn` to `ClearPidFile` are `runOnce`, with one action per case of its select.
`Account` to `SleepCancelled` are the loop of `run`; `Forget`, `CloseDone` and
`CloseRestart` its deferred cleanup, in the order of the code (the channels are
closed *after* the unlock).  `Crash` loses every goroutine and field at any
point; `Boot`, `BootGivesUp` and `BootBlind` are `NewSupervisor` with `ReapOrphan`,
which kills the FFmpeg the pid file names, clears the file although it does not
recognise that process (its command line cannot be read or lacks the markers) or does
not see it die, or cannot read the file.
`terminateCommand` is two steps: the process ends, and the wait returns.

Abstracted: how long things take (an attempt is quick or not; a stall, a timer
or a progress line may come at any time, except that an attempt a stall ended
lasted longer than the quick-failure window), the FFmpeg configuration, the log
and audio fields of `Status`, and the callbacks, which only publish.

### ScheduleStore and Scheduler

`ScheduleStore` is a record with three fields: the occurrences that exist and are
enabled, the broadcast mapped to each, and until when each is suppressed.
`Streams` follows `Broadcasts` entry by entry.  An occurrence (one start time of
a schedule or override, the code's event key) is an element of `Events`; the
cron arithmetic is in the constants `Start`, `Length` and `Lead`.

In `Scheduler` an action is one critical section of `s.mu` or of the Store, or
one call of a controller; `pc[Loop]` walks through `tick`, and an operator's
`StopActive` through `stopActiveEvent`, which the two share.

| State | Code |
|---|---|
| `active`, `activeB`, `extra` | `activeEvent`, `activeBroadcast`, `extraMinutes` |
| `tries`, `nextTry` | `prepFailures` (0 is no entry) |
| `cached` | keys of `ingestCache` |
| `mem`, `disk` | the Store in memory and its file; `Save(st, ok)` changes memory first, as every method does |
| `at`, `todo`, `seen`, `cur`, `bid` | `now` of the tick, what is left of its `NextEvents` snapshot, the broadcast ids in it, the `event` of `advanceEvent` and its `BroadcastID` |
| `taken` | the event `stopActiveEvent` found, between its critical section and the Store call |
| `stream` | off, a stream started by hand, or the broadcast FFmpeg pushes to |
| `made` | on the YouTube side: for which occurrence a broadcast was created |
| `lost`, `final` | histories for the properties |

`TickBegin`, `StopStream`, `Forget`, `Settle` end an event; `Look`, `Advance`,
`TickEnd` are the loop over events; `Prepare`, `BindFails`, `PrepareFails`, `Persist`
are phase 1; `Gate`, `LiveFails`, `FindIngest`, `Repersist`, `StartWithIngest`,
`StartFails`, `SetActive` are phase 2.  `Edit`, `StartByHand`, `StreamFails` and
`CrashAndBoot` are everybody else.  An operator's stop goes on with `handleStop`'s own
`supervisor.Stop` (`SupervisorStop`).  A stream whose FFmpeg is being restarted does
not count as streaming, and the gate lets the loop pass (`Unseen`). Every call to
YouTube and every save may fail.  `CrashAndBoot` loads the file and either resumes the
stream (`resumeIfNeeded`) or does not.

### SrtReceiver

A *run loop* is one call of `runLoop`: a configuration, a context and a done
channel.  One action is one critical section of `r.mu`, one channel operation or
one process event.

| State | Code |
|---|---|
| `current`, `handle` | `r.current`; the loop whose `runCancel` and `runDone` the receiver holds, `None` is nil |
| `state`, `peer` | `r.status.State`, `r.status.PeerConnected` |
| `cancelled`, `ended`, `pc`, `want` | a loop's context, its closed `done`, where it is, its configuration |
| `running` | the loops whose FFmpeg runs |
| `watch` | whether the watchdog has found the peer stale and not published it yet |
| `callPc`, `arg`, `prev` | where a caller is in `Apply`, what it applies, which loop it tears down |
| `overlapped` | history: two `Apply` calls have overlapped |

`ApplyBegin` to `ApplyStart` are `Apply`, whose critical sections others may run
between: `handleConfigUpdate` calls it after it has left `s.mu`, and `Close` calls
it too.  A no-op `Apply` changes nothing and is no action.  `Check`, `Begin`,
`SpawnFails`, `Spawn`, `CheckAfter`, `SetFailed`, `Retry`, `BackoffCancelled`,
`Leave` and `CloseDone` are `runLoop`; `Waited` and `Joined` are the two waits at
the end of `runOnce`; `Progress`, `WatchLook` and `WatchPublish` its other
goroutines, which run until they are joined.  `Kill` is what
`exec.CommandContext` does.  Durations, LastError with the reader of stderr, fps
and bitrate, and the callback that publishes are left out.

### StreamServer

The handlers take `s.mu` for a few lines at a time and otherwise call other
components one after the other.  A request is therefore a list of the calls it
still has to make, `todo[p]`, each call one critical section that others may run
before or after: the operators `StopStream`, `StopActiveEvent`, `Takeover`,
`CompleteActive`, `StopRequest`, `Launching`, `Refusal` are those lists, in the
order of the code, and the actions `Block` to `Launch` the calls.

| State | Code |
|---|---|
| `stream` | what the Supervisor runs: off, or the destination FFmpeg pushes to |
| `blocked` | the preview's `blocked` |
| `config` | `IngestURL` and `StreamName` of `s.config`; `HandleConfigUpdate` makes it the operator's own |
| `activeB` | `s.activeBroadcastID` |
| `intent` | the intent file: mode, broadcast and destination (its configuration) |
| `airing`, `waiting` | the scheduler's `activeEvent`, occurrences not finished |
| `yt`, `ending` | `lifeCycleStatus` of each broadcast; `handleStop`'s goroutines that complete one |
| `phase`, `cancelled`, `handle` | transition goroutines, their contexts, `s.transitionCancel` |
| `todo`, `request` | the calls left to each request, and which request it is |

`HandleStart`, `HandleStop`, `HandleGoLiveNow`, `HandleCompleteBroadcast`,
`HandleConfigUpdate` are the clients; `GoLive` and `EventEnds` the scheduler, through
`streamControllerAdapter`.  `Attempt` and `Answer` are `runTransitionToLive` and its
retries: YouTube accepts a transition when the stream is active, reports a redundant
or an invalid one, or fails; a failure is retried, or, when it is terminal or the last
of the attempts, ends the goroutine (`abandoned`).  The intent file may fail to be
written or removed, which nobody notices (`Record`).  `FFmpegFails` is the Supervisor
giving up, which nobody is told; `Crash` loses everything but the intent file and
YouTube, and `ResumeIfNeeded` / `ResumeRefused` are the next boot.  Bounds: at most
`MaxUpsets` crashes, failures and overlaps of a starting request with another one, so
that every property sees each of them alone.

### Hub

Snapshots are version numbers.  A publisher (`Change`, `TakeSnapshot`, `Collect`,
`Store`, `Signal`) stores its snapshot with each subscriber and signals it, in
separate critical sections; `Subscribe`, `InitialSnapshot`, `Drain`, `Write`,
`Disconnect`, `Unsubscribe` are `handleEventStream`; `CloseHub` and `CloseSub` are
`hub.Close`.

### OAuthToken

A token is the consent it came from and the consent whose channel name it shows.
`Exchange`, `CodeAccepted`, `Call`, `HTTPClient`, `Build`, `Token`, `Answer`,
`SaveToken`, `WriteToken` take a task through a login, an API call or
`VerifyAuth`, one critical section each; `saveToken` changes memory and writes the
file in two steps.  `Logout`/`RemoveFile` and `Reboot` complete it.  The file may fail
to be written or removed, and the code goes on (`FileFails`); `unsaved` remembers that it
is of another login.

### Preview

A session holds the process's one pair of UDP ports, perhaps an FFmpeg, and a
closing state.  `Offer` to `Publish` are `ServeHTTP` with `startSession`;
`CloseStops`, `CloseReleases`, `CloseForgets` are the critical sections of
`closeSession`, which an offer, the ICE callback or the reaper begins (`Replace`,
`Negotiate`, `IceFails`, `Reaper`); `Block`/`BlockStops`, `Unblock`/`Resume` and
`UpdateConfig`/`ConfigStops`/`ConfigStarts` are the stream handlers; each of the
`Callers` may be inside a `Block` or an `Unblock`, between the two halves that the code
runs without a lock across.  `StopFFmpeg` only sends the kill: the FFmpeg may be
`dying` for a while, until `KilledExits`.

### Adaptive

`Tick`, `Look`, `Capture`, `StopForStep`, `StartAtTier`, `RecordStep` are the
watchdog's tick with `transitionTo`; `Lower` and `Higher` are the ladder.  The
operator's handlers change the Supervisor first and tell the controller
afterwards (`StartStream`/`OnStreamStart`, `StopStream`/`OnStreamStop`), except Go
Live Now (`TakeOver`/`GoLiveNow`) and Complete (`CompleteBroadcast`), which tell it
nothing.  A session that ends may leave the Supervisor's status at Degraded (`stale`), and
the tick looks at the status: it takes such a status for a stream, and a degraded one.
The windows of drop
rate, speed, stalls and restarts are one Boolean the network sets, and time is the
age of the last start or step in four values: grace, cooldown and recovery time
are passed in this order.

### HealthPoll

The poller reads the stream's id (`PollStreamHealth`), gets an answer within
`CallDeadline` or fails (`HealthAnswer`, `CallFails`), checks the status of the
Supervisor (`ApplyDestinationHealth`), counts (`CountBad`) and restarts
(`RestartFFmpeg`), while the operator changes streams and FFmpeg is respawned or given
up.  `onAir` is the Supervisor's stream and `bound` is `activeStreamID`: a stream started
by hand leaves the latter alone (`StartByHand`), a refused start clears it
(`StartIsRefused`), and giving up (`GiveUp`) leaves it set.

### CaptureSource

A listing gives each physical device an index that changes as devices are plugged
in and out; the configuration keeps a name and an index.  `ResolveStrict` is the
resolver; `Opened` is what a spawn gets from it, where a choice without a name
(`Nameless`: a microphone, or a camera of a legacy file) and a backend that resolves no
names (`resolves`: ALSA, or v4l2 without `/sys`) are opened at the index kept; `Booted`
is what `NewServer` makes of the file.  `BuildInputs` is a spawn (no camera: the session
fails; no microphone: silence), `WatchAudioRecovery` the audio watcher, `BootResolves`
the reload of `NewServer`, `HandleConfigUpdate` the operator's choice, which must name a
camera.

## Runs

Bounds are constants named in the modules (`Max...`); they only limit how often
something happens, in guards.  `stream_server`, `stream_unconfigured` and
`stream_stop_after_reboot` check for deadlock (a server with nothing to do may
stutter, `Idle`; a request that cannot go on may not).  Elsewhere `CHECK_DEADLOCK
FALSE` is set: once the sessions, crashes or time allowed are used up, a system with
no stream has nothing left to do, and a Supervisor nobody calls waits forever by
design.

| Run | Instance | Shows |
|---|---|---|
| `supervisor_safety` | 2 callers (symmetric), 2 sessions, 3 FFmpegs, 1 crash, `MaxRestarts` 1, `quickFailLimit` 2; 1.2 million states | `TypeOK`, `StopReturnsAfterExit`, `NoSendOnClosedChannel`, `RecordedEncoderIsFound`, `LiveStateHasSession`, and that the Supervisor implements the lease with one FFmpeg (`LeaseSpec`, with `OneEncoder`) |
| `supervisor_liveness` | 2 callers, 2 sessions, 1 FFmpeg, no crash; 180 thousand states | `StopReturns`, `RestartIsServed` |
| `supervisor_rejection` | 1 session, 2 FFmpegs | violates `RejectionIsGenuine` |
| `scheduler_safety` | 2 back-to-back occurrences of 2 schedules, one prepared ahead (its lead exceeds `MaxPrepLead`), 1 operator, 2 broadcasts, 3 instants, 1 upset (edit, crash, failed, restarting or manual stream); 3.7 million states | `TypeOK`, `OneBroadcastPerOccurrence`, `MappingIsOwn`, `OnAirIsActive`, `QuietStopIsFinal` |
| `scheduler_liveness` | 1 occurrence, 5 instants, 1 extension, backoff that doubles once, 1 upset; 785 thousand states | `EventEnds` |
| `scheduler_late_stop` | as `scheduler_safety` with no upset | violates `StoppedStaysStopped` |
| `srt_receiver` | 2 callers, 2 configurations besides none, 3 `Apply` calls, 2 FFmpegs; 98 thousand states | `TypeOK`, `ReceiverIsCurrent`, `StatusFollowsLoops`, `ApplyReturns`, and that the receiver implements the lease with one FFmpeg (`PortLease`, with `OneReceiver`) |
| `srt_two_receivers` | the same, without fairness | violates `NoTwoReceivers` |
| `stream_server` | 1 client, 1 occurrence, 1 other broadcast, 2 requests, 1 upset; 658 thousand states | `TypeOK`, `CameraHeld`, `IntentFollows`, `NoOrphanLive`, `EventOwnsStream`, `StopEndsOccurrence`, `StopStops`, `GoesLive` |
| `stream_stop_after_reboot` | the same | violates `StoppedOccurrenceRests` |
| `stream_unconfigured` | 1 client, 2 requests, no YouTube credentials and no occurrence | violates `StopStops` |
| `side_services` | Hub: 1 browser, 2 publishers, 4 versions. OAuth: 2 tasks, 2 consents, 1 crash. Preview: 2 offers, 2 sessions, 2 callers of Block. Adaptive: 5 tiers (one automatic, one off the ladder), 2 downgrades, 2 starts. Health: grace 3, deadline 2, 3 bad answers, 3 streams. Capture: 3 devices, 2 of one name, 2 indices, 2 moves, 1 choice. 647 thousand states together | `TypeOK`, `NewestShown`, `ReadersLeave`; `LoginIsLatest`; `CameraYielded`, `NoLostSession`, `ListenersLeased`; `TierWithinTarget`, `UserStopIsFinal`, `QualityReturns`; `HealthRestartIsOwn`; `RightSource`, `SourceReturns` |

Why these bounds: two callers suffice for every race of a `Start`, `Stop` or `Restart`
with another one; two sessions let an old goroutine's cleanup overlap a new session;
three FFmpegs let a session restart and be followed by another one; `MaxRestarts` 1 is
reached by the second death, as is the quick limit of 2, so every verdict of the loop
occurs.  One crash is enough for an FFmpeg to outlive its program and meet the next
one.  In the scheduler two occurrences that touch are the smallest case in which the
end of one meets the start of the next; three instants are before, at and after that
point.  One upset at a time keeps the run within minutes; it does not cover an edit
followed by a crash.  For the SRT receiver two callers overlap, a third call meets
what they left, and a second FFmpeg is either the retry of a loop or the first of the
next one; a spawn that fails costs nothing, so that a loop may retry without bound.

In `stream_server` the client, the scheduler's loop and the boot are three processes;
two requests are a stream and what ends or replaces it, and the second may overlap
with the first one's transition goroutine, with the completion a Stop leaves behind
and with the scheduler.  One upset is a crash, an FFmpeg given up, a YouTube call that
fails or is given up, a write of the intent file that fails, or an overlap with a
starting request; two of them are not covered.  In `side_services` the six services
share no state and the product of theirs is out of reach, so TLC follows the
behaviours that move one of them (`part`) and leave the others at their start; that
the others may move too changes nothing a property of one could see
(`ServicesCompose`, a lemma of `SideServicesProofs`).  `MCNext` stops short of two
things a property excuses: a login or logout that meets a request (`overlapped`), and
an FFmpeg started late (`strayed`).  As the latter does not excuse `NoLostSession`,
the preview is followed once more past it, with nobody to block its camera.  The
proofs cover all of it.  Two publishers suffice to overtake each other, two tasks to
race a refresh with a login, two offers to replace each other's sessions; two
downgrades of five tiers end above and at the bottom of the ladder; the deadline is
below the grace, and three bad answers are the code's number; two indices for three
devices make a twin take the place of the chosen one.  The proofs remove the bounds
for every safety property (`StopStops` among them), so that these runs matter most for
the liveness properties and for the assumptions of the proofs.

The liveness runs leave out what is not needed: with one FFmpeg allowed, a
session whose attempt is over can only fail to spawn and count its failures, so
both ends of the loop are reached; crashes end every call and are left out of
`supervisor_liveness`.

Beside each definition a property is about stands a plausible slip in that code
(a suffix names it: `WaitedAtOnce`, `DelayUncapped`, ...).  With the slip in
place of the definition TLC finds the property violated; `PROJECT.json` lists
these pairs under `mutants`.

### What the less obvious properties say

- `StopReturnsAfterExit` relates the channel that releases `Stop` to the process
  and to the pid file.  It is what makes Stop-then-Start safe.
- `RecordedEncoderIsFound` is the pid file's purpose: through any crash a running
  FFmpeg whose pid was written is the one the file names.  It excludes an FFmpeg
  between `cmd.Start` and the write, and a boot that could not read the file or
  cleared it for a process it did not recognise or see die (`pidfile.go:75-92`):
  there the code does lose it, and it is the only such place.
- `OneBroadcastPerOccurrence` allows a second broadcast only after a failed bind,
  an edit of the schedule or a crash that found the mapping unsaved (`lost`
  counts these); ordinary ticks, failed saves and stops never duplicate one.
- `QuietStopIsFinal`: an occurrence an operator stopped while no tick had it in
  hand is not on air again, whatever follows.  In the excluded case the tick that has it
  in hand may put it on the air behind the Stop's back, as `scheduler_late_stop` shows.
- `ReceiverIsCurrent` and `PortLease` (with `OneReceiver`) are claimed as long as no two
  `Apply` calls have overlapped; `srt_two_receivers` shows why.  `StatusFollowsLoops`,
  which is why `runOnce` joins its goroutines, and `DoneMeansGone`, on which an `Apply`
  that waits relies (proved, not a property of the run), hold in any case.
- `PortLease` and `ListenersLeased` are refinements: mapped to the lease, every step
  is one of the lease's (acquire, launch, exit, release) or none.  They say more than
  that there is one FFmpeg: who holds the port changes only by a release, and the
  receiver's release waits for the FFmpeg.  The preview's comes after the kill, and
  does not wait for the killed one to go: its lease covers an FFmpeg until it is
  killed.  Each is claimed up to the first step that is excused above and below
  (`overlapped`, `strayed`).
- `EventEnds` needs no assumption about YouTube: stopping comes before the check
  of authentication in `tick`.
- `StopStops` says what the operator may rely on when Stop returns, whatever went
  on before: FFmpeg off, camera free, no intent (unless its file could not be removed),
  no broadcast, no active event.
  The other properties of `StreamServer` are about the quiet states between
  requests, and each excuses what the code is known to get wrong (the values of
  `marred`): `raced`, a starting request that overlapped with another; `refused`,
  a Start that met a live stream; `overtaken`, Go Live Now or Complete over a
  scheduled event; `failed`, an FFmpeg given up; `uncompleted`, a completion that
  failed or was lost in a crash; `dropped`, an intent not resumed; `unsaved`, an intent
  not written or removed; `abandoned`, a transition given up for YouTube's errors;
  `rebooted`, any crash.  What happens in
  these cases is listed [below](#known-gaps).  `GoesLive` holds through a crash
  and through any number of rejected attempts while there is no ingest.
- `StopEndsOccurrence` relates three parties: the goroutine a Stop leaves to complete
  the broadcast, the scheduler's list of what is due, and the broadcast both mean.  If
  it failed the scheduler would put on the air what is about to be completed.  After a
  reboot it does fail, with consequences (`stream_stop_after_reboot`).
- `NewestShown` needs the store and the signal, and the subscription and the
  initial snapshot, in the code's order; it excuses two publishers that have a
  snapshot in hand at once (`crossed`), where the older may be stored last.
- `LoginIsLatest` covers memory, file and cached client at once; it excuses a
  request that was under way during a login or logout (`overlapped`), and of the file
  one that could not be written or removed (`unsaved`).
- `CameraYielded` is why `Block` comes before the Supervisor's `Start`: once it has
  returned every FFmpeg of the preview has been killed.  It does not say that they are
  gone, which `Block` does not wait for.  `NoLostSession` is why a failed or replaced
  session does not make every later preview fail.  `strayed` and `overwritten` are the
  cases the code misses.
- `TierWithinTarget` and `UserStopIsFinal` excuse an operator who acts inside a
  tick that steps and a tick that takes a stale Degraded for a stream (`collided`);
  the former also a stream of Go Live Now (`untold`).
- `HealthRestartIsOwn` depends on two numbers, a deadline of 10 s for a poll's
  calls and a grace of 60 s for a fresh FFmpeg: with the grace the shorter one it
  fails.  `slipped` is the operator acting between the check and the count, `adrift` a
  stream started by hand while `activeStreamID` still names another one.
- `RightSource` is about choices that have a name and backends that resolve it, and
  distinguishes twins when the chosen one is at the index kept; `SourceReturns` asks
  for one device of the name, because the watcher cannot tell two apart.

## Fairness

`Supervisor`: weak fairness of each run goroutine's own steps and of the rest of
a `Stop` that has begun.  Go runs every runnable goroutine, a select with a ready
case takes one, timers fire and SIGKILL ends a process.  Nothing is assumed of
callers (nobody has to call anything), of FFmpeg (it may run forever or print
nothing) or of stalls.  `RestartIsServed` holds under weak fairness although a
select may choose another ready case: each of the others leads out of the
session or back to a select with the request still queued, and the counters
bound how often.

`Scheduler`: weak fairness of the loop and of time.  The ticker fires, and every
call the loop makes returns (`context.WithTimeout` of 30 s and 15 s around the
YouTube calls).  Nothing is assumed about success, operators or authentication.

`SrtReceiver`: weak fairness of a caller inside `Apply`, of each run loop and of a
watchdog about to publish; strong fairness of the join at the end of `runOnce`,
because what FFmpeg wrote before it exited is finite and the watchdog's context is
cancelled, so that neither goroutine can put the join off forever.  Nothing is
assumed of FFmpeg, which may listen forever.

`StreamServer`: weak fairness of the requests' calls (one fairness condition for all
of them: the mutexes are held briefly, the calls to YouTube have deadlines, and
`Supervisor.Stop` returns, which is `StopReturns`) and of each transition
goroutine.  Nothing is assumed of clients, occurrences or YouTube's answers; that
an attempt fails for good is an upset.

`side_services`: weak fairness of each publisher's, reader's and the hub's closer's
own steps (a stalled write fails at its deadline).  For
`QualityReturns`, the watchdog's tick, the handlers' calls to the controller and
time.  For `SourceReturns`, the Supervisor's loop and the audio watcher.  Nothing is
assumed of browsers, operators, the network or who plugs in what.

## Proofs

`SupervisorProofs` proves, for every set of callers and every number of sessions,
FFmpegs, crashes and restarts (from `BoundsAssumption` alone, which says that
these are numbers and that both limits are positive):

| Theorem | Statement |
|---|---|
| `TypeCorrect` | `Spec => []TypeOK`, the counters' limits included |
| `ChannelsSafe` | `Spec => []NoSendOnClosedChannel` |
| `LiveStateSafe` | `Spec => []LiveStateHasSession` |
| `EncoderUnique` | `Spec => []OneEncoder` |
| `StopIsFinal` | `Spec => []StopReturnsAfterExit` |
| `RecordedIsFound` | `Spec => []RecordedEncoderIsFound` |
| `SupervisorImplementsLease` (`SupervisorRefinement`) | `Spec => LeaseSpec` |

`HealthPollProofs` proves, from `HealthAssumption` (numbers, and the deadline of a
poll's calls is shorter than the grace of a fresh FFmpeg):

| Theorem | Statement |
|---|---|
| `HealthRestartSafe` | `HealthSpec => []HealthRestartIsOwn` |

`SrtReceiverProofs` proves, for every set of callers and configurations and any number
of `Apply` calls and FFmpegs (from `ReceiverAssumption`: the bounds are numbers, and no
configuration is the one without a port):

| Theorem | Statement |
|---|---|
| `ReceiverTypeCorrect` | `Spec => []TypeOK` |
| `DoneIsFinal` | `Spec => []DoneMeansGone` |
| `StatusHonest` | `Spec => []StatusFollowsLoops` |
| `ReceiverUnique` | `Spec => []OneReceiver` |
| `ReceiverFollows` | `Spec => []ReceiverIsCurrent` |
| `ReceiverImplementsLease` | `Spec => PortLease` |

`SchedulerProofs` proves, for every set of occurrences, schedules and operators, any
lead, and any number of broadcasts, edits and crashes (from `EventsAssumption` and
`SchedulerAssumption`: these are numbers, lengths are positive, `Owner` maps
occurrences to owners, and the loop is no operator; and `DelayAssumption`, that
`BackoffUnit * 2^n` is a number, a piece of arithmetic which the provers lack and TLC
evaluates, used for `SchedulerTypes` only):

| Theorem | Statement |
|---|---|
| `SchedulerTypes` | `Spec => []TypeOK`, the cap of the backoff included |
| `MappingOwned` | `Spec => []MappingIsOwn` |
| `OnAirOwned` | `Spec => []OnAirIsActive` |
| `StopIsFinal` | `Spec => []QuietStopIsFinal` |
| `PreparedOnce` | `Spec => []OneBroadcastPerOccurrence` |

`StreamServerProofs` proves, for any number of clients, broadcasts, occurrences,
requests and upsets, with and without credentials where not said otherwise (from
`StreamServerAssumption`: these are numbers, and the loop and the boot are two
processes of their own):

| Theorem | Statement |
|---|---|
| `StreamServerTypes` | `Spec => []TypeOK` |
| `StopDoesStop` | `Configured` implies `Spec => StopStops`; `stream_unconfigured` shows that it fails without |
| `CameraIsHeld` | `Spec => []CameraHeld` |
| `EventOwnsItsStream` | `Spec => []EventOwnsStream` |
| `IntentFollowsStream` | `Spec => []IntentFollows` |
| `NoLiveIsOrphaned` | `Spec => []NoOrphanLive` |
| `StopEndsItsOccurrence` | `Spec => []StopEndsOccurrence` |

`SideServicesProofs` and `PreviewProofs` prove, for any number of devices, tiers,
goroutines, browsers, offers and sessions (from the assumptions of the modules: numbers,
names of their own for the processes, a target that is a tier of the ladder an operator may
choose, devices that have names; each up to what its property excuses):

| Theorem | Statement |
|---|---|
| `SourceIsRight` | `CaptureSpec => []RightSource` |
| `TierIsWithin` | `AdaptiveSpec => []TierWithinTarget` |
| `StoppedStaysOff` | `AdaptiveSpec => []UserStopIsFinal` |
| `LastLoginIsKept` | `OAuthSpec => []LoginIsLatest` |
| `WatcherIsCurrent` | `HubSpec => []NewestShown` |
| `BlockYieldsCamera` (`PreviewProofs`) | `PreviewSpec => []CameraYielded` |
| `ListenersAreKept` (`PreviewProofs`) | `PreviewSpec => []NoLostSession` |
| `PreviewImplementsLease` (`PreviewProofs`) | `PreviewSpec => ListenersLeased` |
| `ServicesTypeCorrect` | `Spec => []TypeOK`, the types of the six together |

*Supervisor.*  None of the properties is inductive.  The argument goes in three layers, each an
invariant proved with the ones before it:

1. `TypeInv`: types; the counters are below their limits at every point of the
   loop that may count again; sessions are opened in order; a Stop in progress
   holds a real session.
2. `OwnInv` adds *ownership*: a goroutine between its spawn and its cleanup is the
   one `cur` names, so there is at most one; what it leaves behind (closed
   channels, a live state) follows its program counter.  `ChannelsSafe` and
   `LiveStateSafe` follow: a goroutine closes its channels only after it has given
   up ownership, which is what `Restart` tests.
3. `ProcInv` adds the processes: pids are handed out in order (`Births`), every
   FFmpeg EasyStream knows is attended by its owner or was left by a crash that
   has not been followed by a boot (`Keeping`, which with ownership gives
   `OneEncoder`), and the pid file names the FFmpeg of the attempt from its write
   to its clearing (`Filing`).

The refinement maps `holder` to `cur`, `encoder` to the one FFmpeg that is
running and not lost, and `spent` to the sessions opened; every step is a step of
the lease or leaves it as it is.  `OneEncoder` makes the mapping well defined.

*Health poll.*  The invariant is an inequality between two clocks: when the poller
holds an answer about an older stream than the one on air, the FFmpeg on air is no
older than the call that got it, which is no older than `CallDeadline`.  So the check of the
grace, which only an FFmpeg of `StartupGrace` passes, turns such an answer away,
and the count that is left was made of answers about the stream on air, unless
the operator slipped in behind the check or the stream is adrift.

*SRT receiver.*  `TypeInv` counts the callers that may still open a loop (`Owing`), so
that there is room for each one's.  `LifeInv` is the life of a loop, whoever opened it:
an FFmpeg runs only while its loop waits for it, a closed `done` belongs to a loop
that has ended, and a status other than idle to one that has not left.
`SerialInv` is about `Apply` calls that do not overlap: the caller inside `Apply` is alone
and the receiver holds no loop meanwhile (`Serial`), and a loop that has not ended is
the one held or the one being torn down (`Sole`), so there is at most one.  It is the
holder of the lease; each step of the receiver is then a step of the lease or a stutter,
up to the step in which two `Apply` calls first overlap.

*Scheduler.*  Five layers:

1. `TypeInv`: the types that the others need.
2. `HoldInv`: from `prepare` to `onair` the loop has an occurrence, and a broadcast
   that was created for it (`Held`); a stop in progress knows an end no earlier
   than the event's (`Settling`); while the loop brings a broadcast on air no event is
   active, because only the loop makes one active, and what is on air before it
   does is its own or manual (`Alone`).
3. `FinalInv`: a suppression reaches to the end of its window (`Windows`), the loop's
   snapshot is used up when its pass ends (`Blank`), so a new pass meets a stopped
   occurrence only when it is over; until then it is neither in hand nor taken up
   (`Shelved`).
4. `CountInv` keeps the account of the broadcasts created for an occurrence: there
   is at most one more than were lost, and there is that one only while the Store
   knows of it (a mapping or a suppression), while it is about to be stored, or once
   the window is over for this and every later tick (`Ended`).  What a tick finds
   unprepared in its window (`Due`) has therefore lost all it had, from the snapshot
   to the call that creates the next one, whatever edits and stops come between.
   `Overdue` is why the loop's own stop may drop a mapping without suppressing.
5. `Bounds`: the counters and the backoff, whose delay never exceeds its cap.

*Stream server.*  A request is the list of calls that are left of it, so the invariants
speak of lists: that a call is still to come (`Has`), that none of some calls comes before
(`Preceded`) or after (`NoneAfter`, `Followed`) some other, that it is about a given
broadcast (`Bound`, `HasFor`).  Such a fact is proved of each list a request begins with,
and of the tail whenever a call is taken.

1. `TypeInv`: what is left belongs to the request (`Worded`), and a starting request
   that meets another one has been noticed (`Noticed`): `raced` is set on both.  The
   properties that excuse `raced` may therefore take a starting request to be alone.
2. `StopInv`: a Stop that met no start still has the call that turns off each
   thing that is on, so nothing is on when no call is left.
3. `CameraInv`: nothing is freed before FFmpeg is halted and no FFmpeg started before the
   preview is blocked.
4. `EventInv`: an active event streams its own broadcast, or somebody will make the
   scheduler forget it (`Owes`).  It rests on `ShapeInv` (the order of the calls of each
   request), `UnrefusedInv` and `AscentInv` (a start that has adopted a broadcast goes on
   with the same one up to `air`).
5. `IntentInv`: outside a start (`Rising`) the file names what is on, or will be removed;
   inside, each process has found what its calls assume (`Underway`).
6. `OrphanInv`: a broadcast that is live, or will be if YouTube grants what it was asked
   (`Onward`), is the active one, about to be completed, or in the intent file that the
   boot is resuming (`Accountable`); who disowns a broadcast completes it
   (`Dutiful`).  `OrderedInv` gives the order of disowning and completing.  A scheduled
   start that is going to be refused (`Doomed`: something streams whose FFmpeg the gate did
   not see) has set the active broadcast already, so the account is suspended until the
   refusal is known and excuses it (`AccountInv`).
7. `FinishInv`: while a scheduled broadcast is active and its occurrence due, it is the
   scheduler's event or a scheduled request is about to make it so or to give it up (`Raising`),
   and whoever is about to leave it to a completing goroutine has the call still to come that
   makes the scheduler forget it.  `FittingInv` is the order this needs: only a Stop
   detaches, and nothing that finishes an occurrence comes after it.

*Capture devices.*  `CaptureInv`: every configuration keeps the name of the device it was
chosen for, and FFmpeg reads a device only while it runs.  What the resolver finds is a
device of the name, and with one match it is that one (`ResolveFinds`).

*Adaptive.*  `AdaptiveInv`: FFmpeg runs the configuration the Supervisor was given last
(`RunsConfig`).  Unless an operator collided with a step, that is the stream the operator
wants, or nothing (`WantsTheStream`); the tier the controller believes in is within reach of
its target (`Believed`), and a step keeps it so (`StepsWithin`).

*OAuth.*  `OAuthInv`, unless a request overlapped with a login: memory, client and the
tokens that requests hold are of the last login (`MemoryIsLatest`, `JobsFollow`), and the
file is, or somebody is about to write or remove it (`FileIsLatest`).

*Hub.*  `HubInv`: while nobody is about to take a newer snapshot, one in flight is the newest
(`SnapshotIsNew`, `OneInFlight`), and every reader that is subscribed will be told by the
publisher under way, has the signal, or is informed (`WatchersReached`).

*Preview.*  `PreviewInv`: an open session is the current one or an offer's own
(`OpenIsOwned`), a session that has released the ports never has them again
(`PortReleased`), one that closes kills its FFmpeg first (`ClosingKills`), and an open one that
runs while the server is blocked is one that a `Block` under way is about to stop
(`Yielding`).  The refinement maps the holder to the session with the ports and the encoder
to the session whose FFmpeg nobody has killed; without a late start the two agree.

*Composition.*  A step of `SideServices` is a step of one service that leaves the variables
of the others alone (`ServicesApart`), so its behaviours are behaviours of each
(`ServicesCompose`): no more than the absence of shared state says, but it is what lets
what is proved of one be read as proved beside the others.

TLC checks the same properties and refinements in `supervisor_safety`,
`scheduler_safety`, `srt_receiver`, `stream_server` and `side_services`.  Only
model-checked: every liveness property (`StopReturns`, `RestartIsServed`, `EventEnds`,
`ApplyReturns`, `GoesLive`, `ReadersLeave`, `QualityReturns`, `SourceReturns`; fairness is
beyond the prover).  Every invariant and every action property of the passing runs is proved.

## Disagreements with comments and tests

- `supervisor.go:369` takes two fast deaths for a rejection by the destination.
  A requested restart counts as one of them, so that it and one other are enough
  (`supervisor_rejection`).
- `store.go:374` and `scheduler_test.go:363` have a stopped occurrence stay
  stopped in its window.  A Stop that records its suppression after a tick has taken its
  snapshot does not keep that tick from starting the occurrence again: in the trace of
  `scheduler_late_stop` an operator's Stop is under way when the tick takes its snapshot,
  with the event in it.  The Stop ends the stream and forgets the event, so that the tick
  passes the gate; it records the suppression, and its own last call, `supervisor.Stop`,
  finds nothing to end; and the tick starts the suppressed occurrence.
- `srt.go:116` has `Apply` wait so that no two FFmpegs fight over the port, and
  line 171 repeats it.  Two config updates that overlap (from two browser tabs) find
  no loop to wait for and start one each; the first is never cancelled
  (`srt_two_receivers`).
- `main.go:101` calls YouTube optional ("app works without it in manual mode"), as does the
  README of the program.  Without credentials `stopActiveEvent` calls a method of a nil
  interface (`scheduler.go:536`): every Stop panics, the HTTP layer recovers, and FFmpeg
  goes on streaming (`stream_unconfigured`).
- `store.go:374` again: a Stop of a scheduled stream that a boot has resumed finds no
  active event in the scheduler (`resumeIfNeeded` does not tell it) and suppresses
  nothing.  The occurrence goes live again inside its window, on the broadcast that the
  Stop is completing (`stream_stop_after_reboot`).

### Known gaps

Behaviours met while modelling that contradict what a comment or a reader expects.
They are in the models, and the properties of the passing runs excuse them by
name (the history variable in parentheses).

Stream server (`marred`, `raced`):

- A Start refused because a stream is live unblocks the preview, whose FFmpeg then
  takes that stream's camera; a scheduled or Go Live Now start refused so has
  already replaced the destination and clears the active broadcast (`refused`).
- Go Live Now and Complete over a scheduled event leave it active in the scheduler:
  at its end the scheduler stops whatever is on then (`overtaken`).
- When the Supervisor gives up, nobody is told: the camera stays blocked, and an
  occurrence that goes live next takes over the active broadcast, so that the
  failed one is never completed (`failed`).
- A start that overlaps with another request may leave the intent file, the active
  broadcast or the camera to whichever call came last (`raced`).
  `startTransitionGoroutine` cancels and sets in two critical sections, so that of two
  at once one is never cancelled; its check of the active broadcast makes that harmless.
- After a crash and resume of a scheduled stream the scheduler knows no active
  event, so nothing ends the stream at its time, and a Stop does not finish the
  occurrence, as `stream_stop_after_reboot` shows (`rebooted`).
- A resume with a configuration that has become invalid leaves the active
  broadcast set with nothing streaming (`dropped`).
- A failure to write the intent file is only logged (`server.go:134-136`) and one to
  remove it ignored (`intent.go:56-58`): the next boot resumes what the file said before
  (`unsaved`).
- A transition that YouTube refuses with a terminal reason, or fails as often as it is
  tried, is given up: the stream goes on, and its broadcast never goes live (`abandoned`).

Supervisor: `supervisor.go:82` gives the life of the state as ending in Idle or Failed,
and line 211 has `Restart` do nothing without an active stream.  A `Restart` between the
last `setExit` and the deferred cleanup leaves `Degraded` with no session, which the
scheduler takes for a running stream; `LiveStateHasSession` leaves that state out.  And
the boot clears the pid file although it does not recognise the process it names or has
not seen it die (`pidfile.go:75-92`), so that EasyStream comes up beside a running FFmpeg.

Scheduler: `scheduler.go:479` backs an event off for 30 s after a failed preflight "so
we don't loop on every tick".  Only phase 1 looks at the backoff; phase 2, where the
preflight is, tries again on every tick.  And `scheduler.go:183` has `Extend` push the
end out without stopping the stream, but a tick that has read the extension before
stops the event all the same, after `Extend` has returned the new end.

Hub: of two publishers with a snapshot in hand the older may be stored last, and
stays until the next change (`crossed`).  `Server.Shutdown` calls `httpServer.Shutdown`,
which waits for the event streams, before `Close` and so before `hub.Close`
(`server.go:504-508`), whose closing of the readers therefore does not shorten it.

OAuth: a request under way during a login or logout caches the client of the old
token and saves that token (against the comment at `oauth.go:174`); a crash between
`Logout`'s clearing and its removal of the file brings the token back (`overlapped`,
`Reboot`), and so does a removal that fails (`oauth.go:249`); a token that could not be
written is lost at the next restart, or an older one comes back (`unsaved`).

Preview: `Block` kills and does not wait (`preview.go:405-423`), so that the stream's
FFmpeg may find the camera still taken.  It cannot see an offer in service, and an
FFmpeg may be started for a closed session or under a block (`strayed`); an
unpublished dead session overwrites that of a second offer, and the lost one keeps the
ports, against "One session at a time" at `preview.go:174` (`overwritten`).

Adaptive: `transitionTo` restarts the configuration it captured although the operator
acted meanwhile, and a tick that takes a stale Degraded for a stream restarts one that
is over, which Complete and a failing take-over, telling the controller nothing, let
happen to a stream the operator stopped (`collided`); a Go Live Now stream is stepped
towards its predecessor's target, against `adaptive.go:73` (`untold`).  The fields
`stableSince` and `degradingSince` are never set.

Health poll: an operator who changes streams between the check and the restart has
the new stream restarted (`slipped`).  A stream started by hand after another was given
up is restarted for that other's bad answers, since `handleStart` leaves `activeStreamID`
alone (`adrift`).  Good answers within the grace do not
reset the count.

Capture devices: a microphone saved without its name, and everything on a backend that
resolves no names, is opened at the index kept, whatever is there by then; a boot with only
a twin plugged in keeps the twin's index; the
audio watcher resolves with no index, so with two microphones of one name a
stream stays silent.

## Not modelled

Out of scope for good: building FFmpeg's arguments (`ffmpeg/config.go` other than
the resolution of devices) and parsing its log (`progress.go`, `recordLogs`), the
listing of devices, HLS files, the UI, `main`, cron arithmetic, and the
YouTube API client, whose calls succeed or fail nondeterministically where
they are used.  They keep no state whose order matters.  The atomic write of a
file (`atomicfile`) is assumed by `Save`, `Record` and the intent and token files:
it happens whole or not at all.

Of the modelled parts: the wording of errors and logs, `Status` beyond `State`,
the delays themselves, stream resources on YouTube (as opposed to broadcasts),
the order of shutdown in `Server.Close`, starting and stopping the scheduler's
loop, the schedule handlers (their effect on the store is `Edit`), WebRTC
negotiation, ICE servers and the preview's orphan reaping at boot, the hub's
heartbeats, health snapshots, presets' numbers and validation.

## Plan

A module is written so that it can be proved about (constants with assumptions,
one action per operation, no recursive operators).

1. **Supervisor** with its lease, proofs and refinement: done.
2. **ScheduleStore, Scheduler**: modelled, checked and proved.
3. **StreamServer**: modelled, checked and proved.
4. **Hub, OAuthToken, Preview, Adaptive, HealthPoll, CaptureSource**: modelled, checked
   and proved, alone and composed (`SideServices`).
5. **SrtReceiver**: modelled, checked and proved.
6. **EncoderLease** as the abstract specification of the Supervisor, the SRT
   receiver and the preview: done, the three refinements proved.
7. Left: an abstract specification of the hub as a register per topic.
