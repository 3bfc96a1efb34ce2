----------------------------- MODULE Supervisor -----------------------------
(***************************************************************************)
(* internal/ffmpeg/supervisor.go and pidfile.go: the Supervisor that keeps *)
(* one FFmpeg process streaming.  Callers (HTTP handlers, the scheduler,   *)
(* the adaptive controller, the destination health poll, the audio-device  *)
(* watcher) call Start, Restart and Stop concurrently; each Start launches *)
(* a goroutine, run, that spawns FFmpeg, waits for it in a select, and     *)
(* decides between another attempt and giving up.  One action per critical *)
(* section of s.mu, channel operation, process event or pid-file write, so *)
(* that TLC interleaves exactly what Go may interleave.                    *)
(*                                                                         *)
(* Abstracted: durations (an attempt is quick or not, a stall or a timer   *)
(* may happen at any time), the FFmpeg configuration and log/audio fields  *)
(* of Status, and the state-change callbacks, which only publish.          *)
(***************************************************************************)
EXTENDS Integers

CONSTANTS
  Callers,      \* goroutines that use the Supervisor
  MaxSessions,  \* bound: successful Start calls in a behaviour
  MaxSpawns,    \* bound: FFmpeg processes launched in a behaviour
  MaxCrashes,   \* bound: kill -9 / power loss of the EasyStream process
  MaxRestarts,  \* SupervisorConfig.MaxRestarts (20 by default)
  QuickLimit    \* quickFailLimit in run (2)

ASSUME BoundsAssumption ==
  /\ MaxSessions \in Nat
  /\ MaxSpawns \in Nat
  /\ MaxCrashes \in Nat
  /\ MaxRestarts \in Nat \ {0}
  /\ QuickLimit \in Nat \ {0}

Sessions == 1..MaxSessions
Pids == 1..MaxSpawns
None == 0

\* supervisor.go: the State constants.
States == {"idle", "starting", "running", "degraded", "restarting", "stopping", "failed"}

\* Where a run goroutine is; "new" before its Start, "dead" after a crash.
RunPCs == {"new", "spawn", "record", "mark", "select", "terminating", "drain",
           "returned", "stopped", "reject", "giveup", "pause", "sleep",
           "cleanup", "closeDone", "closeRestart", "ended", "dead"}

\* The points at which a run goroutine has an FFmpeg process to look after.
Attending == {"record", "mark", "select", "terminating", "drain"}

\* The points at which a run goroutine still owns s.cancel, s.done, s.restart.
Owning == {"spawn", "record", "mark", "select", "terminating", "drain", "returned",
           "stopped", "reject", "giveup", "pause", "sleep", "cleanup"}

VARIABLES
  host,           \* the EasyStream process is "up" or "down"
  cur,            \* session that s.cancel, s.done and s.restart belong to, or None (nil)
  state,          \* s.status.State
  cancelled,      \* sessions whose context is cancelled
  doneClosed,     \* sessions whose done channel is closed
  restartClosed,  \* sessions whose restart channel is closed
  queued,         \* sessions whose restart channel (capacity 1) holds a request
  pc,             \* pc[s]: where the goroutine of session s is
  pid,            \* pid[s]: the FFmpeg of its latest attempt, or None
  recorded,       \* sessions whose latest FFmpeg had its pid written to the pid file
  restarts,       \* restarts[s], quick[s]: the two counters of the loop
  quick,
  cause,          \* cause[s]: what ended the attempt: a request, a stall or other
  callPc,         \* callPc[c]: how far caller c is in a Stop
  captured,       \* captured[c]: the session whose cancel and done that Stop holds
  opened,         \* successful Start calls so far
  live,           \* FFmpeg processes that are running
  spawned,        \* FFmpeg processes launched so far
  pidfile,        \* the pid in the pid file, or None
  crashes,        \* crashes so far
  stray,          \* history: FFmpegs of an earlier life that a boot did not reap
  scan            \* history: "missed" once a boot left the FFmpeg of its pid file running

guarded == <<cur, state>>
channels == <<cancelled, doneClosed, restartClosed, queued>>
processes == <<live, spawned, pidfile>>
machine == <<host, crashes, stray, scan>>
counters == <<restarts, quick, cause>>
attempt == <<pid, recorded>>
calls == <<callPc, captured>>
others == <<machine, calls, opened>>
vars == <<guarded, channels, processes, machine, pc, attempt, counters, calls, opened>>

Init ==
  /\ host = "up"
  /\ cur = None
  /\ state = "idle"
  /\ cancelled = {}
  /\ doneClosed = {}
  /\ restartClosed = {}
  /\ queued = {}
  /\ pc = [s \in Sessions |-> "new"]
  /\ pid = [s \in Sessions |-> None]
  /\ recorded = {}
  /\ restarts = [s \in Sessions |-> 0]
  /\ quick = [s \in Sessions |-> 0]
  /\ cause = [s \in Sessions |-> "other"]
  /\ callPc = [c \in Callers |-> "idle"]
  /\ captured = [c \in Callers |-> None]
  /\ opened = 0
  /\ live = {}
  /\ spawned = 0
  /\ pidfile = None
  /\ crashes = 0
  /\ stray = {}
  /\ scan = "ok"
-----------------------------------------------------------------------------
(* Callers.                                                                *)
(* A definition with a suffix (StartUnchecked, TakeCancelNever, ...) that  *)
(* stands before the one it resembles is a plausible slip in that code; it *)
(* is not part of the specification and shows what a property guards.      *)

Goto(s, point) == pc' = [pc EXCEPT ![s] = point]

\* The loop's locals die with the goroutines of S.
Settle(S) ==
  /\ restarts' = [s \in Sessions |-> IF s \in S THEN 0 ELSE restarts[s]]
  /\ quick' = [s \in Sessions |-> IF s \in S THEN 0 ELSE quick[s]]
  /\ cause' = [s \in Sessions |-> IF s \in S THEN "other" ELSE cause[s]]

\* Start refuses while s.cancel is set; otherwise one critical section opens a
\* fresh session and `go s.run` starts its goroutine.
StartUnchecked == TRUE

StartAllowed == cur = None

Start(c) ==
  /\ host = "up"
  /\ callPc[c] = "idle"
  /\ opened < MaxSessions
  /\ StartAllowed
  /\ opened' = opened + 1
  /\ cur' = opened + 1
  /\ state' = "starting"
  /\ Goto(opened + 1, "spawn")
  /\ UNCHANGED <<channels, processes, machine, attempt, counters, calls>>

\* Restart returns false without a session; otherwise, still under the lock, it
\* marks the stream degraded and sends unless a request is already buffered.
Restart(c) ==
  /\ host = "up"
  /\ callPc[c] = "idle"
  /\ cur # None
  /\ state' = "degraded"
  /\ queued' = queued \cup {cur}
  /\ UNCHANGED <<cur, cancelled, doneClosed, restartClosed, processes, machine, pc, attempt, counters, calls, opened>>

\* Stop, first critical section: capture cancel and done, show Stopping.
StopBegin(c) ==
  /\ host = "up"
  /\ callPc[c] = "idle"
  /\ cur # None
  /\ state' = "stopping"
  /\ callPc' = [callPc EXCEPT ![c] = "cancel"]
  /\ captured' = [captured EXCEPT ![c] = cur]
  /\ UNCHANGED <<cur, channels, processes, machine, pc, attempt, counters, opened>>

\* Stop, after the unlock: cancel the captured context.
StopCancel(c) ==
  /\ callPc[c] = "cancel"
  /\ cancelled' = cancelled \cup {captured[c]}
  /\ callPc' = [callPc EXCEPT ![c] = "wait"]
  /\ UNCHANGED <<guarded, doneClosed, restartClosed, queued, processes, machine, pc, attempt,
                 counters, captured, opened>>

\* Stop returns once the captured done channel is closed.
StopReturn(c) ==
  /\ callPc[c] = "wait"
  /\ captured[c] \in doneClosed
  /\ callPc' = [callPc EXCEPT ![c] = "idle"]
  /\ captured' = [captured EXCEPT ![c] = None]
  /\ UNCHANGED <<guarded, channels, processes, machine, pc, attempt, counters, opened>>

-----------------------------------------------------------------------------
(* The run goroutine: runOnce *)

\* Building the arguments fails, and runOnce returns the error.
BuildFails(s) ==
  /\ pc[s] = "spawn"
  /\ Goto(s, "returned")
  /\ UNCHANGED <<guarded, channels, processes, attempt, counters, others>>

\* cmd.Start fails: setExit(StateFailed), yet run will try again.
SpawnFails(s) ==
  /\ pc[s] = "spawn"
  /\ state' = "failed"
  /\ Goto(s, "returned")
  /\ UNCHANGED <<cur, channels, processes, attempt, counters, others>>

\* cmd.Start succeeds; the context is not consulted first.
Spawn(s) ==
  /\ pc[s] = "spawn"
  /\ spawned < MaxSpawns
  /\ spawned' = spawned + 1
  /\ live' = live \cup {spawned + 1}
  /\ pid' = [pid EXCEPT ![s] = spawned + 1]
  /\ recorded' = recorded \ {s}
  /\ Goto(s, "record")
  /\ UNCHANGED <<guarded, channels, pidfile, counters, others>>

\* PidFile.Write; an error is logged and the stream goes on.
Record(s, ok) ==
  /\ pc[s] = "record"
  /\ pidfile' = IF ok THEN pid[s] ELSE pidfile
  /\ recorded' = IF ok THEN recorded \cup {s} ELSE recorded
  /\ Goto(s, "mark")
  /\ UNCHANGED <<guarded, channels, live, spawned, pid, counters, others>>

\* The attempt reports Running, whatever the state was.
MarkRunning(s) ==
  /\ pc[s] = "mark"
  /\ state' = "running"
  /\ Goto(s, "select")
  /\ UNCHANGED <<cur, channels, processes, attempt, counters, others>>

\* select: cmd.Wait has returned.
TakeExit(s) ==
  /\ pc[s] = "select"
  /\ pid[s] \notin live
  /\ Goto(s, "drain")
  /\ UNCHANGED <<guarded, channels, processes, attempt, counters, others>>

\* select: a restart request is received.
TakeRestartOnNilChannel(s) == FALSE

TakeRestart(s) ==
  /\ pc[s] = "select"
  /\ s \in queued
  /\ queued' = queued \ {s}
  /\ cause' = [cause EXCEPT ![s] = "request"]
  /\ Goto(s, "terminating")
  /\ UNCHANGED <<guarded, cancelled, doneClosed, restartClosed, processes, attempt, restarts, quick, others>>

\* select: the stall ticker finds no progress for 20 s and marks the stream degraded.
TakeStall(s) ==
  /\ pc[s] = "select"
  /\ state' = "degraded"
  /\ cause' = [cause EXCEPT ![s] = "stall"]
  /\ Goto(s, "terminating")
  /\ UNCHANGED <<cur, channels, processes, attempt, restarts, quick, others>>

\* select: the context is cancelled.
TakeCancelNever(s) == FALSE

TakeCancelWithoutTerminate(s) ==
  /\ pc[s] = "select"
  /\ s \in cancelled
  /\ Goto(s, "returned")
  /\ UNCHANGED <<guarded, channels, processes, attempt, counters, others>>

TakeCancel(s) ==
  /\ pc[s] = "select"
  /\ s \in cancelled
  /\ Goto(s, "terminating")
  /\ UNCHANGED <<guarded, channels, processes, attempt, counters, others>>

\* terminateCommand: SIGTERM, or SIGKILL after the grace period, ends FFmpeg ...
Terminate(s) ==
  /\ pc[s] = "terminating"
  /\ pid[s] \in live
  /\ live' = live \ {pid[s]}
  /\ UNCHANGED <<guarded, channels, spawned, pidfile, machine, pc, attempt, counters, calls, opened>>

\* ... and it returns once the process has been waited for.
Reaped(s) == pid[s] \notin live

TerminateDone(s) ==
  /\ pc[s] = "terminating"
  /\ Reaped(s)
  /\ Goto(s, "drain")
  /\ UNCHANGED <<guarded, channels, processes, attempt, counters, others>>

\* wg.Wait has returned: the pid file is cleared and runOnce returns.
ClearPidFile(s) ==
  /\ pc[s] = "drain"
  /\ pidfile' = None
  /\ Goto(s, "returned")
  /\ UNCHANGED <<guarded, channels, live, spawned, attempt, counters, others>>

\* recordProgress, called by the goroutine that reads FFmpeg's stdout until
\* wg.Wait: progress turns a degraded stream back to running.
RecordProgressUnjoined(s) ==
  /\ pc[s] \in {"select", "terminating", "drain", "returned", "cleanup", "closeDone"}
  /\ state = "degraded"
  /\ state' = "running"
  /\ UNCHANGED <<cur, channels, processes, machine, pc, attempt, counters, calls, opened>>

RecordProgress(s) ==
  /\ pc[s] \in {"select", "terminating", "drain"}
  /\ state = "degraded"
  /\ state' = "running"
  /\ UNCHANGED <<cur, channels, processes, machine, pc, attempt, counters, calls, opened>>

-----------------------------------------------------------------------------
(* The run goroutine: the restart loop *)

\* What run does with its counters.
VerdictOffByOne(deaths, quickDeaths) ==
  CASE quickDeaths >= QuickLimit -> "reject"
    [] quickDeaths < QuickLimit /\ deaths > MaxRestarts + 1 -> "giveup"
    [] OTHER -> "pause"

Verdict(deaths, quickDeaths) ==
  CASE quickDeaths >= QuickLimit -> "reject"
    [] quickDeaths < QuickLimit /\ deaths > MaxRestarts -> "giveup"
    [] OTHER -> "pause"

\* After an attempt under a live context: count it, tell onRestart, decide.
\* elapsed < quickFailWindow is free, but a stall takes longer than the window
\* (ProgressStallAfter is 20 s); the error runOnce returned is not looked at.
Account(s, fast) ==
  LET deaths == restarts[s] + 1
      quickDeaths == IF fast THEN quick[s] + 1 ELSE 0
  IN /\ pc[s] = "returned"
     /\ s \notin cancelled
     /\ fast => cause[s] # "stall"
     /\ restarts' = [restarts EXCEPT ![s] = deaths]
     /\ quick' = [quick EXCEPT ![s] = quickDeaths]
     /\ Goto(s, Verdict(deaths, quickDeaths))
     /\ UNCHANGED <<guarded, channels, processes, attempt, cause, others>>

\* After an attempt under a cancelled context the loop is left.
NoticeStop(s) ==
  /\ pc[s] = "returned"
  /\ s \in cancelled
  /\ Goto(s, "stopped")
  /\ UNCHANGED <<guarded, channels, processes, attempt, counters, others>>

\* setExit(StateStopping) or setExit(StateFailed), then the deferred cleanup.
SetExit(s) ==
  /\ pc[s] \in {"stopped", "reject", "giveup"}
  /\ state' = IF pc[s] = "stopped" THEN "stopping" ELSE "failed"
  /\ Goto(s, "cleanup")
  /\ Settle({s})
  /\ UNCHANGED <<cur, channels, processes, attempt, others>>

SetRestarting(s) ==
  /\ pc[s] = "pause"
  /\ state' = "restarting"
  /\ cause' = [cause EXCEPT ![s] = "other"]
  /\ Goto(s, "sleep")
  /\ UNCHANGED <<cur, channels, processes, attempt, restarts, quick, others>>

\* sleepContext: the timer fires; a cancelled context may lose the race.
Wake(s) ==
  /\ pc[s] = "sleep"
  /\ Goto(s, "spawn")
  /\ UNCHANGED <<guarded, channels, processes, attempt, counters, others>>

\* sleepContext: the context is cancelled during the wait.
SleepCancelled(s) ==
  /\ pc[s] = "sleep"
  /\ s \in cancelled
  /\ Goto(s, "stopped")
  /\ UNCHANGED <<guarded, channels, processes, attempt, counters, others>>

\* The deferred function's critical section: cancel, done and restart become
\* nil together, and Stopping (only Stopping) becomes Idle.
ForgetNothing(s) ==
  /\ pc[s] = "cleanup"
  /\ state' = IF state = "stopping" THEN "idle" ELSE state
  /\ Goto(s, "closeDone")
  /\ UNCHANGED <<cur, channels, processes, attempt, counters, others>>

Forget(s) ==
  /\ pc[s] = "cleanup"
  /\ cur' = None
  /\ state' = IF state = "stopping" THEN "idle" ELSE state
  /\ Goto(s, "closeDone")
  /\ UNCHANGED <<channels, processes, attempt, counters, others>>

\* After the unlock: close(done), which releases every Stop that captured it ...
CloseDone(s) ==
  /\ pc[s] = "closeDone"
  /\ doneClosed' = doneClosed \cup {s}
  /\ Goto(s, "closeRestart")
  /\ UNCHANGED <<guarded, cancelled, restartClosed, queued, processes, attempt, counters, others>>

\* ... then close(restart), on which a later send would panic.
CloseRestart(s) ==
  /\ pc[s] = "closeRestart"
  /\ restartClosed' = restartClosed \cup {s}
  /\ Goto(s, "ended")
  /\ UNCHANGED <<guarded, cancelled, doneClosed, queued, processes, attempt, counters, others>>

-----------------------------------------------------------------------------
(* Processes and the machine *)

\* An FFmpeg exits on its own: the destination dropped it, an encoder error.
FFmpegExits(p) ==
  /\ p \in live
  /\ live' = live \ {p}
  /\ UNCHANGED <<guarded, channels, spawned, pidfile, machine, pc, attempt, counters, calls, opened>>

\* kill -9, a panic or a power glitch: every goroutine and every in-memory field
\* is gone; FFmpeg has its own process group and the pid file is on disk.
Crash ==
  /\ host = "up"
  /\ crashes < MaxCrashes
  /\ host' = "down"
  /\ crashes' = crashes + 1
  /\ cur' = None
  /\ state' = "idle"
  /\ cancelled' = {}
  /\ doneClosed' = {}
  /\ restartClosed' = {}
  /\ queued' = {}
  /\ pc' = [s \in Sessions |-> IF s <= opened THEN "dead" ELSE "new"]
  /\ Settle(Sessions)
  /\ callPc' = [c \in Callers |-> "idle"]
  /\ captured' = [c \in Callers |-> None]
  /\ UNCHANGED <<processes, attempt, opened, stray, scan>>

\* NewSupervisor, ReapOrphan: a live FFmpeg the pid file names is recognised and
\* killed, and the file removed; a missing file or a dead pid reaps nothing.
BootWithoutKill ==
  /\ host = "down"
  /\ host' = "up"
  /\ pidfile' = None
  /\ stray' = live
  /\ UNCHANGED <<guarded, channels, live, spawned, crashes, scan, pc, attempt, counters, calls, opened>>

Boot ==
  /\ host = "down"
  /\ host' = "up"
  /\ live' = live \ {pidfile}
  /\ pidfile' = None
  /\ stray' = live'
  /\ UNCHANGED <<guarded, channels, spawned, crashes, scan, pc, attempt, counters, calls, opened>>

\* The process is not recognised (its command line cannot be read or lacks the
\* markers), or outlives the SIGKILL that nobody waits for: the file is cleared
\* all the same, and EasyStream is up beside a running FFmpeg.
BootGivesUp ==
  /\ host = "down"
  /\ pidfile \in live
  /\ host' = "up"
  /\ pidfile' = None
  /\ stray' = live
  /\ scan' = "missed"
  /\ UNCHANGED <<guarded, channels, live, spawned, crashes, pc, attempt, counters, calls, opened>>

\* ReapOrphan fails to read an existing pid file: logged, nothing is reaped.
BootBlind ==
  /\ host = "down"
  /\ pidfile # None
  /\ host' = "up"
  /\ stray' = live
  /\ scan' = "missed"
  /\ UNCHANGED <<guarded, channels, processes, crashes, pc, attempt, counters, calls, opened>>

-----------------------------------------------------------------------------
(* The specification *)

\* The steps of a run goroutine that it takes by itself once it can; a stall is
\* not one of them, and progress is FFmpeg's.
RunStep(s) ==
  \/ BuildFails(s) \/ SpawnFails(s) \/ Spawn(s)
  \/ \E ok \in BOOLEAN : Record(s, ok)
  \/ MarkRunning(s)
  \/ TakeExit(s) \/ TakeRestart(s) \/ TakeCancel(s)
  \/ Terminate(s) \/ TerminateDone(s) \/ ClearPidFile(s)
  \/ \E fast \in BOOLEAN : Account(s, fast)
  \/ NoticeStop(s) \/ SetExit(s) \/ SetRestarting(s)
  \/ Wake(s) \/ SleepCancelled(s)
  \/ Forget(s) \/ CloseDone(s) \/ CloseRestart(s)

\* The rest of a Stop that has begun.
StopStep(c) == StopCancel(c) \/ StopReturn(c)

Next ==
  \/ \E c \in Callers : Start(c) \/ Restart(c) \/ StopBegin(c) \/ StopStep(c)
  \/ \E s \in Sessions : RunStep(s) \/ TakeStall(s) \/ RecordProgress(s)
  \/ \E p \in Pids : FFmpegExits(p)
  \/ Crash
  \/ Boot
  \/ BootGivesUp
  \/ BootBlind

Spec == Init /\ [][Next]_vars

\* Go's scheduler runs every goroutine that can run, and a select with a ready
\* case, a timer or a SIGKILL fires.  Nothing is assumed of the callers beyond
\* finishing a Stop they began, nor of FFmpeg.
Fairness ==
  /\ \A s \in Sessions : WF_vars(RunStep(s))
  /\ \A c \in Callers : WF_vars(StopStep(c))

FairSpec == Spec /\ Fairness

-----------------------------------------------------------------------------
(* Properties *)

\* The types of every variable; Callers, sessions and pids only name real ones.
TypeOK ==
  /\ host \in {"up", "down"}
  /\ cur \in Sessions \cup {None}
  /\ state \in States
  /\ cancelled \subseteq Sessions
  /\ doneClosed \subseteq Sessions
  /\ restartClosed \subseteq Sessions
  /\ queued \subseteq Sessions
  /\ pc \in [Sessions -> RunPCs]
  /\ pid \in [Sessions -> Pids \cup {None}]
  /\ recorded \subseteq Sessions
  /\ restarts \in [Sessions -> 0..(MaxRestarts + 1)]
  /\ quick \in [Sessions -> 0..QuickLimit]
  /\ cause \in [Sessions -> {"other", "request", "stall"}]
  /\ callPc \in [Callers -> {"idle", "cancel", "wait"}]
  /\ captured \in [Callers -> Sessions \cup {None}]
  /\ opened \in 0..MaxSessions
  /\ live \subseteq Pids
  /\ spawned \in 0..MaxSpawns
  /\ pidfile \in Pids \cup {None}
  /\ crashes \in 0..MaxCrashes
  /\ stray \subseteq Pids
  /\ scan \in {"ok", "missed"}

\* Two FFmpegs never fight over the camera: whatever Start, Stop and Restart
\* race, and across a crash, at most one FFmpeg runs that EasyStream knows of
\* (Start's s.cancel check against the deferred cleanup; ReapOrphan at boot).
OneEncoder == \A p, q \in live \ stray : p = q

\* Once a session's done channel is closed, which is what lets Stop return, its
\* FFmpeg has exited and the pid file no longer names it: a caller may start the
\* next stream, or shut down, right after Stop.
StopReturnsAfterExit ==
  \A s \in doneClosed : /\ pid[s] \notin live
                        /\ s \in recorded => pidfile # pid[s]
                        /\ cur # s

\* Restart sends under the lock and the deferred cleanup closes the channel
\* after the unlock: no session that Restart can reach has a closed channel, so
\* the send cannot panic, and no done channel is closed twice.
NoSendOnClosedChannel ==
  /\ cur # None => cur \notin restartClosed \cup doneClosed
  /\ \A s \in Sessions : pc[s] = "closeDone" => s \notin doneClosed
  /\ \A s \in Sessions : pc[s] = "closeRestart" => s \notin restartClosed

\* Every FFmpeg whose pid was written is named by the pid file until it is gone,
\* through any crash, so the next boot has what it takes to reap it.  Only a boot
\* that could not read the file, or cleared it for a process it did not recognise
\* or did not see die, leaves one behind; those started since are still named.
RecordedEncoderIsFound ==
  \A s \in recorded :
    pid[s] \in live => /\ pid[s] \notin stray => pidfile = pid[s]
                       /\ pid[s] \in stray => scan = "missed"

\* Starting, Running and Restarting are shown only while a session exists, so no
\* exit path leaves the dashboard live over nothing.
LiveStateHasSession == state \in {"starting", "running", "restarting"} => cur # None

\* The Supervisor implements the one-session lease: the FFmpeg that runs is one
\* (OneEncoder), and each step is one of the lease.
Encoder == IF live \ stray = {} THEN None ELSE CHOOSE p \in live \ stray : TRUE
Lease == INSTANCE EncoderLease WITH
           holder <- cur, encoder <- Encoder, spent <- 1..opened, host <- host
LeaseSpec == []OneEncoder /\ Lease!LeaseSpec

\* A Stop that has begun returns, however the destination, FFmpeg and the other
\* callers behave (unless EasyStream itself dies, which ends the call too).
StopReturns == \A c \in Callers : callPc[c] # "idle" ~> callPc[c] = "idle"

\* A restart request is not forgotten: it is received, or its session ends.
RestartIsServed == \A s \in Sessions : s \in queued /\ cur = s ~> s \notin queued \/ cur # s

\* supervisor.go:369: "2 consecutive fast deaths = destination is rejecting us";
\* a death that Restart asked for is no rejection.
RejectionIsGenuine == \A s \in Sessions : pc[s] = "reject" => cause[s] # "request"
=============================================================================
