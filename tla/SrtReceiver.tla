----------------------------- MODULE SrtReceiver -----------------------------
(***************************************************************************)
(* internal/ingest/srt.go: the Receiver that keeps one FFmpeg listening    *)
(* for SRT while the source is an SRT listener.  Apply (from concurrent    *)
(* config updates, and from Close) tears the previous run loop down and    *)
(* starts another; a loop spawns FFmpeg, waits for it, and tries again     *)
(* after a backoff until its context is cancelled.  The goroutines that    *)
(* read FFmpeg's progress and watch for a stale peer write the same        *)
(* status.  One action per critical section of r.mu, channel operation or  *)
(* process event.                                                          *)
(*                                                                         *)
(* Left out: durations, fps and bitrate, the port and LastError of the     *)
(* status, and the onChange callback, which only publishes.                *)
(*                                                                         *)
(* ApplyBeginUnchecked, ApplyWaitNot, ApplyStartForgets, WaitedAtOnce,     *)
(* JoinedWithoutWatchdog and KillNever are plausible slips, not part of    *)
(* the specification: they show what a property guards.                    *)
(***************************************************************************)
EXTENDS Integers, FiniteSets

CONSTANTS
  Callers,     \* goroutines that call Apply
  Configs,     \* desired configurations with a port
  NoConfig,    \* the one without: no receiver wanted
  MaxApplies,  \* bound: Apply calls that change something
  MaxSpawns    \* bound: FFmpegs launched

ASSUME ReceiverAssumption ==
  /\ NoConfig \notin Configs
  /\ MaxApplies \in Nat
  /\ MaxSpawns \in Nat

Loops == 1..MaxApplies
None == 0

LoopPCs == {"new", "check", "begin", "spawn", "run", "drain", "exited", "fail", "backoff",
            "leave", "close", "ended"}

VARIABLES
  current,     \* r.current
  handle,      \* the loop that r.runCancel and r.runDone belong to, or None (nil)
  state,       \* r.status.State
  peer,        \* r.status.PeerConnected
  cancelled,   \* loops whose context is cancelled
  ended,       \* loops whose done channel is closed
  pc,          \* pc[l]: where run loop l is
  want,        \* want[l]: the configuration of run loop l
  running,     \* loops whose FFmpeg runs
  watch,       \* watch[l]: "stale" between the watchdog's look and its publication
  callPc,      \* callPc[c]: where caller c is in Apply
  arg,         \* arg[c]: the configuration it applies
  prev,        \* prev[c]: the loop it tears down, or None
  begun,       \* Apply calls so far,
  opened,      \* the loops they started,
  spawned,     \* and the FFmpegs launched
  overlapped   \* history: two Apply calls have overlapped

status == <<state, peer>>
owner == <<current, handle>>
loops == <<cancelled, ended, pc, want, running, watch, spawned>>
calls == <<callPc, arg, prev, begun, opened, overlapped>>
vars == <<status, owner, loops, calls>>

Init ==
  /\ current = NoConfig
  /\ handle = None
  /\ state = "idle" /\ peer = FALSE
  /\ cancelled = {} /\ ended = {}
  /\ pc = [l \in Loops |-> "new"]
  /\ want = [l \in Loops |-> NoConfig]
  /\ running = {}
  /\ watch = [l \in Loops |-> "idle"]
  /\ callPc = [c \in Callers |-> "idle"]
  /\ arg = [c \in Callers |-> NoConfig]
  /\ prev = [c \in Callers |-> None]
  /\ begun = 0 /\ opened = 0 /\ spawned = 0
  /\ overlapped = FALSE

Goto(l, point) == pc' = [pc EXCEPT ![l] = point]
Step(c, point) == callPc' = [callPc EXCEPT ![c] = point]

\* setStatus replaces the whole snapshot.
SetStatus(s, connected) == state' = s /\ peer' = connected
-----------------------------------------------------------------------------
(* Apply *)

\* The first critical section takes the handle; the same configuration while a
\* loop holds it is a no-op, which changes nothing.
ApplyBeginUnchecked(c, cfg) ==
  /\ callPc[c] = "idle"
  /\ begun < MaxApplies
  /\ ~(handle # None /\ current = cfg)
  /\ begun' = begun + 1
  /\ overlapped' = (overlapped \/ \E d \in Callers : callPc[d] # "idle")
  /\ arg' = [arg EXCEPT ![c] = cfg]
  /\ prev' = [prev EXCEPT ![c] = handle]
  /\ handle' = None
  /\ Step(c, "cancel")
  /\ UNCHANGED <<status, current, loops, opened>>

ApplyBegin(c, cfg) ==
  /\ callPc[c] = "idle"
  /\ begun < MaxApplies
  /\ ~(handle # None /\ current = cfg)
  /\ begun' = begun + 1
  /\ overlapped' = (overlapped \/ \E d \in Callers : callPc[d] # "idle")
  /\ arg' = [arg EXCEPT ![c] = cfg]
  /\ prev' = [prev EXCEPT ![c] = handle]
  /\ handle' = None
  /\ Step(c, IF handle = None THEN "set" ELSE "cancel")
  /\ UNCHANGED <<status, current, loops, opened>>

ApplyCancel(c) ==
  /\ callPc[c] = "cancel"
  /\ cancelled' = cancelled \cup {prev[c]}
  /\ Step(c, "wait")
  /\ UNCHANGED <<status, owner, ended, pc, want, running, watch, spawned, arg, prev, begun, opened,
                 overlapped>>

ApplyWaitNot(c) ==
  /\ callPc[c] = "wait"
  /\ Step(c, "set")
  /\ UNCHANGED <<status, owner, loops, arg, prev, begun, opened, overlapped>>

ApplyWait(c) ==
  /\ callPc[c] = "wait"
  /\ prev[c] \in ended
  /\ Step(c, "set")
  /\ UNCHANGED <<status, owner, loops, arg, prev, begun, opened, overlapped>>

\* Nothing wanted: the status is set, then, in another critical section, current.
ApplyIdle(c) ==
  /\ callPc[c] = "set"
  /\ arg[c] = NoConfig
  /\ SetStatus("idle", FALSE)
  /\ Step(c, "clear")
  /\ UNCHANGED <<owner, loops, arg, prev, begun, opened, overlapped>>

ApplyClear(c) ==
  /\ callPc[c] = "clear"
  /\ current' = NoConfig
  /\ Step(c, "idle")
  /\ prev' = [prev EXCEPT ![c] = None]
  /\ UNCHANGED <<status, handle, loops, arg, begun, opened, overlapped>>

\* Otherwise a new loop takes the handle, whoever has it by now.
ApplyStartForgets(c) ==
  /\ callPc[c] = "set"
  /\ arg[c] # NoConfig
  /\ opened' = opened + 1
  /\ handle' = opened + 1
  /\ want' = [want EXCEPT ![opened + 1] = arg[c]]
  /\ Goto(opened + 1, "check")
  /\ Step(c, "idle")
  /\ arg' = [arg EXCEPT ![c] = NoConfig]
  /\ prev' = [prev EXCEPT ![c] = None]
  /\ UNCHANGED <<status, current, cancelled, ended, running, watch, spawned, begun, overlapped>>

ApplyStart(c) ==
  /\ callPc[c] = "set"
  /\ arg[c] # NoConfig
  /\ opened' = opened + 1
  /\ handle' = opened + 1
  /\ current' = arg[c]
  /\ want' = [want EXCEPT ![opened + 1] = arg[c]]
  /\ Goto(opened + 1, "check")
  /\ Step(c, "idle")
  /\ arg' = [arg EXCEPT ![c] = NoConfig]
  /\ prev' = [prev EXCEPT ![c] = None]
  /\ UNCHANGED <<status, cancelled, ended, running, watch, spawned, begun, overlapped>>

-----------------------------------------------------------------------------
(* runLoop and runOnce *)

\* The loop's checks of its context: at its top, after FFmpeg, in the backoff.
Check(l) ==
  /\ pc[l] = "check"
  /\ Goto(l, IF l \in cancelled THEN "leave" ELSE "begin")
  /\ UNCHANGED <<status, owner, cancelled, ended, want, running, watch, spawned, calls>>

Begin(l) ==
  /\ pc[l] = "begin"
  /\ SetStatus("starting", FALSE)
  /\ Goto(l, "spawn")
  /\ UNCHANGED <<owner, cancelled, ended, want, running, watch, spawned, calls>>

SpawnFails(l) ==
  /\ pc[l] = "spawn"
  /\ Goto(l, "exited")
  /\ UNCHANGED <<status, owner, cancelled, ended, want, running, watch, spawned, calls>>

\* exec.CommandContext refuses to start under a cancelled context.
Spawn(l) ==
  /\ pc[l] = "spawn"
  /\ l \notin cancelled
  /\ spawned < MaxSpawns
  /\ spawned' = spawned + 1
  /\ running' = running \cup {l}
  /\ Goto(l, "run")
  /\ UNCHANGED <<status, owner, cancelled, ended, want, watch, calls>>

\* FFmpeg exits by itself: no peer, port in use, a broken upstream.
FFmpegExits(l) ==
  /\ l \in running
  /\ running' = running \ {l}
  /\ UNCHANGED <<status, owner, cancelled, ended, pc, want, watch, spawned, calls>>

\* exec.CommandContext kills FFmpeg when the context is cancelled.
KillNever(l) == FALSE

Kill(l) ==
  /\ l \in running
  /\ l \in cancelled
  /\ running' = running \ {l}
  /\ UNCHANGED <<status, owner, cancelled, ended, pc, want, watch, spawned, calls>>

\* cmd.Wait returns.
WaitedAtOnce(l) ==
  /\ pc[l] = "run"
  /\ Goto(l, "drain")
  /\ UNCHANGED <<status, owner, cancelled, ended, want, running, watch, spawned, calls>>

Waited(l) ==
  /\ pc[l] = "run"
  /\ l \notin running
  /\ Goto(l, "drain")
  /\ UNCHANGED <<status, owner, cancelled, ended, want, running, watch, spawned, calls>>

\* parseProgress publishes a block: frames flow or they do not.
Progress(l, connected) ==
  /\ pc[l] \in {"run", "drain"}
  /\ SetStatus("running", connected)
  /\ UNCHANGED <<owner, loops, calls>>

\* republishIfPeerStale looks under the lock ...
WatchLook(l) ==
  /\ pc[l] \in {"run", "drain"}
  /\ watch[l] = "idle"
  /\ peer
  /\ watch' = [watch EXCEPT ![l] = "stale"]
  /\ UNCHANGED <<status, owner, cancelled, ended, pc, want, running, spawned, calls>>

\* ... and publishes after it, whatever the status is by then.
WatchPublish(l) ==
  /\ watch[l] = "stale"
  /\ watch' = [watch EXCEPT ![l] = "idle"]
  /\ SetStatus("running", FALSE)
  /\ UNCHANGED <<owner, cancelled, ended, pc, want, running, spawned, calls>>

\* progressDone, stderrDone and watchdogDone are closed, and runOnce returns.
JoinedWithoutWatchdog(l) ==
  /\ pc[l] = "drain"
  /\ Goto(l, "exited")
  /\ UNCHANGED <<status, owner, cancelled, ended, want, running, watch, spawned, calls>>

Joined(l) ==
  /\ pc[l] = "drain"
  /\ watch[l] = "idle"
  /\ Goto(l, "exited")
  /\ UNCHANGED <<status, owner, cancelled, ended, want, running, watch, spawned, calls>>

CheckAfter(l) ==
  /\ pc[l] = "exited"
  /\ Goto(l, IF l \in cancelled THEN "leave" ELSE "fail")
  /\ UNCHANGED <<status, owner, cancelled, ended, want, running, watch, spawned, calls>>

SetFailed(l) ==
  /\ pc[l] = "fail"
  /\ SetStatus("failed", FALSE)
  /\ Goto(l, "backoff")
  /\ UNCHANGED <<owner, cancelled, ended, want, running, watch, spawned, calls>>

\* The timer fires, or the context is cancelled during the wait.
Retry(l) ==
  /\ pc[l] = "backoff"
  /\ Goto(l, "check")
  /\ UNCHANGED <<status, owner, cancelled, ended, want, running, watch, spawned, calls>>

BackoffCancelled(l) ==
  /\ pc[l] = "backoff"
  /\ l \in cancelled
  /\ Goto(l, "leave")
  /\ UNCHANGED <<status, owner, cancelled, ended, want, running, watch, spawned, calls>>

Leave(l) ==
  /\ pc[l] = "leave"
  /\ SetStatus("idle", FALSE)
  /\ Goto(l, "close")
  /\ UNCHANGED <<owner, cancelled, ended, want, running, watch, spawned, calls>>

\* The deferred close(done).
CloseDone(l) ==
  /\ pc[l] = "close"
  /\ ended' = ended \cup {l}
  /\ Goto(l, "ended")
  /\ UNCHANGED <<status, owner, cancelled, want, running, watch, spawned, calls>>

-----------------------------------------------------------------------------
(* The specification *)

ApplyStep(c) == ApplyCancel(c) \/ ApplyWait(c) \/ ApplyIdle(c) \/ ApplyClear(c) \/ ApplyStart(c)

LoopStep(l) ==
  \/ Check(l) \/ Begin(l) \/ SpawnFails(l) \/ Spawn(l)
  \/ Kill(l) \/ Waited(l) \/ Joined(l) \/ CheckAfter(l) \/ SetFailed(l)
  \/ Retry(l) \/ BackoffCancelled(l) \/ Leave(l) \/ CloseDone(l)

Next ==
  \/ \E c \in Callers : \E cfg \in Configs \cup {NoConfig} : ApplyBegin(c, cfg)
  \/ \E c \in Callers : ApplyStep(c)
  \/ \E l \in Loops : \/ LoopStep(l) \/ FFmpegExits(l)
                      \/ \E connected \in BOOLEAN : Progress(l, connected)
                      \/ WatchLook(l) \/ WatchPublish(l)

Spec == Init /\ [][Next]_vars

\* Go runs every goroutine that can run, and SIGKILL ends FFmpeg.  Once it has
\* exited its output is finite and the watchdog cancelled, so that the join is not
\* put off forever.  FFmpeg may listen forever and need not report anything.
Fairness ==
  /\ \A c \in Callers : WF_vars(ApplyStep(c))
  /\ \A l \in Loops : WF_vars(LoopStep(l)) /\ WF_vars(WatchPublish(l)) /\ SF_vars(Joined(l))

FairSpec == Spec /\ Fairness

-----------------------------------------------------------------------------
(* Properties *)

\* The types of every variable; a caller that cancels or waits has a loop to cancel.
TypeOK ==
  /\ current \in Configs \cup {NoConfig}
  /\ handle \in Loops \cup {None}
  /\ state \in {"idle", "starting", "running", "failed"}
  /\ peer \in BOOLEAN
  /\ cancelled \subseteq Loops
  /\ ended \subseteq Loops
  /\ pc \in [Loops -> LoopPCs]
  /\ want \in [Loops -> Configs \cup {NoConfig}]
  /\ running \subseteq Loops
  /\ watch \in [Loops -> {"idle", "stale"}]
  /\ callPc \in [Callers -> {"idle", "cancel", "wait", "set", "clear"}]
  /\ arg \in [Callers -> Configs \cup {NoConfig}]
  /\ prev \in [Callers -> Loops \cup {None}]
  /\ begun \in 0..MaxApplies
  /\ opened \in 0..MaxApplies
  /\ spawned \in 0..MaxSpawns
  /\ overlapped \in BOOLEAN

\* As long as Apply calls come one after the other, the SRT port never has two
\* FFmpegs: Apply waits for the old loop, and the old loop for its FFmpeg.
OneReceiver == ~overlapped => Cardinality(running) <= 1

\* ... and between two of them, what runs is what was asked for: no loop for no
\* configuration, and a loop for `current` otherwise, so that the next Apply of
\* the same configuration may be a no-op.
ReceiverIsCurrent ==
  ~overlapped /\ (\A c \in Callers : callPc[c] = "idle")
    => IF current = NoConfig THEN handle = None /\ running = {}
       ELSE handle # None /\ want[handle] = current /\ running \subseteq {handle}

\* The loop that may use the port, from Apply's start to its close(done), and the
\* loop whose FFmpeg listens.
Only(S) == IF S = {} THEN None ELSE CHOOSE l \in S : TRUE
Lease == INSTANCE EncoderLease WITH
           Sessions <- Loops, Pids <- Loops,
           holder <- Only({l \in Loops : pc[l] \notin {"new", "ended"}}),
           encoder <- Only(running), spent <- 1..opened, host <- "up"

\* The SRT port is leased to one loop at a time, for as long as Apply calls come one
\* after the other: each step is one of the lease, so that a loop starts only once
\* the one before has ended, and ends only once its FFmpeg is gone.
PortLease ==
  /\ []OneReceiver
  /\ Lease!LeaseInit /\ [][Lease!LeaseNext \/ overlapped']_(Lease!leaseVars)

\* A closed done channel means that the loop's FFmpeg is gone, also when Apply
\* calls overlap: whoever waited for it may bind the port.
DoneMeansGone == ended \cap running = {}

\* The dashboard's status is honest, also when Apply calls overlap: idle once no
\* loop is left, and a connected encoder only while some FFmpeg is attended to;
\* no goroutine of an earlier attempt writes the status after it.
StatusFollowsLoops ==
  /\ (\A l \in Loops : pc[l] \in {"new", "ended"}) => state = "idle"
  /\ peer => \E l \in Loops : pc[l] \in {"run", "drain", "exited", "fail", "leave"}

\* Apply returns, whatever FFmpeg and the other callers do: a config update never
\* hangs the dashboard.
ApplyReturns == \A c \in Callers : callPc[c] # "idle" ~> callPc[c] = "idle"

\* srt.go:116-117, Apply blocks "to guarantee no two ffmpegs are ever fighting for
\* the same SRT port at once".
NoTwoReceivers == Cardinality(running) <= 1
=============================================================================
