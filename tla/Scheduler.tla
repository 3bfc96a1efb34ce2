------------------------------ MODULE Scheduler ------------------------------
(***************************************************************************)
(* internal/schedule/scheduler.go: the loop that ticks every second and    *)
(* takes each occurrence through prepare, preroll, live and stop, with the *)
(* Store it persists to.  The loop holds s.mu only for short segments: the *)
(* operator's StopActive and Extend, the edits of schedules and the crash  *)
(* of the host fall between any two of its steps, and every YouTube call   *)
(* and every save may fail.  An action is one critical section of s.mu or  *)
(* of the Store, or one call of a controller.                              *)
(*                                                                         *)
(* The stream itself is one variable: what StartWithIngest and StopStream  *)
(* do to it is in module Supervisor.  Stream resources (as opposed to      *)
(* broadcasts), the testing-live transition, titles, presets and lastError *)
(* are left out.                                                           *)
(*                                                                         *)
(* ForgetNothing, DelayUncapped and GateUnlocked are plausible slips, not  *)
(* part of the specification: they show what a property guards.            *)
(***************************************************************************)
EXTENDS ScheduleStore, FiniteSets

CONSTANTS
  Operators,       \* goroutines that serve Stop requests
  Loop,            \* the scheduler's own goroutine
  NoEvent,
  Preroll,         \* how long before its start an occurrence goes on air
  MaxPrepLead,
  BackoffUnit,     \* 5 s, doubled at most BackoffSteps (6) times,
  BackoffSteps,    \* up to BackoffCap (5 min)
  BackoffCap,
  MaxTime,         \* bound: time stops there
  MaxBroadcasts,   \* bound: broadcasts YouTube ever creates
  MaxExtend,       \* bound: total extension granted to an occurrence
  MaxUpsets        \* bound: edits, crashes, failed, restarting and manual streams, together

ASSUME SchedulerAssumption ==
  /\ Loop \notin Operators
  /\ NoEvent \notin Events
  /\ {Preroll, MaxPrepLead, BackoffSteps, MaxTime, MaxBroadcasts, MaxExtend, MaxUpsets} \subseteq Nat
  /\ BackoffUnit \in Nat \ {0}
  /\ BackoffCap \in Nat \ {0}

\* The doubled delays are numbers: arithmetic that TLC evaluates and the provers do
\* not know.
ASSUME DelayAssumption == \A n \in 0..BackoffSteps : BackoffUnit * 2^n \in Nat

Processes == Operators \cup {Loop}
Broadcasts == 1..MaxBroadcasts
Off == 0
Manual == MaxBroadcasts + 1   \* a stream the scheduler did not start

VARIABLES
  now,       \* the wall clock
  active,    \* s.activeEvent
  activeB,   \* s.activeBroadcast
  extra,     \* s.extraMinutes
  tries,     \* prepFailures: tries[e] failures in a row (as far as they count),
  nextTry,   \* and no attempt before nextTry[e] has passed
  cached,    \* keys of s.ingestCache
  mem,       \* the Store in memory
  disk,      \* the Store's file
  stream,    \* Off, Manual or the broadcast FFmpeg pushes to
  made,      \* made[b]: the occurrence broadcast b was created for, or NoEvent
  pc,        \* pc[p]: where process p is
  at,        \* the loop: `now` of this tick,
  todo,      \* what is left of the NextEvents snapshot,
  seen,      \* its BroadcastIDs,
  cur,       \* the occurrence in advanceEvent,
  bid,       \* and its BroadcastID
  taken,     \* taken[p]: the event p's stopActiveEvent found active, and its end
  upsets,    \* how many of these so far
  lost,      \* history: how often the broadcast of e was given up or forgotten
  final      \* history: occurrences an operator stopped while no tick had them in hand

runtime == <<active, activeB, extra>>
backoff == <<tries, nextTry>>
tick == <<at, todo, seen, cur, bid>>
history == <<lost, final>>
vars == <<now, runtime, backoff, cached, mem, disk, stream, made, pc, tick, taken, upsets, history>>

Nobody == [event |-> NoEvent, until |-> 0]

Init ==
  /\ now = 0
  /\ active = NoEvent /\ activeB = NoBroadcast /\ extra = 0
  /\ tries = [e \in Events |-> 0]
  /\ nextTry = [e \in Events |-> 0]
  /\ cached = {}
  /\ mem = Loaded(Events)
  /\ disk = mem
  /\ stream = Off
  /\ made = [b \in Broadcasts |-> NoEvent]
  /\ pc = [p \in Processes |-> "idle"]
  /\ at = 0 /\ todo = {} /\ seen = mem.mapped /\ cur = NoEvent /\ bid = NoBroadcast
  /\ taken = [p \in Processes |-> Nobody]
  /\ upsets = 0
  /\ lost = [e \in Events |-> 0]
  /\ final = {}

Goto(p, point) == pc' = [pc EXCEPT ![p] = point]

\* Every Store method changes memory first; a failed save leaves the file behind.
Save(st, ok) ==
  /\ mem' = st
  /\ disk' = IF ok THEN st ELSE disk
-----------------------------------------------------------------------------
(* tick: end the active event *)

PastEnd(e, more, t) == t > End(e) + more

\* A tick starts: one critical section reads the active event.
TickBegin ==
  /\ pc[Loop] = "idle"
  /\ at' = now
  /\ Goto(Loop, IF active # NoEvent /\ PastEnd(active, extra, now) THEN "halt" ELSE "look")
  /\ UNCHANGED <<now, runtime, backoff, cached, mem, disk, stream, made, todo, seen, cur, bid, taken,
                 upsets, history>>

-----------------------------------------------------------------------------
(* stopActiveEvent, run by the loop (not suppressing) or by StopActive of an *)
(* operator (suppressing), whose handleStop stops the Supervisor once more   *)

\* Where p goes on from stopActiveEvent.
Onward(p) == IF p = Loop THEN "look" ELSE "quench"

StopActive(o) ==
  /\ pc[o] = "idle"
  /\ Goto(o, "halt")
  /\ UNCHANGED <<now, runtime, backoff, cached, mem, disk, stream, made, tick, taken, upsets, history>>

\* StopStream: returns once FFmpeg is gone.
StopStream(p) ==
  /\ pc[p] = "halt"
  /\ stream' = Off
  /\ Goto(p, "forget")
  /\ UNCHANGED <<now, runtime, backoff, cached, mem, disk, made, tick, taken, upsets, history>>

\* The second critical section: whatever is active now is forgotten, which
\* need not be what was active in the first.
ForgetNothing(p) ==
  /\ pc[p] = "forget"
  /\ taken' = [taken EXCEPT ![p] = IF active = NoEvent THEN Nobody
                                   ELSE [event |-> active, until |-> End(active) + extra]]
  /\ Goto(p, IF active = NoEvent THEN Onward(p) ELSE "settle")
  /\ UNCHANGED <<now, runtime, backoff, cached, mem, disk, stream, made, tick, upsets, history>>

Forget(p) ==
  /\ pc[p] = "forget"
  /\ taken' = [taken EXCEPT ![p] = IF active = NoEvent THEN Nobody
                                   ELSE [event |-> active, until |-> End(active) + extra]]
  /\ Goto(p, IF active = NoEvent THEN Onward(p) ELSE "settle")
  /\ active' = NoEvent
  /\ activeB' = NoBroadcast
  /\ extra' = 0
  /\ UNCHANGED <<now, backoff, cached, mem, disk, stream, made, tick, upsets, history>>

\* The occurrences the loop has in hand: a stop cannot take them from it.
InHand == todo \cup {cur} \cup {made[b] : b \in Broadcasts \cap {stream}}

\* The ingest is dropped and the Store told: an operator's stop suppresses the
\* rest of the window, the loop's own stop only drops the broadcast.
Settle(p, ok) ==
  LET e == taken[p].event
  IN /\ pc[p] = "settle"
     /\ cached' = cached \ {e}
     /\ IF p = Loop
          THEN /\ Save(ClearBroadcast(mem, e), ok)
               /\ UNCHANGED final
          ELSE /\ Save(SkipEvent(mem, e, taken[p].until), ok)
               /\ final' = IF e \in InHand THEN final ELSE final \cup {e}
     /\ taken' = [taken EXCEPT ![p] = Nobody]
     /\ Goto(p, Onward(p))
     /\ UNCHANGED <<now, runtime, backoff, stream, made, tick, upsets, lost>>

\* handleStop's own supervisor.Stop ends whatever streams by then.
SupervisorStop(o) ==
  /\ pc[o] = "quench"
  /\ stream' = Off
  /\ Goto(o, "idle")
  /\ UNCHANGED <<now, runtime, backoff, cached, mem, disk, made, tick, taken, upsets, history>>

\* Extend pushes the end of the active event out.
Extend ==
  /\ active # NoEvent
  /\ extra < MaxExtend
  /\ extra' = extra + 1
  /\ UNCHANGED <<now, active, activeB, backoff, cached, mem, disk, stream, made, pc, tick, taken,
                 upsets, history>>

-----------------------------------------------------------------------------
(* tick: drive the upcoming events *)

\* Not authenticated: the tick ends.
LookAway ==
  /\ pc[Loop] = "look"
  /\ Goto(Loop, "idle")
  /\ UNCHANGED <<now, runtime, backoff, cached, mem, disk, stream, made, tick, taken, upsets, history>>

\* NextEvents: one critical section of the Store, a snapshot for the whole tick.
Look ==
  /\ pc[Loop] = "look"
  /\ todo' = NextEvents(mem, at)
  /\ seen' = mem.mapped
  /\ Goto(Loop, "next")
  /\ UNCHANGED <<now, runtime, backoff, cached, mem, disk, stream, made, at, cur, bid, taken, upsets,
                 history>>

\* eventPrepLead clamps what is in the file.
PrepLead(e) == IF Lead[e] <= 0 THEN 0 ELSE IF Lead[e] > MaxPrepLead THEN MaxPrepLead ELSE Lead[e]

PrepDue(e) == at >= Start[e] - PrepLead(e) /\ at < End(e)
PrerollDue(e) == at >= Start[e] - Preroll /\ at < End(e)

\* canTryPrep: no failure, or its delay has passed by now (not by the tick's now).
CanTryPrep(e) == tries[e] = 0 \/ now > nextTry[e]

\* advanceEvent for the next occurrence by start time.
Advance(e) ==
  /\ pc[Loop] = "next"
  /\ e \in todo
  /\ \A f \in todo : Start[e] <= Start[f]
  /\ todo' = todo \ {e}
  /\ LET point == CASE seen[e] = NoBroadcast /\ PrepDue(e) /\ CanTryPrep(e) -> "prepare"
                    [] seen[e] # NoBroadcast /\ PrerollDue(e) -> "gate"
                    [] OTHER -> "next"
     IN /\ Goto(Loop, point)
        /\ cur' = IF point = "next" THEN NoEvent ELSE e
        /\ bid' = IF point = "next" THEN NoBroadcast ELSE seen[e]
  /\ UNCHANGED <<now, runtime, backoff, cached, mem, disk, stream, made, at, seen, taken, upsets, history>>

TickEnd ==
  /\ pc[Loop] = "next"
  /\ todo = {}
  /\ seen' = [e \in Events |-> NoBroadcast]
  /\ at' = 0
  /\ Goto(Loop, "idle")
  /\ UNCHANGED <<now, runtime, backoff, cached, mem, disk, stream, made, todo, cur, bid, taken, upsets,
                 history>>

\* The loop is done with this occurrence and takes the next one.
Leave ==
  /\ Goto(Loop, "next")
  /\ cur' = NoEvent
  /\ bid' = NoBroadcast
  /\ UNCHANGED <<at, todo, seen>>

Stay == UNCHANGED <<at, todo, seen, cur>>

\* 5 s, 10 s, 20 s, ... up to the cap, for the n-th failure in a row.
DelayUncapped(n) == BackoffUnit * 2^(n - 1)

Delay(n) ==
  LET doubled == BackoffUnit * 2^(n - 1)
  IN IF doubled > BackoffCap THEN BackoffCap ELSE doubled

RecordPrepFailure(e) ==
  LET n == IF tries[e] > BackoffSteps THEN tries[e] ELSE tries[e] + 1
  IN /\ tries' = [tries EXCEPT ![e] = n]
     /\ nextTry' = [nextTry EXCEPT ![e] = now + Delay(n)]

-----------------------------------------------------------------------------
(* Phase 1: prepare *)

\* The preflight or CreateBroadcast fails: nothing was created.
PrepareFails ==
  /\ pc[Loop] = "prepare"
  /\ RecordPrepFailure(cur)
  /\ Leave
  /\ UNCHANGED <<now, runtime, cached, mem, disk, stream, made, taken, upsets, history>>

\* CreateBroadcast makes a broadcast on the channel ...
Create(b) ==
  /\ pc[Loop] = "prepare"
  /\ made[b] = NoEvent
  /\ \A a \in Broadcasts : made[a] = NoEvent => b <= a
  /\ made' = [made EXCEPT ![b] = cur]

\* ... and CreateBoundStream fails: that broadcast is never looked at again ...
BindFails(b) ==
  /\ Create(b)
  /\ RecordPrepFailure(cur)
  /\ lost' = [lost EXCEPT ![cur] = @ + 1]
  /\ Leave
  /\ UNCHANGED <<now, runtime, cached, mem, disk, stream, taken, upsets, final>>

\* ... or succeeds, and its id is ready to be stored.
Prepare(b) ==
  /\ Create(b)
  /\ bid' = b
  /\ Goto(Loop, "persist")
  /\ Stay
  /\ UNCHANGED <<now, runtime, backoff, cached, mem, disk, stream, taken, upsets, history>>

\* SetBroadcastID; a failed save ends the attempt with memory already changed and
\* no backoff, otherwise the event goes on to phase 2.
Persist(ok) ==
  /\ pc[Loop] = "persist"
  /\ Save(SetBroadcastID(mem, cur, bid), ok)
  /\ IF ok THEN /\ cached' = cached \cup {cur}
                /\ tries' = [tries EXCEPT ![cur] = 0]
                /\ nextTry' = [nextTry EXCEPT ![cur] = 0]
           ELSE UNCHANGED <<cached, backoff>>
  /\ IF ok /\ PrerollDue(cur) THEN Goto(Loop, "gate") /\ Stay /\ UNCHANGED bid ELSE Leave
  /\ UNCHANGED <<now, runtime, stream, made, taken, upsets, history>>

-----------------------------------------------------------------------------
(* Phase 2: preroll and goLive *)

\* Nothing happens while an event is active or FFmpeg is streaming.
GateUnlocked == TRUE

GateOpen == active = NoEvent

\* IsStreaming does not see a stream whose FFmpeg is being restarted.
Unseen == stream # Off /\ upsets < MaxUpsets /\ upsets' = upsets + 1

Gate(pass) ==
  /\ pc[Loop] = "gate"
  /\ \/ /\ pass /\ GateOpen
        /\ (stream = Off /\ UNCHANGED upsets) \/ Unseen
        /\ Goto(Loop, "live") /\ Stay /\ UNCHANGED bid
     \/ /\ ~pass /\ (active # NoEvent \/ stream # Off)
        /\ Leave /\ UNCHANGED upsets
  /\ UNCHANGED <<now, runtime, backoff, cached, mem, disk, stream, made, taken, history>>

\* goLive: the preflight fails, or there is no cached ingest and the stream
\* cannot be made again; only the former counts as a failure.
LiveFails(preflight) ==
  /\ pc[Loop] = "live"
  /\ IF preflight THEN RecordPrepFailure(cur) ELSE cur \notin cached /\ UNCHANGED backoff
  /\ Leave
  /\ UNCHANGED <<now, runtime, cached, mem, disk, stream, made, taken, upsets, history>>

\* The ingest is cached, or (it is not on disk) made again and bound.
FindIngest ==
  /\ pc[Loop] = "live"
  /\ Goto(Loop, IF cur \in cached THEN "start" ELSE "repersist")
  /\ Stay
  /\ UNCHANGED <<now, runtime, backoff, cached, mem, disk, stream, made, bid, taken, upsets, history>>

Repersist(ok) ==
  /\ pc[Loop] = "repersist"
  /\ Save(SetBroadcastID(mem, cur, bid), ok)
  /\ IF ok THEN Goto(Loop, "start") /\ Stay /\ UNCHANGED bid /\ cached' = cached \cup {cur}
           ELSE Leave /\ UNCHANGED cached
  /\ UNCHANGED <<now, runtime, backoff, stream, made, taken, upsets, history>>

\* StartWithIngest fails while a session exists, or for its own reasons.
StartFails ==
  /\ pc[Loop] = "start"
  /\ Leave
  /\ UNCHANGED <<now, runtime, backoff, cached, mem, disk, stream, made, taken, upsets, history>>

StartWithIngest ==
  /\ pc[Loop] = "start"
  /\ stream = Off
  /\ stream' = bid
  /\ Goto(Loop, "onair")
  /\ Stay
  /\ UNCHANGED <<now, runtime, backoff, cached, mem, disk, made, bid, taken, upsets, history>>

\* Only now is the event recorded as active.
SetActive ==
  /\ pc[Loop] = "onair"
  /\ active' = cur
  /\ activeB' = bid
  /\ Leave
  /\ UNCHANGED <<now, extra, backoff, cached, mem, disk, stream, made, taken, upsets, history>>

-----------------------------------------------------------------------------
(* Everybody else *)

\* An operator edits, disables or deletes a schedule; a deleted mapping is a
\* broadcast nobody will complete, and a dropped suppression re-arms the occurrence.
Edit(id, occurrences, ok) ==
  /\ upsets < MaxUpsets
  /\ upsets' = upsets + 1
  /\ Save(Replace(mem, id, occurrences), ok)
  /\ lost' = [e \in Events |->
                IF Owner[e] = id /\ (mem.mapped[e] # NoBroadcast \/ mem.skip[e] # Never)
                  THEN lost[e] + 1 ELSE lost[e]]
  /\ final' = {e \in final : Owner[e] # id}
  /\ UNCHANGED <<now, runtime, backoff, cached, stream, made, pc, tick, taken>>

\* The operator starts a stream by hand (handleStart).
StartByHand ==
  /\ upsets < MaxUpsets
  /\ upsets' = upsets + 1
  /\ stream = Off
  /\ stream' = Manual
  /\ UNCHANGED <<now, runtime, backoff, cached, mem, disk, made, pc, tick, taken, history>>

\* The Supervisor gives up (Failed).
StreamFails ==
  /\ upsets < MaxUpsets
  /\ upsets' = upsets + 1
  /\ stream # Off
  /\ stream' = Off
  /\ UNCHANGED <<now, runtime, backoff, cached, mem, disk, made, pc, tick, taken, history>>

\* The host dies and boots: memory is what the file says, and the stream is
\* resumed or not; the scheduler knows nothing of a stream that was.
CrashAndBoot(resumed) ==
  /\ upsets < MaxUpsets
  /\ upsets' = upsets + 1
  /\ active' = NoEvent /\ activeB' = NoBroadcast /\ extra' = 0
  /\ tries' = [e \in Events |-> 0]
  /\ nextTry' = [e \in Events |-> 0]
  /\ cached' = {}
  /\ mem' = disk
  /\ stream' = IF resumed THEN stream ELSE Off
  /\ pc' = [p \in Processes |-> "idle"]
  /\ at' = 0 /\ todo' = {} /\ seen' = [e \in Events |-> NoBroadcast] /\ cur' = NoEvent /\ bid' = NoBroadcast
  /\ taken' = [p \in Processes |-> Nobody]
  /\ lost' = [e \in Events |->
                IF \/ e = cur /\ pc[Loop] = "persist"
                   \/ /\ mem.mapped[e] # NoBroadcast \/ mem.skip[e] # Never
                      /\ disk.mapped[e] = NoBroadcast /\ disk.skip[e] = Never
                  THEN lost[e] + 1 ELSE lost[e]]
  /\ final' = {e \in final : disk.skip[e] # Never}
  /\ UNCHANGED <<now, disk, made>>

TimePasses ==
  /\ now < MaxTime
  /\ now' = now + 1
  /\ UNCHANGED <<runtime, backoff, cached, mem, disk, stream, made, pc, tick, taken, upsets, history>>

-----------------------------------------------------------------------------
(* The specification *)

StopSteps(p) ==
  \/ StopStream(p)
  \/ \E ok \in BOOLEAN : Settle(p, ok)
  \/ Forget(p)

LoopStep ==
  \/ TickBegin \/ StopSteps(Loop) \/ LookAway \/ Look
  \/ \E e \in Events : Advance(e)
  \/ TickEnd \/ PrepareFails
  \/ \E b \in Broadcasts : BindFails(b) \/ Prepare(b)
  \/ \E ok \in BOOLEAN : Persist(ok) \/ Gate(ok) \/ LiveFails(ok) \/ Repersist(ok)
  \/ FindIngest \/ StartFails \/ StartWithIngest \/ SetActive

Next ==
  \/ LoopStep
  \/ \E o \in Operators : StopActive(o) \/ StopSteps(o) \/ SupervisorStop(o)
  \/ Extend
  \/ \E id \in Owners : \E occurrences \in SUBSET {e \in Events : Owner[e] = id}, ok \in BOOLEAN :
       Edit(id, occurrences, ok)
  \/ StartByHand \/ StreamFails
  \/ \E resumed \in BOOLEAN : CrashAndBoot(resumed)
  \/ TimePasses

Spec == Init /\ [][Next]_vars

\* The ticker fires and every call the loop makes returns (YouTube calls have
\* deadlines); time passes.  Nothing is assumed of operators or of success.
Fairness == WF_vars(LoopStep) /\ WF_vars(TimePasses)

FairSpec == Spec /\ Fairness

-----------------------------------------------------------------------------
(* Properties *)

Points == {"idle", "halt", "forget", "settle", "quench", "look", "next", "prepare", "persist", "gate", "live",
           "repersist", "start", "onair"}

Times == 0..(MaxTime + BackoffCap)

\* The types of every variable; in particular no backoff exceeds its cap.
TypeOK ==
  /\ now \in 0..MaxTime
  /\ active \in Events \cup {NoEvent}
  /\ activeB \in Broadcasts \cup {NoBroadcast}
  /\ extra \in 0..MaxExtend
  /\ tries \in [Events -> 0..(BackoffSteps + 1)]
  /\ nextTry \in [Events -> Times]
  /\ cached \subseteq Events
  /\ mem \in Stores(Broadcasts, Nat)
  /\ disk \in Stores(Broadcasts, Nat)
  /\ stream \in Broadcasts \cup {Off, Manual}
  /\ made \in [Broadcasts -> Events \cup {NoEvent}]
  /\ pc \in [Processes -> Points]
  /\ at \in 0..MaxTime
  /\ todo \subseteq Events
  /\ seen \in [Events -> Broadcasts \cup {NoBroadcast}]
  /\ cur \in Events \cup {NoEvent}
  /\ bid \in Broadcasts \cup {NoBroadcast}
  /\ taken \in [Processes -> [event : Events \cup {NoEvent}, until : Nat]]
  /\ upsets \in 0..MaxUpsets
  /\ lost \in [Events -> Nat]
  /\ final \subseteq Events

\* An occurrence is prepared once: a second broadcast appears on the channel only
\* after a failed bind, an edit, or a crash that found the mapping unsaved.
OneBroadcastPerOccurrence ==
  \A e \in Events : Cardinality({b \in Broadcasts : made[b] = e}) <= 1 + lost[e]

\* The broadcast recorded for an occurrence, in memory, on disk or in the tick's
\* snapshot, was created for it: an id never leaks to another service.
MappingIsOwn ==
  \A e \in Events : \A b \in {mem.mapped[e], disk.mapped[e], seen[e]} :
    b # NoBroadcast => made[b] = e

\* A scheduled broadcast on air is that of the active event, so the end of one
\* service never cuts off another and two events never share the encoder.
OnAirIsActive ==
  active # NoEvent /\ stream \in Broadcasts => stream = activeB /\ made[stream] = active

\* An operator's stop is final for its occurrence: unless the tick that is under
\* way has it in hand, it is not on air again in its window, whatever ticks,
\* restarts of the host and other events follow, until its schedule is edited.
QuietStopIsFinal ==
  \A e \in final : stream \in Broadcasts => made[stream] # e

\* store.go:373-375 (and scheduler_test.go:363): a stopped occurrence is
\* suppressed until its window ends and not restarted by the scheduler: it does
\* not stream while no Stop is under way.
StoppedStaysStopped ==
  (\A o \in Operators : pc[o] = "idle") /\ stream \in Broadcasts => ~(mem.skip[made[stream]] > now)

\* Every event that went live ends: the loop stops it once it is past its end,
\* extensions included, however often YouTube, saves and preflights fail.
EventEnds == \A e \in Events : active = e ~> active # e
=============================================================================
