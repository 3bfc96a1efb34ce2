---------------------------- MODULE StreamServer ----------------------------
(***************************************************************************)
(* internal/app: what the HTTP handlers, the scheduler's adapters, the     *)
(* testing-live transition and the resume at boot do to the state they     *)
(* share.  A request is a list of the calls it still has to make, todo[p]; *)
(* each call is one critical section and may be interleaved with those of  *)
(* the other requests.  Whether FFmpeg runs is one variable here (module   *)
(* Supervisor has the rest), and so is the scheduler's active event        *)
(* (module Scheduler).  YouTube is external: it accepts a transition or    *)
(* rejects it as the comments and reasons in the code say.                 *)
(*                                                                         *)
(* Health snapshots, stream resources, presets and HLS are left out.       *)
(***************************************************************************)
EXTENDS Integers, Sequences, FiniteSets

CONSTANTS
  Clients,         \* goroutines serving HTTP requests
  Loop,            \* the scheduler's goroutine
  Boot,            \* NewServer, up to resumeIfNeeded
  MaxBroadcasts,   \* bound: broadcasts ever created
  Scheduled,       \* those of them that belong to an occurrence
  Configured,      \* are there YouTube credentials?
  MaxRequests,     \* bound: requests of all clients
  MaxUpsets        \* bound: crashes, FFmpegs given up, failed YouTube calls and file writes

Broadcasts == 1..MaxBroadcasts
None == 0          \* no broadcast; as a destination, the one the operator typed in
Off == -1
Processes == Clients \cup {Loop, Boot}

ASSUME StreamServerAssumption ==
  /\ Loop \notin Clients /\ Boot \notin Clients /\ Loop # Boot
  /\ {MaxBroadcasts, MaxRequests, MaxUpsets} \subseteq Nat
  /\ Scheduled \subseteq 1..MaxBroadcasts
  /\ Configured \in BOOLEAN

VARIABLES
  stream,     \* Off, or the destination FFmpeg pushes to
  blocked,    \* the preview has yielded the camera
  config,     \* IngestURL and StreamName of s.config: whose they are
  activeB,    \* s.activeBroadcastID
  intent,     \* the intent file
  airing,     \* the scheduler's activeEvent: its broadcast, or None
  waiting,    \* occurrences that the scheduler has not finished with
  yt,         \* yt[b]: lifeCycleStatus of broadcast b
  phase,      \* phase[b]: where b's transition goroutine is
  cancelled,  \* goroutines whose context is cancelled
  handle,     \* s.transitionCancel: whose context it cancels
  ending,     \* broadcasts that handleStop's goroutines are completing
  todo,       \* todo[p]: the calls process p still has to make
  request,    \* request[p]: what p serves, or served last
  asked,      \* requests so far
  upsets,     \* upsets so far
  marred,     \* history: what went wrong in this behaviour: a start overlapped with
              \* another request (raced), found a stream on (refused) or took over from
              \* the scheduler's (overtaken), FFmpeg was given up (failed), a broadcast
              \* not completed (uncompleted), an intent not resumed (dropped) or not written
              \* or removed (unsaved), a transition given up (abandoned), the host went
              \* down (rebooted)
  raced       \* history: processes whose request overlapped with a starting one

server == <<config, activeB, intent>>
scheduler == <<airing, waiting>>
youtube == <<yt, ending>>
transition == <<phase, cancelled, handle>>
caller == <<request, asked, raced>>
vars == <<stream, blocked, server, scheduler, youtube, transition, todo, caller, upsets, marred>>

Intents == [mode : {"manual", "go-live-now", "scheduled"}, b : {None} \cup Broadcasts, to : {None} \cup Broadcasts]
NoIntent == [mode |-> "none", b |-> None, to |-> None]
Starting == {"manual", "go-live-now", "scheduled", "resume"}

Init ==
  /\ stream = Off /\ blocked = FALSE
  /\ config = None /\ activeB = None /\ intent = NoIntent
  /\ airing = None /\ waiting = Scheduled
  /\ yt = [b \in Broadcasts |-> "none"]
  /\ phase = [b \in Broadcasts |-> "none"] /\ cancelled = {} /\ handle = None
  /\ ending = {}
  /\ todo = [p \in Processes |-> <<>>]
  /\ request = [p \in Processes |-> "none"]
  /\ asked = 0 /\ upsets = 0
  /\ marred = {} /\ raced = {}
-----------------------------------------------------------------------------
(* Requests as lists of calls *)

Call(name, b) == [do |-> name, b |-> b]
Completing(b) == IF b = None THEN <<>> ELSE <<Call("complete", b)>>
Launching(b) == <<Call("cancel", None), Call("launch", b)>>

\* streamControllerAdapter.StopStream
StopStream == <<Call("halt", None), Call("unblock", None), Call("unmark", None), Call("disown", None)>>

\* stopActiveEvent: b is what was active in its first critical section.
StopActiveEvent(b) ==
  <<Call("cancelBroadcast", None)>> \o StopStream \o Completing(b) \o <<Call("forget", None)>>

\* What GoLiveNow does about the broadcast that is on: it tells the scheduler nothing.
Takeover(b) ==
  IF b = None THEN <<>>
  ELSE <<Call("halt", None), Call("unblock", None), Call("cancel", None), Call("complete", b),
         Call("disown", None), Call("unmark", None)>>

CompleteActiveKeepsIntent(b) ==
  <<Call("cancel", None), Call("halt", None), Call("unblock", None), Call("disown", None), Call("complete", b)>>

CompleteActive(b) ==
  <<Call("cancel", None), Call("halt", None), Call("unblock", None), Call("unmark", None),
    Call("disown", None), Call("complete", b)>>

StopRequest(b) ==
  <<Call("stopActive", None), Call("cancel", None), Call("halt", None), Call("unblock", None),
    Call("unmark", None), Call("detach", b)>>

\* The end of resumeIfNeeded
RelaunchNothing(i) == <<>>
Relaunching(i) == IF i.mode # "manual" /\ i.b # None THEN Launching(i.b) ELSE <<>>

Busy(p) == todo[p] # <<>>
Quiet == \A p \in Processes : ~Busy(p)
Doing(p, name) == Busy(p) /\ Head(todo[p]).do = name
Arg(p) == Head(todo[p]).b

\* At most MaxUpsets things go wrong; `kinds` is how a property excuses them.
Upset(kinds) ==
  /\ upsets < MaxUpsets
  /\ upsets' = upsets + 1
  /\ marred' = marred \cup kinds

\* p turns to a request; the histories record whether a starting one overlaps with it.
Begin(p, what, calls) ==
  LET others == {q \in Processes \ {p} : Busy(q)}
      over == {q \in others : what \in Starting \/ request[q] \in Starting}
  IN /\ ~Busy(p)
     /\ todo' = [todo EXCEPT ![p] = calls]
     /\ request' = [request EXCEPT ![p] = what]
     /\ raced' = IF over = {} THEN raced \ {p} ELSE raced \cup over \cup {p}
     /\ IF over = {} THEN UNCHANGED <<upsets, marred>> ELSE Upset({"raced"})

Return(p, calls) ==
  /\ todo' = [todo EXCEPT ![p] = calls]
  /\ request' = IF calls = <<>> THEN [request EXCEPT ![p] = "none"] ELSE request
  /\ raced' = IF calls = <<>> THEN raced \ {p} ELSE raced
  /\ UNCHANGED asked

Proceed(p) == Return(p, Tail(todo[p]))

-----------------------------------------------------------------------------
(* The requests *)

Asks(c) == asked < MaxRequests /\ ~Busy(Boot) /\ asked' = asked + 1 /\ c \in Clients

HandleStart(c) ==
  /\ Asks(c)
  /\ Begin(c, "manual", <<Call("block", None), Call("start", config), Call("mark", None)>>)
  /\ UNCHANGED <<stream, blocked, server, scheduler, youtube, transition>>

\* The operator types in a destination; a running stream keeps its own.
HandleConfigUpdate(c) ==
  /\ Asks(c)
  /\ config # None /\ config' = None
  /\ Begin(c, "none", <<>>)
  /\ UNCHANGED <<stream, blocked, activeB, intent, scheduler, youtube, transition>>

\* It takes the broadcast id before StopStream can clear it.
HandleStop(c) ==
  /\ Asks(c)
  /\ Begin(c, "stop", StopRequest(activeB))
  /\ activeB' = None
  /\ UNCHANGED <<stream, blocked, config, intent, scheduler, youtube, transition>>

HandleGoLiveNow(c) ==
  /\ Asks(c)
  /\ Configured
  /\ Begin(c, "go-live-now", Takeover(activeB) \o <<Call("create", None)>>)
  /\ UNCHANGED <<stream, blocked, server, scheduler, youtube, transition>>

HandleCompleteBroadcast(c) ==
  /\ Asks(c)
  /\ Configured
  /\ \E b \in Broadcasts :
       /\ yt[b] # "none"
       /\ Begin(c, "complete", IF b = activeB THEN CompleteActive(b) ELSE Completing(b))
  /\ UNCHANGED <<stream, blocked, server, scheduler, youtube, transition>>

\* An occurrence is due; the broadcast was made when it was prepared.  The
\* gate (no active event, no stream) is open now and need not be later on.  It
\* does not see a stream whose FFmpeg is being restarted: Start refuses then.
GoLive(b) ==
  /\ Configured
  /\ b \in waiting
  /\ airing = None
  /\ yt' = IF yt[b] = "none" THEN [yt EXCEPT ![b] = "bound"] ELSE yt
  /\ Begin(Loop, "scheduled", <<Call("adopt", b), Call("block", None), Call("start", b), Call("mark", b),
                                Call("air", b)>> \o Launching(b))
  /\ UNCHANGED <<stream, blocked, server, scheduler, ending, transition, asked>>

\* The active event is past its end.
EventEnds ==
  /\ airing # None
  /\ Begin(Loop, "end", StopActiveEvent(airing))
  /\ UNCHANGED <<stream, blocked, server, scheduler, youtube, transition, asked>>
-----------------------------------------------------------------------------
(* The calls *)

\* What a refused Start undoes depends on who asked, not on what is running.
Refusal(what) ==
  (IF what \in {"scheduled", "go-live-now"} THEN <<Call("disown", None)>> ELSE <<>>)
    \o <<Call("unblock", None)>>
    \o (IF what = "resume" THEN <<Call("unmark", None)>> ELSE <<>>)

Block(p) ==
  /\ Doing(p, "block")
  /\ blocked' = TRUE
  /\ Proceed(p)
  /\ UNCHANGED <<stream, server, scheduler, youtube, transition, upsets, marred>>

Unblock(p) ==
  /\ Doing(p, "unblock")
  /\ blocked' = FALSE
  /\ Proceed(p)
  /\ UNCHANGED <<stream, server, scheduler, youtube, transition, upsets, marred>>

Start(p) ==
  /\ Doing(p, "start")
  /\ stream = Off
  /\ stream' = Arg(p)
  /\ Proceed(p)
  /\ UNCHANGED <<blocked, server, scheduler, youtube, transition, upsets, marred>>

StartRefused(p) ==
  /\ Doing(p, "start")
  /\ stream # Off
  /\ marred' = marred \cup {"refused"}
  /\ Return(p, Refusal(request[p]))
  /\ UNCHANGED <<stream, blocked, server, scheduler, youtube, transition, upsets>>

\* supervisor.Stop returns once FFmpeg is gone.
Halt(p) ==
  /\ Doing(p, "halt")
  /\ stream' = Off
  /\ Proceed(p)
  /\ UNCHANGED <<blocked, server, scheduler, youtube, transition, upsets, marred>>

\* A failure to write or to remove the intent file is logged at most.
Record(i) ==
  \/ intent' = i /\ UNCHANGED <<upsets, marred>>
  \/ intent' = intent /\ Upset({"unsaved"})

\* markLive reads the configuration as it is by now.
MarkLive(p) ==
  /\ Doing(p, "mark")
  /\ Record([mode |-> request[p], b |-> Arg(p), to |-> config])
  /\ Proceed(p)
  /\ UNCHANGED <<stream, blocked, config, activeB, scheduler, youtube, transition>>

MarkIdle(p) ==
  /\ Doing(p, "unmark")
  /\ Record(NoIntent)
  /\ Proceed(p)
  /\ UNCHANGED <<stream, blocked, config, activeB, scheduler, youtube, transition>>

Adopt(p) ==
  /\ Doing(p, "adopt")
  /\ config' = Arg(p)
  /\ activeB' = Arg(p)
  /\ marred' = IF request[p] = "go-live-now" /\ airing # None THEN marred \cup {"overtaken"} ELSE marred
  /\ Proceed(p)
  /\ UNCHANGED <<stream, blocked, intent, scheduler, youtube, transition, upsets>>

Disown(p) ==
  /\ Doing(p, "disown")
  /\ activeB' = None
  /\ marred' = IF request[p] \in {"go-live-now", "complete"} /\ airing # None THEN marred \cup {"overtaken"} ELSE marred
  /\ Proceed(p)
  /\ UNCHANGED <<stream, blocked, config, intent, scheduler, youtube, transition, upsets>>

\* CreateBroadcast, CreateStreamForBroadcast and BindBroadcast for GoLiveNow
Create(p) ==
  /\ Doing(p, "create")
  /\ \E b \in Broadcasts \ Scheduled :
       /\ yt[b] = "none"
       /\ yt' = [yt EXCEPT ![b] = "bound"]
       /\ Return(p, <<Call("adopt", b), Call("block", None), Call("start", b), Call("mark", b)>> \o Launching(b))
  /\ UNCHANGED <<stream, blocked, server, scheduler, ending, transition, upsets, marred>>

CreateFails(p) ==
  /\ Doing(p, "create")
  /\ \/ Upset({})
     \/ /\ \A b \in Broadcasts \ Scheduled : yt[b] # "none"   \* the bound
        /\ UNCHANGED <<upsets, marred>>
  /\ Return(p, <<>>)
  /\ UNCHANGED <<stream, blocked, server, scheduler, youtube, transition>>

Ended(st) == IF st \in {"testing", "live"} THEN "complete" ELSE st

Complete(p) ==
  /\ Doing(p, "complete")
  /\ \/ yt' = [yt EXCEPT ![Arg(p)] = Ended(@)] /\ UNCHANGED <<upsets, marred>>
     \/ Upset({"uncompleted"}) /\ UNCHANGED yt
  /\ Proceed(p)
  /\ UNCHANGED <<stream, blocked, server, scheduler, ending, transition>>

DetachUnchecked(p) ==
  /\ Doing(p, "detach")
  /\ ending' = ending \cup {Arg(p)}
  /\ Proceed(p)
  /\ UNCHANGED <<stream, blocked, server, scheduler, yt, transition, upsets, marred>>

DetachLate(p) ==
  /\ Doing(p, "detach")
  /\ ending' = IF activeB = None THEN ending ELSE ending \cup {activeB}
  /\ Proceed(p)
  /\ UNCHANGED <<stream, blocked, server, scheduler, yt, transition, upsets, marred>>

\* handleStop's goroutine that completes the broadcast
Detach(p) ==
  /\ Doing(p, "detach")
  /\ ending' = IF Arg(p) = None THEN ending ELSE ending \cup {Arg(p)}
  /\ Proceed(p)
  /\ UNCHANGED <<stream, blocked, server, scheduler, yt, transition, upsets, marred>>

CompleteLater(b) ==
  /\ b \in ending
  /\ ending' = ending \ {b}
  /\ \/ yt' = [yt EXCEPT ![b] = Ended(@)] /\ UNCHANGED <<upsets, marred>>
     \/ Upset({"uncompleted"}) /\ UNCHANGED yt
  /\ UNCHANGED <<stream, blocked, server, scheduler, transition, todo, caller>>

\* StopActive, first critical section
StopActive(p) ==
  /\ Doing(p, "stopActive")
  /\ Return(p, StopActiveEvent(airing) \o Tail(todo[p]))
  /\ UNCHANGED <<stream, blocked, server, scheduler, youtube, transition, upsets, marred>>

\* Second critical section: whatever is active now
ForgetNothing(p) ==
  /\ Doing(p, "forget")
  /\ Proceed(p)
  /\ UNCHANGED <<stream, blocked, server, scheduler, youtube, transition, upsets, marred>>

Forget(p) ==
  /\ Doing(p, "forget")
  /\ airing' = None
  /\ waiting' = waiting \ {airing}
  /\ Proceed(p)
  /\ UNCHANGED <<stream, blocked, server, youtube, transition, upsets, marred>>

Air(p) ==
  /\ Doing(p, "air")
  /\ airing' = Arg(p)
  /\ Proceed(p)
  /\ UNCHANGED <<stream, blocked, server, waiting, youtube, transition, upsets, marred>>
-----------------------------------------------------------------------------
(* The transition goroutine *)

CancelTransition ==
  /\ cancelled' = cancelled \cup ({handle} \ ({None} \cup {b \in Broadcasts : phase[b]="done"}))
  /\ handle' = None
  /\ UNCHANGED phase

Cancel(p) ==
  /\ Doing(p, "cancel")
  /\ CancelTransition
  /\ Proceed(p)
  /\ UNCHANGED <<stream, blocked, server, scheduler, youtube, upsets, marred>>

\* The scheduler's CancelTransition goes through an interface that is nil
\* without credentials: the handler panics, and logRequests recovers.
CancelBroadcastOfNil(p) ==
  /\ Doing(p, "cancelBroadcast")
  /\ Return(p, <<>>)
  /\ UNCHANGED <<stream, blocked, server, scheduler, youtube, transition, upsets, marred>>

CancelBroadcast(p) ==
  /\ Doing(p, "cancelBroadcast")
  /\ IF Configured THEN CancelTransition /\ Proceed(p) ELSE Return(p, <<>>) /\ UNCHANGED transition
  /\ UNCHANGED <<stream, blocked, server, scheduler, youtube, upsets, marred>>

\* A goroutine that b had before has ended: it was cancelled.
Launch(p) ==
  /\ Doing(p, "launch")
  /\ phase[Arg(p)] \in {"none", "done"}
  /\ phase' = [phase EXCEPT ![Arg(p)] = "testing"]
  /\ cancelled' = cancelled \ {Arg(p)}
  /\ handle' = Arg(p)
  /\ Proceed(p)
  /\ UNCHANGED <<stream, blocked, server, scheduler, youtube, upsets, marred>>

GoOn(b, point) ==
  /\ phase' = [phase EXCEPT ![b] = point]
  /\ cancelled' = IF point = "done" THEN cancelled \ {b} ELSE cancelled
  /\ handle' = handle
  /\ UNCHANGED <<stream, blocked, server, scheduler, ending, todo, caller>>

Asked(st) == IF st = "testing" THEN "asked testing" ELSE "asked live"

\* WaitStreamActive returns (the stream is active, two minutes have passed, or
\* b is cancelled), or a delay is over: the checks, then a request is under way.
Attempt(b) ==
  /\ phase[b] \in {"testing", "live"}
  /\ GoOn(b, IF activeB = b /\ b \notin cancelled THEN Asked(phase[b]) ELSE "done")
  /\ UNCHANGED <<yt, upsets, marred>>

After(st) == IF st = "testing" THEN "live" ELSE "done"
Before(st) == IF st = "testing" THEN "bound" ELSE "testing"

Answer(b) ==
  \E st \in {"testing", "live"} :
    /\ phase[b] = Asked(st)
    /\ \/ /\ yt[b] = Before(st) /\ stream = b             \* accepted
          /\ yt' = [yt EXCEPT ![b] = st]
          /\ GoOn(b, After(st))
          /\ UNCHANGED <<upsets, marred>>
       \/ /\ yt[b] = st                                   \* redundantTransition
          /\ GoOn(b, After(st))
          /\ UNCHANGED <<yt, upsets, marred>>
       \/ /\ yt[b] = Before(st) /\ stream # b             \* no ingest: retried, a few times
          /\ \E point \in {st, "done"} : GoOn(b, point)
          /\ UNCHANGED <<yt, upsets, marred>>
       \/ /\ yt[b] \notin {Before(st), st}                \* invalidTransition
          /\ GoOn(b, "done")
          /\ UNCHANGED <<yt, upsets, marred>>
       \/ /\ b \in cancelled                              \* the context ended the call
          /\ GoOn(b, "done")
          /\ UNCHANGED <<yt, upsets, marred>>
       \/ /\ Upset({})                                    \* an error: retried,
          /\ GoOn(b, st)
          /\ UNCHANGED yt
       \/ /\ Upset({"abandoned"})                         \* unless it is one for good, or the last
          /\ GoOn(b, "done")
          /\ UNCHANGED yt
-----------------------------------------------------------------------------
(* What happens to the server *)

\* The Supervisor ends as Failed: nobody else is told.
FFmpegFails ==
  /\ stream # Off
  /\ Upset({"failed"})
  /\ stream' = Off
  /\ UNCHANGED <<blocked, server, scheduler, youtube, transition, todo, caller>>

\* Memory is lost, and the boot reaps FFmpeg.  The scheduler starts first,
\* then resumeIfNeeded; requests are served after that.
Crash ==
  /\ Upset({"rebooted"} \cup IF Quiet /\ ending = {} THEN {} ELSE {"uncompleted"})
  /\ stream' = Off /\ blocked' = FALSE
  /\ config' = None /\ activeB' = None
  /\ airing' = None
  /\ phase' = [b \in Broadcasts |-> "none"] /\ cancelled' = {} /\ handle' = None
  /\ ending' = {}
  /\ todo' = [p \in Processes |-> IF p = Boot /\ intent # NoIntent THEN <<Call("resume", None)>> ELSE <<>>]
  /\ request' = [p \in Processes |-> IF p = Boot THEN "resume" ELSE "none"]
  /\ raced' = {}
  /\ UNCHANGED <<intent, waiting, yt, asked>>

ResumeUnblocked(p) ==
  /\ Doing(p, "resume")
  /\ config' = intent.to
  /\ activeB' = intent.b
  /\ Return(p, <<Call("start", intent.to)>> \o Relaunching(intent))
  /\ UNCHANGED <<stream, blocked, intent, scheduler, youtube, transition, upsets, marred>>

ResumeIfNeeded(p) ==
  /\ Doing(p, "resume")
  /\ config' = intent.to
  /\ activeB' = intent.b
  /\ Return(p, <<Call("block", None), Call("start", intent.to)>> \o Relaunching(intent))
  /\ UNCHANGED <<stream, blocked, intent, scheduler, youtube, transition, upsets, marred>>

\* A record that is too old, or a configuration that has become invalid: the
\* record is dropped, and what is live on YouTube stays so; in the second
\* case the broadcast stays the active one although nothing streams.
ResumeRefused(p) ==
  /\ Doing(p, "resume")
  /\ intent' = NoIntent
  /\ \/ UNCHANGED <<config, activeB>>
     \/ config' = intent.to /\ activeB' = intent.b
  /\ marred' = marred \cup {"dropped"}
  /\ Return(p, <<>>)
  /\ UNCHANGED <<stream, blocked, scheduler, youtube, transition, upsets>>
-----------------------------------------------------------------------------
CallStep(p) ==
  \/ Block(p) \/ Unblock(p) \/ Start(p) \/ StartRefused(p) \/ Halt(p)
  \/ MarkLive(p) \/ MarkIdle(p) \/ Adopt(p) \/ Disown(p)
  \/ Create(p) \/ CreateFails(p) \/ Complete(p) \/ Detach(p)
  \/ StopActive(p) \/ Forget(p) \/ Air(p)
  \/ Cancel(p) \/ CancelBroadcast(p) \/ Launch(p)
  \/ ResumeIfNeeded(p) \/ ResumeRefused(p)

TransitionStep(b) == Attempt(b) \/ Answer(b)

Request(c) ==
  \/ HandleStart(c) \/ HandleStop(c) \/ HandleGoLiveNow(c) \/ HandleCompleteBroadcast(c)
  \/ HandleConfigUpdate(c)

\* Everything may have ended, or be on the air with nobody left to ask.
Idle == Quiet /\ UNCHANGED vars

Next ==
  \/ \E c \in Clients : Request(c)
  \/ \E b \in Scheduled : GoLive(b)
  \/ EventEnds
  \/ \E p \in Processes : CallStep(p)
  \/ \E b \in Broadcasts : TransitionStep(b) \/ CompleteLater(b)
  \/ FFmpegFails
  \/ Crash
  \/ Idle

\* Go runs every goroutine; the calls to YouTube and Supervisor.Stop return.
Fairness ==
  /\ WF_vars(\E p \in Processes : CallStep(p))
  /\ \A b \in Broadcasts : WF_vars(TransitionStep(b))

Spec == Init /\ [][Next]_vars /\ Fairness
-----------------------------------------------------------------------------
\* Every variable has its type, and no more goes wrong than MaxUpsets allows.
TypeOK ==
  /\ stream \in {Off, None} \cup Broadcasts
  /\ blocked \in BOOLEAN
  /\ {config, activeB, airing, handle} \subseteq {None} \cup Broadcasts
  /\ intent \in Intents \cup {NoIntent}
  /\ waiting \subseteq Scheduled
  /\ yt \in [Broadcasts -> {"none", "bound", "testing", "live", "complete"}]
  /\ phase \in [Broadcasts -> {"none", "testing", "asked testing", "live", "asked live", "done"}]
  /\ cancelled \cup ending \subseteq Broadcasts
  /\ request \in [Processes -> Starting \cup {"none", "stop", "complete", "end"}]
  /\ asked \in 0..MaxRequests /\ upsets \in 0..MaxUpsets
  /\ raced \subseteq Processes

Stopped ==
  /\ stream = Off /\ ~blocked
  /\ activeB = None /\ airing = None
  /\ intent = NoIntent \/ "unsaved" \in marred

\* When handleStop returns, FFmpeg is off, the camera is free, no broadcast and
\* no event is the active one and nothing will be resumed at boot, whatever
\* went before and whatever other stopping requests ran alongside.  A Start, a
\* GoLiveNow or an occurrence that overlapped with it is excused, and of the
\* record for the boot a file that could not be removed.
StopStops ==
  [][\A c \in Clients :
       request[c] = "stop" /\ request'[c] = "none" /\ upsets' = upsets /\ c \notin raced
         => Stopped']_vars

Unmarred(kinds) == Quiet /\ marred \cap kinds = {}

\* While FFmpeg streams the preview does not take the camera: no Unblock of a
\* request comes after the Block of the one that streams.  The refused Start
\* unblocks the preview of the stream that made it fail, and is excused here,
\* as are starts that overlapped with another request.
CameraHeld == Unmarred({"raced", "refused"}) /\ stream # Off => blocked

\* The intent file says what is on: a crash now would resume the stream, to
\* the same destination and as the same broadcast, or nothing.  Excused: starts
\* that overlapped or were refused, an FFmpeg that was given up, a record that a
\* boot dropped, and one that could not be written or removed.
IntentFollows ==
  Unmarred({"raced", "refused", "failed", "dropped", "unsaved"}) =>
    IF stream = Off THEN intent = NoIntent ELSE intent.to = stream /\ intent.b = activeB

\* A broadcast that is live on YouTube is the server's active one: nothing
\* else would ever complete it.  Excused are the ways known to leave one behind:
\* what IntentFollows excuses, a takeover from the scheduler, and a broadcast
\* whose completion failed.
NoOrphanLive ==
  Unmarred({"raced", "refused", "overtaken", "failed", "uncompleted", "dropped", "unsaved"}) /\ ending = {} =>
    \A b \in Broadcasts : yt[b] = "live" => activeB = b

\* The event that the scheduler will stop at its end is the one on the air:
\* its end does not cut off somebody else's stream.  Excused: starts that
\* overlapped or were refused, a takeover, and an FFmpeg that was given up.
EventOwnsStream ==
  Unmarred({"raced", "refused", "overtaken", "failed"}) /\ airing # None =>
    stream = airing /\ activeB = airing

\* When a Stop has left a scheduled broadcast to be completed, the scheduler is
\* through with its occurrence: it will not put back on the air what that
\* completion ends.  Only a start that overlapped and a reboot are excused.
StopEndsOccurrence == marred \cap {"raced", "rebooted"} = {} => ending \cap waiting = {}

\* store.go:373-375: an operator's Stop of a scheduled stream suppresses the rest of
\* its window.  The broadcast that such a Stop has left to be completed is not the
\* scheduler's active event again, also when the stream was resumed by a boot.
StoppedOccurrenceRests ==
  marred \cap {"raced", "dropped"} = {} => \A b \in ending \cap Scheduled : airing # b

\* The stream of a broadcast gets it on the air, also when the server was
\* restarted on the way, unless it is stopped first or YouTube's errors make the
\* transition give up.
GoesLive ==
  \A b \in Broadcasts :
    (stream = b /\ activeB = b /\ yt[b] \in {"bound", "testing"})
      ~> (yt[b] \in {"live", "complete"} \/ stream # b \/ activeB # b \/ marred \cap {"raced", "failed", "dropped", "abandoned"} # {})
=============================================================================
