------------------------------ MODULE Preview ------------------------------
(***************************************************************************)
(* internal/preview/preview.go: the WebRTC preview of the camera.  A       *)
(* session has the two UDP listeners, of which there is one pair in the    *)
(* process, and, while the main stream does not own the camera, an FFmpeg  *)
(* of its own.  Offers replace the session, Block and Unblock hand the     *)
(* camera over, UpdateConfig restarts the FFmpeg, and a failing connection *)
(* or FFmpeg closes the session; each does so in several critical sections.*)
(* A killed FFmpeg goes in a step of its own, which nobody waits for.      *)
(* WebRTC itself is external.                                              *)
(***************************************************************************)
EXTENDS Naturals

CONSTANTS
  Offers,      \* requests that carry an SDP offer, over and over
  Callers,     \* goroutines of the stream that call Block and Unblock, over and over
  MaxSessions  \* bound: sessions that get the listeners

ASSUME PreviewAssumption == MaxSessions \in Nat

VARIABLES
  blocked, session,   \* the server's fields; session 0 is nil
  port,       \* the session that holds the UDP ports, or 0
  sessions,   \* sessions made
  cmd,        \* cmd[s]: "none", or the FFmpeg of s: "running" or "exited"
  dying,      \* an FFmpeg that was killed has not gone yet
  closing,    \* closing[s]: "open", or how far closeSession(s) is
  offer,      \* offer[o]: where the handler is
  mine,       \* mine[o]: the session it replaces, later the one it makes, or 0
  sawBlocked, \* sawBlocked[o]: what it read of blocked
  call,       \* call[c]: "idle", "stopping" in Block or "resuming" in Unblock
  held,       \* held[c]: the session it read there, or 0
  update,     \* where UpdateConfig is
  changed,    \* the session it read, or 0
  strayed,    \* history: an FFmpeg was started for a closed session or under a block,
              \* or Block was called while an offer was being served
  overwritten \* history: an offer published its session over another offer's

previewVars == <<blocked, session, port, sessions, cmd, dying, closing, offer, mine, sawBlocked, call, held,
                update, changed, strayed, overwritten>>

SessionIds == 1..MaxSessions

PreviewInit ==
  /\ blocked = FALSE /\ session = 0 /\ port = 0 /\ sessions = 0
  /\ cmd = [s \in SessionIds |-> "none"]
  /\ closing = [s \in SessionIds |-> "open"]
  /\ offer = [o \in Offers |-> "idle"]
  /\ mine = [o \in Offers |-> 0]
  /\ sawBlocked = [o \in Offers |-> FALSE]
  /\ call = [c \in Callers |-> "idle"] /\ held = [c \in Callers |-> 0]
  /\ update = "idle" /\ changed = 0
  /\ dying = FALSE /\ strayed = FALSE /\ overwritten = FALSE

OfferAt(o, point) == offer' = [offer EXCEPT ![o] = point]

\* startSessionFFmpeg, which may fail, and asks nothing about closed or blocked
StartFFmpeg(s) ==
  /\ \/ cmd[s] = "none" /\ cmd' = [cmd EXCEPT ![s] = "running"]
     \/ UNCHANGED cmd
  /\ strayed' = (strayed \/ (cmd' # cmd /\ (blocked \/ closing[s] # "open")))
  /\ UNCHANGED dying

\* stopSessionFFmpeg sends the kill and does not wait.
StopFFmpeg(s) ==
  /\ cmd' = [cmd EXCEPT ![s] = "none"]
  /\ dying' = (dying \/ cmd[s] = "running")

\* closeSession begins, unless it has already.
Close(s) == closing' = [closing EXCEPT ![s] = IF @ = "open" THEN "stop" ELSE @]
-----------------------------------------------------------------------------
(* ServeHTTP and startSession *)

Offer(o) ==
  /\ offer[o] = "idle"
  /\ sawBlocked' = [sawBlocked EXCEPT ![o] = blocked]
  /\ mine' = [mine EXCEPT ![o] = session]
  /\ session' = 0
  /\ OfferAt(o, IF session = 0 THEN "decode" ELSE "replace")
  /\ UNCHANGED <<blocked, port, sessions, cmd, dying, closing, call, held, update, changed, strayed, overwritten>>

\* One that somebody else is closing is not waited for.
Replace(o) ==
  /\ offer[o] = "replace"
  /\ Close(mine[o])
  /\ IF closing[mine[o]] = "open"
     THEN OfferAt(o, "replacing") /\ UNCHANGED mine
     ELSE OfferAt(o, "decode") /\ mine' = [mine EXCEPT ![o] = 0]
  /\ UNCHANGED <<blocked, session, port, sessions, cmd, dying, sawBlocked, call, held, update, changed, strayed, overwritten>>

Replaced(o) ==
  /\ offer[o] = "replacing" /\ closing[mine[o]] = "closed"
  /\ OfferAt(o, "decode") /\ mine' = [mine EXCEPT ![o] = 0]
  /\ UNCHANGED <<blocked, session, port, sessions, cmd, dying, closing, sawBlocked, call, held, update, changed, strayed, overwritten>>

Fails(o) ==
  /\ OfferAt(o, "idle")
  /\ mine' = [mine EXCEPT ![o] = 0]
  /\ sawBlocked' = [sawBlocked EXCEPT ![o] = FALSE]

\* A malformed offer, or listeners that are taken.
Refuse(o) ==
  /\ offer[o] = "decode"
  /\ Fails(o)
  /\ UNCHANGED <<blocked, session, port, sessions, cmd, dying, closing, call, held, update, changed, strayed, overwritten>>

Listen(o) ==
  /\ offer[o] = "decode" /\ port = 0 /\ sessions < MaxSessions
  /\ sessions' = sessions + 1 /\ port' = sessions + 1
  /\ mine' = [mine EXCEPT ![o] = sessions + 1]
  /\ OfferAt(o, IF sawBlocked[o] THEN "negotiate" ELSE "spawn")
  /\ sawBlocked' = [sawBlocked EXCEPT ![o] = FALSE]
  /\ UNCHANGED <<blocked, session, cmd, dying, closing, call, held, update, changed, strayed, overwritten>>

Spawn(o) ==
  /\ offer[o] = "spawn"
  /\ StartFFmpeg(mine[o])
  /\ \/ cmd' # cmd /\ OfferAt(o, "negotiate") /\ UNCHANGED closing
     \/ cmd' = cmd /\ OfferAt(o, "abandon") /\ Close(mine[o])
  /\ UNCHANGED <<blocked, session, port, sessions, mine, sawBlocked, call, held, update, changed, overwritten>>

NegotiateOrDrop(o) ==
  /\ offer[o] = "negotiate"
  /\ OfferAt(o, "publish") \/ OfferAt(o, "abandon")
  /\ UNCHANGED <<blocked, session, port, sessions, cmd, dying, closing, mine, sawBlocked, call, held, update, changed, strayed, overwritten>>

Negotiate(o) ==
  /\ offer[o] = "negotiate"
  /\ \/ OfferAt(o, "publish") /\ UNCHANGED closing
     \/ OfferAt(o, "abandon") /\ Close(mine[o])
  /\ UNCHANGED <<blocked, session, port, sessions, cmd, dying, mine, sawBlocked, call, held, update, changed, strayed, overwritten>>

\* The handler gives up; its session may still be closing in another goroutine.
Abandon(o) ==
  /\ offer[o] = "abandon"
  /\ Fails(o)
  /\ UNCHANGED <<blocked, session, port, sessions, cmd, dying, closing, call, held, update, changed, strayed, overwritten>>

Publish(o) ==
  /\ offer[o] = "publish"
  /\ session' = mine[o]
  /\ overwritten' = (overwritten \/ session # 0)
  /\ Fails(o)
  /\ UNCHANGED <<blocked, port, sessions, cmd, dying, closing, call, held, update, changed, strayed>>
-----------------------------------------------------------------------------
(* closeSession, called by ServeHTTP, the ICE callback and the reaper *)

\* ICE failed or closed; the callback is installed before the negotiation.
IceFails(s) ==
  /\ s <= sessions /\ closing[s] = "open"
  /\ Close(s)
  /\ UNCHANGED <<blocked, session, port, sessions, cmd, dying, offer, mine, sawBlocked, call, held, update, changed, strayed, overwritten>>

FFmpegExits(s) ==
  /\ cmd[s] = "running"
  /\ cmd' = [cmd EXCEPT ![s] = "exited"]
  /\ UNCHANGED <<blocked, session, port, sessions, dying, closing, offer, mine, sawBlocked, call, held, update, changed, strayed, overwritten>>

\* The last of the killed ones goes.
KilledExits ==
  /\ dying
  /\ dying' = FALSE
  /\ UNCHANGED <<blocked, session, port, sessions, cmd, closing, offer, mine, sawBlocked, call, held, update, changed, strayed, overwritten>>

\* One that was stopped in time has its context cancelled and cmd cleared.
Reaper(s) ==
  /\ cmd[s] = "exited" /\ closing[s] = "open"
  /\ Close(s)
  /\ UNCHANGED <<blocked, session, port, sessions, cmd, dying, offer, mine, sawBlocked, call, held, update, changed, strayed, overwritten>>

CloseStopsNothing(s) ==
  /\ closing[s] = "stop"
  /\ closing' = [closing EXCEPT ![s] = "release"]
  /\ UNCHANGED <<blocked, session, port, sessions, cmd, dying, offer, mine, sawBlocked, call, held, update, changed, strayed, overwritten>>

CloseStops(s) ==
  /\ closing[s] = "stop"
  /\ StopFFmpeg(s)
  /\ closing' = [closing EXCEPT ![s] = "release"]
  /\ UNCHANGED <<blocked, session, port, sessions, offer, mine, sawBlocked, call, held, update, changed, strayed, overwritten>>

CloseReleases(s) ==
  /\ closing[s] = "release"
  /\ port' = IF port = s THEN 0 ELSE port
  /\ closing' = [closing EXCEPT ![s] = "forget"]
  /\ UNCHANGED <<blocked, session, sessions, cmd, dying, offer, mine, sawBlocked, call, held, update, changed, strayed, overwritten>>

CloseForgets(s) ==
  /\ closing[s] = "forget"
  /\ session' = IF session = s THEN 0 ELSE session
  /\ closing' = [closing EXCEPT ![s] = "closed"]
  /\ UNCHANGED <<blocked, port, sessions, cmd, dying, offer, mine, sawBlocked, call, held, update, changed, strayed, overwritten>>
-----------------------------------------------------------------------------
(* The stream handlers: Block, Unblock, UpdateConfig *)

CallAt(c, point, s) ==
  /\ call' = [call EXCEPT ![c] = point]
  /\ held' = [held EXCEPT ![c] = s]

Block(c) ==
  /\ call[c] = "idle"
  /\ blocked' = TRUE
  /\ CallAt(c, IF session = 0 THEN "idle" ELSE "stopping", session)
  /\ strayed' = (strayed \/ \E o \in Offers : offer[o] # "idle")
  /\ UNCHANGED <<session, port, sessions, cmd, dying, closing, offer, mine, sawBlocked, update, changed, overwritten>>

BlockKeepsFFmpeg(c) ==
  /\ call[c] = "stopping"
  /\ CallAt(c, "idle", 0)
  /\ UNCHANGED <<blocked, session, port, sessions, cmd, dying, closing, offer, mine, sawBlocked, update, changed, strayed, overwritten>>

BlockStops(c) ==
  /\ call[c] = "stopping"
  /\ StopFFmpeg(held[c])
  /\ CallAt(c, "idle", 0)
  /\ UNCHANGED <<blocked, session, port, sessions, closing, offer, mine, sawBlocked, update, changed, strayed, overwritten>>

Unblock(c) ==
  /\ call[c] = "idle"
  /\ blocked' = FALSE
  /\ CallAt(c, IF session = 0 THEN "idle" ELSE "resuming", session)
  /\ UNCHANGED <<session, port, sessions, cmd, dying, closing, offer, mine, sawBlocked, update, changed, strayed, overwritten>>

\* The last step of Unblock
Resume(c) ==
  /\ call[c] = "resuming"
  /\ StartFFmpeg(held[c])
  /\ CallAt(c, "idle", 0)
  /\ UNCHANGED <<blocked, session, port, sessions, closing, offer, mine, sawBlocked, update, changed, overwritten>>

\* The input changed; what it reads of blocked may be over when it acts.
UpdateConfig ==
  /\ update = "idle" /\ ~blocked /\ session # 0
  /\ changed' = session
  /\ update' = "stopping"
  /\ UNCHANGED <<blocked, session, port, sessions, cmd, dying, closing, offer, mine, sawBlocked, call, held, strayed, overwritten>>

ConfigStops ==
  /\ update = "stopping"
  /\ StopFFmpeg(changed)
  /\ update' = "starting"
  /\ UNCHANGED <<blocked, session, port, sessions, closing, offer, mine, sawBlocked, call, held, changed, strayed, overwritten>>

ConfigStarts ==
  /\ update = "starting"
  /\ StartFFmpeg(changed)
  /\ changed' = 0
  /\ update' = "idle"
  /\ UNCHANGED <<blocked, session, port, sessions, closing, offer, mine, sawBlocked, call, held, overwritten>>
-----------------------------------------------------------------------------
PreviewNext ==
  \/ \E o \in Offers :
       \/ Offer(o) \/ Replace(o) \/ Replaced(o) \/ Refuse(o) \/ Listen(o) \/ Spawn(o)
       \/ Negotiate(o) \/ Abandon(o) \/ Publish(o)
  \/ \E s \in SessionIds :
       \/ IceFails(s) \/ FFmpegExits(s) \/ Reaper(s)
       \/ CloseStops(s) \/ CloseReleases(s) \/ CloseForgets(s)
  \/ \E c \in Callers : Block(c) \/ BlockStops(c) \/ Unblock(c) \/ Resume(c)
  \/ UpdateConfig \/ ConfigStops \/ ConfigStarts \/ KilledExits

PreviewSpec == PreviewInit /\ [][PreviewNext]_previewVars

\* Every variable has its type.
PreviewTypeOK ==
  /\ {blocked, dying, strayed, overwritten} \subseteq BOOLEAN
  /\ {session, port, sessions, changed} \subseteq {0} \cup SessionIds
  /\ cmd \in [SessionIds -> {"none", "running", "exited"}]
  /\ closing \in [SessionIds -> {"open", "stop", "release", "forget", "closed"}]
  /\ offer \in [Offers -> {"idle", "replace", "replacing", "decode", "spawn", "negotiate", "publish", "abandon"}]
  /\ mine \in [Offers -> {0} \cup SessionIds] /\ sawBlocked \in [Offers -> BOOLEAN]
  /\ call \in [Callers -> {"idle", "stopping", "resuming"}] /\ held \in [Callers -> {0} \cup SessionIds]
  /\ update \in {"idle", "stopping", "starting"}

\* While the camera is blocked and no Block is under way, every FFmpeg of the
\* preview has been killed, or the very next step of its closing session kills
\* it, however the session was being closed, replaced or restarted meanwhile and
\* whoever else was blocking or unblocking.  (Block does not wait for the killed
\* one to go: the stream's FFmpeg may still find the camera taken.)  Excused: an
\* offer already being served, which Block cannot see, and an FFmpeg started
\* late, for a closed session or by whoever read `blocked` before the Block;
\* and a session that another offer has overwritten.
CameraYielded ==
  blocked /\ (\A c \in Callers : call[c] # "stopping") /\ ~strayed /\ ~overwritten =>
    \A s \in SessionIds : cmd[s] = "running" => closing[s] = "stop"

\* When no offer is served and nothing is being closed, the listeners are free
\* or the current session's: were they another's, which nobody can close any
\* more, every later offer would be refused.  Excused: two offers at once of
\* which the first one's session died unpublished and is then published over
\* the second one's.
NoLostSession ==
  ~overwritten /\
  (\A o \in Offers : offer[o] = "idle") /\ (\A s \in SessionIds : closing[s] \in {"open", "closed"})
    => port \in {0, session}

\* The session whose FFmpeg runs and nobody has killed, or 0.
Fed == {s \in SessionIds : cmd[s] = "running"}
Feeding == IF Fed = {} THEN 0 ELSE CHOOSE s \in Fed : TRUE
Lease == INSTANCE EncoderLease WITH
           Sessions <- SessionIds, Pids <- SessionIds, None <- 0,
           holder <- port, encoder <- Feeding, spent <- 1..sessions, host <- "up"

\* The two listeners are leased to one session at a time: each step is one of the
\* lease, so that an FFmpeg is started only for the session that holds them, only
\* when every other has been killed, and the next session gets them only once
\* that of the one before has been killed.  (Until it is gone, a killed one may
\* still feed the next session.)  Excused: an FFmpeg started late.
ListenersLeased ==
  Lease!LeaseInit /\ [][Lease!LeaseNext \/ strayed']_(Lease!leaseVars)
=============================================================================
