---------------------------- MODULE EncoderLease ----------------------------
(***************************************************************************)
(* What a component that runs FFmpeg promises its callers, with no         *)
(* threads, channels or lifecycle states: the resource FFmpeg needs is     *)
(* leased to one session at a time, an FFmpeg process runs only under a    *)
(* session, and a session ends only once its process is gone.  For         *)
(* internal/ffmpeg.Supervisor that is the camera and the destination, for  *)
(* internal/ingest.Receiver the SRT port, for internal/preview the two     *)
(* UDP listeners (there `gone' is read as killed: nobody waits for it).    *)
(* When the EasyStream process dies the lease is void but FFmpeg lives on; *)
(* booting again reaps that FFmpeg, or loses sight of it for good (only    *)
(* the Supervisor's pid file makes that a part of it).                     *)
(***************************************************************************)
CONSTANTS Sessions, Pids, None

VARIABLES
  holder,    \* the session that holds the lease, or None
  encoder,   \* the FFmpeg process the lease covers, or None
  spent,     \* the sessions that have held the lease
  host       \* the EasyStream process is "up" or "down"

leaseVars == <<holder, encoder, spent, host>>

LeaseInit ==
  /\ holder = None
  /\ encoder = None
  /\ spent = {}
  /\ host = "up"

\* A session starts: nobody holds the lease and no FFmpeg is left over.
Acquire(s) ==
  /\ host = "up"
  /\ holder = None
  /\ encoder = None
  /\ s \notin spent
  /\ holder' = s
  /\ spent' = spent \cup {s}
  /\ UNCHANGED <<encoder, host>>

\* FFmpeg is launched for the session that holds the lease.
Launch(p) ==
  /\ host = "up"
  /\ holder # None
  /\ encoder = None
  /\ encoder' = p
  /\ UNCHANGED <<holder, spent, host>>

\* FFmpeg exits, is terminated, or is reaped.
Exit ==
  /\ encoder # None
  /\ encoder' = None
  /\ UNCHANGED <<holder, spent, host>>

\* The session is over: only after its FFmpeg is gone.
Release ==
  /\ holder # None
  /\ encoder = None
  /\ holder' = None
  /\ UNCHANGED <<encoder, spent, host>>

\* EasyStream dies.  FFmpeg runs in its own process group and may survive.
Die ==
  /\ host = "up"
  /\ holder' = None
  /\ host' = "down"
  /\ UNCHANGED <<encoder, spent>>

\* EasyStream boots: the FFmpeg of the previous life is reaped or lost.
Recover ==
  /\ host = "down"
  /\ host' = "up"
  /\ encoder' = None
  /\ UNCHANGED <<holder, spent>>

LeaseNext ==
  \/ \E s \in Sessions : Acquire(s)
  \/ \E p \in Pids : Launch(p)
  \/ Exit
  \/ Release
  \/ Die
  \/ Recover

LeaseSpec == LeaseInit /\ [][LeaseNext]_leaseVars
=============================================================================
