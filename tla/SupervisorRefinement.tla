----------------------- MODULE SupervisorRefinement -----------------------
(***************************************************************************)
(* The Supervisor implements EncoderLease: every step of Supervisor is a   *)
(* step of the lease, or leaves it alone, in every state that satisfies    *)
(* the inductive invariant ProcInv of SupervisorProofs.                    *)
(***************************************************************************)
EXTENDS SupervisorProofs

USE DEF None

\* The lease covers the one process that is known and running.
LEMMA EncoderIsTheOne ==
  ASSUME OneEncoder, NEW p \in live \ stray
  PROVE  Encoder = p /\ live \ stray = {p}
BY DEF OneEncoder, Encoder

LEMMA EncoderSame ==
  ASSUME OneEncoder, live' \ stray' = live \ stray
  PROVE  Encoder' = Encoder
<1>1. CASE live \ stray = {}
  BY <1>1 DEF Encoder
<1>2. CASE live \ stray # {}
  <2>1. PICK p \in live \ stray : TRUE
    BY <1>2
  <2>2. live' \ stray' = {p} /\ Encoder = p
    BY <2>1, EncoderIsTheOne
  <2>3. Encoder' = p
    BY <2>2 DEF Encoder
  <2>4. QED
    BY <2>2, <2>3
<1>3. QED
  BY <1>1, <1>2

\* Without a guarded process, no process is known and running.
LEMMA NothingKnown ==
  ASSUME ProcInv, host = "up", cur = None \/ pc[cur] \notin Guarding
  PROVE  live \ stray = {} /\ Encoder = None
<1>1. live \ stray = {}
  BY KnownIsCurrent DEF Sessions
<1>2. QED
  BY <1>1 DEF Encoder

\* One process less: the lease loses its encoder, or was about another one.
LEMMA ExitStep ==
  ASSUME ProcInv, NEW p \in Pids, p \in live, live' = live \ {p}, UNCHANGED <<cur, opened, host, stray>>
  PROVE  [Lease!LeaseNext]_(Lease!leaseVars)
<1>1. CASE p \in stray
  <2>1. live' \ stray' = live \ stray
    BY <1>1
  <2>2. Encoder' = Encoder
    BY <2>1, EncoderSame DEF ProcInv
  <2>3. QED
    BY <2>2 DEF Lease!leaseVars
<1>2. CASE p \notin stray
  <2>1. Encoder = p /\ live \ stray = {p}
    BY <1>2, EncoderIsTheOne DEF ProcInv
  <2>2. live' \ stray' = {}
    BY <2>1
  <2>3. Encoder' = None /\ Encoder # None
    BY <2>1, <2>2 DEF Encoder, Pids
  <2>4. Lease!Exit
    BY <2>3 DEF Lease!Exit
  <2>5. QED
    BY <2>4 DEF Lease!LeaseNext
<1>3. QED
  BY <1>1, <1>2

LEMMA LeaseStart == Init => Lease!LeaseInit
BY DEF Init, Lease!LeaseInit, Encoder

LEMMA LeaseStep == ProcInv /\ [Next]_vars => [Lease!LeaseNext]_(Lease!leaseVars)
<1> SUFFICES ASSUME ProcInv, [Next]_vars PROVE [Lease!LeaseNext]_(Lease!leaseVars)
  OBVIOUS
<1> USE DEF guarded, channels, processes, machine, counters, attempt, calls, others
<1>1. ASSUME NEW c \in Callers, Start(c) PROVE [Lease!LeaseNext]_(Lease!leaseVars)
  <2>1. Encoder = None
    BY <1>1, NothingKnown DEF Start, StartAllowed
  <2>2. opened + 1 \in Sessions /\ opened + 1 \notin 1..opened /\ 1..(opened + 1) = (1..opened) \cup {opened + 1}
    <3>1. opened \in Nat /\ opened + 1 <= MaxSessions /\ MaxSessions \in Nat
      BY <1>1, BoundsAssumption DEF Start, ProcInv, OwnInv, TypeInv, TypeOK
    <3>2. 1..(opened + 1) = (1..opened) \cup {opened + 1}
      BY <3>1
    <3>3. QED
      BY <3>1, <3>2 DEF Sessions
  <2>3. Encoder' = Encoder
    BY <1>1 DEF Start, Encoder
  <2>4. Lease!Acquire(opened + 1)
    BY <1>1, <2>1, <2>2, <2>3 DEF Start, StartAllowed, Lease!Acquire
  <2>5. QED
    BY <2>2, <2>4 DEF Lease!LeaseNext
<1>2. ASSUME NEW c \in Callers, Restart(c) PROVE [Lease!LeaseNext]_(Lease!leaseVars)
  BY <1>2 DEF Restart, Encoder, Lease!leaseVars
<1>3. ASSUME NEW c \in Callers, StopBegin(c) PROVE [Lease!LeaseNext]_(Lease!leaseVars)
  BY <1>3 DEF StopBegin, Encoder, Lease!leaseVars
<1>4. ASSUME NEW c \in Callers, StopCancel(c) PROVE [Lease!LeaseNext]_(Lease!leaseVars)
  BY <1>4 DEF StopCancel, Encoder, Lease!leaseVars
<1>5. ASSUME NEW c \in Callers, StopReturn(c) PROVE [Lease!LeaseNext]_(Lease!leaseVars)
  BY <1>5 DEF StopReturn, Encoder, Lease!leaseVars
<1>6. ASSUME NEW s \in Sessions, BuildFails(s) PROVE [Lease!LeaseNext]_(Lease!leaseVars)
  BY <1>6 DEF BuildFails, Encoder, Lease!leaseVars
<1>7. ASSUME NEW s \in Sessions, SpawnFails(s) PROVE [Lease!LeaseNext]_(Lease!leaseVars)
  BY <1>7 DEF SpawnFails, Encoder, Lease!leaseVars
<1>8. ASSUME NEW s \in Sessions, Spawn(s) PROVE [Lease!LeaseNext]_(Lease!leaseVars)
  <2>1. host = "up" /\ cur = s /\ pc[cur] = "spawn" /\ cur # None
    BY <1>8 DEF Spawn, ProcInv, OwnInv, TypeInv, TypeOK, Ownership, Owning, Sessions
  <2>2. live \ stray = {} /\ Encoder = None
    BY <2>1, NothingKnown DEF Guarding
  <2>3. spawned + 1 \in Pids /\ spawned + 1 \notin stray
    BY <1>8, BoundsAssumption DEF Spawn, Pids, ProcInv, OwnInv, TypeInv, TypeOK, Births
  <2>4. live' \ stray' = {spawned + 1}
    BY <1>8, <2>2, <2>3 DEF Spawn
  <2>5. Encoder' = spawned + 1
    BY <2>4 DEF Encoder
  <2>6. Lease!Launch(spawned + 1)
    BY <1>8, <2>1, <2>2, <2>5 DEF Spawn, Lease!Launch
  <2>7. QED
    BY <2>3, <2>6 DEF Lease!LeaseNext
<1>9. ASSUME NEW s \in Sessions, NEW ok \in BOOLEAN, Record(s, ok) PROVE [Lease!LeaseNext]_(Lease!leaseVars)
  BY <1>9 DEF Record, Encoder, Lease!leaseVars
<1>10. ASSUME NEW s \in Sessions, MarkRunning(s) PROVE [Lease!LeaseNext]_(Lease!leaseVars)
  BY <1>10 DEF MarkRunning, Encoder, Lease!leaseVars
<1>11. ASSUME NEW s \in Sessions, TakeExit(s) PROVE [Lease!LeaseNext]_(Lease!leaseVars)
  BY <1>11 DEF TakeExit, Encoder, Lease!leaseVars
<1>12. ASSUME NEW s \in Sessions, TakeRestart(s) PROVE [Lease!LeaseNext]_(Lease!leaseVars)
  BY <1>12 DEF TakeRestart, Encoder, Lease!leaseVars
<1>13. ASSUME NEW s \in Sessions, TakeStall(s) PROVE [Lease!LeaseNext]_(Lease!leaseVars)
  BY <1>13 DEF TakeStall, Encoder, Lease!leaseVars
<1>14. ASSUME NEW s \in Sessions, TakeCancel(s) PROVE [Lease!LeaseNext]_(Lease!leaseVars)
  BY <1>14 DEF TakeCancel, Encoder, Lease!leaseVars
<1>15. ASSUME NEW s \in Sessions, Terminate(s) PROVE [Lease!LeaseNext]_(Lease!leaseVars)
  <2>1. pid[s] \in Pids
    BY <1>15 DEF Terminate, ProcInv, OwnInv, TypeInv, TypeOK
  <2>2. QED
    BY <1>15, <2>1, ExitStep DEF Terminate
<1>16. ASSUME NEW s \in Sessions, TerminateDone(s) PROVE [Lease!LeaseNext]_(Lease!leaseVars)
  BY <1>16 DEF TerminateDone, Reaped, Encoder, Lease!leaseVars
<1>17. ASSUME NEW s \in Sessions, ClearPidFile(s) PROVE [Lease!LeaseNext]_(Lease!leaseVars)
  BY <1>17 DEF ClearPidFile, Encoder, Lease!leaseVars
<1>18. ASSUME NEW s \in Sessions, RecordProgress(s) PROVE [Lease!LeaseNext]_(Lease!leaseVars)
  BY <1>18 DEF RecordProgress, Encoder, Lease!leaseVars
<1>19. ASSUME NEW s \in Sessions, NEW fast \in BOOLEAN, Account(s, fast) PROVE [Lease!LeaseNext]_(Lease!leaseVars)
  BY <1>19 DEF Account, Encoder, Lease!leaseVars
<1>20. ASSUME NEW s \in Sessions, NoticeStop(s) PROVE [Lease!LeaseNext]_(Lease!leaseVars)
  BY <1>20 DEF NoticeStop, Encoder, Lease!leaseVars
<1>21. ASSUME NEW s \in Sessions, SetExit(s) PROVE [Lease!LeaseNext]_(Lease!leaseVars)
  BY <1>21 DEF SetExit, Encoder, Lease!leaseVars
<1>22. ASSUME NEW s \in Sessions, SetRestarting(s) PROVE [Lease!LeaseNext]_(Lease!leaseVars)
  BY <1>22 DEF SetRestarting, Encoder, Lease!leaseVars
<1>23. ASSUME NEW s \in Sessions, Wake(s) PROVE [Lease!LeaseNext]_(Lease!leaseVars)
  BY <1>23 DEF Wake, Encoder, Lease!leaseVars
<1>24. ASSUME NEW s \in Sessions, SleepCancelled(s) PROVE [Lease!LeaseNext]_(Lease!leaseVars)
  BY <1>24 DEF SleepCancelled, Encoder, Lease!leaseVars
<1>25. ASSUME NEW s \in Sessions, Forget(s) PROVE [Lease!LeaseNext]_(Lease!leaseVars)
  <2>1. host = "up" /\ cur = s /\ pc[cur] = "cleanup" /\ cur # None
    BY <1>25 DEF Forget, ProcInv, OwnInv, TypeInv, TypeOK, Ownership, Owning, Sessions
  <2>2. Encoder = None
    BY <2>1, NothingKnown DEF Guarding
  <2>3. Encoder' = Encoder
    BY <1>25 DEF Forget, Encoder
  <2>4. Lease!Release
    BY <1>25, <2>1, <2>2, <2>3 DEF Forget, Lease!Release
  <2>5. QED
    BY <2>4 DEF Lease!LeaseNext
<1>26. ASSUME NEW s \in Sessions, CloseDone(s) PROVE [Lease!LeaseNext]_(Lease!leaseVars)
  BY <1>26 DEF CloseDone, Encoder, Lease!leaseVars
<1>27. ASSUME NEW s \in Sessions, CloseRestart(s) PROVE [Lease!LeaseNext]_(Lease!leaseVars)
  BY <1>27 DEF CloseRestart, Encoder, Lease!leaseVars
<1>28. ASSUME NEW p \in Pids, FFmpegExits(p) PROVE [Lease!LeaseNext]_(Lease!leaseVars)
  BY <1>28, ExitStep DEF FFmpegExits
<1>29. CASE Crash
  <2>1. Encoder' = Encoder
    BY <1>29 DEF Crash, Encoder
  <2>2. Lease!Die
    BY <1>29, <2>1 DEF Crash, Lease!Die
  <2>3. QED
    BY <2>2 DEF Lease!LeaseNext
<1>30. CASE Boot
  <2>1. live' \ stray' = {}
    BY <1>30 DEF Boot
  <2>2. Encoder' = None
    BY <2>1 DEF Encoder
  <2>3. Lease!Recover
    BY <1>30, <2>2 DEF Boot, Lease!Recover
  <2>4. QED
    BY <2>3 DEF Lease!LeaseNext
<1>31. CASE BootBlind
  <2>1. live' \ stray' = {}
    BY <1>31 DEF BootBlind
  <2>2. Encoder' = None
    BY <2>1 DEF Encoder
  <2>3. Lease!Recover
    BY <1>31, <2>2 DEF BootBlind, Lease!Recover
  <2>4. QED
    BY <2>3 DEF Lease!LeaseNext
<1>32. CASE BootGivesUp
  <2>1. live' \ stray' = {}
    BY <1>32 DEF BootGivesUp
  <2>2. Encoder' = None
    BY <2>1 DEF Encoder
  <2>3. Lease!Recover
    BY <1>32, <2>2 DEF BootGivesUp, Lease!Recover
  <2>4. QED
    BY <2>3 DEF Lease!LeaseNext
<1>33. CASE UNCHANGED vars
  BY <1>33 DEF vars, Encoder, Lease!leaseVars
<1>34. QED
  BY <1>1, <1>2, <1>3, <1>4, <1>5, <1>6, <1>7, <1>8, <1>9, <1>10, <1>11, <1>12, <1>13,
     <1>14, <1>15, <1>16, <1>17, <1>18, <1>19, <1>20, <1>21, <1>22, <1>23, <1>24,
     <1>25, <1>26, <1>27, <1>28, <1>29, <1>30, <1>31, <1>32, <1>33
     DEF Next, RunStep, StopStep

\* The Supervisor implements the lease: one session at a time, FFmpeg only under
\* a session, the session over only once FFmpeg is gone, through crash and boot.
THEOREM SupervisorImplementsLease == Spec => LeaseSpec
  BY LeaseStart, LeaseStep, ProcInvariant, EncoderUnique, PTL DEF Spec, LeaseSpec, Lease!LeaseSpec
=============================================================================
