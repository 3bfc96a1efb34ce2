-------------------------- MODULE SupervisorProofs --------------------------
(***************************************************************************)
(* Proofs about Supervisor for every number of callers, sessions, FFmpegs, *)
(* crashes and restarts.  The safety properties are not inductive: each    *)
(* rests on who owns s.cancel, on the life of the channels and on which    *)
(* goroutine looks after which process, stated here as invariants of their *)
(* own and proved in that order.                                           *)
(***************************************************************************)
EXTENDS Supervisor, TLAPS

USE DEF None

\* The points of the restart loop, where the counters are below their limits.
Looping == Owning \ {"reject", "giveup"}

\* Counters stay below their limits while the loop goes on, and sessions are
\* opened in order.
Counters ==
  \A s \in Sessions :
     /\ pc[s] \in Looping => restarts[s] <= MaxRestarts /\ quick[s] < QuickLimit
     /\ (pc[s] = "new") <=> (s > opened)
     /\ pc[s] = "new" => /\ pid[s] = None
                         /\ s \notin recorded
                         /\ restarts[s] = 0
                         /\ quick[s] = 0

\* A Stop in progress holds a session it captured.
Captured == \A c \in Callers : callPc[c] # "idle" => captured[c] \in Sessions

TypeInv == TypeOK /\ Counters /\ Captured

LEMMA InitType == Init => TypeInv
<1> SUFFICES ASSUME Init PROVE TypeInv
  OBVIOUS
<1> USE BoundsAssumption DEF Init, Sessions, Pids
<1>1. TypeOK
  BY DEF TypeOK, States, RunPCs
<1>2. Counters
  BY DEF Counters, Looping, Owning
<1>3. Captured
  BY DEF Captured
<1>4. QED
  BY <1>1, <1>2, <1>3 DEF TypeInv

LEMMA NextTypeOK == TypeInv /\ [Next]_vars => TypeOK'
<1> SUFFICES ASSUME TypeInv, [Next]_vars PROVE TypeOK'
  OBVIOUS
<1> USE BoundsAssumption DEF TypeInv, TypeOK, Captured, RunPCs, States, Goto,
        guarded, channels, processes, machine, counters, attempt, calls, others
<1>1. ASSUME NEW c \in Callers, Start(c) PROVE TypeOK'
  <2>1. opened + 1 \in Sessions
    BY <1>1 DEF Start, Sessions
  <2>2. opened' \in 0..MaxSessions /\ cur' \in Sessions /\ pc' \in [Sessions -> RunPCs]
    BY <1>1, <2>1 DEF Start, Sessions
  <2>3. QED
    BY <1>1, <2>2 DEF Start
<1>2. ASSUME NEW c \in Callers, Restart(c) PROVE TypeOK'
  BY <1>2 DEF Restart
<1>3. ASSUME NEW c \in Callers, StopBegin(c) PROVE TypeOK'
  BY <1>3 DEF StopBegin
<1>4. ASSUME NEW c \in Callers, StopCancel(c) PROVE TypeOK'
  BY <1>4 DEF StopCancel
<1>5. ASSUME NEW c \in Callers, StopReturn(c) PROVE TypeOK'
  BY <1>5 DEF StopReturn
<1>6. ASSUME NEW s \in Sessions, BuildFails(s) PROVE TypeOK'
  BY <1>6 DEF BuildFails
<1>7. ASSUME NEW s \in Sessions, SpawnFails(s) PROVE TypeOK'
  BY <1>7 DEF SpawnFails
<1>8. ASSUME NEW s \in Sessions, Spawn(s) PROVE TypeOK'
  <2>1. spawned + 1 \in Pids /\ spawned' \in 0..MaxSpawns
    BY <1>8 DEF Spawn, Pids
  <2>2. QED
    BY <1>8, <2>1 DEF Spawn
<1>9. ASSUME NEW s \in Sessions, NEW ok \in BOOLEAN, Record(s, ok) PROVE TypeOK'
  BY <1>9 DEF Record
<1>10. ASSUME NEW s \in Sessions, MarkRunning(s) PROVE TypeOK'
  BY <1>10 DEF MarkRunning
<1>11. ASSUME NEW s \in Sessions, TakeExit(s) PROVE TypeOK'
  BY <1>11 DEF TakeExit
<1>12. ASSUME NEW s \in Sessions, TakeRestart(s) PROVE TypeOK'
  BY <1>12 DEF TakeRestart
<1>13. ASSUME NEW s \in Sessions, TakeStall(s) PROVE TypeOK'
  BY <1>13 DEF TakeStall
<1>14. ASSUME NEW s \in Sessions, TakeCancel(s) PROVE TypeOK'
  BY <1>14 DEF TakeCancel
<1>15. ASSUME NEW s \in Sessions, Terminate(s) PROVE TypeOK'
  BY <1>15 DEF Terminate
<1>16. ASSUME NEW s \in Sessions, TerminateDone(s) PROVE TypeOK'
  BY <1>16 DEF TerminateDone, Reaped
<1>17. ASSUME NEW s \in Sessions, ClearPidFile(s) PROVE TypeOK'
  BY <1>17 DEF ClearPidFile
<1>18. ASSUME NEW s \in Sessions, RecordProgress(s) PROVE TypeOK'
  BY <1>18 DEF RecordProgress
<1>19. ASSUME NEW s \in Sessions, NEW fast \in BOOLEAN, Account(s, fast) PROVE TypeOK'
  <2>1. restarts[s] + 1 \in 0..(MaxRestarts + 1) /\ quick[s] + 1 \in 0..QuickLimit
    BY <1>19 DEF Account, Counters, Looping, Owning
  <2>2. \A d, q : Verdict(d, q) \in {"reject", "giveup", "pause"}
    BY DEF Verdict
  <2>3. restarts' \in [Sessions -> 0..(MaxRestarts + 1)] /\ quick' \in [Sessions -> 0..QuickLimit]
    BY <1>19, <2>1 DEF Account
  <2>4. pc' \in [Sessions -> RunPCs]
    BY <1>19, <2>2 DEF Account
  <2>5. QED
    BY <1>19, <2>3, <2>4 DEF Account
<1>20. ASSUME NEW s \in Sessions, NoticeStop(s) PROVE TypeOK'
  BY <1>20 DEF NoticeStop
<1>21. ASSUME NEW s \in Sessions, SetExit(s) PROVE TypeOK'
  BY <1>21 DEF SetExit, Settle
<1>22. ASSUME NEW s \in Sessions, SetRestarting(s) PROVE TypeOK'
  BY <1>22 DEF SetRestarting
<1>23. ASSUME NEW s \in Sessions, Wake(s) PROVE TypeOK'
  BY <1>23 DEF Wake
<1>24. ASSUME NEW s \in Sessions, SleepCancelled(s) PROVE TypeOK'
  BY <1>24 DEF SleepCancelled
<1>25. ASSUME NEW s \in Sessions, Forget(s) PROVE TypeOK'
  BY <1>25 DEF Forget
<1>26. ASSUME NEW s \in Sessions, CloseDone(s) PROVE TypeOK'
  BY <1>26 DEF CloseDone
<1>27. ASSUME NEW s \in Sessions, CloseRestart(s) PROVE TypeOK'
  BY <1>27 DEF CloseRestart
<1>28. ASSUME NEW p \in Pids, FFmpegExits(p) PROVE TypeOK'
  BY <1>28 DEF FFmpegExits
<1>29. CASE Crash
  BY <1>29 DEF Crash, Settle
<1>30. CASE Boot
  BY <1>30 DEF Boot
<1>31. CASE BootBlind
  BY <1>31 DEF BootBlind
<1>32. CASE BootGivesUp
  BY <1>32 DEF BootGivesUp
<1>33. CASE UNCHANGED vars
  BY <1>33 DEF vars
<1>34. QED
  BY <1>1, <1>2, <1>3, <1>4, <1>5, <1>6, <1>7, <1>8, <1>9, <1>10, <1>11, <1>12, <1>13,
     <1>14, <1>15, <1>16, <1>17, <1>18, <1>19, <1>20, <1>21, <1>22, <1>23, <1>24,
     <1>25, <1>26, <1>27, <1>28, <1>29, <1>30, <1>31, <1>32, <1>33
     DEF Next, RunStep, StopStep

LEMMA NextCounters == TypeInv /\ [Next]_vars => Counters'
<1> SUFFICES ASSUME TypeInv, [Next]_vars PROVE Counters'
  OBVIOUS
<1> USE DEF TypeInv, TypeOK, Counters, Looping, Owning, Goto,
        guarded, channels, processes, machine, counters, attempt, calls, others
<1>1. ASSUME NEW c \in Callers, Start(c) PROVE Counters'
  BY <1>1, BoundsAssumption DEF Start, Sessions
<1>2. ASSUME NEW c \in Callers, Restart(c) PROVE Counters'
  BY <1>2 DEF Restart
<1>3. ASSUME NEW c \in Callers, StopBegin(c) PROVE Counters'
  BY <1>3 DEF StopBegin
<1>4. ASSUME NEW c \in Callers, StopCancel(c) PROVE Counters'
  BY <1>4 DEF StopCancel
<1>5. ASSUME NEW c \in Callers, StopReturn(c) PROVE Counters'
  BY <1>5 DEF StopReturn
<1>6. ASSUME NEW s \in Sessions, BuildFails(s) PROVE Counters'
  BY <1>6 DEF BuildFails
<1>7. ASSUME NEW s \in Sessions, SpawnFails(s) PROVE Counters'
  BY <1>7 DEF SpawnFails
<1>8. ASSUME NEW s \in Sessions, Spawn(s) PROVE Counters'
  BY <1>8 DEF Spawn
<1>9. ASSUME NEW s \in Sessions, NEW ok \in BOOLEAN, Record(s, ok) PROVE Counters'
  BY <1>9 DEF Record
<1>10. ASSUME NEW s \in Sessions, MarkRunning(s) PROVE Counters'
  BY <1>10 DEF MarkRunning
<1>11. ASSUME NEW s \in Sessions, TakeExit(s) PROVE Counters'
  BY <1>11 DEF TakeExit
<1>12. ASSUME NEW s \in Sessions, TakeRestart(s) PROVE Counters'
  BY <1>12 DEF TakeRestart
<1>13. ASSUME NEW s \in Sessions, TakeStall(s) PROVE Counters'
  BY <1>13 DEF TakeStall
<1>14. ASSUME NEW s \in Sessions, TakeCancel(s) PROVE Counters'
  BY <1>14 DEF TakeCancel
<1>15. ASSUME NEW s \in Sessions, Terminate(s) PROVE Counters'
  BY <1>15 DEF Terminate
<1>16. ASSUME NEW s \in Sessions, TerminateDone(s) PROVE Counters'
  BY <1>16 DEF TerminateDone, Reaped
<1>17. ASSUME NEW s \in Sessions, ClearPidFile(s) PROVE Counters'
  BY <1>17 DEF ClearPidFile
<1>18. ASSUME NEW s \in Sessions, RecordProgress(s) PROVE Counters'
  BY <1>18 DEF RecordProgress
<1>19. ASSUME NEW s \in Sessions, NEW fast \in BOOLEAN, Account(s, fast) PROVE Counters'
  BY <1>19, BoundsAssumption DEF Account, Verdict
<1>20. ASSUME NEW s \in Sessions, NoticeStop(s) PROVE Counters'
  BY <1>20 DEF NoticeStop
<1>21. ASSUME NEW s \in Sessions, SetExit(s) PROVE Counters'
  BY <1>21, BoundsAssumption DEF SetExit, Settle
<1>22. ASSUME NEW s \in Sessions, SetRestarting(s) PROVE Counters'
  BY <1>22 DEF SetRestarting
<1>23. ASSUME NEW s \in Sessions, Wake(s) PROVE Counters'
  BY <1>23 DEF Wake
<1>24. ASSUME NEW s \in Sessions, SleepCancelled(s) PROVE Counters'
  BY <1>24 DEF SleepCancelled
<1>25. ASSUME NEW s \in Sessions, Forget(s) PROVE Counters'
  BY <1>25 DEF Forget
<1>26. ASSUME NEW s \in Sessions, CloseDone(s) PROVE Counters'
  BY <1>26 DEF CloseDone
<1>27. ASSUME NEW s \in Sessions, CloseRestart(s) PROVE Counters'
  BY <1>27 DEF CloseRestart
<1>28. ASSUME NEW p \in Pids, FFmpegExits(p) PROVE Counters'
  BY <1>28 DEF FFmpegExits
<1>29. CASE Crash
  BY <1>29 DEF Crash, Settle, Sessions
<1>30. CASE Boot
  BY <1>30 DEF Boot
<1>31. CASE BootBlind
  BY <1>31 DEF BootBlind
<1>32. CASE BootGivesUp
  BY <1>32 DEF BootGivesUp
<1>33. CASE UNCHANGED vars
  BY <1>33 DEF vars
<1>34. QED
  BY <1>1, <1>2, <1>3, <1>4, <1>5, <1>6, <1>7, <1>8, <1>9, <1>10, <1>11, <1>12, <1>13,
     <1>14, <1>15, <1>16, <1>17, <1>18, <1>19, <1>20, <1>21, <1>22, <1>23, <1>24,
     <1>25, <1>26, <1>27, <1>28, <1>29, <1>30, <1>31, <1>32, <1>33
     DEF Next, RunStep, StopStep

LEMMA NextCaptured == TypeInv /\ [Next]_vars => Captured'
<1> SUFFICES ASSUME TypeInv, [Next]_vars PROVE Captured'
  OBVIOUS
<1> USE DEF TypeInv, TypeOK, Captured, guarded, channels, processes, machine,
        counters, attempt, calls, others
<1>1. ASSUME NEW c \in Callers, Start(c) PROVE Captured'
  BY <1>1 DEF Start, StartAllowed
<1>2. ASSUME NEW c \in Callers, Restart(c) PROVE Captured'
  BY <1>2 DEF Restart
<1>3. ASSUME NEW c \in Callers, StopBegin(c) PROVE Captured'
  BY <1>3 DEF StopBegin
<1>4. ASSUME NEW c \in Callers, StopCancel(c) PROVE Captured'
  BY <1>4 DEF StopCancel
<1>5. ASSUME NEW c \in Callers, StopReturn(c) PROVE Captured'
  BY <1>5 DEF StopReturn
<1>6. ASSUME NEW s \in Sessions, BuildFails(s) PROVE Captured'
  BY <1>6 DEF BuildFails
<1>7. ASSUME NEW s \in Sessions, SpawnFails(s) PROVE Captured'
  BY <1>7 DEF SpawnFails
<1>8. ASSUME NEW s \in Sessions, Spawn(s) PROVE Captured'
  BY <1>8 DEF Spawn
<1>9. ASSUME NEW s \in Sessions, NEW ok \in BOOLEAN, Record(s, ok) PROVE Captured'
  BY <1>9 DEF Record
<1>10. ASSUME NEW s \in Sessions, MarkRunning(s) PROVE Captured'
  BY <1>10 DEF MarkRunning
<1>11. ASSUME NEW s \in Sessions, TakeExit(s) PROVE Captured'
  BY <1>11 DEF TakeExit
<1>12. ASSUME NEW s \in Sessions, TakeRestart(s) PROVE Captured'
  BY <1>12 DEF TakeRestart
<1>13. ASSUME NEW s \in Sessions, TakeStall(s) PROVE Captured'
  BY <1>13 DEF TakeStall
<1>14. ASSUME NEW s \in Sessions, TakeCancel(s) PROVE Captured'
  BY <1>14 DEF TakeCancel
<1>15. ASSUME NEW s \in Sessions, Terminate(s) PROVE Captured'
  BY <1>15 DEF Terminate
<1>16. ASSUME NEW s \in Sessions, TerminateDone(s) PROVE Captured'
  BY <1>16 DEF TerminateDone, Reaped
<1>17. ASSUME NEW s \in Sessions, ClearPidFile(s) PROVE Captured'
  BY <1>17 DEF ClearPidFile
<1>18. ASSUME NEW s \in Sessions, RecordProgress(s) PROVE Captured'
  BY <1>18 DEF RecordProgress
<1>19. ASSUME NEW s \in Sessions, NEW fast \in BOOLEAN, Account(s, fast) PROVE Captured'
  BY <1>19 DEF Account, Verdict
<1>20. ASSUME NEW s \in Sessions, NoticeStop(s) PROVE Captured'
  BY <1>20 DEF NoticeStop
<1>21. ASSUME NEW s \in Sessions, SetExit(s) PROVE Captured'
  BY <1>21 DEF SetExit, Settle
<1>22. ASSUME NEW s \in Sessions, SetRestarting(s) PROVE Captured'
  BY <1>22 DEF SetRestarting
<1>23. ASSUME NEW s \in Sessions, Wake(s) PROVE Captured'
  BY <1>23 DEF Wake
<1>24. ASSUME NEW s \in Sessions, SleepCancelled(s) PROVE Captured'
  BY <1>24 DEF SleepCancelled
<1>25. ASSUME NEW s \in Sessions, Forget(s) PROVE Captured'
  BY <1>25 DEF Forget
<1>26. ASSUME NEW s \in Sessions, CloseDone(s) PROVE Captured'
  BY <1>26 DEF CloseDone
<1>27. ASSUME NEW s \in Sessions, CloseRestart(s) PROVE Captured'
  BY <1>27 DEF CloseRestart
<1>28. ASSUME NEW p \in Pids, FFmpegExits(p) PROVE Captured'
  BY <1>28 DEF FFmpegExits
<1>29. CASE Crash
  BY <1>29 DEF Crash, Settle
<1>30. CASE Boot
  BY <1>30 DEF Boot
<1>31. CASE BootBlind
  BY <1>31 DEF BootBlind
<1>32. CASE BootGivesUp
  BY <1>32 DEF BootGivesUp
<1>33. CASE UNCHANGED vars
  BY <1>33 DEF vars
<1>34. QED
  BY <1>1, <1>2, <1>3, <1>4, <1>5, <1>6, <1>7, <1>8, <1>9, <1>10, <1>11, <1>12, <1>13,
     <1>14, <1>15, <1>16, <1>17, <1>18, <1>19, <1>20, <1>21, <1>22, <1>23, <1>24,
     <1>25, <1>26, <1>27, <1>28, <1>29, <1>30, <1>31, <1>32, <1>33
     DEF Next, RunStep, StopStep

\* TypeOK holds in every reachable state, for every instance: in particular the
\* restart counter and the count of quick deaths stay within their limits.
THEOREM TypeCorrect == Spec => []TypeOK
<1>1. TypeInv /\ [Next]_vars => TypeInv'
  BY NextTypeOK, NextCounters, NextCaptured DEF TypeInv
<1>2. TypeInv => TypeOK
  BY DEF TypeInv
<1>3. QED
  BY InitType, <1>1, <1>2, PTL DEF Spec
-----------------------------------------------------------------------------
(* Who owns s.cancel, and the life of the channels *)

\* The goroutine that s.cancel belongs to is the only one in the loop, a host
\* that is down runs none, and channels close in order, after the ownership.
Ownership ==
  /\ \A s \in Sessions : pc[s] \in Owning => cur = s
  /\ cur # None => pc[cur] \in Owning
  /\ host = "down" => \A s \in Sessions : pc[s] \in {"new", "dead"}
  /\ \A s \in doneClosed : pc[s] \in {"closeRestart", "ended"}
  /\ \A s \in restartClosed : pc[s] = "ended"

\* What setExit leaves behind for the deferred cleanup.
Leaving == \A s \in Sessions : pc[s] = "cleanup" => state \in {"stopping", "failed", "degraded"}

OwnInv == TypeInv /\ Ownership /\ Leaving /\ LiveStateHasSession

LEMMA InitOwn == Init => OwnInv
BY InitType DEF Init, OwnInv, Ownership, Leaving, LiveStateHasSession, Owning

LEMMA NextOwnership == OwnInv /\ [Next]_vars => Ownership'
<1> SUFFICES ASSUME OwnInv, [Next]_vars PROVE Ownership'
  OBVIOUS
<1> USE DEF OwnInv, TypeInv, TypeOK, Ownership, Owning, Goto,
        guarded, channels, processes, machine, counters, attempt, calls, others
<1>1. ASSUME NEW c \in Callers, Start(c) PROVE Ownership'
  <2>1. opened + 1 \in Sessions /\ pc[opened + 1] = "new" /\ opened + 1 # None
    BY <1>1, BoundsAssumption DEF Start, Sessions, Counters
  <2>2. \A s \in Sessions : s # opened + 1 => pc[s] \notin Owning
    BY <1>1 DEF Start, StartAllowed, Sessions
  <2>3. QED
    BY <1>1, <2>1, <2>2 DEF Start
<1>2. ASSUME NEW c \in Callers, Restart(c) PROVE Ownership'
  BY <1>2 DEF Restart
<1>3. ASSUME NEW c \in Callers, StopBegin(c) PROVE Ownership'
  BY <1>3 DEF StopBegin
<1>4. ASSUME NEW c \in Callers, StopCancel(c) PROVE Ownership'
  BY <1>4 DEF StopCancel
<1>5. ASSUME NEW c \in Callers, StopReturn(c) PROVE Ownership'
  BY <1>5 DEF StopReturn
<1>6. ASSUME NEW s \in Sessions, BuildFails(s) PROVE Ownership'
  BY <1>6 DEF BuildFails
<1>7. ASSUME NEW s \in Sessions, SpawnFails(s) PROVE Ownership'
  BY <1>7 DEF SpawnFails
<1>8. ASSUME NEW s \in Sessions, Spawn(s) PROVE Ownership'
  BY <1>8 DEF Spawn
<1>9. ASSUME NEW s \in Sessions, NEW ok \in BOOLEAN, Record(s, ok) PROVE Ownership'
  BY <1>9 DEF Record
<1>10. ASSUME NEW s \in Sessions, MarkRunning(s) PROVE Ownership'
  BY <1>10 DEF MarkRunning
<1>11. ASSUME NEW s \in Sessions, TakeExit(s) PROVE Ownership'
  BY <1>11 DEF TakeExit
<1>12. ASSUME NEW s \in Sessions, TakeRestart(s) PROVE Ownership'
  BY <1>12 DEF TakeRestart
<1>13. ASSUME NEW s \in Sessions, TakeStall(s) PROVE Ownership'
  BY <1>13 DEF TakeStall
<1>14. ASSUME NEW s \in Sessions, TakeCancel(s) PROVE Ownership'
  BY <1>14 DEF TakeCancel
<1>15. ASSUME NEW s \in Sessions, Terminate(s) PROVE Ownership'
  BY <1>15 DEF Terminate
<1>16. ASSUME NEW s \in Sessions, TerminateDone(s) PROVE Ownership'
  BY <1>16 DEF TerminateDone, Reaped
<1>17. ASSUME NEW s \in Sessions, ClearPidFile(s) PROVE Ownership'
  BY <1>17 DEF ClearPidFile
<1>18. ASSUME NEW s \in Sessions, RecordProgress(s) PROVE Ownership'
  BY <1>18 DEF RecordProgress
<1>19. ASSUME NEW s \in Sessions, NEW fast \in BOOLEAN, Account(s, fast) PROVE Ownership'
  BY <1>19 DEF Account, Verdict
<1>20. ASSUME NEW s \in Sessions, NoticeStop(s) PROVE Ownership'
  BY <1>20 DEF NoticeStop
<1>21. ASSUME NEW s \in Sessions, SetExit(s) PROVE Ownership'
  BY <1>21 DEF SetExit
<1>22. ASSUME NEW s \in Sessions, SetRestarting(s) PROVE Ownership'
  BY <1>22 DEF SetRestarting
<1>23. ASSUME NEW s \in Sessions, Wake(s) PROVE Ownership'
  BY <1>23 DEF Wake
<1>24. ASSUME NEW s \in Sessions, SleepCancelled(s) PROVE Ownership'
  BY <1>24 DEF SleepCancelled
<1>25. ASSUME NEW s \in Sessions, Forget(s) PROVE Ownership'
  BY <1>25 DEF Forget
<1>26. ASSUME NEW s \in Sessions, CloseDone(s) PROVE Ownership'
  BY <1>26 DEF CloseDone
<1>27. ASSUME NEW s \in Sessions, CloseRestart(s) PROVE Ownership'
  BY <1>27 DEF CloseRestart
<1>28. ASSUME NEW p \in Pids, FFmpegExits(p) PROVE Ownership'
  BY <1>28 DEF FFmpegExits
<1>29. CASE Crash
  BY <1>29 DEF Crash
<1>30. CASE Boot
  BY <1>30 DEF Boot
<1>31. CASE BootBlind
  BY <1>31 DEF BootBlind
<1>32. CASE BootGivesUp
  BY <1>32 DEF BootGivesUp
<1>33. CASE UNCHANGED vars
  BY <1>33 DEF vars
<1>34. QED
  BY <1>1, <1>2, <1>3, <1>4, <1>5, <1>6, <1>7, <1>8, <1>9, <1>10, <1>11, <1>12, <1>13,
     <1>14, <1>15, <1>16, <1>17, <1>18, <1>19, <1>20, <1>21, <1>22, <1>23, <1>24,
     <1>25, <1>26, <1>27, <1>28, <1>29, <1>30, <1>31, <1>32, <1>33
     DEF Next, RunStep, StopStep

LEMMA NextLeaving == OwnInv /\ [Next]_vars => Leaving' /\ LiveStateHasSession'
<1> SUFFICES ASSUME OwnInv, [Next]_vars PROVE Leaving' /\ LiveStateHasSession'
  OBVIOUS
<1> USE DEF OwnInv, TypeInv, TypeOK, Ownership, Owning, Leaving, LiveStateHasSession, Goto,
        guarded, channels, processes, machine, counters, attempt, calls, others
<1>1. ASSUME NEW c \in Callers, Start(c) PROVE Leaving' /\ LiveStateHasSession'
  BY <1>1 DEF Start, StartAllowed, Sessions
<1>2. ASSUME NEW c \in Callers, Restart(c) PROVE Leaving' /\ LiveStateHasSession'
  BY <1>2 DEF Restart
<1>3. ASSUME NEW c \in Callers, StopBegin(c) PROVE Leaving' /\ LiveStateHasSession'
  BY <1>3 DEF StopBegin
<1>4. ASSUME NEW c \in Callers, StopCancel(c) PROVE Leaving' /\ LiveStateHasSession'
  BY <1>4 DEF StopCancel
<1>5. ASSUME NEW c \in Callers, StopReturn(c) PROVE Leaving' /\ LiveStateHasSession'
  BY <1>5 DEF StopReturn
<1>6. ASSUME NEW s \in Sessions, BuildFails(s) PROVE Leaving' /\ LiveStateHasSession'
  BY <1>6 DEF BuildFails
<1>7. ASSUME NEW s \in Sessions, SpawnFails(s) PROVE Leaving' /\ LiveStateHasSession'
  BY <1>7 DEF SpawnFails
<1>8. ASSUME NEW s \in Sessions, Spawn(s) PROVE Leaving' /\ LiveStateHasSession'
  BY <1>8 DEF Spawn
<1>9. ASSUME NEW s \in Sessions, NEW ok \in BOOLEAN, Record(s, ok) PROVE Leaving' /\ LiveStateHasSession'
  BY <1>9 DEF Record
<1>10. ASSUME NEW s \in Sessions, MarkRunning(s) PROVE Leaving' /\ LiveStateHasSession'
  BY <1>10 DEF MarkRunning, Sessions
<1>11. ASSUME NEW s \in Sessions, TakeExit(s) PROVE Leaving' /\ LiveStateHasSession'
  BY <1>11 DEF TakeExit
<1>12. ASSUME NEW s \in Sessions, TakeRestart(s) PROVE Leaving' /\ LiveStateHasSession'
  BY <1>12 DEF TakeRestart
<1>13. ASSUME NEW s \in Sessions, TakeStall(s) PROVE Leaving' /\ LiveStateHasSession'
  BY <1>13 DEF TakeStall
<1>14. ASSUME NEW s \in Sessions, TakeCancel(s) PROVE Leaving' /\ LiveStateHasSession'
  BY <1>14 DEF TakeCancel
<1>15. ASSUME NEW s \in Sessions, Terminate(s) PROVE Leaving' /\ LiveStateHasSession'
  BY <1>15 DEF Terminate
<1>16. ASSUME NEW s \in Sessions, TerminateDone(s) PROVE Leaving' /\ LiveStateHasSession'
  BY <1>16 DEF TerminateDone, Reaped
<1>17. ASSUME NEW s \in Sessions, ClearPidFile(s) PROVE Leaving' /\ LiveStateHasSession'
  BY <1>17 DEF ClearPidFile
<1>18. ASSUME NEW s \in Sessions, RecordProgress(s) PROVE Leaving' /\ LiveStateHasSession'
  BY <1>18 DEF RecordProgress, Sessions
<1>19. ASSUME NEW s \in Sessions, NEW fast \in BOOLEAN, Account(s, fast) PROVE Leaving' /\ LiveStateHasSession'
  BY <1>19 DEF Account, Verdict
<1>20. ASSUME NEW s \in Sessions, NoticeStop(s) PROVE Leaving' /\ LiveStateHasSession'
  BY <1>20 DEF NoticeStop
<1>21. ASSUME NEW s \in Sessions, SetExit(s) PROVE Leaving' /\ LiveStateHasSession'
  BY <1>21 DEF SetExit
<1>22. ASSUME NEW s \in Sessions, SetRestarting(s) PROVE Leaving' /\ LiveStateHasSession'
  BY <1>22 DEF SetRestarting, Sessions
<1>23. ASSUME NEW s \in Sessions, Wake(s) PROVE Leaving' /\ LiveStateHasSession'
  BY <1>23 DEF Wake
<1>24. ASSUME NEW s \in Sessions, SleepCancelled(s) PROVE Leaving' /\ LiveStateHasSession'
  BY <1>24 DEF SleepCancelled
<1>25. ASSUME NEW s \in Sessions, Forget(s) PROVE Leaving' /\ LiveStateHasSession'
  BY <1>25 DEF Forget
<1>26. ASSUME NEW s \in Sessions, CloseDone(s) PROVE Leaving' /\ LiveStateHasSession'
  BY <1>26 DEF CloseDone
<1>27. ASSUME NEW s \in Sessions, CloseRestart(s) PROVE Leaving' /\ LiveStateHasSession'
  BY <1>27 DEF CloseRestart
<1>28. ASSUME NEW p \in Pids, FFmpegExits(p) PROVE Leaving' /\ LiveStateHasSession'
  BY <1>28 DEF FFmpegExits
<1>29. CASE Crash
  BY <1>29 DEF Crash
<1>30. CASE Boot
  BY <1>30 DEF Boot
<1>31. CASE BootBlind
  BY <1>31 DEF BootBlind
<1>32. CASE BootGivesUp
  BY <1>32 DEF BootGivesUp
<1>33. CASE UNCHANGED vars
  BY <1>33 DEF vars
<1>34. QED
  BY <1>1, <1>2, <1>3, <1>4, <1>5, <1>6, <1>7, <1>8, <1>9, <1>10, <1>11, <1>12, <1>13,
     <1>14, <1>15, <1>16, <1>17, <1>18, <1>19, <1>20, <1>21, <1>22, <1>23, <1>24,
     <1>25, <1>26, <1>27, <1>28, <1>29, <1>30, <1>31, <1>32, <1>33
     DEF Next, RunStep, StopStep

\* One goroutine of Run owns s.cancel, a host that is down runs none, and a live
\* state has a session: the first layer of the induction.
THEOREM OwnInvariant == Spec => []OwnInv
<1>1. OwnInv /\ [Next]_vars => OwnInv'
  BY NextTypeOK, NextCounters, NextCaptured, NextOwnership, NextLeaving DEF OwnInv, TypeInv
<1>2. QED
  BY InitOwn, <1>1, PTL DEF Spec

\* Restart never sends on, and the deferred cleanup never closes again, a closed
\* channel: no interleaving of Start, Restart, Stop and the cleanup panics.
THEOREM ChannelsSafe == Spec => []NoSendOnClosedChannel
<1>1. OwnInv => NoSendOnClosedChannel
  BY DEF OwnInv, Ownership, Owning, NoSendOnClosedChannel
<1>2. QED
  BY <1>1, OwnInvariant, PTL

\* The state shown is live only while a session exists.
THEOREM LiveStateSafe == Spec => []LiveStateHasSession
<1>1. OwnInv => LiveStateHasSession
  BY DEF OwnInv
<1>2. QED
  BY <1>1, OwnInvariant, PTL
-----------------------------------------------------------------------------
(* Which goroutine looks after which process, and what the pid file says *)

\* Where a goroutine has a process that may be running, and where the pid file
\* names it.
Guarding == {"record", "mark", "select", "terminating"}
Covered == {"mark", "select", "terminating", "drain", "dead"}

\* Every process was launched once, for one session.
Births ==
  /\ \A p \in live \cup stray \cup {pidfile} : p <= spawned
  /\ \A s \in Sessions : pid[s] <= spawned
  /\ \A s, t \in Sessions : pid[s] # None /\ pid[s] = pid[t] => s = t

\* A process that EasyStream knows of and that runs is looked after by a
\* goroutine, or was when the host went down.
Keeping ==
  /\ \A p \in live \ stray : \E s \in Sessions : pid[s] = p
  /\ \A s \in Sessions : pid[s] \in live \ stray => pc[s] \in Guarding \cup {"dead"}
  /\ host = "up" => \A s \in Sessions : pc[s] = "dead" => pid[s] \notin live \ stray
  /\ \A s \in Sessions : pc[s] # "dead" => pid[s] \notin stray

\* The pid file names a recorded process exactly as long as it may run.
Filing ==
  /\ \A s \in Sessions : pc[s] = "record" => pid[s] # None /\ s \notin recorded
  /\ \A s \in recorded : pid[s] # None
  /\ \A s \in recorded : pc[s] \notin Covered => pidfile # pid[s]
  /\ RecordedEncoderIsFound

ProcInv == OwnInv /\ Births /\ Keeping /\ OneEncoder /\ Filing

LEMMA InitProc == Init => ProcInv
BY InitOwn DEF Init, ProcInv, Births, Keeping, OneEncoder, Filing, RecordedEncoderIsFound, Covered

LEMMA NextBirths == ProcInv /\ [Next]_vars => Births'
<1> SUFFICES ASSUME ProcInv, [Next]_vars PROVE Births'
  OBVIOUS
<1> USE DEF ProcInv, OwnInv, TypeInv, TypeOK, Births, Pids, guarded, channels, processes, machine, counters, attempt, calls, others
<1>1. ASSUME NEW c \in Callers, Start(c) PROVE Births'
  BY <1>1 DEF Start, StartAllowed
<1>2. ASSUME NEW c \in Callers, Restart(c) PROVE Births'
  BY <1>2 DEF Restart
<1>3. ASSUME NEW c \in Callers, StopBegin(c) PROVE Births'
  BY <1>3 DEF StopBegin
<1>4. ASSUME NEW c \in Callers, StopCancel(c) PROVE Births'
  BY <1>4 DEF StopCancel
<1>5. ASSUME NEW c \in Callers, StopReturn(c) PROVE Births'
  BY <1>5 DEF StopReturn
<1>6. ASSUME NEW s \in Sessions, BuildFails(s) PROVE Births'
  BY <1>6 DEF BuildFails
<1>7. ASSUME NEW s \in Sessions, SpawnFails(s) PROVE Births'
  BY <1>7 DEF SpawnFails
<1>8. ASSUME NEW s \in Sessions, Spawn(s) PROVE Births'
  BY <1>8 DEF Spawn
<1>9. ASSUME NEW s \in Sessions, NEW ok \in BOOLEAN, Record(s, ok) PROVE Births'
  BY <1>9 DEF Record
<1>10. ASSUME NEW s \in Sessions, MarkRunning(s) PROVE Births'
  BY <1>10 DEF MarkRunning
<1>11. ASSUME NEW s \in Sessions, TakeExit(s) PROVE Births'
  BY <1>11 DEF TakeExit
<1>12. ASSUME NEW s \in Sessions, TakeRestart(s) PROVE Births'
  BY <1>12 DEF TakeRestart
<1>13. ASSUME NEW s \in Sessions, TakeStall(s) PROVE Births'
  BY <1>13 DEF TakeStall
<1>14. ASSUME NEW s \in Sessions, TakeCancel(s) PROVE Births'
  BY <1>14 DEF TakeCancel
<1>15. ASSUME NEW s \in Sessions, Terminate(s) PROVE Births'
  BY <1>15 DEF Terminate
<1>16. ASSUME NEW s \in Sessions, TerminateDone(s) PROVE Births'
  BY <1>16 DEF TerminateDone, Reaped
<1>17. ASSUME NEW s \in Sessions, ClearPidFile(s) PROVE Births'
  BY <1>17 DEF ClearPidFile
<1>18. ASSUME NEW s \in Sessions, RecordProgress(s) PROVE Births'
  BY <1>18 DEF RecordProgress
<1>19. ASSUME NEW s \in Sessions, NEW fast \in BOOLEAN, Account(s, fast) PROVE Births'
  BY <1>19 DEF Account
<1>20. ASSUME NEW s \in Sessions, NoticeStop(s) PROVE Births'
  BY <1>20 DEF NoticeStop
<1>21. ASSUME NEW s \in Sessions, SetExit(s) PROVE Births'
  BY <1>21 DEF SetExit, Settle
<1>22. ASSUME NEW s \in Sessions, SetRestarting(s) PROVE Births'
  BY <1>22 DEF SetRestarting
<1>23. ASSUME NEW s \in Sessions, Wake(s) PROVE Births'
  BY <1>23 DEF Wake
<1>24. ASSUME NEW s \in Sessions, SleepCancelled(s) PROVE Births'
  BY <1>24 DEF SleepCancelled
<1>25. ASSUME NEW s \in Sessions, Forget(s) PROVE Births'
  BY <1>25 DEF Forget
<1>26. ASSUME NEW s \in Sessions, CloseDone(s) PROVE Births'
  BY <1>26 DEF CloseDone
<1>27. ASSUME NEW s \in Sessions, CloseRestart(s) PROVE Births'
  BY <1>27 DEF CloseRestart
<1>28. ASSUME NEW p \in Pids, FFmpegExits(p) PROVE Births'
  BY <1>28 DEF FFmpegExits
<1>29. CASE Crash
  BY <1>29 DEF Crash, Settle
<1>30. CASE Boot
  BY <1>30 DEF Boot
<1>31. CASE BootBlind
  BY <1>31 DEF BootBlind
<1>32. CASE BootGivesUp
  BY <1>32 DEF BootGivesUp
<1>33. CASE UNCHANGED vars
  BY <1>33 DEF vars
<1>34. QED
  BY <1>1, <1>2, <1>3, <1>4, <1>5, <1>6, <1>7, <1>8, <1>9, <1>10, <1>11, <1>12, <1>13,
     <1>14, <1>15, <1>16, <1>17, <1>18, <1>19, <1>20, <1>21, <1>22, <1>23, <1>24,
     <1>25, <1>26, <1>27, <1>28, <1>29, <1>30, <1>31, <1>32, <1>33
     DEF Next, RunStep, StopStep

\* While the host is up, a process that is known and runs belongs to s.cancel's
\* session.
LEMMA KnownIsCurrent ==
  ASSUME ProcInv, host = "up", NEW p \in live \ stray
  PROVE  cur \in Sessions /\ pid[cur] = p /\ pc[cur] \in Guarding
BY DEF ProcInv, OwnInv, Ownership, Owning, Keeping, Guarding

LEMMA NextKeeping == ProcInv /\ [Next]_vars => Keeping' /\ OneEncoder'
<1> SUFFICES ASSUME ProcInv, [Next]_vars PROVE Keeping' /\ OneEncoder'
  OBVIOUS
<1> USE DEF ProcInv, OwnInv, TypeInv, TypeOK, Ownership, Owning, Keeping, Guarding, OneEncoder, Goto,
        guarded, channels, processes, machine, counters, attempt, calls, others
<1>1. ASSUME NEW c \in Callers, Start(c) PROVE Keeping' /\ OneEncoder'
  <2>1. opened + 1 \in Sessions /\ pc[opened + 1] = "new" /\ pid[opened + 1] = None /\ opened + 1 \notin recorded
    BY <1>1, BoundsAssumption DEF Start, Sessions, Counters
  <2>2. None \notin live \cup stray
    BY DEF Pids
  <2>3. QED
    BY <1>1, <2>1, <2>2 DEF Start
<1>2. ASSUME NEW c \in Callers, Restart(c) PROVE Keeping' /\ OneEncoder'
  BY <1>2 DEF Restart
<1>3. ASSUME NEW c \in Callers, StopBegin(c) PROVE Keeping' /\ OneEncoder'
  BY <1>3 DEF StopBegin
<1>4. ASSUME NEW c \in Callers, StopCancel(c) PROVE Keeping' /\ OneEncoder'
  BY <1>4 DEF StopCancel
<1>5. ASSUME NEW c \in Callers, StopReturn(c) PROVE Keeping' /\ OneEncoder'
  BY <1>5 DEF StopReturn
<1>6. ASSUME NEW s \in Sessions, BuildFails(s) PROVE Keeping' /\ OneEncoder'
  BY <1>6 DEF BuildFails
<1>7. ASSUME NEW s \in Sessions, SpawnFails(s) PROVE Keeping' /\ OneEncoder'
  BY <1>7 DEF SpawnFails
<1>8. ASSUME NEW s \in Sessions, Spawn(s) PROVE Keeping' /\ OneEncoder'
  <2>1. spawned + 1 \in Pids /\ spawned + 1 \notin live \cup stray /\ spawned + 1 # None
    BY <1>8, BoundsAssumption DEF Spawn, Births, Pids
  <2>2. \A t \in Sessions : pid[t] # spawned + 1
    BY <1>8 DEF Births, Pids
  <2>3. host = "up" /\ cur = s /\ pc[s] = "spawn"
    BY <1>8 DEF Spawn
  <2>4. live \ stray = {}
    BY <2>3, KnownIsCurrent
  <2>5. live' \ stray' = {spawned + 1} /\ pid' = [pid EXCEPT ![s] = spawned + 1] /\ stray' = stray
    BY <1>8, <2>1, <2>4 DEF Spawn
  <2>6. OneEncoder'
    BY <2>5
  <2>7. QED
    BY <1>8, <2>1, <2>2, <2>3, <2>5, <2>6 DEF Spawn
<1>9. ASSUME NEW s \in Sessions, NEW ok \in BOOLEAN, Record(s, ok) PROVE Keeping' /\ OneEncoder'
  BY <1>9 DEF Record
<1>10. ASSUME NEW s \in Sessions, MarkRunning(s) PROVE Keeping' /\ OneEncoder'
  BY <1>10 DEF MarkRunning
<1>11. ASSUME NEW s \in Sessions, TakeExit(s) PROVE Keeping' /\ OneEncoder'
  BY <1>11 DEF TakeExit
<1>12. ASSUME NEW s \in Sessions, TakeRestart(s) PROVE Keeping' /\ OneEncoder'
  BY <1>12 DEF TakeRestart
<1>13. ASSUME NEW s \in Sessions, TakeStall(s) PROVE Keeping' /\ OneEncoder'
  BY <1>13 DEF TakeStall
<1>14. ASSUME NEW s \in Sessions, TakeCancel(s) PROVE Keeping' /\ OneEncoder'
  BY <1>14 DEF TakeCancel
<1>15. ASSUME NEW s \in Sessions, Terminate(s) PROVE Keeping' /\ OneEncoder'
  BY <1>15 DEF Terminate
<1>16. ASSUME NEW s \in Sessions, TerminateDone(s) PROVE Keeping' /\ OneEncoder'
  BY <1>16 DEF TerminateDone, Reaped
<1>17. ASSUME NEW s \in Sessions, ClearPidFile(s) PROVE Keeping' /\ OneEncoder'
  BY <1>17 DEF ClearPidFile
<1>18. ASSUME NEW s \in Sessions, RecordProgress(s) PROVE Keeping' /\ OneEncoder'
  BY <1>18 DEF RecordProgress
<1>19. ASSUME NEW s \in Sessions, NEW fast \in BOOLEAN, Account(s, fast) PROVE Keeping' /\ OneEncoder'
  BY <1>19 DEF Account, Verdict
<1>20. ASSUME NEW s \in Sessions, NoticeStop(s) PROVE Keeping' /\ OneEncoder'
  BY <1>20 DEF NoticeStop
<1>21. ASSUME NEW s \in Sessions, SetExit(s) PROVE Keeping' /\ OneEncoder'
  BY <1>21 DEF SetExit, Settle
<1>22. ASSUME NEW s \in Sessions, SetRestarting(s) PROVE Keeping' /\ OneEncoder'
  BY <1>22 DEF SetRestarting
<1>23. ASSUME NEW s \in Sessions, Wake(s) PROVE Keeping' /\ OneEncoder'
  BY <1>23 DEF Wake
<1>24. ASSUME NEW s \in Sessions, SleepCancelled(s) PROVE Keeping' /\ OneEncoder'
  BY <1>24 DEF SleepCancelled
<1>25. ASSUME NEW s \in Sessions, Forget(s) PROVE Keeping' /\ OneEncoder'
  BY <1>25 DEF Forget
<1>26. ASSUME NEW s \in Sessions, CloseDone(s) PROVE Keeping' /\ OneEncoder'
  BY <1>26 DEF CloseDone
<1>27. ASSUME NEW s \in Sessions, CloseRestart(s) PROVE Keeping' /\ OneEncoder'
  BY <1>27 DEF CloseRestart
<1>28. ASSUME NEW p \in Pids, FFmpegExits(p) PROVE Keeping' /\ OneEncoder'
  BY <1>28 DEF FFmpegExits
<1>29. CASE Crash
  <2>1. \A s \in Sessions : ~(s <= opened) => pid[s] = None
    BY DEF Counters, Sessions
  <2>2. None \notin live \cup stray
    BY DEF Pids
  <2>3. QED
    BY <1>29, <2>1, <2>2 DEF Crash, Settle
<1>30. CASE Boot
  BY <1>30 DEF Boot
<1>31. CASE BootBlind
  BY <1>31 DEF BootBlind
<1>32. CASE BootGivesUp
  BY <1>32 DEF BootGivesUp
<1>33. CASE UNCHANGED vars
  BY <1>33 DEF vars
<1>34. QED
  BY <1>1, <1>2, <1>3, <1>4, <1>5, <1>6, <1>7, <1>8, <1>9, <1>10, <1>11, <1>12, <1>13,
     <1>14, <1>15, <1>16, <1>17, <1>18, <1>19, <1>20, <1>21, <1>22, <1>23, <1>24,
     <1>25, <1>26, <1>27, <1>28, <1>29, <1>30, <1>31, <1>32, <1>33
     DEF Next, RunStep, StopStep

LEMMA NextFiling == ProcInv /\ [Next]_vars => Filing'
<1> SUFFICES ASSUME ProcInv, [Next]_vars PROVE Filing'
  OBVIOUS
<1> USE DEF ProcInv, OwnInv, TypeInv, TypeOK, Filing, RecordedEncoderIsFound, Covered, Goto,
        guarded, channels, processes, machine, counters, attempt, calls, others
<1>1. ASSUME NEW c \in Callers, Start(c) PROVE Filing'
  <2>1. opened + 1 \in Sessions /\ pc[opened + 1] = "new" /\ pid[opened + 1] = None /\ opened + 1 \notin recorded
    BY <1>1, BoundsAssumption DEF Start, Sessions, Counters
  <2>2. QED
    BY <1>1, <2>1 DEF Start
<1>2. ASSUME NEW c \in Callers, Restart(c) PROVE Filing'
  BY <1>2 DEF Restart
<1>3. ASSUME NEW c \in Callers, StopBegin(c) PROVE Filing'
  BY <1>3 DEF StopBegin
<1>4. ASSUME NEW c \in Callers, StopCancel(c) PROVE Filing'
  BY <1>4 DEF StopCancel
<1>5. ASSUME NEW c \in Callers, StopReturn(c) PROVE Filing'
  BY <1>5 DEF StopReturn
<1>6. ASSUME NEW s \in Sessions, BuildFails(s) PROVE Filing'
  BY <1>6 DEF BuildFails
<1>7. ASSUME NEW s \in Sessions, SpawnFails(s) PROVE Filing'
  BY <1>7 DEF SpawnFails
<1>8. ASSUME NEW s \in Sessions, Spawn(s) PROVE Filing'
  <2>1. spawned + 1 \in Pids /\ spawned + 1 \notin live \cup stray /\ spawned + 1 # None
    BY <1>8, BoundsAssumption DEF Spawn, Births, Pids
  <2>2. \A t \in Sessions : pid[t] # spawned + 1
    BY <1>8 DEF Births, Pids
  <2>3. QED
    BY <1>8, <2>1, <2>2 DEF Spawn
<1>9. ASSUME NEW s \in Sessions, NEW ok \in BOOLEAN, Record(s, ok) PROVE Filing'
  <2>1. host = "up" /\ cur = s /\ pid[s] # None /\ s \notin recorded /\ pid[s] \notin stray
    BY <1>9 DEF Record, Ownership, Owning, Keeping
  <2>2. \A t \in recorded : t # s /\ pid[t] # pid[s]
    BY <2>1 DEF Births
  <2>3. ASSUME NEW t \in recorded, pid[t] \in live \ stray PROVE FALSE
    <3>1. pid[t] \in live \ stray /\ pid[t] # None
      BY <2>3
    <3>2. pid[cur] = pid[t]
      BY <2>1, <3>1, KnownIsCurrent
    <3>3. QED
      BY <2>1, <2>2, <3>2
  <2>4. QED
    BY <1>9, <2>1, <2>2, <2>3 DEF Record
<1>10. ASSUME NEW s \in Sessions, MarkRunning(s) PROVE Filing'
  BY <1>10 DEF MarkRunning
<1>11. ASSUME NEW s \in Sessions, TakeExit(s) PROVE Filing'
  BY <1>11 DEF TakeExit
<1>12. ASSUME NEW s \in Sessions, TakeRestart(s) PROVE Filing'
  BY <1>12 DEF TakeRestart
<1>13. ASSUME NEW s \in Sessions, TakeStall(s) PROVE Filing'
  BY <1>13 DEF TakeStall
<1>14. ASSUME NEW s \in Sessions, TakeCancel(s) PROVE Filing'
  BY <1>14 DEF TakeCancel
<1>15. ASSUME NEW s \in Sessions, Terminate(s) PROVE Filing'
  BY <1>15 DEF Terminate
<1>16. ASSUME NEW s \in Sessions, TerminateDone(s) PROVE Filing'
  BY <1>16 DEF TerminateDone, Reaped
<1>17. ASSUME NEW s \in Sessions, ClearPidFile(s) PROVE Filing'
  <2>1. host = "up" /\ cur = s /\ pc[s] = "drain"
    BY <1>17 DEF ClearPidFile, Ownership, Owning
  <2>2. live \ stray = {}
    BY <2>1, KnownIsCurrent DEF Guarding
  <2>3. QED
    BY <1>17, <2>2 DEF ClearPidFile
<1>18. ASSUME NEW s \in Sessions, RecordProgress(s) PROVE Filing'
  BY <1>18 DEF RecordProgress
<1>19. ASSUME NEW s \in Sessions, NEW fast \in BOOLEAN, Account(s, fast) PROVE Filing'
  BY <1>19 DEF Account, Verdict
<1>20. ASSUME NEW s \in Sessions, NoticeStop(s) PROVE Filing'
  BY <1>20 DEF NoticeStop
<1>21. ASSUME NEW s \in Sessions, SetExit(s) PROVE Filing'
  BY <1>21 DEF SetExit, Settle
<1>22. ASSUME NEW s \in Sessions, SetRestarting(s) PROVE Filing'
  BY <1>22 DEF SetRestarting
<1>23. ASSUME NEW s \in Sessions, Wake(s) PROVE Filing'
  BY <1>23 DEF Wake
<1>24. ASSUME NEW s \in Sessions, SleepCancelled(s) PROVE Filing'
  BY <1>24 DEF SleepCancelled
<1>25. ASSUME NEW s \in Sessions, Forget(s) PROVE Filing'
  BY <1>25 DEF Forget
<1>26. ASSUME NEW s \in Sessions, CloseDone(s) PROVE Filing'
  BY <1>26 DEF CloseDone
<1>27. ASSUME NEW s \in Sessions, CloseRestart(s) PROVE Filing'
  BY <1>27 DEF CloseRestart
<1>28. ASSUME NEW p \in Pids, FFmpegExits(p) PROVE Filing'
  BY <1>28 DEF FFmpegExits
<1>29. CASE Crash
  <2>1. \A s \in recorded : s <= opened
    BY DEF Counters, Sessions
  <2>2. QED
    BY <1>29, <2>1 DEF Crash, Settle
<1>30. CASE Boot
  <2>1. ASSUME NEW s \in recorded', pid'[s] \in live' PROVE scan' = "missed"
    <3>1. s \in recorded /\ pid[s] \in live /\ pid[s] # pidfile /\ scan' = scan
      BY <1>30, <2>1 DEF Boot
    <3>2. QED
      BY <3>1
  <2>2. stray' = live' /\ pidfile' = None
    BY <1>30 DEF Boot
  <2>3. QED
    BY <1>30, <2>1, <2>2 DEF Boot
<1>31. CASE BootBlind
  BY <1>31 DEF BootBlind
<1>32. CASE BootGivesUp
  BY <1>32 DEF BootGivesUp
<1>33. CASE UNCHANGED vars
  BY <1>33 DEF vars
<1>34. QED
  BY <1>1, <1>2, <1>3, <1>4, <1>5, <1>6, <1>7, <1>8, <1>9, <1>10, <1>11, <1>12, <1>13,
     <1>14, <1>15, <1>16, <1>17, <1>18, <1>19, <1>20, <1>21, <1>22, <1>23, <1>24,
     <1>25, <1>26, <1>27, <1>28, <1>29, <1>30, <1>31, <1>32, <1>33
     DEF Next, RunStep, StopStep

\* One encoder runs, kept by the session that spawned it, and the pid file names a
\* recorded process that may still run: the second layer of the induction.
THEOREM ProcInvariant == Spec => []ProcInv
<1>1. ProcInv /\ [Next]_vars => ProcInv'
  BY NextTypeOK, NextCounters, NextCaptured, NextOwnership, NextLeaving, NextBirths,
     NextKeeping, NextFiling DEF ProcInv, OwnInv, TypeInv
<1>2. QED
  BY InitProc, <1>1, PTL DEF Spec

\* At most one FFmpeg that EasyStream knows of runs, in every reachable state.
THEOREM EncoderUnique == Spec => []OneEncoder
<1>1. ProcInv => OneEncoder
  BY DEF ProcInv
<1>2. QED
  BY <1>1, ProcInvariant, PTL

\* When Stop's done channel is closed, FFmpeg has exited and the pid file does
\* not name it.
THEOREM StopIsFinal == Spec => []StopReturnsAfterExit
<1>1. ProcInv => StopReturnsAfterExit
  BY DEF ProcInv, OwnInv, TypeInv, TypeOK, Ownership, Owning, Keeping, Filing, Guarding,
         Covered, Sessions, StopReturnsAfterExit
<1>2. QED
  BY <1>1, ProcInvariant, PTL

\* A recorded FFmpeg is named by the pid file as long as it runs, until a boot
\* cannot read that file, or gives up the process it names.
THEOREM RecordedIsFound == Spec => []RecordedEncoderIsFound
<1>1. ProcInv => RecordedEncoderIsFound
  BY DEF ProcInv, Filing
<1>2. QED
  BY <1>1, ProcInvariant, PTL
=============================================================================
