-------------------------- MODULE SrtReceiverProofs --------------------------
(***************************************************************************)
(* Proofs about SrtReceiver for every set of callers and configurations    *)
(* and every number of Apply calls and FFmpegs.  Three layers: the types,  *)
(* with as many loops still to be opened as the bound has left; the life   *)
(* of a loop, whoever opened it; and, as long as no two Apply calls have   *)
(* overlapped, that the loop the receiver holds or tears down is the only  *)
(* one there is.                                                           *)
(***************************************************************************)
EXTENDS SrtReceiver, FiniteSetTheorems, TLAPS

USE DEF None

-----------------------------------------------------------------------------
(* Types *)

\* Callers that may still open a loop.
Owing == {c \in Callers : callPc[c] \in {"cancel", "wait", "set"}}

\* Each loop is opened by an Apply call of its own.
Opening == IsFiniteSet(Owing) /\ opened + Cardinality(Owing) <= begun

\* A caller that cancels or waits has a loop to cancel.
Captured == \A c \in Callers : callPc[c] \in {"cancel", "wait"} => prev[c] \in Loops

Numbers == begun \in 0..MaxApplies /\ opened \in 0..MaxApplies

CallTypes ==
  /\ current \in Configs \cup {NoConfig}
  /\ handle \in Loops \cup {None}
  /\ callPc \in [Callers -> {"idle", "cancel", "wait", "set", "clear"}]
  /\ arg \in [Callers -> Configs \cup {NoConfig}]
  /\ prev \in [Callers -> Loops \cup {None}]
  /\ Numbers

LoopTypes ==
  /\ state \in {"idle", "starting", "running", "failed"}
  /\ cancelled \subseteq Loops
  /\ ended \subseteq Loops
  /\ pc \in [Loops -> LoopPCs]
  /\ want \in [Loops -> Configs \cup {NoConfig}]
  /\ running \subseteq Loops
  /\ watch \in [Loops -> {"idle", "stale"}]
  /\ spawned \in 0..MaxSpawns

Flags == peer \in BOOLEAN /\ overlapped \in BOOLEAN

TypeInv == CallTypes /\ LoopTypes /\ Flags /\ Captured /\ Opening

LEMMA TypeInvTypeOK == TypeInv => TypeOK
  BY DEF TypeInv, CallTypes, Numbers, LoopTypes, Flags, TypeOK

LEMMA InitType == Init => TypeInv
<1> SUFFICES ASSUME Init PROVE TypeInv
  OBVIOUS
<1> USE ReceiverAssumption
<1>1. CallTypes /\ LoopTypes /\ Captured
  BY DEF Init, CallTypes, Numbers, LoopTypes, Captured, LoopPCs
<1>2. Flags
  BY Zenon DEF Init, Flags
<1>3. Opening
  <2>1. Owing = {}
    BY DEF Init, Owing
  <2>2. QED
    BY <2>1, FS_EmptySet DEF Init, Opening
<1>4. QED
  BY <1>1, <1>2, <1>3 DEF TypeInv

\* The steps of a loop, of its FFmpeg and of its other goroutines.
LoopMoves(l) ==
  \/ LoopStep(l) \/ FFmpegExits(l)
  \/ \E connected \in BOOLEAN : Progress(l, connected)
  \/ WatchLook(l) \/ WatchPublish(l)

LEMMA NextSplit ==
  ASSUME Next
  PROVE  \/ \E c \in Callers, cfg \in Configs \cup {NoConfig} : ApplyBegin(c, cfg)
         \/ \E c \in Callers : ApplyStep(c)
         \/ \E l \in Loops : LoopMoves(l)
  BY Zenon DEF Next, LoopMoves

\* They touch nothing of the calls and neither the handle nor `current`.
LEMMA LoopMovesKeep ==
  ASSUME NEW l \in Loops, LoopMoves(l)
  PROVE  UNCHANGED <<owner, calls>> /\ UNCHANGED want
<1>1. CASE LoopStep(l)
  BY <1>1 DEF LoopStep, Check, Begin, SpawnFails, Spawn, Kill, Waited, Joined, CheckAfter, SetFailed, Retry,
     BackoffCancelled, Leave, CloseDone
<1>2. CASE ~LoopStep(l)
  BY <1>2, LoopMoves(l) DEF LoopMoves, FFmpegExits, Progress, WatchLook, WatchPublish, loops
<1>3. QED
  BY <1>1, <1>2

LEMMA LoopMovesType ==
  ASSUME TypeInv, NEW l \in Loops, LoopMoves(l)
  PROVE  LoopTypes'
<1> USE DEF TypeInv, LoopTypes, LoopPCs, Goto, SetStatus
<1>1. CASE LoopStep(l)
  <2>1. CASE Check(l) \/ Begin(l) \/ SpawnFails(l)
    BY <2>1 DEF Check, Begin, SpawnFails, status
  <2>2. CASE Spawn(l)
    BY <2>2, ReceiverAssumption DEF Spawn, status
  <2>3. CASE Kill(l) \/ Waited(l) \/ Joined(l) \/ CheckAfter(l)
    BY <2>3 DEF Kill, Waited, Joined, CheckAfter, status
  <2>4. CASE SetFailed(l) \/ Retry(l) \/ BackoffCancelled(l) \/ Leave(l) \/ CloseDone(l)
    BY <2>4 DEF SetFailed, Retry, BackoffCancelled, Leave, CloseDone, status
  <2>5. QED
    BY <1>1, <2>1, <2>2, <2>3, <2>4 DEF LoopStep
<1>2. CASE FFmpegExits(l) \/ WatchLook(l) \/ WatchPublish(l)
  BY <1>2 DEF FFmpegExits, WatchLook, WatchPublish, status
<1>3. ASSUME NEW connected \in BOOLEAN, Progress(l, connected) PROVE LoopTypes'
  BY <1>3 DEF Progress, loops
<1>4. QED
  BY <1>1, <1>2, <1>3 DEF LoopMoves

LEMMA FlagsStay == Flags /\ [Next]_vars => Flags'
<1> SUFFICES ASSUME Flags, [Next]_vars PROVE Flags'
  OBVIOUS
<1> USE DEF Flags
<1>1. ASSUME NEW c \in Callers, NEW cfg \in Configs \cup {NoConfig}, ApplyBegin(c, cfg) PROVE Flags'
  BY <1>1, Zenon DEF ApplyBegin, status
<1>2. ASSUME NEW c \in Callers, ApplyStep(c) PROVE Flags'
  BY <1>2, Zenon DEF ApplyStep, ApplyCancel, ApplyWait, ApplyIdle, ApplyClear, ApplyStart, SetStatus, status
<1>3. ASSUME NEW l \in Loops, LoopMoves(l) PROVE Flags'
  <2>1. overlapped' = overlapped
    BY <1>3, LoopMovesKeep DEF calls
  <2>2. peer' \in BOOLEAN
    BY <1>3, Zenon DEF LoopMoves, LoopStep, Check, Begin, SpawnFails, Spawn, Kill, Waited, Joined, CheckAfter,
       SetFailed, Retry, BackoffCancelled, Leave, CloseDone, FFmpegExits, Progress, WatchLook, WatchPublish,
       SetStatus, status
  <2>3. QED
    BY <2>1, <2>2
<1>4. CASE UNCHANGED vars
  BY <1>4 DEF vars, status, calls
<1>5. QED
  BY <1>1, <1>2, <1>3, <1>4, NextSplit

\* Apply's calls: a caller is counted in Owing from its first critical section
\* until it has opened its loop, or found that none is wanted.
LEMMA ApplyBeginType ==
  ASSUME TypeInv, NEW c \in Callers, NEW cfg \in Configs \cup {NoConfig}, ApplyBegin(c, cfg)
  PROVE  CallTypes' /\ LoopTypes' /\ Captured' /\ Opening'
<1> USE ReceiverAssumption DEF TypeInv
<1>1. begun' = begun + 1 /\ begun' \in 0..MaxApplies /\ UNCHANGED opened
  BY DEF ApplyBegin, CallTypes, Numbers
<1>2. CallTypes'
  BY <1>1 DEF ApplyBegin, CallTypes, Numbers, Step, status
<1>3. LoopTypes'
  BY DEF ApplyBegin, LoopTypes, status, loops
<1>4. Captured'
  BY DEF ApplyBegin, CallTypes, Captured, Step
<1>5. Opening'
  <2>1. Owing' = Owing \cup {c} /\ c \notin Owing
    BY DEF ApplyBegin, CallTypes, Owing, Step
  <2>2. IsFiniteSet(Owing') /\ Cardinality(Owing') = Cardinality(Owing) + 1
    BY <2>1, FS_AddElement DEF Opening
  <2>3. Cardinality(Owing) \in Nat
    BY FS_CardinalityType DEF Opening
  <2>4. QED
    BY <1>1, <2>2, <2>3 DEF Opening, CallTypes, Numbers
<1>6. QED
  BY <1>2, <1>3, <1>4, <1>5

\* One of them opens a loop only while the bound has room for it.
LEMMA RoomToOpen ==
  ASSUME TypeInv, NEW c \in Callers, callPc[c] = "set"
  PROVE  opened + 1 \in Loops /\ opened + 1 \in 1..MaxApplies
<1>1. Owing # {} /\ IsFiniteSet(Owing)
  BY DEF TypeInv, Opening, Owing
<1>2. Cardinality(Owing) \in Nat /\ Cardinality(Owing) # 0
  BY <1>1, FS_CardinalityType, FS_EmptySet
<1>3. QED
  BY <1>2, ReceiverAssumption DEF TypeInv, Opening, CallTypes, Numbers, Loops

LEMMA OwingLess ==
  ASSUME TypeInv, NEW c \in Callers, callPc[c] = "set", Owing' = Owing \ {c}
  PROVE  IsFiniteSet(Owing') /\ Cardinality(Owing') + 1 = Cardinality(Owing)
<1>1. c \in Owing /\ IsFiniteSet(Owing)
  BY DEF TypeInv, Opening, Owing
<1>2. IsFiniteSet(Owing') /\ Cardinality(Owing') = Cardinality(Owing) - 1
  BY <1>1, FS_RemoveElement
<1>3. QED
  BY <1>1, <1>2, FS_CardinalityType

LEMMA ApplyStepType ==
  ASSUME TypeInv, NEW c \in Callers, ApplyStep(c)
  PROVE  CallTypes' /\ LoopTypes' /\ Captured' /\ Opening'
<1> USE ReceiverAssumption DEF TypeInv
<1>1. CASE ApplyCancel(c)
  <2>1. CallTypes' /\ LoopTypes' /\ Captured'
    BY <1>1 DEF ApplyCancel, CallTypes, LoopTypes, Captured, Numbers, Step, status, owner
  <2>2. Owing' = Owing /\ UNCHANGED <<opened, begun>>
    BY <1>1 DEF ApplyCancel, Owing, CallTypes, Step
  <2>3. QED
    BY <2>1, <2>2 DEF Opening
<1>2. CASE ApplyWait(c)
  <2>1. CallTypes' /\ LoopTypes' /\ Captured'
    BY <1>2 DEF ApplyWait, CallTypes, LoopTypes, Captured, Numbers, Step, status, owner, loops
  <2>2. Owing' = Owing /\ UNCHANGED <<opened, begun>>
    BY <1>2 DEF ApplyWait, Owing, CallTypes, Step
  <2>3. QED
    BY <2>1, <2>2 DEF Opening
<1>3. CASE ApplyIdle(c)
  <2>1. CallTypes' /\ LoopTypes' /\ Captured'
    BY <1>3 DEF ApplyIdle, CallTypes, LoopTypes, Captured, Numbers, Step, SetStatus, owner, loops
  <2>2. callPc[c] = "set" /\ Owing' = Owing \ {c} /\ UNCHANGED <<opened, begun>>
    BY <1>3 DEF ApplyIdle, Owing, CallTypes, Step
  <2>3. IsFiniteSet(Owing') /\ Cardinality(Owing') + 1 = Cardinality(Owing)
    BY <2>2, OwingLess
  <2>4. Cardinality(Owing') \in Nat
    BY <2>3, FS_CardinalityType
  <2>5. Opening'
    BY <2>2, <2>3, <2>4 DEF Opening, CallTypes, Numbers
  <2>6. QED
    BY <2>1, <2>5
<1>4. CASE ApplyClear(c)
  <2>1. CallTypes' /\ LoopTypes' /\ Captured'
    BY <1>4 DEF ApplyClear, CallTypes, LoopTypes, Captured, Numbers, Step, status, loops
  <2>2. Owing' = Owing /\ UNCHANGED <<opened, begun>>
    BY <1>4 DEF ApplyClear, Owing, CallTypes, Step
  <2>3. QED
    BY <2>1, <2>2 DEF Opening
<1>5. CASE ApplyStart(c)
  <2>1. callPc[c] = "set" /\ opened' = opened + 1 /\ UNCHANGED begun
    BY <1>5 DEF ApplyStart
  <2>2. opened + 1 \in Loops /\ opened' \in 0..MaxApplies
    BY <2>1, RoomToOpen
  <2>3. CallTypes' /\ Captured'
    BY <1>5, <2>1, <2>2 DEF ApplyStart, CallTypes, Captured, Numbers, Step
  <2>4. LoopTypes'
    BY <1>5, <2>2 DEF ApplyStart, CallTypes, LoopTypes, LoopPCs, Goto, status
  <2>5. Owing' = Owing \ {c}
    BY <1>5 DEF ApplyStart, Owing, CallTypes, Step
  <2>6. IsFiniteSet(Owing') /\ Cardinality(Owing') + 1 = Cardinality(Owing)
    BY <2>1, <2>5, OwingLess
  <2>7. Cardinality(Owing') \in Nat
    BY <2>6, FS_CardinalityType
  <2>8. Opening'
    BY <2>1, <2>6, <2>7 DEF Opening, CallTypes, Numbers
  <2>9. QED
    BY <2>3, <2>4, <2>8
<1>6. QED
  BY <1>1, <1>2, <1>3, <1>4, <1>5 DEF ApplyStep

LEMMA NextType == TypeInv /\ [Next]_vars => TypeInv'
<1> SUFFICES ASSUME TypeInv, [Next]_vars PROVE TypeInv'
  OBVIOUS
<1>1. Flags'
  BY FlagsStay DEF TypeInv
<1>2. ASSUME NEW c \in Callers, NEW cfg \in Configs \cup {NoConfig}, ApplyBegin(c, cfg) PROVE TypeInv'
  BY <1>1, <1>2, ApplyBeginType DEF TypeInv
<1>3. ASSUME NEW c \in Callers, ApplyStep(c) PROVE TypeInv'
  BY <1>1, <1>3, ApplyStepType DEF TypeInv
<1>4. ASSUME NEW l \in Loops, LoopMoves(l) PROVE TypeInv'
  <2>1. UNCHANGED <<owner, calls>>
    BY <1>4, LoopMovesKeep
  <2>2. CallTypes' /\ Captured' /\ Opening'
    BY <2>1 DEF TypeInv, CallTypes, Numbers, Captured, Opening, Owing, owner, calls
  <2>3. QED
    BY <1>1, <1>4, <2>2, LoopMovesType DEF TypeInv
<1>5. CASE UNCHANGED vars
  <2>1. CallTypes' /\ Captured' /\ Opening'
    BY <1>5 DEF TypeInv, CallTypes, Numbers, Captured, Opening, Owing, vars, owner, calls
  <2>2. LoopTypes'
    BY <1>5 DEF TypeInv, LoopTypes, vars, status, loops
  <2>3. QED
    BY <1>1, <2>1, <2>2 DEF TypeInv
<1>6. QED
  BY <1>2, <1>3, <1>4, <1>5, NextSplit

LEMMA TypeInvAlways == Spec => []TypeInv
  BY InitType, NextType, PTL DEF Spec

\* Every variable keeps its type, and no more loops are opened than Apply calls
\* began, whoever overlaps with whom.
THEOREM ReceiverTypeCorrect == Spec => []TypeOK
  BY TypeInvAlways, TypeInvTypeOK, PTL

-----------------------------------------------------------------------------
(* The life of a loop *)

\* FFmpeg runs while its loop waits for it, the watchdog watches while its loop
\* attends to FFmpeg, and loops are opened in order.
Lives ==
  \A l \in Loops :
    /\ l \in running => pc[l] = "run"
    /\ l \in ended => pc[l] = "ended"
    /\ watch[l] = "stale" => pc[l] \in {"run", "drain"}
    /\ pc[l] = "new" <=> l > opened

\* A status other than idle is some loop's that has not left yet.
Busy == state # "idle" => \E l \in Loops : pc[l] \notin {"new", "close", "ended"}

\* A connected peer belongs to an FFmpeg that is attended to, or was just now.
Attended == peer => \E l \in Loops : pc[l] \in {"run", "drain", "exited", "fail", "leave"}

LifeInv == TypeInv /\ Lives /\ Busy /\ Attended

LEMMA InitLife == Init => Lives /\ Busy /\ Attended
<1> SUFFICES ASSUME Init PROVE Lives /\ Busy /\ Attended
  OBVIOUS
<1>1. Lives
  BY ReceiverAssumption DEF Init, Lives, Loops
<1>2. Busy /\ Attended
  BY DEF Init, Busy, Attended
<1>3. QED
  BY <1>1, <1>2

\* What one loop's goroutines do leaves the other loops alone.
LEMMA LoopMovesLife ==
  ASSUME LifeInv, NEW l \in Loops, LoopMoves(l)
  PROVE  Lives' /\ Busy' /\ Attended'
<1> USE DEF LifeInv, TypeInv, LoopTypes, LoopPCs, Lives, Busy, Attended, Goto, SetStatus
<1>0. UNCHANGED opened
  BY LoopMovesKeep DEF calls
<1>1. CASE Check(l)
  BY <1>0, <1>1 DEF Check, status
<1>2. CASE Begin(l)
  BY <1>0, <1>2 DEF Begin
<1>3. CASE SpawnFails(l)
  BY <1>0, <1>3 DEF SpawnFails, status
<1>4. CASE Spawn(l)
  BY <1>0, <1>4 DEF Spawn, status
<1>5. CASE Kill(l) \/ FFmpegExits(l)
  BY <1>0, <1>5 DEF Kill, FFmpegExits, status
<1>6. CASE Waited(l)
  BY <1>0, <1>6 DEF Waited, status
<1>7. CASE Joined(l)
  BY <1>0, <1>7 DEF Joined, status
<1>8. CASE CheckAfter(l)
  BY <1>0, <1>8 DEF CheckAfter, status
<1>9. CASE SetFailed(l)
  BY <1>0, <1>9 DEF SetFailed
<1>10. CASE Retry(l) \/ BackoffCancelled(l)
  BY <1>0, <1>10 DEF Retry, BackoffCancelled, status
<1>11. CASE Leave(l)
  BY <1>0, <1>11 DEF Leave
<1>12. CASE CloseDone(l)
  BY <1>0, <1>12 DEF CloseDone, status
<1>13. ASSUME NEW connected \in BOOLEAN, Progress(l, connected) PROVE Lives' /\ Busy' /\ Attended'
  BY <1>0, <1>13 DEF Progress, loops
<1>14. CASE WatchLook(l)
  BY <1>0, <1>14 DEF WatchLook, status
<1>15. CASE WatchPublish(l)
  BY <1>0, <1>15 DEF WatchPublish
<1>16. QED
  BY <1>1, <1>2, <1>3, <1>4, <1>5, <1>6, <1>7, <1>8, <1>9, <1>10, <1>11, <1>12, <1>13, <1>14, <1>15
  DEF LoopMoves, LoopStep

LEMMA NextLife == LifeInv /\ [Next]_vars => LifeInv'
<1> SUFFICES ASSUME LifeInv, [Next]_vars PROVE LifeInv'
  OBVIOUS
<1>0. TypeInv'
  BY NextType DEF LifeInv
<1> USE DEF LifeInv, Lives, Busy, Attended
<1>1. ASSUME NEW c \in Callers, NEW cfg \in Configs \cup {NoConfig}, ApplyBegin(c, cfg) PROVE LifeInv'
  BY <1>0, <1>1 DEF ApplyBegin, status, loops
<1>2. ASSUME NEW c \in Callers, ApplyCancel(c) \/ ApplyWait(c) \/ ApplyClear(c) PROVE LifeInv'
  BY <1>0, <1>2 DEF ApplyCancel, ApplyWait, ApplyClear, status, loops
<1>3. ASSUME NEW c \in Callers, ApplyIdle(c) PROVE LifeInv'
  BY <1>0, <1>3 DEF ApplyIdle, SetStatus, loops
<1>4. ASSUME NEW c \in Callers, ApplyStart(c) PROVE LifeInv'
  <2>1. opened + 1 \in Loops /\ opened' = opened + 1 /\ pc[opened + 1] = "new" /\ pc' = [pc EXCEPT ![opened + 1] = "check"]
    BY <1>4, RoomToOpen DEF ApplyStart, Goto, TypeInv, CallTypes, Numbers
  <2>2. UNCHANGED <<status, running, ended, watch>>
    BY <1>4 DEF ApplyStart
  <2>3. Lives'
    BY <2>1, <2>2 DEF TypeInv, LoopTypes, CallTypes, Numbers, Loops
  <2>4. Busy' /\ Attended'
    BY <2>1, <2>2 DEF TypeInv, LoopTypes, status
  <2>5. QED
    BY <1>0, <2>3, <2>4
<1>5. ASSUME NEW l \in Loops, LoopMoves(l) PROVE LifeInv'
  BY <1>0, <1>5, LoopMovesLife
<1>6. CASE UNCHANGED vars
  BY <1>0, <1>6 DEF vars, status, loops, calls
<1>7. QED
  BY <1>1, <1>2, <1>3, <1>4, <1>5, <1>6, NextSplit DEF ApplyStep

LEMMA LifeInvAlways == Spec => []LifeInv
<1>1. Init => LifeInv
  BY InitType, InitLife DEF LifeInv
<1>2. QED
  BY <1>1, NextLife, PTL DEF Spec

\* Whoever waited for a loop's done channel may bind the port: its FFmpeg is
\* gone, also when Apply calls overlap.
THEOREM DoneIsFinal == Spec => []DoneMeansGone
<1>1. LifeInv => DoneMeansGone
  BY DEF LifeInv, TypeInv, LoopTypes, Lives, DoneMeansGone
<1>2. QED
  BY <1>1, LifeInvAlways, PTL

\* The dashboard's status follows the loops, however many there are.
THEOREM StatusHonest == Spec => []StatusFollowsLoops
<1>1. LifeInv => StatusFollowsLoops
  BY DEF LifeInv, Busy, Attended, StatusFollowsLoops
<1>2. QED
  BY <1>1, LifeInvAlways, PTL

-----------------------------------------------------------------------------
(* Apply calls that come one after the other *)

\* One caller at a time is in Apply, and the receiver holds no loop meanwhile.
Serial ==
  /\ \A c, d \in Callers : callPc[c] # "idle" /\ callPc[d] # "idle" => c = d
  /\ \A c \in Callers : callPc[c] # "idle" => handle = None

\* A loop that has not ended is the one held, or the one being torn down.
Sole ==
  \A l \in Loops :
    pc[l] \notin {"new", "ended"} =>
      l = handle \/ \E c \in Callers : callPc[c] \in {"cancel", "wait"} /\ prev[c] = l

\* The loop held runs what was asked for last.
Wanted ==
  /\ handle # None => current # NoConfig /\ want[handle] = current
  /\ handle = None /\ current # NoConfig => \E c \in Callers : callPc[c] # "idle"

SerialInv == LifeInv /\ (~overlapped => Serial /\ Sole /\ Wanted)

\* Then there is at most one.
LEMMA SoleIsOne ==
  ASSUME SerialInv, ~overlapped, NEW k \in Loops, NEW l \in Loops,
         pc[k] \notin {"new", "ended"}, pc[l] \notin {"new", "ended"}
  PROVE  k = l
  BY DEF SerialInv, Serial, Sole, Loops

LEMMA NextSerial == SerialInv /\ [Next]_vars => SerialInv'
<1> SUFFICES ASSUME SerialInv, [Next]_vars PROVE SerialInv'
  OBVIOUS
<1>0. LifeInv'
  BY NextLife DEF SerialInv
<1> USE DEF SerialInv, LifeInv, TypeInv, CallTypes
<1>1. ASSUME NEW c \in Callers, NEW cfg \in Configs \cup {NoConfig}, ApplyBegin(c, cfg) PROVE SerialInv'
  <2> SUFFICES ASSUME ~overlapped' PROVE Serial' /\ Sole' /\ Wanted'
    BY <1>0
  <2>1. ~overlapped /\ \A d \in Callers : callPc[d] = "idle"
    BY <1>1, Zenon DEF ApplyBegin
  <2>2. callPc' = [callPc EXCEPT ![c] = IF handle = None THEN "set" ELSE "cancel"] /\ handle' = None
        /\ prev' = [prev EXCEPT ![c] = handle] /\ UNCHANGED <<current, pc>>
    BY <1>1 DEF ApplyBegin, Step, loops
  <2>3. Serial'
    BY <2>1, <2>2 DEF Serial
  <2>4. Sole'
    BY <2>1, <2>2 DEF Sole, Loops
  <2>5. Wanted'
    BY <2>2 DEF Wanted
  <2>6. QED
    BY <2>3, <2>4, <2>5
<1>2. ASSUME NEW c \in Callers, ApplyCancel(c) PROVE SerialInv'
  BY <1>0, <1>2 DEF ApplyCancel, Step, Serial, Sole, Wanted, owner
<1>3. ASSUME NEW c \in Callers, ApplyWait(c) PROVE SerialInv'
  <2>1. prev[c] \in ended /\ pc[prev[c]] = "ended"
    BY <1>3 DEF ApplyWait, Lives, LoopTypes
  <2>2. QED
    BY <1>0, <1>3, <2>1 DEF ApplyWait, Step, Serial, Sole, Wanted, owner, loops
<1>4. ASSUME NEW c \in Callers, ApplyIdle(c) PROVE SerialInv'
  BY <1>0, <1>4 DEF ApplyIdle, Step, Serial, Sole, Wanted, owner, loops
<1>5. ASSUME NEW c \in Callers, ApplyClear(c) PROVE SerialInv'
  BY <1>0, <1>5 DEF ApplyClear, Step, Serial, Sole, Wanted, loops
<1>6. ASSUME NEW c \in Callers, ApplyStart(c) PROVE SerialInv'
  <2>1. opened + 1 \in Loops
    BY <1>6, RoomToOpen DEF ApplyStart
  <2>2. handle' = opened + 1 /\ current' = arg[c] /\ arg[c] # NoConfig /\ UNCHANGED overlapped
        /\ want' = [want EXCEPT ![opened + 1] = arg[c]] /\ pc' = [pc EXCEPT ![opened + 1] = "check"]
        /\ callPc[c] = "set" /\ callPc' = [callPc EXCEPT ![c] = "idle"]
    BY <1>6 DEF ApplyStart, Goto, Step
  <2> SUFFICES ASSUME ~overlapped PROVE Serial' /\ Sole' /\ Wanted'
    BY <1>0, <2>2
  <2>3. handle = None /\ \A d \in Callers : callPc[d] # "idle" => d = c
    BY <2>2 DEF Serial
  <2>4. Serial'
    BY <2>2, <2>3 DEF Serial
  <2>5. Sole'
    BY <2>2, <2>3 DEF Sole, LoopTypes, Loops
  <2>6. Wanted'
    BY <2>1, <2>2 DEF Wanted, LoopTypes, Loops
  <2>7. QED
    BY <2>4, <2>5, <2>6
<1>7. ASSUME NEW l \in Loops, LoopMoves(l) PROVE SerialInv'
  <2>1. UNCHANGED <<owner, calls>> /\ UNCHANGED want
    BY <1>7, LoopMovesKeep
  <2>2. \A k \in Loops : pc'[k] \notin {"new", "ended"} => pc[k] \notin {"new", "ended"}
    <3>1. \A k \in Loops : k # l => pc'[k] = pc[k]
      BY <1>7 DEF LoopTypes, LoopMoves, LoopStep, Check, Begin, SpawnFails, Spawn, Kill, Waited, Joined,
         CheckAfter, SetFailed, Retry, BackoffCancelled, Leave, CloseDone, FFmpegExits, Progress,
         WatchLook, WatchPublish, Goto, loops
    <3>2. pc'[l] = pc[l] \/ pc[l] \notin {"new", "ended"}
      BY <1>7 DEF LoopTypes, LoopMoves, LoopStep, Check, Begin, SpawnFails, Spawn, Kill, Waited, Joined,
         CheckAfter, SetFailed, Retry, BackoffCancelled, Leave, CloseDone, FFmpegExits, Progress,
         WatchLook, WatchPublish, Goto, loops
    <3>3. QED
      BY <3>1, <3>2
  <2>3. QED
    BY <1>0, <2>1, <2>2 DEF Serial, Sole, Wanted, owner, calls
<1>8. CASE UNCHANGED vars
  BY <1>0, <1>8 DEF vars, owner, loops, calls, Serial, Sole, Wanted
<1>9. QED
  BY <1>1, <1>2, <1>3, <1>4, <1>5, <1>6, <1>7, <1>8, NextSplit DEF ApplyStep

LEMMA SerialInvAlways == Spec => []SerialInv
<1>1. Init => SerialInv
  BY InitType, InitLife DEF Init, SerialInv, LifeInv, Serial, Sole, Wanted
<1>2. QED
  BY <1>1, NextSerial, PTL DEF Spec

\* The SRT port never has two FFmpegs while Apply calls come one after the other.
THEOREM ReceiverUnique == Spec => []OneReceiver
<1>1. SerialInv => OneReceiver
  <2> SUFFICES ASSUME SerialInv, ~overlapped PROVE Cardinality(running) <= 1
    BY DEF OneReceiver
  <2>1. \A k, l \in running : k = l
    <3>1. \A l \in running : l \in Loops /\ pc[l] = "run"
      BY DEF SerialInv, LifeInv, TypeInv, LoopTypes, Lives
    <3>2. QED
      BY <3>1, SoleIsOne
  <2>2. CASE running = {}
    BY <2>2, FS_EmptySet
  <2>3. ASSUME NEW l \in running PROVE Cardinality(running) <= 1
    <3>1. running = {l}
      BY <2>1, <2>3
    <3>2. QED
      BY <3>1, FS_Singleton
  <2>4. QED
    BY <2>2, <2>3
<1>2. QED
  BY <1>1, SerialInvAlways, PTL

\* Between Apply calls what runs is what was asked for last.
THEOREM ReceiverFollows == Spec => []ReceiverIsCurrent
<1>1. SerialInv => ReceiverIsCurrent
  <2> SUFFICES ASSUME SerialInv, ~overlapped, \A c \in Callers : callPc[c] = "idle"
               PROVE  IF current = NoConfig THEN handle = None /\ running = {}
                      ELSE handle # None /\ want[handle] = current /\ running \subseteq {handle}
    BY DEF ReceiverIsCurrent
  <2>1. running \subseteq {handle} /\ \A l \in running : l \in Loops
    BY DEF SerialInv, LifeInv, TypeInv, LoopTypes, Lives, Sole
  <2>2. handle = None <=> current = NoConfig
    BY DEF SerialInv, Wanted
  <2>3. QED
    BY <2>1, <2>2 DEF SerialInv, Wanted, Loops
<1>2. QED
  BY <1>1, SerialInvAlways, PTL

-----------------------------------------------------------------------------
(* The lease of the port *)

\* The loops that may use the port.
Using == {l \in Loops : pc[l] \notin {"new", "ended"}}

LEMMA OnlyMember ==
  ASSUME NEW S, NEW l \in S, \A k \in S : k = l
  PROVE  Only(S) = l
BY DEF Only

LEMMA LoopIsNotNone == \A l \in Loops : l # None
BY ReceiverAssumption DEF Loops

\* Whatever a loop's goroutines do, they do it while it is the only one.
LEMMA MoverIsAlone ==
  ASSUME SerialInv, ~overlapped, NEW l \in Loops, LoopMoves(l)
  PROVE  Using = {l} /\ running \subseteq {l} /\ Only(Using) = l
<1> USE DEF SerialInv, LifeInv, TypeInv, LoopTypes, Lives
<1>1. pc[l] \notin {"new", "ended"}
  BY DEF LoopMoves, LoopStep, Check, Begin, SpawnFails, Spawn, Kill, Waited, Joined, CheckAfter, SetFailed,
     Retry, BackoffCancelled, Leave, CloseDone, FFmpegExits, Progress, WatchLook, WatchPublish
<1>2. \A k \in Using : k = l
  BY <1>1, SoleIsOne DEF Using
<1>3. running \subseteq Using
  BY DEF Using
<1>4. l \in Using
  BY <1>1 DEF Using
<1>5. QED
  BY <1>2, <1>3, <1>4, OnlyMember

\* A step that moves no loop to or from the port and no FFmpeg leaves the lease alone.
LEMMA LeaseAlone ==
  ASSUME Using' = Using, running' = running, opened' = opened
  PROVE  UNCHANGED Lease!leaseVars
BY DEF Lease!leaseVars, Using

\* A loop starts: the one before has ended, and its FFmpeg with it.
LEMMA StartAcquires ==
  ASSUME SerialInv, ~overlapped, NEW c \in Callers, ApplyStart(c)
  PROVE  Lease!LeaseNext
<1> USE DEF SerialInv, LifeInv, TypeInv, LoopTypes
<1> DEFINE l == opened + 1
<1>1. callPc[c] = "set" /\ opened' = l /\ pc' = [pc EXCEPT ![l] = "check"] /\ running' = running
  BY DEF ApplyStart, Goto
<1>2. l \in Loops /\ opened \in Nat
  BY <1>1, RoomToOpen DEF CallTypes, Numbers
<1>3. Using = {} /\ running = {}
  <2>1. handle = None /\ \A d \in Callers : callPc[d] # "idle" => d = c
    BY <1>1 DEF Serial
  <2>2. Using = {}
    BY <1>1, <2>1, LoopIsNotNone DEF Sole, Using
  <2>3. running \subseteq Using
    BY DEF Lives, Using
  <2>4. QED
    BY <2>2, <2>3
<1>4. Using' = {l}
  BY <1>1, <1>2, <1>3 DEF Using
<1>5. Only(Using) = None /\ Only(running) = None /\ Only(running') = None /\ Only(Using') = l
  BY <1>1, <1>3, <1>4, OnlyMember DEF Only
<1>6. l \notin 1..opened /\ 1..opened' = (1..opened) \cup {l}
  BY <1>1, <1>2
<1>7. Lease!Acquire(l)
  BY <1>5, <1>6 DEF Lease!Acquire, Using
<1>8. QED
  BY <1>2, <1>7 DEF Lease!LeaseNext

\* A loop's FFmpeg is launched, or gone; or the loop has ended after it.
LEMMA LoopKeepsLease ==
  ASSUME SerialInv, ~overlapped, NEW l \in Loops, LoopMoves(l)
  PROVE  [Lease!LeaseNext]_(Lease!leaseVars)
<1> USE DEF SerialInv, LifeInv, TypeInv, LoopTypes
<1>1. Using = {l} /\ running \subseteq {l} /\ Only(Using) = l /\ l # None
  BY MoverIsAlone, LoopIsNotNone
<1>2. UNCHANGED opened
  BY LoopMovesKeep DEF calls
<1>3. CASE Spawn(l)
  <2>1. running = {} /\ running' = {l} /\ Using' = Using
    BY <1>1, <1>3 DEF Spawn, Lives, Using, Goto
  <2>2. Only(running) = None /\ Only(running') = l
    BY <2>1, OnlyMember DEF Only
  <2>3. Lease!Launch(l)
    BY <1>1, <1>2, <2>1, <2>2 DEF Lease!Launch, Using
  <2>4. QED
    BY <2>3 DEF Lease!LeaseNext
<1>4. CASE Kill(l) \/ FFmpegExits(l)
  <2>1. running = {l} /\ running' = {} /\ Using' = Using
    BY <1>1, <1>4 DEF Kill, FFmpegExits, Using
  <2>2. Only(running) = l /\ Only(running') = None
    BY <2>1, OnlyMember DEF Only
  <2>3. Lease!Exit
    BY <1>1, <1>2, <2>1, <2>2 DEF Lease!Exit, Using
  <2>4. QED
    BY <2>3 DEF Lease!LeaseNext
<1>5. CASE CloseDone(l)
  <2>1. running = {} /\ running' = {} /\ Using' = {}
    BY <1>1, <1>5 DEF CloseDone, Lives, Using, Goto
  <2>2. Only(running) = None /\ Only(running') = None /\ Only(Using') = None
    BY <2>1 DEF Only
  <2>3. Lease!Release
    BY <1>1, <1>2, <2>1, <2>2 DEF Lease!Release, Using
  <2>4. QED
    BY <2>3 DEF Lease!LeaseNext
<1>6. CASE ~(Spawn(l) \/ Kill(l) \/ FFmpegExits(l) \/ CloseDone(l))
  <2>1. running' = running
    BY <1>6 DEF LoopMoves, LoopStep, Check, Begin, SpawnFails, Waited, Joined, CheckAfter, SetFailed, Retry,
       BackoffCancelled, Leave, Progress, WatchLook, WatchPublish, loops
  <2>2. Using' = Using
    BY <1>6 DEF LoopMoves, LoopStep, Check, Begin, SpawnFails, Waited, Joined, CheckAfter, SetFailed, Retry,
       BackoffCancelled, Leave, Progress, WatchLook, WatchPublish, loops, Goto, Using
  <2>3. QED
    BY <1>2, <2>1, <2>2, LeaseAlone
<1>7. QED
  BY <1>3, <1>4, <1>5, <1>6

LEMMA StepKeepsLease ==
  ASSUME SerialInv, [Next]_vars
  PROVE  [Lease!LeaseNext \/ overlapped']_(Lease!leaseVars)
<1> SUFFICES ASSUME ~overlapped' PROVE [Lease!LeaseNext]_(Lease!leaseVars)
  OBVIOUS
<1>0. ~overlapped
  <2>1. overlapped => overlapped'
    <3>1. ASSUME NEW c \in Callers, NEW cfg \in Configs \cup {NoConfig}, ApplyBegin(c, cfg)
          PROVE  overlapped => overlapped'
      BY <3>1, Zenon DEF ApplyBegin
    <3>2. ASSUME NEW c \in Callers, ApplyStep(c) PROVE overlapped' = overlapped
      BY <3>2, Zenon DEF ApplyStep, ApplyCancel, ApplyWait, ApplyIdle, ApplyClear, ApplyStart
    <3>3. ASSUME NEW l \in Loops, LoopMoves(l) PROVE overlapped' = overlapped
      BY <3>3, LoopMovesKeep DEF calls
    <3>4. CASE UNCHANGED vars
      BY <3>4 DEF vars, calls
    <3>5. QED
      BY <3>1, <3>2, <3>3, <3>4, NextSplit
  <2>2. QED
    BY <2>1
<1>1. ASSUME NEW c \in Callers, NEW cfg \in Configs \cup {NoConfig}, ApplyBegin(c, cfg)
      PROVE  UNCHANGED <<pc, running, opened>>
  BY <1>1 DEF ApplyBegin, loops
<1>2. ASSUME NEW c \in Callers, ApplyCancel(c) \/ ApplyWait(c) \/ ApplyIdle(c) \/ ApplyClear(c)
      PROVE  UNCHANGED <<pc, running, opened>>
  BY <1>2 DEF ApplyCancel, ApplyWait, ApplyIdle, ApplyClear, loops
<1>3. ASSUME UNCHANGED <<pc, running, opened>> PROVE UNCHANGED Lease!leaseVars
  BY <1>3, LeaseAlone DEF Using
<1>4. ASSUME NEW c \in Callers, ApplyStart(c) PROVE Lease!LeaseNext
  BY <1>0, <1>4, StartAcquires
<1>5. ASSUME NEW l \in Loops, LoopMoves(l) PROVE [Lease!LeaseNext]_(Lease!leaseVars)
  BY <1>0, <1>5, LoopKeepsLease
<1>6. CASE UNCHANGED vars
  BY <1>3, <1>6 DEF vars, loops, calls
<1>7. QED
  BY <1>1, <1>2, <1>3, <1>4, <1>5, <1>6, NextSplit DEF ApplyStep

LEMMA LeaseOpens == Init => Lease!LeaseInit
<1> SUFFICES ASSUME Init PROVE Lease!LeaseInit
  OBVIOUS
<1>1. Using = {} /\ running = {} /\ opened = 0
  BY DEF Init, Using
<1>2. 1..opened = {}
  BY <1>1
<1>3. QED
  BY <1>1, <1>2 DEF Lease!LeaseInit, Only, Using

\* As long as Apply calls come one after the other, the receiver implements the
\* lease of the SRT port, whatever FFmpeg, the backoff and the watchdog do.
THEOREM ReceiverImplementsLease == Spec => PortLease
<1>1. SerialInv /\ [Next]_vars => [Lease!LeaseNext \/ overlapped']_(Lease!leaseVars)
  BY StepKeepsLease
<1>2. QED
  BY <1>1, LeaseOpens, SerialInvAlways, ReceiverUnique, PTL DEF Spec, PortLease
=============================================================================
