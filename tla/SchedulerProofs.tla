--------------------------- MODULE SchedulerProofs ---------------------------
(***************************************************************************)
(* Proofs about Scheduler for every set of occurrences, operators and      *)
(* schedules, any lead, and any number of broadcasts, edits and crashes.   *)
(* Layers: the types; the broadcast that the loop has in hand, which it    *)
(* alone brings on air; the occurrences that were stopped, which it cannot *)
(* take up again; the account of the broadcasts created for an occurrence; *)
(* and the bounds, the backoff's cap among them.                           *)
(***************************************************************************)
EXTENDS Scheduler, FiniteSetTheorems, TLAPS

USE SchedulerAssumption, EventsAssumption DEF NoBroadcast, Off, Never, Broadcasts, Manual

-----------------------------------------------------------------------------
(* Types *)

TypeInv ==
  /\ now \in Nat /\ at \in Nat /\ extra \in Nat
  /\ active \in Events \cup {NoEvent}
  /\ activeB \in Broadcasts \cup {NoBroadcast}
  /\ mem \in Stores(Broadcasts, Nat)
  /\ disk \in Stores(Broadcasts, Nat)
  /\ stream \in Broadcasts \cup {Off, Manual}
  /\ made \in [Broadcasts -> Events \cup {NoEvent}]
  /\ pc \in [Processes -> Points]
  /\ todo \subseteq Events
  /\ seen \in [Events -> Broadcasts \cup {NoBroadcast}]
  /\ cur \in Events \cup {NoEvent}
  /\ bid \in Broadcasts \cup {NoBroadcast}
  /\ taken \in [Processes -> [event : Events \cup {NoEvent}, until : Nat]]
  /\ final \subseteq Events

\* The points of the loop at which it has an occurrence in hand, ...
Holding == {"prepare", "persist", "gate", "live", "repersist", "start", "onair"}

\* ... with a broadcast of its own, ...
Held ==
  /\ pc[Loop] \in Holding => cur \in Events
  /\ pc[Loop] \in Holding \ {"prepare"} => bid \in Broadcasts /\ made[bid] = cur

\* ... and a stopped event that is about to be settled.
Settling ==
  \A p \in Processes : pc[p] = "settle" =>
    taken[p].event \in Events /\ taken[p].until >= End(taken[p].event)

LEMMA WindowType == \A e \in Events : End(e) \in Nat /\ End(e) > 0
  BY DEF End

\* What the Store's methods return is a store again.
LEMMA StoreTypes ==
  ASSUME NEW st \in Stores(Broadcasts, Nat), NEW e \in Events, NEW b \in Broadcasts, NEW t \in Nat
  PROVE  /\ SetBroadcastID(st, e, b) \in Stores(Broadcasts, Nat)
         /\ ClearBroadcast(st, e) \in Stores(Broadcasts, Nat)
         /\ SkipEvent(st, e, t) \in Stores(Broadcasts, Nat)
  BY DEF Stores, SetBroadcastID, ClearBroadcast, SkipEvent

LEMMA ReplaceType ==
  ASSUME NEW st \in Stores(Broadcasts, Nat), NEW id \in Owners, NEW occurrences \in SUBSET Events
  PROVE  Replace(st, id, occurrences) \in Stores(Broadcasts, Nat)
  BY DEF Stores, Replace

LEMMA LoopIsProcess == Loop \in Processes /\ \A o \in Operators : o \in Processes /\ o # Loop
  BY DEF Processes

\* The actions of Next in groups.
Ticks == TickBegin \/ LookAway \/ Look \/ TickEnd \/ \E e \in Events : Advance(e)

Prepares ==
  \/ PrepareFails \/ \E b \in Broadcasts : BindFails(b) \/ Prepare(b)
  \/ \E ok \in BOOLEAN : Persist(ok) \/ Gate(ok)

GoesLive ==
  \/ \E ok \in BOOLEAN : LiveFails(ok) \/ Repersist(ok)
  \/ FindIngest \/ StartFails \/ StartWithIngest \/ SetActive

Stops ==
  \/ \E p \in Processes : StopStream(p) \/ Forget(p) \/ \E ok \in BOOLEAN : Settle(p, ok)
  \/ \E o \in Operators : StopActive(o) \/ SupervisorStop(o)

Others ==
  \/ Extend \/ StartByHand \/ StreamFails \/ TimePasses
  \/ \E id \in Owners : \E occurrences \in SUBSET Events, ok \in BOOLEAN : Edit(id, occurrences, ok)
  \/ \E resumed \in BOOLEAN : CrashAndBoot(resumed)

LEMMA NextSplit == Next => Ticks \/ Prepares \/ GoesLive \/ Stops \/ Others
<1> SUFFICES ASSUME Next PROVE Ticks \/ Prepares \/ GoesLive \/ Stops \/ Others
  OBVIOUS
<1> USE DEF Ticks, Prepares, GoesLive, Stops, Others
<1>1. CASE LoopStep
  BY <1>1, LoopIsProcess DEF LoopStep, StopSteps
<1>2. CASE \E o \in Operators : StopActive(o) \/ StopSteps(o) \/ SupervisorStop(o)
  BY <1>2, LoopIsProcess DEF StopSteps
<1>3. CASE \E id \in Owners : \E occurrences \in SUBSET {e \in Events : Owner[e] = id}, ok \in BOOLEAN :
             Edit(id, occurrences, ok)
  <2>1. PICK id \in Owners : \E occurrences \in SUBSET {e \in Events : Owner[e] = id}, ok \in BOOLEAN :
               Edit(id, occurrences, ok)
    BY <1>3
  <2>2. PICK occurrences \in SUBSET {e \in Events : Owner[e] = id}, ok \in BOOLEAN : Edit(id, occurrences, ok)
    BY <2>1
  <2>3. occurrences \in SUBSET Events
    OBVIOUS
  <2>4. QED
    BY <2>2, <2>3
<1>4. QED
  BY <1>1, <1>2, <1>3 DEF Next

LEMMA InitType == Init => TypeInv /\ Held /\ Settling
<1> SUFFICES ASSUME Init PROVE TypeInv /\ Held /\ Settling
  OBVIOUS
<1>1. /\ mem \in Stores(Broadcasts, Nat) /\ disk \in Stores(Broadcasts, Nat)
      /\ mem.mapped = [e \in Events |-> NoBroadcast]
  BY DEF Init, Loaded, Stores
<1>2. TypeInv
  BY <1>1 DEF Init, TypeInv, Points, Nobody
<1>3. Held /\ Settling
  BY LoopIsProcess DEF Init, Held, Settling, Holding
<1>4. QED
  BY <1>2, <1>3

LEMMA NextType == TypeInv /\ Held /\ Settling /\ [Next]_vars => TypeInv'
<1> SUFFICES ASSUME TypeInv, Held, Settling, [Next]_vars PROVE TypeInv'
  OBVIOUS
<1> USE LoopIsProcess DEF TypeInv, Points, Goto, runtime, backoff, tick, history
<1>1. ASSUME TickBegin PROVE TypeInv'
  BY <1>1 DEF TickBegin
<1>2. ASSUME LookAway PROVE TypeInv'
  BY <1>2 DEF LookAway
<1>3. ASSUME Look PROVE TypeInv'
  BY <1>3 DEF Look, NextEvents, Stores
<1>4. ASSUME NEW e \in Events, Advance(e) PROVE TypeInv'
  <2>1. seen[e] \in Broadcasts \cup {NoBroadcast}
    OBVIOUS
  <2>2. QED
    BY <1>4, <2>1 DEF Advance
<1>5. ASSUME TickEnd PROVE TypeInv'
  BY <1>5 DEF TickEnd
<1>6. ASSUME PrepareFails PROVE TypeInv'
  BY <1>6 DEF PrepareFails, RecordPrepFailure, Leave
<1>7. ASSUME NEW b \in Broadcasts, BindFails(b) PROVE TypeInv'
  BY <1>7 DEF BindFails, Create, RecordPrepFailure, Leave
<1>8. ASSUME NEW b \in Broadcasts, Prepare(b) PROVE TypeInv'
  BY <1>8 DEF Prepare, Create, Stay
<1>9. ASSUME NEW ok \in BOOLEAN, Persist(ok) PROVE TypeInv'
  <2>1. SetBroadcastID(mem, cur, bid) \in Stores(Broadcasts, Nat)
    BY <1>9, StoreTypes DEF Persist, Held, Holding
  <2>2. mem' \in Stores(Broadcasts, Nat) /\ disk' \in Stores(Broadcasts, Nat)
    BY <1>9, <2>1 DEF Persist, Save
  <2>3. QED
    BY <1>9, <2>2 DEF Persist, Leave, Stay
<1>10. ASSUME NEW ok \in BOOLEAN, Gate(ok) PROVE TypeInv'
  BY <1>10 DEF Gate, Unseen, GateOpen, Leave, Stay
<1>11. ASSUME NEW ok \in BOOLEAN, LiveFails(ok) PROVE TypeInv'
  BY <1>11 DEF LiveFails, RecordPrepFailure, Leave
<1>12. ASSUME NEW ok \in BOOLEAN, Repersist(ok) PROVE TypeInv'
  <2>1. SetBroadcastID(mem, cur, bid) \in Stores(Broadcasts, Nat)
    BY <1>12, StoreTypes DEF Repersist, Held, Holding
  <2>2. mem' \in Stores(Broadcasts, Nat) /\ disk' \in Stores(Broadcasts, Nat)
    BY <1>12, <2>1 DEF Repersist, Save
  <2>3. QED
    BY <1>12, <2>2 DEF Repersist, Leave, Stay
<1>13. ASSUME FindIngest PROVE TypeInv'
  BY <1>13 DEF FindIngest, Stay
<1>14. ASSUME StartFails PROVE TypeInv'
  BY <1>14 DEF StartFails, Leave
<1>15. ASSUME StartWithIngest PROVE TypeInv'
  BY <1>15 DEF StartWithIngest, Stay
<1>16. ASSUME SetActive PROVE TypeInv'
  BY <1>16 DEF SetActive, Leave
<1>17. ASSUME NEW p \in Processes, StopStream(p) PROVE TypeInv'
  BY <1>17 DEF StopStream
<1>18. ASSUME NEW p \in Processes, Forget(p) PROVE TypeInv'
  <2>1. ASSUME active # NoEvent PROVE End(active) + extra \in Nat
    <3>1. End(active) \in Nat /\ extra \in Nat
      BY <2>1, WindowType
    <3> HIDE DEF TypeInv
    <3>2. QED
      BY <3>1
  <2>2. taken' \in [Processes -> [event : Events \cup {NoEvent}, until : Nat]]
    BY <1>18, <2>1 DEF Forget, Onward, Nobody
  <2>3. QED
    BY <1>18, <2>2 DEF Forget, Onward
<1>19. ASSUME NEW p \in Processes, NEW ok \in BOOLEAN, Settle(p, ok) PROVE TypeInv'
  <2>1. taken[p].event \in Events /\ taken[p].until \in Nat
    BY <1>19 DEF Settle, Onward, Settling
  <2>2. ClearBroadcast(mem, taken[p].event) \in Stores(Broadcasts, Nat)
        /\ SkipEvent(mem, taken[p].event, taken[p].until) \in Stores(Broadcasts, Nat)
    BY <2>1 DEF Stores, ClearBroadcast, SkipEvent
  <2>3. mem' \in Stores(Broadcasts, Nat) /\ disk' \in Stores(Broadcasts, Nat)
    BY <1>19, <2>2 DEF Settle, Onward, Save
  <2>4. taken' \in [Processes -> [event : Events \cup {NoEvent}, until : Nat]] /\ final' \subseteq Events
    BY <1>19, <2>1 DEF Settle, Onward, Nobody
  <2>5. QED
    BY <1>19, <2>3, <2>4 DEF Settle, Onward
<1>20. ASSUME NEW o \in Operators, StopActive(o) PROVE TypeInv'
  BY <1>20 DEF StopActive
<1>20a. ASSUME NEW o \in Operators, SupervisorStop(o) PROVE TypeInv'
  BY <1>20a DEF SupervisorStop
<1>21. ASSUME Extend PROVE TypeInv'
  BY <1>21, SMTT(30) DEF Extend
<1>22. ASSUME NEW id \in Owners, NEW occurrences \in SUBSET Events, NEW ok \in BOOLEAN,
              Edit(id, occurrences, ok) PROVE TypeInv'
  <2>1. mem' \in Stores(Broadcasts, Nat) /\ disk' \in Stores(Broadcasts, Nat)
    BY <1>22, ReplaceType DEF Edit, Save
  <2>2. QED
    BY <1>22, <2>1 DEF Edit
<1>23. ASSUME StartByHand PROVE TypeInv'
  BY <1>23 DEF StartByHand
<1>24. ASSUME StreamFails PROVE TypeInv'
  BY <1>24 DEF StreamFails
<1>25. ASSUME NEW resumed \in BOOLEAN, CrashAndBoot(resumed) PROVE TypeInv'
  BY <1>25 DEF CrashAndBoot, Nobody
<1>26. ASSUME TimePasses PROVE TypeInv'
  BY <1>26, SMTT(30) DEF TimePasses
<1>27. CASE UNCHANGED vars
  BY <1>27 DEF vars
<1> HIDE DEF TypeInv, Points, Goto, runtime, backoff, tick, history
<1>28. CASE Ticks
  BY <1>28, <1>1, <1>2, <1>3, <1>4, <1>5 DEF Ticks
<1>29. CASE Prepares
  BY <1>29, <1>6, <1>7, <1>8, <1>9, <1>10 DEF Prepares
<1>30. CASE GoesLive
  BY <1>30, <1>11, <1>12, <1>13, <1>14, <1>15, <1>16 DEF GoesLive
<1>31. CASE Stops
  BY <1>31, <1>17, <1>18, <1>19, <1>20, <1>20a DEF Stops
<1>32. CASE Others
  BY <1>32, <1>21, <1>22, <1>23, <1>24, <1>25, <1>26 DEF Others
<1>33. QED
  BY <1>27, <1>28, <1>29, <1>30, <1>31, <1>32, NextSplit

-----------------------------------------------------------------------------
(* The broadcast in hand *)

\* The loop brings a broadcast on air only while no event is active, and it
\* alone does: until it has recorded the event, what is on air is its own.
Alone ==
  /\ pc[Loop] \in {"live", "repersist", "start", "onair"} => active = NoEvent
  /\ pc[Loop] = "onair" /\ stream \in Broadcasts => stream = bid
  /\ stream \in Broadcasts => made[stream] \in Events

HoldInv == TypeInv /\ Held /\ Settling /\ MappingIsOwn /\ Alone /\ OnAirIsActive

\* A new broadcast is nobody's yet.
LEMMA CreateIsNew ==
  ASSUME HoldInv, NEW b \in Broadcasts, Create(b)
  PROVE  /\ cur \in Events
         /\ made' = [made EXCEPT ![b] = cur]
         /\ \A a \in Broadcasts : made[a] \in Events => made'[a] = made[a]
  BY DEF HoldInv, TypeInv, Held, Holding, Create

LEMMA NextHeld == HoldInv /\ [Next]_vars => Held'
<1> SUFFICES ASSUME HoldInv, [Next]_vars PROVE Held'
  OBVIOUS
<1> USE LoopIsProcess DEF HoldInv, TypeInv, Held, Holding, Points, Goto, runtime, backoff, tick, history
<1>1. ASSUME TickBegin PROVE Held'
  BY <1>1 DEF TickBegin
<1>2. ASSUME LookAway PROVE Held'
  BY <1>2 DEF LookAway
<1>3. ASSUME Look PROVE Held'
  BY <1>3 DEF Look, NextEvents
<1>4. ASSUME NEW e \in Events, Advance(e) PROVE Held'
  <2>1. CASE pc'[Loop] = "next"
    BY <1>4, <2>1 DEF Advance
  <2>2. CASE pc'[Loop] = "prepare"
    BY <1>4, <2>2 DEF Advance
  <2>3. CASE pc'[Loop] = "gate"
    <3>1. seen[e] \in Broadcasts /\ made[seen[e]] = e
      BY <1>4, <2>3 DEF Advance, MappingIsOwn
    <3>2. QED
      BY <1>4, <2>3, <3>1 DEF Advance
  <2>4. QED
    BY <1>4, <2>1, <2>2, <2>3 DEF Advance
<1>5. ASSUME TickEnd PROVE Held'
  BY <1>5 DEF TickEnd
<1>6. ASSUME PrepareFails PROVE Held'
  BY <1>6 DEF PrepareFails, RecordPrepFailure, Leave
<1>7. ASSUME NEW b \in Broadcasts, BindFails(b) PROVE Held'
  BY <1>7 DEF BindFails, Create, Leave
<1>8. ASSUME NEW b \in Broadcasts, Prepare(b) PROVE Held'
  BY <1>8, CreateIsNew DEF Prepare, Create, Stay
<1>9. ASSUME NEW ok \in BOOLEAN, Persist(ok) PROVE Held'
  BY <1>9 DEF Persist, Save, Leave, Stay
<1>10. ASSUME NEW ok \in BOOLEAN, Gate(ok) PROVE Held'
  BY <1>10 DEF Gate, Unseen, GateOpen, Leave, Stay
<1>11. ASSUME NEW ok \in BOOLEAN, LiveFails(ok) PROVE Held'
  BY <1>11 DEF LiveFails, RecordPrepFailure, Leave
<1>12. ASSUME NEW ok \in BOOLEAN, Repersist(ok) PROVE Held'
  BY <1>12 DEF Repersist, Save, Leave, Stay
<1>13. ASSUME FindIngest PROVE Held'
  BY <1>13 DEF FindIngest, Stay
<1>14. ASSUME StartFails PROVE Held'
  BY <1>14 DEF StartFails, Leave
<1>15. ASSUME StartWithIngest PROVE Held'
  BY <1>15 DEF StartWithIngest, Stay
<1>16. ASSUME SetActive PROVE Held'
  BY <1>16 DEF SetActive, Leave
<1>17. ASSUME NEW p \in Processes, StopStream(p) PROVE Held'
  BY <1>17 DEF StopStream
<1>18. ASSUME NEW p \in Processes, Forget(p) PROVE Held'
  BY <1>18 DEF Forget, Onward
<1>19. ASSUME NEW p \in Processes, NEW ok \in BOOLEAN, Settle(p, ok) PROVE Held'
  BY <1>19 DEF Settle, Onward, Save
<1>20. ASSUME NEW o \in Operators, StopActive(o) PROVE Held'
  BY <1>20 DEF StopActive
<1>20a. ASSUME NEW o \in Operators, SupervisorStop(o) PROVE Held'
  BY <1>20a DEF SupervisorStop
<1>21. ASSUME Extend PROVE Held'
  BY <1>21 DEF Extend
<1>22. ASSUME NEW id \in Owners, NEW occurrences \in SUBSET Events, NEW ok \in BOOLEAN,
              Edit(id, occurrences, ok) PROVE Held'
  BY <1>22 DEF Edit, Save
<1>23. ASSUME StartByHand PROVE Held'
  BY <1>23 DEF StartByHand
<1>24. ASSUME StreamFails PROVE Held'
  BY <1>24 DEF StreamFails
<1>25. ASSUME NEW resumed \in BOOLEAN, CrashAndBoot(resumed) PROVE Held'
  BY <1>25 DEF CrashAndBoot, Nobody
<1>26. ASSUME TimePasses PROVE Held'
  BY <1>26 DEF TimePasses
<1>27. CASE UNCHANGED vars
  BY <1>27 DEF vars
<1> HIDE DEF HoldInv, TypeInv, Held, Holding, Points, Goto, runtime, backoff, tick, history
<1>28. CASE Ticks
  BY <1>28, <1>1, <1>2, <1>3, <1>4, <1>5 DEF Ticks
<1>29. CASE Prepares
  BY <1>29, <1>6, <1>7, <1>8, <1>9, <1>10 DEF Prepares
<1>30. CASE GoesLive
  BY <1>30, <1>11, <1>12, <1>13, <1>14, <1>15, <1>16 DEF GoesLive
<1>31. CASE Stops
  BY <1>31, <1>17, <1>18, <1>19, <1>20, <1>20a DEF Stops
<1>32. CASE Others
  BY <1>32, <1>21, <1>22, <1>23, <1>24, <1>25, <1>26 DEF Others
<1>33. QED
  BY <1>27, <1>28, <1>29, <1>30, <1>31, <1>32, NextSplit

LEMMA NextSettling == HoldInv /\ [Next]_vars => Settling'
<1> SUFFICES ASSUME HoldInv, [Next]_vars PROVE Settling'
  OBVIOUS
<1> USE LoopIsProcess DEF HoldInv, TypeInv, Settling, Points, Goto, runtime, backoff, tick, history
<1>1. ASSUME TickBegin PROVE Settling'
  BY <1>1 DEF TickBegin
<1>2. ASSUME LookAway PROVE Settling'
  BY <1>2 DEF LookAway
<1>3. ASSUME Look PROVE Settling'
  BY <1>3 DEF Look, NextEvents
<1>4. ASSUME NEW e \in Events, Advance(e) PROVE Settling'
  BY <1>4 DEF Advance
<1>5. ASSUME TickEnd PROVE Settling'
  BY <1>5 DEF TickEnd
<1>6. ASSUME PrepareFails PROVE Settling'
  BY <1>6 DEF PrepareFails, RecordPrepFailure, Leave
<1>7. ASSUME NEW b \in Broadcasts, BindFails(b) PROVE Settling'
  BY <1>7 DEF BindFails, Create, RecordPrepFailure, Leave
<1>8. ASSUME NEW b \in Broadcasts, Prepare(b) PROVE Settling'
  BY <1>8 DEF Prepare, Create, Stay
<1>9. ASSUME NEW ok \in BOOLEAN, Persist(ok) PROVE Settling'
  BY <1>9 DEF Persist, Save, Leave, Stay
<1>10. ASSUME NEW ok \in BOOLEAN, Gate(ok) PROVE Settling'
  BY <1>10 DEF Gate, Unseen, GateOpen, Leave, Stay
<1>11. ASSUME NEW ok \in BOOLEAN, LiveFails(ok) PROVE Settling'
  BY <1>11 DEF LiveFails, RecordPrepFailure, Leave
<1>12. ASSUME NEW ok \in BOOLEAN, Repersist(ok) PROVE Settling'
  BY <1>12 DEF Repersist, Save, Leave, Stay
<1>13. ASSUME FindIngest PROVE Settling'
  BY <1>13 DEF FindIngest, Stay
<1>14. ASSUME StartFails PROVE Settling'
  BY <1>14 DEF StartFails, Leave
<1>15. ASSUME StartWithIngest PROVE Settling'
  BY <1>15 DEF StartWithIngest, Stay
<1>16. ASSUME SetActive PROVE Settling'
  BY <1>16 DEF SetActive, Leave
<1>17. ASSUME NEW p \in Processes, StopStream(p) PROVE Settling'
  BY <1>17 DEF StopStream
<1>18. ASSUME NEW p \in Processes, Forget(p) PROVE Settling'
  <2>1. CASE active = NoEvent
    BY <1>18, <2>1 DEF Forget, Onward
  <2>2. CASE active # NoEvent
    <3>1. active \in Events /\ End(active) \in Nat
      BY <2>2, WindowType
    <3>2. taken' = [taken EXCEPT ![p] = [event |-> active, until |-> End(active) + extra]]
      BY <1>18, <2>2 DEF Forget, Onward
    <3>3. \A q \in Processes : q # p => taken'[q] = taken[q] /\ pc'[q] = pc[q]
      BY <1>18, <3>2 DEF Forget, Onward
    <3>4. taken'[p].event = active /\ taken'[p].until >= End(active)
      BY <3>1, <3>2
    <3>5. QED
      BY <3>1, <3>3, <3>4
  <2>3. QED
    BY <2>1, <2>2
<1>19. ASSUME NEW p \in Processes, NEW ok \in BOOLEAN, Settle(p, ok) PROVE Settling'
  BY <1>19 DEF Settle, Onward
<1>20. ASSUME NEW o \in Operators, StopActive(o) PROVE Settling'
  BY <1>20 DEF StopActive
<1>20a. ASSUME NEW o \in Operators, SupervisorStop(o) PROVE Settling'
  BY <1>20a DEF SupervisorStop
<1>21. ASSUME Extend PROVE Settling'
  BY <1>21 DEF Extend
<1>22. ASSUME NEW id \in Owners, NEW occurrences \in SUBSET Events, NEW ok \in BOOLEAN,
              Edit(id, occurrences, ok) PROVE Settling'
  BY <1>22 DEF Edit, Save
<1>23. ASSUME StartByHand PROVE Settling'
  BY <1>23 DEF StartByHand
<1>24. ASSUME StreamFails PROVE Settling'
  BY <1>24 DEF StreamFails
<1>25. ASSUME NEW resumed \in BOOLEAN, CrashAndBoot(resumed) PROVE Settling'
  BY <1>25 DEF CrashAndBoot, Nobody
<1>26. ASSUME TimePasses PROVE Settling'
  BY <1>26 DEF TimePasses
<1>27. CASE UNCHANGED vars
  BY <1>27 DEF vars
<1> HIDE DEF HoldInv, TypeInv, Settling, Points, Goto, runtime, backoff, tick, history
<1>28. CASE Ticks
  BY <1>28, <1>1, <1>2, <1>3, <1>4, <1>5 DEF Ticks
<1>29. CASE Prepares
  BY <1>29, <1>6, <1>7, <1>8, <1>9, <1>10 DEF Prepares
<1>30. CASE GoesLive
  BY <1>30, <1>11, <1>12, <1>13, <1>14, <1>15, <1>16 DEF GoesLive
<1>31. CASE Stops
  BY <1>31, <1>17, <1>18, <1>19, <1>20, <1>20a DEF Stops
<1>32. CASE Others
  BY <1>32, <1>21, <1>22, <1>23, <1>24, <1>25, <1>26 DEF Others
<1>33. QED
  BY <1>27, <1>28, <1>29, <1>30, <1>31, <1>32, NextSplit

\* What the Store's methods do to the mapping.
LEMMA StoreMapping ==
  ASSUME NEW st \in Stores(Broadcasts, Nat), NEW e \in Events, NEW b, NEW t
  PROVE  /\ SetBroadcastID(st, e, b).mapped = [st.mapped EXCEPT ![e] = b]
         /\ ClearBroadcast(st, e).mapped = [st.mapped EXCEPT ![e] = NoBroadcast]
         /\ SkipEvent(st, e, t).mapped = [st.mapped EXCEPT ![e] = NoBroadcast]
  BY DEF Stores, SetBroadcastID, ClearBroadcast, SkipEvent

Mapped(m, b) == \A e \in Events : m[e] # NoBroadcast => b[m[e]] = e

LEMMA MappingSplit ==
  /\ MappingIsOwn <=> Mapped(mem.mapped, made) /\ Mapped(disk.mapped, made) /\ Mapped(seen, made)
  /\ MappingIsOwn' <=> Mapped(mem.mapped, made)' /\ Mapped(disk.mapped, made)' /\ Mapped(seen, made)'
  BY DEF MappingIsOwn, Mapped

\* A new broadcast belongs to nobody's mapping.
LEMMA NewBroadcastMapped ==
  ASSUME HoldInv, NEW b \in Broadcasts, Create(b), NEW m \in [Events -> Broadcasts \cup {NoBroadcast}],
         Mapped(m, made)
  PROVE  Mapped(m, made')
  BY CreateIsNew DEF Mapped

\* One entry is set, and saved or not.
LEMMA EntryMapped ==
  ASSUME HoldInv, NEW e \in Events, NEW b, b # NoBroadcast => made[b] = e,
         mem'.mapped = [mem.mapped EXCEPT ![e] = b],
         disk'.mapped = mem'.mapped \/ disk'.mapped = disk.mapped,
         UNCHANGED made, UNCHANGED seen
  PROVE  MappingIsOwn'
<1>1. mem.mapped \in [Events -> Broadcasts \cup {NoBroadcast}]
  BY DEF HoldInv, TypeInv, Stores
<1>2. Mapped(mem.mapped, made) /\ Mapped(disk.mapped, made) /\ Mapped(seen, made)
  BY MappingSplit DEF HoldInv
<1>3. Mapped([mem.mapped EXCEPT ![e] = b], made)
  BY <1>1, <1>2 DEF Mapped
<1>4. Mapped(mem.mapped, made)' /\ Mapped(seen, made)'
  BY <1>2, <1>3 DEF Mapped
<1>5. Mapped(disk.mapped, made)'
  <2>1. CASE disk'.mapped = mem'.mapped
    BY <1>3, <2>1 DEF Mapped
  <2>2. CASE disk'.mapped = disk.mapped
    BY <1>2, <2>2 DEF Mapped
  <2>3. QED
    BY <2>1, <2>2
<1>6. QED
  BY <1>4, <1>5, MappingSplit

LEMMA NextMapping == HoldInv /\ [Next]_vars => MappingIsOwn'
<1> SUFFICES ASSUME HoldInv, [Next]_vars PROVE MappingIsOwn'
  OBVIOUS
<1>0. /\ mem.mapped \in [Events -> Broadcasts \cup {NoBroadcast}]
      /\ disk.mapped \in [Events -> Broadcasts \cup {NoBroadcast}]
  BY DEF HoldInv, TypeInv, Stores
<1> USE LoopIsProcess DEF HoldInv, TypeInv, MappingIsOwn, Points, Goto, runtime, backoff, tick, history
<1>1. ASSUME TickBegin PROVE MappingIsOwn'
  <2>1. UNCHANGED <<mem, disk, seen, made>>
    BY <1>1 DEF TickBegin
  <2>2. QED
    BY <2>1
<1>2. ASSUME LookAway PROVE MappingIsOwn'
  <2>1. UNCHANGED <<mem, disk, seen, made>>
    BY <1>2 DEF LookAway
  <2>2. QED
    BY <2>1
<1>3. ASSUME Look PROVE MappingIsOwn'
  BY <1>3 DEF Look, NextEvents
<1>4. ASSUME NEW e \in Events, Advance(e) PROVE MappingIsOwn'
  <2>1. UNCHANGED <<mem, disk, seen, made>>
    BY <1>4 DEF Advance
  <2>2. QED
    BY <2>1
<1>5. ASSUME TickEnd PROVE MappingIsOwn'
  BY <1>5 DEF TickEnd
<1>6. ASSUME PrepareFails PROVE MappingIsOwn'
  <2>1. UNCHANGED <<mem, disk, seen, made>>
    BY <1>6 DEF PrepareFails, RecordPrepFailure, Leave
  <2>2. QED
    BY <2>1
<1>7. ASSUME NEW b \in Broadcasts, BindFails(b) PROVE MappingIsOwn'
  <2>1. UNCHANGED <<mem, disk, seen>>
    BY <1>7 DEF BindFails, Leave
  <2>2. Mapped(mem.mapped, made') /\ Mapped(disk.mapped, made') /\ Mapped(seen, made')
    BY <1>7, <1>0, NewBroadcastMapped, MappingSplit DEF BindFails
  <2>3. QED
    BY <2>1, <2>2, MappingSplit DEF Mapped
<1>8. ASSUME NEW b \in Broadcasts, Prepare(b) PROVE MappingIsOwn'
  <2>1. UNCHANGED <<mem, disk, seen>>
    BY <1>8 DEF Prepare, Stay
  <2>2. Mapped(mem.mapped, made') /\ Mapped(disk.mapped, made') /\ Mapped(seen, made')
    BY <1>8, <1>0, NewBroadcastMapped, MappingSplit DEF Prepare
  <2>3. QED
    BY <2>1, <2>2, MappingSplit DEF Mapped
<1>9. ASSUME NEW ok \in BOOLEAN, Persist(ok) PROVE MappingIsOwn'
  <2>1. /\ cur \in Events /\ made[bid] = cur
        /\ SetBroadcastID(mem, cur, bid).mapped = [mem.mapped EXCEPT ![cur] = bid]
    BY <1>9, StoreMapping DEF Persist, Held, Holding
  <2>2. /\ mem'.mapped = [mem.mapped EXCEPT ![cur] = bid]
        /\ disk'.mapped = mem'.mapped \/ disk'.mapped = disk.mapped
        /\ UNCHANGED made /\ UNCHANGED seen
    BY <1>9, <2>1 DEF Persist, Save, Leave, Stay
  <2> HIDE DEF HoldInv, MappingIsOwn
  <2>3. QED
    BY <2>1, <2>2, EntryMapped
<1>10. ASSUME NEW ok \in BOOLEAN, Gate(ok) PROVE MappingIsOwn'
  <2>1. UNCHANGED <<mem, disk, seen, made>>
    BY <1>10 DEF Gate, Unseen, GateOpen, Leave, Stay
  <2>2. QED
    BY <2>1
<1>11. ASSUME NEW ok \in BOOLEAN, LiveFails(ok) PROVE MappingIsOwn'
  <2>1. UNCHANGED <<mem, disk, seen, made>>
    BY <1>11 DEF LiveFails, RecordPrepFailure, Leave
  <2>2. QED
    BY <2>1
<1>12. ASSUME NEW ok \in BOOLEAN, Repersist(ok) PROVE MappingIsOwn'
  <2>1. /\ cur \in Events /\ made[bid] = cur
        /\ SetBroadcastID(mem, cur, bid).mapped = [mem.mapped EXCEPT ![cur] = bid]
    BY <1>12, StoreMapping DEF Repersist, Held, Holding
  <2>2. /\ mem'.mapped = [mem.mapped EXCEPT ![cur] = bid]
        /\ disk'.mapped = mem'.mapped \/ disk'.mapped = disk.mapped
        /\ UNCHANGED made /\ UNCHANGED seen
    BY <1>12, <2>1 DEF Repersist, Save, Leave, Stay
  <2> HIDE DEF HoldInv, MappingIsOwn
  <2>3. QED
    BY <2>1, <2>2, EntryMapped
<1>13. ASSUME FindIngest PROVE MappingIsOwn'
  <2>1. UNCHANGED <<mem, disk, seen, made>>
    BY <1>13 DEF FindIngest, Stay
  <2>2. QED
    BY <2>1
<1>14. ASSUME StartFails PROVE MappingIsOwn'
  <2>1. UNCHANGED <<mem, disk, seen, made>>
    BY <1>14 DEF StartFails, Leave
  <2>2. QED
    BY <2>1
<1>15. ASSUME StartWithIngest PROVE MappingIsOwn'
  <2>1. UNCHANGED <<mem, disk, seen, made>>
    BY <1>15 DEF StartWithIngest, Stay
  <2>2. QED
    BY <2>1
<1>16. ASSUME SetActive PROVE MappingIsOwn'
  <2>1. UNCHANGED <<mem, disk, seen, made>>
    BY <1>16 DEF SetActive, Leave
  <2>2. QED
    BY <2>1
<1>17. ASSUME NEW p \in Processes, StopStream(p) PROVE MappingIsOwn'
  <2>1. UNCHANGED <<mem, disk, seen, made>>
    BY <1>17 DEF StopStream
  <2>2. QED
    BY <2>1
<1>18. ASSUME NEW p \in Processes, Forget(p) PROVE MappingIsOwn'
  <2>1. UNCHANGED <<mem, disk, seen, made>>
    BY <1>18 DEF Forget, Onward
  <2>2. QED
    BY <2>1
<1>19. ASSUME NEW p \in Processes, NEW ok \in BOOLEAN, Settle(p, ok) PROVE MappingIsOwn'
  <2>1. taken[p].event \in Events
    BY <1>19 DEF Settle, Onward, Settling
  <2>2. PICK st : st.mapped = [mem.mapped EXCEPT ![taken[p].event] = NoBroadcast] /\ Save(st, ok)
    <3>1. CASE p = Loop
      BY <1>19, <2>1, <3>1, StoreMapping DEF Settle, Onward
    <3>2. CASE p # Loop
      BY <1>19, <2>1, <3>2, StoreMapping DEF Settle, Onward
    <3>3. QED
      BY <3>1, <3>2
  <2>3. /\ mem'.mapped = [mem.mapped EXCEPT ![taken[p].event] = NoBroadcast]
        /\ disk'.mapped = mem'.mapped \/ disk'.mapped = disk.mapped
    BY <2>2 DEF Save
  <2>4. UNCHANGED made /\ UNCHANGED seen
    BY <1>19 DEF Settle, Onward
  <2> HIDE DEF HoldInv, MappingIsOwn
  <2>5. QED
    BY <2>1, <2>3, <2>4, EntryMapped
<1>20. ASSUME NEW o \in Operators, StopActive(o) PROVE MappingIsOwn'
  <2>1. UNCHANGED <<mem, disk, seen, made>>
    BY <1>20 DEF StopActive
  <2>2. QED
    BY <2>1
<1>20a. ASSUME NEW o \in Operators, SupervisorStop(o) PROVE MappingIsOwn'
  <2>1. UNCHANGED <<mem, disk, seen, made>>
    BY <1>20a DEF SupervisorStop
  <2>2. QED
    BY <2>1
<1>21. ASSUME Extend PROVE MappingIsOwn'
  <2>1. UNCHANGED <<mem, disk, seen, made>>
    BY <1>21 DEF Extend
  <2>2. QED
    BY <2>1
<1>22. ASSUME NEW id \in Owners, NEW occurrences \in SUBSET Events, NEW ok \in BOOLEAN,
              Edit(id, occurrences, ok) PROVE MappingIsOwn'
  <2>1. mem'.mapped = [f \in Events |-> IF Owner[f] = id THEN NoBroadcast ELSE mem.mapped[f]]
        /\ disk'.mapped \in {mem'.mapped, disk.mapped} /\ UNCHANGED <<made, seen>>
    BY <1>22 DEF Edit, Save, Replace
  <2>2. Mapped(mem.mapped, made) /\ Mapped(disk.mapped, made) /\ Mapped(seen, made)
    BY MappingSplit
  <2> HIDE DEF HoldInv, TypeInv, MappingIsOwn
  <2>3. Mapped(mem.mapped, made)' /\ Mapped(disk.mapped, made)' /\ Mapped(seen, made)'
    BY <1>0, <2>1, <2>2 DEF Mapped
  <2>4. QED
    BY <2>3, MappingSplit
<1>23. ASSUME StartByHand PROVE MappingIsOwn'
  <2>1. UNCHANGED <<mem, disk, seen, made>>
    BY <1>23 DEF StartByHand
  <2>2. QED
    BY <2>1
<1>24. ASSUME StreamFails PROVE MappingIsOwn'
  <2>1. UNCHANGED <<mem, disk, seen, made>>
    BY <1>24 DEF StreamFails
  <2>2. QED
    BY <2>1
<1>25. ASSUME NEW resumed \in BOOLEAN, CrashAndBoot(resumed) PROVE MappingIsOwn'
  BY <1>25, <1>0 DEF CrashAndBoot
<1>26. ASSUME TimePasses PROVE MappingIsOwn'
  <2>1. UNCHANGED <<mem, disk, seen, made>>
    BY <1>26 DEF TimePasses
  <2>2. QED
    BY <2>1
<1>27. CASE UNCHANGED vars
  BY <1>27 DEF vars
<1> HIDE DEF HoldInv, TypeInv, MappingIsOwn, Points, Goto, runtime, backoff, tick, history
<1>28. CASE Ticks
  BY <1>28, <1>1, <1>2, <1>3, <1>4, <1>5 DEF Ticks
<1>29. CASE Prepares
  BY <1>29, <1>6, <1>7, <1>8, <1>9, <1>10 DEF Prepares
<1>30. CASE GoesLive
  BY <1>30, <1>11, <1>12, <1>13, <1>14, <1>15, <1>16 DEF GoesLive
<1>31. CASE Stops
  BY <1>31, <1>17, <1>18, <1>19, <1>20, <1>20a DEF Stops
<1>32. CASE Others
  BY <1>32, <1>21, <1>22, <1>23, <1>24, <1>25, <1>26 DEF Others
<1>33. QED
  BY <1>27, <1>28, <1>29, <1>30, <1>31, <1>32, NextSplit

LEMMA NextAlone == HoldInv /\ [Next]_vars => Alone' /\ OnAirIsActive'
<1> SUFFICES ASSUME HoldInv, [Next]_vars PROVE Alone' /\ OnAirIsActive'
  OBVIOUS
<1> USE LoopIsProcess DEF HoldInv, TypeInv, Alone, OnAirIsActive, Points, Goto, runtime, backoff, tick, history
<1>1. ASSUME TickBegin PROVE Alone' /\ OnAirIsActive'
  BY <1>1 DEF TickBegin
<1>2. ASSUME LookAway PROVE Alone' /\ OnAirIsActive'
  BY <1>2 DEF LookAway
<1>3. ASSUME Look PROVE Alone' /\ OnAirIsActive'
  BY <1>3 DEF Look, NextEvents
<1>4. ASSUME NEW e \in Events, Advance(e) PROVE Alone' /\ OnAirIsActive'
  BY <1>4 DEF Advance
<1>5. ASSUME TickEnd PROVE Alone' /\ OnAirIsActive'
  BY <1>5 DEF TickEnd
<1>6. ASSUME PrepareFails PROVE Alone' /\ OnAirIsActive'
  BY <1>6 DEF PrepareFails, RecordPrepFailure, Leave
<1>7. ASSUME NEW b \in Broadcasts, BindFails(b) PROVE Alone' /\ OnAirIsActive'
  BY <1>7, CreateIsNew DEF BindFails, Create, Leave
<1>8. ASSUME NEW b \in Broadcasts, Prepare(b) PROVE Alone' /\ OnAirIsActive'
  BY <1>8, CreateIsNew DEF Prepare, Create, Stay
<1>9. ASSUME NEW ok \in BOOLEAN, Persist(ok) PROVE Alone' /\ OnAirIsActive'
  BY <1>9 DEF Persist, Save, Leave, Stay
<1>10. ASSUME NEW ok \in BOOLEAN, Gate(ok) PROVE Alone' /\ OnAirIsActive'
  BY <1>10 DEF Gate, Unseen, GateOpen, Leave, Stay
<1>11. ASSUME NEW ok \in BOOLEAN, LiveFails(ok) PROVE Alone' /\ OnAirIsActive'
  BY <1>11 DEF LiveFails, RecordPrepFailure, Leave
<1>12. ASSUME NEW ok \in BOOLEAN, Repersist(ok) PROVE Alone' /\ OnAirIsActive'
  BY <1>12 DEF Repersist, Save, Leave, Stay
<1>13. ASSUME FindIngest PROVE Alone' /\ OnAirIsActive'
  BY <1>13 DEF FindIngest, Stay
<1>14. ASSUME StartFails PROVE Alone' /\ OnAirIsActive'
  BY <1>14 DEF StartFails, Leave
<1>15. ASSUME StartWithIngest PROVE Alone' /\ OnAirIsActive'
  BY <1>15 DEF StartWithIngest, Stay, Held, Holding
<1>16. ASSUME SetActive PROVE Alone' /\ OnAirIsActive'
  BY <1>16 DEF SetActive, Leave, Held, Holding
<1>17. ASSUME NEW p \in Processes, StopStream(p) PROVE Alone' /\ OnAirIsActive'
  BY <1>17 DEF StopStream
<1>18. ASSUME NEW p \in Processes, Forget(p) PROVE Alone' /\ OnAirIsActive'
  BY <1>18 DEF Forget, Onward
<1>19. ASSUME NEW p \in Processes, NEW ok \in BOOLEAN, Settle(p, ok) PROVE Alone' /\ OnAirIsActive'
  BY <1>19 DEF Settle, Onward, Save
<1>20. ASSUME NEW o \in Operators, StopActive(o) PROVE Alone' /\ OnAirIsActive'
  BY <1>20 DEF StopActive
<1>20a. ASSUME NEW o \in Operators, SupervisorStop(o) PROVE Alone' /\ OnAirIsActive'
  BY <1>20a DEF SupervisorStop
<1>21. ASSUME Extend PROVE Alone' /\ OnAirIsActive'
  BY <1>21 DEF Extend
<1>22. ASSUME NEW id \in Owners, NEW occurrences \in SUBSET Events, NEW ok \in BOOLEAN,
              Edit(id, occurrences, ok) PROVE Alone' /\ OnAirIsActive'
  BY <1>22 DEF Edit, Save
<1>23. ASSUME StartByHand PROVE Alone' /\ OnAirIsActive'
  BY <1>23 DEF StartByHand
<1>24. ASSUME StreamFails PROVE Alone' /\ OnAirIsActive'
  BY <1>24 DEF StreamFails
<1>25. ASSUME NEW resumed \in BOOLEAN, CrashAndBoot(resumed) PROVE Alone' /\ OnAirIsActive'
  BY <1>25 DEF CrashAndBoot, Nobody
<1>26. ASSUME TimePasses PROVE Alone' /\ OnAirIsActive'
  BY <1>26 DEF TimePasses
<1>27. CASE UNCHANGED vars
  BY <1>27 DEF vars
<1> HIDE DEF HoldInv, TypeInv, Alone, OnAirIsActive, Points, Goto, runtime, backoff, tick, history
<1>28. CASE Ticks
  BY <1>28, <1>1, <1>2, <1>3, <1>4, <1>5 DEF Ticks
<1>29. CASE Prepares
  BY <1>29, <1>6, <1>7, <1>8, <1>9, <1>10 DEF Prepares
<1>30. CASE GoesLive
  BY <1>30, <1>11, <1>12, <1>13, <1>14, <1>15, <1>16 DEF GoesLive
<1>31. CASE Stops
  BY <1>31, <1>17, <1>18, <1>19, <1>20, <1>20a DEF Stops
<1>32. CASE Others
  BY <1>32, <1>21, <1>22, <1>23, <1>24, <1>25, <1>26 DEF Others
<1>33. QED
  BY <1>27, <1>28, <1>29, <1>30, <1>31, <1>32, NextSplit

LEMMA InitHold == Init => HoldInv
<1> SUFFICES ASSUME Init PROVE HoldInv
  OBVIOUS
<1>1. TypeInv /\ Held /\ Settling
  BY InitType
<1>2. MappingIsOwn
  BY DEF Init, Loaded, MappingIsOwn
<1>3. Alone /\ OnAirIsActive
  BY LoopIsProcess DEF Init, Alone, OnAirIsActive
<1>4. QED
  BY <1>1, <1>2, <1>3 DEF HoldInv

LEMMA NextHold == HoldInv /\ [Next]_vars => HoldInv'
<1> SUFFICES ASSUME HoldInv, [Next]_vars PROVE HoldInv'
  OBVIOUS
<1>1. TypeInv'
  BY NextType DEF HoldInv
<1>2. QED
  BY <1>1, NextHeld, NextSettling, NextMapping, NextAlone DEF HoldInv

LEMMA HoldInvAlways == Spec => []HoldInv
  BY InitHold, NextHold, PTL DEF Spec

\* No occurrence ever carries a broadcast that was created for another one, in
\* memory, on disk or in the tick's snapshot.
THEOREM MappingOwned == Spec => []MappingIsOwn
<1>1. HoldInv => MappingIsOwn
  BY DEF HoldInv
<1>2. QED
  BY <1>1, HoldInvAlways, PTL

\* The end of one service never cuts off another: a scheduled broadcast on air
\* while an event is active is that event's.
THEOREM OnAirOwned == Spec => []OnAirIsActive
<1>1. HoldInv => OnAirIsActive
  BY DEF HoldInv
<1>2. QED
  BY <1>1, HoldInvAlways, PTL

-----------------------------------------------------------------------------
(* The stopped occurrences *)

\* A suppression, in memory or on disk, reaches to the end of the window.
Windows ==
  \A e \in Events : \A t \in {mem.skip[e], disk.skip[e]} : t # Never => t >= End(e)

\* Outside its pass over the events the loop has none of them left.
Blank == pc[Loop] \in {"idle", "halt", "forget", "settle", "look"} => todo = {}

\* A stopped occurrence is suppressed, and the loop neither has it in hand nor
\* takes it up: what is left of the snapshot holds it only when it is over.
Shelved ==
  \A e \in final :
    /\ mem.skip[e] >= End(e)
    /\ cur # e
    /\ e \in todo => at >= End(e)

FinalInv == HoldInv /\ Windows /\ Blank /\ Shelved /\ QuietStopIsFinal

\* Only a stop suppresses, and it suppresses one occurrence.
LEMMA StoreSkips ==
  ASSUME NEW st \in Stores(Broadcasts, Nat)
  PROVE  /\ \A e, b : SetBroadcastID(st, e, b).skip = st.skip /\ ClearBroadcast(st, e).skip = st.skip
         /\ \A e, t : SkipEvent(st, e, t).skip = [st.skip EXCEPT ![e] = t]
  BY DEF Stores, SetBroadcastID, ClearBroadcast, SkipEvent

LEMMA NextWindows == FinalInv /\ [Next]_vars => Windows'
<1> SUFFICES ASSUME FinalInv, [Next]_vars PROVE Windows'
  OBVIOUS
<1>0. /\ mem.skip \in [Events -> Nat] /\ disk.skip \in [Events -> Nat]
      /\ final \subseteq Events /\ at \in Nat
  BY DEF FinalInv, HoldInv, TypeInv, Stores
<1>a. /\ \A e, b : SetBroadcastID(mem, e, b).skip = mem.skip /\ ClearBroadcast(mem, e).skip = mem.skip
      /\ \A e, t : SkipEvent(mem, e, t).skip = [mem.skip EXCEPT ![e] = t]
  BY StoreSkips DEF FinalInv, HoldInv, TypeInv
<1> USE <1>0, LoopIsProcess, WindowType DEF FinalInv, Windows, Points, Goto, runtime, backoff, tick, history
<1>1. ASSUME TickBegin PROVE Windows'
  BY <1>1 DEF TickBegin
<1>2. ASSUME LookAway PROVE Windows'
  BY <1>2 DEF LookAway
<1>3. ASSUME Look PROVE Windows'
  BY <1>3 DEF Look, NextEvents
<1>4. ASSUME NEW e \in Events, Advance(e) PROVE Windows'
  BY <1>4 DEF Advance
<1>5. ASSUME TickEnd PROVE Windows'
  BY <1>5 DEF TickEnd
<1>6. ASSUME PrepareFails PROVE Windows'
  BY <1>6 DEF PrepareFails, RecordPrepFailure, Leave
<1>7. ASSUME NEW b \in Broadcasts, BindFails(b) PROVE Windows'
  BY <1>7 DEF BindFails, Create, RecordPrepFailure, Leave
<1>8. ASSUME NEW b \in Broadcasts, Prepare(b) PROVE Windows'
  BY <1>8 DEF Prepare, Create, Stay
<1>9. ASSUME NEW ok \in BOOLEAN, Persist(ok) PROVE Windows'
  <2>1. UNCHANGED <<final, todo, at>> /\ mem'.skip = mem.skip /\ (disk'.skip = mem.skip \/ disk'.skip = disk.skip)
        /\ (cur' = cur \/ cur' = NoEvent)
    BY <1>9, <1>a DEF Persist, Save, Leave, Stay
  <2>2. QED
    BY <1>0, <2>1
<1>10. ASSUME NEW ok \in BOOLEAN, Gate(ok) PROVE Windows'
  BY <1>10 DEF Gate, Unseen, GateOpen, Leave, Stay
<1>11. ASSUME NEW ok \in BOOLEAN, LiveFails(ok) PROVE Windows'
  BY <1>11 DEF LiveFails, RecordPrepFailure, Leave
<1>12. ASSUME NEW ok \in BOOLEAN, Repersist(ok) PROVE Windows'
  <2>1. UNCHANGED <<final, todo, at>> /\ mem'.skip = mem.skip /\ (disk'.skip = mem.skip \/ disk'.skip = disk.skip)
        /\ (cur' = cur \/ cur' = NoEvent)
    BY <1>12, <1>a DEF Repersist, Save, Leave, Stay
  <2>2. QED
    BY <1>0, <2>1
<1>13. ASSUME FindIngest PROVE Windows'
  BY <1>13 DEF FindIngest, Stay
<1>14. ASSUME StartFails PROVE Windows'
  BY <1>14 DEF StartFails, Leave
<1>15. ASSUME StartWithIngest PROVE Windows'
  BY <1>15 DEF StartWithIngest, Stay
<1>16. ASSUME SetActive PROVE Windows'
  BY <1>16 DEF SetActive, Leave
<1>17. ASSUME NEW p \in Processes, StopStream(p) PROVE Windows'
  BY <1>17 DEF StopStream
<1>18. ASSUME NEW p \in Processes, Forget(p) PROVE Windows'
  BY <1>18 DEF Forget, Onward
<1>19. ASSUME NEW p \in Processes, NEW ok \in BOOLEAN, Settle(p, ok) PROVE Windows'
  <2>1. taken[p].event \in Events /\ taken[p].until >= End(taken[p].event) /\ taken[p].until \in Nat
    BY <1>19 DEF Settle, Onward, Settling, HoldInv, TypeInv
  <2>2. CASE p = Loop
    <3>1. mem'.skip = mem.skip /\ (disk'.skip = mem.skip \/ disk'.skip = disk.skip) /\ UNCHANGED final
      BY <1>19, <1>a, <2>2 DEF Settle, Onward, Save
    <3>2. UNCHANGED tick
      BY <1>19 DEF Settle, Onward
    <3>3. QED
      BY <1>0, <3>1, <3>2
  <2>3. CASE p # Loop
    <3>1. /\ mem'.skip = [mem.skip EXCEPT ![taken[p].event] = taken[p].until]
          /\ disk'.skip = mem'.skip \/ disk'.skip = disk.skip
          /\ final' = IF taken[p].event \in InHand THEN final ELSE final \cup {taken[p].event}
      BY <1>19, <1>a, <2>3 DEF Settle, Onward, Save
    <3>2. UNCHANGED tick
      BY <1>19 DEF Settle, Onward
    <3>3. QED
      BY <1>0, <2>1, <3>1, <3>2 DEF InHand
  <2>4. QED
    BY <2>2, <2>3
<1>20. ASSUME NEW o \in Operators, StopActive(o) PROVE Windows'
  BY <1>20 DEF StopActive
<1>20a. ASSUME NEW o \in Operators, SupervisorStop(o) PROVE Windows'
  BY <1>20a DEF SupervisorStop
<1>21. ASSUME Extend PROVE Windows'
  BY <1>21 DEF Extend
<1>22. ASSUME NEW id \in Owners, NEW occurrences \in SUBSET Events, NEW ok \in BOOLEAN,
              Edit(id, occurrences, ok) PROVE Windows'
  <2>1. /\ mem'.skip = [e \in Events |-> IF Owner[e] = id THEN Never ELSE mem.skip[e]]
        /\ disk'.skip = mem'.skip \/ disk' = disk
    BY <1>22 DEF Edit, Save, Replace
  <2>2. QED
    BY <1>22, <1>0, <2>1 DEF Edit
<1>23. ASSUME StartByHand PROVE Windows'
  BY <1>23 DEF StartByHand
<1>24. ASSUME StreamFails PROVE Windows'
  BY <1>24 DEF StreamFails
<1>25. ASSUME NEW resumed \in BOOLEAN, CrashAndBoot(resumed) PROVE Windows'
  <2>1. mem' = disk /\ disk' = disk
    BY <1>25 DEF CrashAndBoot
  <2>2. QED
    BY <1>0, <2>1
<1>26. ASSUME TimePasses PROVE Windows'
  BY <1>26 DEF TimePasses
<1>27. CASE UNCHANGED vars
  BY <1>27 DEF vars
<1> HIDE DEF FinalInv, Windows, Points, Goto, runtime, backoff, tick, history
<1>28. CASE Ticks
  BY <1>28, <1>1, <1>2, <1>3, <1>4, <1>5 DEF Ticks
<1>29. CASE Prepares
  BY <1>29, <1>6, <1>7, <1>8, <1>9, <1>10 DEF Prepares
<1>30. CASE GoesLive
  BY <1>30, <1>11, <1>12, <1>13, <1>14, <1>15, <1>16 DEF GoesLive
<1>31. CASE Stops
  BY <1>31, <1>17, <1>18, <1>19, <1>20, <1>20a DEF Stops
<1>32. CASE Others
  BY <1>32, <1>21, <1>22, <1>23, <1>24, <1>25, <1>26 DEF Others
<1>33. QED
  BY <1>27, <1>28, <1>29, <1>30, <1>31, <1>32, NextSplit

LEMMA NextBlank == FinalInv /\ [Next]_vars => Blank'
<1> SUFFICES ASSUME FinalInv, [Next]_vars PROVE Blank'
  OBVIOUS
<1>0. /\ mem.skip \in [Events -> Nat] /\ disk.skip \in [Events -> Nat]
      /\ final \subseteq Events /\ at \in Nat
  BY DEF FinalInv, HoldInv, TypeInv, Stores
<1> USE <1>0, LoopIsProcess, WindowType DEF FinalInv, HoldInv, TypeInv, Blank, Points, Goto, runtime, backoff, tick, history
<1>1. ASSUME TickBegin PROVE Blank'
  BY <1>1 DEF TickBegin
<1>2. ASSUME LookAway PROVE Blank'
  BY <1>2 DEF LookAway
<1>3. ASSUME Look PROVE Blank'
  BY <1>3 DEF Look, NextEvents
<1>4. ASSUME NEW e \in Events, Advance(e) PROVE Blank'
  BY <1>4 DEF Advance
<1>5. ASSUME TickEnd PROVE Blank'
  BY <1>5 DEF TickEnd
<1>6. ASSUME PrepareFails PROVE Blank'
  BY <1>6 DEF PrepareFails, RecordPrepFailure, Leave
<1>7. ASSUME NEW b \in Broadcasts, BindFails(b) PROVE Blank'
  BY <1>7 DEF BindFails, Create, RecordPrepFailure, Leave
<1>8. ASSUME NEW b \in Broadcasts, Prepare(b) PROVE Blank'
  BY <1>8 DEF Prepare, Create, Stay
<1>9. ASSUME NEW ok \in BOOLEAN, Persist(ok) PROVE Blank'
  BY <1>9 DEF Persist, Save, Leave, Stay
<1>10. ASSUME NEW ok \in BOOLEAN, Gate(ok) PROVE Blank'
  BY <1>10 DEF Gate, Unseen, GateOpen, Leave, Stay
<1>11. ASSUME NEW ok \in BOOLEAN, LiveFails(ok) PROVE Blank'
  BY <1>11 DEF LiveFails, RecordPrepFailure, Leave
<1>12. ASSUME NEW ok \in BOOLEAN, Repersist(ok) PROVE Blank'
  BY <1>12 DEF Repersist, Save, Leave, Stay
<1>13. ASSUME FindIngest PROVE Blank'
  BY <1>13 DEF FindIngest, Stay
<1>14. ASSUME StartFails PROVE Blank'
  BY <1>14 DEF StartFails, Leave
<1>15. ASSUME StartWithIngest PROVE Blank'
  BY <1>15 DEF StartWithIngest, Stay
<1>16. ASSUME SetActive PROVE Blank'
  BY <1>16 DEF SetActive, Leave
<1>17. ASSUME NEW p \in Processes, StopStream(p) PROVE Blank'
  BY <1>17 DEF StopStream
<1>18. ASSUME NEW p \in Processes, Forget(p) PROVE Blank'
  BY <1>18 DEF Forget, Onward
<1>19. ASSUME NEW p \in Processes, NEW ok \in BOOLEAN, Settle(p, ok) PROVE Blank'
  BY <1>19 DEF Settle, Onward, Save
<1>20. ASSUME NEW o \in Operators, StopActive(o) PROVE Blank'
  BY <1>20 DEF StopActive
<1>20a. ASSUME NEW o \in Operators, SupervisorStop(o) PROVE Blank'
  BY <1>20a DEF SupervisorStop
<1>21. ASSUME Extend PROVE Blank'
  BY <1>21 DEF Extend
<1>22. ASSUME NEW id \in Owners, NEW occurrences \in SUBSET Events, NEW ok \in BOOLEAN,
              Edit(id, occurrences, ok) PROVE Blank'
  BY <1>22 DEF Edit, Save
<1>23. ASSUME StartByHand PROVE Blank'
  BY <1>23 DEF StartByHand
<1>24. ASSUME StreamFails PROVE Blank'
  BY <1>24 DEF StreamFails
<1>25. ASSUME NEW resumed \in BOOLEAN, CrashAndBoot(resumed) PROVE Blank'
  BY <1>25 DEF CrashAndBoot, Nobody
<1>26. ASSUME TimePasses PROVE Blank'
  BY <1>26 DEF TimePasses
<1>27. CASE UNCHANGED vars
  BY <1>27 DEF vars
<1> HIDE DEF FinalInv, HoldInv, TypeInv, Blank, Points, Goto, runtime, backoff, tick, history
<1>28. CASE Ticks
  BY <1>28, <1>1, <1>2, <1>3, <1>4, <1>5 DEF Ticks
<1>29. CASE Prepares
  BY <1>29, <1>6, <1>7, <1>8, <1>9, <1>10 DEF Prepares
<1>30. CASE GoesLive
  BY <1>30, <1>11, <1>12, <1>13, <1>14, <1>15, <1>16 DEF GoesLive
<1>31. CASE Stops
  BY <1>31, <1>17, <1>18, <1>19, <1>20, <1>20a DEF Stops
<1>32. CASE Others
  BY <1>32, <1>21, <1>22, <1>23, <1>24, <1>25, <1>26 DEF Others
<1>33. QED
  BY <1>27, <1>28, <1>29, <1>30, <1>31, <1>32, NextSplit

LEMMA NextShelved == FinalInv /\ [Next]_vars => Shelved'
<1> SUFFICES ASSUME FinalInv, [Next]_vars PROVE Shelved'
  OBVIOUS
<1>0. /\ mem.skip \in [Events -> Nat] /\ disk.skip \in [Events -> Nat]
      /\ final \subseteq Events /\ at \in Nat
  BY DEF FinalInv, HoldInv, TypeInv, Stores
<1>a. /\ \A e, b : SetBroadcastID(mem, e, b).skip = mem.skip /\ ClearBroadcast(mem, e).skip = mem.skip
      /\ \A e, t : SkipEvent(mem, e, t).skip = [mem.skip EXCEPT ![e] = t]
  BY StoreSkips DEF FinalInv, HoldInv, TypeInv
<1> USE <1>0, LoopIsProcess, WindowType DEF FinalInv, Windows, Blank, Shelved, Points, Goto, runtime, backoff, tick, history
<1>1. ASSUME TickBegin PROVE Shelved'
  BY <1>1 DEF TickBegin
<1>2. ASSUME LookAway PROVE Shelved'
  BY <1>2 DEF LookAway
<1>3. ASSUME Look PROVE Shelved'
  BY <1>3, <1>0 DEF Look, NextEvents
<1>4. ASSUME NEW e \in Events, Advance(e) PROVE Shelved'
  <2>1. (cur' = NoEvent \/ cur' = e) /\ todo' = todo \ {e} /\ UNCHANGED <<at, final, mem>>
    BY <1>4 DEF Advance
  <2>2. cur' = e => e \in todo /\ at < End(e)
    BY <1>4 DEF Advance, PrepDue, PrerollDue
  <2>3. QED
    BY <2>1, <2>2
<1>5. ASSUME TickEnd PROVE Shelved'
  BY <1>5 DEF TickEnd
<1>6. ASSUME PrepareFails PROVE Shelved'
  BY <1>6 DEF PrepareFails, RecordPrepFailure, Leave
<1>7. ASSUME NEW b \in Broadcasts, BindFails(b) PROVE Shelved'
  BY <1>7 DEF BindFails, Create, RecordPrepFailure, Leave
<1>8. ASSUME NEW b \in Broadcasts, Prepare(b) PROVE Shelved'
  BY <1>8 DEF Prepare, Create, Stay
<1>9. ASSUME NEW ok \in BOOLEAN, Persist(ok) PROVE Shelved'
  <2>1. UNCHANGED <<final, todo, at>> /\ mem'.skip = mem.skip /\ (disk'.skip = mem.skip \/ disk'.skip = disk.skip)
        /\ (cur' = cur \/ cur' = NoEvent)
    BY <1>9, <1>a DEF Persist, Save, Leave, Stay
  <2>2. QED
    BY <1>0, <2>1
<1>10. ASSUME NEW ok \in BOOLEAN, Gate(ok) PROVE Shelved'
  BY <1>10 DEF Gate, Unseen, GateOpen, Leave, Stay
<1>11. ASSUME NEW ok \in BOOLEAN, LiveFails(ok) PROVE Shelved'
  BY <1>11 DEF LiveFails, RecordPrepFailure, Leave
<1>12. ASSUME NEW ok \in BOOLEAN, Repersist(ok) PROVE Shelved'
  <2>1. UNCHANGED <<final, todo, at>> /\ mem'.skip = mem.skip /\ (disk'.skip = mem.skip \/ disk'.skip = disk.skip)
        /\ (cur' = cur \/ cur' = NoEvent)
    BY <1>12, <1>a DEF Repersist, Save, Leave, Stay
  <2>2. QED
    BY <1>0, <2>1
<1>13. ASSUME FindIngest PROVE Shelved'
  BY <1>13 DEF FindIngest, Stay
<1>14. ASSUME StartFails PROVE Shelved'
  BY <1>14 DEF StartFails, Leave
<1>15. ASSUME StartWithIngest PROVE Shelved'
  BY <1>15 DEF StartWithIngest, Stay
<1>16. ASSUME SetActive PROVE Shelved'
  BY <1>16 DEF SetActive, Leave
<1>17. ASSUME NEW p \in Processes, StopStream(p) PROVE Shelved'
  BY <1>17 DEF StopStream
<1>18. ASSUME NEW p \in Processes, Forget(p) PROVE Shelved'
  BY <1>18 DEF Forget, Onward
<1>19. ASSUME NEW p \in Processes, NEW ok \in BOOLEAN, Settle(p, ok) PROVE Shelved'
  <2>1. taken[p].event \in Events /\ taken[p].until >= End(taken[p].event) /\ taken[p].until \in Nat
    BY <1>19 DEF Settle, Onward, Settling, HoldInv, TypeInv
  <2>2. CASE p = Loop
    <3>1. mem'.skip = mem.skip /\ (disk'.skip = mem.skip \/ disk'.skip = disk.skip) /\ UNCHANGED final
      BY <1>19, <1>a, <2>2 DEF Settle, Onward, Save
    <3>2. UNCHANGED tick
      BY <1>19 DEF Settle, Onward
    <3>3. QED
      BY <1>0, <3>1, <3>2
  <2>3. CASE p # Loop
    <3>1. /\ mem'.skip = [mem.skip EXCEPT ![taken[p].event] = taken[p].until]
          /\ disk'.skip = mem'.skip \/ disk'.skip = disk.skip
          /\ final' = IF taken[p].event \in InHand THEN final ELSE final \cup {taken[p].event}
      BY <1>19, <1>a, <2>3 DEF Settle, Onward, Save
    <3>2. UNCHANGED tick
      BY <1>19 DEF Settle, Onward
    <3>3. QED
      BY <1>0, <2>1, <3>1, <3>2 DEF InHand
  <2>4. QED
    BY <2>2, <2>3
<1>20. ASSUME NEW o \in Operators, StopActive(o) PROVE Shelved'
  BY <1>20 DEF StopActive
<1>20a. ASSUME NEW o \in Operators, SupervisorStop(o) PROVE Shelved'
  BY <1>20a DEF SupervisorStop
<1>21. ASSUME Extend PROVE Shelved'
  BY <1>21 DEF Extend
<1>22. ASSUME NEW id \in Owners, NEW occurrences \in SUBSET Events, NEW ok \in BOOLEAN,
              Edit(id, occurrences, ok) PROVE Shelved'
  <2>1. /\ mem'.skip = [e \in Events |-> IF Owner[e] = id THEN Never ELSE mem.skip[e]]
        /\ disk'.skip = mem'.skip \/ disk' = disk
    BY <1>22 DEF Edit, Save, Replace
  <2>2. QED
    BY <1>22, <1>0, <2>1 DEF Edit
<1>23. ASSUME StartByHand PROVE Shelved'
  BY <1>23 DEF StartByHand
<1>24. ASSUME StreamFails PROVE Shelved'
  BY <1>24 DEF StreamFails
<1>25. ASSUME NEW resumed \in BOOLEAN, CrashAndBoot(resumed) PROVE Shelved'
  BY <1>25 DEF CrashAndBoot, Nobody
<1>26. ASSUME TimePasses PROVE Shelved'
  BY <1>26 DEF TimePasses
<1>27. CASE UNCHANGED vars
  BY <1>27 DEF vars
<1> HIDE DEF FinalInv, Windows, Blank, Shelved, Points, Goto, runtime, backoff, tick, history
<1>28. CASE Ticks
  BY <1>28, <1>1, <1>2, <1>3, <1>4, <1>5 DEF Ticks
<1>29. CASE Prepares
  BY <1>29, <1>6, <1>7, <1>8, <1>9, <1>10 DEF Prepares
<1>30. CASE GoesLive
  BY <1>30, <1>11, <1>12, <1>13, <1>14, <1>15, <1>16 DEF GoesLive
<1>31. CASE Stops
  BY <1>31, <1>17, <1>18, <1>19, <1>20, <1>20a DEF Stops
<1>32. CASE Others
  BY <1>32, <1>21, <1>22, <1>23, <1>24, <1>25, <1>26 DEF Others
<1>33. QED
  BY <1>27, <1>28, <1>29, <1>30, <1>31, <1>32, NextSplit

LEMMA NextFinal == FinalInv /\ [Next]_vars => QuietStopIsFinal'
<1> SUFFICES ASSUME FinalInv, [Next]_vars PROVE QuietStopIsFinal'
  OBVIOUS
<1>0. /\ mem.skip \in [Events -> Nat] /\ disk.skip \in [Events -> Nat]
      /\ final \subseteq Events /\ at \in Nat
  BY DEF FinalInv, HoldInv, TypeInv, Stores
<1> USE <1>0, LoopIsProcess, WindowType DEF FinalInv, HoldInv, TypeInv, QuietStopIsFinal, Alone, Points, Goto, runtime, backoff, tick, history
<1>1. ASSUME TickBegin PROVE QuietStopIsFinal'
  BY <1>1 DEF TickBegin
<1>2. ASSUME LookAway PROVE QuietStopIsFinal'
  BY <1>2 DEF LookAway
<1>3. ASSUME Look PROVE QuietStopIsFinal'
  BY <1>3 DEF Look, NextEvents
<1>4. ASSUME NEW e \in Events, Advance(e) PROVE QuietStopIsFinal'
  BY <1>4 DEF Advance
<1>5. ASSUME TickEnd PROVE QuietStopIsFinal'
  BY <1>5 DEF TickEnd
<1>6. ASSUME PrepareFails PROVE QuietStopIsFinal'
  BY <1>6 DEF PrepareFails, RecordPrepFailure, Leave
<1>7. ASSUME NEW b \in Broadcasts, BindFails(b) PROVE QuietStopIsFinal'
  BY <1>7, CreateIsNew DEF BindFails, Leave, Shelved
<1>8. ASSUME NEW b \in Broadcasts, Prepare(b) PROVE QuietStopIsFinal'
  BY <1>8, CreateIsNew DEF Prepare, Stay, Shelved
<1>9. ASSUME NEW ok \in BOOLEAN, Persist(ok) PROVE QuietStopIsFinal'
  BY <1>9 DEF Persist, Save, Leave, Stay
<1>10. ASSUME NEW ok \in BOOLEAN, Gate(ok) PROVE QuietStopIsFinal'
  BY <1>10 DEF Gate, Unseen, GateOpen, Leave, Stay
<1>11. ASSUME NEW ok \in BOOLEAN, LiveFails(ok) PROVE QuietStopIsFinal'
  BY <1>11 DEF LiveFails, RecordPrepFailure, Leave
<1>12. ASSUME NEW ok \in BOOLEAN, Repersist(ok) PROVE QuietStopIsFinal'
  BY <1>12 DEF Repersist, Save, Leave, Stay
<1>13. ASSUME FindIngest PROVE QuietStopIsFinal'
  BY <1>13 DEF FindIngest, Stay
<1>14. ASSUME StartFails PROVE QuietStopIsFinal'
  BY <1>14 DEF StartFails, Leave
<1>15. ASSUME StartWithIngest PROVE QuietStopIsFinal'
  BY <1>15 DEF StartWithIngest, Stay, Held, Holding, Shelved
<1>16. ASSUME SetActive PROVE QuietStopIsFinal'
  BY <1>16 DEF SetActive, Leave
<1>17. ASSUME NEW p \in Processes, StopStream(p) PROVE QuietStopIsFinal'
  BY <1>17 DEF StopStream
<1>18. ASSUME NEW p \in Processes, Forget(p) PROVE QuietStopIsFinal'
  BY <1>18 DEF Forget, Onward
<1>19. ASSUME NEW p \in Processes, NEW ok \in BOOLEAN, Settle(p, ok) PROVE QuietStopIsFinal'
  <2>1. UNCHANGED <<stream, made>>
    BY <1>19 DEF Settle, Onward
  <2>2. ASSUME NEW e \in final', e \notin final, stream \in Broadcasts PROVE made[stream] # e
    <3>1. e \notin InHand
      BY <1>19, <2>2 DEF Settle, Onward
    <3>2. QED
      BY <2>2, <3>1 DEF InHand
  <2> HIDE DEF HoldInv, TypeInv, FinalInv, Alone
  <2>3. QuietStopIsFinal
    BY DEF FinalInv
  <2>4. QED
    BY <2>1, <2>2, <2>3
<1>20. ASSUME NEW o \in Operators, StopActive(o) PROVE QuietStopIsFinal'
  BY <1>20 DEF StopActive
<1>20a. ASSUME NEW o \in Operators, SupervisorStop(o) PROVE QuietStopIsFinal'
  BY <1>20a DEF SupervisorStop
<1>21. ASSUME Extend PROVE QuietStopIsFinal'
  BY <1>21 DEF Extend
<1>22. ASSUME NEW id \in Owners, NEW occurrences \in SUBSET Events, NEW ok \in BOOLEAN,
              Edit(id, occurrences, ok) PROVE QuietStopIsFinal'
  BY <1>22 DEF Edit, Save
<1>23. ASSUME StartByHand PROVE QuietStopIsFinal'
  BY <1>23 DEF StartByHand
<1>24. ASSUME StreamFails PROVE QuietStopIsFinal'
  BY <1>24 DEF StreamFails
<1>25. ASSUME NEW resumed \in BOOLEAN, CrashAndBoot(resumed) PROVE QuietStopIsFinal'
  BY <1>25 DEF CrashAndBoot, Nobody
<1>26. ASSUME TimePasses PROVE QuietStopIsFinal'
  BY <1>26 DEF TimePasses
<1>27. CASE UNCHANGED vars
  BY <1>27 DEF vars
<1> HIDE DEF FinalInv, HoldInv, TypeInv, QuietStopIsFinal, Alone, Points, Goto, runtime, backoff, tick, history
<1>28. CASE Ticks
  BY <1>28, <1>1, <1>2, <1>3, <1>4, <1>5 DEF Ticks
<1>29. CASE Prepares
  BY <1>29, <1>6, <1>7, <1>8, <1>9, <1>10 DEF Prepares
<1>30. CASE GoesLive
  BY <1>30, <1>11, <1>12, <1>13, <1>14, <1>15, <1>16 DEF GoesLive
<1>31. CASE Stops
  BY <1>31, <1>17, <1>18, <1>19, <1>20, <1>20a DEF Stops
<1>32. CASE Others
  BY <1>32, <1>21, <1>22, <1>23, <1>24, <1>25, <1>26 DEF Others
<1>33. QED
  BY <1>27, <1>28, <1>29, <1>30, <1>31, <1>32, NextSplit

LEMMA InitFinal == Init => FinalInv
<1> SUFFICES ASSUME Init PROVE Windows /\ Blank /\ Shelved /\ QuietStopIsFinal /\ HoldInv
  BY DEF FinalInv
<1>1. Windows /\ Blank /\ Shelved /\ QuietStopIsFinal
  BY DEF Init, Loaded, Windows, Blank, Shelved, QuietStopIsFinal
<1>2. HoldInv
  BY InitHold
<1>3. QED
  BY <1>1, <1>2

LEMMA NextFinalInv == FinalInv /\ [Next]_vars => FinalInv'
  BY NextHold, NextWindows, NextBlank, NextShelved, NextFinal DEF FinalInv

\* An operator's stop is final: an occurrence that was stopped while no tick had
\* it in hand is not on air again, whatever ticks, crashes and saves follow.
THEOREM StopIsFinal == Spec => []QuietStopIsFinal
<1>1. FinalInv => QuietStopIsFinal
  BY DEF FinalInv
<1>2. QED
  BY <1>1, InitFinal, NextFinalInv, PTL DEF Spec

-----------------------------------------------------------------------------
(* The count of broadcasts *)

\* The broadcasts that were created for an occurrence.
Created(e) == {b \in Broadcasts : made[b] = e}

\* The Store knows that an occurrence was prepared, or stopped; ...
Known(e) == mem.mapped[e] # NoBroadcast \/ mem.skip[e] # Never

\* ... its broadcast exists and is about to be stored; ...
OnItsWay(e) == pc[Loop] = "persist" /\ cur = e

\* ... or its window has passed, also for the tick that is under way.
Ended(e) == now > End(e) /\ (pc[Loop] # "idle" => at > End(e))

\* The tick has found an occurrence unprepared and will prepare it, or may.
Due(e) ==
  \/ e \in todo /\ seen[e] = NoBroadcast /\ at < End(e)
  \/ pc[Loop] = "prepare" /\ cur = e

\* A broadcast too many is a lost one; one that is not lost is known or no
\* longer needed, and an occurrence that may be prepared has lost all it had.
AccountedFor(e) ==
  /\ Cardinality(Created(e)) <= 1 + lost[e]
  /\ Known(e) \/ OnItsWay(e) \/ Ended(e) \/ Cardinality(Created(e)) <= lost[e]
  /\ Due(e) => Cardinality(Created(e)) <= lost[e]

Accounted == \A e \in Events : AccountedFor(e)

\* The tick's clock is not ahead, and the occurrence in hand is not left to do.
InOrder ==
  /\ at <= now
  /\ cur \notin todo
  /\ pc[Loop] \notin Holding => cur = NoEvent
  /\ lost \in [Events -> Nat]

\* The loop stops an event only when it is past its end.
Overdue ==
  /\ pc[Loop] \in {"halt", "forget"} /\ active # NoEvent => at > End(active)
  /\ pc[Loop] = "settle" => at > End(taken[Loop].event)

CountInv == FinalInv /\ InOrder /\ Overdue /\ Accounted

LEMMA CreatedFinite ==
  \A e \in Events : IsFiniteSet(Created(e)) /\ Cardinality(Created(e)) \in Nat
<1> SUFFICES ASSUME NEW e \in Events PROVE IsFiniteSet(Created(e)) /\ Cardinality(Created(e)) \in Nat
  OBVIOUS
<1>1. IsFiniteSet(Broadcasts)
  BY FS_Interval
<1>2. Created(e) \in SUBSET Broadcasts
  BY DEF Created
<1>3. IsFiniteSet(Created(e))
  BY <1>1, <1>2, FS_Subset
<1>4. QED
  BY <1>3, FS_CardinalityType

\* A new broadcast adds one to the count of its occurrence and to no other.
LEMMA CreateCounts ==
  ASSUME HoldInv, NEW b \in Broadcasts, Create(b)
  PROVE  \A e \in Events : Cardinality(Created(e))' = IF e = cur THEN Cardinality(Created(e)) + 1
                                                       ELSE Cardinality(Created(e))
<1>1. cur \in Events /\ made' = [made EXCEPT ![b] = cur] /\ made[b] = NoEvent
      /\ made \in [Broadcasts -> Events \cup {NoEvent}]
  BY CreateIsNew DEF HoldInv, TypeInv, Create
<1>2. ASSUME NEW a \in Broadcasts PROVE made'[a] = IF a = b THEN cur ELSE made[a]
  BY <1>1
<1>3. ASSUME NEW e \in Events, e = cur PROVE Created(e)' = Created(e) \cup {b} /\ b \notin Created(e)
  BY <1>1, <1>2, <1>3 DEF Created
<1>4. ASSUME NEW e \in Events, e # cur PROVE Created(e)' = Created(e)
  BY <1>1, <1>2, <1>4 DEF Created
<1>5. QED
  BY <1>3, <1>4, CreatedFinite, FS_AddElement

\* What an edit or a crash gives up is added to what was lost.
LEMMA EditLoses ==
  ASSUME lost \in [Events -> Nat], NEW id \in Owners, NEW occurrences \in SUBSET Events, NEW ok \in BOOLEAN,
         Edit(id, occurrences, ok)
  PROVE  lost' \in [Events -> Nat] /\ \A e \in Events : lost'[e] \in {lost[e], lost[e] + 1}
<1>1. lost' = [e \in Events |-> IF Owner[e] = id /\ (mem.mapped[e] # NoBroadcast \/ mem.skip[e] # Never)
                                 THEN lost[e] + 1 ELSE lost[e]]
  BY DEF Edit
<1>2. QED
  BY <1>1

LEMMA CrashLoses ==
  ASSUME lost \in [Events -> Nat], NEW resumed \in BOOLEAN, CrashAndBoot(resumed)
  PROVE  lost' \in [Events -> Nat] /\ \A e \in Events : lost'[e] \in {lost[e], lost[e] + 1}
<1>1. lost' = [e \in Events |->
                 IF \/ e = cur /\ pc[Loop] = "persist"
                    \/ /\ mem.mapped[e] # NoBroadcast \/ mem.skip[e] # Never
                       /\ disk.mapped[e] = NoBroadcast /\ disk.skip[e] = Never
                   THEN lost[e] + 1 ELSE lost[e]]
  BY DEF CrashAndBoot
<1>2. QED
  BY <1>1

LEMMA NextInOrder == CountInv /\ [Next]_vars => InOrder' /\ Overdue'
<1> SUFFICES ASSUME CountInv, [Next]_vars PROVE InOrder' /\ Overdue'
  OBVIOUS
<1>0. /\ now \in Nat /\ at \in Nat /\ extra \in Nat /\ todo \subseteq Events /\ cur \in Events \cup {NoEvent}
      /\ active \in Events \cup {NoEvent} /\ mem \in Stores(Broadcasts, Nat) /\ pc \in [Processes -> Points]
      /\ taken \in [Processes -> [event : Events \cup {NoEvent}, until : Nat]]
      /\ pc[Loop] \in {"idle", "halt", "forget", "settle", "look"} => todo = {}
      /\ InOrder /\ Overdue /\ Held
  BY DEF CountInv, FinalInv, HoldInv, TypeInv, Blank
<1>a. lost \in [Events -> Nat]
  BY DEF CountInv, InOrder
<1>b. ASSUME NEW id \in Owners, NEW occurrences \in SUBSET Events, NEW ok \in BOOLEAN,
             Edit(id, occurrences, ok) PROVE lost' \in [Events -> Nat]
  BY <1>a, <1>b, EditLoses
<1>c. ASSUME NEW resumed \in BOOLEAN, CrashAndBoot(resumed) PROVE lost' \in [Events -> Nat]
  BY <1>a, <1>c, CrashLoses
<1>d. ASSUME NEW b \in Broadcasts, BindFails(b) PROVE lost' \in [Events -> Nat]
  <2>1. lost' = [lost EXCEPT ![cur] = @ + 1] /\ cur \in Events
    BY <1>0, <1>d DEF BindFails, Create, Held, Holding
  <2>2. QED
    BY <1>a, <2>1
<1>e. active # NoEvent /\ PastEnd(active, extra, now) => now > End(active)
  <2>1. active # NoEvent => End(active) \in Nat
    BY <1>0, WindowType
  <2>2. QED
    BY <1>0, <2>1 DEF PastEnd
<1> USE <1>0, <1>a, LoopIsProcess, WindowType DEF InOrder, Overdue, Holding, Goto, runtime, backoff, tick, history
<1>1. ASSUME TickBegin PROVE InOrder' /\ Overdue'
  <2>1. UNCHANGED <<now, active, taken, lost, cur, todo>> /\ at' = now /\ pc[Loop] = "idle"
        /\ pc'[Loop] = IF active # NoEvent /\ PastEnd(active, extra, now) THEN "halt" ELSE "look"
    BY <1>1 DEF TickBegin
  <2>2. QED
    BY <1>e, <2>1
<1>2. ASSUME LookAway PROVE InOrder' /\ Overdue'
  BY <1>2 DEF LookAway
<1>3. ASSUME Look PROVE InOrder' /\ Overdue'
  <2>1. UNCHANGED <<now, at, cur, active, taken, lost>> /\ todo' \subseteq Events /\ pc'[Loop] = "next"
        /\ pc[Loop] = "look"
    BY <1>3 DEF Look, NextEvents, Stores
  <2>2. QED
    BY <2>1
<1>4. ASSUME NEW e \in Events, Advance(e) PROVE InOrder' /\ Overdue'
  <2>1. UNCHANGED <<now, at, lost, active>> /\ todo' = todo \ {e} /\ e \in todo
        /\ \/ cur' = e /\ pc'[Loop] \in {"prepare", "gate"}
           \/ cur' = NoEvent /\ pc'[Loop] = "next"
    BY <1>4 DEF Advance
  <2>2. QED
    BY <2>1
<1>5. ASSUME TickEnd PROVE InOrder' /\ Overdue'
  BY <1>5 DEF TickEnd
<1>6. ASSUME PrepareFails PROVE InOrder' /\ Overdue'
  BY <1>6 DEF PrepareFails, RecordPrepFailure, Leave
<1>7. ASSUME NEW b \in Broadcasts, BindFails(b) PROVE InOrder' /\ Overdue'
  <2>1. UNCHANGED <<now, at, active, todo>> /\ lost' = [lost EXCEPT ![cur] = @ + 1] /\ cur' = NoEvent
        /\ pc'[Loop] = "next" /\ cur \in Events
    BY <1>7 DEF BindFails, Create, Leave, Held
  <2>2. lost' \in [Events -> Nat]
    BY <1>7, <1>d
  <2>3. QED
    BY <2>1, <2>2
<1>8. ASSUME NEW b \in Broadcasts, Prepare(b) PROVE InOrder' /\ Overdue'
  BY <1>8 DEF Prepare, Create, Stay
<1>9. ASSUME NEW ok \in BOOLEAN, Persist(ok) PROVE InOrder' /\ Overdue'
  <2>1. UNCHANGED <<now, at, active, taken, lost, todo>> /\ pc[Loop] = "persist"
        /\ \/ cur' = cur /\ pc'[Loop] = "gate"
           \/ cur' = NoEvent /\ pc'[Loop] = "next"
    BY <1>9 DEF Persist, Leave, Stay
  <2>2. QED
    BY <2>1
<1>10. ASSUME NEW ok \in BOOLEAN, Gate(ok) PROVE InOrder' /\ Overdue'
  <2>1. UNCHANGED <<now, at, active, taken, lost, todo>> /\ pc[Loop] = "gate"
        /\ \/ cur' = cur /\ pc'[Loop] = "live"
           \/ cur' = NoEvent /\ pc'[Loop] = "next"
    BY <1>10 DEF Gate, Unseen, Leave, Stay
  <2>2. QED
    BY <2>1
<1>11. ASSUME NEW ok \in BOOLEAN, LiveFails(ok) PROVE InOrder' /\ Overdue'
  BY <1>11 DEF LiveFails, RecordPrepFailure, Leave
<1>12. ASSUME NEW ok \in BOOLEAN, Repersist(ok) PROVE InOrder' /\ Overdue'
  <2>1. UNCHANGED <<now, at, active, taken, lost, todo>> /\ pc[Loop] = "repersist"
        /\ \/ cur' = cur /\ pc'[Loop] = "start"
           \/ cur' = NoEvent /\ pc'[Loop] = "next"
    BY <1>12 DEF Repersist, Leave, Stay
  <2>2. QED
    BY <2>1
<1>13. ASSUME FindIngest PROVE InOrder' /\ Overdue'
  BY <1>13 DEF FindIngest, Stay
<1>14. ASSUME StartFails PROVE InOrder' /\ Overdue'
  BY <1>14 DEF StartFails, Leave
<1>15. ASSUME StartWithIngest PROVE InOrder' /\ Overdue'
  BY <1>15 DEF StartWithIngest, Stay
<1>16. ASSUME SetActive PROVE InOrder' /\ Overdue'
  BY <1>16 DEF SetActive, Leave
<1>17. ASSUME NEW p \in Processes, StopStream(p) PROVE InOrder' /\ Overdue'
  BY <1>17 DEF StopStream
<1>18. ASSUME NEW p \in Processes, Forget(p) PROVE InOrder' /\ Overdue'
  <2>1. CASE p = Loop
    BY <1>18, <2>1 DEF Forget, Onward
  <2>2. CASE p # Loop
    BY <1>18, <2>2 DEF Forget, Onward
  <2>3. QED
    BY <2>1, <2>2
<1>19. ASSUME NEW p \in Processes, NEW ok \in BOOLEAN, Settle(p, ok) PROVE InOrder' /\ Overdue'
  BY <1>19 DEF Settle, Onward, Save
<1>20. ASSUME NEW o \in Operators, StopActive(o) PROVE InOrder' /\ Overdue'
  BY <1>20 DEF StopActive
<1>20a. ASSUME NEW o \in Operators, SupervisorStop(o) PROVE InOrder' /\ Overdue'
  BY <1>20a DEF SupervisorStop
<1>21. ASSUME Extend PROVE InOrder' /\ Overdue'
  BY <1>21 DEF Extend
<1>22. ASSUME NEW id \in Owners, NEW occurrences \in SUBSET Events, NEW ok \in BOOLEAN,
              Edit(id, occurrences, ok) PROVE InOrder' /\ Overdue'
  <2>1. UNCHANGED <<now, at, active, todo, cur, pc, taken>>
    BY <1>22 DEF Edit
  <2>2. lost' \in [Events -> Nat]
    BY <1>22, <1>b
  <2>3. QED
    BY <2>1, <2>2
<1>23. ASSUME StartByHand PROVE InOrder' /\ Overdue'
  BY <1>23 DEF StartByHand
<1>24. ASSUME StreamFails PROVE InOrder' /\ Overdue'
  BY <1>24 DEF StreamFails
<1>25. ASSUME NEW resumed \in BOOLEAN, CrashAndBoot(resumed) PROVE InOrder' /\ Overdue'
  <2>1. now' = now /\ at' = 0 /\ todo' = {} /\ cur' = NoEvent /\ pc'[Loop] = "idle"
    BY <1>25 DEF CrashAndBoot
  <2>2. lost' \in [Events -> Nat]
    BY <1>25, <1>c
  <2>3. QED
    BY <2>1, <2>2
<1>26. ASSUME TimePasses PROVE InOrder' /\ Overdue'
  BY <1>26 DEF TimePasses
<1>27. CASE UNCHANGED vars
  BY <1>27 DEF vars
<1> HIDE DEF InOrder, Overdue, Holding, Goto, runtime, backoff, tick, history
<1>28. CASE Ticks
  BY <1>28, <1>1, <1>2, <1>3, <1>4, <1>5 DEF Ticks
<1>29. CASE Prepares
  BY <1>29, <1>6, <1>7, <1>8, <1>9, <1>10 DEF Prepares
<1>30. CASE GoesLive
  BY <1>30, <1>11, <1>12, <1>13, <1>14, <1>15, <1>16 DEF GoesLive
<1>31. CASE Stops
  BY <1>31, <1>17, <1>18, <1>19, <1>20, <1>20a DEF Stops
<1>32. CASE Others
  BY <1>32, <1>21, <1>22, <1>23, <1>24, <1>25, <1>26 DEF Others
<1>33. QED
  BY <1>27, <1>28, <1>29, <1>30, <1>31, <1>32, NextSplit

\* A step that creates nothing keeps the account, if what it forgets has ended
\* and what it finds to be done was already due.
LEMMA SameAccount ==
  ASSUME CountInv, UNCHANGED <<made, lost>>,
         \A e \in Events :
           /\ Known(e) \/ OnItsWay(e) \/ Ended(e) => (Known(e) \/ OnItsWay(e) \/ Ended(e))'
           /\ Due(e)' => Due(e)
  PROVE  Accounted'
<1> SUFFICES ASSUME NEW e \in Events PROVE AccountedFor(e)'
  BY DEF Accounted
<1>1. Created(e)' = Created(e) /\ lost'[e] = lost[e]
  BY DEF Created
<1>2. AccountedFor(e)
  BY DEF CountInv, Accounted
<1>3. QED
  BY <1>1, <1>2 DEF AccountedFor

\* What a tick finds to do in its window has not been stopped.
LEMMA NotStopped ==
  ASSUME FinalInv, NEW e \in NextEvents(mem, at), at < End(e)
  PROVE  mem.skip[e] = Never
<1>1. e \in Events /\ mem.skip[e] \in Nat /\ at \in Nat /\ End(e) \in Nat
  BY WindowType DEF FinalInv, HoldInv, TypeInv, Stores, NextEvents
<1>2. ~ (mem.skip[e] > at)
  BY DEF NextEvents
<1>3. mem.skip[e] # Never => mem.skip[e] >= End(e)
  BY <1>1 DEF FinalInv, Windows
<1>4. QED
  BY <1>1, <1>2, <1>3

\* The account of an occurrence that gains a broadcast or loses one, or both.
LEMMA AccountMoves ==
  ASSUME NEW e \in Events, AccountedFor(e), Cardinality(Created(e)) \in Nat, lost[e] \in Nat,
         \/ Cardinality(Created(e))' = Cardinality(Created(e))
         \/ Cardinality(Created(e))' = Cardinality(Created(e)) + 1 /\ Cardinality(Created(e)) <= lost[e],
         lost'[e] \in {lost[e], lost[e] + 1},
         (Known(e) \/ OnItsWay(e) \/ Ended(e))' \/ Cardinality(Created(e))' <= lost'[e],
         Due(e)' => Cardinality(Created(e))' <= lost'[e]
  PROVE  AccountedFor(e)'
<1>1. Cardinality(Created(e))' <= 1 + lost'[e]
  BY DEF AccountedFor
<1>2. QED
  BY <1>1 DEF AccountedFor

LEMMA AccountLost ==
  ASSUME NEW e \in Events, Cardinality(Created(e)) \in Nat, lost[e] \in Nat, Cardinality(Created(e)) <= lost[e],
         Cardinality(Created(e))' = Cardinality(Created(e)) + 1, lost'[e] = lost[e] + 1, ~ Due(e)'
  PROVE  AccountedFor(e)'
<1>1. Cardinality(Created(e))' <= lost'[e] /\ Cardinality(Created(e))' <= 1 + lost'[e]
  OBVIOUS
<1>2. QED
  BY <1>1 DEF AccountedFor

LEMMA AccountGrows ==
  ASSUME NEW e \in Events, AccountedFor(e), Cardinality(Created(e)) \in Nat, lost[e] \in Nat,
         Cardinality(Created(e))' = Cardinality(Created(e)), lost'[e] = lost[e] + 1
  PROVE  AccountedFor(e)'
<1>1. Cardinality(Created(e))' <= lost'[e] /\ Cardinality(Created(e))' <= 1 + lost'[e]
  BY DEF AccountedFor
<1>2. QED
  BY <1>1 DEF AccountedFor

LEMMA NextAccounted == CountInv /\ [Next]_vars => Accounted'
<1> SUFFICES ASSUME CountInv, [Next]_vars PROVE Accounted'
  OBVIOUS
<1>0. /\ now \in Nat /\ at \in Nat /\ todo \subseteq Events /\ cur \in Events \cup {NoEvent}
      /\ mem \in Stores(Broadcasts, Nat) /\ disk \in Stores(Broadcasts, Nat) /\ pc \in [Processes -> Points]
      /\ taken \in [Processes -> [event : Events \cup {NoEvent}, until : Nat]]
      /\ \A e \in Events : lost[e] \in Nat
      /\ Blank /\ Windows /\ InOrder /\ Overdue /\ Held /\ Settling
  BY DEF CountInv, FinalInv, HoldInv, TypeInv, InOrder
<1>a. \A e \in Events : Cardinality(Created(e)) \in Nat
  BY CreatedFinite
<1> USE <1>0, LoopIsProcess, WindowType DEF Goto, runtime, backoff, tick, history
<1>1. ASSUME TickBegin PROVE Accounted'
  <2>1. UNCHANGED <<now, cur, todo, seen, mem, made, lost>> /\ at' = now /\ pc[Loop] = "idle" /\ todo = {}
        /\ pc'[Loop] \in {"halt", "look"}
    BY <1>1 DEF TickBegin, Blank
  <2>2. QED
    BY <2>1, SameAccount DEF Known, OnItsWay, Ended, Due
<1>2. ASSUME LookAway PROVE Accounted'
  <2>1. UNCHANGED <<now, at, cur, todo, seen, mem, made, lost>> /\ pc[Loop] = "look" /\ pc'[Loop] = "idle"
    BY <1>2 DEF LookAway
  <2>2. QED
    BY <2>1, SameAccount DEF Known, OnItsWay, Ended, Due
<1>3. ASSUME Look PROVE Accounted'
  <2>1. UNCHANGED <<now, at, cur, mem, made, lost>> /\ todo' = NextEvents(mem, at) /\ seen' = mem.mapped
        /\ pc[Loop] = "look" /\ pc'[Loop] = "next"
    BY <1>3 DEF Look
  <2>2. ASSUME NEW e \in Events, Due(e)' PROVE ~ (Known(e) \/ OnItsWay(e) \/ Ended(e))
    <3>1. e \in NextEvents(mem, at) /\ mem.mapped[e] = NoBroadcast /\ at < End(e)
      BY <2>1, <2>2 DEF Due
    <3>2. mem.skip[e] = Never
      BY <3>1, NotStopped DEF CountInv
    <3>3. QED
      BY <2>1, <3>1, <3>2 DEF Known, OnItsWay, Ended
  <2> SUFFICES ASSUME NEW e \in Events PROVE AccountedFor(e)'
    BY DEF Accounted
  <2>3. Created(e)' = Created(e) /\ lost'[e] = lost[e]
    BY <2>1 DEF Created
  <2>4. Known(e) \/ OnItsWay(e) \/ Ended(e) => Known(e)' \/ OnItsWay(e)' \/ Ended(e)'
    BY <2>1 DEF Known, OnItsWay, Ended
  <2>5. AccountedFor(e)
    BY DEF CountInv, Accounted
  <2>6. QED
    BY <2>2, <2>3, <2>4, <2>5 DEF AccountedFor
<1>4. ASSUME NEW e \in Events, Advance(e) PROVE Accounted'
  <2>1. UNCHANGED <<now, at, seen, mem, made, lost>> /\ todo' \subseteq todo /\ pc[Loop] = "next"
        /\ \/ pc'[Loop] \in {"next", "gate"}
           \/ pc'[Loop] = "prepare" /\ cur' = e /\ e \in todo /\ seen[e] = NoBroadcast /\ at < End(e)
    BY <1>4 DEF Advance, PrepDue
  <2>2. QED
    BY <2>1, SameAccount DEF Known, OnItsWay, Ended, Due
<1>5. ASSUME TickEnd PROVE Accounted'
  <2>1. UNCHANGED <<now, cur, mem, made, lost>> /\ todo' = {} /\ pc[Loop] = "next" /\ pc'[Loop] = "idle"
    BY <1>5 DEF TickEnd
  <2>2. QED
    BY <2>1, SameAccount DEF Known, OnItsWay, Ended, Due
<1>6. ASSUME PrepareFails PROVE Accounted'
  <2>1. UNCHANGED <<now, at, todo, seen, mem, made, lost>> /\ pc[Loop] = "prepare" /\ pc'[Loop] = "next"
    BY <1>6 DEF PrepareFails, Leave
  <2>2. QED
    BY <2>1, SameAccount DEF Known, OnItsWay, Ended, Due
<1>7. ASSUME NEW b \in Broadcasts, BindFails(b) PROVE Accounted'
  <2> SUFFICES ASSUME NEW e \in Events PROVE AccountedFor(e)'
    BY DEF Accounted
  <2>1. pc[Loop] = "prepare" /\ cur \in Events
    BY <1>7 DEF BindFails, Create, Held, Holding
  <2>2. AccountedFor(e) /\ (e = cur => Cardinality(Created(e)) <= lost[e])
    BY <2>1 DEF Due, CountInv, Accounted, AccountedFor
  <2>3. Cardinality(Created(e))' = IF e = cur THEN Cardinality(Created(e)) + 1 ELSE Cardinality(Created(e))
    BY <1>7, CreateCounts DEF BindFails, CountInv, FinalInv
  <2>4. /\ lost' = [lost EXCEPT ![cur] = @ + 1] /\ UNCHANGED <<now, at, todo, seen, mem>>
        /\ pc'[Loop] = "next"
    BY <1>7 DEF BindFails, Create, Leave
  <2>5. lost'[e] = IF e = cur THEN lost[e] + 1 ELSE lost[e]
    BY <2>4 DEF InOrder
  <2>6. Due(e)' => Due(e) /\ e # cur
    BY <2>1, <2>4 DEF Due, InOrder
  <2>7. Known(e) \/ Ended(e) => Known(e)' \/ Ended(e)'
    BY <2>1, <2>4 DEF Known, Ended
  <2>8. ~ OnItsWay(e)
    BY <2>1 DEF OnItsWay
  <2>9. Cardinality(Created(e)) \in Nat /\ lost[e] \in Nat
    BY <1>a
  <2>10. CASE e = cur
    <3>1. Cardinality(Created(e))' = Cardinality(Created(e)) + 1 /\ lost'[e] = lost[e] + 1
      BY <2>3, <2>5, <2>10
    <3>2. Cardinality(Created(e)) <= lost[e]
      BY <2>2, <2>10
    <3>3. ~ Due(e)'
      BY <2>6, <2>10
    <3>4. QED
      BY <2>9, <3>1, <3>2, <3>3, AccountLost
  <2>11. CASE e # cur
    <3>1. Cardinality(Created(e))' = Cardinality(Created(e)) /\ lost'[e] = lost[e]
      BY <2>3, <2>5, <2>11
    <3>2. (Known(e) \/ Ended(e))' \/ Cardinality(Created(e))' <= lost'[e]
      BY <2>2, <2>7, <2>8, <3>1 DEF AccountedFor
    <3>3. Due(e)' => Cardinality(Created(e))' <= lost'[e]
      BY <2>2, <2>6, <3>1 DEF AccountedFor
    <3>4. QED
      BY <2>2, <2>9, <3>1, <3>2, <3>3, AccountMoves
  <2>12. QED
    BY <2>10, <2>11
<1>8. ASSUME NEW b \in Broadcasts, Prepare(b) PROVE Accounted'
  <2> SUFFICES ASSUME NEW e \in Events PROVE AccountedFor(e)'
    BY DEF Accounted
  <2>1. pc[Loop] = "prepare" /\ cur \in Events
    BY <1>8 DEF Prepare, Create, Held, Holding
  <2>2. AccountedFor(e) /\ (e = cur => Cardinality(Created(e)) <= lost[e])
    BY <2>1 DEF Due, CountInv, Accounted, AccountedFor
  <2>3. Cardinality(Created(e))' = IF e = cur THEN Cardinality(Created(e)) + 1 ELSE Cardinality(Created(e))
    BY <1>8, CreateCounts DEF Prepare, CountInv, FinalInv
  <2>4. UNCHANGED <<now, at, todo, seen, cur, mem, lost>> /\ pc'[Loop] = "persist"
    BY <1>8 DEF Prepare, Create, Stay
  <2>5. Due(e)' => Due(e) /\ e # cur
    BY <2>4 DEF Due, InOrder
  <2>6. Known(e) \/ Ended(e) => Known(e)' \/ Ended(e)'
    BY <2>1, <2>4 DEF Known, Ended
  <2>7. ~ OnItsWay(e) /\ (e = cur => OnItsWay(e)')
    BY <2>1, <2>4 DEF OnItsWay
  <2>8. lost'[e] = lost[e] /\ lost[e] \in Nat /\ Cardinality(Created(e)) \in Nat
    BY <1>a, <2>4
  <2>9. CASE e = cur
    BY <2>2, <2>3, <2>5, <2>7, <2>8, <2>9, AccountMoves
  <2>10. CASE e # cur
    <3>1. Cardinality(Created(e))' = Cardinality(Created(e))
      BY <2>3, <2>10
    <3>2. (Known(e) \/ Ended(e))' \/ Cardinality(Created(e))' <= lost'[e]
      BY <2>2, <2>6, <2>7, <2>8, <3>1 DEF AccountedFor
    <3>3. Due(e)' => Cardinality(Created(e))' <= lost'[e]
      BY <2>2, <2>5, <2>8, <3>1 DEF AccountedFor
    <3>4. QED
      BY <2>2, <2>8, <3>1, <3>2, <3>3, AccountMoves
  <2>11. QED
    BY <2>9, <2>10
<1>9. ASSUME NEW ok \in BOOLEAN, Persist(ok) PROVE Accounted'
  <2>1. pc[Loop] = "persist" /\ cur \in Events /\ bid \in Broadcasts
    BY <1>9 DEF Persist, Held, Holding
  <2>2. mem' = [mem EXCEPT !.mapped[cur] = bid]
    BY <1>9 DEF Persist, Save, SetBroadcastID
  <2>3. UNCHANGED <<now, at, todo, seen, made, lost>> /\ pc'[Loop] \in {"next", "gate"}
    BY <1>9 DEF Persist, Leave, Stay
  <2>4. \A e \in Events : Known(e)' <=> Known(e) \/ e = cur
    BY <2>1, <2>2 DEF Known, Stores
  <2>5. QED
    BY <2>1, <2>3, <2>4, SameAccount DEF OnItsWay, Ended, Due
<1>10. ASSUME NEW ok \in BOOLEAN, Gate(ok) PROVE Accounted'
  <2>1. UNCHANGED <<now, at, todo, seen, mem, made, lost>> /\ pc[Loop] = "gate" /\ pc'[Loop] \in {"live", "next"}
    BY <1>10 DEF Gate, Unseen, Leave, Stay
  <2>2. QED
    BY <2>1, SameAccount DEF Known, OnItsWay, Ended, Due
<1>11. ASSUME NEW ok \in BOOLEAN, LiveFails(ok) PROVE Accounted'
  <2>1. UNCHANGED <<now, at, todo, seen, mem, made, lost>> /\ pc[Loop] = "live" /\ pc'[Loop] = "next"
    BY <1>11 DEF LiveFails, Leave
  <2>2. QED
    BY <2>1, SameAccount DEF Known, OnItsWay, Ended, Due
<1>12. ASSUME NEW ok \in BOOLEAN, Repersist(ok) PROVE Accounted'
  <2>1. pc[Loop] = "repersist" /\ cur \in Events /\ bid \in Broadcasts
    BY <1>12 DEF Repersist, Held, Holding
  <2>2. mem' = [mem EXCEPT !.mapped[cur] = bid]
    BY <1>12 DEF Repersist, Save, SetBroadcastID
  <2>3. UNCHANGED <<now, at, todo, seen, made, lost>> /\ pc'[Loop] \in {"next", "start"}
    BY <1>12 DEF Repersist, Leave, Stay
  <2>4. \A e \in Events : Known(e)' <=> Known(e) \/ e = cur
    BY <2>1, <2>2 DEF Known, Stores
  <2>5. QED
    BY <2>1, <2>3, <2>4, SameAccount DEF OnItsWay, Ended, Due
<1>13. ASSUME FindIngest PROVE Accounted'
  <2>1. UNCHANGED <<now, at, todo, seen, mem, made, lost>> /\ pc[Loop] = "live" /\ pc'[Loop] \in {"start", "repersist"}
    BY <1>13 DEF FindIngest, Stay
  <2>2. QED
    BY <2>1, SameAccount DEF Known, OnItsWay, Ended, Due
<1>14. ASSUME StartFails PROVE Accounted'
  <2>1. UNCHANGED <<now, at, todo, seen, mem, made, lost>> /\ pc[Loop] = "start" /\ pc'[Loop] = "next"
    BY <1>14 DEF StartFails, Leave
  <2>2. QED
    BY <2>1, SameAccount DEF Known, OnItsWay, Ended, Due
<1>15. ASSUME StartWithIngest PROVE Accounted'
  <2>1. UNCHANGED <<now, at, todo, seen, mem, made, lost>> /\ pc[Loop] = "start" /\ pc'[Loop] = "onair"
    BY <1>15 DEF StartWithIngest, Stay
  <2>2. QED
    BY <2>1, SameAccount DEF Known, OnItsWay, Ended, Due
<1>16. ASSUME SetActive PROVE Accounted'
  <2>1. UNCHANGED <<now, at, todo, seen, mem, made, lost>> /\ pc[Loop] = "onair" /\ pc'[Loop] = "next"
    BY <1>16 DEF SetActive, Leave
  <2>2. QED
    BY <2>1, SameAccount DEF Known, OnItsWay, Ended, Due
<1>17. ASSUME NEW p \in Processes, StopStream(p) PROVE Accounted'
  <2>1. UNCHANGED <<now, at, todo, seen, cur, mem, made, lost>>
    BY <1>17 DEF StopStream
  <2>2. CASE p = Loop
    <3>1. pc[Loop] \in {"halt", "forget"} /\ pc'[Loop] \in {"forget", "settle", "look"}
      BY <1>17, <2>2 DEF StopStream
    <3>2. QED
      BY <2>1, <3>1, SameAccount DEF Known, OnItsWay, Ended, Due
  <2>3. CASE p # Loop
    <3>1. pc'[Loop] = pc[Loop]
      BY <1>17, <2>3 DEF StopStream
    <3>2. QED
      BY <2>1, <3>1, SameAccount DEF Known, OnItsWay, Ended, Due
  <2>4. QED
    BY <2>2, <2>3
<1>18. ASSUME NEW p \in Processes, Forget(p) PROVE Accounted'
  <2>1. UNCHANGED <<now, at, todo, seen, cur, mem, made, lost>>
    BY <1>18 DEF Forget, Onward
  <2>2. CASE p = Loop
    <3>1. pc[Loop] \in {"halt", "forget"} /\ pc'[Loop] \in {"forget", "settle", "look"}
      BY <1>18, <2>2 DEF Forget, Onward
    <3>2. QED
      BY <2>1, <3>1, SameAccount DEF Known, OnItsWay, Ended, Due
  <2>3. CASE p # Loop
    <3>1. pc'[Loop] = pc[Loop]
      BY <1>18, <2>3 DEF Forget, Onward
    <3>2. QED
      BY <2>1, <3>1, SameAccount DEF Known, OnItsWay, Ended, Due
  <2>4. QED
    BY <2>2, <2>3
<1>19. ASSUME NEW p \in Processes, NEW ok \in BOOLEAN, Settle(p, ok) PROVE Accounted'
  <2>1. pc[p] = "settle" /\ UNCHANGED <<now, at, todo, seen, cur, made, lost>>
    BY <1>19 DEF Settle, Onward
  <2>2. taken[p].event \in Events /\ taken[p].until >= End(taken[p].event) /\ taken[p].until \in Nat
    BY <2>1 DEF Settling
  <2>3. CASE p = Loop
    <3>1. mem' = [mem EXCEPT !.mapped[taken[p].event] = NoBroadcast] /\ pc'[Loop] = "look"
      BY <1>19, <2>3 DEF Settle, Onward, Save, ClearBroadcast
    <3>2. PICK x \in Events : x = taken[p].event
      BY <2>2
    <3>3. Ended(x)'
      <4>1. at > End(x) /\ at <= now /\ End(x) \in Nat
        BY <2>1, <2>3, <3>2 DEF Overdue, InOrder
      <4>2. QED
        BY <2>1, <4>1 DEF Ended
    <3>4. \A e \in Events : Known(e) => Known(e)' \/ e = x
      BY <2>2, <3>1, <3>2 DEF Known, Stores
    <3>5. QED
      BY <2>1, <2>3, <3>1, <3>3, <3>4, SameAccount DEF OnItsWay, Ended, Due
  <2>4. CASE p # Loop
    <3>1. /\ mem' = [mem EXCEPT !.skip[taken[p].event] = taken[p].until, !.mapped[taken[p].event] = NoBroadcast]
          /\ pc'[Loop] = pc[Loop]
      BY <1>19, <2>4 DEF Settle, Onward, Save, SkipEvent
    <3>2. \A e \in Events : Known(e) => Known(e)'
      BY <2>2, <3>1 DEF Known, Stores
    <3>3. QED
      BY <2>1, <3>1, <3>2, SameAccount DEF OnItsWay, Ended, Due
  <2>5. QED
    BY <2>3, <2>4
<1>20. ASSUME NEW o \in Operators, StopActive(o) PROVE Accounted'
  <2>1. UNCHANGED <<now, at, todo, seen, cur, mem, made, lost>> /\ pc'[Loop] = pc[Loop]
    BY <1>20 DEF StopActive
  <2>2. QED
    BY <2>1, SameAccount DEF Known, OnItsWay, Ended, Due
<1>20a. ASSUME NEW o \in Operators, SupervisorStop(o) PROVE Accounted'
  <2>1. UNCHANGED <<now, at, todo, seen, cur, mem, made, lost>> /\ pc'[Loop] = pc[Loop]
    BY <1>20a DEF SupervisorStop
  <2>2. QED
    BY <2>1, SameAccount DEF Known, OnItsWay, Ended, Due
<1>21. ASSUME Extend PROVE Accounted'
  <2>1. UNCHANGED <<now, at, todo, seen, cur, pc, mem, made, lost>>
    BY <1>21 DEF Extend
  <2>2. QED
    BY <2>1, SameAccount DEF Known, OnItsWay, Ended, Due
<1>22. ASSUME NEW id \in Owners, NEW occurrences \in SUBSET Events, NEW ok \in BOOLEAN,
              Edit(id, occurrences, ok) PROVE Accounted'
  <2> SUFFICES ASSUME NEW e \in Events PROVE AccountedFor(e)'
    BY DEF Accounted
  <2>1. UNCHANGED <<now, at, todo, seen, cur, pc, made>>
    BY <1>22 DEF Edit
  <2>2. lost'[e] \in {lost[e], lost[e] + 1}
    BY <1>22, EditLoses DEF InOrder
  <2>3. ASSUME Known(e), ~ Known(e)' PROVE lost'[e] = lost[e] + 1
    <3>1. Owner[e] = id
      BY <1>22, <2>3 DEF Edit, Save, Replace, Known
    <3>2. QED
      BY <1>22, <2>3, <3>1 DEF Edit, Known
  <2>4. Created(e)' = Created(e)
    BY <2>1 DEF Created
  <2>5. (Due(e)' <=> Due(e)) /\ (OnItsWay(e)' <=> OnItsWay(e)) /\ (Ended(e)' <=> Ended(e))
    BY <2>1 DEF Due, OnItsWay, Ended
  <2>6. AccountedFor(e) /\ lost[e] \in Nat /\ Cardinality(Created(e)) \in Nat
    BY <1>a DEF CountInv, Accounted
  <2>7. Cardinality(Created(e))' = Cardinality(Created(e))
    BY <2>4
  <2>8. CASE lost'[e] = lost[e] + 1
    BY <2>6, <2>7, <2>8, AccountGrows
  <2>9. CASE lost'[e] # lost[e] + 1
    <3>1. lost'[e] = lost[e]
      BY <2>2, <2>9
    <3>2. (Known(e) \/ OnItsWay(e) \/ Ended(e))' \/ Cardinality(Created(e))' <= lost'[e]
      BY <2>3, <2>5, <2>6, <2>7, <2>9, <3>1 DEF AccountedFor
    <3>3. Due(e)' => Cardinality(Created(e))' <= lost'[e]
      BY <2>5, <2>6, <2>7, <3>1 DEF AccountedFor
    <3>4. QED
      BY <2>6, <2>7, <3>1, <3>2, <3>3, AccountMoves
  <2>10. QED
    BY <2>8, <2>9
<1>23. ASSUME StartByHand PROVE Accounted'
  <2>1. UNCHANGED <<now, at, todo, seen, cur, pc, mem, made, lost>>
    BY <1>23 DEF StartByHand
  <2>2. QED
    BY <2>1, SameAccount DEF Known, OnItsWay, Ended, Due
<1>24. ASSUME StreamFails PROVE Accounted'
  <2>1. UNCHANGED <<now, at, todo, seen, cur, pc, mem, made, lost>>
    BY <1>24 DEF StreamFails
  <2>2. QED
    BY <2>1, SameAccount DEF Known, OnItsWay, Ended, Due
<1>25. ASSUME NEW resumed \in BOOLEAN, CrashAndBoot(resumed) PROVE Accounted'
  <2> SUFFICES ASSUME NEW e \in Events PROVE AccountedFor(e)'
    BY DEF Accounted
  <2>1. UNCHANGED <<now, made>> /\ mem' = disk /\ todo' = {} /\ pc'[Loop] = "idle"
    BY <1>25 DEF CrashAndBoot
  <2>2. lost'[e] \in {lost[e], lost[e] + 1}
    BY <1>25, CrashLoses DEF InOrder
  <2>3. ASSUME Known(e) \/ OnItsWay(e), ~ Known(e)' PROVE lost'[e] = lost[e] + 1
    BY <1>25, <2>1, <2>3 DEF CrashAndBoot, Known, OnItsWay
  <2>4. Created(e)' = Created(e)
    BY <2>1 DEF Created
  <2>5. ~ Due(e)' /\ (Ended(e) => Ended(e)')
    BY <2>1 DEF Due, Ended
  <2>6. AccountedFor(e) /\ lost[e] \in Nat /\ Cardinality(Created(e)) \in Nat
    BY <1>a DEF CountInv, Accounted
  <2>7. Cardinality(Created(e))' = Cardinality(Created(e))
    BY <2>4
  <2>8. CASE lost'[e] = lost[e] + 1
    BY <2>6, <2>7, <2>8, AccountGrows
  <2>9. CASE lost'[e] # lost[e] + 1
    <3>1. lost'[e] = lost[e]
      BY <2>2, <2>9
    <3>2. (Known(e) \/ OnItsWay(e) \/ Ended(e))' \/ Cardinality(Created(e))' <= lost'[e]
      BY <2>3, <2>5, <2>6, <2>7, <2>9, <3>1 DEF AccountedFor
    <3>3. Due(e)' => Cardinality(Created(e))' <= lost'[e]
      BY <2>5, <2>6, <2>7, <3>1 DEF AccountedFor
    <3>4. QED
      BY <2>6, <2>7, <3>1, <3>2, <3>3, AccountMoves
  <2>10. QED
    BY <2>8, <2>9
<1>26. ASSUME TimePasses PROVE Accounted'
  <2>1. UNCHANGED <<at, todo, seen, cur, pc, mem, made, lost>> /\ now' = now + 1
    BY <1>26 DEF TimePasses
  <2>2. QED
    BY <2>1, SameAccount DEF Known, OnItsWay, Ended, Due
<1>27. CASE UNCHANGED vars
  <2>1. UNCHANGED <<now, at, todo, seen, cur, pc, mem, made, lost>>
    BY <1>27 DEF vars
  <2>2. QED
    BY <2>1, SameAccount DEF Known, OnItsWay, Ended, Due
<1> HIDE DEF Goto, runtime, backoff, tick, history
<1>28. CASE Ticks
  BY <1>28, <1>1, <1>2, <1>3, <1>4, <1>5 DEF Ticks
<1>29. CASE Prepares
  BY <1>29, <1>6, <1>7, <1>8, <1>9, <1>10 DEF Prepares
<1>30. CASE GoesLive
  BY <1>30, <1>11, <1>12, <1>13, <1>14, <1>15, <1>16 DEF GoesLive
<1>31. CASE Stops
  BY <1>31, <1>17, <1>18, <1>19, <1>20, <1>20a DEF Stops
<1>32. CASE Others
  BY <1>32, <1>21, <1>22, <1>23, <1>24, <1>25, <1>26 DEF Others
<1>33. QED
  BY <1>27, <1>28, <1>29, <1>30, <1>31, <1>32, NextSplit

LEMMA InitCount == Init => CountInv
<1> SUFFICES ASSUME Init PROVE InOrder /\ Overdue /\ Accounted /\ FinalInv
  BY DEF CountInv
<1>1. InOrder /\ Overdue
  BY LoopIsProcess DEF Init, InOrder, Overdue
<1>2. ASSUME NEW e \in Events PROVE Cardinality(Created(e)) = 0 /\ lost[e] = 0
  <2>1. Created(e) = {}
    BY DEF Init, Created
  <2>2. lost[e] = 0
    BY DEF Init
  <2>3. QED
    BY <2>1, <2>2, FS_EmptySet
<1>3. Accounted
  <2> SUFFICES ASSUME NEW e \in Events PROVE AccountedFor(e)
    BY DEF Accounted
  <2>1. Cardinality(Created(e)) <= lost[e] /\ Cardinality(Created(e)) <= 1 + lost[e]
    BY <1>2
  <2>2. QED
    BY <2>1 DEF AccountedFor
<1>4. QED
  BY <1>1, <1>3, InitFinal

LEMMA NextCount == CountInv /\ [Next]_vars => CountInv'
<1> SUFFICES ASSUME CountInv, [Next]_vars PROVE CountInv'
  OBVIOUS
<1>1. FinalInv'
  BY NextFinalInv DEF CountInv
<1>2. QED
  BY <1>1, NextInOrder, NextAccounted DEF CountInv

\* An occurrence is prepared once: a second broadcast for it appears on the channel
\* only after the first was given up, in a failed bind, an edit or a crash.
THEOREM PreparedOnce == Spec => []OneBroadcastPerOccurrence
<1>1. CountInv => OneBroadcastPerOccurrence
  BY DEF CountInv, Accounted, AccountedFor, Created, OneBroadcastPerOccurrence
<1>2. QED
  BY <1>1, InitCount, NextCount, PTL DEF Spec

-----------------------------------------------------------------------------
(* The bounds *)

\* What TypeInv leaves out: the backoff and the bounds of the counters.
Bounds ==
  /\ now <= MaxTime /\ extra <= MaxExtend /\ upsets \in 0..MaxUpsets
  /\ tries \in [Events -> 0..(BackoffSteps + 1)]
  /\ nextTry \in [Events -> Times]
  /\ cached \subseteq Events

\* No delay exceeds the cap, however many failures there were.
LEMMA DelayCapped == \A n \in 1..(BackoffSteps + 1) : Delay(n) \in 0..BackoffCap
<1> SUFFICES ASSUME NEW n \in 1..(BackoffSteps + 1) PROVE Delay(n) \in 0..BackoffCap
  OBVIOUS
<1> DEFINE doubled == BackoffUnit * 2^(n - 1)
<1>1. doubled \in Nat
  <2>1. n - 1 \in 0..BackoffSteps
    OBVIOUS
  <2>2. QED
    BY <2>1, DelayAssumption
<1>2. Delay(n) = IF doubled > BackoffCap THEN BackoffCap ELSE doubled
  BY DEF Delay
<1> HIDE DEF doubled
<1>3. QED
  BY <1>1, <1>2

LEMMA FailureBounded ==
  ASSUME NEW e \in Events, RecordPrepFailure(e), now \in 0..MaxTime,
         tries \in [Events -> 0..(BackoffSteps + 1)], nextTry \in [Events -> Times]
  PROVE  tries' \in [Events -> 0..(BackoffSteps + 1)] /\ nextTry' \in [Events -> Times]
<1> DEFINE n == IF tries[e] > BackoffSteps THEN tries[e] ELSE tries[e] + 1
<1>1. n \in 1..(BackoffSteps + 1)
  OBVIOUS
<1>2. tries' = [tries EXCEPT ![e] = n] /\ nextTry' = [nextTry EXCEPT ![e] = now + Delay(n)]
  BY DEF RecordPrepFailure
<1> HIDE DEF n
<1>3. now + Delay(n) \in Times
  <2>1. Delay(n) \in 0..BackoffCap
    BY <1>1, DelayCapped
  <2>2. QED
    BY <2>1 DEF Times
<1>4. QED
  BY <1>1, <1>2, <1>3

LEMMA NextBounds == CountInv /\ Bounds /\ [Next]_vars => Bounds'
<1> SUFFICES ASSUME CountInv, Bounds, [Next]_vars PROVE Bounds'
  OBVIOUS
<1>a. now \in Nat /\ extra \in Nat /\ pc \in [Processes -> Points] /\ Held
  BY DEF CountInv, FinalInv, HoldInv, TypeInv
<1>b. now <= MaxTime /\ extra <= MaxExtend /\ 0 \in Times
  BY DEF Bounds, Times
<1>0. now \in 0..MaxTime /\ extra \in 0..MaxExtend /\ pc \in [Processes -> Points] /\ 0 \in Times /\ Held
  BY <1>a, <1>b
<1> USE <1>0, LoopIsProcess DEF Bounds, Goto, runtime, backoff, tick, history
<1>1. ASSUME TickBegin PROVE Bounds'
  BY <1>1 DEF TickBegin
<1>2. ASSUME LookAway PROVE Bounds'
  BY <1>2 DEF LookAway
<1>3. ASSUME Look PROVE Bounds'
  BY <1>3 DEF Look
<1>4. ASSUME NEW e \in Events, Advance(e) PROVE Bounds'
  BY <1>4 DEF Advance
<1>5. ASSUME TickEnd PROVE Bounds'
  BY <1>5 DEF TickEnd
<1>6. ASSUME PrepareFails PROVE Bounds'
  <2>1. cur \in Events
    BY <1>6 DEF PrepareFails, Held, Holding
  <2>2. QED
    BY <1>6, <2>1, FailureBounded DEF PrepareFails
<1>7. ASSUME NEW b \in Broadcasts, BindFails(b) PROVE Bounds'
  <2>1. cur \in Events
    BY <1>7 DEF BindFails, Create, Held, Holding
  <2>2. QED
    BY <1>7, <2>1, FailureBounded DEF BindFails
<1>8. ASSUME NEW b \in Broadcasts, Prepare(b) PROVE Bounds'
  BY <1>8 DEF Prepare, Create, Stay
<1>9. ASSUME NEW ok \in BOOLEAN, Persist(ok) PROVE Bounds'
  <2>1. cur \in Events
    BY <1>9 DEF Persist, Held, Holding
  <2>2. /\ UNCHANGED <<now, runtime, upsets>>
        /\ \/ UNCHANGED <<cached, backoff>>
           \/ /\ cached' = cached \cup {cur}
              /\ tries' = [tries EXCEPT ![cur] = 0]
              /\ nextTry' = [nextTry EXCEPT ![cur] = 0]
    BY <1>9 DEF Persist
  <2>3. QED
    BY <2>1, <2>2
<1>10. ASSUME NEW ok \in BOOLEAN, Gate(ok) PROVE Bounds'
  BY <1>10 DEF Gate, Unseen
<1>11. ASSUME NEW ok \in BOOLEAN, LiveFails(ok) PROVE Bounds'
  <2>1. cur \in Events
    BY <1>11 DEF LiveFails, Held, Holding
  <2>2. QED
    BY <1>11, <2>1, FailureBounded DEF LiveFails
<1>12. ASSUME NEW ok \in BOOLEAN, Repersist(ok) PROVE Bounds'
  <2>1. cur \in Events
    BY <1>12 DEF Repersist, Held, Holding
  <2>2. QED
    BY <1>12, <2>1 DEF Repersist
<1>13. ASSUME FindIngest PROVE Bounds'
  BY <1>13 DEF FindIngest
<1>14. ASSUME StartFails PROVE Bounds'
  BY <1>14 DEF StartFails
<1>15. ASSUME StartWithIngest PROVE Bounds'
  BY <1>15 DEF StartWithIngest
<1>16. ASSUME SetActive PROVE Bounds'
  BY <1>16 DEF SetActive
<1>17. ASSUME NEW p \in Processes, StopStream(p) PROVE Bounds'
  BY <1>17 DEF StopStream
<1>18. ASSUME NEW p \in Processes, Forget(p) PROVE Bounds'
  BY <1>18 DEF Forget, Onward
<1>19. ASSUME NEW p \in Processes, NEW ok \in BOOLEAN, Settle(p, ok) PROVE Bounds'
  BY <1>19 DEF Settle, Onward, Save
<1>20. ASSUME NEW o \in Operators, StopActive(o) PROVE Bounds'
  BY <1>20 DEF StopActive
<1>20a. ASSUME NEW o \in Operators, SupervisorStop(o) PROVE Bounds'
  BY <1>20a DEF SupervisorStop
<1>21. ASSUME Extend PROVE Bounds'
  BY <1>21 DEF Extend
<1>22. ASSUME NEW id \in Owners, NEW occurrences \in SUBSET Events, NEW ok \in BOOLEAN,
              Edit(id, occurrences, ok) PROVE Bounds'
  BY <1>22 DEF Edit, Save
<1>23. ASSUME StartByHand PROVE Bounds'
  BY <1>23 DEF StartByHand
<1>24. ASSUME StreamFails PROVE Bounds'
  BY <1>24 DEF StreamFails
<1>25. ASSUME NEW resumed \in BOOLEAN, CrashAndBoot(resumed) PROVE Bounds'
  BY <1>25 DEF CrashAndBoot, Nobody
<1>26. ASSUME TimePasses PROVE Bounds'
  BY <1>26 DEF TimePasses
<1>27. CASE UNCHANGED vars
  BY <1>27 DEF vars
<1> HIDE DEF Bounds, Goto, runtime, backoff, tick, history
<1>28. CASE Ticks
  BY <1>28, <1>1, <1>2, <1>3, <1>4, <1>5 DEF Ticks
<1>29. CASE Prepares
  BY <1>29, <1>6, <1>7, <1>8, <1>9, <1>10 DEF Prepares
<1>30. CASE GoesLive
  BY <1>30, <1>11, <1>12, <1>13, <1>14, <1>15, <1>16 DEF GoesLive
<1>31. CASE Stops
  BY <1>31, <1>17, <1>18, <1>19, <1>20, <1>20a DEF Stops
<1>32. CASE Others
  BY <1>32, <1>21, <1>22, <1>23, <1>24, <1>25, <1>26 DEF Others
<1>33. QED
  BY <1>27, <1>28, <1>29, <1>30, <1>31, <1>32, NextSplit

\* Every variable keeps its type, and no delay of the backoff exceeds its cap.
THEOREM SchedulerTypes == Spec => []TypeOK
<1>1. Init => CountInv /\ Bounds
  <2> SUFFICES ASSUME Init PROVE Bounds
    BY InitCount
  <2>1. 0 \in Times
    BY DEF Times
  <2>2. QED
    BY <2>1 DEF Init, Bounds
<1>2. CountInv /\ Bounds /\ [Next]_vars => CountInv' /\ Bounds'
  BY NextCount, NextBounds
<1>3. CountInv /\ Bounds => TypeOK
  <2> SUFFICES ASSUME CountInv, Bounds PROVE TypeOK
    OBVIOUS
  <2>1. TypeInv /\ InOrder
    BY DEF CountInv, FinalInv, HoldInv
  <2>2. now \in 0..MaxTime /\ at \in 0..MaxTime /\ extra \in 0..MaxExtend
    BY <2>1 DEF TypeInv, InOrder, Bounds
  <2>3. QED
    BY <2>1, <2>2 DEF TypeOK, TypeInv, InOrder, Bounds
<1>4. QED
  BY <1>1, <1>2, <1>3, PTL DEF Spec
=============================================================================
