------------------------- MODULE SideServicesProofs -------------------------
(***************************************************************************)
(* Proofs about the services beside the stream, which share no state: of   *)
(* CaptureSource, Adaptive, OAuthToken and Hub, each for every number of   *)
(* devices, tiers, goroutines, browsers and steps, and then of the six     *)
(* services together.  Every part has its inductive invariant, whose       *)
(* conjuncts are the type invariant of the service and what its property   *)
(* rests on.                                                               *)
(***************************************************************************)
EXTENDS SideServices, PreviewProofs, HealthPollProofs, FiniteSetTheorems, WellFoundedInduction, TLAPS

-----------------------------------------------------------------------------
(* CaptureSource *)

\* What ResolveStrict finds is a device of that name, ...
Found(name) == {at[u] : u \in Matches(name)}

LEMMA FoundType ==
  ASSUME at \in Listings, NEW name
  PROVE  /\ Found(name) \subseteq 1..Indices
         /\ IsFiniteSet(Found(name)) /\ Cardinality(Found(name)) \in Nat
         /\ Cardinality(Found(name)) = 1 => \E i : Found(name) = {i}
<1>1. Found(name) \subseteq 1..Indices
  BY CaptureAssumption DEF Found, Matches, Listings
<1>2. IsFiniteSet(Found(name)) /\ Cardinality(Found(name)) \in Nat
  <2>1. IsFiniteSet(1..Indices)
    BY CaptureAssumption, FS_Interval
  <2>2. IsFiniteSet(Found(name))
    BY <1>1, <2>1, FS_Subset
  <2>3. QED
    BY <2>2, FS_CardinalityType
<1>3. Cardinality(Found(name)) = 1 => \E i : Found(name) = {i}
  BY <1>2, FS_Singleton
<1>4. QED
  BY <1>1, <1>2, <1>3

LEMMA ResolveFinds ==
  ASSUME at \in Listings, NEW name, NEW index
  PROVE  LET i == ResolveStrict(name, index)
         IN  /\ i # 0 => i \in Found(name)
             /\ index \in Found(name) => i = index
<1> DEFINE found == {at[u] : u \in Matches(name)}
<1>1. found = Found(name)
  BY DEF Found
<1>2. CASE Cardinality(found) = 1
  <2>1. PICK i : found = {i}
    BY <1>1, <1>2, FoundType
  <2>2. ResolveStrict(name, index) = i
    BY <1>2, <2>1 DEF ResolveStrict
  <2>3. QED
    BY <1>1, <2>1, <2>2
<1>3. CASE Cardinality(found) # 1
  BY <1>1, <1>3 DEF ResolveStrict
<1>4. QED
  BY <1>2, <1>3

\* ... and no two devices are at one index.
LEMMA FoundUnit ==
  ASSUME at \in Listings, NEW name, NEW i \in Found(name)
  PROVE  /\ (CHOOSE u \in Units : at[u] = i) \in Units
         /\ NameOf[CHOOSE u \in Units : at[u] = i] = name
         /\ \A u \in Units : at[u] = i => u = CHOOSE v \in Units : at[v] = i
<1>1. PICK u \in Units : at[u] = i /\ at[u] # 0 /\ NameOf[u] = name
  BY DEF Found, Matches
<1>2. \A v \in Units : at[v] = i => v = u
  BY <1>1 DEF Listings
<1>3. QED
  BY <1>1, <1>2

\* A configuration keeps the name of the device it was chosen for, if it keeps
\* one, and FFmpeg reads one only while the Supervisor has a session of that
\* configuration.
CaptureInv ==
  /\ CaptureTypeOK
  /\ \A c \in {saved, input, using} : c.name \in {"nameless", NameOf[c.unit]}
  /\ reading # "none" => running
  /\ RightSource

LEMMA ChoiceType ==
  ASSUME at \in Listings, NEW u \in Units, at[u] # 0, NEW c \in {Choice(u), Nameless(u)}
  PROVE  c \in Choices /\ c.name \in {"nameless", NameOf[c.unit]}
  BY CaptureAssumption DEF Choice, Nameless, Choices, Listings

\* A boot keeps the device of the choice, or takes the one at its index, with the
\* name of that.
LEMMA BootedType ==
  ASSUME at \in Listings, NEW c \in Choices, c.name \in {"nameless", NameOf[c.unit]}
  PROVE  Booted(c) \in Choices /\ Booted(c).name \in {"nameless", NameOf[Booted(c).unit]}
<1>1. CASE kind = "video" /\ c.name = "nameless" /\ \E u \in Units : at[u] = c.index
  <2>1. PICK u \in Units : at[u] = c.index /\ Booted(c) = Choice(u)
    BY <1>1 DEF Booted
  <2>2. at[u] # 0
    BY <2>1 DEF Choices
  <2>3. QED
    BY <2>1, <2>2, ChoiceType
<1>2. CASE ~(kind = "video" /\ c.name = "nameless" /\ \E u \in Units : at[u] = c.index)
  <2> DEFINE index == IF Opened(c) = 0 THEN c.index ELSE Opened(c)
  <2>1. Booted(c) = [c EXCEPT !.index = index]
    BY <1>2 DEF Booted
  <2>2. index \in 1..Indices
    <3>1. c.index \in 1..Indices
      BY DEF Choices
    <3>2. ResolveStrict(c.name, c.index) # 0 => ResolveStrict(c.name, c.index) \in 1..Indices
      BY ResolveFinds, FoundType
    <3>3. QED
      BY <3>1, <3>2 DEF Opened
  <2> HIDE DEF index
  <2>3. QED
    BY <2>1, <2>2 DEF Choices
<1>3. QED
  BY <1>1, <1>2

LEMMA CaptureInitInv == CaptureInit => CaptureInv
<1> SUFFICES ASSUME CaptureInit PROVE CaptureInv
  OBVIOUS
<1>1. PICK u \in Units : at[u] # 0 /\ saved \in {Choice(u), Nameless(u)}
  BY DEF CaptureInit
<1>2. saved \in Choices /\ saved.name \in {"nameless", NameOf[saved.unit]}
  BY <1>1, ChoiceType DEF CaptureInit
<1>3. input \in Choices /\ input.name \in {"nameless", NameOf[input.unit]} /\ using = input
  BY <1>2, BootedType DEF CaptureInit
<1>4. reading \notin Units /\ 0 \in 0..MaxMoves /\ 0 \in 0..MaxChoices
  BY CaptureAssumption DEF CaptureInit
<1>5. CaptureTypeOK
  BY <1>2, <1>3, <1>4 DEF CaptureInit, CaptureTypeOK
<1>6. QED
  BY <1>2, <1>3, <1>4, <1>5 DEF CaptureInit, CaptureInv, RightSource

LEMMA CaptureNextInv == CaptureInv /\ [CaptureNext]_captureVars => CaptureInv'
<1> SUFFICES ASSUME CaptureInv, [CaptureNext]_captureVars PROVE CaptureInv'
  OBVIOUS
<1> USE CaptureAssumption DEF CaptureInv, CaptureTypeOK, RightSource, source
<1>1. CASE Move
  BY <1>1 DEF Move
<1>2. ASSUME NEW u \in Units, HandleConfigUpdate(u) PROVE CaptureInv'
  <2>1. input' \in Choices /\ input'.name \in {"nameless", NameOf[input'.unit]} /\ saved' = input'
    BY <1>2, ChoiceType DEF HandleConfigUpdate
  <2>2. QED
    BY <1>2, <2>1 DEF HandleConfigUpdate
<1>3. CASE StartSession
  BY <1>3 DEF StartSession
<1>4. CASE StopSession
  BY <1>4 DEF StopSession
<1>5. CASE BuildInputs
  <2> DEFINE index == Opened(using)
  <2>1. CASE index # 0 /\ \E u \in Units : at[u] = index
    <3>1. /\ reading' = CHOOSE u \in Units : at[u] = index
          /\ inPlace' = (at[using.unit] = using.index)
          /\ UNCHANGED <<kind, resolves, at, moves, choices, saved, input, using, running>> /\ running
      BY <1>5, <2>1 DEF BuildInputs
    <3>2. reading' \in Units /\ inPlace' \in BOOLEAN
      BY <2>1, <3>1
    <3>3. ASSUME using.name # "nameless", resolves
          PROVE  NameOf[reading'] = using.name /\ (inPlace' => reading' = using.unit)
      <4>1. index = ResolveStrict(using.name, using.index)
        BY <3>3, Zenon DEF Opened
      <4>2. index \in Found(using.name)
        BY <2>1, <4>1, ResolveFinds
      <4>3. NameOf[reading'] = using.name /\ \A u \in Units : at[u] = index => u = reading'
        <5> HIDE DEF index
        <5>1. QED
          BY <3>1, <4>2, FoundUnit
      <4>4. SUFFICES ASSUME inPlace' PROVE reading' = using.unit
        BY <4>3
      <4>5. at[using.unit] = using.index /\ using.unit \in Units /\ using.index # 0
        <5>1. at[using.unit] = using.index
          BY <3>1, <4>4, Zenon
        <5>2. using.unit \in Units /\ using.index # 0
          BY DEF Choices
        <5>3. QED
          BY <5>1, <5>2
      <4>6. using.index \in Found(using.name)
        BY <3>3, <4>5 DEF Found, Matches
      <4>7. index = using.index
        BY <4>1, <4>6, ResolveFinds
      <4>8. QED
        BY <4>3, <4>5, <4>7
    <3>4. QED
      BY <3>1, <3>2, <3>3
  <2>2. CASE ~(index # 0 /\ \E u \in Units : at[u] = index)
    BY <1>5, <2>2 DEF BuildInputs
  <2>3. QED
    BY <2>1, <2>2
<1>6. CASE FFmpegEnds
  BY <1>6 DEF FFmpegEnds
<1>7. CASE WatchAudioRecovery
  BY <1>7 DEF WatchAudioRecovery
<1>8. CASE BootResolves
  <2>1. input' \in Choices /\ input'.name \in {"nameless", NameOf[input'.unit]}
    BY <1>8, BootedType DEF BootResolves
  <2>2. running' = FALSE /\ reading' = "none" /\ UNCHANGED <<kind, resolves, at, moves, choices, saved, using, inPlace>>
    BY <1>8 DEF BootResolves
  <2>3. CaptureTypeOK'
    BY <2>1, <2>2
  <2>4. QED
    BY <2>1, <2>2, <2>3
<1>9. CASE UNCHANGED captureVars
  BY <1>9 DEF captureVars
<1>10. QED
  BY <1>1, <1>2, <1>3, <1>4, <1>5, <1>6, <1>7, <1>8, <1>9 DEF CaptureNext

\* FFmpeg reads a device of the chosen name, and the chosen one itself when it
\* is where it was, for any devices, names and changes of the listing, where the
\* choice has a name and the backend resolves names.
THEOREM SourceIsRight == CaptureSpec => []RightSource
<1>1. CaptureInv => RightSource
  BY DEF CaptureInv
<1>2. QED
  BY <1>1, CaptureInitInv, CaptureNextInv, PTL DEF CaptureSpec

-----------------------------------------------------------------------------
(* Adaptive *)

\* A set of numbers up to some n has a least one: a well-founded choice among
\* the sets of what lies below its elements.
LEMMA LeastExists ==
  ASSUME NEW n \in Nat, NEW S \in SUBSET (0..n), S # {}
  PROVE  \E u \in S : \A v \in S : u <= v
<1> DEFINE below(u) == {v \in S : v <= u}
           T == {below(u) : u \in S}
<1>1. IsFiniteSet(S)
  <2>1. IsFiniteSet(0..n)
    BY FS_Interval
  <2>2. QED
    BY <2>1, FS_Subset
<1>2. IsWellFoundedOn(StrictSubsetOrdering(S), SUBSET S)
  BY <1>1, FS_FiniteSubsetsOfFinite, FS_StrictSubsetOrderingWellFounded
<1>3. T \subseteq SUBSET S /\ T # {}
  OBVIOUS
<1> HIDE DEF T
<1>4. PICK x \in T : \A y \in T : ~(<<y, x>> \in StrictSubsetOrdering(S))
  BY <1>2, <1>3, WFMin
<1>5. PICK u \in S : x = below(u)
  BY DEF T
<1>6. ASSUME NEW v \in S, v < u PROVE FALSE
  <2>1. below(v) \in T
    BY DEF T
  <2>2. below(v) \subseteq below(u) /\ u \in below(u) /\ u \notin below(v)
    <3>1. v \in Int /\ u \in Int /\ S \subseteq Int
      OBVIOUS
    <3>2. u \in below(u) /\ u \notin below(v)
      BY <1>6, <3>1
    <3>3. ASSUME NEW w \in S, w <= v PROVE w <= u
      <4>1. w \in Int /\ v \in Int /\ u \in Int
        BY <3>1
      <4>2. QED
        BY <1>6, <3>3, <4>1
    <3>4. QED
      BY <3>2, <3>3
  <2>3. <<below(v), below(u)>> \in StrictSubsetOrdering(S)
    <3> HIDE DEF below
    <3>1. below(v) # below(u) /\ below(v) \in SUBSET S /\ below(u) \in SUBSET S
      BY <1>3, <1>5, <2>1, <2>2
    <3>2. QED
      BY <2>2, <3>1 DEF StrictSubsetOrdering
  <2>4. QED
    BY <1>4, <1>5, <2>1, <2>3
<1>7. QED
  BY <1>6

TierSet == 0..(Tiers - 1)

\* A step down goes one tier down, and a step up not above the cap.
LEMMA LadderType ==
  ASSUME NEW t \in {Unset} \cup TierSet, NEW cap \in {Unset} \cup TierSet
  PROVE  /\ Lower(t) # Unset => Lower(t) = t - 1 /\ Lower(t) \in TierSet /\ t \notin Excluded
         /\ Higher(t, cap) # Unset => Higher(t, cap) \in (t + 1)..cap /\ Higher(t, cap) \in TierSet /\ t \notin Excluded
<1> USE AdaptiveAssumption DEF Unset, TierSet
<1>1. Lower(t) # Unset => Lower(t) = t - 1 /\ Lower(t) \in TierSet /\ t \notin Excluded
  BY DEF Lower
<1> DEFINE above == {u \in (t + 1)..cap : u \notin AutoOnly \cup Excluded}
<1>2. ASSUME t \notin Excluded, above # {} PROVE Higher(t, cap) \in (t + 1)..cap /\ Higher(t, cap) \in TierSet
  <2>1. above \in SUBSET (0..cap) /\ cap \in Nat
    BY <1>2
  <2>2. PICK u \in above : \A v \in above : u <= v
    BY <1>2, <2>1, LeastExists
  <2>3. Higher(t, cap) = CHOOSE v \in above : \A w \in above : v <= w
    BY <1>2 DEF Higher
  <2> HIDE DEF above
  <2>4. Higher(t, cap) \in above
    BY <2>2, <2>3
  <2>5. QED
    BY <2>1, <2>4 DEF above
<1>3. Higher(t, cap) # Unset => t \notin Excluded /\ above # {}
  BY DEF Higher
<1>4. QED
  BY <1>1, <1>2, <1>3

AdaptiveNumbers ==
  /\ target \in {Unset} \cup TierSet /\ current \in {Unset} \cup TierSet /\ goal \in TierSet
  /\ age \in 0..3 /\ downgradeCount \in Nat
  /\ starts \in 0..MaxStarts /\ wanted \in 0..MaxStarts

AdaptiveFlags ==
  /\ stepped \in BOOLEAN /\ enabled \in BOOLEAN /\ bad \in BOOLEAN /\ stale \in BOOLEAN
  /\ untold \in BOOLEAN /\ collided \in BOOLEAN
  /\ operator \in {"done", "started", "stopped", "takes over"}
  /\ watchdog \in {"waits", "looks", "captures", "stops", "starts", "records"}

AdaptiveConfigs == encoder \in Configs /\ config \in Configs /\ restart \in Configs

\* The tier the controller believes in is at most MaxDowngrades below its
\* target, and never off the target when that is not on the ladder.
Believed ==
  \/ target = Unset /\ current = Unset
  \/ /\ target \in TierSet /\ current \in TierSet /\ downgradeCount <= MaxDowngrades
     /\ current <= target /\ target - current <= downgradeCount
     /\ target \in Excluded => current = target

\* While it steps, the step keeps to that.
StepsWithin ==
  /\ target \in TierSet /\ current \in TierSet /\ goal \in TierSet
  /\ target \notin Excluded /\ goal <= target
  /\ goal < current => goal = current - 1 /\ downgradeCount < MaxDowngrades

\* The watchdog restarts the stream the operator wants, and no other.
StepsWanted ==
  /\ config.stream = wanted
  /\ watchdog \in {"stops", "starts"} => restart = [stream |-> wanted, tier |-> goal]
  /\ watchdog = "records" => config.tier = goal
  /\ ~untold /\ operator = "done" /\ watchdog # "records" => config.tier = current

RunsConfig == Live => encoder = config
WantsTheStream == ~collided => IF wanted = 0 THEN ~Live /\ ~Stepping ELSE StepsWanted
BelievesWell == ~collided /\ operator # "stopped" => Believed
StopMeant == operator \in {"stopped", "takes over"} => wanted = 0
StepsWell == ~collided /\ Stepping => StepsWithin

AdaptiveInv ==
  AdaptiveNumbers /\ AdaptiveFlags /\ AdaptiveConfigs /\ RunsConfig /\ WantsTheStream /\ BelievesWell /\ StopMeant /\ StepsWell

LEMMA ConfigsAreNumbers ==
  /\ \A s \in 0..MaxStarts, t \in TierSet : [stream |-> s, tier |-> t] \in Configs
  /\ \A c \in Configs : c = [stream |-> c.stream, tier |-> c.tier] /\ c.stream \in 0..MaxStarts /\ c.tier \in TierSet
  /\ Nothing \in Configs /\ Nothing.stream = 0
<1>1. 0 \in 0..MaxStarts /\ 0 \in TierSet
  BY AdaptiveAssumption DEF TierSet
<1>2. QED
  BY <1>1 DEF Configs, Nothing, TierSet

LEMMA AdaptiveInitInv == AdaptiveInit => AdaptiveInv
<1> SUFFICES ASSUME AdaptiveInit PROVE AdaptiveInv
  OBVIOUS
<1> USE AdaptiveAssumption DEF AdaptiveInit, Unset
<1>1. AdaptiveNumbers /\ AdaptiveFlags
  <2>1. 0 \in 0..MaxStarts /\ 0 \in TierSet
    BY DEF TierSet
  <2>2. AdaptiveFlags
    BY DEF AdaptiveFlags
  <2>3. QED
    BY <2>1, <2>2 DEF AdaptiveNumbers
<1>2. AdaptiveConfigs
  <2>1. Nothing \in Configs
    BY ConfigsAreNumbers
  <2>2. QED
    BY <2>1 DEF AdaptiveConfigs
<1>3. ~Live /\ ~Stepping /\ wanted = 0
  BY ConfigsAreNumbers DEF Live, Stepping
<1>4. QED
  BY <1>1, <1>2, <1>3 DEF AdaptiveInv, RunsConfig, WantsTheStream, BelievesWell, Believed, StopMeant, StepsWell

LEMMA AdaptiveNextInv == AdaptiveInv /\ [AdaptiveNext]_adaptiveVars => AdaptiveInv'
<1> SUFFICES ASSUME AdaptiveInv, [AdaptiveNext]_adaptiveVars PROVE AdaptiveInv'
  OBVIOUS
<1> USE AdaptiveAssumption DEF Unset
<1>0. AdaptiveNumbers /\ AdaptiveFlags /\ AdaptiveConfigs /\ RunsConfig /\ WantsTheStream /\ BelievesWell /\ StopMeant /\ StepsWell
  BY DEF AdaptiveInv
<1>1. ASSUME NEW t \in Chosen, StartStream(t) PROVE AdaptiveInv'
  <2>0. encoder' \in Configs /\ encoder'.stream = starts + 1 /\ encoder'.tier = t /\ starts + 1 \in 1..MaxStarts /\ t \in TierSet
    BY <1>1, <1>0, ConfigsAreNumbers DEF StartStream, AdaptiveNumbers, TierSet
  <2>1. AdaptiveNumbers'
    BY <1>1, <1>0, <2>0 DEF StartStream, Acts, AdaptiveNumbers, TierSet
  <2>2. AdaptiveFlags'
    BY <1>1, <1>0, <2>0 DEF StartStream, Acts, AdaptiveFlags
  <2>3. AdaptiveConfigs'
    BY <1>1, <1>0, <2>0 DEF StartStream, Acts, AdaptiveNumbers, AdaptiveFlags, AdaptiveConfigs, Configs
  <2>4. RunsConfig'
    BY <1>1, <1>0, <2>0 DEF StartStream, Acts, AdaptiveNumbers, AdaptiveFlags, RunsConfig, Live
  <2>5. WantsTheStream'
    BY <1>1, <1>0, <2>0 DEF StartStream, Acts, AdaptiveNumbers, AdaptiveFlags, WantsTheStream, StepsWanted, Live, Stepping
  <2>6. BelievesWell'
    BY <1>1, <1>0, <2>0 DEF StartStream, Acts, AdaptiveNumbers, AdaptiveFlags, BelievesWell, Believed
  <2>7. StopMeant'
    BY <1>1, <1>0, <2>0 DEF StartStream, Acts, AdaptiveNumbers, AdaptiveFlags, StopMeant
  <2>8. StepsWell'
    BY <1>1, <1>0, <2>0 DEF StartStream, Acts, AdaptiveNumbers, AdaptiveFlags, StepsWell, StepsWithin, Stepping
  <2>9. QED
    BY <2>1, <2>2, <2>3, <2>4, <2>5, <2>6, <2>7, <2>8 DEF AdaptiveInv
<1>2. CASE OnStreamStart
  <2>0. config.tier \in TierSet
    BY <1>0, ConfigsAreNumbers DEF AdaptiveConfigs
  <2>1. AdaptiveNumbers'
    BY <1>2, <1>0, <2>0 DEF OnStreamStart, Acts, AdaptiveNumbers, TierSet
  <2>2. AdaptiveFlags'
    BY <1>2, <1>0, <2>0 DEF OnStreamStart, Acts, AdaptiveFlags
  <2>3. AdaptiveConfigs'
    BY <1>2, <1>0, <2>0 DEF OnStreamStart, Acts, AdaptiveNumbers, AdaptiveFlags, AdaptiveConfigs, Configs
  <2>4. RunsConfig'
    BY <1>2, <1>0, <2>0 DEF OnStreamStart, Acts, AdaptiveNumbers, AdaptiveFlags, RunsConfig, Live
  <2>5. WantsTheStream'
    BY <1>2, <1>0, <2>0 DEF OnStreamStart, Acts, AdaptiveNumbers, AdaptiveFlags, WantsTheStream, StepsWanted, Live, Stepping
  <2>6. BelievesWell'
    BY <1>2, <1>0, <2>0 DEF OnStreamStart, BelievesWell, Believed, TierSet
  <2>7. StopMeant'
    BY <1>2, <1>0, <2>0 DEF OnStreamStart, Acts, AdaptiveNumbers, AdaptiveFlags, StopMeant
  <2>8. StepsWell'
    BY <1>2, <1>0, <2>0 DEF OnStreamStart, Acts, AdaptiveNumbers, AdaptiveFlags, StepsWell, StepsWithin, Stepping
  <2>9. QED
    BY <2>1, <2>2, <2>3, <2>4, <2>5, <2>6, <2>7, <2>8 DEF AdaptiveInv
<1>3. CASE StopStream
  <2>0. ~Live' /\ encoder' \in Configs
    BY <1>3, ConfigsAreNumbers DEF StopStream, SessionEnds, Live
  <2>1. AdaptiveNumbers'
    BY <1>3, <1>0, <2>0 DEF StopStream, Acts, AdaptiveNumbers, TierSet
  <2>2. AdaptiveFlags'
    BY <1>3, <1>0, <2>0 DEF StopStream, SessionEnds, AdaptiveFlags, Stepping
  <2>3. AdaptiveConfigs'
    BY <1>3, <1>0, <2>0 DEF StopStream, Acts, AdaptiveNumbers, AdaptiveFlags, AdaptiveConfigs, Configs
  <2>4. RunsConfig'
    BY <1>3, <1>0, <2>0 DEF StopStream, Acts, AdaptiveNumbers, AdaptiveFlags, RunsConfig, Live
  <2>5. WantsTheStream'
    BY <1>3, <1>0, <2>0 DEF StopStream, Acts, AdaptiveNumbers, AdaptiveFlags, WantsTheStream, StepsWanted, Live, Stepping
  <2>6. BelievesWell'
    BY <1>3, <1>0, <2>0 DEF StopStream, Acts, AdaptiveNumbers, AdaptiveFlags, BelievesWell, Believed
  <2>7. StopMeant'
    BY <1>3, <1>0, <2>0 DEF StopStream, Acts, AdaptiveNumbers, AdaptiveFlags, StopMeant
  <2>8. StepsWell'
    BY <1>3, <1>0, <2>0 DEF StopStream, Acts, AdaptiveNumbers, AdaptiveFlags, StepsWell, StepsWithin, Stepping
  <2>9. QED
    BY <2>1, <2>2, <2>3, <2>4, <2>5, <2>6, <2>7, <2>8 DEF AdaptiveInv
<1>4. CASE OnStreamStop
  <2>1. AdaptiveNumbers'
    BY <1>4, <1>0 DEF OnStreamStop, Acts, AdaptiveNumbers, TierSet
  <2>2. AdaptiveFlags'
    BY <1>4, <1>0 DEF OnStreamStop, Acts, AdaptiveFlags
  <2>3. AdaptiveConfigs'
    BY <1>4, <1>0 DEF OnStreamStop, Acts, AdaptiveNumbers, AdaptiveFlags, AdaptiveConfigs, Configs
  <2>4. RunsConfig'
    BY <1>4, <1>0 DEF OnStreamStop, Acts, AdaptiveNumbers, AdaptiveFlags, RunsConfig, Live
  <2>5. WantsTheStream'
    BY <1>4, <1>0 DEF OnStreamStop, Acts, WantsTheStream, StepsWanted, StopMeant, Live, Stepping
  <2>6. BelievesWell'
    BY <1>4, <1>0 DEF OnStreamStop, Acts, AdaptiveNumbers, AdaptiveFlags, BelievesWell, Believed
  <2>7. StopMeant'
    BY <1>4, <1>0 DEF OnStreamStop, Acts, AdaptiveNumbers, AdaptiveFlags, StopMeant
  <2>8. StepsWell'
    BY <1>4, <1>0 DEF OnStreamStop, Acts, AdaptiveNumbers, AdaptiveFlags, StepsWell, StepsWithin, Stepping
  <2>9. QED
    BY <2>1, <2>2, <2>3, <2>4, <2>5, <2>6, <2>7, <2>8 DEF AdaptiveInv
<1>5. CASE TakeOver
  <2>0. ~Live' /\ encoder' \in Configs
    BY <1>5, ConfigsAreNumbers DEF TakeOver, SessionEnds, Live
  <2>1. AdaptiveNumbers'
    <3>1. 0 \in 0..MaxStarts
      BY <1>0 DEF AdaptiveNumbers
    <3>2. QED
      BY <1>5, <1>0, <3>1 DEF TakeOver, AdaptiveNumbers
  <2>2. AdaptiveFlags'
    BY <1>5, <1>0, <2>0 DEF TakeOver, SessionEnds, Acts, AdaptiveFlags
  <2>3. AdaptiveConfigs'
    BY <1>5, <1>0, <2>0 DEF TakeOver, Acts, AdaptiveNumbers, AdaptiveFlags, AdaptiveConfigs, Configs
  <2>4. RunsConfig'
    BY <1>5, <1>0, <2>0 DEF TakeOver, Acts, AdaptiveNumbers, AdaptiveFlags, RunsConfig, Live
  <2>5. WantsTheStream'
    BY <1>5, <1>0, <2>0 DEF TakeOver, Acts, AdaptiveNumbers, AdaptiveFlags, WantsTheStream, StepsWanted, Live, Stepping
  <2>6. BelievesWell'
    BY <1>5, <1>0, <2>0 DEF TakeOver, Acts, AdaptiveNumbers, AdaptiveFlags, BelievesWell, Believed
  <2>7. StopMeant'
    BY <1>5, <1>0, <2>0 DEF TakeOver, Acts, AdaptiveNumbers, AdaptiveFlags, StopMeant
  <2>8. StepsWell'
    BY <1>5, <1>0, <2>0 DEF TakeOver, Acts, AdaptiveNumbers, AdaptiveFlags, StepsWell, StepsWithin, Stepping
  <2>9. QED
    BY <2>1, <2>2, <2>3, <2>4, <2>5, <2>6, <2>7, <2>8 DEF AdaptiveInv
<1>6. ASSUME NEW t \in Chosen, GoLiveNow(t) PROVE AdaptiveInv'
  <2>0. \/ UNCHANGED <<starts, encoder, config, wanted, untold>>
        \/ /\ encoder' \in Configs /\ encoder'.stream = starts + 1 /\ encoder'.tier = t /\ starts + 1 \in 1..MaxStarts
           /\ starts' = starts + 1 /\ config' = encoder' /\ wanted' = starts + 1 /\ untold' = TRUE
    <3>1. CASE UNCHANGED <<starts, encoder, config, wanted, untold>>
      BY <3>1
    <3>2. CASE starts < MaxStarts /\ encoder' = [stream |-> starts + 1, tier |-> t] /\ starts' = starts + 1
               /\ config' = encoder' /\ wanted' = starts + 1 /\ untold' = TRUE
      <4>1. starts + 1 \in 0..MaxStarts /\ starts + 1 \in 1..MaxStarts /\ t \in TierSet
        BY <1>0, <3>2 DEF AdaptiveNumbers, TierSet
      <4>2. encoder' \in Configs
        BY <3>2, <4>1, ConfigsAreNumbers
      <4>3. QED
        BY <3>2, <4>1, <4>2
    <3>3. QED
      BY <1>6, <3>1, <3>2 DEF GoLiveNow
  <2>1. AdaptiveNumbers'
    <3>1. starts' \in 0..MaxStarts /\ wanted' \in 0..MaxStarts
      BY <1>0, <2>0 DEF AdaptiveNumbers
    <3>2. QED
      BY <1>6, <1>0, <3>1 DEF GoLiveNow, AdaptiveNumbers
  <2>2. AdaptiveFlags'
    BY <1>6, <1>0, <2>0 DEF GoLiveNow, Acts, AdaptiveFlags
  <2>3. AdaptiveConfigs'
    BY <1>6, <1>0, <2>0 DEF GoLiveNow, Acts, AdaptiveNumbers, AdaptiveFlags, AdaptiveConfigs, Configs
  <2>4. RunsConfig'
    BY <1>6, <1>0, <2>0 DEF GoLiveNow, Acts, AdaptiveNumbers, AdaptiveFlags, RunsConfig, Live
  <2>5. WantsTheStream'
    <3>1. CASE UNCHANGED <<starts, encoder, config, wanted, untold>>
      <4>1. wanted = 0
        BY <1>6, <1>0 DEF GoLiveNow, StopMeant
      <4>2. QED
        BY <1>6, <1>0, <3>1, <4>1 DEF GoLiveNow, Acts, WantsTheStream, Live, Stepping
    <3>2. CASE /\ encoder'.stream = starts + 1 /\ starts + 1 \in 1..MaxStarts
               /\ config' = encoder' /\ wanted' = starts + 1 /\ untold' = TRUE
      <4>1. config'.stream = wanted' /\ wanted' # 0
        BY <3>2
      <4>2. ~collided' => ~Stepping /\ watchdog' = watchdog
        BY <1>6 DEF GoLiveNow, Acts
      <4>3. QED
        BY <3>2, <4>1, <4>2 DEF WantsTheStream, StepsWanted, Stepping
    <3>3. QED
      BY <2>0, <3>1, <3>2
  <2>6. BelievesWell'
    BY <1>6, <1>0, <2>0 DEF GoLiveNow, Acts, AdaptiveNumbers, AdaptiveFlags, BelievesWell, Believed
  <2>7. StopMeant'
    BY <1>6, <1>0, <2>0 DEF GoLiveNow, Acts, AdaptiveNumbers, AdaptiveFlags, StopMeant
  <2>8. StepsWell'
    BY <1>6, <1>0, <2>0 DEF GoLiveNow, Acts, AdaptiveNumbers, AdaptiveFlags, StepsWell, StepsWithin, Stepping
  <2>9. QED
    BY <2>1, <2>2, <2>3, <2>4, <2>5, <2>6, <2>7, <2>8 DEF AdaptiveInv
<1>7. CASE SetEnabled
  <2>1. AdaptiveNumbers'
    BY <1>7, <1>0 DEF SetEnabled, Acts, AdaptiveNumbers, TierSet
  <2>2. AdaptiveFlags'
    BY <1>7, <1>0 DEF SetEnabled, Acts, AdaptiveFlags
  <2>3. AdaptiveConfigs'
    BY <1>7, <1>0 DEF SetEnabled, Acts, AdaptiveNumbers, AdaptiveFlags, AdaptiveConfigs, Configs
  <2>4. RunsConfig'
    BY <1>7, <1>0 DEF SetEnabled, Acts, AdaptiveNumbers, AdaptiveFlags, RunsConfig, Live
  <2>5. WantsTheStream'
    BY <1>7, <1>0 DEF SetEnabled, Acts, AdaptiveNumbers, AdaptiveFlags, WantsTheStream, StepsWanted, Live, Stepping
  <2>6. BelievesWell'
    BY <1>7, <1>0 DEF SetEnabled, Acts, AdaptiveNumbers, AdaptiveFlags, BelievesWell, Believed
  <2>7. StopMeant'
    BY <1>7, <1>0 DEF SetEnabled, Acts, AdaptiveNumbers, AdaptiveFlags, StopMeant
  <2>8. StepsWell'
    BY <1>7, <1>0 DEF SetEnabled, Acts, AdaptiveNumbers, AdaptiveFlags, StepsWell, StepsWithin, Stepping
  <2>9. QED
    BY <2>1, <2>2, <2>3, <2>4, <2>5, <2>6, <2>7, <2>8 DEF AdaptiveInv
<1>8. CASE EncoderFails
  <2>0. ~Live' /\ encoder' \in Configs
    BY <1>8, ConfigsAreNumbers DEF EncoderFails, SessionEnds, Live
  <2>1. AdaptiveNumbers'
    BY <1>8, <1>0, <2>0 DEF EncoderFails, Acts, AdaptiveNumbers, TierSet
  <2>2. AdaptiveFlags'
    BY <1>8, <1>0, <2>0 DEF EncoderFails, SessionEnds, Acts, AdaptiveFlags
  <2>3. AdaptiveConfigs'
    BY <1>8, <1>0, <2>0 DEF EncoderFails, Acts, AdaptiveNumbers, AdaptiveFlags, AdaptiveConfigs, Configs
  <2>4. RunsConfig'
    BY <1>8, <1>0, <2>0 DEF EncoderFails, Acts, AdaptiveNumbers, AdaptiveFlags, RunsConfig, Live
  <2>5. WantsTheStream'
    BY <1>8, <1>0, <2>0 DEF EncoderFails, Acts, AdaptiveNumbers, AdaptiveFlags, WantsTheStream, StepsWanted, Live, Stepping
  <2>6. BelievesWell'
    BY <1>8, <1>0, <2>0 DEF EncoderFails, Acts, AdaptiveNumbers, AdaptiveFlags, BelievesWell, Believed
  <2>7. StopMeant'
    BY <1>8, <1>0, <2>0 DEF EncoderFails, Acts, AdaptiveNumbers, AdaptiveFlags, StopMeant
  <2>8. StepsWell'
    BY <1>8, <1>0, <2>0 DEF EncoderFails, Acts, AdaptiveNumbers, AdaptiveFlags, StepsWell, StepsWithin, Stepping
  <2>9. QED
    BY <2>1, <2>2, <2>3, <2>4, <2>5, <2>6, <2>7, <2>8 DEF AdaptiveInv
<1>9. CASE NetworkChanges
  <2>1. AdaptiveNumbers'
    BY <1>9, <1>0 DEF NetworkChanges, Acts, AdaptiveNumbers, TierSet
  <2>2. AdaptiveFlags'
    BY <1>9, <1>0 DEF NetworkChanges, Acts, AdaptiveFlags
  <2>3. AdaptiveConfigs'
    BY <1>9, <1>0 DEF NetworkChanges, Acts, AdaptiveNumbers, AdaptiveFlags, AdaptiveConfigs, Configs
  <2>4. RunsConfig'
    BY <1>9, <1>0 DEF NetworkChanges, Acts, AdaptiveNumbers, AdaptiveFlags, RunsConfig, Live
  <2>5. WantsTheStream'
    BY <1>9, <1>0 DEF NetworkChanges, Acts, AdaptiveNumbers, AdaptiveFlags, WantsTheStream, StepsWanted, Live, Stepping
  <2>6. BelievesWell'
    BY <1>9, <1>0 DEF NetworkChanges, Acts, AdaptiveNumbers, AdaptiveFlags, BelievesWell, Believed
  <2>7. StopMeant'
    BY <1>9, <1>0 DEF NetworkChanges, Acts, AdaptiveNumbers, AdaptiveFlags, StopMeant
  <2>8. StepsWell'
    BY <1>9, <1>0 DEF NetworkChanges, Acts, AdaptiveNumbers, AdaptiveFlags, StepsWell, StepsWithin, Stepping
  <2>9. QED
    BY <2>1, <2>2, <2>3, <2>4, <2>5, <2>6, <2>7, <2>8 DEF AdaptiveInv
<1>10. CASE TimePasses
  <2>1. AdaptiveNumbers'
    BY <1>10, <1>0 DEF TimePasses, Acts, AdaptiveNumbers, TierSet
  <2>2. AdaptiveFlags'
    BY <1>10, <1>0 DEF TimePasses, Acts, AdaptiveFlags
  <2>3. AdaptiveConfigs'
    BY <1>10, <1>0 DEF TimePasses, Acts, AdaptiveNumbers, AdaptiveFlags, AdaptiveConfigs, Configs
  <2>4. RunsConfig'
    BY <1>10, <1>0 DEF TimePasses, Acts, AdaptiveNumbers, AdaptiveFlags, RunsConfig, Live
  <2>5. WantsTheStream'
    BY <1>10, <1>0 DEF TimePasses, Acts, AdaptiveNumbers, AdaptiveFlags, WantsTheStream, StepsWanted, Live, Stepping
  <2>6. BelievesWell'
    BY <1>10, <1>0 DEF TimePasses, Acts, AdaptiveNumbers, AdaptiveFlags, BelievesWell, Believed
  <2>7. StopMeant'
    BY <1>10, <1>0 DEF TimePasses, Acts, AdaptiveNumbers, AdaptiveFlags, StopMeant
  <2>8. StepsWell'
    BY <1>10, <1>0 DEF TimePasses, Acts, AdaptiveNumbers, AdaptiveFlags, StepsWell, StepsWithin, Stepping
  <2>9. QED
    BY <2>1, <2>2, <2>3, <2>4, <2>5, <2>6, <2>7, <2>8 DEF AdaptiveInv
<1>11. CASE Tick
  <2>1. AdaptiveNumbers'
    BY <1>11, <1>0 DEF Tick, Acts, AdaptiveNumbers, TierSet
  <2>2. AdaptiveFlags'
    BY <1>11, <1>0 DEF Tick, Acts, AdaptiveFlags
  <2>3. AdaptiveConfigs'
    BY <1>11, <1>0 DEF Tick, Acts, AdaptiveNumbers, AdaptiveFlags, AdaptiveConfigs, Configs
  <2>4. RunsConfig'
    BY <1>11, <1>0 DEF Tick, Acts, AdaptiveNumbers, AdaptiveFlags, RunsConfig, Live
  <2>5. WantsTheStream'
    BY <1>11, <1>0 DEF Tick, Acts, AdaptiveNumbers, AdaptiveFlags, WantsTheStream, StepsWanted, Live, Stepping
  <2>6. BelievesWell'
    BY <1>11, <1>0 DEF Tick, Acts, AdaptiveNumbers, AdaptiveFlags, BelievesWell, Believed
  <2>7. StopMeant'
    BY <1>11, <1>0 DEF Tick, Acts, AdaptiveNumbers, AdaptiveFlags, StopMeant
  <2>8. StepsWell'
    BY <1>11, <1>0 DEF Tick, Acts, AdaptiveNumbers, AdaptiveFlags, StepsWell, StepsWithin, Stepping
  <2>9. QED
    BY <2>1, <2>2, <2>3, <2>4, <2>5, <2>6, <2>7, <2>8 DEF AdaptiveInv
<1>12. CASE Look
  <2>0. /\ watchdog' \in {"waits", "captures"} /\ goal' \in TierSet
        /\ watchdog' = "captures" /\ ~collided' => Live /\ ~collided /\ StepsWithin'
        /\ watchdog' = "waits" => collided' = collided
    <3>1. CASE watchdog' = "waits" /\ UNCHANGED <<goal, collided>>
      BY <1>0, <3>1 DEF AdaptiveNumbers
    <3>2. CASE /\ Live \/ stale
               /\ watchdog' = "captures" /\ goal' = NextTier /\ NextTier # Unset
               /\ collided' = (collided \/ stale)
      <4>1. ~collided' => ~collided /\ Live
        BY <3>2, Zenon
      <4>2. ~collided' => Believed
        BY <1>0, <3>2, <4>1 DEF WantsTheStream, BelievesWell, StopMeant
      <4>3. ~collided' => current \in TierSet
        <5>1. current = target => Degraded
          BY <3>2 DEF NextTier
        <5>2. Degraded => current # Unset
          BY <3>2 DEF NextTier
        <5>3. QED
          BY <1>0, <4>2, <5>1, <5>2 DEF Believed, AdaptiveNumbers
      <4>4. UNCHANGED <<target, current, downgradeCount>>
        BY <1>12 DEF Look, Looks
      <4>5. CASE Degraded
        <5>1. goal' = Lower(current) /\ downgradeCount < MaxDowngrades
          BY <1>0, <3>2, <4>5 DEF NextTier, AdaptiveNumbers
        <5>2. goal' = current - 1 /\ goal' \in TierSet /\ current \notin Excluded
          BY <1>0, <3>2, <5>1, LadderType DEF AdaptiveNumbers
        <5>3. QED
          BY <3>2, <4>1, <4>2, <4>3, <4>4, <5>1, <5>2 DEF Believed, StepsWithin, TierSet
      <4>6. CASE ~Degraded
        <5>1. goal' = Higher(current, target)
          BY <3>2, <4>6 DEF NextTier
        <5>2. goal' \in (current + 1)..target /\ goal' \in TierSet /\ current \notin Excluded
          BY <1>0, <3>2, <5>1, LadderType DEF AdaptiveNumbers
        <5>3. current # target
          BY <3>2, <4>6 DEF NextTier
        <5>4. QED
          BY <3>2, <4>1, <4>2, <4>3, <4>4, <5>2, <5>3 DEF Believed, StepsWithin, TierSet
      <4>7. QED
        BY <4>5, <4>6
    <3>3. QED
      BY <1>12, <3>1, <3>2 DEF Look, Looks
  <2>1. AdaptiveNumbers'
    BY <1>12, <1>0, <2>0 DEF Look, Looks, AdaptiveNumbers
  <2>2. AdaptiveFlags'
    <3>1. collided' \in BOOLEAN
      BY <1>12, <1>0, Zenon DEF Look, Looks, AdaptiveFlags
    <3>2. QED
      BY <1>12, <1>0, <2>0, <3>1 DEF Look, Looks, AdaptiveFlags
  <2>3. AdaptiveConfigs'
    BY <1>12, <1>0 DEF Look, Looks, AdaptiveConfigs
  <2>4. RunsConfig'
    BY <1>12, <1>0 DEF Look, Looks, RunsConfig, Live
  <2>5. WantsTheStream'
    <3>1. /\ UNCHANGED <<wanted, encoder, config, restart, untold, operator, current>>
          /\ ~collided' => ~collided /\ (watchdog' = "waits" \/ Live)
      BY <1>12, <2>0 DEF Look, Looks
    <3>2. QED
      BY <1>12, <1>0, <2>0, <3>1 DEF Look, Looks, WantsTheStream, StepsWanted, Live, Stepping
  <2>6. BelievesWell'
    <3>1. ~collided' => ~collided
      BY <2>0
    <3>2. QED
      BY <1>12, <1>0, <3>1 DEF Look, Looks, BelievesWell, Believed
  <2>7. StopMeant'
    BY <1>12, <1>0 DEF Look, Looks, StopMeant
  <2>8. StepsWell'
    BY <1>12, <1>0, <2>0 DEF Look, Looks, StepsWell, Stepping
  <2>9. QED
    BY <2>1, <2>2, <2>3, <2>4, <2>5, <2>6, <2>7, <2>8 DEF AdaptiveInv
<1>13. CASE Capture
  <2>0. restart' \in Configs /\ restart'.stream = config.stream /\ restart'.tier = goal
    BY <1>13, <1>0, ConfigsAreNumbers DEF Capture, AdaptiveConfigs, AdaptiveNumbers
  <2>1. AdaptiveNumbers'
    BY <1>13, <1>0, <2>0 DEF Capture, Acts, AdaptiveNumbers, TierSet
  <2>2. AdaptiveFlags'
    BY <1>13, <1>0, <2>0 DEF Capture, Acts, AdaptiveFlags
  <2>3. AdaptiveConfigs'
    BY <1>13, <1>0, <2>0 DEF Capture, Acts, AdaptiveNumbers, AdaptiveFlags, AdaptiveConfigs, Configs
  <2>4. RunsConfig'
    BY <1>13, <1>0, <2>0 DEF Capture, Acts, AdaptiveNumbers, AdaptiveFlags, RunsConfig, Live
  <2>5. WantsTheStream'
    <3>1. restart' = [stream |-> restart'.stream, tier |-> restart'.tier]
      BY <2>0, ConfigsAreNumbers
    <3>2. QED
      BY <1>13, <1>0, <2>0, <3>1 DEF Capture, WantsTheStream, StepsWanted, Live, Stepping
  <2>6. BelievesWell'
    BY <1>13, <1>0, <2>0 DEF Capture, Acts, AdaptiveNumbers, AdaptiveFlags, BelievesWell, Believed
  <2>7. StopMeant'
    BY <1>13, <1>0, <2>0 DEF Capture, Acts, AdaptiveNumbers, AdaptiveFlags, StopMeant
  <2>8. StepsWell'
    BY <1>13, <1>0, <2>0 DEF Capture, Acts, AdaptiveNumbers, AdaptiveFlags, StepsWell, StepsWithin, Stepping
  <2>9. QED
    BY <2>1, <2>2, <2>3, <2>4, <2>5, <2>6, <2>7, <2>8 DEF AdaptiveInv
<1>14. CASE StopForStep
  <2>0. ~Live' /\ encoder' \in Configs
    BY <1>14, ConfigsAreNumbers DEF StopForStep, SessionEnds, Live
  <2>1. AdaptiveNumbers'
    BY <1>14, <1>0, <2>0 DEF StopForStep, Acts, AdaptiveNumbers, TierSet
  <2>2. AdaptiveFlags'
    BY <1>14, <1>0, <2>0 DEF StopForStep, SessionEnds, Acts, AdaptiveFlags
  <2>3. AdaptiveConfigs'
    BY <1>14, <1>0, <2>0 DEF StopForStep, Acts, AdaptiveNumbers, AdaptiveFlags, AdaptiveConfigs, Configs
  <2>4. RunsConfig'
    BY <1>14, <1>0, <2>0 DEF StopForStep, Acts, AdaptiveNumbers, AdaptiveFlags, RunsConfig, Live
  <2>5. WantsTheStream'
    BY <1>14, <1>0, <2>0 DEF StopForStep, Acts, AdaptiveNumbers, AdaptiveFlags, WantsTheStream, StepsWanted, Live, Stepping
  <2>6. BelievesWell'
    BY <1>14, <1>0, <2>0 DEF StopForStep, Acts, AdaptiveNumbers, AdaptiveFlags, BelievesWell, Believed
  <2>7. StopMeant'
    BY <1>14, <1>0, <2>0 DEF StopForStep, Acts, AdaptiveNumbers, AdaptiveFlags, StopMeant
  <2>8. StepsWell'
    BY <1>14, <1>0, <2>0 DEF StopForStep, Acts, AdaptiveNumbers, AdaptiveFlags, StepsWell, StepsWithin, Stepping
  <2>9. QED
    BY <2>1, <2>2, <2>3, <2>4, <2>5, <2>6, <2>7, <2>8 DEF AdaptiveInv
<1>15. CASE StartAtTier
  <2>1. AdaptiveNumbers'
    BY <1>15, <1>0 DEF StartAtTier, Acts, AdaptiveNumbers, TierSet
  <2>2. AdaptiveFlags'
    BY <1>15, <1>0 DEF StartAtTier, Acts, AdaptiveFlags
  <2>3. AdaptiveConfigs'
    BY <1>15, <1>0 DEF StartAtTier, Acts, AdaptiveNumbers, AdaptiveFlags, AdaptiveConfigs, Configs
  <2>4. RunsConfig'
    BY <1>15, <1>0 DEF StartAtTier, Acts, AdaptiveNumbers, AdaptiveFlags, RunsConfig, Live
  <2>5. WantsTheStream'
    <3>1. CASE Live
      BY <1>15, <1>0, <3>1 DEF StartAtTier, WantsTheStream, StepsWanted, Live, Stepping
    <3>2. CASE ~Live /\ ~collided /\ wanted # 0
      <4>1. restart.stream = wanted /\ restart.tier = goal
        BY <1>15, <1>0, <3>2 DEF StartAtTier, WantsTheStream, StepsWanted
      <4>2. QED
        BY <1>15, <3>2, <4>1 DEF StartAtTier, WantsTheStream, StepsWanted, Live
    <3>3. CASE ~Live /\ ~collided /\ wanted = 0
      BY <1>15, <1>0, <3>3 DEF StartAtTier, WantsTheStream, Stepping
    <3>4. CASE collided
      BY <1>15, <3>4 DEF StartAtTier, WantsTheStream
    <3>5. QED
      BY <3>1, <3>2, <3>3, <3>4
  <2>6. BelievesWell'
    BY <1>15, <1>0 DEF StartAtTier, Acts, AdaptiveNumbers, AdaptiveFlags, BelievesWell, Believed
  <2>7. StopMeant'
    BY <1>15, <1>0 DEF StartAtTier, Acts, AdaptiveNumbers, AdaptiveFlags, StopMeant
  <2>8. StepsWell'
    BY <1>15, <1>0 DEF StartAtTier, Acts, AdaptiveNumbers, AdaptiveFlags, StepsWell, StepsWithin, Stepping
  <2>9. QED
    BY <2>1, <2>2, <2>3, <2>4, <2>5, <2>6, <2>7, <2>8 DEF AdaptiveInv
<1>16. CASE RecordStep
  <2>1. AdaptiveNumbers'
    BY <1>16, <1>0 DEF RecordStep, Acts, AdaptiveNumbers, TierSet
  <2>2. AdaptiveFlags'
    BY <1>16, <1>0 DEF RecordStep, Acts, AdaptiveFlags
  <2>3. AdaptiveConfigs'
    BY <1>16, <1>0 DEF RecordStep, Acts, AdaptiveNumbers, AdaptiveFlags, AdaptiveConfigs, Configs
  <2>4. RunsConfig'
    BY <1>16, <1>0 DEF RecordStep, Acts, AdaptiveNumbers, AdaptiveFlags, RunsConfig, Live
  <2>5. WantsTheStream'
    BY <1>16, <1>0 DEF RecordStep, Acts, AdaptiveNumbers, AdaptiveFlags, WantsTheStream, StepsWanted, Live, Stepping
  <2>6. BelievesWell'
    BY <1>16, <1>0 DEF RecordStep, AdaptiveNumbers, StepsWell, StepsWithin, Stepping, BelievesWell, Believed, TierSet
  <2>7. StopMeant'
    BY <1>16, <1>0 DEF RecordStep, Acts, AdaptiveNumbers, AdaptiveFlags, StopMeant
  <2>8. StepsWell'
    BY <1>16, <1>0 DEF RecordStep, Acts, AdaptiveNumbers, AdaptiveFlags, StepsWell, StepsWithin, Stepping
  <2>9. QED
    BY <2>1, <2>2, <2>3, <2>4, <2>5, <2>6, <2>7, <2>8 DEF AdaptiveInv
<1>17. CASE UNCHANGED adaptiveVars
  <2>1. AdaptiveNumbers'
    BY <1>17, <1>0 DEF adaptiveVars, Acts, AdaptiveNumbers, TierSet
  <2>2. AdaptiveFlags'
    BY <1>17, <1>0 DEF adaptiveVars, Acts, AdaptiveFlags
  <2>3. AdaptiveConfigs'
    BY <1>17, <1>0 DEF adaptiveVars, Acts, AdaptiveNumbers, AdaptiveFlags, AdaptiveConfigs, Configs
  <2>4. RunsConfig'
    BY <1>17, <1>0 DEF adaptiveVars, Acts, AdaptiveNumbers, AdaptiveFlags, RunsConfig, Live
  <2>5. WantsTheStream'
    BY <1>17, <1>0 DEF adaptiveVars, Acts, AdaptiveNumbers, AdaptiveFlags, WantsTheStream, StepsWanted, Live, Stepping
  <2>6. BelievesWell'
    BY <1>17, <1>0 DEF adaptiveVars, Acts, AdaptiveNumbers, AdaptiveFlags, BelievesWell, Believed
  <2>7. StopMeant'
    BY <1>17, <1>0 DEF adaptiveVars, Acts, AdaptiveNumbers, AdaptiveFlags, StopMeant
  <2>8. StepsWell'
    BY <1>17, <1>0 DEF adaptiveVars, Acts, AdaptiveNumbers, AdaptiveFlags, StepsWell, StepsWithin, Stepping
  <2>9. QED
    BY <2>1, <2>2, <2>3, <2>4, <2>5, <2>6, <2>7, <2>8 DEF AdaptiveInv
<1>18. CASE CompleteBroadcast
  <2>0. ~Live' /\ encoder' \in Configs
    BY <1>18, ConfigsAreNumbers DEF CompleteBroadcast, SessionEnds, Live
  <2>1. AdaptiveNumbers'
    <3>1. 0 \in 0..MaxStarts
      BY <1>0 DEF AdaptiveNumbers
    <3>2. QED
      BY <1>18, <1>0, <3>1 DEF CompleteBroadcast, AdaptiveNumbers
  <2>2. AdaptiveFlags'
    BY <1>18, <1>0, <2>0 DEF CompleteBroadcast, SessionEnds, Acts, AdaptiveFlags
  <2>3. AdaptiveConfigs'
    BY <1>18, <1>0, <2>0 DEF CompleteBroadcast, Acts, AdaptiveNumbers, AdaptiveFlags, AdaptiveConfigs, Configs
  <2>4. RunsConfig'
    BY <1>18, <1>0, <2>0 DEF CompleteBroadcast, Acts, AdaptiveNumbers, AdaptiveFlags, RunsConfig, Live
  <2>5. WantsTheStream'
    BY <1>18, <1>0, <2>0 DEF CompleteBroadcast, Acts, AdaptiveNumbers, AdaptiveFlags, WantsTheStream, StepsWanted, Live, Stepping
  <2>6. BelievesWell'
    BY <1>18, <1>0, <2>0 DEF CompleteBroadcast, Acts, AdaptiveNumbers, AdaptiveFlags, BelievesWell, Believed
  <2>7. StopMeant'
    BY <1>18, <1>0, <2>0 DEF CompleteBroadcast, Acts, AdaptiveNumbers, AdaptiveFlags, StopMeant
  <2>8. StepsWell'
    BY <1>18, <1>0, <2>0 DEF CompleteBroadcast, Acts, AdaptiveNumbers, AdaptiveFlags, StepsWell, StepsWithin, Stepping
  <2>9. QED
    BY <2>1, <2>2, <2>3, <2>4, <2>5, <2>6, <2>7, <2>8 DEF AdaptiveInv
<1>19. QED
  BY <1>1, <1>2, <1>3, <1>4, <1>5, <1>6, <1>7, <1>8, <1>9, <1>10, <1>11, <1>12, <1>13, <1>14, <1>15, <1>16, <1>17, <1>18
     DEF AdaptiveNext, WatchdogStep, HandlerStep

\* Between ticks and requests the stream runs at the tier the controller
\* believes in, within the operator's choice, for any ladder and any limit; unless
\* the operator acted inside a step, a tick took a stale Degraded for a stream, or
\* the stream is one of Go Live Now, which tells the controller nothing.
THEOREM TierIsWithin == AdaptiveSpec => []TierWithinTarget
<1>1. AdaptiveInv => TierWithinTarget
  <2> SUFFICES ASSUME AdaptiveInv, Settled, ~untold, Live
               PROVE  /\ encoder = [stream |-> wanted, tier |-> current]
                      /\ current <= target /\ target - current <= MaxDowngrades
                      /\ target \in Excluded => current = target
    BY DEF TierWithinTarget
  <2>1. encoder = config /\ config = [stream |-> config.stream, tier |-> config.tier]
    BY ConfigsAreNumbers DEF AdaptiveInv, RunsConfig, AdaptiveConfigs
  <2>2. config.stream = wanted /\ config.tier = current
    BY DEF AdaptiveInv, WantsTheStream, StepsWanted, Settled
  <2>3. Believed /\ current # Unset
    <3>1. current \in TierSet
      BY <2>2, ConfigsAreNumbers DEF AdaptiveInv, AdaptiveConfigs
    <3>2. QED
      BY <3>1, AdaptiveAssumption DEF AdaptiveInv, BelievesWell, Settled, TierSet, Unset
  <2>4. QED
    BY <2>1, <2>2, <2>3, AdaptiveAssumption DEF Believed, AdaptiveInv, AdaptiveNumbers, TierSet
<1>2. QED
  BY <1>1, AdaptiveInitInv, AdaptiveNextInv, PTL DEF AdaptiveSpec

\* No step of the watchdog brings back a stream that the operator stopped, unless
\* that was inside a step, or a tick took a stale Degraded for a stream.
THEOREM StoppedStaysOff == AdaptiveSpec => []UserStopIsFinal
<1>1. AdaptiveInv => UserStopIsFinal
  BY DEF AdaptiveInv, WantsTheStream, UserStopIsFinal, Settled
<1>2. QED
  BY <1>1, AdaptiveInitInv, AdaptiveNextInv, PTL DEF AdaptiveSpec
-----------------------------------------------------------------------------
(* OAuthToken *)

\* A job that saves knows where saveToken returns to.
Jobs == {j \in [job: {"none", "call", "verify", "login"}, step: Steps, after: {"none", "idle", "answer", "again"},
                source: Consents, copy: SomeTokens] : j.step \in {"save", "write"} => j.after # "none"}

OAuthTypes ==
  /\ token \in SomeTokens /\ tokenFile \in SomeTokens
  /\ client \in Consents /\ consents \in Consents /\ login \in Consents
  /\ state \in 0..MaxFlows /\ flows \in 0..MaxFlows /\ reboots \in 0..MaxReboots
  /\ task \in [Tasks -> Jobs]
  /\ removing \in BOOLEAN /\ unsaved \in BOOLEAN /\ overlapped \in BOOLEAN

\* A token shows no channel or its own.
Proper(tok) == tok.name \in {0, tok.who}

\* What a request has in hand is of the login in force.
Follows(job) ==
  /\ job.step = "code" => job.job = "login"
  /\ job.step \in {"build", "request", "answer"} \/ (job.step \in {"save", "write"} /\ job.after = "answer") =>
       job.source = login
  /\ job.step = "write" => job.copy.who = login /\ Proper(job.copy)
  /\ job.job = "login" /\ job.step \notin {"idle", "code"} => login # 0

\* A login that has still to save its token.
Saving(job) == job.job = "login" /\ job.step \notin {"idle", "code"}

MemoryIsLatest == token.who = login /\ client \in {0, login} /\ (removing => login = 0)
NamesProper == Proper(token) /\ Proper(tokenFile)
JobsFollow == \A t \in Tasks : Follows(task[t])
FileIsLatest == tokenFile.who = login \/ unsaved \/ removing \/ \E t \in Tasks : Saving(task[t])

OAuthInv == OAuthTypes /\ (~overlapped => MemoryIsLatest /\ NamesProper /\ JobsFollow /\ FileIsLatest)

LEMMA TokenTypes ==
  /\ 0 \in Consents /\ NoToken \in SomeTokens /\ NoToken.who = 0 /\ Proper(NoToken)
  /\ \A w, n \in Consents : [who |-> w, name |-> n] \in SomeTokens
  /\ \A tok \in SomeTokens, c \in Consents :
       /\ tok.who \in Consents
       /\ [tok EXCEPT !.who = c] \in SomeTokens /\ [tok EXCEPT !.who = c].who = c
       /\ [tok EXCEPT !.who = c].name = tok.name
       /\ [tok EXCEPT !.name = c] \in SomeTokens /\ [tok EXCEPT !.name = c].who = tok.who
       /\ [tok EXCEPT !.name = c].name = c
<1>1. 0 \in Consents
  BY OAuthAssumption DEF Consents
<1>2. NoToken \in SomeTokens /\ NoToken.who = 0 /\ Proper(NoToken)
  BY <1>1 DEF NoToken, SomeTokens, Proper
<1>3. QED
  BY <1>1, <1>2 DEF SomeTokens

LEMMA IdleIsJob == IdleTask \in Jobs /\ Follows(IdleTask) /\ ~Saving(IdleTask)
  BY TokenTypes DEF IdleTask, Jobs, Steps, Follows, Saving

\* A job at another step, and a job that saves.
LEMMA JobMoves ==
  ASSUME NEW j \in Jobs, NEW s \in Steps \ {"save", "write"}, NEW a \in {"idle", "answer", "again"}
  PROVE  LET m == [j EXCEPT !.step = s]
             v == [j EXCEPT !.step = "save", !.after = a]
         IN  /\ m \in Jobs /\ v \in Jobs /\ m.step = s /\ v.step = "save" /\ v.after = a
             /\ m.after = j.after
             /\ m.job = j.job /\ v.job = j.job /\ m.source = j.source /\ v.source = j.source
             /\ m.copy = j.copy /\ v.copy = j.copy
<1> DEFINE m == [j EXCEPT !.step = s]
           v == [j EXCEPT !.step = "save", !.after = a]
<1>1. /\ m \in Jobs /\ m.step = s /\ m.after = j.after
      /\ m.job = j.job /\ m.source = j.source /\ m.copy = j.copy
  BY DEF Jobs
<1>2. /\ v \in Jobs /\ v.step = "save" /\ v.after = a
      /\ v.job = j.job /\ v.source = j.source /\ v.copy = j.copy
  BY DEF Jobs, Steps
<1>3. QED
  BY <1>1, <1>2

\* One job goes on: the invariant is a matter of that job and of what it writes.
LEMMA OneJob ==
  ASSUME OAuthInv, NEW t \in Tasks, NEW j \in Jobs, task' = [task EXCEPT ![t] = j],
         UNCHANGED <<state, flows, consents, reboots, removing, login, overlapped>>,
         token' \in SomeTokens, tokenFile' \in SomeTokens, client' \in Consents, unsaved' \in BOOLEAN \/ unsaved' = unsaved,
         ~overlapped =>
           /\ MemoryIsLatest' /\ NamesProper' /\ Follows(j)
           /\ \/ tokenFile'.who = login \/ unsaved'
              \/ UNCHANGED <<tokenFile, unsaved>> /\ (Saving(task[t]) => Saving(j))
  PROVE  OAuthInv'
<1>1. OAuthTypes'
  BY DEF OAuthInv, OAuthTypes
<1>2. ASSUME ~overlapped PROVE JobsFollow' /\ FileIsLatest'
  <2>1. task \in [Tasks -> Jobs]
    BY DEF OAuthInv, OAuthTypes
  <2>2. task'[t] = j /\ \A u \in Tasks \ {t} : task'[u] = task[u]
    BY <2>1
  <2>3. \A x : Follows(x)' <=> Follows(x)
    BY DEF Follows
  <2>4. JobsFollow'
    BY <1>2, <2>2 DEF OAuthInv, JobsFollow, Follows
  <2>5. FileIsLatest'
    BY <1>2, <2>2 DEF OAuthInv, FileIsLatest
  <2>6. QED
    BY <2>4, <2>5
<1>3. QED
  BY <1>1, <1>2 DEF OAuthInv

LEMMA OAuthInitInv == OAuthInit => OAuthInv
<1> SUFFICES ASSUME OAuthInit PROVE OAuthInv
  OBVIOUS
<1>1. OAuthTypes
  <2>1. 0 \in 0..MaxFlows /\ 0 \in 0..MaxReboots
    BY OAuthAssumption
  <2>2. QED
    BY <2>1, TokenTypes, IdleIsJob DEF OAuthInit, OAuthTypes
<1>2. MemoryIsLatest /\ NamesProper /\ FileIsLatest
  BY TokenTypes DEF OAuthInit, MemoryIsLatest, NamesProper, FileIsLatest
<1>3. JobsFollow
  BY IdleIsJob DEF OAuthInit, JobsFollow
<1>4. QED
  BY <1>1, <1>2, <1>3 DEF OAuthInv

\* Where a request that failed goes on: a login saves, any other job is over.
LEMMA EndOfJob ==
  ASSUME NEW t \in Tasks, task \in [Tasks -> Jobs], Ends(t), ~overlapped => Follows(task[t]),
         task[t].step \notin {"idle", "code"}
  PROVE  \E j \in Jobs : task' = [task EXCEPT ![t] = j] /\ (~overlapped => Follows(j)) /\ (Saving(task[t]) => Saving(j))
<1>1. CASE task[t].job = "login"
  <2> DEFINE j == [task[t] EXCEPT !.step = "save", !.after = "idle"]
  <2>1. task' = [task EXCEPT ![t] = j]
    BY <1>1 DEF Ends, Saves
  <2>2. j \in Jobs /\ j.step = "save" /\ j.after = "idle" /\ j.job = task[t].job
    <3>1. task[t] \in Jobs /\ "idle" \in Steps \ {"save", "write"} /\ "idle" \in {"idle", "answer", "again"}
      BY DEF Steps
    <3>2. QED
      BY <3>1, JobMoves
  <2> HIDE DEF j
  <2>3. Follows(task[t]) => Follows(j)
    BY <1>1, <2>2 DEF Follows
  <2>4. Saving(j)
    BY <1>1, <2>2 DEF Saving
  <2>5. QED
    BY <2>1, <2>2, <2>3, <2>4
<1>2. CASE task[t].job # "login"
  <2>1. task' = [task EXCEPT ![t] = IdleTask]
    BY <1>2 DEF Ends, GoesTo
  <2>2. QED
    BY <1>2, <2>1, IdleIsJob DEF Saving
<1>3. QED
  BY <1>1, <1>2

LEMMA OAuthNextInv == OAuthInv /\ [OAuthNext]_oauthVars => OAuthInv'
<1> SUFFICES ASSUME OAuthInv, [OAuthNext]_oauthVars PROVE OAuthInv'
  OBVIOUS
<1>0. OAuthTypes /\ (~overlapped => MemoryIsLatest /\ NamesProper /\ JobsFollow /\ FileIsLatest)
  BY DEF OAuthInv
<1>1. CASE AuthURL
  <2>1. OAuthTypes'
    BY <1>0, <1>1, OAuthAssumption DEF AuthURL, OAuthTypes
  <2>2. QED
    BY <1>0, <1>1, <2>1 DEF AuthURL, OAuthInv, MemoryIsLatest, NamesProper, Proper, JobsFollow, Follows, FileIsLatest
<1>2. CASE Logout
  <2>1. OAuthTypes'
    BY <1>0, <1>2, TokenTypes DEF Logout, OAuthTypes
  <2>2. ASSUME ~overlapped' PROVE MemoryIsLatest' /\ NamesProper' /\ JobsFollow' /\ FileIsLatest'
    <3>1. ~overlapped /\ \A t \in Tasks : task'[t].step \in {"idle", "code"}
      BY <1>2, <2>2 DEF Logout, InRequest
    <3>2. JobsFollow'
      BY <1>0, <1>2, <3>1 DEF Logout, JobsFollow, Follows
    <3>3. QED
      BY <1>0, <1>2, <3>1, <3>2, TokenTypes DEF Logout, MemoryIsLatest, NamesProper, Proper, FileIsLatest
  <2>3. QED
    BY <2>1, <2>2 DEF OAuthInv
<1>3. CASE RemoveFile
  <2>1. OAuthTypes'
    BY <1>0, <1>3, TokenTypes DEF RemoveFile, FileFails, OAuthTypes
  <2>2. JobsFollow => JobsFollow'
    BY <1>3 DEF RemoveFile, JobsFollow, Follows
  <2>3. QED
    BY <1>0, <1>3, <2>1, <2>2, TokenTypes DEF RemoveFile, FileFails, OAuthInv, MemoryIsLatest, NamesProper, Proper, FileIsLatest
<1>4. CASE Reboot
  <2>1. OAuthTypes'
    <3>1. reboots' \in 0..MaxReboots /\ 0 \in 0..MaxFlows
      BY <1>0, <1>4, OAuthAssumption DEF Reboot, OAuthTypes
    <3>2. task' \in [Tasks -> Jobs]
      BY <1>4, IdleIsJob DEF Reboot
    <3>3. tokenFile.who \in Consents /\ 0 \in Consents
      BY <1>0, TokenTypes DEF OAuthTypes
    <3>4. QED
      BY <1>0, <1>4, <3>1, <3>2, <3>3 DEF Reboot, OAuthTypes
  <2>2. JobsFollow'
    BY <1>4, IdleIsJob DEF Reboot, JobsFollow, Follows, IdleTask
  <2>3. QED
    BY <1>0, <1>4, <2>1, <2>2 DEF Reboot, OAuthInv, MemoryIsLatest, NamesProper, Proper, FileIsLatest
<1>5. ASSUME NEW t \in Tasks,
             \/ Exchange(t) \/ CodeRefused(t) \/ CodeAccepted(t)
             \/ Call(t) \/ HTTPClient(t) \/ Build(t) \/ Token(t) \/ RequestFails(t) \/ Answer(t)
             \/ SaveAgain(t) \/ SaveToken(t) \/ WriteToken(t)
      PROVE  OAuthInv'
  <2> DEFINE now == task[t]
             atStep(s) == [now EXCEPT !.step = s]
             toSave(a) == [now EXCEPT !.step = "save", !.after = a]
  <2>1. /\ task \in [Tasks -> Jobs] /\ now \in Jobs
        /\ token \in SomeTokens /\ tokenFile \in SomeTokens /\ client \in Consents
        /\ now.source \in Consents /\ now.copy \in SomeTokens
    BY <1>0 DEF OAuthTypes, Jobs
  <2>2. ~overlapped => Follows(now)
    BY <1>0 DEF JobsFollow
  <2>3. \A s \in Steps \ {"save", "write"} : /\ atStep(s) \in Jobs /\ atStep(s).step = s /\ atStep(s).after = now.after
                         /\ atStep(s).job = now.job /\ atStep(s).source = now.source /\ atStep(s).copy = now.copy
    BY <2>1 DEF Jobs
  <2>4. \A a \in {"idle", "answer", "again"} :
          /\ toSave(a) \in Jobs /\ toSave(a).step = "save" /\ toSave(a).after = a
          /\ toSave(a).job = now.job /\ toSave(a).source = now.source /\ toSave(a).copy = now.copy
    BY <2>1 DEF Jobs, Steps
  <2>5. ~overlapped /\ UNCHANGED <<token, tokenFile, client, login, removing>> => MemoryIsLatest' /\ NamesProper'
    BY <1>0 DEF MemoryIsLatest, NamesProper, Proper
  \* The jobs that write nothing
  <2>6. ASSUME NEW j \in Jobs, task' = [task EXCEPT ![t] = j], ~overlapped => Follows(j), Saving(now) => Saving(j),
               UNCHANGED <<token, tokenFile, client, state, flows, consents, reboots, removing, login, unsaved, overlapped>>
        PROVE  OAuthInv'
    <3> HIDE DEF now
    <3>1. QED
      BY <2>1, <2>5, <2>6, OneJob DEF now
  <2>7. CASE Exchange(t)
    <3> DEFINE j == [now EXCEPT !.job = "login", !.step = "code"]
    <3>1. j \in Jobs /\ j.step = "code" /\ j.job = "login"
      BY <2>1 DEF Jobs, Steps
    <3>2. task' = [task EXCEPT ![t] = j] /\ now.step = "idle"
      BY <2>7 DEF Exchange, At
    <3> HIDE DEF j, now
    <3>3. Follows(j) /\ ~Saving(now)
      BY <3>1, <3>2 DEF Follows, Saving
    <3>4. QED
      BY <2>6, <2>7, <3>1, <3>2, <3>3 DEF Exchange
  <2>8. CASE CodeRefused(t)
    <3>1. task' = [task EXCEPT ![t] = IdleTask] /\ ~Saving(now)
      BY <2>8 DEF CodeRefused, GoesTo, At, Saving
    <3> HIDE DEF now
    <3>2. QED
      BY <2>6, <2>8, <3>1, IdleIsJob DEF CodeRefused
  <2>9. CASE CodeAccepted(t)
    <3> DEFINE new == [who |-> consents + 1, name |-> 0]
               j == atStep("client")
    <3>1. consents + 1 \in Consents /\ consents + 1 # 0
      BY <1>0, <2>9, OAuthAssumption DEF CodeAccepted, Accepts, OAuthTypes, Consents
    <3>2. new \in SomeTokens /\ new.who = consents + 1 /\ Proper(new)
      BY <3>1, TokenTypes DEF Proper
    <3>3. j \in Jobs /\ j.step = "client" /\ j.job = now.job
      BY <2>3 DEF Steps
    <3>4. task' = [task EXCEPT ![t] = j]
      BY <2>9 DEF CodeAccepted, Accepts, GoesTo
    <3>5. token' = new /\ client' = 0 /\ login' = consents + 1 /\ now.step = "code" /\ UNCHANGED <<tokenFile, removing>>
      BY <2>9 DEF CodeAccepted, Accepts, At
    <3>6. overlapped' \in BOOLEAN
      BY <1>0, <2>9 DEF CodeAccepted, Accepts, OAuthTypes
    <3> HIDE DEF new, j, now
    <3>7. OAuthTypes'
      <4>1. state' = 0 /\ consents' = consents + 1 /\ UNCHANGED <<flows, reboots, unsaved>> /\ 0 \in 0..MaxFlows
        BY <2>9, OAuthAssumption DEF CodeAccepted, Accepts
      <4>2. task' \in [Tasks -> Jobs]
        BY <2>1, <3>3, <3>4
      <4>3. QED
        BY <1>0, <2>9, <3>1, <3>2, <3>5, <3>6, <4>1, <4>2, TokenTypes DEF OAuthTypes
    <3>8. ASSUME ~overlapped' PROVE MemoryIsLatest' /\ NamesProper' /\ JobsFollow' /\ FileIsLatest'
      <4>1. ~overlapped /\ ~removing /\ \A u \in Tasks : task[u].step \in {"idle", "code"}
        BY <2>9, <3>8 DEF CodeAccepted, Accepts, InRequest
      <4>2. MemoryIsLatest' /\ NamesProper'
        BY <1>0, <3>2, <3>5, <4>1 DEF MemoryIsLatest, NamesProper, Proper
      <4>3. now.job = "login"
        BY <2>2, <3>5, <4>1 DEF Follows
      <4>4. task'[t] = j /\ \A u \in Tasks \ {t} : task'[u] = task[u]
        BY <2>1, <3>4
      <4>5. JobsFollow'
        <5>1. ASSUME NEW u \in Tasks PROVE Follows(task[u])'
          <6>1. CASE u = t
            BY <3>3, <3>5, <4>4, <6>1, <4>3, <3>1 DEF Follows
          <6>2. CASE u # t
            BY <4>1, <4>4, <6>2, <1>0 DEF JobsFollow, Follows
          <6>3. QED
            BY <6>1, <6>2
        <5>2. QED
          BY <5>1 DEF JobsFollow
      <4>6. FileIsLatest'
        BY <3>3, <4>3, <4>4 DEF FileIsLatest, Saving
      <4>7. QED
        BY <4>2, <4>5, <4>6
    <3>9. QED
      BY <3>7, <3>8 DEF OAuthInv
  <2>10. CASE Call(t)
    <3>1. PICK x \in {"call", "verify"} : task' = [task EXCEPT ![t].job = x, ![t].step = "client"]
      BY <2>10 DEF Call
    <3> DEFINE j == [now EXCEPT !.job = x, !.step = "client"]
    <3>2. j \in Jobs /\ j.step = "client" /\ j.job = x
      BY <2>1 DEF Jobs, Steps
    <3>3. task' = [task EXCEPT ![t] = j] /\ now.step = "idle"
      BY <2>10, <3>1 DEF Call, At
    <3> HIDE DEF j, now
    <3>4. Follows(j) /\ ~Saving(now)
      BY <3>2, <3>3 DEF Follows, Saving
    <3>5. QED
      BY <2>6, <2>10, <3>2, <3>3, <3>4 DEF Call
  <2>11. CASE HTTPClient(t)
    <3>1. now.step = "client"
      BY <2>11 DEF HTTPClient, At
    <3>2. CASE Ends(t)
      <4>1. PICK j \in Jobs : task' = [task EXCEPT ![t] = j] /\ (~overlapped => Follows(j)) /\ (Saving(now) => Saving(j))
        BY <2>1, <2>2, <3>1, <3>2, EndOfJob
      <4> HIDE DEF now
      <4>2. QED
        BY <2>6, <2>11, <4>1 DEF HTTPClient
    <3>3. ASSUME NEW c \in Consents, ~overlapped => c = login, NEW s \in {"request", "build"},
                 task' = [task EXCEPT ![t].source = c, ![t].step = s]
          PROVE  OAuthInv'
      <4> DEFINE j == [now EXCEPT !.source = c, !.step = s]
      <4>1. j \in Jobs /\ j.step = s /\ j.job = now.job /\ j.source = c
        BY <2>1 DEF Jobs, Steps
      <4>2. task' = [task EXCEPT ![t] = j]
        BY <3>3
      <4> HIDE DEF j, now
      <4>3. ~overlapped => Follows(j)
        BY <2>2, <3>1, <3>3, <4>1 DEF Follows
      <4>4. Saving(now) => Saving(j)
        BY <4>1 DEF Saving
      <4>5. QED
        BY <2>6, <2>11, <4>1, <4>2, <4>3, <4>4 DEF HTTPClient
    <3>4. ~overlapped => token.who = login /\ client \in {0, login}
      BY <1>0 DEF MemoryIsLatest
    <3>5. token.who \in Consents
      BY <2>1, TokenTypes
    <3>6. QED
      BY <2>1, <2>11, <3>2, <3>3, <3>4, <3>5 DEF HTTPClient
  <2>12. CASE Build(t)
    <3> DEFINE j == atStep("request")
    <3>1. j \in Jobs /\ j.step = "request" /\ j.job = now.job /\ j.source = now.source
      BY <2>3 DEF Steps
    <3>2. task' = [task EXCEPT ![t] = j] /\ now.step = "build" /\ client' = now.source /\ UNCHANGED <<token, tokenFile, removing, login>>
      BY <2>12 DEF Build, GoesTo, At
    <3> HIDE DEF j, now
    <3>3. ASSUME ~overlapped PROVE Follows(j) /\ client' = login
      BY <2>2, <3>1, <3>2, <3>3 DEF Follows
    <3>4. ~overlapped => MemoryIsLatest' /\ NamesProper'
      BY <1>0, <3>2, <3>3 DEF MemoryIsLatest, NamesProper, Proper
    <3>5. Saving(now) => Saving(j)
      BY <3>1 DEF Saving
    <3>6. QED
      BY <2>1, <2>12, <3>1, <3>2, <3>3, <3>4, <3>5, OneJob DEF Build, now
  <2>13. CASE Token(t)
    <3>1. now.step = "request" /\ UNCHANGED <<tokenFile, client, login, removing>>
      BY <2>13 DEF Token, At
    <3>2. ~overlapped => now.source = login /\ token.who = login
      BY <1>0, <2>2, <3>1 DEF Follows, MemoryIsLatest
    <3>3. CASE token' = [token EXCEPT !.who = now.source] /\ Saves(t, "answer")
      <4> DEFINE j == toSave("answer")
      <4>1. /\ j \in Jobs /\ j.step = "save" /\ j.after = "answer" /\ j.job = now.job /\ j.source = now.source
        BY <2>4
      <4>2. task' = [task EXCEPT ![t] = j]
        BY <3>3 DEF Saves
      <4>3. token' \in SomeTokens /\ token'.who = now.source /\ token'.name = token.name
        BY <2>1, <3>3, TokenTypes
      <4> HIDE DEF j, now
      <4>4. ~overlapped => Follows(j)
        BY <2>2, <3>1, <3>2, <4>1 DEF Follows
      <4>5. Saving(now) => Saving(j)
        BY <4>1 DEF Saving
      <4>6. ~overlapped => MemoryIsLatest' /\ NamesProper'
        BY <1>0, <3>1, <3>2, <4>3 DEF MemoryIsLatest, NamesProper, Proper
      <4>7. QED
        BY <2>1, <2>13, <3>1, <4>1, <4>2, <4>3, <4>4, <4>5, <4>6, OneJob DEF Token, now
    <3>4. CASE GoesTo(t, "answer") /\ UNCHANGED token
      <4> DEFINE j == atStep("answer")
      <4>1. j \in Jobs /\ j.step = "answer" /\ j.job = now.job /\ j.source = now.source
        BY <2>3 DEF Steps
      <4>2. task' = [task EXCEPT ![t] = j]
        BY <3>4 DEF GoesTo
      <4> HIDE DEF j, now
      <4>3. ~overlapped => Follows(j)
        BY <2>2, <3>1, <3>2, <4>1 DEF Follows
      <4>4. Saving(now) => Saving(j)
        BY <4>1 DEF Saving
      <4>5. QED
        BY <2>6, <2>13, <3>4, <4>1, <4>2, <4>3, <4>4 DEF Token
    <3>5. QED
      BY <2>13, <3>3, <3>4 DEF Token
  <2>14. CASE RequestFails(t)
    <3>1. now.step \in {"request", "answer"} /\ Ends(t)
      BY <2>14 DEF RequestFails, At
    <3>2. PICK j \in Jobs : task' = [task EXCEPT ![t] = j] /\ (~overlapped => Follows(j)) /\ (Saving(now) => Saving(j))
      BY <2>1, <2>2, <3>1, EndOfJob
    <3> HIDE DEF now
    <3>3. QED
      BY <2>6, <2>14, <3>2 DEF RequestFails
  <2>15. CASE Answer(t)
    <3>1. now.step = "answer" /\ UNCHANGED <<tokenFile, client, login, removing>>
      BY <2>15 DEF Answer, At
    <3>2. CASE now.job = "call"
      <4>1. task' = [task EXCEPT ![t] = IdleTask] /\ ~Saving(now) /\ UNCHANGED token
        BY <2>15, <3>2 DEF Answer, GoesTo, Saving
      <4> HIDE DEF now
      <4>2. QED
        BY <2>6, <2>15, <4>1, IdleIsJob DEF Answer
    <3>3. CASE now.job # "call"
      <4> DEFINE a == IF now.job = "login" THEN "again" ELSE "idle"
                 j == toSave(a)
      <4>1. /\ j \in Jobs /\ j.step = "save" /\ j.after \in {"again", "idle"} /\ j.job = now.job
        BY <2>4
      <4>2. task' = [task EXCEPT ![t] = j]
        BY <2>15, <3>3 DEF Answer, Saves
      <4>3. ~overlapped => now.source = login /\ token.who = login
        BY <1>0, <2>2, <3>1 DEF Follows, MemoryIsLatest
      <4>4. /\ token' \in SomeTokens /\ token'.who = token.who
            /\ token'.name \in {token.name, now.source}
        <5>1. token' = IF token.who = 0 THEN token ELSE [token EXCEPT !.name = now.source]
          BY <2>15, <3>3 DEF Answer
        <5>2. QED
          BY <2>1, <5>1, TokenTypes
      <4> HIDE DEF j, now
      <4>5. ~overlapped => Follows(j)
        BY <2>2, <3>1, <4>1 DEF Follows
      <4>6. Saving(now) => Saving(j)
        BY <4>1 DEF Saving
      <4>7. ~overlapped => MemoryIsLatest' /\ NamesProper'
        BY <1>0, <3>1, <4>3, <4>4 DEF MemoryIsLatest, NamesProper, Proper
      <4>8. QED
        BY <2>1, <2>15, <3>1, <4>1, <4>2, <4>4, <4>5, <4>6, <4>7, OneJob DEF Answer, now
    <3>4. QED
      BY <3>2, <3>3
  <2>16. CASE SaveAgain(t)
    <3> DEFINE j == toSave("idle")
    <3>1. j \in Jobs /\ j.step = "save" /\ j.after = "idle" /\ j.job = now.job
      BY <2>4
    <3>2. task' = [task EXCEPT ![t] = j] /\ now.step = "again"
      BY <2>16 DEF SaveAgain, Saves, At
    <3> HIDE DEF j, now
    <3>3. (~overlapped => Follows(j)) /\ (Saving(now) => Saving(j))
      BY <2>2, <3>1, <3>2 DEF Follows, Saving
    <3>4. QED
      BY <2>6, <2>16, <3>1, <3>2, <3>3 DEF SaveAgain
  <2>17. CASE SaveToken(t)
    <3>1. now.step = "save"
      BY <2>17 DEF SaveToken, At
    <3>2. CASE token.who = 0
      <4>1. ~overlapped => ~Saving(now)
        BY <1>0, <2>2, <3>1, <3>2 DEF Follows, Saving, MemoryIsLatest
      <4>2. CASE now.after = "idle"
        <5>1. task' = [task EXCEPT ![t] = IdleTask]
          BY <2>17, <3>2, <4>2 DEF SaveToken, GoesTo
        <5> HIDE DEF now
        <5>2. QED
          BY <2>1, <2>5, <2>17, <4>1, <5>1, IdleIsJob, OneJob DEF SaveToken, now
      <4>3. CASE now.after # "idle"
        <5> DEFINE j == atStep(now.after)
        <5>1. now.after \in Steps \ {"save", "write"}
          BY <2>1, <3>1, <4>3 DEF Jobs, Steps
        <5>2. j \in Jobs /\ j.step \in {"answer", "again"} /\ j.job = now.job /\ j.source = now.source /\ (j.step = "answer" => now.after = "answer")
          BY <2>1, <2>3, <3>1, <4>3, <5>1 DEF Jobs
        <5>3. task' = [task EXCEPT ![t] = j]
          BY <2>17, <3>2, <4>3 DEF SaveToken, GoesTo
        <5> HIDE DEF j, now
        <5>4. ~overlapped => Follows(j)
          BY <2>2, <3>1, <5>2 DEF Follows
        <5>5. Saving(now) => Saving(j)
          BY <5>2 DEF Saving
        <5>6. QED
          BY <2>6, <2>17, <5>2, <5>3, <5>4, <5>5 DEF SaveToken
      <4>4. QED
        BY <4>2, <4>3
    <3>3. CASE token.who # 0
      <4> DEFINE j == [now EXCEPT !.copy = token, !.step = "write"]
      <4>1. j \in Jobs /\ j.step = "write" /\ j.job = now.job /\ j.after = now.after /\ j.source = now.source /\ j.copy = token
        BY <2>1, <3>1 DEF Jobs, Steps
      <4>2. task' = [task EXCEPT ![t] = j]
        BY <2>17, <3>3 DEF SaveToken
      <4> HIDE DEF j, now
      <4>3. ~overlapped => Follows(j)
        BY <1>0, <2>2, <3>1, <4>1 DEF Follows, MemoryIsLatest, NamesProper
      <4>4. Saving(now) => Saving(j)
        BY <4>1 DEF Saving
      <4>5. QED
        BY <2>6, <2>17, <4>1, <4>2, <4>3, <4>4 DEF SaveToken
    <3>4. QED
      BY <3>2, <3>3
  <2>18. CASE WriteToken(t)
    <3>1. now.step = "write" /\ UNCHANGED <<token, client, login, removing>>
      BY <2>18 DEF WriteToken, At
    <3>2. PICK j \in Jobs : /\ task' = [task EXCEPT ![t] = j]
                            /\ j = IdleTask \/ /\ j.step = now.after /\ j.step \in {"answer", "again"}
                                               /\ j.job = now.job /\ j.source = now.source
      <4>1. CASE now.after = "idle"
        BY <2>18, <4>1, IdleIsJob DEF WriteToken
      <4>2. CASE now.after # "idle"
        <5> DEFINE j == [now EXCEPT !.step = now.after, !.copy = NoToken]
        <5>1. now.after \in {"answer", "again"}
          BY <2>1, <3>1, <4>2 DEF Jobs
        <5>2. j \in Jobs /\ j.step = now.after /\ j.job = now.job /\ j.source = now.source
          BY <2>1, <5>1, TokenTypes DEF Jobs, Steps
        <5>3. task' = [task EXCEPT ![t] = j]
          BY <2>18, <4>2 DEF WriteToken
        <5> HIDE DEF j, now
        <5>4. QED
          BY <5>1, <5>2, <5>3
      <4>3. QED
        BY <4>1, <4>2
    <3>3. \/ tokenFile' \in SomeTokens /\ tokenFile'.who = now.copy.who /\ tokenFile' \in {now.copy, token} /\ unsaved' = FALSE
          \/ UNCHANGED tokenFile /\ unsaved' = (tokenFile.who # login)
      BY <2>1, <2>18 DEF WriteToken, FileFails
    <3> HIDE DEF now
    <3>4. ASSUME ~overlapped PROVE Follows(j) /\ MemoryIsLatest' /\ NamesProper' /\ (tokenFile'.who = login \/ unsaved')
      <4>1. (tokenFile'.who = login \/ unsaved') /\ Proper(tokenFile)'
        BY <1>0, <2>2, <3>1, <3>3, <3>4 DEF Follows, NamesProper, Proper
      <4>2. Follows(j)
        BY <2>2, <3>1, <3>2, <3>4, IdleIsJob DEF Follows
      <4>3. QED
        BY <1>0, <3>1, <3>4, <4>1, <4>2 DEF MemoryIsLatest, NamesProper, Proper
    <3>5. QED
      <4>1. UNCHANGED <<state, flows, consents, reboots, removing, login, overlapped>>
        BY <2>18 DEF WriteToken
      <4>2. token' \in SomeTokens /\ tokenFile' \in SomeTokens /\ client' \in Consents /\ unsaved' \in BOOLEAN
        BY <2>1, <3>1, <3>3
      <4>3. QED
        BY <3>2, <3>3, <3>4, <4>1, <4>2, OneJob DEF now
  <2>19. QED
    BY <1>5, <2>7, <2>8, <2>9, <2>10, <2>11, <2>12, <2>13, <2>14, <2>15, <2>16, <2>17, <2>18
<1>6. CASE UNCHANGED oauthVars
  BY <1>0, <1>6 DEF oauthVars, OAuthInv, OAuthTypes, MemoryIsLatest, NamesProper, Proper, JobsFollow, Follows, FileIsLatest
<1>7. QED
  BY <1>1, <1>2, <1>3, <1>4, <1>5, <1>6 DEF OAuthNext

\* When every request is over, memory and client are of the operator's last
\* login, and so is the file unless it could not be written or removed, for any
\* number of goroutines, logins and restarts; a request under way when the
\* operator logs in or out is excused.
THEOREM LastLoginIsKept == OAuthSpec => []LoginIsLatest
<1>1. OAuthInv => LoginIsLatest
  <2> SUFFICES ASSUME OAuthInv, \A t \in Tasks : At(t, "idle"), ~removing, ~overlapped
               PROVE  /\ token.who = login /\ client \in {0, login} /\ token.name \in {0, login}
                      /\ tokenFile.who = login \/ unsaved
                      /\ tokenFile.name \in {0, tokenFile.who}
    BY DEF LoginIsLatest
  <2>1. MemoryIsLatest /\ NamesProper /\ FileIsLatest
    BY DEF OAuthInv
  <2>2. tokenFile.who = login \/ unsaved
    BY <2>1 DEF FileIsLatest, Saving, At
  <2>3. QED
    BY <2>1, <2>2 DEF MemoryIsLatest, NamesProper, Proper
<1>2. QED
  BY <1>1, OAuthInitInv, OAuthNextInv, PTL DEF OAuthSpec

-----------------------------------------------------------------------------
(* Hub *)

Points == {"idle", "changed", "publish", "store", "close"} \cup Readers

HubTypes ==
  /\ version \in 1..MaxVersion /\ hubClosed \in BOOLEAN /\ crossed \in BOOLEAN
  /\ subs \subseteq Readers
  /\ latest \in [Readers -> 0..MaxVersion]
  /\ wakeup \in [Readers -> BOOLEAN] /\ subClosed \in [Readers -> BOOLEAN]
  /\ reader \in [Readers -> {"away", "subscribed", "write", "wait", "leave", "left"}]
  /\ frame \in [Readers -> 0..MaxVersion] /\ shown \in [Readers -> 0..MaxVersion]
  /\ publisher \in [HubProcesses -> Points]
  /\ snapshot \in [HubProcesses -> 0..MaxVersion]
  /\ rest \in [HubProcesses -> SUBSET Readers]

Watching(r) == reader[r] \in {"subscribed", "write", "wait"}
InFlight(p) == publisher[p] \notin {"idle", "changed"}
SomeChange == \E p \in Publishers : publisher[p] = "changed"

\* Who watches is subscribed, and its subscription is closed by itself or by
\* the hub; who waits has written what it had.
Subscribed ==
  /\ \A r \in Readers : /\ Watching(r) => r \in subs
                        /\ reader[r] = "wait" => frame[r] = 0
                        /\ ~hubClosed /\ subClosed[r] => reader[r] = "left"
  /\ ~hubClosed => publisher[Closer] = "idle"

\* p has still to store its snapshot with r.
ToBeTold(r) == \E p \in Publishers : publisher[p] = "publish" \/ (InFlight(p) /\ r \in rest[p])

\* r has the newest snapshot: stored and signalled, being written, or shown.
Informed(r) ==
  \/ latest[r] = version /\ (wakeup[r] \/ \E p \in Publishers : publisher[p] = r)
  \/ /\ latest[r] = 0
     /\ reader[r] = "subscribed" \/ frame[r] = version \/ (frame[r] = 0 /\ shown[r] = version)

OneInFlight == ~crossed => \A p, q \in Publishers : InFlight(p) /\ InFlight(q) => p = q
SnapshotIsNew == ~crossed /\ ~SomeChange => \A p \in Publishers : InFlight(p) => snapshot[p] = version
WatchersReached ==
  ~crossed /\ ~hubClosed /\ ~SomeChange => \A r \in Readers : Watching(r) => ToBeTold(r) \/ Informed(r)

HubInv == HubTypes /\ Subscribed /\ OneInFlight /\ SnapshotIsNew /\ WatchersReached

LEMMA HubInitInv == HubInit => HubInv
<1> SUFFICES ASSUME HubInit PROVE HubInv
  OBVIOUS
<1> USE HubAssumption DEF HubInit
<1>1. HubTypes
  <2>1. 1 \in 1..MaxVersion /\ 0 \in 0..MaxVersion
    OBVIOUS
  <2>2. QED
    BY <2>1 DEF HubTypes, Points
<1>2. Subscribed
  BY DEF Subscribed, Watching, HubProcesses
<1>3. OneInFlight /\ SnapshotIsNew /\ WatchersReached
  BY DEF OneInFlight, SnapshotIsNew, WatchersReached, InFlight, Watching, HubProcesses
<1>4. QED
  BY <1>1, <1>2, <1>3 DEF HubInv

LEMMA HubNextInv == HubInv /\ [HubNext]_hubVars => HubInv'
<1> SUFFICES ASSUME HubInv, [HubNext]_hubVars PROVE HubInv'
  OBVIOUS
<1> USE HubAssumption
<1>0. HubTypes /\ Subscribed /\ OneInFlight /\ SnapshotIsNew /\ WatchersReached
  BY DEF HubInv
<1>1. ASSUME NEW p \in Publishers, Change(p) PROVE HubInv'
  <2>1. HubTypes'
    BY <1>1, <1>0 DEF Change, Moves, Reads, HubTypes, HubProcesses, Points
  <2>2. Subscribed'
    BY <1>1, <1>0 DEF Change, Moves, Reads, HubTypes, Subscribed, Watching, InFlight, SomeChange, HubProcesses
  <2>3. OneInFlight'
    BY <1>1, <1>0 DEF Change, Moves, Reads, HubTypes, OneInFlight, Watching, InFlight, SomeChange, HubProcesses
  <2>4. SnapshotIsNew'
    BY <1>1, <1>0 DEF Change, Moves, Reads, HubTypes, OneInFlight, SnapshotIsNew, Watching, InFlight, SomeChange, HubProcesses
  <2>5. WatchersReached'
    BY <1>1, <1>0 DEF Change, Moves, Reads, HubTypes, Subscribed, WatchersReached, ToBeTold, Informed, Watching, InFlight, SomeChange, HubProcesses
  <2>6. QED
    BY <2>1, <2>2, <2>3, <2>4, <2>5 DEF HubInv
<1>2. ASSUME NEW p \in Publishers, TakeSnapshot(p) PROVE HubInv'
  <2>1. HubTypes'
    BY <1>2, <1>0 DEF TakeSnapshot, Moves, Reads, HubTypes, HubProcesses, Points
  <2>2. Subscribed'
    BY <1>2, <1>0 DEF TakeSnapshot, Moves, Reads, HubTypes, Subscribed, Watching, InFlight, SomeChange, HubProcesses
  <2>3. OneInFlight'
    BY <1>2, <1>0 DEF TakeSnapshot, Moves, Reads, HubTypes, OneInFlight, Watching, InFlight, SomeChange, HubProcesses
  <2>4. SnapshotIsNew'
    BY <1>2, <1>0 DEF TakeSnapshot, Moves, Reads, HubTypes, OneInFlight, SnapshotIsNew, Watching, InFlight, SomeChange, HubProcesses
  <2>5. WatchersReached'
    BY <1>2, <1>0 DEF TakeSnapshot, Moves, Reads, HubTypes, Subscribed, WatchersReached, ToBeTold, Informed, Watching, InFlight, SomeChange, HubProcesses
  <2>6. QED
    BY <2>1, <2>2, <2>3, <2>4, <2>5 DEF HubInv
<1>3. ASSUME NEW p \in Publishers, Collect(p) PROVE HubInv'
  <2>1. HubTypes'
    BY <1>3, <1>0 DEF Collect, Moves, Reads, HubTypes, HubProcesses, Points
  <2>2. Subscribed'
    BY <1>3, <1>0 DEF Collect, Moves, Reads, HubTypes, Subscribed, Watching, InFlight, SomeChange, HubProcesses
  <2>3. OneInFlight'
    BY <1>3, <1>0 DEF Collect, Moves, Reads, HubTypes, OneInFlight, Watching, InFlight, SomeChange, HubProcesses
  <2>4. SnapshotIsNew'
    BY <1>3, <1>0 DEF Collect, Moves, Reads, HubTypes, OneInFlight, SnapshotIsNew, Watching, InFlight, SomeChange, HubProcesses
  <2>5. WatchersReached'
    BY <1>3, <1>0 DEF Collect, Moves, Reads, HubTypes, Subscribed, WatchersReached, ToBeTold, Informed, Watching, InFlight, SomeChange, HubProcesses
  <2>6. QED
    BY <2>1, <2>2, <2>3, <2>4, <2>5 DEF HubInv
<1>4. ASSUME NEW p \in Publishers, Store(p) PROVE HubInv'
  <2>1. HubTypes'
    BY <1>4, <1>0 DEF Store, Moves, Reads, HubTypes, HubProcesses, Points
  <2>2. Subscribed'
    BY <1>4, <1>0 DEF Store, Moves, Reads, HubTypes, Subscribed, Watching, InFlight, SomeChange, HubProcesses
  <2>3. OneInFlight'
    BY <1>4, <1>0 DEF Store, Moves, Reads, HubTypes, OneInFlight, Watching, InFlight, SomeChange, HubProcesses
  <2>4. SnapshotIsNew'
    BY <1>4, <1>0 DEF Store, Moves, Reads, HubTypes, OneInFlight, SnapshotIsNew, Watching, InFlight, SomeChange, HubProcesses
  <2>5. WatchersReached'
    <3> SUFFICES ASSUME ~crossed, ~hubClosed, ~SomeChange', NEW u \in Readers, Watching(u)
                 PROVE  ToBeTold(u)' \/ Informed(u)'
      BY <1>4 DEF Store, WatchersReached, Watching
    <3>1. PICK r \in rest[p] :
            /\ rest' = [rest EXCEPT ![p] = @ \ {r}]
            /\ \/ subClosed[r] /\ UNCHANGED <<latest, publisher>>
               \/ latest' = [latest EXCEPT ![r] = snapshot[p]] /\ publisher' = [publisher EXCEPT ![p] = r]
      BY <1>4 DEF Store
    <3>2. p \in HubProcesses /\ r \in Readers /\ publisher[p] = "store"
      BY <1>4, <1>0 DEF Store, HubTypes, HubProcesses
    <3>3. ~SomeChange
      BY <1>0, <3>1, <3>2 DEF SomeChange, HubTypes, HubProcesses
    <3>4. snapshot[p] = version
      BY <1>0, <3>2, <3>3 DEF SnapshotIsNew, InFlight
    <3>5. UNCHANGED <<version, wakeup, reader, frame, shown>>
      BY <1>4 DEF Store
    <3>6. CASE u = r
      <4>1. ~subClosed[r]
        BY <1>0, <3>2, <3>6 DEF Subscribed, Watching
      <4>2. latest'[r] = version /\ publisher'[p] = r
        BY <1>0, <3>1, <3>2, <3>4, <4>1 DEF HubTypes
      <4>3. QED
        BY <3>5, <3>6, <4>2 DEF Informed
    <3>7. CASE u # r
      <4>1. latest'[u] = latest[u]
        BY <1>0, <3>1, <3>7 DEF HubTypes
      <4>2. \A q \in Publishers : InFlight(q) => InFlight(q)'
        BY <1>0, <3>1, <3>2 DEF InFlight, HubTypes, HubProcesses
      <4>3. \A q \in Publishers : u \in rest[q] => u \in rest'[q]
        BY <1>0, <3>1, <3>2, <3>7 DEF HubTypes, HubProcesses
      <4>4. \A q \in Publishers : publisher[q] \in {"publish", u} => publisher'[q] = publisher[q]
        BY <1>0, <3>1, <3>2 DEF HubTypes, HubProcesses
      <4>5. ToBeTold(u) => ToBeTold(u)'
        BY <4>2, <4>3, <4>4 DEF ToBeTold
      <4>6. Informed(u) => Informed(u)'
        BY <3>5, <4>1, <4>4 DEF Informed
      <4>7. QED
        BY <1>0, <3>3, <4>5, <4>6 DEF WatchersReached
    <3>8. QED
      BY <3>6, <3>7
  <2>6. QED
    BY <2>1, <2>2, <2>3, <2>4, <2>5 DEF HubInv
<1>5. ASSUME NEW p \in Publishers, Signal(p) PROVE HubInv'
  <2>1. HubTypes'
    BY <1>5, <1>0 DEF Signal, Moves, Reads, HubTypes, HubProcesses, Points
  <2>2. Subscribed'
    BY <1>5, <1>0 DEF Signal, Moves, Reads, HubTypes, Subscribed, Watching, InFlight, SomeChange, HubProcesses
  <2>3. OneInFlight'
    BY <1>5, <1>0 DEF Signal, Moves, Reads, HubTypes, OneInFlight, Watching, InFlight, SomeChange, HubProcesses
  <2>4. SnapshotIsNew'
    BY <1>5, <1>0 DEF Signal, Moves, Reads, HubTypes, OneInFlight, SnapshotIsNew, Watching, InFlight, SomeChange, HubProcesses
  <2>5. WatchersReached'
    BY <1>5, <1>0 DEF Signal, Moves, Reads, HubTypes, Subscribed, WatchersReached, ToBeTold, Informed, Watching, InFlight, SomeChange, HubProcesses
  <2>6. QED
    BY <2>1, <2>2, <2>3, <2>4, <2>5 DEF HubInv
<1>6. ASSUME NEW p \in Publishers, Published(p) PROVE HubInv'
  <2>1. HubTypes'
    BY <1>6, <1>0 DEF Published, Moves, Reads, HubTypes, HubProcesses, Points
  <2>2. Subscribed'
    BY <1>6, <1>0 DEF Published, Moves, Reads, HubTypes, Subscribed, Watching, InFlight, SomeChange, HubProcesses
  <2>3. OneInFlight'
    BY <1>6, <1>0 DEF Published, Moves, Reads, HubTypes, OneInFlight, Watching, InFlight, SomeChange, HubProcesses
  <2>4. SnapshotIsNew'
    BY <1>6, <1>0 DEF Published, Moves, Reads, HubTypes, OneInFlight, SnapshotIsNew, Watching, InFlight, SomeChange, HubProcesses
  <2>5. WatchersReached'
    BY <1>6, <1>0 DEF Published, Moves, Reads, HubTypes, Subscribed, WatchersReached, ToBeTold, Informed, Watching, InFlight, SomeChange, HubProcesses
  <2>6. QED
    BY <2>1, <2>2, <2>3, <2>4, <2>5 DEF HubInv
<1>7. CASE CloseHub
  <2>1. HubTypes'
    BY <1>7, <1>0 DEF CloseHub, Moves, Reads, HubTypes, HubProcesses, Points
  <2>2. Subscribed'
    BY <1>7, <1>0 DEF CloseHub, Moves, Reads, HubTypes, Subscribed, Watching, InFlight, SomeChange, HubProcesses
  <2>3. OneInFlight'
    BY <1>7, <1>0 DEF CloseHub, Moves, Reads, HubTypes, OneInFlight, Watching, InFlight, SomeChange, HubProcesses
  <2>4. SnapshotIsNew'
    BY <1>7, <1>0 DEF CloseHub, Moves, Reads, HubTypes, OneInFlight, SnapshotIsNew, Watching, InFlight, SomeChange, HubProcesses
  <2>5. WatchersReached'
    BY <1>7, <1>0 DEF CloseHub, Moves, Reads, HubTypes, Subscribed, WatchersReached, ToBeTold, Informed, Watching, InFlight, SomeChange, HubProcesses
  <2>6. QED
    BY <2>1, <2>2, <2>3, <2>4, <2>5 DEF HubInv
<1>8. CASE CloseSub
  <2>1. HubTypes'
    BY <1>8, <1>0 DEF CloseSub, Moves, Reads, HubTypes, HubProcesses, Points
  <2>2. Subscribed'
    BY <1>8, <1>0 DEF CloseSub, Moves, Reads, HubTypes, Subscribed, Watching, InFlight, SomeChange, HubProcesses
  <2>3. OneInFlight'
    BY <1>8, <1>0 DEF CloseSub, Moves, Reads, HubTypes, OneInFlight, Watching, InFlight, SomeChange, HubProcesses
  <2>4. SnapshotIsNew'
    BY <1>8, <1>0 DEF CloseSub, Moves, Reads, HubTypes, OneInFlight, SnapshotIsNew, Watching, InFlight, SomeChange, HubProcesses
  <2>5. WatchersReached'
    BY <1>8, <1>0 DEF CloseSub, Moves, Reads, HubTypes, Subscribed, WatchersReached, ToBeTold, Informed, Watching, InFlight, SomeChange, HubProcesses
  <2>6. QED
    BY <2>1, <2>2, <2>3, <2>4, <2>5 DEF HubInv
<1>9. CASE Signal(Closer)
  <2>1. HubTypes'
    BY <1>9, <1>0 DEF Signal, Moves, Reads, HubTypes, HubProcesses, Points
  <2>2. Subscribed'
    BY <1>9, <1>0 DEF Signal, Moves, Reads, HubTypes, Subscribed, Watching, InFlight, SomeChange, HubProcesses
  <2>3. OneInFlight'
    BY <1>9, <1>0 DEF Signal, Moves, Reads, HubTypes, OneInFlight, Watching, InFlight, SomeChange, HubProcesses
  <2>4. SnapshotIsNew'
    BY <1>9, <1>0 DEF Signal, Moves, Reads, HubTypes, OneInFlight, SnapshotIsNew, Watching, InFlight, SomeChange, HubProcesses
  <2>5. WatchersReached'
    BY <1>9, <1>0 DEF Signal, Moves, Reads, HubTypes, Subscribed, WatchersReached, ToBeTold, Informed, Watching, InFlight, SomeChange, HubProcesses
  <2>6. QED
    BY <2>1, <2>2, <2>3, <2>4, <2>5 DEF HubInv
<1>10. ASSUME NEW r \in Readers, Subscribe(r) PROVE HubInv'
  <2>1. HubTypes'
    BY <1>10, <1>0 DEF Subscribe, Moves, Reads, HubTypes, HubProcesses, Points
  <2>2. Subscribed'
    BY <1>10, <1>0 DEF Subscribe, Moves, Reads, HubTypes, Subscribed, Watching, InFlight, SomeChange, HubProcesses
  <2>3. OneInFlight'
    BY <1>10, <1>0 DEF Subscribe, Moves, Reads, HubTypes, OneInFlight, Watching, InFlight, SomeChange, HubProcesses
  <2>4. SnapshotIsNew'
    BY <1>10, <1>0 DEF Subscribe, Moves, Reads, HubTypes, OneInFlight, SnapshotIsNew, Watching, InFlight, SomeChange, HubProcesses
  <2>5. WatchersReached'
    BY <1>10, <1>0 DEF Subscribe, Moves, Reads, HubTypes, Subscribed, WatchersReached, ToBeTold, Informed, Watching, InFlight, SomeChange, HubProcesses
  <2>6. QED
    BY <2>1, <2>2, <2>3, <2>4, <2>5 DEF HubInv
<1>11. ASSUME NEW r \in Readers, Reject(r) PROVE HubInv'
  <2>1. HubTypes'
    BY <1>11, <1>0 DEF Reject, Moves, Reads, HubTypes, HubProcesses, Points
  <2>2. Subscribed'
    BY <1>11, <1>0 DEF Reject, Moves, Reads, HubTypes, Subscribed, Watching, InFlight, SomeChange, HubProcesses
  <2>3. OneInFlight'
    BY <1>11, <1>0 DEF Reject, Moves, Reads, HubTypes, OneInFlight, Watching, InFlight, SomeChange, HubProcesses
  <2>4. SnapshotIsNew'
    BY <1>11, <1>0 DEF Reject, Moves, Reads, HubTypes, OneInFlight, SnapshotIsNew, Watching, InFlight, SomeChange, HubProcesses
  <2>5. WatchersReached'
    BY <1>11, <1>0 DEF Reject, Moves, Reads, HubTypes, Subscribed, WatchersReached, ToBeTold, Informed, Watching, InFlight, SomeChange, HubProcesses
  <2>6. QED
    BY <2>1, <2>2, <2>3, <2>4, <2>5 DEF HubInv
<1>12. ASSUME NEW r \in Readers, Disconnect(r) PROVE HubInv'
  <2>1. HubTypes'
    BY <1>12, <1>0 DEF Disconnect, Moves, Reads, HubTypes, HubProcesses, Points
  <2>2. Subscribed'
    BY <1>12, <1>0 DEF Disconnect, Moves, Reads, HubTypes, Subscribed, Watching, InFlight, SomeChange, HubProcesses
  <2>3. OneInFlight'
    BY <1>12, <1>0 DEF Disconnect, Moves, Reads, HubTypes, OneInFlight, Watching, InFlight, SomeChange, HubProcesses
  <2>4. SnapshotIsNew'
    BY <1>12, <1>0 DEF Disconnect, Moves, Reads, HubTypes, OneInFlight, SnapshotIsNew, Watching, InFlight, SomeChange, HubProcesses
  <2>5. WatchersReached'
    BY <1>12, <1>0 DEF Disconnect, Moves, Reads, HubTypes, Subscribed, WatchersReached, ToBeTold, Informed, Watching, InFlight, SomeChange, HubProcesses
  <2>6. QED
    BY <2>1, <2>2, <2>3, <2>4, <2>5 DEF HubInv
<1>13. ASSUME NEW r \in Readers, InitialSnapshot(r) PROVE HubInv'
  <2>1. HubTypes'
    BY <1>13, <1>0 DEF InitialSnapshot, Moves, Reads, HubTypes, HubProcesses, Points
  <2>2. Subscribed'
    BY <1>13, <1>0 DEF InitialSnapshot, Moves, Reads, HubTypes, Subscribed, Watching, InFlight, SomeChange, HubProcesses
  <2>3. OneInFlight'
    BY <1>13, <1>0 DEF InitialSnapshot, Moves, Reads, HubTypes, OneInFlight, Watching, InFlight, SomeChange, HubProcesses
  <2>4. SnapshotIsNew'
    BY <1>13, <1>0 DEF InitialSnapshot, Moves, Reads, HubTypes, OneInFlight, SnapshotIsNew, Watching, InFlight, SomeChange, HubProcesses
  <2>5. WatchersReached'
    BY <1>13, <1>0 DEF InitialSnapshot, Moves, Reads, HubTypes, Subscribed, WatchersReached, ToBeTold, Informed, Watching, InFlight, SomeChange, HubProcesses
  <2>6. QED
    BY <2>1, <2>2, <2>3, <2>4, <2>5 DEF HubInv
<1>14. ASSUME NEW r \in Readers, Drain(r) PROVE HubInv'
  <2>1. HubTypes'
    BY <1>14, <1>0 DEF Drain, Moves, Reads, HubTypes, HubProcesses, Points
  <2>2. Subscribed'
    BY <1>14, <1>0 DEF Drain, Moves, Reads, HubTypes, Subscribed, Watching, InFlight, SomeChange, HubProcesses
  <2>3. OneInFlight'
    BY <1>14, <1>0 DEF Drain, Moves, Reads, HubTypes, OneInFlight, Watching, InFlight, SomeChange, HubProcesses
  <2>4. SnapshotIsNew'
    BY <1>14, <1>0 DEF Drain, Moves, Reads, HubTypes, OneInFlight, SnapshotIsNew, Watching, InFlight, SomeChange, HubProcesses
  <2>5. WatchersReached'
    BY <1>14, <1>0 DEF Drain, Moves, Reads, HubTypes, Subscribed, WatchersReached, ToBeTold, Informed, Watching, InFlight, SomeChange, HubProcesses
  <2>6. QED
    BY <2>1, <2>2, <2>3, <2>4, <2>5 DEF HubInv
<1>15. ASSUME NEW r \in Readers, Write(r) PROVE HubInv'
  <2>1. HubTypes'
    BY <1>15, <1>0 DEF Write, Moves, Reads, HubTypes, HubProcesses, Points
  <2>2. Subscribed'
    BY <1>15, <1>0 DEF Write, Moves, Reads, HubTypes, Subscribed, Watching, InFlight, SomeChange, HubProcesses
  <2>3. OneInFlight'
    BY <1>15, <1>0 DEF Write, Moves, Reads, HubTypes, OneInFlight, Watching, InFlight, SomeChange, HubProcesses
  <2>4. SnapshotIsNew'
    BY <1>15, <1>0 DEF Write, Moves, Reads, HubTypes, OneInFlight, SnapshotIsNew, Watching, InFlight, SomeChange, HubProcesses
  <2>5. WatchersReached'
    BY <1>15, <1>0 DEF Write, Moves, Reads, HubTypes, Subscribed, WatchersReached, ToBeTold, Informed, Watching, InFlight, SomeChange, HubProcesses
  <2>6. QED
    BY <2>1, <2>2, <2>3, <2>4, <2>5 DEF HubInv
<1>16. ASSUME NEW r \in Readers, Unsubscribe(r) PROVE HubInv'
  <2>1. HubTypes'
    BY <1>16, <1>0 DEF Unsubscribe, Moves, Reads, HubTypes, HubProcesses, Points
  <2>2. Subscribed'
    BY <1>16, <1>0 DEF Unsubscribe, Moves, Reads, HubTypes, Subscribed, Watching, InFlight, SomeChange, HubProcesses
  <2>3. OneInFlight'
    BY <1>16, <1>0 DEF Unsubscribe, Moves, Reads, HubTypes, OneInFlight, Watching, InFlight, SomeChange, HubProcesses
  <2>4. SnapshotIsNew'
    BY <1>16, <1>0 DEF Unsubscribe, Moves, Reads, HubTypes, OneInFlight, SnapshotIsNew, Watching, InFlight, SomeChange, HubProcesses
  <2>5. WatchersReached'
    BY <1>16, <1>0 DEF Unsubscribe, Moves, Reads, HubTypes, Subscribed, WatchersReached, ToBeTold, Informed, Watching, InFlight, SomeChange, HubProcesses
  <2>6. QED
    BY <2>1, <2>2, <2>3, <2>4, <2>5 DEF HubInv
<1>17. CASE UNCHANGED hubVars
  BY <1>17, <1>0 DEF hubVars, HubInv, HubTypes, Subscribed, OneInFlight, SnapshotIsNew, WatchersReached, ToBeTold, Informed,
     Watching, InFlight, SomeChange, HubProcesses
<1>18. QED
  BY <1>1, <1>2, <1>3, <1>4, <1>5, <1>6, <1>7, <1>8, <1>9, <1>10, <1>11, <1>12, <1>13, <1>14, <1>15, <1>16, <1>17 DEF HubNext, PublisherStep, ReaderStep

\* A browser that waits without a signal while no publisher is at work shows the
\* newest state, for any browsers, publishers and changes of it, unless two
\* publishers crossed and none has since taken its snapshot alone.
THEOREM WatcherIsCurrent == HubSpec => []NewestShown
<1>1. HubInv => NewestShown
  <2> SUFFICES ASSUME HubInv, ~crossed, ~hubClosed, \A p \in Publishers : publisher[p] = "idle",
                      NEW r \in Readers, reader[r] = "wait", ~wakeup[r]
               PROVE  shown[r] = version
    BY DEF NewestShown
  <2>1. ~SomeChange /\ ~ToBeTold(r) /\ \A p \in Publishers : publisher[p] # r
    BY HubAssumption DEF SomeChange, ToBeTold, InFlight
  <2>2. Informed(r)
    BY <2>1 DEF HubInv, WatchersReached, Watching
  <2>3. frame[r] = 0 /\ version # 0
    BY DEF HubInv, HubTypes, Subscribed
  <2>4. QED
    BY <2>1, <2>2, <2>3 DEF Informed
<1>2. QED
  BY <1>1, HubInitInv, HubNextInv, PTL DEF HubSpec

-----------------------------------------------------------------------------
(* The hub's cap *)

\* The hub never has more subscriptions than it allows.
Capped == IsFiniteSet(subs) /\ Cardinality(subs) <= MaxSubscribers

LEMMA CappedStays == Capped /\ [HubNext]_hubVars => Capped'
<1> SUFFICES ASSUME Capped, [HubNext]_hubVars PROVE Capped'
  OBVIOUS
<1> USE HubAssumption
<1>0. Cardinality(subs) \in Nat
  BY FS_CardinalityType DEF Capped
<1>1. ASSUME NEW r \in Readers, Subscribe(r) PROVE Capped'
  <2>1. subs' = subs \cup {r} /\ Cardinality(subs) < MaxSubscribers
    BY <1>1 DEF Subscribe
  <2>2. IsFiniteSet(subs') /\ (Cardinality(subs') = Cardinality(subs) \/ Cardinality(subs') = Cardinality(subs) + 1)
    BY <2>1, FS_AddElement DEF Capped
  <2>3. QED
    BY <1>0, <2>1, <2>2 DEF Capped
<1>2. ASSUME subs' \subseteq subs PROVE Capped'
  <2>1. IsFiniteSet(subs') /\ Cardinality(subs') <= Cardinality(subs)
    BY <1>2, FS_Subset DEF Capped
  <2>2. Cardinality(subs') \in Nat
    BY <2>1, FS_CardinalityType
  <2>3. QED
    BY <1>0, <2>1, <2>2 DEF Capped
<1>3. ASSUME NEW r \in Readers, Reject(r) \/ Disconnect(r) \/ ReaderStep(r) PROVE subs' \subseteq subs
  BY <1>3, Zenon DEF Reject, Disconnect, ReaderStep, InitialSnapshot, Drain, Write, Unsubscribe
<1>4. ASSUME NEW p \in HubProcesses, Change(p) \/ PublisherStep(p) PROVE subs' \subseteq subs
  BY <1>4, Zenon DEF Change, PublisherStep, TakeSnapshot, Collect, Store, Signal, Published
<1>5. CASE CloseHub \/ CloseSub
  BY <1>2, <1>5, Zenon DEF CloseHub, CloseSub
<1>6. CASE UNCHANGED hubVars
  BY <1>2, <1>6 DEF hubVars
<1>7. QED
  BY <1>1, <1>2, <1>3, <1>4, <1>5, <1>6 DEF HubNext, HubProcesses, PublisherStep

LEMMA HubTypeAlways == HubSpec => []HubTypeOK
<1>1. HubInit => Capped
  BY HubAssumption, FS_EmptySet DEF HubInit, Capped
<1>2. HubInv /\ Capped => HubTypeOK
  BY DEF HubInv, HubTypes, Points, Capped, HubTypeOK
<1>3. QED
  BY <1>1, <1>2, CappedStays, HubInitInv, HubNextInv, PTL DEF HubSpec

-----------------------------------------------------------------------------
(* The controller's count *)

\* The count stays within the limit, also when the operator gives the tick a new
\* stream to record its step on: a tick steps down only with a step left, and
\* where there was never one, it never steps.
Counts ==
  /\ downgradeCount <= MaxDowngrades
  /\ stepped \/ Stepping => MaxDowngrades > 0
  /\ Stepping /\ goal < current => downgradeCount < MaxDowngrades

LEMMA CountsStays == AdaptiveInv /\ Counts /\ [AdaptiveNext]_adaptiveVars => Counts'
<1> SUFFICES ASSUME AdaptiveInv, Counts, [AdaptiveNext]_adaptiveVars PROVE Counts'
  OBVIOUS
<1>0. /\ MaxDowngrades \in Nat /\ downgradeCount \in Nat
      /\ current \in Int /\ target \in Int /\ goal \in Nat
      /\ current \in {Unset} \cup TierSet /\ target \in {Unset} \cup TierSet
  BY AdaptiveAssumption DEF AdaptiveInv, AdaptiveNumbers, TierSet, Unset
<1>1. ASSUME UNCHANGED <<current, stepped, downgradeCount, goal>>, watchdog' = watchdog \/ ~Stepping' \/ Stepping
      PROVE  Counts'
  BY <1>1 DEF Counts, Stepping
<1>2. CASE OnStreamStart
  BY <1>0, <1>2 DEF OnStreamStart, Counts, Stepping
<1>3. CASE OnStreamStop
  BY <1>0, <1>3 DEF OnStreamStop, Counts, Stepping, Unset
<1>4. CASE Look
  <2>1. CASE watchdog' = "waits"
    BY <1>4, <2>1 DEF Look, Looks, Counts, Stepping
  <2>2. CASE watchdog' # "waits"
    <3>1. goal' = NextTier /\ NextTier # Unset /\ UNCHANGED <<current, stepped, downgradeCount>>
      BY <1>4, <2>2 DEF Look, Looks
    <3>2. CASE Degraded
      <4>1. downgradeCount < MaxDowngrades
        BY <1>0, <3>1, <3>2 DEF NextTier
      <4>2. QED
        BY <1>0, <3>1, <4>1 DEF Counts
    <3>3. CASE ~Degraded
      <4>1. stepped /\ NextTier = Higher(current, target)
        BY <3>1, <3>3 DEF NextTier
      <4>2. NextTier \in (current + 1)..target
        BY <1>0, <3>1, <4>1, LadderType
      <4>3. MaxDowngrades > 0 /\ ~(goal' < current')
        BY <1>0, <3>1, <4>1, <4>2 DEF Counts
      <4>4. QED
        BY <1>0, <3>1, <4>3 DEF Counts
    <3>4. QED
      BY <3>2, <3>3
  <2>3. QED
    BY <2>1, <2>2
<1>5. CASE RecordStep
  <2>1. MaxDowngrades > 0 /\ (goal < current => downgradeCount < MaxDowngrades)
    BY <1>5 DEF RecordStep, Counts, Stepping
  <2>2. downgradeCount' <= MaxDowngrades
    BY <1>0, <1>5, <2>1 DEF RecordStep, Counts
  <2>3. ~Stepping'
    BY <1>5 DEF RecordStep, Stepping
  <2>4. QED
    BY <2>1, <2>2, <2>3 DEF Counts
<1>6. CASE Tick \/ Capture \/ StopForStep \/ StartAtTier
  BY <1>1, <1>6 DEF Tick, Capture, StopForStep, StartAtTier, Stepping
<1>7. ASSUME NEW t \in Chosen, StartStream(t) \/ GoLiveNow(t) PROVE Counts'
  BY <1>1, <1>7 DEF StartStream, GoLiveNow
<1>8. CASE StopStream \/ TakeOver \/ CompleteBroadcast \/ SetEnabled \/ EncoderFails \/ NetworkChanges \/ TimePasses
  BY <1>1, <1>8 DEF StopStream, TakeOver, CompleteBroadcast, SetEnabled, EncoderFails, NetworkChanges, TimePasses
<1>9. CASE UNCHANGED adaptiveVars
  BY <1>1, <1>9 DEF adaptiveVars
<1>10. QED
  BY <1>2, <1>3, <1>4, <1>5, <1>6, <1>7, <1>8, <1>9 DEF AdaptiveNext, HandlerStep, WatchdogStep

LEMMA AdaptiveTypeAlways == AdaptiveSpec => []AdaptiveTypeOK
<1>1. AdaptiveInit => Counts
  BY AdaptiveAssumption DEF AdaptiveInit, Counts, Stepping
<1>2. AdaptiveInv /\ Counts => AdaptiveTypeOK
  <2> SUFFICES ASSUME AdaptiveInv, Counts PROVE AdaptiveTypeOK
    OBVIOUS
  <2>1. MaxDowngrades \in Nat /\ downgradeCount \in Nat
    BY AdaptiveAssumption DEF AdaptiveInv, AdaptiveNumbers
  <2>2. downgradeCount \in 0..MaxDowngrades
    BY <2>1 DEF Counts
  <2>3. {stepped, enabled, bad, untold, collided} \subseteq BOOLEAN /\ {encoder, config, restart} \subseteq Configs
    BY Zenon DEF AdaptiveInv, AdaptiveFlags, AdaptiveConfigs
  <2>4. QED
    BY <2>2, <2>3 DEF AdaptiveInv, AdaptiveNumbers, AdaptiveFlags, TierSet, AdaptiveTypeOK
<1>3. QED
  BY <1>1, <1>2, CountsStays, AdaptiveInitInv, AdaptiveNextInv, PTL DEF AdaptiveSpec

-----------------------------------------------------------------------------
(* The services together *)

\* The composition leaves every service to itself.
LEMMA ServicesApart ==
  ASSUME [Next]_sideVars
  PROVE  /\ [HubNext]_hubVars /\ [OAuthNext]_oauthVars /\ [PreviewNext]_previewVars
         /\ [AdaptiveNext]_adaptiveVars /\ [HealthNext]_healthVars /\ [CaptureNext]_captureVars
  BY Zenon DEF Next, HubMoves, OAuthMoves, PreviewMoves, AdaptiveMoves, HealthMoves, CaptureMoves, sideVars

\* What each service is proved to guarantee by itself it guarantees while the
\* others move too: the composition is a behaviour of each of the six.
LEMMA ServicesCompose ==
  Spec => HubSpec /\ OAuthSpec /\ PreviewSpec /\ AdaptiveSpec /\ HealthSpec /\ CaptureSpec
  BY ServicesApart, PTL DEF Spec, Init, HubSpec, OAuthSpec, PreviewSpec, AdaptiveSpec, HealthSpec, CaptureSpec

\* Every variable of the six services keeps its type, the hub's cap on
\* subscriptions and the controller's limit of downgrades included.
THEOREM ServicesTypeCorrect == Spec => []TypeOK
<1>1. OAuthInv => OAuthTypeOK
  BY DEF OAuthInv, OAuthTypes, Jobs, OAuthTypeOK
<1>2. PreviewInv => PreviewTypeOK
  BY PreviewAssumption DEF PreviewInv, PreviewTypes, Numbered, Existing, SessionIds, PreviewTypeOK
<1>3. HealthInv => HealthTypeOK
  BY DEF HealthInv
<1>4. CaptureInv => CaptureTypeOK
  BY DEF CaptureInv
<1>5. OAuthSpec => []OAuthTypeOK
  BY <1>1, OAuthInitInv, OAuthNextInv, PTL DEF OAuthSpec
<1>6. PreviewSpec => []PreviewTypeOK
  BY <1>2, PreviewInitInv, PreviewNextInv, PTL DEF PreviewSpec
<1>7. HealthSpec => []HealthTypeOK
  BY <1>3, HealthInvAlways, PTL
<1>8. CaptureSpec => []CaptureTypeOK
  BY <1>4, CaptureInitInv, CaptureNextInv, PTL DEF CaptureSpec
<1>9. QED
  BY <1>5, <1>6, <1>7, <1>8, HubTypeAlways, AdaptiveTypeAlways, ServicesCompose, PTL DEF TypeOK
=============================================================================
