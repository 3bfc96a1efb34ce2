---------------------------- MODULE CaptureSource ----------------------------
(***************************************************************************)
(* Which camera or microphone FFmpeg opens (internal/ffmpeg/config.go, the *)
(* audio watcher of the Supervisor, and the places in internal/app that    *)
(* save and reload the choice).  The system lists devices at indices that  *)
(* change when one is plugged or unplugged; the configuration keeps the    *)
(* name of the chosen one and the index it had.  Names need not be unique. *)
(* The device modelled is the video or the audio device of the             *)
(* configuration.  A choice without a name, an ALSA device, and a v4l2     *)
(* device where /sys cannot be read are opened at the index kept.  Listing *)
(* the devices and opening one is a single step.  Inputs that are no       *)
(* capture devices and name-addressed backends have nothing to resolve and *)
(* are left out.                                                           *)
(***************************************************************************)
EXTENDS Naturals, FiniteSets

CONSTANTS
  Units,       \* the physical devices
  NameOf,      \* NameOf[u]: the name u reports
  Indices,     \* bound: indices of the listing, from 1
  MaxMoves,    \* bound: times that devices are plugged or unplugged
  MaxChoices   \* bound: times that the operator picks another device

ASSUME CaptureAssumption ==
  /\ DOMAIN NameOf = Units /\ \A u \in Units : NameOf[u] # "nameless"
  /\ {"none", "silent"} \cap Units = {}
  /\ {Indices, MaxMoves, MaxChoices} \subseteq Nat

VARIABLES
  kind,     \* "video" or "audio"
  resolves, \* the backend resolves names: AVFoundation, v4l2 with /sys
  at,       \* at[u]: the index of u in the listing, 0 when unplugged
  moves, choices,
  saved,    \* the configuration file: name and index; `unit` is history
  input,    \* s.config.Input, alike
  using,    \* the configuration the Supervisor was started with
  running,  \* the Supervisor has a session
  reading,  \* the device FFmpeg reads: "none" without FFmpeg, "silent" with anullsrc
  inPlace   \* history: when it was opened, the chosen device was at the index kept

source == <<kind, resolves>>
captureVars == <<source, at, moves, choices, saved, input, using, running, reading, inPlace>>

Listings ==
  {f \in [Units -> 0..Indices] : \A u, v \in Units : u # v /\ f[u] = f[v] => f[u] = 0}

Choice(u) == [name |-> NameOf[u], index |-> at[u], unit |-> u]

Nameless(u) == [Choice(u) EXCEPT !.name = "nameless"]
-----------------------------------------------------------------------------
(* Resolving a name *)

Matches(name) == {u \in Units : at[u] # 0 /\ NameOf[u] = name}

ResolveFirst(name, index) ==
  LET found == {at[u] : u \in Matches(name)}
  IN  IF found = {} THEN 0 ELSE CHOOSE i \in found : \A j \in found : i <= j

\* resolveAVFoundationDeviceIndex and its twin for v4l2: the one device of
\* that name, of several the one at the index kept, or 0, an error.
ResolveStrict(name, index) ==
  LET found == {at[u] : u \in Matches(name)}
  IN  CASE Cardinality(found) = 1 -> CHOOSE i \in found : TRUE
        [] index \in found -> index
        [] OTHER -> 0

\* The index that FFmpeg is given, or 0, an error.
Opened(c) == IF c.name = "nameless" \/ ~resolves THEN c.index ELSE ResolveStrict(c.name, c.index)

\* NewServer: the saved name is resolved, where an error leaves the index as it
\* is; a legacy camera without one gets that of the device at its index.
Booted(c) ==
  IF kind = "video" /\ c.name = "nameless" /\ \E u \in Units : at[u] = c.index
  THEN Choice(CHOOSE u \in Units : at[u] = c.index)
  ELSE [c EXCEPT !.index = IF Opened(c) = 0 THEN c.index ELSE Opened(c)]

CaptureInit ==
  /\ kind \in {"video", "audio"} /\ resolves \in BOOLEAN
  /\ at \in Listings /\ moves = 0 /\ choices = 0
  /\ \E u \in Units : at[u] # 0 /\ saved \in {Choice(u), Nameless(u)}
  /\ input = Booted(saved) /\ using = input
  /\ running = FALSE /\ reading = "none" /\ inPlace = FALSE
-----------------------------------------------------------------------------
Move ==
  /\ moves < MaxMoves
  /\ moves' = moves + 1
  /\ at' \in Listings \ {at}
  /\ UNCHANGED <<source, choices, saved, input, using, running, reading, inPlace>>

\* handleConfigUpdate; a camera saved without its name is rejected.
HandleConfigUpdate(u) ==
  /\ choices < MaxChoices /\ at[u] # 0
  /\ choices' = choices + 1
  /\ input' \in {Choice(u), Nameless(u)} /\ (kind = "video" => input'.name # "nameless")
  /\ saved' = input'
  /\ UNCHANGED <<source, at, moves, using, running, reading, inPlace>>

StartSession ==
  /\ ~running
  /\ running' = TRUE /\ using' = input
  /\ UNCHANGED <<source, at, moves, choices, saved, input, reading, inPlace>>

StopSession ==
  /\ running
  /\ running' = FALSE /\ reading' = "none"
  /\ UNCHANGED <<source, at, moves, choices, saved, input, using, inPlace>>

\* One round of the Supervisor's loop: without the device at its index it fails,
\* again and again; a name that is not found fails the camera, and makes the
\* microphone silence.
BuildInputs ==
  LET index == Opened(using)
  IN /\ running /\ reading = "none"
     /\ \/ /\ index # 0 /\ \E u \in Units : at[u] = index
           /\ reading' = CHOOSE u \in Units : at[u] = index
           /\ inPlace' = (at[using.unit] = using.index)
           /\ UNCHANGED running
        \/ /\ index = 0 /\ kind = "audio"
           /\ reading' = "silent"
           /\ UNCHANGED <<running, inPlace>>
        \/ /\ IF index = 0 THEN kind = "video" ELSE \A u \in Units : at[u] # index
           /\ running' = FALSE
           /\ UNCHANGED <<reading, inPlace>>
     /\ UNCHANGED <<source, at, moves, choices, saved, input, using>>

\* A crash of FFmpeg, a lost device, a restart that somebody asked for
FFmpegEnds ==
  /\ reading # "none"
  /\ reading' = "none"
  /\ UNCHANGED <<source, at, moves, choices, saved, input, using, running, inPlace>>

WatchIndex ==
  /\ reading = "silent" /\ \E u \in Units : at[u] = using.index
  /\ reading' = "none"
  /\ UNCHANGED <<source, at, moves, choices, saved, input, using, running, inPlace>>

\* The watcher knows the name and no index, and restarts FFmpeg.
WatchAudioRecovery ==
  /\ reading = "silent" /\ ResolveStrict(using.name, 0) # 0
  /\ reading' = "none"
  /\ UNCHANGED <<source, at, moves, choices, saved, input, using, running, inPlace>>

\* A boot reads the file, and does not write what it resolved back.
BootResolves ==
  /\ input' = Booted(saved)
  /\ running' = FALSE /\ reading' = "none"
  /\ UNCHANGED <<source, at, moves, choices, saved, using, inPlace>>
-----------------------------------------------------------------------------
CaptureNext ==
  \/ Move \/ \E u \in Units : HandleConfigUpdate(u)
  \/ StartSession \/ StopSession \/ BuildInputs \/ FFmpegEnds
  \/ WatchAudioRecovery \/ BootResolves

CaptureSpec == CaptureInit /\ [][CaptureNext]_captureVars

\* The Supervisor's goroutines run; devices and operators do as they please.
CaptureFairness == WF_captureVars(BuildInputs) /\ WF_captureVars(WatchAudioRecovery)

Choices == [name : {NameOf[u] : u \in Units} \cup {"nameless"}, index : 1..Indices, unit : Units]

\* Every variable has its type.
CaptureTypeOK ==
  /\ kind \in {"video", "audio"}
  /\ at \in Listings /\ moves \in 0..MaxMoves /\ choices \in 0..MaxChoices
  /\ {saved, input, using} \subseteq Choices
  /\ {resolves, running, inPlace} \subseteq BOOLEAN
  /\ reading \in Units \cup {"none", "silent"}

\* Where the choice has a name and the backend resolves it, FFmpeg reads a device
\* of that name, however the listing has changed since the choice, a reboot or a
\* restart of FFmpeg included; and the chosen device itself, not its twin, when
\* that is still at the index kept.  (A boot while only the twin is plugged in
\* keeps the twin's index.  What is opened at the index kept, a microphone
\* saved without its name among them, may be any device.)
RightSource ==
  reading \in Units /\ using.name # "nameless" /\ resolves =>
    NameOf[reading] = NameOf[using.unit] /\ (inPlace => reading = using.unit)

\* A stream comes to read its device, or back to it, once exactly one of that
\* name is plugged in, whatever index it came back at, without anybody touching
\* the stream, where names are resolved.  (With two microphones of one name
\* plugged in, the watcher, which knows no index, waits for ever.)
SourceReturns ==
  <>[](resolves /\ running /\ Cardinality(Matches(using.name)) = 1) => []<>(reading \in Units)
=============================================================================
