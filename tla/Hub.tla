-------------------------------- MODULE Hub --------------------------------
(***************************************************************************)
(* internal/app/hub.go and events.go: how a change of the server's state   *)
(* reaches the browsers.  A publisher takes a snapshot, copies the set of  *)
(* subscribers, stores the snapshot with each and signals it; a reader     *)
(* subscribes, writes an initial snapshot, and then drains and writes what *)
(* is stored whenever it is signalled.  Snapshots are version numbers, and *)
(* there is one topic: topics share nothing but the signal.  Heartbeats    *)
(* and the encoding of events are left out.                                *)
(***************************************************************************)
EXTENDS Naturals, FiniteSets

CONSTANTS
  Readers,         \* browsers' event streams
  Publishers,      \* goroutines that change the state and publish it
  Closer,          \* Server.Close
  MaxSubscribers,
  MaxVersion       \* bound: changes of the state

ASSUME HubAssumption ==
  /\ MaxSubscribers \in Nat /\ MaxVersion \in Nat \ {0}
  /\ Closer \notin Publishers
  /\ {"idle", "changed", "publish", "store", "close"} \cap Readers = {}

VARIABLES
  version,    \* the server's state
  hubClosed,
  subs,       \* h.subs
  latest,     \* latest[r]: the snapshot stored with r, or 0
  wakeup,     \* wakeup[r]: the one-slot channel holds a signal
  subClosed,  \* subClosed[r]: r's sub.closed
  reader,     \* reader[r]: where r's handler is
  frame,      \* frame[r]: the snapshot it is about to write, or 0
  shown,      \* shown[r]: what the browser shows
  publisher,  \* publisher[p]: where p is
  snapshot,   \* snapshot[p]: the payload p publishes
  rest,       \* rest[p]: the subscribers p has still to serve
  crossed     \* history: the last snapshot was taken while another was in hand

hubVars == <<version, hubClosed, subs, latest, wakeup, subClosed, reader, frame, shown, publisher,
             snapshot, rest, crossed>>

HubProcesses == Publishers \cup {Closer}

HubInit ==
  /\ version = 1 /\ hubClosed = FALSE /\ subs = {}
  /\ latest = [r \in Readers |-> 0]
  /\ wakeup = [r \in Readers |-> FALSE]
  /\ subClosed = [r \in Readers |-> FALSE]
  /\ reader = [r \in Readers |-> "away"]
  /\ frame = [r \in Readers |-> 0]
  /\ shown = [r \in Readers |-> 0]
  /\ publisher = [p \in HubProcesses |-> "idle"]
  /\ snapshot = [p \in HubProcesses |-> 0]
  /\ rest = [p \in HubProcesses |-> {}]
  /\ crossed = FALSE

Moves(p, point) == publisher' = [publisher EXCEPT ![p] = point]
-----------------------------------------------------------------------------
(* Publishers: any change is followed by publishState *)

Change(p) ==
  /\ publisher[p] = "idle" /\ version < MaxVersion
  /\ version' = version + 1
  /\ Moves(p, "changed")
  /\ UNCHANGED <<hubClosed, subs, latest, wakeup, subClosed, reader, frame, shown, snapshot, rest, crossed>>

TakeSnapshot(p) ==
  /\ publisher[p] = "changed"
  /\ snapshot' = [snapshot EXCEPT ![p] = version]
  /\ crossed' = \E q \in Publishers \ {p} : publisher[q] \notin {"idle", "changed"}
  /\ Moves(p, "publish")
  /\ UNCHANGED <<version, hubClosed, subs, latest, wakeup, subClosed, reader, frame, shown, rest>>

CollectUnsignalled(p) ==
  /\ publisher[p] = "publish"
  /\ rest' = [rest EXCEPT ![p] = IF hubClosed THEN {} ELSE {r \in subs : ~wakeup[r]}]
  /\ Moves(p, "store")
  /\ UNCHANGED <<version, hubClosed, subs, latest, wakeup, subClosed, reader, frame, shown, snapshot, crossed>>

Collect(p) ==
  /\ publisher[p] = "publish"
  /\ rest' = [rest EXCEPT ![p] = IF hubClosed THEN {} ELSE subs]
  /\ Moves(p, "store")
  /\ UNCHANGED <<version, hubClosed, subs, latest, wakeup, subClosed, reader, frame, shown, snapshot, crossed>>

\* The order a map is ranged over is any order.
Store(p) ==
  /\ publisher[p] = "store"
  /\ \E r \in rest[p] :
       IF subClosed[r]
       THEN /\ rest' = [rest EXCEPT ![p] = @ \ {r}]
            /\ UNCHANGED <<latest, publisher>>
       ELSE /\ latest' = [latest EXCEPT ![r] = snapshot[p]]
            /\ rest' = [rest EXCEPT ![p] = @ \ {r}]
            /\ publisher' = [publisher EXCEPT ![p] = r]
  /\ UNCHANGED <<version, hubClosed, subs, wakeup, subClosed, reader, frame, shown, snapshot, crossed>>

\* The signal is dropped when one is pending.
Signal(p) ==
  /\ publisher[p] \in Readers
  /\ wakeup' = [wakeup EXCEPT ![publisher[p]] = TRUE]
  /\ Moves(p, IF p = Closer THEN "close" ELSE "store")
  /\ UNCHANGED <<version, hubClosed, subs, latest, subClosed, reader, frame, shown, snapshot, rest, crossed>>

Published(p) ==
  /\ publisher[p] = "store" /\ rest[p] = {}
  /\ Moves(p, "idle")
  /\ snapshot' = [snapshot EXCEPT ![p] = 0]
  /\ UNCHANGED <<version, hubClosed, subs, latest, wakeup, subClosed, reader, frame, shown, rest, crossed>>
-----------------------------------------------------------------------------
(* hub.Close *)

CloseHub ==
  /\ ~hubClosed
  /\ hubClosed' = TRUE
  /\ rest' = [rest EXCEPT ![Closer] = subs]
  /\ Moves(Closer, "close")
  /\ UNCHANGED <<version, subs, latest, wakeup, subClosed, reader, frame, shown, snapshot, crossed>>

CloseSubSilently ==
  /\ publisher[Closer] = "close"
  /\ \E r \in rest[Closer] :
       /\ subClosed' = [subClosed EXCEPT ![r] = TRUE]
       /\ rest' = [rest EXCEPT ![Closer] = @ \ {r}]
  /\ UNCHANGED <<version, hubClosed, subs, latest, wakeup, reader, frame, shown, publisher, snapshot, crossed>>

CloseSub ==
  /\ publisher[Closer] = "close"
  /\ \E r \in rest[Closer] :
       /\ subClosed' = [subClosed EXCEPT ![r] = TRUE]
       /\ rest' = [rest EXCEPT ![Closer] = @ \ {r}]
       /\ Moves(Closer, r)
  /\ UNCHANGED <<version, hubClosed, subs, latest, wakeup, reader, frame, shown, snapshot, crossed>>
-----------------------------------------------------------------------------
(* handleEventStream *)

Reads(r, point) == reader' = [reader EXCEPT ![r] = point]

Subscribe(r) ==
  /\ reader[r] = "away"
  /\ ~hubClosed /\ Cardinality(subs) < MaxSubscribers
  /\ subs' = subs \cup {r}
  /\ latest' = [latest EXCEPT ![r] = 0]
  /\ wakeup' = [wakeup EXCEPT ![r] = FALSE]
  /\ Reads(r, "subscribed")
  /\ UNCHANGED <<version, hubClosed, subClosed, frame, shown, publisher, snapshot, rest, crossed>>

\* subscribe returned nil: 503
Reject(r) ==
  /\ reader[r] = "away"
  /\ hubClosed \/ Cardinality(subs) >= MaxSubscribers
  /\ Reads(r, "left")
  /\ UNCHANGED <<version, hubClosed, subs, latest, wakeup, subClosed, frame, shown, publisher, snapshot, rest, crossed>>

InitialSnapshot(r) ==
  /\ reader[r] = "subscribed"
  /\ frame' = [frame EXCEPT ![r] = version]
  /\ Reads(r, "write")
  /\ UNCHANGED <<version, hubClosed, subs, latest, wakeup, subClosed, shown, publisher, snapshot, rest, crossed>>

\* Each wait of the loop is for the signal (heartbeats aside).
Drain(r) ==
  /\ reader[r] = "wait" /\ wakeup[r]
  /\ wakeup' = [wakeup EXCEPT ![r] = FALSE]
  /\ IF subClosed[r]
     THEN Reads(r, "leave") /\ UNCHANGED <<latest, frame>>
     ELSE /\ frame' = [frame EXCEPT ![r] = latest[r]]
          /\ latest' = [latest EXCEPT ![r] = 0]
          /\ Reads(r, "write")
  /\ UNCHANGED <<version, hubClosed, subs, subClosed, shown, publisher, snapshot, rest, crossed>>

Write(r) ==
  /\ reader[r] = "write"
  /\ shown' = [shown EXCEPT ![r] = IF frame[r] = 0 THEN @ ELSE frame[r]]
  /\ frame' = [frame EXCEPT ![r] = 0]
  /\ Reads(r, "wait")
  /\ UNCHANGED <<version, hubClosed, subs, latest, wakeup, subClosed, publisher, snapshot, rest, crossed>>

\* The tab is closed, or a write missed its deadline.
Disconnect(r) ==
  /\ reader[r] \in {"subscribed", "write", "wait"}
  /\ frame' = [frame EXCEPT ![r] = 0]
  /\ Reads(r, "leave")
  /\ UNCHANGED <<version, hubClosed, subs, latest, wakeup, subClosed, shown, publisher, snapshot, rest, crossed>>

\* The deferred unsubscribe; nobody waits for the signal it sends.
Unsubscribe(r) ==
  /\ reader[r] = "leave"
  /\ subs' = subs \ {r}
  /\ subClosed' = [subClosed EXCEPT ![r] = TRUE]
  /\ Reads(r, "left")
  /\ UNCHANGED <<version, hubClosed, latest, wakeup, frame, shown, publisher, snapshot, rest, crossed>>
-----------------------------------------------------------------------------
PublisherStep(p) == TakeSnapshot(p) \/ Collect(p) \/ Store(p) \/ Signal(p) \/ Published(p)
ReaderStep(r) == InitialSnapshot(r) \/ Drain(r) \/ Write(r) \/ Unsubscribe(r)

HubNext ==
  \/ \E p \in Publishers : Change(p) \/ PublisherStep(p)
  \/ CloseHub \/ CloseSub \/ Signal(Closer)
  \/ \E r \in Readers : Subscribe(r) \/ Reject(r) \/ Disconnect(r) \/ ReaderStep(r)

HubSpec == HubInit /\ [][HubNext]_hubVars

\* Every variable has its type.
HubTypeOK ==
  /\ version \in 1..MaxVersion
  /\ {hubClosed, crossed} \subseteq BOOLEAN
  /\ subs \subseteq Readers /\ Cardinality(subs) <= MaxSubscribers
  /\ latest \in [Readers -> 0..MaxVersion]
  /\ wakeup \in [Readers -> BOOLEAN] /\ subClosed \in [Readers -> BOOLEAN]
  /\ reader \in [Readers -> {"away", "subscribed", "write", "wait", "leave", "left"}]
  /\ frame \in [Readers -> 0..MaxVersion] /\ shown \in [Readers -> 0..MaxVersion]
  /\ publisher \in [HubProcesses -> {"idle", "changed", "publish", "store", "close"} \cup Readers]
  /\ snapshot \in [HubProcesses -> 0..MaxVersion]
  /\ rest \in [HubProcesses -> SUBSET Readers]

\* When every change has been published and a browser has nothing left to
\* write, it shows the state as it is: no signal is lost between the store and
\* the drain, none between the subscription and the initial snapshot, and no
\* older snapshot overtakes a newer one.  Two publishers that have a snapshot
\* in hand at the same time are excused, there the older one may come last,
\* until the next snapshot that is taken alone.
NewestShown ==
  ~crossed /\ ~hubClosed /\ (\A p \in Publishers : publisher[p] = "idle") =>
    \A r \in Readers : reader[r] = "wait" /\ ~wakeup[r] => shown[r] = version

\* Once the hub is closed every event stream ends: no handler stays with a
\* browser that is connected.  (Server.Shutdown waits for the handlers before it
\* closes the hub; that order is not what this speaks of.)
ReadersLeave == hubClosed ~> \A r \in Readers : reader[r] \in {"away", "left"}
=============================================================================
