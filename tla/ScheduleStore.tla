---------------------------- MODULE ScheduleStore ----------------------------
(***************************************************************************)
(* internal/schedule/store.go: what the JSON-backed Store keeps for the    *)
(* scheduler, as a value, and what each method does to it.  An occurrence  *)
(* (one start time of a schedule or override, the eventKey) is an element  *)
(* of Events; the cron arithmetic that computes start times is in the      *)
(* constants Start, Length and Lead.                                       *)
(***************************************************************************)
EXTENDS Integers

CONSTANTS
  Events,   \* event keys: occurrences of schedules and overrides
  Owners,   \* ids of schedules and overrides
  Owner,    \* Owner[e]: the schedule or override that e is an occurrence of
  Start,    \* Start[e], Length[e]: start time and DurationMin of e
  Length,
  Lead      \* Lead[e]: PrepLeadMinutes of e, as it is in the file

ASSUME EventsAssumption ==
  /\ Owner \in [Events -> Owners]
  /\ Start \in [Events -> Nat]
  /\ Length \in [Events -> Nat \ {0}]
  /\ Lead \in [Events -> Int]

NoBroadcast == 0
Never == 0

End(e) == Start[e] + Length[e]

\* storeData: the occurrences its schedules and overrides yield, Broadcasts and
\* Skipped.  Streams follows Broadcasts entry by entry.
Loaded(occurrences) ==
  [present |-> occurrences,
   mapped  |-> [e \in Events |-> NoBroadcast],
   skip    |-> [e \in Events |-> Never]]

Stores(Broadcasts, Times) ==
  [present : SUBSET Events,
   mapped  : [Events -> Broadcasts \cup {NoBroadcast}],
   skip    : [Events -> Times]]

SetBroadcastIDUnkeyed(st, e, b) == [st EXCEPT !.mapped = [f \in Events |-> b]]

SetBroadcastID(st, e, b) == [st EXCEPT !.mapped[e] = b]

ClearBroadcast(st, e) == [st EXCEPT !.mapped[e] = NoBroadcast]

\* A stopped occurrence is suppressed until its window has passed.
SkipEventUntilNow(st, e, until) == [st EXCEPT !.mapped[e] = NoBroadcast]

SkipEvent(st, e, until) ==
  [st EXCEPT !.skip[e] = until, !.mapped[e] = NoBroadcast]

\* Update, delete or disable a schedule or override: its occurrences become
\* `occurrences`, and clearBroadcastsForIDLocked drops what the store held for it.
Replace(st, id, occurrences) ==
  [present |-> {e \in st.present : Owner[e] # id} \cup occurrences,
   mapped  |-> [e \in Events |-> IF Owner[e] = id THEN NoBroadcast ELSE st.mapped[e]],
   skip    |-> [e \in Events |-> IF Owner[e] = id THEN Never ELSE st.skip[e]]]

\* (SetBroadcastIDUnkeyed, SkipEventUntilNow and NextEventsUnfiltered are plausible
\* slips, not part of the specification: they show what a property guards.)
NextEventsUnfiltered(st, after) == {e \in st.present : End(e) >= after}

\* The occurrences a tick at time `after` looks at.  The 14-day horizon and the
\* limit of ten only hide occurrences that are not due.
NextEvents(st, after) ==
  {e \in st.present : End(e) >= after /\ ~(st.skip[e] > after)}
=============================================================================
