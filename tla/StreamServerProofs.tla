------------------------- MODULE StreamServerProofs -------------------------
(***************************************************************************)
(* Proofs about StreamServer, for any number of clients, broadcasts,       *)
(* requests and upsets.  What a process has still to do is a sequence of   *)
(* calls; the proofs see of it only which calls it has, and in what order, *)
(* through three operators and what Tail and \o do to them.                *)
(***************************************************************************)
EXTENDS StreamServer, SequenceTheorems, TLAPS

-----------------------------------------------------------------------------
(* Words: sequences of calls *)

\* The calls of a request that takes the stream off the air, and those of one
\* that puts it on.
Undoing ==
  {"stopActive", "cancelBroadcast", "cancel", "halt", "unblock", "unmark", "disown", "complete", "forget", "detach"}
Doings == {"adopt", "block", "start", "mark", "air", "cancel", "launch"}
Names == Undoing \cup Doings \cup {"create", "resume"}

Args == {None} \cup Broadcasts
Calls == [do : Names, b : Args]
Words == Seq(Calls)

Has(w, X) == \E i \in 1..Len(w) : w[i].do \in X
Only(w, X) == \A i \in 1..Len(w) : w[i].do \in X

\* Every X of w has a Y before it.
Preceded(w, X, Y) == \A i \in 1..Len(w) : w[i].do \in X => \E j \in 1..(i - 1) : w[j].do \in Y

\* Every X of w has a Y after it.
Followed(w, X, Y) == \A i \in 1..Len(w) : w[i].do \in X => \E j \in (i + 1)..Len(w) : w[j].do \in Y

LEMMA EmptyWord ==
  /\ <<>> \in Words
  /\ \A X, Y : ~Has(<<>>, X) /\ Only(<<>>, X) /\ Preceded(<<>>, X, Y) /\ Followed(<<>>, X, Y)
  BY EmptySeq DEF Words, Has, Only, Preceded, Followed

LEMMA TailWord ==
  ASSUME NEW w \in Words, w # <<>>
  PROVE  /\ Tail(w) \in Words /\ Head(w) \in Calls
         /\ \A X : Has(w, X) <=> Head(w).do \in X \/ Has(Tail(w), X)
         /\ \A X : Only(w, X) <=> Head(w).do \in X /\ Only(Tail(w), X)
         /\ \A X, Y : Preceded(w, X, Y) =>
              (Head(w).do \in X => FALSE) /\ (Head(w).do \notin Y => Preceded(Tail(w), X, Y))
         /\ \A X, Y : Followed(w, X, Y) =>
              Followed(Tail(w), X, Y) /\ (Head(w).do \in X => Has(Tail(w), Y))
<1> DEFINE t == Tail(w)
<1>1. /\ t \in Words /\ Head(w) \in Calls /\ Head(w) = w[1]
      /\ Len(w) \in Nat \ {0} /\ Len(t) = Len(w) - 1
      /\ \A i \in 1..Len(t) : t[i] = w[i + 1]
  BY HeadTailProperties, EmptySeq, LenProperties DEF Words
<1> HIDE DEF t
<1>2. ASSUME NEW X PROVE Has(w, X) <=> Head(w).do \in X \/ Has(t, X)
  <2>1. ASSUME NEW i \in 1..Len(w), w[i].do \in X, i # 1 PROVE Has(t, X)
    <3>1. i - 1 \in 1..Len(t) /\ t[i - 1] = w[i]
      BY <1>1, <2>1
    <3>2. QED
      BY <2>1, <3>1 DEF Has
  <2>2. ASSUME NEW i \in 1..Len(t), t[i].do \in X PROVE Has(w, X)
    <3>1. i + 1 \in 1..Len(w) /\ w[i + 1] = t[i]
      BY <1>1
    <3>2. QED
      BY <2>2, <3>1 DEF Has
  <2>3. Head(w).do \in X => Has(w, X)
    BY <1>1 DEF Has
  <2>4. QED
    BY <1>1, <2>1, <2>2, <2>3 DEF Has
<1>3. ASSUME NEW X PROVE Only(w, X) <=> Head(w).do \in X /\ Only(t, X)
  <2>1. ASSUME Only(w, X), NEW i \in 1..Len(t) PROVE t[i].do \in X
    BY <1>1, <2>1 DEF Only
  <2>2. ASSUME Only(t, X), Head(w).do \in X, NEW i \in 1..Len(w) PROVE w[i].do \in X
    <3>1. i = 1 \/ (i - 1 \in 1..Len(t) /\ t[i - 1] = w[i])
      BY <1>1
    <3>2. QED
      BY <1>1, <2>2, <3>1 DEF Only
  <2>3. QED
    BY <1>1, <2>1, <2>2 DEF Only
<1>4. ASSUME NEW X, NEW Y, Preceded(w, X, Y)
      PROVE  ~(Head(w).do \in X) /\ (Head(w).do \notin Y => Preceded(t, X, Y))
  <2>1. ~(Head(w).do \in X)
    BY <1>1, <1>4 DEF Preceded
  <2>2. ASSUME Head(w).do \notin Y, NEW i \in 1..Len(t), t[i].do \in X
        PROVE  \E j \in 1..(i - 1) : t[j].do \in Y
    <3>1. i + 1 \in 1..Len(w) /\ w[i + 1].do \in X
      BY <1>1, <2>2
    <3>2. PICK j \in 1..i : w[j].do \in Y
      BY <1>4, <3>1 DEF Preceded
    <3>3. j # 1 /\ j - 1 \in 1..(i - 1) /\ j - 1 \in 1..Len(t) /\ t[j - 1] = w[j]
      BY <1>1, <2>2, <3>2
    <3>4. QED
      BY <3>2, <3>3
  <2>3. QED
    BY <2>1, <2>2 DEF Preceded
<1>5. ASSUME NEW X, NEW Y, Followed(w, X, Y)
      PROVE  Followed(t, X, Y) /\ (Head(w).do \in X => Has(t, Y))
  <2>1. ASSUME NEW i \in 1..Len(w), w[i].do \in X
        PROVE  \E j \in 1..Len(t) : j >= i /\ t[j].do \in Y
    <3>1. PICK j \in (i + 1)..Len(w) : w[j].do \in Y
      BY <1>5, <2>1 DEF Followed
    <3>2. j - 1 \in 1..Len(t) /\ j - 1 >= i /\ t[j - 1] = w[j]
      BY <1>1, <3>1
    <3>3. QED
      BY <3>1, <3>2
  <2>2. ASSUME NEW i \in 1..Len(t), t[i].do \in X
        PROVE  \E j \in (i + 1)..Len(t) : t[j].do \in Y
    <3>1. i + 1 \in 1..Len(w) /\ w[i + 1].do \in X
      BY <1>1, <2>2
    <3>2. PICK j \in 1..Len(t) : j >= i + 1 /\ t[j].do \in Y
      BY <2>1, <3>1
    <3>3. QED
      BY <3>2
  <2>3. Head(w).do \in X => Has(t, Y)
    BY <1>1, <2>1 DEF Has
  <2>4. QED
    BY <2>2, <2>3 DEF Followed
<1>6. QED
  BY <1>1, <1>2, <1>3, <1>4, <1>5 DEF t

LEMMA CatWord ==
  ASSUME NEW v \in Words, NEW w \in Words
  PROVE  /\ v \o w \in Words
         /\ v \o w = <<>> <=> v = <<>> /\ w = <<>>
         /\ \A X : Has(v \o w, X) <=> Has(v, X) \/ Has(w, X)
         /\ \A X : Only(v \o w, X) <=> Only(v, X) /\ Only(w, X)
         /\ \A X, Y : Preceded(v, X, Y) /\ (Preceded(w, X, Y) \/ Has(v, Y)) => Preceded(v \o w, X, Y)
         /\ \A X, Y : (Followed(v, X, Y) \/ Has(w, Y)) /\ Followed(w, X, Y) => Followed(v \o w, X, Y)
<1> DEFINE c == v \o w
<1>1. /\ c \in Words /\ Len(v) \in Nat /\ Len(w) \in Nat /\ Len(c) = Len(v) + Len(w)
      /\ \A i \in 1..Len(c) : c[i] = IF i <= Len(v) THEN v[i] ELSE w[i - Len(v)]
  BY ConcatProperties, LenProperties DEF Words
<1>2. c = <<>> <=> v = <<>> /\ w = <<>>
  BY ConcatEqualIffEmpty DEF Words
<1> HIDE DEF c
<1>3. \A i \in 1..Len(v) : i \in 1..Len(c) /\ c[i] = v[i]
  BY <1>1
<1>4. \A i \in 1..Len(w) : i + Len(v) \in 1..Len(c) /\ c[i + Len(v)] = w[i]
  BY <1>1
<1>5. ASSUME NEW i \in 1..Len(c)
      PROVE  \/ i \in 1..Len(v) /\ c[i] = v[i]
             \/ i - Len(v) \in 1..Len(w) /\ c[i] = w[i - Len(v)]
  <2>1. i <= Len(v) => i \in 1..Len(v)
    BY <1>1
  <2>2. ~(i <= Len(v)) => i - Len(v) \in 1..Len(w)
    BY <1>1
  <2>3. QED
    BY <1>1, <2>1, <2>2
<1>6. ASSUME NEW X PROVE Has(c, X) <=> Has(v, X) \/ Has(w, X)
  <2>1. Has(c, X) => Has(v, X) \/ Has(w, X)
    BY <1>5 DEF Has
  <2>2. Has(v, X) => Has(c, X)
    BY <1>3 DEF Has
  <2>3. Has(w, X) => Has(c, X)
    BY <1>4 DEF Has
  <2>4. QED
    BY <2>1, <2>2, <2>3
<1>7. ASSUME NEW X PROVE Only(c, X) <=> Only(v, X) /\ Only(w, X)
  <2>1. Only(c, X) => Only(v, X)
    BY <1>3 DEF Only
  <2>2. Only(c, X) => Only(w, X)
    BY <1>4 DEF Only
  <2>3. Only(v, X) /\ Only(w, X) => Only(c, X)
    BY <1>5 DEF Only
  <2>4. QED
    BY <2>1, <2>2, <2>3
<1>8. ASSUME NEW X, NEW Y, Preceded(v, X, Y), Preceded(w, X, Y) \/ Has(v, Y) PROVE Preceded(c, X, Y)
  <2> SUFFICES ASSUME NEW i \in 1..Len(c), c[i].do \in X PROVE \E j \in 1..(i - 1) : c[j].do \in Y
    BY DEF Preceded
  <2>1. CASE i \in 1..Len(v)
    <3>1. PICK j \in 1..(i - 1) : v[j].do \in Y
      BY <1>3, <1>8, <2>1 DEF Preceded
    <3>2. j \in 1..Len(v)
      BY <1>1, <2>1
    <3>3. QED
      BY <1>3, <3>1, <3>2
  <2>2. CASE i - Len(v) \in 1..Len(w) /\ c[i] = w[i - Len(v)]
    <3>1. CASE Has(v, Y)
      <4>1. PICK j \in 1..Len(v) : v[j].do \in Y
        BY <3>1 DEF Has
      <4>2. j \in 1..(i - 1)
        BY <1>1, <2>2
      <4>3. QED
        BY <1>3, <4>1, <4>2
    <3>2. CASE Preceded(w, X, Y)
      <4>1. PICK j \in 1..(i - Len(v) - 1) : w[j].do \in Y
        BY <2>2, <3>2 DEF Preceded
      <4>2. j \in 1..Len(w) /\ j + Len(v) \in 1..(i - 1)
        BY <1>1, <2>2
      <4>3. QED
        BY <1>4, <4>1, <4>2
    <3>3. QED
      BY <1>8, <3>1, <3>2
  <2>3. QED
    BY <1>5, <2>1, <2>2
<1>9. ASSUME NEW X, NEW Y, Followed(v, X, Y) \/ Has(w, Y), Followed(w, X, Y) PROVE Followed(c, X, Y)
  <2> SUFFICES ASSUME NEW i \in 1..Len(c), c[i].do \in X PROVE \E j \in (i + 1)..Len(c) : c[j].do \in Y
    BY DEF Followed
  <2>1. CASE i \in 1..Len(v) /\ Followed(v, X, Y)
    <3>1. PICK j \in (i + 1)..Len(v) : v[j].do \in Y
      BY <1>3, <2>1 DEF Followed
    <3>2. j \in 1..Len(v) /\ j \in (i + 1)..Len(c)
      BY <1>1, <2>1
    <3>3. QED
      BY <1>3, <3>1, <3>2
  <2>2. CASE i \in 1..Len(v) /\ Has(w, Y)
    <3>1. PICK j \in 1..Len(w) : w[j].do \in Y
      BY <2>2 DEF Has
    <3>2. j + Len(v) \in (i + 1)..Len(c)
      BY <1>1, <2>2
    <3>3. QED
      BY <1>4, <3>1, <3>2
  <2>3. CASE i - Len(v) \in 1..Len(w) /\ c[i] = w[i - Len(v)]
    <3>1. PICK j \in (i - Len(v) + 1)..Len(w) : w[j].do \in Y
      BY <1>9, <2>3 DEF Followed
    <3>2. j \in 1..Len(w) /\ j + Len(v) \in (i + 1)..Len(c)
      BY <1>1, <2>3
    <3>3. QED
      BY <1>4, <3>1, <3>2
  <2>4. QED
    BY <1>5, <1>9, <2>1, <2>2, <2>3
<1>10. QED
  BY <1>1, <1>2, <1>6, <1>7, <1>8, <1>9 DEF c

-----------------------------------------------------------------------------
(* Types *)

\* The word of a process that serves r.
Legal(r, w) ==
  \/ Only(w, Undoing)
  \/ r \in Starting /\ Only(w, Doings) /\ (Has(w, {"mark"}) => r # "resume")
  \/ r = "go-live-now" /\ Only(w, Undoing \cup {"create"})
  \/ r = "resume" /\ Only(w, {"resume"})

Statuses == {"none", "bound", "testing", "live", "complete"}
Phases == {"none", "testing", "asked testing", "live", "asked live", "done"}
Requests == Starting \cup {"none", "stop", "complete", "end"}

\* TypeOK one by one, and the words.
Typed ==
  /\ stream \in {Off, None} \cup Broadcasts
  /\ blocked \in BOOLEAN
  /\ config \in Args /\ activeB \in Args /\ airing \in Args /\ handle \in Args
  /\ intent \in Intents \cup {NoIntent}
  /\ waiting \subseteq Scheduled
  /\ yt \in [Broadcasts -> Statuses]
  /\ phase \in [Broadcasts -> Phases]
  /\ cancelled \subseteq Broadcasts /\ ending \subseteq Broadcasts
  /\ request \in [Processes -> Requests]
  /\ raced \subseteq Processes
  /\ todo \in [Processes -> Words]

Counted == asked \in 0..MaxRequests /\ upsets \in 0..MaxUpsets

Worded == \A p \in Processes : Legal(request[p], todo[p])

\* A process that has nothing to do serves nothing; the boot keeps its name.
Settled == \A p \in Processes : ~Busy(p) => request[p] \in {"none", "resume"}

\* Two requests at once, one of them a starting one, have been noticed.
Noticed ==
  \A p, q \in Processes :
    p # q /\ Busy(p) /\ Busy(q) /\ request[p] \in Starting =>
      p \in raced /\ q \in raced /\ "raced" \in marred

TypeInv == Typed /\ Counted /\ Worded /\ Settled /\ Noticed

LEMMA OnlyWord ==
  ASSUME NEW w, NEW Z, Only(w, Z)
  PROVE  /\ \A X : Z \cap X = {} => ~Has(w, X) /\ (\A Y : Preceded(w, X, Y) /\ Followed(w, X, Y))
         /\ \A X : Z \subseteq X => Only(w, X)
  BY DEF Only, Has, Preceded, Followed

\* The words that requests start with, or turn to.
Broadcasting(b) ==
  <<Call("adopt", b), Call("block", None), Call("start", b), Call("mark", b)>> \o Launching(b)
Airing(b) ==
  <<Call("adopt", b), Call("block", None), Call("start", b), Call("mark", b), Call("air", b)>> \o Launching(b)
Resuming(i) == <<Call("block", None), Call("start", i.to)>> \o Relaunching(i)

LEMMA UndoingWords ==
  ASSUME NEW b \in Args
  PROVE  /\ \A w \in {StopRequest(b), CompleteActive(b), StopActiveEvent(b)} :
              w \in Words /\ w # <<>> /\ Only(w, Undoing)
         /\ Takeover(b) \in Words /\ Only(Takeover(b), Undoing)
         /\ Completing(b) \in Words /\ Only(Completing(b), {"complete"})
         /\ (b # None => Completing(b) # <<>>)
<1>1. StopRequest(b) \in Words /\ StopRequest(b) # <<>> /\ Only(StopRequest(b), Undoing)
  BY DEF StopRequest, Call, Words, Calls, Names, Undoing, Args, Only
<1>2. CompleteActive(b) \in Words /\ CompleteActive(b) # <<>> /\ Only(CompleteActive(b), Undoing)
  BY DEF CompleteActive, Call, Words, Calls, Names, Undoing, Args, Only
<1>3. Takeover(b) \in Words /\ Only(Takeover(b), Undoing)
  <2>1. LET w == <<Call("halt", None), Call("unblock", None), Call("cancel", None), Call("complete", b),
                   Call("disown", None), Call("unmark", None)>>
        IN  w \in Words /\ Only(w, Undoing)
    BY DEF Call, Words, Calls, Names, Undoing, Args, Only
  <2>2. QED
    BY <2>1, EmptyWord DEF Takeover
<1>4. /\ Completing(b) \in Words /\ Only(Completing(b), {"complete"})
      /\ (b # None => Completing(b) # <<>>)
  <2>1. LET w == <<Call("complete", b)>> IN w \in Words /\ w # <<>> /\ Only(w, {"complete"})
    BY DEF Call, Words, Calls, Names, Undoing, Args, Only
  <2>2. QED
    BY <2>1, EmptyWord DEF Completing
<1>5. Only(Completing(b), Undoing)
  BY <1>4 DEF Only, Undoing
<1>6. StopStream \in Words /\ Only(StopStream, Undoing)
  BY DEF StopStream, Call, Words, Calls, Names, Undoing, Args, Only
<1>7. /\ <<Call("cancelBroadcast", None)>> \in Words /\ <<Call("cancelBroadcast", None)>> # <<>>
      /\ Only(<<Call("cancelBroadcast", None)>>, Undoing)
      /\ <<Call("forget", None)>> \in Words /\ Only(<<Call("forget", None)>>, Undoing)
  BY DEF Call, Words, Calls, Names, Undoing, Args, Only
<1>8. LET w == <<Call("cancelBroadcast", None)>> \o StopStream
      IN  w \in Words /\ w # <<>> /\ Only(w, Undoing)
  BY <1>6, <1>7, CatWord
<1>9. LET w == <<Call("cancelBroadcast", None)>> \o StopStream \o Completing(b)
      IN  w \in Words /\ w # <<>> /\ Only(w, Undoing)
  BY <1>4, <1>5, <1>8, CatWord
<1>10. StopActiveEvent(b) \in Words /\ StopActiveEvent(b) # <<>> /\ Only(StopActiveEvent(b), Undoing)
  BY <1>7, <1>9, CatWord DEF StopActiveEvent
<1>11. QED
  BY <1>1, <1>2, <1>3, <1>4, <1>10

LEMMA StartingWords ==
  ASSUME NEW b \in Args
  PROVE  /\ \A w \in {Broadcasting(b), Airing(b), <<Call("block", None), Call("start", b), Call("mark", None)>>} :
              w \in Words /\ w # <<>> /\ Only(w, Doings)
         /\ \A i \in Intents \cup {NoIntent} :
              Resuming(i) \in Words /\ Resuming(i) # <<>> /\ Only(Resuming(i), Doings) /\ ~Has(Resuming(i), {"mark"})
<1>1. Launching(b) \in Words /\ Only(Launching(b), Doings) /\ ~Has(Launching(b), {"mark"})
  BY DEF Launching, Call, Words, Calls, Names, Doings, Args, Only, Has
<1>2. LET w == <<Call("adopt", b), Call("block", None), Call("start", b), Call("mark", b)>>
      IN  w \in Words /\ w # <<>> /\ Only(w, Doings)
  BY DEF Call, Words, Calls, Names, Doings, Args, Only
<1>3. LET w == <<Call("adopt", b), Call("block", None), Call("start", b), Call("mark", b), Call("air", b)>>
      IN  w \in Words /\ w # <<>> /\ Only(w, Doings)
  BY DEF Call, Words, Calls, Names, Doings, Args, Only
<1>4. Broadcasting(b) \in Words /\ Broadcasting(b) # <<>> /\ Only(Broadcasting(b), Doings)
  BY <1>1, <1>2, CatWord DEF Broadcasting
<1>5. Airing(b) \in Words /\ Airing(b) # <<>> /\ Only(Airing(b), Doings)
  BY <1>1, <1>3, CatWord DEF Airing
<1>6. LET w == <<Call("block", None), Call("start", b), Call("mark", None)>>
      IN  w \in Words /\ w # <<>> /\ Only(w, Doings)
  BY DEF Call, Words, Calls, Names, Doings, Args, Only
<1>7. ASSUME NEW i \in Intents \cup {NoIntent}
      PROVE  Resuming(i) \in Words /\ Resuming(i) # <<>> /\ Only(Resuming(i), Doings) /\ ~Has(Resuming(i), {"mark"})
  <2>1. i.to \in Args /\ i.b \in Args
    BY DEF Intents, NoIntent, Args
  <2>2. LET w == <<Call("block", None), Call("start", i.to)>>
        IN  w \in Words /\ w # <<>> /\ Only(w, Doings) /\ ~Has(w, {"mark"})
    BY <2>1 DEF Call, Words, Calls, Names, Doings, Args, Only, Has
  <2>3. LET w == Launching(i.b) IN w \in Words /\ Only(w, Doings) /\ ~Has(w, {"mark"})
    BY <2>1 DEF Launching, Call, Words, Calls, Names, Doings, Args, Only, Has
  <2>4. Relaunching(i) \in Words /\ Only(Relaunching(i), Doings) /\ ~Has(Relaunching(i), {"mark"})
    BY <2>3, EmptyWord DEF Relaunching
  <2>5. QED
    BY <2>2, <2>4, CatWord DEF Resuming
<1>8. QED
  BY <1>4, <1>5, <1>6, <1>7

LEMMA RefusalWord ==
  ASSUME NEW r
  PROVE  Refusal(r) \in Words /\ Refusal(r) # <<>> /\ Only(Refusal(r), {"disown", "unblock", "unmark"})
<1> DEFINE a == IF r \in {"scheduled", "go-live-now"} THEN <<Call("disown", None)>> ELSE <<>>
           c == IF r = "resume" THEN <<Call("unmark", None)>> ELSE <<>>
           Z == {"disown", "unblock", "unmark"}
<1>0. /\ <<Call("disown", None)>> \in Words /\ Only(<<Call("disown", None)>>, Z)
      /\ <<Call("unmark", None)>> \in Words /\ Only(<<Call("unmark", None)>>, Z)
  BY DEF Call, Words, Calls, Names, Undoing, Args, Only
<1>1. a \in Words /\ Only(a, Z)
  BY <1>0, EmptyWord
<1>2. c \in Words /\ Only(c, Z)
  BY <1>0, EmptyWord
<1>3. <<Call("unblock", None)>> \in Words /\ <<Call("unblock", None)>> # <<>> /\ Only(<<Call("unblock", None)>>, Z)
  BY DEF Call, Words, Calls, Names, Undoing, Args, Only
<1>4. LET w == a \o <<Call("unblock", None)>> IN w \in Words /\ w # <<>> /\ Only(w, Z)
  BY <1>1, <1>3, CatWord
<1> HIDE DEF Z
<1>5. QED
  BY <1>2, <1>4, CatWord DEF Refusal, Z

-----------------------------------------------------------------------------
(* Steps *)

\* The word that a call of p leaves p with.
Becomes(p, w) ==
  LET n == Head(todo[p]).do
  IN  \/ n \in (Undoing \cup Doings) \ {"stopActive"} /\ w = Tail(todo[p])
         /\ (n = "cancelBroadcast" => Configured) /\ (n = "start" => stream = Off)
      \/ n = "start" /\ stream # Off /\ "refused" \in marred' /\ w = Refusal(request[p])
      \/ n = "create" /\ (w = <<>> \/ \E b \in Broadcasts \ Scheduled : w = Broadcasting(b))
      \/ n = "stopActive" /\ w = StopActiveEvent(airing) \o Tail(todo[p])
      \/ n = "cancelBroadcast" /\ ~Configured /\ w = <<>>
      \/ n = "resume" /\ (w = <<>> \/ w = Resuming(intent))

\* What a call of p does to the variables that the properties speak of.
Effect(p) ==
  LET n == Head(todo[p]).do
      a == Head(todo[p]).b
  IN  /\ stream' = IF n = "halt" THEN Off ELSE IF n = "start" /\ stream = Off THEN a ELSE stream
      /\ blocked' = IF n = "block" THEN TRUE ELSE IF n = "unblock" THEN FALSE ELSE blocked
      /\ airing' = IF n = "forget" THEN None ELSE IF n = "air" THEN a ELSE airing
      /\ n # "resume" =>
           /\ config' = IF n = "adopt" THEN a ELSE config
           /\ activeB' = IF n = "adopt" THEN a ELSE IF n = "disown" THEN None ELSE activeB
           /\ \/ intent' = intent /\ "unsaved" \in marred'
              \/ intent' = IF n = "mark" THEN [mode |-> request[p], b |-> a, to |-> config]
                           ELSE IF n = "unmark" THEN NoIntent ELSE intent
      /\ n = "resume" =>
           /\ config' \in {config, intent.to} /\ activeB' \in {activeB, intent.b}
           /\ \/ intent' = intent /\ config' = intent.to /\ activeB' = intent.b /\ todo'[p] = Resuming(intent)
              \/ intent' = NoIntent /\ "dropped" \in marred' /\ todo'[p] = <<>>
      /\ n = "adopt" /\ request[p] = "go-live-now" /\ airing # None => "overtaken" \in marred'
      /\ n = "disown" /\ request[p] \in {"go-live-now", "complete"} /\ airing # None => "overtaken" \in marred'
      /\ marred \subseteq marred'

LEMMA CallIsOne ==
  ASSUME NEW p \in Processes, CallStep(p)
  PROVE  Busy(p) /\ (\E w : Return(p, w) /\ Becomes(p, w)) /\ UNCHANGED asked
<1>1. ASSUME \/ Block(p) \/ Unblock(p) \/ Start(p) \/ Halt(p) \/ MarkLive(p) \/ MarkIdle(p) \/ Adopt(p) \/ Disown(p)
             \/ Complete(p) \/ Detach(p) \/ Forget(p) \/ Air(p) \/ Cancel(p) \/ Launch(p)
      PROVE  Busy(p) /\ Return(p, Tail(todo[p])) /\ Becomes(p, Tail(todo[p])) /\ UNCHANGED asked
  BY <1>1 DEF Block, Unblock, Start, Halt, MarkLive, MarkIdle, Adopt, Disown, Complete, Detach, Forget, Air, Cancel,
              Launch, Doing, Proceed, Return, Becomes, Undoing, Doings
<1>2. CASE StartRefused(p)
  BY <1>2 DEF StartRefused, Doing, Return, Becomes
<1>3. CASE Create(p)
  <2>1. PICK b \in Broadcasts \ Scheduled : Return(p, Broadcasting(b))
    BY <1>3 DEF Create, Broadcasting
  <2>2. QED
    BY <1>3, <2>1 DEF Create, Doing, Return, Becomes
<1>4. CASE CreateFails(p)
  BY <1>4 DEF CreateFails, Doing, Return, Becomes
<1>5. CASE StopActive(p)
  BY <1>5 DEF StopActive, Doing, Return, Becomes
<1>6. CASE CancelBroadcast(p)
  <2>1. CASE Configured
    BY <1>6, <2>1 DEF CancelBroadcast, Doing, Proceed, Return, Becomes, Undoing
  <2>2. CASE ~Configured
    BY <1>6, <2>2 DEF CancelBroadcast, Doing, Return, Becomes
  <2>3. QED
    BY <2>1, <2>2
<1>7. CASE ResumeIfNeeded(p)
  BY <1>7 DEF ResumeIfNeeded, Doing, Return, Becomes, Resuming
<1>8. CASE ResumeRefused(p)
  BY <1>8 DEF ResumeRefused, Doing, Return, Becomes
<1>9. QED
  BY <1>1, <1>2, <1>3, <1>4, <1>5, <1>6, <1>7, <1>8 DEF CallStep

LEMMA CallHasEffect ==
  ASSUME NEW p \in Processes, Typed, CallStep(p)
  PROVE  Effect(p)
<1> USE DEF Doing, server, scheduler, Arg
<1>1. CASE Block(p) \/ Unblock(p) \/ Start(p) \/ StartRefused(p) \/ Halt(p)
  BY <1>1 DEF Block, Unblock, Start, StartRefused, Halt, Effect
<1>2. CASE MarkLive(p) \/ MarkIdle(p) \/ Adopt(p) \/ Disown(p)
  BY <1>2 DEF MarkLive, MarkIdle, Record, Upset, Adopt, Disown, Effect
<1>3. CASE Create(p) \/ CreateFails(p) \/ Complete(p) \/ Detach(p)
  BY <1>3 DEF Create, CreateFails, Complete, Detach, Upset, Effect
<1>4. CASE StopActive(p) \/ Forget(p) \/ Air(p)
  BY <1>4 DEF StopActive, Forget, Air, Effect
<1>5. CASE Cancel(p) \/ CancelBroadcast(p) \/ Launch(p)
  BY <1>5 DEF Cancel, CancelBroadcast, Launch, Effect
<1>6. CASE ResumeIfNeeded(p)
  BY <1>6 DEF ResumeIfNeeded, Return, Resuming, Effect, Typed
<1>7. CASE ResumeRefused(p)
  BY <1>7 DEF ResumeRefused, Return, Effect, Typed
<1>8. QED
  BY <1>1, <1>2, <1>3, <1>4, <1>5, <1>6, <1>7 DEF CallStep

\* What a request of p turns it to.
Turns(p, what, w) ==
  \/ /\ p \in Clients /\ ~Busy(Boot) /\ asked < MaxRequests /\ asked' = asked + 1
     /\ \/ what = "none" /\ w = <<>> /\ config' = None /\ activeB' = activeB
        \/ /\ what = "manual" /\ w = <<Call("block", None), Call("start", config), Call("mark", None)>>
           /\ config' = config /\ activeB' = activeB
        \/ what = "stop" /\ w = StopRequest(activeB) /\ config' = config /\ activeB' = None
        \/ /\ what = "go-live-now" /\ Configured /\ w = Takeover(activeB) \o <<Call("create", None)>>
           /\ config' = config /\ activeB' = activeB
        \/ /\ what = "complete" /\ Configured /\ config' = config /\ activeB' = activeB
           /\ \E b \in Broadcasts : w = IF b = activeB THEN CompleteActive(b) ELSE Completing(b)
  \/ /\ p = Loop /\ UNCHANGED <<asked, config, activeB>>
     /\ \/ /\ what = "scheduled" /\ Configured /\ airing = None
           /\ \E b \in Scheduled : w = Airing(b)
        \/ what = "end" /\ airing # None /\ w = StopActiveEvent(airing)

Requesting == (\E c \in Clients : Request(c)) \/ (\E b \in Scheduled : GoLive(b)) \/ EventEnds

\* The steps of everybody else.
Aside ==
  \/ \E b \in Broadcasts : TransitionStep(b) \/ CompleteLater(b)
  \/ FFmpegFails
  \/ UNCHANGED vars

LEMMA RequestWords ==
  ASSUME Typed, NEW p \in Processes, NEW what \in Requests, NEW w, Turns(p, what, w)
  PROVE  w \in Words /\ Legal(what, w) /\ (w = <<>> => what = "none")
<1>1. activeB \in Args /\ airing \in Args /\ config \in Args /\ None \in Args /\ Broadcasts \subseteq Args
  BY DEF Typed, Args
<1>2. CASE what = "none" /\ w = <<>>
  BY <1>2, EmptyWord DEF Legal
<1>3. CASE what = "manual" /\ w = <<Call("block", None), Call("start", config), Call("mark", None)>>
  BY <1>1, <1>3, StartingWords DEF Legal, Starting
<1>4. CASE what \in {"stop", "end"} /\ w \in {StopRequest(activeB), StopActiveEvent(airing)}
  BY <1>1, <1>4, UndoingWords DEF Legal
<1>5. CASE what = "go-live-now" /\ w = Takeover(activeB) \o <<Call("create", None)>>
  <2>1. LET v == <<Call("create", None)>> IN v \in Words /\ v # <<>> /\ Only(v, Undoing \cup {"create"})
    BY DEF Call, Words, Calls, Names, Args, Only
  <2>2. Takeover(activeB) \in Words /\ Only(Takeover(activeB), Undoing \cup {"create"})
    BY <1>1, UndoingWords DEF Only
  <2>3. QED
    BY <1>5, <2>1, <2>2, CatWord DEF Legal
<1>6. CASE /\ what = "complete"
           /\ \E b \in Broadcasts : w = IF b = activeB THEN CompleteActive(b) ELSE Completing(b)
  <2>1. PICK b \in Broadcasts : w = CompleteActive(b) \/ w = Completing(b)
    BY <1>6
  <2>2. b \in Args /\ b # None
    BY DEF Args, Broadcasts, None
  <2>3. w \in Words /\ w # <<>> /\ Only(w, Undoing)
    BY <2>1, <2>2, UndoingWords DEF Only, Undoing
  <2>4. QED
    BY <2>3 DEF Legal
<1>7. CASE what = "scheduled" /\ \E b \in Scheduled : w = Airing(b)
  <2>1. PICK b \in Args : w = Airing(b)
    BY <1>7, StreamServerAssumption DEF Args, Broadcasts
  <2>2. QED
    BY <1>7, <2>1, StartingWords DEF Legal, Starting
<1>8. QED
  BY <1>2, <1>3, <1>4, <1>5, <1>6, <1>7 DEF Turns

LEMMA RequestIsOne ==
  ASSUME TypeInv, Requesting
  PROVE  /\ \E p \in Processes, what \in Requests, w \in Words : Begin(p, what, w) /\ Turns(p, what, w)
         /\ UNCHANGED <<stream, blocked, intent, airing>>
<1> USE DEF server, scheduler, Asks, Requests, Starting
<1>1. ASSUME NEW c \in Clients, HandleStart(c) \/ HandleStop(c) \/ HandleConfigUpdate(c)
      PROVE  /\ \E what \in Requests : \E w : Begin(c, what, w) /\ Turns(c, what, w)
             /\ UNCHANGED <<stream, blocked, intent, airing>>
  BY <1>1 DEF HandleStart, HandleStop, HandleConfigUpdate, Turns
<1>2. ASSUME NEW c \in Clients, HandleGoLiveNow(c)
      PROVE  /\ \E what \in Requests : \E w : Begin(c, what, w) /\ Turns(c, what, w)
             /\ UNCHANGED <<stream, blocked, intent, airing>>
  BY <1>2 DEF HandleGoLiveNow, Turns
<1>3. ASSUME NEW c \in Clients, HandleCompleteBroadcast(c)
      PROVE  /\ \E what \in Requests : \E w : Begin(c, what, w) /\ Turns(c, what, w)
             /\ UNCHANGED <<stream, blocked, intent, airing>>
  <2>1. PICK b \in Broadcasts : Begin(c, "complete", IF b = activeB THEN CompleteActive(b) ELSE Completing(b))
    BY <1>3 DEF HandleCompleteBroadcast
  <2>2. QED
    BY <1>3, <2>1 DEF HandleCompleteBroadcast, Turns
<1>4. ASSUME NEW b \in Scheduled, GoLive(b)
      PROVE  /\ \E what \in Requests : \E w : Begin(Loop, what, w) /\ Turns(Loop, what, w)
             /\ UNCHANGED <<stream, blocked, intent, airing>>
  <2>1. Begin(Loop, "scheduled", Airing(b))
    BY <1>4 DEF GoLive, Airing
  <2>2. QED
    BY <1>4, <2>1 DEF GoLive, Turns
<1>5. ASSUME EventEnds
      PROVE  /\ \E what \in Requests : \E w : Begin(Loop, what, w) /\ Turns(Loop, what, w)
             /\ UNCHANGED <<stream, blocked, intent, airing>>
  BY <1>5 DEF EventEnds, Turns
<1>6. /\ \E p \in Processes, what \in Requests : \E w : Begin(p, what, w) /\ Turns(p, what, w)
      /\ UNCHANGED <<stream, blocked, intent, airing>>
  BY <1>1, <1>2, <1>3, <1>4, <1>5 DEF Requesting, Request, Processes
<1>7. QED
  BY <1>6, RequestWords DEF TypeInv

Kept ==
  /\ blocked' = blocked /\ config' = config /\ activeB' = activeB /\ intent' = intent
  /\ airing' = airing /\ waiting' = waiting
  /\ todo' = todo /\ request' = request /\ asked' = asked /\ raced' = raced

LEMMA AsideIsQuiet ==
  ASSUME Typed, Aside
  PROVE  /\ Kept
         /\ stream' = stream \/ (stream' = Off /\ "failed" \in marred')
         /\ marred \subseteq marred'
<1> USE DEF server, scheduler, caller
<1>1. CASE UNCHANGED vars
  BY <1>1 DEF vars, youtube, transition, Kept
<1>2. ASSUME NEW b \in Broadcasts, Attempt(b) \/ CompleteLater(b)
      PROVE  /\ Kept /\ stream' = stream
             /\ marred \subseteq marred'
  BY <1>2 DEF Attempt, GoOn, CompleteLater, Upset, Kept
<1>3. ASSUME NEW b \in Broadcasts, Answer(b)
      PROVE  /\ Kept /\ stream' = stream
             /\ marred \subseteq marred'
  BY <1>3 DEF Answer, GoOn, Upset, Kept
<1>4. CASE FFmpegFails
  BY <1>4 DEF FFmpegFails, Upset, Kept
<1>5. CASE \E b \in Broadcasts : TransitionStep(b) \/ CompleteLater(b)
  <2>1. PICK b \in Broadcasts : Attempt(b) \/ CompleteLater(b) \/ Answer(b)
    BY <1>5 DEF TransitionStep
  <2>2. QED
    BY <1>2, <1>3, <2>1
<1>6. QED
  BY <1>1, <1>4, <1>5 DEF Aside

LEMMA StepKinds ==
  ASSUME [Next]_vars
  PROVE  Requesting \/ (\E p \in Processes : CallStep(p)) \/ Aside \/ Crash
  BY DEF Next, Requesting, Aside, Idle

-----------------------------------------------------------------------------
(* The types are kept *)

LEMMA ReturnFacts ==
  ASSUME Typed, NEW p \in Processes, NEW w \in Words, Return(p, w)
  PROVE  /\ todo' \in [Processes -> Words] /\ todo'[p] = w
         /\ request' \in [Processes -> Requests] /\ request'[p] = IF w = <<>> THEN "none" ELSE request[p]
         /\ raced' \subseteq Processes /\ raced' \subseteq raced
         /\ \A q \in Processes : q # p => todo'[q] = todo[q] /\ request'[q] = request[q] /\ (q \in raced => q \in raced')
         /\ w # <<>> => raced' = raced
  BY DEF Return, Typed, Requests

LEMMA BeginFacts ==
  ASSUME Typed, NEW p \in Processes, NEW what \in Requests, NEW w \in Words, Begin(p, what, w)
  PROVE  /\ ~Busy(p)
         /\ todo' \in [Processes -> Words] /\ todo'[p] = w
         /\ request' \in [Processes -> Requests] /\ request'[p] = what
         /\ raced' \subseteq Processes
         /\ \A q \in Processes : q # p => todo'[q] = todo[q] /\ request'[q] = request[q] /\ (q \in raced => q \in raced')
         /\ \A q \in Processes : q # p /\ Busy(q) /\ (what \in Starting \/ request[q] \in Starting) =>
              p \in raced' /\ q \in raced' /\ "raced" \in marred'
         /\ marred \subseteq marred'
         /\ upsets' = upsets \/ (upsets < MaxUpsets /\ upsets' = upsets + 1)
<1> DEFINE over == {q \in {q \in Processes \ {p} : Busy(q)} : what \in Starting \/ request[q] \in Starting}
<1>1. /\ ~Busy(p)
      /\ todo' = [todo EXCEPT ![p] = w]
      /\ request' = [request EXCEPT ![p] = what]
      /\ raced' = IF over = {} THEN raced \ {p} ELSE raced \cup over \cup {p}
      /\ IF over = {} THEN UNCHANGED <<upsets, marred>> ELSE Upset({"raced"})
  BY DEF Begin
<1>2. /\ todo' \in [Processes -> Words] /\ todo'[p] = w
      /\ request' \in [Processes -> Requests] /\ request'[p] = what
      /\ \A q \in Processes : q # p => todo'[q] = todo[q] /\ request'[q] = request[q]
  BY <1>1 DEF Typed, Requests
<1>3. over \subseteq Processes
  OBVIOUS
<1>4. \A q \in Processes : q # p /\ Busy(q) /\ (what \in Starting \/ request[q] \in Starting) => q \in over
  OBVIOUS
<1> HIDE DEF over
<1>5. raced' \subseteq Processes /\ \A q \in Processes : q # p /\ q \in raced => q \in raced'
  BY <1>1, <1>3 DEF Typed
<1>6. ASSUME NEW q \in over PROVE p \in raced' /\ q \in raced' /\ "raced" \in marred'
  BY <1>1, <1>6 DEF Upset
<1>7. marred \subseteq marred' /\ (upsets' = upsets \/ (upsets < MaxUpsets /\ upsets' = upsets + 1))
  BY <1>1 DEF Upset
<1>8. QED
  BY <1>1, <1>2, <1>4, <1>5, <1>6, <1>7

LEMMA CallWords ==
  ASSUME TypeInv, NEW p \in Processes, CallStep(p)
  PROVE  \E w \in Words : Return(p, w) /\ Becomes(p, w) /\ Legal(IF w = <<>> THEN "none" ELSE request[p], w)
<1>1. Busy(p) /\ todo[p] \in Words /\ Legal(request[p], todo[p])
  BY CallIsOne DEF TypeInv, Typed, Worded
<1>2. todo[p] # <<>>
  BY <1>1 DEF Busy
<1> DEFINE t == Tail(todo[p])
           n == Head(todo[p]).do
<1>3. /\ t \in Words
      /\ \A X : Has(todo[p], X) <=> n \in X \/ Has(t, X)
      /\ \A X : Only(todo[p], X) <=> n \in X /\ Only(t, X)
  BY <1>1, <1>2, TailWord
<1>4. PICK w : Return(p, w) /\ Becomes(p, w)
  BY CallIsOne
<1>5. /\ airing \in Args /\ intent \in Intents \cup {NoIntent} /\ Broadcasts \subseteq Args
  BY DEF TypeInv, Typed, Args
<1>6. w = <<>> => w \in Words /\ Legal("none", w)
  BY EmptyWord DEF Legal
<1>7. CASE w = t
  <2>1. Legal(request[p], t)
    BY <1>1, <1>3 DEF Legal
  <2>2. QED
    BY <1>3, <1>4, <1>6, <1>7, <2>1
<1>8. CASE n = "start" /\ w = Refusal(request[p])
  <2>1. w \in Words /\ w # <<>> /\ Only(w, Undoing)
    BY <1>8, RefusalWord DEF Only, Undoing
  <2>2. QED
    BY <1>4, <2>1 DEF Legal
<1>9. CASE n = "create" /\ \E b \in Broadcasts \ Scheduled : w = Broadcasting(b)
  <2>1. PICK b \in Broadcasts : w = Broadcasting(b)
    BY <1>9
  <2>2. w \in Words /\ w # <<>> /\ Only(w, Doings)
    BY <1>5, <2>1, StartingWords
  <2>3. request[p] = "go-live-now"
    BY <1>1, <1>3, <1>9 DEF Legal, Undoing, Doings
  <2>4. QED
    BY <1>4, <2>2, <2>3 DEF Legal, Starting
<1>10. CASE n = "stopActive" /\ w = StopActiveEvent(airing) \o Tail(todo[p])
  <2>1. Only(t, Undoing) \/ (Only(t, Undoing \cup {"create"}) /\ request[p] = "go-live-now")
    BY <1>1, <1>3, <1>10 DEF Legal, Doings
  <2>2. /\ StopActiveEvent(airing) \in Words /\ StopActiveEvent(airing) # <<>>
        /\ Only(StopActiveEvent(airing), Undoing) /\ Only(StopActiveEvent(airing), Undoing \cup {"create"})
    BY <1>5, UndoingWords DEF Only
  <2>3. w \in Words /\ w # <<>> /\ \A X : Only(w, X) <=> Only(StopActiveEvent(airing), X) /\ Only(t, X)
    BY <1>3, <1>10, <2>2, CatWord
  <2>4. QED
    BY <1>4, <2>1, <2>2, <2>3 DEF Legal
<1>11. CASE n = "resume" /\ w = Resuming(intent)
  <2>1. request[p] = "resume"
    BY <1>1, <1>3, <1>11 DEF Legal, Undoing, Doings
  <2>2. w \in Words /\ w # <<>> /\ Only(w, Doings) /\ ~Has(w, {"mark"})
    BY <1>5, <1>11, StartingWords
  <2>3. QED
    BY <1>4, <2>1, <2>2 DEF Legal, Starting
<1>12. QED
  BY <1>4, <1>6, <1>7, <1>8, <1>9, <1>10, <1>11 DEF Becomes

LEMMA WordedNext ==
  ASSUME TypeInv, [Next]_vars
  PROVE  todo' \in [Processes -> Words] /\ request' \in [Processes -> Requests] /\ raced' \subseteq Processes
         /\ Worded' /\ Settled' /\ Noticed'
<1> USE DEF TypeInv
<1>1. CASE Requesting
  <2>1. PICK p \in Processes, what \in Requests, w \in Words : Begin(p, what, w) /\ Turns(p, what, w)
    BY <1>1, RequestIsOne
  <2>2. w \in Words /\ Legal(what, w) /\ (w = <<>> => what = "none")
    BY <2>1, RequestWords
  <2>3. /\ ~Busy(p)
        /\ todo' \in [Processes -> Words] /\ todo'[p] = w
        /\ request' \in [Processes -> Requests] /\ request'[p] = what
        /\ raced' \subseteq Processes
        /\ \A q \in Processes : q # p => todo'[q] = todo[q] /\ request'[q] = request[q] /\ (q \in raced => q \in raced')
        /\ \A q \in Processes : q # p /\ Busy(q) /\ (what \in Starting \/ request[q] \in Starting) =>
             p \in raced' /\ q \in raced' /\ "raced" \in marred'
        /\ marred \subseteq marred'
    BY <2>1, <2>2, BeginFacts
  <2>4. Worded'
    BY <2>2, <2>3 DEF Worded
  <2>5. Settled'
    BY <2>2, <2>3 DEF Settled, Busy
  <2>6. Noticed'
    BY <2>3 DEF Noticed, Busy
  <2>7. QED
    BY <2>3, <2>4, <2>5, <2>6
<1>2. ASSUME NEW p \in Processes, CallStep(p)
      PROVE  todo' \in [Processes -> Words] /\ request' \in [Processes -> Requests] /\ raced' \subseteq Processes
             /\ Worded' /\ Settled' /\ Noticed'
  <2>1. PICK w \in Words : Return(p, w) /\ Legal(IF w = <<>> THEN "none" ELSE request[p], w)
    BY <1>2, CallWords
  <2>2. /\ todo' \in [Processes -> Words] /\ todo'[p] = w
        /\ request' \in [Processes -> Requests] /\ request'[p] = IF w = <<>> THEN "none" ELSE request[p]
        /\ raced' \subseteq Processes /\ raced' \subseteq raced
        /\ \A q \in Processes : q # p => todo'[q] = todo[q] /\ request'[q] = request[q] /\ (q \in raced => q \in raced')
        /\ w # <<>> => raced' = raced
    BY <2>1, ReturnFacts
  <2>3. Busy(p) /\ marred \subseteq marred'
    BY <1>2, CallIsOne, CallHasEffect DEF Effect
  <2>4. Worded'
    BY <2>1, <2>2 DEF Worded
  <2>5. Settled'
    BY <2>2 DEF Settled, Busy
  <2>6. Noticed'
    BY <2>2, <2>3 DEF Noticed, Busy, Starting
  <2>7. QED
    BY <2>2, <2>4, <2>5, <2>6
<1>3. CASE Aside
  <2>1. todo' = todo /\ request' = request /\ raced' = raced /\ marred \subseteq marred'
    BY <1>3, AsideIsQuiet DEF Kept
  <2>2. QED
    BY <2>1 DEF Typed, Worded, Settled, Noticed, Busy
<1>4. CASE Crash
  <2>1. /\ todo' = [p \in Processes |-> IF p = Boot /\ intent # NoIntent THEN <<Call("resume", None)>> ELSE <<>>]
        /\ request' = [p \in Processes |-> IF p = Boot THEN "resume" ELSE "none"]
        /\ raced' = {}
    BY <1>4 DEF Crash
  <2>2. LET w == <<Call("resume", None)>> IN w \in Words /\ Only(w, {"resume"})
    BY DEF Call, Words, Calls, Names, Args, Only
  <2>3. todo' \in [Processes -> Words] /\ request' \in [Processes -> Requests] /\ raced' \subseteq Processes
    BY <2>1, <2>2, EmptyWord DEF Requests, Starting
  <2>4. Worded'
    BY <2>1, <2>2, EmptyWord DEF Worded, Legal
  <2>5. Settled' /\ Noticed'
    BY <2>1 DEF Settled, Noticed, Busy
  <2>6. QED
    BY <2>3, <2>4, <2>5
<1>5. QED
  BY <1>1, <1>2, <1>3, <1>4, StepKinds

\* What Typed says of the variables that WordedNext does not.
TypedState ==
  /\ stream \in {Off, None} \cup Broadcasts
  /\ blocked \in BOOLEAN
  /\ config \in Args /\ activeB \in Args /\ airing \in Args /\ handle \in Args
  /\ intent \in Intents \cup {NoIntent}
  /\ waiting \subseteq Scheduled
  /\ yt \in [Broadcasts -> Statuses]
  /\ phase \in [Broadcasts -> Phases]
  /\ cancelled \subseteq Broadcasts /\ ending \subseteq Broadcasts
  /\ asked \in 0..MaxRequests /\ upsets \in 0..MaxUpsets

LEMMA UpsetCounts ==
  ASSUME upsets \in 0..MaxUpsets, NEW kinds, Upset(kinds)
  PROVE  upsets' \in 0..MaxUpsets
  BY StreamServerAssumption DEF Upset

LEMMA CallTypes ==
  ASSUME TypeInv, NEW p \in Processes, CallStep(p)
  PROVE  TypedState'
<1> DEFINE n == Head(todo[p]).do
           a == Head(todo[p]).b
<1>1. Busy(p) /\ UNCHANGED asked
  BY CallIsOne
<1>2. /\ n \in Names /\ a \in Args
      /\ n = "mark" => request[p] \in {"manual", "go-live-now", "scheduled"}
  <2>1. todo[p] \in Words /\ todo[p] # <<>> /\ Legal(request[p], todo[p])
    BY <1>1 DEF TypeInv, Typed, Worded, Busy
  <2>2. /\ Head(todo[p]) \in Calls
        /\ \A X : Has(todo[p], X) <=> n \in X \/ Has(Tail(todo[p]), X)
        /\ \A X : Only(todo[p], X) <=> n \in X /\ Only(Tail(todo[p]), X)
    BY <2>1, TailWord
  <2>3. QED
    BY <2>1, <2>2 DEF Legal, Starting, Undoing, Calls
<1>3. /\ stream \in {Off, None} \cup Broadcasts /\ blocked \in BOOLEAN
      /\ config \in Args /\ activeB \in Args /\ airing \in Args /\ handle \in Args
      /\ intent \in Intents \cup {NoIntent} /\ intent.to \in Args /\ intent.b \in Args
      /\ waiting \subseteq Scheduled /\ yt \in [Broadcasts -> Statuses] /\ phase \in [Broadcasts -> Phases]
      /\ cancelled \subseteq Broadcasts /\ ending \subseteq Broadcasts
      /\ asked \in 0..MaxRequests /\ upsets \in 0..MaxUpsets
  BY DEF TypeInv, Typed, Counted, Intents, NoIntent, Args
<1>4. Effect(p)
  BY CallHasEffect DEF TypeInv
<1>5. stream' \in {Off, None} \cup Broadcasts /\ blocked' \in BOOLEAN /\ airing' \in Args
  BY <1>2, <1>3, <1>4 DEF Effect, Args
<1>6. config' \in Args /\ activeB' \in Args
  BY <1>2, <1>3, <1>4 DEF Effect, Args
<1>7. intent' \in Intents \cup {NoIntent}
  BY <1>2, <1>3, <1>4 DEF Effect, Intents, Args
<1>8. /\ handle' \in Args /\ waiting' \subseteq Scheduled
      /\ yt' \in [Broadcasts -> Statuses] /\ phase' \in [Broadcasts -> Phases]
      /\ cancelled' \subseteq Broadcasts /\ ending' \subseteq Broadcasts
      /\ upsets' \in 0..MaxUpsets
  <2> USE DEF Doing, scheduler, youtube, transition, Arg
  <2>1. CASE Block(p) \/ Unblock(p) \/ Start(p) \/ StartRefused(p) \/ Halt(p)
    BY <1>3, <2>1 DEF Block, Unblock, Start, StartRefused, Halt
  <2>2. CASE MarkLive(p) \/ MarkIdle(p) \/ Adopt(p) \/ Disown(p)
    <3>1. upsets' \in 0..MaxUpsets
      BY <1>3, <2>2, UpsetCounts DEF MarkLive, MarkIdle, Record, Adopt, Disown
    <3>2. QED
      BY <1>3, <2>2, <3>1 DEF MarkLive, MarkIdle, Adopt, Disown
  <2>3. CASE Create(p)
    BY <1>3, <2>3 DEF Create, Statuses
  <2>4. CASE CreateFails(p)
    BY <1>3, <2>4, UpsetCounts DEF CreateFails
  <2>5. CASE Complete(p)
    <3>1. yt' \in [Broadcasts -> Statuses]
      BY <1>3, <2>5 DEF Complete, Ended, Statuses
    <3>2. upsets' \in 0..MaxUpsets
      BY <1>3, <2>5, UpsetCounts DEF Complete
    <3>3. QED
      BY <1>3, <2>5, <3>1, <3>2 DEF Complete
  <2>6. CASE Detach(p)
    BY <1>2, <1>3, <2>6 DEF Detach, Args
  <2>7. CASE StopActive(p) \/ Forget(p) \/ Air(p)
    BY <1>3, <2>7 DEF StopActive, Forget, Air
  <2>8. ASSUME CancelTransition
        PROVE  handle' \in Args /\ phase' \in [Broadcasts -> Phases] /\ cancelled' \subseteq Broadcasts
    BY <1>3, <2>8 DEF CancelTransition, Args
  <2>9. CASE Cancel(p) \/ CancelBroadcast(p)
    BY <1>3, <2>8, <2>9 DEF Cancel, CancelBroadcast
  <2>10. CASE Launch(p)
    BY <1>2, <1>3, <2>10 DEF Launch, Phases
  <2>11. CASE ResumeIfNeeded(p) \/ ResumeRefused(p)
    BY <1>3, <2>11 DEF ResumeIfNeeded, ResumeRefused
  <2>12. QED
    BY <2>1, <2>2, <2>3, <2>4, <2>5, <2>6, <2>7, <2>9, <2>10, <2>11 DEF CallStep
<1>9. QED
  BY <1>1, <1>3, <1>5, <1>6, <1>7, <1>8 DEF TypedState

LEMMA RequestTypes ==
  ASSUME TypeInv, Requesting
  PROVE  TypedState'
<1>1. PICK p \in Processes, what \in Requests, w \in Words : Begin(p, what, w) /\ Turns(p, what, w)
  BY RequestIsOne
<1>2. stream' = stream /\ blocked' = blocked /\ intent' = intent /\ airing' = airing
  BY RequestIsOne
<1>3. w \in Words
  BY <1>1, RequestWords DEF TypeInv
<1>4. upsets' = upsets \/ (upsets < MaxUpsets /\ upsets' = upsets + 1)
  BY <1>1, <1>3, BeginFacts DEF TypeInv
<1>5. asked' = asked \/ (asked < MaxRequests /\ asked' = asked + 1)
  BY <1>1 DEF Turns
<1>6. upsets' \in 0..MaxUpsets /\ asked' \in 0..MaxRequests
  BY <1>4, <1>5, StreamServerAssumption DEF TypeInv, Counted
<1>7. config' \in Args /\ activeB' \in Args
  BY <1>1 DEF Turns, TypeInv, Typed, Args
<1>8. UNCHANGED <<handle, waiting, phase, cancelled, ending>> /\ yt' \in [Broadcasts -> Statuses]
  <2> USE DEF scheduler, youtube, transition
  <2>1. ASSUME NEW c \in Clients, Request(c)
        PROVE  UNCHANGED <<handle, waiting, phase, cancelled, ending, yt>>
    BY <2>1 DEF Request, HandleStart, HandleStop, HandleGoLiveNow, HandleCompleteBroadcast, HandleConfigUpdate
  <2>2. ASSUME NEW b \in Scheduled, GoLive(b)
        PROVE  UNCHANGED <<handle, waiting, phase, cancelled, ending>> /\ yt' \in [Broadcasts -> Statuses]
    BY <2>2 DEF GoLive, TypeInv, Typed, Statuses
  <2>3. CASE EventEnds
    BY <2>3 DEF EventEnds, TypeInv, Typed
  <2>4. QED
    BY <2>1, <2>2, <2>3 DEF Requesting, TypeInv, Typed
<1>9. QED
  BY <1>2, <1>6, <1>7, <1>8 DEF TypedState, TypeInv, Typed

LEMMA AsideTypes ==
  ASSUME TypeInv, Aside
  PROVE  TypedState'
<1>1. /\ yt \in [Broadcasts -> Statuses] /\ phase \in [Broadcasts -> Phases] /\ handle \in Args
      /\ cancelled \subseteq Broadcasts /\ ending \subseteq Broadcasts /\ upsets \in 0..MaxUpsets
      /\ asked \in 0..MaxRequests
  BY DEF TypeInv, Typed, Counted
<1>2. /\ yt' \in [Broadcasts -> Statuses] /\ phase' \in [Broadcasts -> Phases] /\ handle' \in Args
      /\ cancelled' \subseteq Broadcasts /\ ending' \subseteq Broadcasts /\ upsets' \in 0..MaxUpsets
  <2>1. ASSUME NEW b \in Broadcasts, NEW point \in Phases, GoOn(b, point)
        PROVE  /\ phase' \in [Broadcasts -> Phases] /\ handle' \in Args
               /\ cancelled' \subseteq Broadcasts /\ ending' \subseteq Broadcasts
    BY <1>1, <2>1 DEF GoOn
  <2>2. ASSUME NEW b \in Broadcasts, Attempt(b)
        PROVE  /\ yt' = yt /\ upsets' = upsets /\ \E point \in Phases : GoOn(b, point)
    BY <2>2 DEF Attempt, Asked, Phases
  <2>3. ASSUME NEW b \in Broadcasts, Answer(b)
        PROVE  /\ yt' \in [Broadcasts -> Statuses] /\ upsets' \in 0..MaxUpsets
               /\ \E point \in Phases : GoOn(b, point)
    <3>1. PICK st \in {"testing", "live"} : Answer(b)!(st)
      BY <2>3 DEF Answer
    <3>2. {st, "done", After(st)} \subseteq Phases
      BY DEF Phases, After
    <3>3. \E point \in Phases : GoOn(b, point)
      BY <3>1, <3>2
    <3>4. yt' = yt \/ yt' = [yt EXCEPT ![b] = st]
      BY <3>1
    <3>5. yt' \in [Broadcasts -> Statuses]
      BY <1>1, <3>4 DEF Statuses
    <3>6. upsets' = upsets \/ Upset({}) \/ Upset({"abandoned"})
      BY <3>1
    <3>7. upsets' \in 0..MaxUpsets
      BY <1>1, <3>6, UpsetCounts
    <3>8. QED
      BY <3>3, <3>5, <3>7
  <2>4. ASSUME NEW b \in Broadcasts, CompleteLater(b)
        PROVE  /\ UNCHANGED <<phase, handle, cancelled>> /\ ending' \subseteq Broadcasts
               /\ yt' \in [Broadcasts -> Statuses] /\ upsets' \in 0..MaxUpsets
    <3>1. upsets' = upsets \/ Upset({"uncompleted"})
      BY <2>4 DEF CompleteLater
    <3>2. upsets' \in 0..MaxUpsets
      BY <1>1, <3>1, UpsetCounts
    <3>3. yt' \in [Broadcasts -> Statuses]
      BY <1>1, <2>4 DEF CompleteLater, Ended, Statuses
    <3>4. QED
      BY <1>1, <2>4, <3>2, <3>3 DEF CompleteLater, transition
  <2>5. CASE FFmpegFails
    <3>1. UNCHANGED <<yt, ending, phase, handle, cancelled>> /\ Upset({"failed"})
      BY <2>5 DEF FFmpegFails, youtube, transition
    <3>2. QED
      BY <1>1, <3>1, UpsetCounts
  <2>6. CASE UNCHANGED vars
    BY <1>1, <2>6 DEF vars, youtube, transition
  <2>7. QED
    BY <1>1, <2>1, <2>2, <2>3, <2>4, <2>5, <2>6 DEF Aside, TransitionStep
<1>3. /\ stream' \in {Off, None} \cup Broadcasts /\ Kept
  BY AsideIsQuiet DEF TypeInv, Typed
<1>4. QED
  BY <1>1, <1>2, <1>3 DEF TypedState, TypeInv, Typed, Kept

LEMMA CrashTypes ==
  ASSUME TypeInv, Crash
  PROVE  TypedState'
<1>1. PICK kinds : Upset(kinds)
  BY DEF Crash
<1>2. upsets' \in 0..MaxUpsets
  BY <1>1, UpsetCounts DEF TypeInv, Counted
<1>3. phase' \in [Broadcasts -> Phases] /\ cancelled' \subseteq Broadcasts /\ ending' \subseteq Broadcasts
  BY DEF Crash, Phases
<1>4. QED
  BY <1>2, <1>3 DEF Crash, TypedState, TypeInv, Typed, Counted, Args

LEMMA TypeInvInit ==
  ASSUME Init
  PROVE  TypeInv
<1>1. Typed
  BY EmptyWord DEF Init, Typed, Args, Statuses, Phases, Requests
<1>2. Counted
  BY StreamServerAssumption DEF Init, Counted
<1>3. Worded /\ Settled /\ Noticed
  BY EmptyWord DEF Init, Worded, Legal, Settled, Noticed, Busy
<1>4. QED
  BY <1>1, <1>2, <1>3 DEF TypeInv

LEMMA TypeInvNext ==
  ASSUME TypeInv, [Next]_vars
  PROVE  TypeInv'
<1>1. TypedState'
  BY CallTypes, RequestTypes, AsideTypes, CrashTypes, StepKinds
<1>2. QED
  BY <1>1, WordedNext DEF TypeInv, TypedState, Typed, Counted

LEMMA TypeInvAlways == Spec => []TypeInv
  BY TypeInvInit, TypeInvNext, PTL DEF Spec

\* Whatever the requests, their calls and the crashes, every variable has its
\* type: a process that marks an intent serves a request whose mode the intent
\* file knows, and the calls of a process always name a broadcast or none.
THEOREM StreamServerTypes == Spec => []TypeOK
<1>1. TypeInv => TypeOK
  BY DEF TypeInv, Typed, Counted, TypeOK, Args, Statuses, Phases, Requests
<1>2. QED
  BY <1>1, TypeInvAlways, PTL

-----------------------------------------------------------------------------
(* StopStops *)

\* What w will have undone when it ends, if no starting request gets between.
Stopping(w) ==
  /\ stream # Off => Has(w, {"halt"})
  /\ blocked => Has(w, {"unblock"})
  /\ intent # NoIntent => Has(w, {"unmark"}) \/ "unsaved" \in marred
  /\ airing # None => Has(w, {"stopActive", "forget"})
  /\ activeB = None

StopInv == \A c \in Processes : request[c] = "stop" /\ c \notin raced => Stopping(todo[c])

LEMMA WordsStop ==
  ASSUME NEW b \in Args
  PROVE  /\ \A X : {"halt", "unblock", "unmark", "stopActive"} \cap X # {} => Has(StopRequest(b), X)
         /\ \A X : {"halt", "unblock", "unmark", "forget"} \cap X # {} => Has(StopActiveEvent(b), X)
<1>1. ASSUME NEW X, {"halt", "unblock", "unmark", "stopActive"} \cap X # {} PROVE Has(StopRequest(b), X)
  <2>1. \E i \in {1, 3, 4, 5} : StopRequest(b)[i].do \in X
    BY <1>1 DEF StopRequest, Call
  <2>2. Len(StopRequest(b)) = 6
    BY DEF StopRequest
  <2>3. QED
    BY <2>1, <2>2 DEF Has
<1>2. ASSUME NEW X, {"halt", "unblock", "unmark", "forget"} \cap X # {} PROVE Has(StopActiveEvent(b), X)
  <2> DEFINE v1 == <<Call("cancelBroadcast", None)>>
             v2 == StopStream
             v3 == Completing(b)
             v4 == <<Call("forget", None)>>
  <2>1. v1 \in Words /\ v2 \in Words /\ v4 \in Words
    BY DEF StopStream, Call, Words, Calls, Names, Undoing, Args
  <2>2. v3 \in Words
    BY UndoingWords
  <2>3. {"halt", "unblock", "unmark"} \cap X # {} => Has(v2, X)
    <3>1. v2[1].do = "halt" /\ v2[2].do = "unblock" /\ v2[3].do = "unmark" /\ Len(v2) = 4
      BY DEF StopStream, Call
    <3>2. QED
      BY <3>1 DEF Has
  <2>4. "forget" \in X => Has(v4, X)
    BY DEF Call, Has
  <2>5. StopActiveEvent(b) = v1 \o v2 \o v3 \o v4
    BY DEF StopActiveEvent
  <2> HIDE DEF v1, v2, v3, v4
  <2>6. v1 \o v2 \in Words /\ (Has(v2, X) => Has(v1 \o v2, X))
    BY <2>1, CatWord
  <2>7. v1 \o v2 \o v3 \in Words /\ (Has(v2, X) => Has(v1 \o v2 \o v3, X))
    BY <2>2, <2>6, CatWord
  <2>8. Has(v2, X) \/ Has(v4, X) => Has(v1 \o v2 \o v3 \o v4, X)
    BY <2>1, <2>7, CatWord
  <2>9. QED
    BY <1>2, <2>3, <2>4, <2>5, <2>8
<1>3. QED
  BY <1>1, <1>2

\* No call of a request that overlaps with no starting one turns anything on.
LEMMA CallsCalm ==
  ASSUME TypeInv, NEW p \in Processes, CallStep(p), NEW c \in Processes, Busy(c), request[c] = "stop", c \notin raced
  PROVE  Head(todo[p]).do \in Undoing
<1>1. Busy(p) /\ todo[p] \in Words /\ todo[p] # <<>> /\ Legal(request[p], todo[p])
  BY CallIsOne DEF TypeInv, Typed, Worded, Busy
<1>2. request[p] \notin Starting
  BY <1>1 DEF TypeInv, Noticed, Starting
<1>3. Only(todo[p], Undoing)
  BY <1>1, <1>2 DEF Legal, Starting
<1>4. QED
  BY <1>1, <1>3, TailWord

LEMMA CallStops ==
  ASSUME Configured, TypeInv, StopInv, NEW p \in Processes, CallStep(p),
         NEW c \in Processes, request[c] = "stop", c \notin raced
  PROVE  Stopping(todo[c])'
<1> DEFINE n == Head(todo[p]).do
           t == Tail(todo[p])
<1>1. Stopping(todo[c]) /\ Busy(c)
  BY DEF StopInv, TypeInv, Settled
<1>2. n \in Undoing
  BY <1>1, CallsCalm
<1>3. PICK w \in Words : Return(p, w) /\ Becomes(p, w)
  BY CallWords
<1>4. todo'[p] = w /\ \A q \in Processes : q # p => todo'[q] = todo[q]
  BY <1>3, ReturnFacts DEF TypeInv
<1>5. todo[p] \in Words /\ todo[p] # <<>> /\ airing \in Args
  BY CallIsOne DEF TypeInv, Typed, Busy
<1>6. t \in Words /\ \A X : Has(todo[p], X) <=> n \in X \/ Has(t, X)
  BY <1>5, TailWord
<1>7. Effect(p)
  BY CallHasEffect DEF TypeInv
<1>8. /\ stream' = (IF n = "halt" THEN Off ELSE stream)
      /\ blocked' = (IF n = "unblock" THEN FALSE ELSE blocked)
      /\ airing' = (IF n = "forget" THEN None ELSE airing)
      /\ intent' = (IF n = "unmark" THEN NoIntent ELSE intent) \/ "unsaved" \in marred'
      /\ activeB' = (IF n = "disown" THEN None ELSE activeB)
      /\ "unsaved" \in marred => "unsaved" \in marred'
  BY <1>2, <1>7 DEF Effect, Undoing
<1>9. CASE p # c
  <2>1. todo'[c] = todo[c]
    BY <1>4, <1>9
  <2>2. QED
    BY <1>1, <1>8, <2>1 DEF Stopping
<1>10. CASE p = c
  <2>1. (w = t /\ n # "stopActive") \/ (w = StopActiveEvent(airing) \o t /\ n = "stopActive")
    BY <1>2, <1>3 DEF Becomes, Undoing
  <2>2. CASE w = t /\ n # "stopActive"
    <3>1. \A X : Has(todo[c], X) <=> n \in X \/ Has(todo'[c], X)
      BY <1>4, <1>6, <1>10, <2>2
    <3>2. QED
      BY <1>1, <1>8, <2>2, <3>1 DEF Stopping
  <2>3. CASE w = StopActiveEvent(airing) \o t
    <3>1. StopActiveEvent(airing) \in Words
      BY <1>5, UndoingWords
    <3>2. \A X : Has(StopActiveEvent(airing), X) => Has(w, X)
      BY <1>6, <2>3, <3>1, CatWord
    <3>3. /\ Has(w, {"halt"}) /\ Has(w, {"unblock"}) /\ Has(w, {"unmark"}) /\ Has(w, {"stopActive", "forget"})
      BY <1>5, <3>2, WordsStop
    <3>4. activeB' = None
      BY <1>1, <1>8 DEF Stopping
    <3>5. QED
      BY <1>4, <1>10, <3>3, <3>4 DEF Stopping
  <2>4. QED
    BY <2>1, <2>2, <2>3
<1>11. QED
  BY <1>9, <1>10

LEMMA StopInvNext ==
  ASSUME Configured, TypeInv, StopInv, [Next]_vars
  PROVE  StopInv'
<1> SUFFICES ASSUME NEW c \in Processes, request'[c] = "stop", c \notin raced'
             PROVE  Stopping(todo[c])'
  BY DEF StopInv
<1>1. CASE Requesting
  <2>1. PICK p \in Processes, what \in Requests, w \in Words : Begin(p, what, w) /\ Turns(p, what, w)
    BY <1>1, RequestIsOne
  <2>2. w \in Words /\ activeB \in Args
    BY <2>1, RequestWords DEF TypeInv, Typed
  <2>3. /\ todo'[p] = w /\ request'[p] = what
        /\ \A q \in Processes : q # p => todo'[q] = todo[q] /\ request'[q] = request[q] /\ (q \in raced => q \in raced')
        /\ marred \subseteq marred'
    BY <2>1, <2>2, BeginFacts DEF TypeInv
  <2>4. stream' = stream /\ blocked' = blocked /\ intent' = intent /\ airing' = airing
    BY <1>1, RequestIsOne
  <2>5. CASE c = p
    <3>1. w = StopRequest(activeB) /\ activeB' = None
      BY <2>1, <2>3, <2>5 DEF Turns
    <3>2. /\ Has(w, {"halt"}) /\ Has(w, {"unblock"}) /\ Has(w, {"unmark"}) /\ Has(w, {"stopActive", "forget"})
      BY <2>2, <3>1, WordsStop
    <3>3. QED
      BY <2>3, <2>5, <3>1, <3>2 DEF Stopping
  <2>6. CASE c # p
    <3>1. Stopping(todo[c]) /\ todo'[c] = todo[c]
      BY <2>3, <2>6 DEF StopInv
    <3>2. activeB' = None
      BY <2>1, <3>1 DEF Turns, Stopping
    <3>3. QED
      BY <2>3, <2>4, <3>1, <3>2 DEF Stopping
  <2>7. QED
    BY <2>5, <2>6
<1>2. ASSUME NEW p \in Processes, CallStep(p) PROVE Stopping(todo[c])'
  <2>1. PICK w \in Words : Return(p, w) /\ Becomes(p, w)
    BY <1>2, CallWords
  <2>2. request[c] = "stop" /\ c \notin raced
    BY <2>1, ReturnFacts DEF TypeInv
  <2>3. QED
    BY <1>2, <2>2, CallStops
<1>3. CASE Aside
  <2>1. Kept /\ stream' \in {stream, Off} /\ marred \subseteq marred'
    BY <1>3, AsideIsQuiet DEF TypeInv
  <2>2. Stopping(todo[c])
    BY <2>1 DEF StopInv, Kept
  <2>3. QED
    BY <2>1, <2>2 DEF Stopping, Kept
<1>4. CASE Crash
  BY <1>4 DEF Crash
<1>5. QED
  BY <1>1, <1>2, <1>3, <1>4, StepKinds

\* handleStop leaves everything off, for any number of clients, broadcasts and
\* crashes before it, apart from an intent file that could not be removed, unless
\* a start overlapped with it.  The credentials are needed: without them the panic in
\* the scheduler's CancelTransition cuts the handler short.
THEOREM StopDoesStop ==
  ASSUME Configured
  PROVE  Spec => StopStops
<1>1. Init => StopInv
  BY DEF Init, StopInv
<1>2. ASSUME TypeInv, StopInv, [Next]_vars, NEW c \in Clients,
             request[c] = "stop", request'[c] = "none", upsets' = upsets, c \notin raced
      PROVE  Stopped'
  <2>1. c \in Processes /\ Busy(c)
    BY <1>2 DEF Processes, TypeInv, Settled
  <2>2. CASE Requesting
    <3>1. PICK p \in Processes, what \in Requests, w \in Words : Begin(p, what, w) /\ Turns(p, what, w)
      BY <1>2, <2>2, RequestIsOne
    <3>2. w \in Words
      BY <1>2, <3>1, RequestWords DEF TypeInv
    <3>3. ~Busy(p) /\ \A q \in Processes : q # p => request'[q] = request[q]
      BY <1>2, <3>1, <3>2, BeginFacts DEF TypeInv
    <3>4. QED
      BY <1>2, <2>1, <3>3
  <2>3. ASSUME NEW p \in Processes, CallStep(p) PROVE Stopped'
    <3>1. Stopping(todo[c])'
      BY <1>2, <2>1, <2>3, CallStops
    <3>2. todo'[c] = <<>>
      <4>1. PICK w \in Words : Return(p, w) /\ Becomes(p, w)
        BY <1>2, <2>3, CallWords
      <4>2. QED
        BY <1>2, <2>1, <4>1, ReturnFacts DEF TypeInv
    <3>3. \A X : ~Has(todo'[c], X)
      BY <3>2, EmptyWord
    <3>4. QED
      BY <3>1, <3>3 DEF Stopping, Stopped
  <2>4. CASE Aside
    BY <1>2, <2>4, AsideIsQuiet DEF Kept, TypeInv
  <2>5. CASE Crash
    BY <1>2, <2>5 DEF Crash, Upset, TypeInv, Counted
  <2>6. QED
    BY <1>2, <2>2, <2>3, <2>4, <2>5, StepKinds
<1>3. TypeInv /\ StopInv /\ [Next]_vars =>
        [\A c \in Clients :
           request[c] = "stop" /\ request'[c] = "none" /\ upsets' = upsets /\ c \notin raced => Stopped']_vars
  BY <1>2
<1>4. QED
  BY <1>1, <1>3, StopInvNext, TypeInvAlways, PTL DEF Spec, StopStops

-----------------------------------------------------------------------------
(* CameraHeld *)

Freeing == {"unblock", "unmark", "disown"}

CameraInv ==
  marred \cap {"raced", "refused"} = {} =>
    /\ stream # Off => blocked
    /\ \A p \in Processes :
         /\ stream # Off => Preceded(todo[p], Freeing, {"halt"})
         /\ ~blocked => Preceded(todo[p], {"start"}, {"block"})

\* Requests free nothing before they halt, and block before they start.
Paired(w) == Preceded(w, Freeing, {"halt"}) /\ Preceded(w, {"start"}, {"block"})

LEMMA PairedWords ==
  /\ Paired(<<>>)
  /\ \A w : Only(w, {"resume"}) => Paired(w)
  /\ \A v, w \in Words : Paired(v) /\ Paired(w) => Paired(v \o w)
<1>1. Paired(<<>>)
  BY EmptyWord DEF Paired
<1>2. ASSUME NEW w, Only(w, {"resume"}) PROVE Paired(w)
  BY <1>2, OnlyWord DEF Paired, Freeing
<1>3. ASSUME NEW v \in Words, NEW w \in Words, Paired(v), Paired(w) PROVE Paired(v \o w)
  BY <1>3, CatWord DEF Paired
<1>4. QED
  BY <1>1, <1>2, <1>3

LEMMA RequestsPaired ==
  ASSUME NEW b \in Args
  PROVE  /\ Paired(StopRequest(b)) /\ Paired(CompleteActive(b)) /\ Paired(Completing(b))
         /\ Paired(StopActiveEvent(b)) /\ Paired(Takeover(b) \o <<Call("create", None)>>)
         /\ Paired(<<Call("block", None), Call("start", b), Call("mark", None)>>)
         /\ Paired(Airing(b)) /\ Paired(Broadcasting(b))
         /\ \A i \in Intents \cup {NoIntent} : Paired(Resuming(i))
<1>1. Paired(StopRequest(b)) /\ Paired(CompleteActive(b))
  BY DEF StopRequest, CompleteActive, Call, Paired, Freeing, Preceded
<1>2. Paired(Completing(b))
  <2>1. {"complete"} \cap Freeing = {} /\ {"complete"} \cap {"start"} = {}
    BY DEF Freeing
  <2>2. QED
    BY <2>1, UndoingWords, OnlyWord DEF Paired
<1>3. /\ <<Call("cancelBroadcast", None)>> \in Words /\ Paired(<<Call("cancelBroadcast", None)>>)
      /\ <<Call("forget", None)>> \in Words /\ Paired(<<Call("forget", None)>>)
      /\ <<Call("create", None)>> \in Words /\ Paired(<<Call("create", None)>>)
      /\ StopStream \in Words /\ Paired(StopStream)
  BY DEF StopStream, Call, Words, Calls, Names, Undoing, Args, Paired, Freeing, Preceded
<1>4. Completing(b) \in Words /\ Takeover(b) \in Words
  BY UndoingWords
<1>5. Paired(StopActiveEvent(b))
  <2>1. LET w == <<Call("cancelBroadcast", None)>> \o StopStream IN w \in Words /\ Paired(w)
    BY <1>3, PairedWords, CatWord
  <2>2. LET w == <<Call("cancelBroadcast", None)>> \o StopStream \o Completing(b) IN w \in Words /\ Paired(w)
    BY <1>2, <1>4, <2>1, PairedWords, CatWord
  <2>3. QED
    BY <1>3, <2>2, PairedWords DEF StopActiveEvent
<1>6. Paired(Takeover(b))
  <2>1. Paired(<<Call("halt", None), Call("unblock", None), Call("cancel", None), Call("complete", b),
                 Call("disown", None), Call("unmark", None)>>)
    BY DEF Call, Paired, Freeing, Preceded
  <2>2. QED
    BY <2>1, PairedWords DEF Takeover
<1>7. Paired(Takeover(b) \o <<Call("create", None)>>)
  BY <1>3, <1>4, <1>6, PairedWords
<1>8. ASSUME NEW c \in Args
      PROVE  /\ Launching(c) \in Words /\ Paired(Launching(c))
             /\ <<Call("block", None), Call("start", c)>> \in Words /\ Paired(<<Call("block", None), Call("start", c)>>)
             /\ Paired(<<Call("block", None), Call("start", c), Call("mark", None)>>)
  BY DEF Launching, Call, Words, Calls, Names, Doings, Args, Paired, Freeing, Preceded
<1>9. LET w == <<Call("adopt", b), Call("block", None), Call("start", b), Call("mark", b)>>
      IN  w \in Words /\ Paired(w)
  BY DEF Call, Words, Calls, Names, Doings, Args, Paired, Freeing, Preceded
<1>10. LET w == <<Call("adopt", b), Call("block", None), Call("start", b), Call("mark", b), Call("air", b)>>
       IN  w \in Words /\ Paired(w)
  BY DEF Call, Words, Calls, Names, Doings, Args, Paired, Freeing, Preceded
<1>11. Paired(Airing(b)) /\ Paired(Broadcasting(b))
  BY <1>8, <1>9, <1>10, PairedWords DEF Airing, Broadcasting
<1>12. ASSUME NEW i \in Intents \cup {NoIntent} PROVE Paired(Resuming(i))
  <2>1. i.to \in Args /\ i.b \in Args
    BY DEF Intents, NoIntent, Args
  <2>2. Relaunching(i) \in Words /\ Paired(Relaunching(i))
    BY <1>8, <2>1, EmptyWord, PairedWords DEF Relaunching
  <2>3. QED
    BY <1>8, <2>1, <2>2, PairedWords DEF Resuming
<1>13. QED
  BY <1>1, <1>2, <1>5, <1>7, <1>8, <1>11, <1>12

LEMMA TurnsPaired ==
  ASSUME Typed, NEW p \in Processes, NEW what, NEW w, Turns(p, what, w)
  PROVE  Paired(w)
<1>1. activeB \in Args /\ airing \in Args /\ config \in Args /\ Broadcasts \subseteq Args /\ Scheduled \subseteq Args
  BY StreamServerAssumption DEF Typed, Args, Broadcasts
<1>2. QED
  BY <1>1, RequestsPaired, PairedWords DEF Turns

\* A process that starts FFmpeg has only starting calls, and nobody else has any.
LEMMA StartsAlone ==
  ASSUME TypeInv, NEW p \in Processes, Busy(p), Head(todo[p]).do \in Doings \ Undoing
  PROVE  /\ request[p] \in Starting /\ Only(todo[p], Doings)
         /\ "raced" \notin marred => \A q \in Processes : q # p => todo[q] = <<>>
<1>1. todo[p] \in Words /\ todo[p] # <<>> /\ Legal(request[p], todo[p])
  BY DEF TypeInv, Typed, Worded, Busy
<1>2. \A X : Only(todo[p], X) => Head(todo[p]).do \in X
  BY <1>1, TailWord
<1>3. request[p] \in Starting /\ Only(todo[p], Doings)
  BY <1>1, <1>2 DEF Legal, Doings, Undoing
<1>4. QED
  BY <1>3 DEF TypeInv, Noticed, Busy

LEMMA CallHolds ==
  ASSUME TypeInv, CameraInv, NEW p \in Processes, CallStep(p)
  PROVE  CameraInv'
<1> DEFINE n == Head(todo[p]).do
           t == Tail(todo[p])
<1> SUFFICES ASSUME marred' \cap {"raced", "refused"} = {}
             PROVE  /\ stream' # Off => blocked'
                    /\ \A q \in Processes :
                         /\ stream' # Off => Preceded(todo'[q], Freeing, {"halt"})
                         /\ ~blocked' => Preceded(todo'[q], {"start"}, {"block"})
  BY DEF CameraInv
<1>1. PICK w \in Words : Return(p, w) /\ Becomes(p, w)
  BY CallWords
<1>2. todo'[p] = w /\ \A q \in Processes : q # p => todo'[q] = todo[q]
  BY <1>1, ReturnFacts DEF TypeInv
<1>3. Busy(p) /\ todo[p] \in Words /\ todo[p] # <<>> /\ Legal(request[p], todo[p])
  BY CallIsOne DEF TypeInv, Typed, Worded, Busy
<1>4. /\ t \in Words
      /\ \A X : Only(todo[p], X) => n \in X /\ Only(t, X)
      /\ \A X, Y : Preceded(todo[p], X, Y) => n \notin X /\ (n \notin Y => Preceded(t, X, Y))
  BY <1>3, TailWord
<1>5. /\ stream' = IF n = "halt" THEN Off ELSE IF n = "start" /\ stream = Off THEN Head(todo[p]).b ELSE stream
      /\ blocked' = IF n = "block" THEN TRUE ELSE IF n = "unblock" THEN FALSE ELSE blocked
      /\ marred \subseteq marred'
  BY CallHasEffect DEF Effect, TypeInv
<1>6. /\ marred \cap {"raced", "refused"} = {}
      /\ stream # Off => blocked
      /\ \A q \in Processes : stream # Off => Preceded(todo[q], Freeing, {"halt"})
      /\ \A q \in Processes : ~blocked => Preceded(todo[q], {"start"}, {"block"})
  BY <1>5 DEF CameraInv
<1>7. blocked \in BOOLEAN /\ airing \in Args /\ intent \in Intents \cup {NoIntent} /\ Broadcasts \subseteq Args
  BY DEF TypeInv, Typed, Args
<1>8. CASE n = "start"
  <2>1. Only(todo[p], Doings) /\ \A q \in Processes : q # p => todo[q] = <<>>
    BY <1>3, <1>6, <1>8, StartsAlone DEF Doings, Undoing
  <2>2. blocked /\ blocked' = blocked
    BY <1>4, <1>5, <1>6, <1>7, <1>8
  <2>3. w = t
    BY <1>1, <1>6, <1>8 DEF Becomes
  <2>4. Preceded(w, Freeing, {"halt"})
    <3>1. Only(w, Doings) /\ Doings \cap Freeing = {}
      BY <1>4, <2>1, <2>3 DEF Doings, Freeing
    <3>2. QED
      BY <3>1, OnlyWord
  <2>5. \A q \in Processes : Preceded(todo'[q], Freeing, {"halt"})
    BY <1>2, <2>1, <2>4, EmptyWord
  <2>6. QED
    BY <2>2, <2>5
<1>9. CASE n = "unblock"
  <2>1. stream' = Off
    BY <1>4, <1>5, <1>6, <1>9 DEF Freeing
  <2>2. Only(t, Undoing \cup {"create"})
    BY <1>3, <1>4, <1>9, OnlyWord DEF Legal, Doings
  <2>3. w = t
    BY <1>1, <1>9 DEF Becomes
  <2>4. Preceded(w, {"start"}, {"block"})
    <3>1. (Undoing \cup {"create"}) \cap {"start"} = {}
      BY DEF Undoing
    <3>2. QED
      BY <2>2, <2>3, <3>1, OnlyWord
  <2>5. ASSUME NEW q \in Processes, q # p PROVE Preceded(todo[q], {"start"}, {"block"})
    <3>1. todo[q] = <<>> \/ request[q] \notin Starting
      BY <1>3, <1>6, <2>5 DEF TypeInv, Noticed, Busy
    <3>2. Legal(request[q], todo[q])
      BY DEF TypeInv, Worded
    <3>3. todo[q] = <<>> \/ Only(todo[q], Undoing)
      BY <3>1, <3>2 DEF Legal, Starting
    <3>4. QED
      <4>1. Undoing \cap {"start"} = {}
        BY DEF Undoing
      <4>2. QED
        BY <3>3, <4>1, EmptyWord, OnlyWord
  <2>6. QED
    BY <1>2, <2>1, <2>4, <2>5
<1>10. CASE n \notin {"start", "unblock"}
  <2>1. Paired(w) \/ w = t \/ (w = StopActiveEvent(airing) \o t /\ n = "stopActive")
    BY <1>1, <1>6, <1>7, <1>10, RequestsPaired, PairedWords DEF Becomes
  <2>2. CASE Paired(w)
    BY <1>2, <1>5, <1>6, <1>7, <1>10, <2>2 DEF Paired
  <2>3. CASE w = t
    BY <1>2, <1>4, <1>5, <1>6, <1>7, <1>10, <2>3
  <2>4. CASE w = StopActiveEvent(airing) \o t /\ n = "stopActive"
    <3>1. stream # Off => Preceded(t, Freeing, {"halt"})
      BY <1>4, <1>6, <2>4
    <3>2. ~blocked => Preceded(t, {"start"}, {"block"})
      BY <1>4, <1>6, <2>4
    <3>3. Paired(StopActiveEvent(airing)) /\ StopActiveEvent(airing) \in Words
      BY <1>7, RequestsPaired, UndoingWords
    <3>4. /\ stream # Off => Preceded(w, Freeing, {"halt"})
          /\ ~blocked => Preceded(w, {"start"}, {"block"})
      BY <1>4, <2>4, <3>1, <3>2, <3>3, CatWord DEF Paired
    <3>5. stream' = stream /\ blocked' = blocked
      BY <1>5, <2>4
    <3>6. QED
      BY <1>2, <1>6, <3>4, <3>5
  <2>5. QED
    BY <2>1, <2>2, <2>3, <2>4
<1>11. QED
  BY <1>8, <1>9, <1>10

LEMMA CameraInvNext ==
  ASSUME TypeInv, CameraInv, [Next]_vars
  PROVE  CameraInv'
<1>1. CASE Requesting
  <2>1. PICK p \in Processes, what \in Requests, w \in Words : Begin(p, what, w) /\ Turns(p, what, w)
    BY <1>1, RequestIsOne
  <2>2. w \in Words /\ Paired(w)
    BY <2>1, RequestWords, TurnsPaired DEF TypeInv
  <2>3. todo'[p] = w /\ (\A q \in Processes : q # p => todo'[q] = todo[q]) /\ marred \subseteq marred'
    BY <2>1, <2>2, BeginFacts DEF TypeInv
  <2>4. stream' = stream /\ blocked' = blocked
    BY <1>1, RequestIsOne
  <2>5. QED
    BY <2>2, <2>3, <2>4 DEF CameraInv, Paired
<1>2. ASSUME NEW p \in Processes, CallStep(p) PROVE CameraInv'
  BY <1>2, CallHolds
<1>3. CASE Aside
  BY <1>3, AsideIsQuiet DEF CameraInv, Kept, TypeInv
<1>4. CASE Crash
  <2>1. stream' = Off
    BY <1>4 DEF Crash
  <2>2. todo' = [p \in Processes |-> IF p = Boot /\ intent # NoIntent THEN <<Call("resume", None)>> ELSE <<>>]
    BY <1>4 DEF Crash
  <2>3. Only(<<Call("resume", None)>>, {"resume"})
    BY DEF Call, Only
  <2>4. \A p \in Processes : Paired(todo'[p])
    BY <2>2, <2>3, PairedWords
  <2>5. QED
    BY <2>1, <2>4 DEF CameraInv, Paired
<1>5. QED
  BY <1>1, <1>2, <1>3, <1>4, StepKinds

\* While FFmpeg streams, the preview stays away from the camera, unless a Start
\* was refused or two requests, one of them a starting one, overlapped.
THEOREM CameraIsHeld == Spec => []CameraHeld
<1>1. Init => CameraInv
  BY PairedWords DEF Init, CameraInv, Paired
<1>2. CameraInv => CameraHeld
  BY DEF CameraInv, CameraHeld, Unmarred
<1>3. QED
  BY <1>1, <1>2, CameraInvNext, TypeInvAlways, PTL DEF Spec

-----------------------------------------------------------------------------
(* The order of the calls of a request, and their arguments *)

\* After a Y comes no X.
NoneAfter(w, X, Y) ==
  \A i \in 1..Len(w), j \in 1..Len(w) : i < j /\ w[i].do \in Y => w[j].do \notin X

\* Every X of w is about b; some X of w is.
Bound(w, X, b) == \A i \in 1..Len(w) : w[i].do \in X => w[i].b = b
HasFor(w, X, b) == \E i \in 1..Len(w) : w[i].do \in X /\ w[i].b = b

Shape(r, w) ==
  /\ Followed(w, {"halt"}, {"unmark"})
  /\ r # "stop" => Followed(w, {"halt"}, {"disown"})
  /\ NoneAfter(w, Undoing, {"create"})
  /\ ~Configured => Preceded(w, {"halt"}, {"stopActive", "cancelBroadcast"}) /\ ~Has(w, {"adopt", "create", "air"})
  /\ NoneAfter(w, {"adopt"}, {"adopt", "start"})
  /\ NoneAfter(w, {"adopt", "start"}, {"start", "mark", "air"})
  /\ NoneAfter(w, {"mark"}, {"mark", "air"})
  /\ NoneAfter(w, {"air"}, {"air"})
  /\ r \in {"manual", "go-live-now", "scheduled"} => Followed(w, {"start"}, {"mark"})
  /\ Followed(w, {"adopt"}, {"start"})
  /\ r = "scheduled" => Followed(w, {"adopt"}, {"air"})
  /\ r # "scheduled" => ~Has(w, {"air"})
  /\ r \notin {"go-live-now", "scheduled"} => ~Has(w, {"adopt"})

ShapeInv == \A p \in Processes : Shape(request[p], todo[p])

Unmarked(kinds) == marred \cap kinds = {}

LEMMA TailOrder ==
  ASSUME NEW w \in Words, w # <<>>
  PROVE  /\ \A X, Y : NoneAfter(w, X, Y) => NoneAfter(Tail(w), X, Y) /\ (Head(w).do \in Y => ~Has(Tail(w), X))
         /\ \A X, b : Bound(w, X, b) => Bound(Tail(w), X, b) /\ (Head(w).do \in X => Head(w).b = b)
         /\ \A X, b : HasFor(w, X, b) => (Head(w).do \in X /\ Head(w).b = b) \/ HasFor(Tail(w), X, b)
         /\ \A X, b : HasFor(Tail(w), X, b) => HasFor(w, X, b)
<1> DEFINE t == Tail(w)
<1>1. /\ t \in Words /\ Head(w) = w[1]
      /\ Len(w) \in Nat \ {0} /\ Len(t) = Len(w) - 1
      /\ \A i \in 1..Len(t) : t[i] = w[i + 1]
  BY HeadTailProperties, EmptySeq, LenProperties DEF Words
<1> HIDE DEF t
<1>2. \A i \in 1..Len(t) : i + 1 \in 1..Len(w) /\ w[i + 1] = t[i]
  BY <1>1
<1>3. ASSUME NEW X, NEW Y, NoneAfter(w, X, Y)
      PROVE  NoneAfter(t, X, Y) /\ (Head(w).do \in Y => ~Has(t, X))
  <2>1. ASSUME NEW i \in 1..Len(t), NEW j \in 1..Len(t), i < j, t[i].do \in Y PROVE t[j].do \notin X
    <3>1. i + 1 < j + 1
      BY <2>1
    <3>2. QED
      BY <1>2, <1>3, <2>1, <3>1 DEF NoneAfter
  <2>2. ASSUME Head(w).do \in Y, NEW j \in 1..Len(t) PROVE t[j].do \notin X
    <3>1. 1 \in 1..Len(w) /\ 1 < j + 1
      BY <1>1
    <3>2. QED
      BY <1>1, <1>2, <1>3, <2>2, <3>1 DEF NoneAfter
  <2>3. QED
    BY <2>1, <2>2 DEF NoneAfter, Has
<1>4. ASSUME NEW X, NEW b, Bound(w, X, b)
      PROVE  Bound(t, X, b) /\ (Head(w).do \in X => Head(w).b = b)
  BY <1>1, <1>2, <1>4 DEF Bound
<1>5. ASSUME NEW X, NEW b, HasFor(w, X, b) PROVE (Head(w).do \in X /\ Head(w).b = b) \/ HasFor(t, X, b)
  <2>1. PICK i \in 1..Len(w) : w[i].do \in X /\ w[i].b = b
    BY <1>5 DEF HasFor
  <2>2. i = 1 \/ (i - 1 \in 1..Len(t) /\ t[i - 1] = w[i])
    BY <1>1
  <2>3. QED
    BY <1>1, <2>1, <2>2 DEF HasFor
<1>6. ASSUME NEW X, NEW b, HasFor(t, X, b) PROVE HasFor(w, X, b)
  BY <1>2, <1>6 DEF HasFor
<1>7. QED
  BY <1>3, <1>4, <1>5, <1>6 DEF t

LEMMA CatOrder ==
  ASSUME NEW v \in Words, NEW w \in Words
  PROVE  /\ \A X, Y : NoneAfter(v, X, Y) /\ NoneAfter(w, X, Y) /\ (~Has(v, Y) \/ ~Has(w, X)) => NoneAfter(v \o w, X, Y)
         /\ \A X, b : Bound(v, X, b) /\ Bound(w, X, b) => Bound(v \o w, X, b)
         /\ \A X, b : HasFor(v, X, b) \/ HasFor(w, X, b) => HasFor(v \o w, X, b)
<1> DEFINE c == v \o w
<1>1. /\ Len(v) \in Nat /\ Len(w) \in Nat /\ Len(c) = Len(v) + Len(w)
      /\ \A i \in 1..Len(c) : c[i] = IF i <= Len(v) THEN v[i] ELSE w[i - Len(v)]
  BY ConcatProperties, LenProperties DEF Words
<1> HIDE DEF c
<1>2. \A i \in 1..Len(v) : i \in 1..Len(c) /\ c[i] = v[i]
  BY <1>1
<1>3. \A i \in 1..Len(w) : i + Len(v) \in 1..Len(c) /\ c[i + Len(v)] = w[i]
  BY <1>1
<1>4. ASSUME NEW i \in 1..Len(c)
      PROVE  \/ i \in 1..Len(v) /\ c[i] = v[i]
             \/ i - Len(v) \in 1..Len(w) /\ c[i] = w[i - Len(v)]
  <2>1. i <= Len(v) => i \in 1..Len(v)
    BY <1>1
  <2>2. ~(i <= Len(v)) => i - Len(v) \in 1..Len(w)
    BY <1>1
  <2>3. QED
    BY <1>1, <2>1, <2>2
<1>5. ASSUME NEW X, NEW Y, NoneAfter(v, X, Y), NoneAfter(w, X, Y), ~Has(v, Y) \/ ~Has(w, X),
             NEW i \in 1..Len(c), NEW j \in 1..Len(c), i < j, c[i].do \in Y
      PROVE  c[j].do \notin X
  <2>1. CASE i \in 1..Len(v) /\ j \in 1..Len(v)
    BY <1>2, <1>5, <2>1 DEF NoneAfter
  <2>2. CASE i \in 1..Len(v) /\ j - Len(v) \in 1..Len(w) /\ c[j] = w[j - Len(v)]
    <3>1. Has(v, Y)
      BY <1>2, <1>5, <2>2 DEF Has
    <3>2. QED
      BY <1>5, <2>2, <3>1 DEF Has
  <2>3. CASE i - Len(v) \in 1..Len(w) /\ j - Len(v) \in 1..Len(w) /\ c[i] = w[i - Len(v)] /\ c[j] = w[j - Len(v)]
    <3>1. i - Len(v) < j - Len(v)
      BY <1>1, <1>5
    <3>2. QED
      BY <1>5, <2>3, <3>1 DEF NoneAfter
  <2>4. CASE ~(i \in 1..Len(v)) /\ j \in 1..Len(v)
    BY <1>1, <1>5, <2>4
  <2>5. QED
    BY <1>4, <2>1, <2>2, <2>3, <2>4
<1>6. ASSUME NEW X, NEW b, Bound(v, X, b), Bound(w, X, b) PROVE Bound(c, X, b)
  BY <1>4, <1>6 DEF Bound
<1>7. ASSUME NEW X, NEW b, HasFor(v, X, b) \/ HasFor(w, X, b) PROVE HasFor(c, X, b)
  <2>1. CASE HasFor(v, X, b)
    BY <1>2, <2>1 DEF HasFor
  <2>2. CASE HasFor(w, X, b)
    BY <1>3, <2>2 DEF HasFor
  <2>3. QED
    BY <1>7, <2>1, <2>2
<1>8. ASSUME NEW X, NEW Y, NoneAfter(v, X, Y), NoneAfter(w, X, Y), ~Has(v, Y) \/ ~Has(w, X) PROVE NoneAfter(c, X, Y)
  BY <1>5, <1>8 DEF NoneAfter
<1>9. QED
  BY <1>6, <1>7, <1>8 DEF c

\* A word without the calls that an order is about.
LEMMA OnlyOrder ==
  ASSUME NEW w, NEW Z, Only(w, Z)
  PROVE  /\ \A X, Y : Z \cap X = {} \/ Z \cap Y = {} => NoneAfter(w, X, Y)
         /\ \A X, b : Z \cap X = {} => Bound(w, X, b) /\ ~HasFor(w, X, b)
  BY DEF Only, NoneAfter, Bound, HasFor

\* A word that puts nothing on the air.
LEMMA UndoingShape ==
  ASSUME NEW r, NEW w \in Words, Only(w, Undoing),
         Followed(w, {"halt"}, {"unmark"}),
         r # "stop" => Followed(w, {"halt"}, {"disown"}),
         ~Configured => Preceded(w, {"halt"}, {"stopActive", "cancelBroadcast"})
  PROVE  Shape(r, w)
<1>1. ASSUME NEW X, Undoing \cap X = {} PROVE ~Has(w, X) /\ \A Y : NoneAfter(w, Y, X) /\ Followed(w, X, Y)
  BY <1>1, OnlyWord, OnlyOrder
<1>2. /\ ~Has(w, {"adopt", "create", "air"}) /\ ~Has(w, {"air"}) /\ ~Has(w, {"adopt"})
      /\ NoneAfter(w, Undoing, {"create"})
      /\ NoneAfter(w, {"adopt"}, {"adopt", "start"}) /\ NoneAfter(w, {"adopt", "start"}, {"start", "mark", "air"})
      /\ NoneAfter(w, {"mark"}, {"mark", "air"}) /\ NoneAfter(w, {"air"}, {"air"})
      /\ Followed(w, {"start"}, {"mark"}) /\ Followed(w, {"adopt"}, {"air"}) /\ Followed(w, {"adopt"}, {"start"})
  BY <1>1 DEF Undoing
<1>3. QED
  BY <1>2 DEF Shape

\* Calls that no order is about may follow.
LEMMA LaunchingShape ==
  ASSUME NEW r, NEW v \in Words, Shape(r, v), ~Has(v, {"create"}), NEW w \in Words, Only(w, {"cancel", "launch"})
  PROVE  Shape(r, v \o w)
<1> DEFINE Z == {"cancel", "launch"}
<1>1. ASSUME NEW X, Z \cap X = {}
      PROVE  ~Has(w, X) /\ \A Y : NoneAfter(w, Y, X) /\ NoneAfter(w, X, Y) /\ Followed(w, X, Y) /\ Preceded(w, X, Y)
  BY <1>1, OnlyWord, OnlyOrder
<1> HIDE DEF Z
<1>2. ASSUME NEW X, Z \cap X = {}
      PROVE  /\ Has(v \o w, X) <=> Has(v, X)
             /\ \A Y : Followed(v, X, Y) => Followed(v \o w, X, Y)
             /\ \A Y : Preceded(v, X, Y) => Preceded(v \o w, X, Y)
  BY <1>1, <1>2, CatWord
<1>3. ASSUME NEW X, NEW Y, Z \cap Y = {}, NoneAfter(v, X, Y), ~Has(w, X) \/ ~Has(v, Y) PROVE NoneAfter(v \o w, X, Y)
  BY <1>1, <1>3, CatOrder
<1>4. /\ Z \cap {"halt"} = {} /\ Z \cap {"adopt", "create", "air"} = {} /\ Z \cap {"air"} = {} /\ Z \cap {"adopt"} = {}
      /\ Z \cap {"create"} = {} /\ Z \cap {"adopt", "start"} = {} /\ Z \cap {"start", "mark", "air"} = {}
      /\ Z \cap {"mark"} = {} /\ Z \cap {"mark", "air"} = {} /\ Z \cap {"start"} = {}
  BY DEF Z
<1>5. /\ ~Has(w, {"adopt"}) /\ ~Has(w, {"adopt", "start"}) /\ ~Has(w, {"mark"}) /\ ~Has(w, {"air"})
  BY <1>1, <1>4
<1>6. NoneAfter(v \o w, Undoing, {"create"})
  BY <1>3, <1>4 DEF Shape
<1>7. QED
  BY <1>2, <1>3, <1>4, <1>5, <1>6 DEF Shape

LEMMA ActiveShape ==
  ASSUME NEW b \in Args
  PROVE  /\ \A r : Shape(r, StopActiveEvent(b))
         /\ Preceded(StopActiveEvent(b), {"halt"}, {"cancelBroadcast"}) /\ Has(StopActiveEvent(b), {"cancelBroadcast"})
<1> DEFINE v == <<Call("cancelBroadcast", None)>>
           u == <<Call("forget", None)>>
           w == v \o StopStream
           x == w \o Completing(b)
<1>1. /\ v \in Words /\ Has(v, {"cancelBroadcast"}) /\ Preceded(v, {"halt"}, {"cancelBroadcast"})
      /\ \A Y : Followed(v, {"halt"}, Y)
      /\ u \in Words /\ Preceded(u, {"halt"}, {"cancelBroadcast"})
      /\ \A Y : Followed(u, {"halt"}, Y)
  BY DEF Call, Words, Calls, Names, Undoing, Args, Has, Preceded, Followed
<1>2. StopStream \in Words /\ Followed(StopStream, {"halt"}, {"unmark"}) /\ Followed(StopStream, {"halt"}, {"disown"})
  BY DEF StopStream, Call, Words, Calls, Names, Undoing, Args, Followed
<1>3. Completing(b) \in Words /\ \A Y : Followed(Completing(b), {"halt"}, Y) /\ Preceded(Completing(b), {"halt"}, Y)
  <2>1. {"complete"} \cap {"halt"} = {}
    OBVIOUS
  <2>2. QED
    BY <2>1, UndoingWords, OnlyWord
<1>4. StopActiveEvent(b) = x \o u /\ StopActiveEvent(b) \in Words /\ Only(StopActiveEvent(b), Undoing)
  BY UndoingWords DEF StopActiveEvent
<1> HIDE DEF v, u
<1>5. /\ w \in Words /\ Has(w, {"cancelBroadcast"}) /\ Preceded(w, {"halt"}, {"cancelBroadcast"})
      /\ Followed(w, {"halt"}, {"unmark"}) /\ Followed(w, {"halt"}, {"disown"})
  BY <1>1, <1>2, CatWord
<1> HIDE DEF w
<1>6. /\ x \in Words /\ Has(x, {"cancelBroadcast"}) /\ Preceded(x, {"halt"}, {"cancelBroadcast"})
      /\ Followed(x, {"halt"}, {"unmark"}) /\ Followed(x, {"halt"}, {"disown"})
  BY <1>3, <1>5, CatWord
<1> HIDE DEF x
<1>7. LET y == x \o u
      IN  /\ y \in Words /\ Has(y, {"cancelBroadcast"}) /\ Preceded(y, {"halt"}, {"cancelBroadcast"})
          /\ Followed(y, {"halt"}, {"unmark"}) /\ Followed(y, {"halt"}, {"disown"})
  BY <1>1, <1>6, CatWord
<1>8. Preceded(StopActiveEvent(b), {"halt"}, {"stopActive", "cancelBroadcast"})
  BY <1>4, <1>7 DEF Preceded
<1>9. ASSUME NEW r PROVE Shape(r, StopActiveEvent(b))
  BY <1>4, <1>7, <1>8, UndoingShape
<1>10. QED
  BY <1>4, <1>7, <1>9

LEMMA RequestShapes ==
  ASSUME NEW b \in Args
  PROVE  /\ Shape("stop", StopRequest(b)) /\ Shape("end", StopActiveEvent(b))
         /\ Configured => Shape("complete", CompleteActive(b))
         /\ Configured => Shape("go-live-now", Takeover(b) \o <<Call("create", None)>>)
         /\ \A r : Shape(r, <<>>) /\ Shape(r, Completing(b)) /\ Shape(r, Refusal(r))
         /\ Shape("manual", <<Call("block", None), Call("start", b), Call("mark", None)>>)
         /\ Configured => Shape("scheduled", Airing(b)) /\ Shape("go-live-now", Broadcasting(b))
         /\ \A i \in Intents \cup {NoIntent} : Shape("resume", Resuming(i))
         /\ Shape("resume", <<Call("resume", None)>>)
<1>1. Shape("stop", StopRequest(b))
  BY DEF StopRequest, Call, NoneAfter, Followed, Preceded, Has, Shape
<1>2. ASSUME Configured PROVE Shape("complete", CompleteActive(b))
  BY <1>2 DEF CompleteActive, Call, NoneAfter, Followed, Preceded, Has, Shape
<1>3. Shape("manual", <<Call("block", None), Call("start", b), Call("mark", None)>>)
  BY DEF Call, NoneAfter, Followed, Preceded, Has, Shape
<1>4. Shape("resume", <<Call("resume", None)>>)
  BY DEF Call, NoneAfter, Followed, Preceded, Has, Shape
<1>5. ASSUME NEW r PROVE Shape(r, <<>>)
  <2>1. \A X, Y : NoneAfter(<<>>, X, Y)
    BY DEF NoneAfter
  <2>2. QED
    BY <2>1, EmptyWord DEF Shape
<1>6. ASSUME NEW r, NEW w \in Words, Only(w, Undoing \ {"halt"}) PROVE Shape(r, w)
  <2>1. Only(w, Undoing)
    BY <1>6 DEF Only
  <2>2. \A Y : Followed(w, {"halt"}, Y) /\ Preceded(w, {"halt"}, Y)
    BY <1>6, OnlyWord
  <2>3. QED
    BY <2>1, <2>2, UndoingShape
<1>7. ASSUME NEW r PROVE Shape(r, Completing(b)) /\ Shape(r, Refusal(r))
  <2>1. Completing(b) \in Words /\ Only(Completing(b), Undoing \ {"halt"})
    BY UndoingWords DEF Only, Undoing
  <2>2. Refusal(r) \in Words /\ Only(Refusal(r), Undoing \ {"halt"})
    BY RefusalWord DEF Only, Undoing
  <2>3. QED
    BY <1>6, <2>1, <2>2
<1>8. ASSUME Configured PROVE Shape("go-live-now", Takeover(b) \o <<Call("create", None)>>)
  <2> DEFINE w == <<Call("create", None)>>
  <2>1. /\ w \in Words /\ ~Has(w, Undoing) /\ Only(w, {"create"})
        /\ \A X, Y : Followed(w, {"halt"}, Y) /\ Followed(w, {"start"}, Y)
    BY DEF Call, Words, Calls, Names, Undoing, Args, Has, Only, Followed
  <2>2. Takeover(b) \in Words /\ Only(Takeover(b), Undoing)
    BY UndoingWords
  <2>3. Followed(Takeover(b), {"halt"}, {"unmark"}) /\ Followed(Takeover(b), {"halt"}, {"disown"})
    <3>1. LET t == <<Call("halt", None), Call("unblock", None), Call("cancel", None), Call("complete", b),
                     Call("disown", None), Call("unmark", None)>>
          IN  Followed(t, {"halt"}, {"unmark"}) /\ Followed(t, {"halt"}, {"disown"})
      BY DEF Call, Followed
    <3>2. QED
      BY <3>1, EmptyWord DEF Takeover
  <2>4. NoneAfter(w, Undoing, {"create"})
    BY DEF Call, NoneAfter
  <2>5. ~Has(Takeover(b), {"create"}) /\ NoneAfter(Takeover(b), Undoing, {"create"})
    <3>1. Undoing \cap {"create"} = {}
      BY DEF Undoing
    <3>2. QED
      BY <2>2, <3>1, OnlyWord, OnlyOrder
  <2> DEFINE c == Takeover(b) \o w
  <2>6. c \in Words /\ Followed(c, {"halt"}, {"unmark"}) /\ Followed(c, {"halt"}, {"disown"})
    BY <2>1, <2>2, <2>3, CatWord
  <2>7. NoneAfter(c, Undoing, {"create"})
    BY <2>1, <2>2, <2>4, <2>5, CatOrder
  <2>8. Only(c, Undoing \cup {"create"})
    <3>1. Only(Takeover(b), Undoing \cup {"create"}) /\ Only(w, Undoing \cup {"create"})
      BY <2>1, <2>2 DEF Only
    <3>2. QED
      BY <2>1, <2>2, <3>1, CatWord
  <2> HIDE DEF c
  <2>9. ASSUME NEW X, (Undoing \cup {"create"}) \cap X = {}
        PROVE  ~Has(c, X) /\ \A Y : NoneAfter(c, Y, X) /\ Followed(c, X, Y)
    BY <2>8, <2>9, OnlyWord, OnlyOrder
  <2>10. /\ ~Has(c, {"air"}) /\ NoneAfter(c, {"adopt", "start"}, {"start", "mark", "air"})
         /\ NoneAfter(c, {"mark"}, {"mark", "air"}) /\ NoneAfter(c, {"air"}, {"air"}) /\ Followed(c, {"start"}, {"mark"})
         /\ NoneAfter(c, {"adopt"}, {"adopt", "start"}) /\ Followed(c, {"adopt"}, {"start"})
    BY <2>9 DEF Undoing
  <2>11. Shape("go-live-now", c)
    BY <1>8, <2>6, <2>7, <2>10 DEF Shape
  <2>12. QED
    BY <2>11 DEF c
<1>9. Shape("end", StopActiveEvent(b))
  BY ActiveShape
<1>10. ASSUME NEW c \in Args
       PROVE  Launching(c) \in Words /\ Only(Launching(c), {"cancel", "launch"})
  BY DEF Launching, Call, Words, Calls, Names, Doings, Args, Only
<1>11. ASSUME Configured PROVE Shape("scheduled", Airing(b)) /\ Shape("go-live-now", Broadcasting(b))
  <2> DEFINE v == <<Call("adopt", b), Call("block", None), Call("start", b), Call("mark", b), Call("air", b)>>
             u == <<Call("adopt", b), Call("block", None), Call("start", b), Call("mark", b)>>
  <2>1. v \in Words /\ ~Has(v, {"create"}) /\ u \in Words /\ ~Has(u, {"create"})
    BY DEF Call, Words, Calls, Names, Doings, Args, Has
  <2>2. Shape("scheduled", v)
    BY <1>11 DEF Call, NoneAfter, Followed, Preceded, Has, Shape
  <2>3. Shape("go-live-now", u)
    BY <1>11 DEF Call, NoneAfter, Followed, Preceded, Has, Shape
  <2> HIDE DEF v, u
  <2>4. Shape("scheduled", v \o Launching(b)) /\ Shape("go-live-now", u \o Launching(b))
    BY <1>10, <2>1, <2>2, <2>3, LaunchingShape
  <2>5. QED
    BY <2>4 DEF Airing, Broadcasting, v, u
<1>12. ASSUME NEW i \in Intents \cup {NoIntent} PROVE Shape("resume", Resuming(i))
  <2>1. i.to \in Args /\ i.b \in Args
    BY DEF Intents, NoIntent, Args
  <2> DEFINE v == <<Call("block", None), Call("start", i.to)>>
  <2>2. v \in Words /\ ~Has(v, {"create"})
    BY <2>1 DEF Call, Words, Calls, Names, Doings, Args, Has
  <2>3. Shape("resume", v)
    BY DEF Call, NoneAfter, Followed, Preceded, Has, Shape
  <2>4. Relaunching(i) \in Words /\ Only(Relaunching(i), {"cancel", "launch"})
    BY <1>10, <2>1, EmptyWord DEF Relaunching
  <2> HIDE DEF v
  <2>5. Shape("resume", v \o Relaunching(i))
    BY <2>2, <2>3, <2>4, LaunchingShape
  <2>6. QED
    BY <2>5 DEF Resuming, v
<1>13. QED
  BY <1>1, <1>2, <1>3, <1>4, <1>5, <1>7, <1>8, <1>9, <1>11, <1>12

LEMMA ShapeNext ==
  ASSUME TypeInv, ShapeInv, [Next]_vars
  PROVE  ShapeInv'
<1>1. /\ activeB \in Args /\ airing \in Args /\ config \in Args /\ Broadcasts \subseteq Args /\ Scheduled \subseteq Args
      /\ intent \in Intents \cup {NoIntent} /\ None \in Args
  BY StreamServerAssumption DEF TypeInv, Typed, Args, Broadcasts
<1>2. CASE Requesting
  <2>1. PICK p \in Processes, what \in Requests, w \in Words : Begin(p, what, w) /\ Turns(p, what, w)
    BY <1>2, RequestIsOne
  <2>2. w \in Words
    BY <2>1, RequestWords DEF TypeInv
  <2>3. todo'[p] = w /\ request'[p] = what /\ \A q \in Processes : q # p => todo'[q] = todo[q] /\ request'[q] = request[q]
    BY <2>1, <2>2, BeginFacts DEF TypeInv
  <2>4. Shape(what, w)
    BY <1>1, <2>1, RequestShapes DEF Turns
  <2>5. QED
    BY <2>3, <2>4 DEF ShapeInv
<1>3. ASSUME NEW p \in Processes, CallStep(p) PROVE ShapeInv'
  <2> DEFINE n == Head(todo[p]).do
             t == Tail(todo[p])
  <2>1. PICK w \in Words : Return(p, w) /\ Becomes(p, w)
    BY <1>3, CallWords
  <2>2. /\ todo'[p] = w /\ request'[p] = (IF w = <<>> THEN "none" ELSE request[p])
        /\ \A q \in Processes : q # p => todo'[q] = todo[q] /\ request'[q] = request[q]
    BY <2>1, ReturnFacts DEF TypeInv
  <2>3. todo[p] \in Words /\ todo[p] # <<>> /\ Shape(request[p], todo[p]) /\ Legal(request[p], todo[p])
    BY <1>3, CallIsOne DEF TypeInv, Typed, Worded, Busy, ShapeInv
  <2>4. /\ t \in Words
        /\ \A X : Has(t, X) => Has(todo[p], X)
        /\ \A X, Y : Preceded(todo[p], X, Y) => n \notin X /\ (n \notin Y => Preceded(t, X, Y))
        /\ \A X, Y : Followed(todo[p], X, Y) => Followed(t, X, Y)
        /\ \A X : Only(todo[p], X) => n \in X /\ Only(t, X)
    BY <2>3, TailWord
  <2>5. \A X, Y : NoneAfter(todo[p], X, Y) => NoneAfter(t, X, Y)
    BY <2>3, TailOrder
  <2>6. ASSUME ~Configured => n \notin {"stopActive", "cancelBroadcast"}
        PROVE  Shape(request[p], t)
    BY <2>3, <2>4, <2>5, <2>6 DEF Shape
  <2>7. Shape(request[p], w)
    <3>1. CASE w = t /\ n \in (Undoing \cup Doings) \ {"stopActive"} /\ (n = "cancelBroadcast" => Configured)
      BY <2>6, <3>1
    <3>2. CASE w = <<>> \/ w = Refusal(request[p])
      BY <1>1, <3>2, RequestShapes
    <3>3. CASE n = "create" /\ \E b \in Broadcasts \ Scheduled : w = Broadcasting(b)
      <4>1. Configured
        <5>1. Has(todo[p], {"adopt", "create", "air"})
          BY <2>3, <3>3, TailWord
        <5>2. QED
          BY <2>3, <5>1 DEF Shape
      <4>2. request[p] = "go-live-now"
        BY <2>3, <2>4, <3>3 DEF Legal, Undoing, Doings
      <4>3. QED
        BY <1>1, <3>3, <4>1, <4>2, RequestShapes
    <3>4. CASE n = "stopActive" /\ w = StopActiveEvent(airing) \o t
      <4> DEFINE v == StopActiveEvent(airing)
      <4>1. /\ v \in Words /\ Only(v, Undoing) /\ Shape(request[p], v)
            /\ Preceded(v, {"halt"}, {"cancelBroadcast"}) /\ Has(v, {"cancelBroadcast"})
        BY <1>1, UndoingWords, ActiveShape
      <4> HIDE DEF v
      <4>2. Preceded(v, {"halt"}, {"stopActive", "cancelBroadcast"}) /\ Has(v, {"stopActive", "cancelBroadcast"})
        BY <4>1 DEF Preceded, Has
      <4>3. Preceded(v \o t, {"halt"}, {"stopActive", "cancelBroadcast"})
        BY <2>4, <4>1, <4>2, CatWord
      <4>4. \A X, Y : Followed(v, X, Y) /\ Followed(todo[p], X, Y) => Followed(v \o t, X, Y)
        BY <2>4, <4>1, CatWord
      <4>5. \A X : Undoing \cap X = {} => ~Has(v, X)
        BY <4>1, OnlyWord
      <4>6. \A X, Y : NoneAfter(v, X, Y) /\ NoneAfter(todo[p], X, Y) /\ ~Has(v, Y) => NoneAfter(v \o t, X, Y)
        BY <2>4, <2>5, <4>1, CatOrder
      <4>7. /\ ~Has(v, {"create"}) /\ ~Has(v, {"adopt", "start"}) /\ ~Has(v, {"start", "mark", "air"})
            /\ ~Has(v, {"mark", "air"}) /\ ~Has(v, {"air"}) /\ ~Has(v, {"adopt", "create", "air"}) /\ ~Has(v, {"adopt"})
        BY <4>5 DEF Undoing
      <4>8. \A X : Has(v \o t, X) => Has(v, X) \/ Has(todo[p], X)
        BY <2>4, <4>1, CatWord
      <4>9. Shape(request[p], v \o t)
        BY <2>3, <4>1, <4>3, <4>4, <4>6, <4>7, <4>8 DEF Shape
      <4>10. QED
        BY <3>4, <4>9 DEF v
    <3>5. CASE n = "resume" /\ w = Resuming(intent)
      <4>1. request[p] = "resume"
        BY <2>3, <2>4, <3>5 DEF Legal, Undoing, Doings
      <4>2. QED
        BY <1>1, <3>5, <4>1, RequestShapes
    <3>6. QED
      BY <2>1, <3>1, <3>2, <3>3, <3>4, <3>5 DEF Becomes
  <2>8. Shape(request'[p], w)
    BY <1>1, <2>2, <2>7, RequestShapes
  <2>9. QED
    BY <2>2, <2>8 DEF ShapeInv
<1>4. CASE Aside
  BY <1>4, AsideIsQuiet DEF TypeInv, ShapeInv, Kept
<1>5. CASE Crash
  <2>1. /\ todo' = [p \in Processes |-> IF p = Boot /\ intent # NoIntent THEN <<Call("resume", None)>> ELSE <<>>]
        /\ request' = [p \in Processes |-> IF p = Boot THEN "resume" ELSE "none"]
    BY <1>5 DEF Crash
  <2>2. QED
    BY <1>1, <2>1, RequestShapes DEF ShapeInv
<1>6. QED
  BY <1>2, <1>3, <1>4, <1>5, StepKinds

LEMMA ShapeAlways == Spec => []ShapeInv
<1>1. Init => ShapeInv
  BY RequestShapes DEF Init, ShapeInv, Args
<1>2. QED
  BY <1>1, ShapeNext, TypeInvAlways, PTL DEF Spec

-----------------------------------------------------------------------------
(* Starting requests *)

\* A request that is only to start takes nothing off the air unless it is refused.
UnrefusedInv ==
  Unmarked({"refused"}) =>
    \A p \in Processes :
      request[p] \in {"manual", "scheduled", "resume", "none"} => Only(todo[p], Doings \cup {"resume"})

LEMMA UnrefusedNext ==
  ASSUME TypeInv, UnrefusedInv, [Next]_vars
  PROVE  UnrefusedInv'
<1> DEFINE Z == Doings \cup {"resume"}
<1> SUFFICES ASSUME Unmarked({"refused"})', NEW q \in Processes,
                    request'[q] \in {"manual", "scheduled", "resume", "none"}
             PROVE  Only(todo'[q], Z)
  BY DEF UnrefusedInv
<1>1. Only(<<>>, Z) /\ \A w : Only(w, Doings) \/ Only(w, {"resume"}) => Only(w, Z)
  BY DEF Only
<1>2. /\ config \in Args /\ Scheduled \subseteq Args /\ intent \in Intents \cup {NoIntent}
  BY StreamServerAssumption DEF TypeInv, Typed, Args, Broadcasts
<1>3. CASE Requesting
  <2>1. PICK p \in Processes, what \in Requests, w \in Words : Begin(p, what, w) /\ Turns(p, what, w)
    BY <1>3, RequestIsOne
  <2>2. w \in Words
    BY <2>1, RequestWords DEF TypeInv
  <2>3. /\ todo'[p] = w /\ request'[p] = what
        /\ q # p => todo'[q] = todo[q] /\ request'[q] = request[q]
        /\ marred \subseteq marred'
    BY <2>1, <2>2, BeginFacts DEF TypeInv
  <2>4. what \in {"manual", "scheduled", "resume", "none"} => Only(w, Z)
    BY <1>1, <1>2, <2>1, StartingWords DEF Turns
  <2>5. QED
    BY <2>3, <2>4 DEF UnrefusedInv, Unmarked
<1>4. ASSUME NEW p \in Processes, CallStep(p) PROVE Only(todo'[q], Z)
  <2> DEFINE n == Head(todo[p]).do
             t == Tail(todo[p])
  <2>1. PICK w \in Words : Return(p, w) /\ Becomes(p, w)
    BY <1>4, CallWords
  <2>2. /\ todo'[p] = w /\ request'[p] = (IF w = <<>> THEN "none" ELSE request[p])
        /\ q # p => todo'[q] = todo[q] /\ request'[q] = request[q]
    BY <2>1, ReturnFacts DEF TypeInv
  <2>3. marred \subseteq marred'
    BY <1>4, CallHasEffect DEF Effect, TypeInv
  <2>4. CASE q # p \/ w = <<>>
    BY <1>1, <2>2, <2>3, <2>4 DEF UnrefusedInv, Unmarked
  <2>5. CASE q = p /\ w # <<>>
    <3>1. Only(todo[p], Z)
      BY <2>2, <2>3, <2>5 DEF UnrefusedInv, Unmarked
    <3>2. todo[p] \in Words /\ todo[p] # <<>>
      BY <1>4, CallIsOne DEF TypeInv, Typed, Busy
    <3>3. n \in Z /\ Only(t, Z)
      BY <3>1, <3>2, TailWord
    <3>4. w = t \/ w = Resuming(intent)
      BY <2>1, <2>5, <3>3 DEF Becomes, Unmarked, Doings
    <3>5. QED
      BY <1>1, <1>2, <2>2, <2>5, <3>3, <3>4, StartingWords
  <2>6. QED
    BY <2>4, <2>5
<1>5. CASE Aside
  BY <1>5, AsideIsQuiet DEF TypeInv, UnrefusedInv, Unmarked, Kept
<1>6. CASE Crash
  <2>1. todo' = [p \in Processes |-> IF p = Boot /\ intent # NoIntent THEN <<Call("resume", None)>> ELSE <<>>]
    BY <1>6 DEF Crash
  <2>2. Only(<<Call("resume", None)>>, {"resume"})
    BY DEF Call, Only
  <2>3. QED
    BY <1>1, <2>1, <2>2
<1>7. QED
  BY <1>3, <1>4, <1>5, <1>6, StepKinds

\* How far a broadcast has come that p puts on the air; the start is refused
\* if something streams.
Ascending(p) ==
  LET w == todo[p]
  IN  \/ Has(w, {"start"}) /\ stream # Off
      \/ \E b \in Broadcasts :
           /\ Bound(w, {"adopt", "start", "mark", "air"}, b)
           /\ Has(w, {"adopt"}) \/ (config = b /\ activeB = b)
           /\ Has(w, {"start"}) \/ stream = b

AscentInv ==
  Unmarked({"raced", "refused", "failed"}) =>
    \A p \in Processes :
      request[p] \in {"go-live-now", "scheduled"} /\ Has(todo[p], {"start", "mark", "air"}) => Ascending(p)

LEMMA BoundWords ==
  ASSUME NEW b \in Args
  PROVE  \A w \in {Airing(b), Broadcasting(b)} :
           Bound(w, {"adopt", "start", "mark", "air"}, b) /\ Has(w, {"adopt"}) /\ Has(w, {"start"})
<1> DEFINE v == <<Call("adopt", b), Call("block", None), Call("start", b), Call("mark", b), Call("air", b)>>
           u == <<Call("adopt", b), Call("block", None), Call("start", b), Call("mark", b)>>
           X == {"adopt", "start", "mark", "air"}
<1>1. v \in Words /\ Bound(v, X, b) /\ Has(v, {"adopt"}) /\ Has(v, {"start"})
  BY DEF Call, Words, Calls, Names, Doings, Args, Bound, Has
<1>2. u \in Words /\ Bound(u, X, b) /\ Has(u, {"adopt"}) /\ Has(u, {"start"})
  BY DEF Call, Words, Calls, Names, Doings, Args, Bound, Has
<1>3. Launching(b) \in Words /\ Bound(Launching(b), X, b)
  BY DEF Launching, Call, Words, Calls, Names, Doings, Args, Bound
<1> HIDE DEF v, u, X
<1>4. Bound(v \o Launching(b), X, b) /\ Bound(u \o Launching(b), X, b)
  BY <1>1, <1>2, <1>3, CatOrder
<1>5. \A Y : (Has(v, Y) => Has(v \o Launching(b), Y)) /\ (Has(u, Y) => Has(u \o Launching(b), Y))
  BY <1>1, <1>2, <1>3, CatWord
<1>6. QED
  BY <1>1, <1>2, <1>4, <1>5 DEF Airing, Broadcasting, v, u, X

\* A word that takes things off the air starts nothing.
LEMMA UndoingStartsNothing ==
  ASSUME NEW w, Only(w, Undoing \cup {"create"}) \/ Only(w, Undoing)
  PROVE  ~Has(w, {"start", "mark", "air"}) /\ ~Has(w, {"start", "mark"}) /\ ~Has(w, {"resume"}) /\ ~Has(w, {"air"})
         /\ ~Has(w, {"start"})
  BY DEF Only, Has, Undoing

LEMMA AscentNext ==
  ASSUME TypeInv, AscentInv, [Next]_vars
  PROVE  AscentInv'
<1> DEFINE S == {"start", "mark", "air"}
           X == {"adopt", "start", "mark", "air"}
<1> SUFFICES ASSUME Unmarked({"raced", "refused", "failed"})', NEW q \in Processes,
                    request'[q] \in {"go-live-now", "scheduled"}, Has(todo'[q], S)
             PROVE  Ascending(q)'
  BY DEF AscentInv
<1>1. CASE Requesting
  <2>1. PICK p \in Processes, what \in Requests, w \in Words : Begin(p, what, w) /\ Turns(p, what, w)
    BY <1>1, RequestIsOne
  <2>2. w \in Words /\ activeB \in Args
    BY <2>1, RequestWords DEF TypeInv, Typed
  <2>3. /\ todo'[p] = w /\ request'[p] = what
        /\ q # p => todo'[q] = todo[q] /\ request'[q] = request[q]
        /\ q # p /\ Busy(q) /\ (what \in Starting \/ request[q] \in Starting) => "raced" \in marred'
        /\ marred \subseteq marred'
    BY <2>1, <2>2, BeginFacts DEF TypeInv
  <2>4. CASE q # p
    <3>1. Busy(q) /\ request[q] \in Starting
      BY <2>3, <2>4, EmptyWord DEF Busy, Starting
    <3>2. QED
      BY <2>3, <2>4, <3>1 DEF Unmarked
  <2>5. CASE q = p
    <3>1. CASE what = "go-live-now"
      <4>1. Only(w, Undoing) \/ Only(w, Undoing \cup {"create"})
        <5>1. w = Takeover(activeB) \o <<Call("create", None)>>
          BY <2>1, <3>1 DEF Turns
        <5>2. Takeover(activeB) \in Words /\ Only(Takeover(activeB), Undoing \cup {"create"})
          BY <2>2, UndoingWords DEF Only
        <5>3. LET v == <<Call("create", None)>> IN v \in Words /\ Only(v, Undoing \cup {"create"})
          BY DEF Call, Words, Calls, Names, Args, Only
        <5>4. QED
          BY <5>1, <5>2, <5>3, CatWord
      <4>2. QED
        BY <2>3, <2>5, <4>1, UndoingStartsNothing
    <3>2. CASE what = "scheduled"
      <4>1. PICK b \in Broadcasts : w = Airing(b)
        BY <2>1, <3>2, StreamServerAssumption DEF Turns, Broadcasts
      <4>2. b \in Args
        BY DEF Args
      <4>3. QED
        BY <2>3, <2>5, <4>1, <4>2, BoundWords DEF Ascending
    <3>3. QED
      BY <2>3, <2>5, <3>1, <3>2
  <2>6. QED
    BY <2>4, <2>5
<1>2. ASSUME NEW p \in Processes, CallStep(p) PROVE Ascending(q)'
  <2> DEFINE n == Head(todo[p]).do
             a == Head(todo[p]).b
             t == Tail(todo[p])
  <2>1. PICK w \in Words : Return(p, w) /\ Becomes(p, w)
    BY <1>2, CallWords
  <2>2. /\ todo'[p] = w /\ request'[p] = (IF w = <<>> THEN "none" ELSE request[p])
        /\ q # p => todo'[q] = todo[q] /\ request'[q] = request[q]
    BY <2>1, ReturnFacts DEF TypeInv
  <2>3. Busy(p) /\ todo[p] \in Words /\ todo[p] # <<>> /\ Legal(request[p], todo[p])
    BY <1>2, CallIsOne DEF TypeInv, Typed, Worded, Busy
  <2>4. Effect(p)
    BY <1>2, CallHasEffect DEF TypeInv
  <2>5. Unmarked({"raced", "refused", "failed"})
    BY <2>4 DEF Effect, Unmarked
  <2>6. q = p
    <3>1. ASSUME q # p PROVE FALSE
      <4>1. Busy(q) /\ request[q] \in Starting
        BY <2>2, <3>1, EmptyWord DEF Busy, Starting
      <4>2. QED
        BY <2>3, <2>5, <3>1, <4>1 DEF TypeInv, Noticed, Unmarked
    <3>2. QED
      BY <3>1
  <2>7. request[p] \in {"go-live-now", "scheduled"} /\ Has(w, S)
    BY <2>2, <2>6
  <2>8. /\ t \in Words
        /\ \A Y : Has(todo[p], Y) <=> n \in Y \/ Has(t, Y)
        /\ \A Y : Only(todo[p], Y) <=> n \in Y /\ Only(t, Y)
    BY <2>3, TailWord
  <2>9. \A Y, b : Bound(todo[p], Y, b) => Bound(t, Y, b) /\ (n \in Y => a = b)
    BY <2>3, TailOrder
  <2>10. CASE w = t /\ (n = "start" => stream = Off)
    <3>1. Has(todo[p], S)
      BY <2>7, <2>8, <2>10
    <3>2. Only(todo[p], Doings)
      BY <2>3, <2>7, <3>1, UndoingStartsNothing, OnlyWord DEF Legal
    <3>3. n \in Doings
      BY <2>8, <3>2
    <3>4. Ascending(p)
      BY <2>5, <2>7, <3>1 DEF AscentInv
    <3>5. /\ stream' = (IF n = "start" /\ stream = Off THEN a ELSE stream)
          /\ config' = (IF n = "adopt" THEN a ELSE config)
          /\ activeB' = (IF n = "adopt" THEN a ELSE activeB)
      BY <2>4, <3>3 DEF Effect, Doings
    <3>6. CASE Has(todo[p], {"start"}) /\ stream # Off
      <4>1. Has(t, {"start"}) /\ stream' # Off
        BY <2>8, <2>10, <3>5, <3>6
      <4>2. QED
        BY <2>2, <2>6, <2>10, <4>1 DEF Ascending
    <3>7. CASE \E b \in Broadcasts :
                 /\ Bound(todo[p], X, b)
                 /\ Has(todo[p], {"adopt"}) \/ (config = b /\ activeB = b)
                 /\ Has(todo[p], {"start"}) \/ stream = b
      <4>1. PICK b \in Broadcasts :
                 /\ Bound(todo[p], X, b)
                 /\ Has(todo[p], {"adopt"}) \/ (config = b /\ activeB = b)
                 /\ Has(todo[p], {"start"}) \/ stream = b
        BY <3>7
      <4>2. Bound(t, X, b) /\ (n \in {"adopt", "start"} => a = b)
        BY <2>9, <4>1
      <4>3. Has(t, {"adopt"}) \/ (config' = b /\ activeB' = b)
        BY <2>8, <3>5, <4>1, <4>2
      <4>4. Has(t, {"start"}) \/ stream' = b
        BY <2>8, <2>10, <3>5, <4>1, <4>2
      <4>5. QED
        BY <2>2, <2>6, <2>10, <4>2, <4>3, <4>4 DEF Ascending
    <3>8. QED
      BY <3>4, <3>6, <3>7 DEF Ascending
  <2>11. CASE \E b \in Broadcasts \ Scheduled : w = Broadcasting(b)
    <3>1. PICK b \in Broadcasts : w = Broadcasting(b)
      BY <2>11
    <3>2. b \in Args
      BY DEF Args
    <3>3. QED
      BY <2>2, <2>6, <3>1, <3>2, BoundWords DEF Ascending
  <2>12. CASE n = "stopActive" /\ w = StopActiveEvent(airing) \o t
    <3>1. Only(t, Undoing) \/ Only(t, Undoing \cup {"create"})
      BY <2>3, <2>8, <2>12 DEF Legal, Doings
    <3>2. StopActiveEvent(airing) \in Words /\ Only(StopActiveEvent(airing), Undoing)
      BY UndoingWords DEF TypeInv, Typed
    <3>3. ~Has(w, S)
      <4>1. ~Has(t, S) /\ ~Has(StopActiveEvent(airing), S)
        BY <3>1, <3>2, UndoingStartsNothing
      <4>2. QED
        BY <2>8, <2>12, <3>2, <4>1, CatWord
    <3>4. QED
      BY <2>7, <3>3
  <2>13. CASE w = <<>>
    BY <2>7, <2>13, EmptyWord
  <2>14. CASE n = "resume"
    BY <2>3, <2>7, <2>8, <2>14 DEF Legal, Undoing, Doings
  <2>15. QED
    BY <2>1, <2>10, <2>11, <2>12, <2>13, <2>14 DEF Becomes, Unmarked
<1>3. CASE Aside
  <2>1. Kept /\ stream' = stream /\ marred \subseteq marred'
    BY <1>3, AsideIsQuiet DEF TypeInv, Unmarked
  <2>2. QED
    BY <2>1 DEF AscentInv, Ascending, Kept, Unmarked
<1>4. CASE Crash
  BY <1>4 DEF Crash
<1>5. QED
  BY <1>1, <1>2, <1>3, <1>4, StepKinds

-----------------------------------------------------------------------------
(* EventOwnsStream *)

\* p will make the scheduler forget its event, or be seen to take over from it.
Owes(p) ==
  \/ Has(todo[p], {"stopActive", "forget"})
  \/ request[p] \in {"complete", "go-live-now"} /\ Has(todo[p], {"disown"})

EventInv ==
  Unmarked({"raced", "refused", "overtaken", "failed"}) =>
    /\ airing # None =>
         /\ Configured
         /\ (stream = airing /\ activeB = airing) \/ \E p \in Processes : Owes(p)
    /\ \A p \in Processes :
         /\ airing # None /\ Busy(p) /\ request[p] \in {"stop", "end"} => Has(todo[p], {"stopActive", "forget"})
         /\ Busy(p) /\ request[p] = "resume" => airing = None
         /\ Has(todo[p], {"air"}) => airing = None

LEMMA EventBegins ==
  ASSUME TypeInv, ShapeInv', EventInv, Requesting
  PROVE  EventInv'
<1> SUFFICES ASSUME Unmarked({"raced", "refused", "overtaken", "failed"})'
             PROVE  /\ airing' # None =>
                         /\ Configured
                         /\ (stream' = airing' /\ activeB' = airing') \/ \E p \in Processes : Owes(p)'
                    /\ \A p \in Processes :
                         /\ airing' # None /\ Busy(p)' /\ request'[p] \in {"stop", "end"} =>
                              Has(todo'[p], {"stopActive", "forget"})
                         /\ Busy(p)' /\ request'[p] = "resume" => airing' = None
                         /\ Has(todo'[p], {"air"}) => airing' = None
  BY DEF EventInv
<1>1. PICK p \in Processes, what \in Requests, w \in Words : Begin(p, what, w) /\ Turns(p, what, w)
  BY RequestIsOne
<1>2. w \in Words /\ activeB \in Args /\ airing \in Args
  BY <1>1, RequestWords DEF TypeInv, Typed
<1>3. /\ ~Busy(p) /\ todo'[p] = w /\ request'[p] = what
      /\ \A q \in Processes : q # p => todo'[q] = todo[q] /\ request'[q] = request[q]
      /\ marred \subseteq marred'
  BY <1>1, <1>2, BeginFacts DEF TypeInv
<1>4. stream' = stream /\ airing' = airing
  BY RequestIsOne
<1>5. /\ airing # None => Configured /\ ((stream = airing /\ activeB = airing) \/ \E q \in Processes : Owes(q))
      /\ \A q \in Processes :
           /\ airing # None /\ Busy(q) /\ request[q] \in {"stop", "end"} => Has(todo[q], {"stopActive", "forget"})
           /\ Busy(q) /\ request[q] = "resume" => airing = None
           /\ Has(todo[q], {"air"}) => airing = None
  BY <1>3 DEF EventInv, Unmarked
<1>6. what \in {"stop", "end"} => Has(w, {"stopActive", "forget"})
  <2> DEFINE D == {"stopActive", "forget"}
  <2>1. /\ {"halt", "unblock", "unmark", "stopActive"} \cap D # {}
        /\ {"halt", "unblock", "unmark", "forget"} \cap D # {}
    OBVIOUS
  <2> HIDE DEF D
  <2>2. Has(StopRequest(activeB), D) /\ Has(StopActiveEvent(airing), D)
    BY <1>2, <2>1, WordsStop
  <2>3. QED
    BY <1>1, <2>2 DEF Turns, D
<1>7. what # "resume" /\ (what = "scheduled" => airing = None)
  BY <1>1 DEF Turns
<1>8. what # "scheduled" => ~Has(w, {"air"})
  BY <1>3 DEF ShapeInv, Shape
<1>9. ASSUME NEW q \in Processes
      PROVE  /\ airing' # None /\ Busy(q)' /\ request'[q] \in {"stop", "end"} => Has(todo'[q], {"stopActive", "forget"})
             /\ Busy(q)' /\ request'[q] = "resume" => airing' = None
             /\ Has(todo'[q], {"air"}) => airing' = None
  <2>1. CASE q = p
    BY <1>3, <1>4, <1>6, <1>7, <1>8, <2>1
  <2>2. CASE q # p
    BY <1>3, <1>4, <1>5, <2>2 DEF Busy
  <2>3. QED
    BY <2>1, <2>2
<1>10. ASSUME airing # None PROVE (stream' = airing' /\ activeB' = airing') \/ \E q \in Processes : Owes(q)'
  <2>1. CASE \E q \in Processes : Owes(q)
    <3>1. PICK q \in Processes : Owes(q)
      BY <2>1
    <3>2. q # p
      BY <1>3, <3>1, EmptyWord DEF Owes, Busy
    <3>3. Owes(q)'
      BY <1>3, <3>1, <3>2 DEF Owes
    <3>4. QED
      BY <3>3
  <2>2. CASE what = "stop"
    BY <1>3, <1>6, <2>2 DEF Owes
  <2>3. CASE stream = airing /\ activeB = airing /\ what # "stop"
    <3>1. activeB' = activeB
      BY <1>1, <2>3 DEF Turns
    <3>2. QED
      BY <1>4, <2>3, <3>1
  <2>4. QED
    BY <1>5, <1>10, <2>1, <2>2, <2>3
<1>11. QED
  BY <1>4, <1>5, <1>9, <1>10

LEMMA EventCalls ==
  ASSUME TypeInv, ShapeInv, ShapeInv', UnrefusedInv, AscentInv, EventInv, NEW p \in Processes, CallStep(p)
  PROVE  EventInv'
<1> DEFINE n == Head(todo[p]).do
           a == Head(todo[p]).b
           t == Tail(todo[p])
           D == {"stopActive", "forget"}
<1> SUFFICES ASSUME Unmarked({"raced", "refused", "overtaken", "failed"})'
             PROVE  /\ airing' # None =>
                         /\ Configured
                         /\ (stream' = airing' /\ activeB' = airing') \/ \E q \in Processes : Owes(q)'
                    /\ \A q \in Processes :
                         /\ airing' # None /\ Busy(q)' /\ request'[q] \in {"stop", "end"} => Has(todo'[q], D)
                         /\ Busy(q)' /\ request'[q] = "resume" => airing' = None
                         /\ Has(todo'[q], {"air"}) => airing' = None
  BY DEF EventInv
<1>1. PICK w \in Words : Return(p, w) /\ Becomes(p, w)
  BY CallWords
<1>2. /\ todo'[p] = w /\ request'[p] = (IF w = <<>> THEN "none" ELSE request[p])
      /\ \A q \in Processes : q # p => todo'[q] = todo[q] /\ request'[q] = request[q]
  BY <1>1, ReturnFacts DEF TypeInv
<1>3. Busy(p) /\ todo[p] \in Words /\ todo[p] # <<>> /\ Legal(request[p], todo[p]) /\ Shape(request[p], todo[p])
  BY CallIsOne DEF TypeInv, Typed, Worded, Busy, ShapeInv
<1>4. Effect(p)
  BY CallHasEffect DEF TypeInv
<1>5. Unmarked({"raced", "refused", "overtaken", "failed"})
  BY <1>4 DEF Effect, Unmarked
<1>6. /\ airing # None => Configured /\ ((stream = airing /\ activeB = airing) \/ \E q \in Processes : Owes(q))
      /\ \A q \in Processes :
           /\ airing # None /\ Busy(q) /\ request[q] \in {"stop", "end"} => Has(todo[q], D)
           /\ Busy(q) /\ request[q] = "resume" => airing = None
           /\ Has(todo[q], {"air"}) => airing = None
  BY <1>5 DEF EventInv
<1>7. /\ t \in Words
      /\ \A Y : Has(todo[p], Y) <=> n \in Y \/ Has(t, Y)
      /\ \A Y : Only(todo[p], Y) <=> n \in Y /\ Only(t, Y)
      /\ \A X, Y : Followed(todo[p], X, Y) => (n \in X => Has(t, Y))
  BY <1>3, TailWord
<1>8. \A X, Y : NoneAfter(todo[p], X, Y) => NoneAfter(t, X, Y) /\ (n \in Y => ~Has(t, X))
  BY <1>3, TailOrder
<1>9. \A b : Bound(todo[p], {"adopt", "start", "mark", "air"}, b) => (n = "air" => a = b)
  BY <1>3, TailOrder
<1>10. CASE n = "air"
  <2>1. request[p] = "scheduled" /\ Configured
    <3>1. Has(todo[p], {"air"}) /\ Has(todo[p], {"adopt", "create", "air"})
      BY <1>7, <1>10
    <3>2. QED
      BY <1>3, <3>1 DEF Shape
  <2>2. \A q \in Processes : q # p => todo[q] = <<>>
    BY <1>3, <1>5, <1>10, StartsAlone DEF Unmarked, Doings, Undoing
  <2>3. ~Has(t, {"adopt", "start"}) /\ ~Has(t, {"air"})
    BY <1>3, <1>8, <1>10 DEF Shape
  <2>4. ~Has(todo[p], {"adopt"}) /\ ~Has(todo[p], {"start"})
    BY <1>7, <1>10, <2>3 DEF Has
  <2>5. Has(todo[p], {"start", "mark", "air"})
    BY <1>7, <1>10
  <2>6. Ascending(p)
    BY <1>5, <2>1, <2>5 DEF AscentInv, Unmarked
  <2>7. a \in Broadcasts /\ activeB = a /\ stream = a
    BY <1>9, <1>10, <2>4, <2>6 DEF Ascending
  <2>8. stream' = stream /\ activeB' = activeB /\ airing' = a
    BY <1>4, <1>10 DEF Effect
  <2>9. w = t
    BY <1>1, <1>10 DEF Becomes
  <2>10. ASSUME NEW q \in Processes
         PROVE  /\ Busy(q)' => q = p /\ request'[q] = "scheduled"
                /\ ~Has(todo'[q], {"air"})
    BY <1>2, <2>1, <2>2, <2>3, <2>9, EmptyWord DEF Busy
  <2>11. QED
    BY <2>1, <2>7, <2>8, <2>10
<1>11. CASE airing' = None
  BY <1>11
<1>12. CASE n # "air" /\ airing' # None
  <2>1. airing' = airing /\ n # "forget" /\ airing # None /\ Configured
    BY <1>4, <1>6, <1>12 DEF Effect
  <2>2. n # "resume" /\ request[p] # "resume" /\ ~Has(todo[p], {"air"})
    BY <1>3, <1>6, <1>7, <2>1 DEF Legal, Undoing, Doings
  <2>3. /\ stream' = (IF n = "halt" THEN Off ELSE IF n = "start" /\ stream = Off THEN a ELSE stream)
        /\ activeB' = (IF n = "adopt" THEN a ELSE IF n = "disown" THEN None ELSE activeB)
        /\ n = "adopt" => request[p] # "go-live-now"
        /\ n = "disown" => request[p] \notin {"go-live-now", "complete"}
    BY <1>4, <2>1, <2>2 DEF Effect, Unmarked
  <2>4. \/ w = t /\ n # "stopActive" /\ (n = "start" => stream = Off)
        \/ w = StopActiveEvent(airing) \o t /\ n = "stopActive"
        \/ n = "create"
    BY <1>1, <2>1, <2>2 DEF Becomes, Unmarked
  <2>5. /\ StopActiveEvent(airing) \in Words /\ StopActiveEvent(airing) # <<>>
        /\ Only(StopActiveEvent(airing), Undoing) /\ Has(StopActiveEvent(airing), D)
    <3>1. airing \in Args /\ {"halt", "unblock", "unmark", "forget"} \cap D # {}
      BY DEF TypeInv, Typed
    <3>2. QED
      BY <3>1, UndoingWords, WordsStop
  <2>6. ASSUME n = "stopActive" PROVE Has(w, D) /\ w # <<>> /\ (\A Y : Has(t, Y) => Has(w, Y))
    <3> DEFINE v == StopActiveEvent(airing)
    <3>1. w = v \o t
      BY <2>4, <2>6
    <3>2. v \in Words /\ v # <<>> /\ Has(v, D) /\ t \in Words
      BY <1>7, <2>5
    <3> HIDE DEF v
    <3>3. w # <<>> /\ \A X : Has(w, X) <=> Has(v, X) \/ Has(t, X)
      BY <3>1, <3>2, CatWord
    <3>4. QED
      BY <3>2, <3>3
  <2>7. \A Y : Has(t, Y) => t # <<>>
    BY EmptyWord
  <2>8. n = "create" => request[p] = "go-live-now" /\ ~Has(t, D) /\ ~Has(t, {"disown"})
    <3>1. n = "create" => request[p] = "go-live-now" /\ ~Has(t, Undoing)
      BY <1>3, <1>7, <1>8 DEF Legal, Shape, Undoing, Doings
    <3>2. QED
      BY <3>1 DEF Has, Undoing
  <2>9. ASSUME NEW q \in Processes
        PROVE  /\ Busy(q)' /\ request'[q] \in {"stop", "end"} => Has(todo'[q], D)
               /\ Busy(q)' => request'[q] # "resume"
               /\ ~Has(todo'[q], {"air"})
    <3>1. CASE q # p
      BY <1>2, <1>6, <2>1, <3>1 DEF Busy
    <3>2. CASE q = p
      <4>1. request'[p] \in {"none", request[p]} /\ (Busy(p)' => request'[p] = request[p])
        BY <1>2 DEF Busy
      <4>2. request[p] \in {"stop", "end"} => Has(w, D)
        BY <1>3, <1>6, <1>7, <2>1, <2>4, <2>6, <2>8
      <4>3. Has(w, {"air"}) => request[p] = "scheduled"
        <5>1. Has(w, {"air"}) => request'[p] = "scheduled"
          BY <1>2 DEF ShapeInv, Shape
        <5>2. QED
          BY <4>1, <5>1
      <4>4. request[p] = "scheduled" => ~Has(w, {"air"})
        <5>1. n # "stopActive" \/ Only(t, Undoing) \/ Only(t, Undoing \cup {"create"})
          BY <1>3, <1>7 DEF Legal, Doings
        <5>2. n = "stopActive" => ~Has(w, {"air"})
          <6>1. n = "stopActive" => ~Has(t, {"air"}) /\ ~Has(StopActiveEvent(airing), {"air"})
            BY <2>5, <5>1, UndoingStartsNothing
          <6>2. QED
            BY <1>7, <2>4, <2>5, <6>1, CatWord
        <5>3. QED
          BY <1>7, <2>2, <2>4, <2>8, <5>2
      <4>5. QED
        BY <1>2, <2>2, <3>2, <4>1, <4>2, <4>3, <4>4
    <3>3. QED
      BY <3>1, <3>2
  <2>10. (stream' = airing' /\ activeB' = airing') \/ \E q \in Processes : Owes(q)'
    <3>1. ASSUME NEW q \in Processes, Owes(q) PROVE Owes(q)'
      <4>1. CASE q # p
        BY <1>2, <3>1, <4>1 DEF Owes
      <4>2. CASE q = p /\ Has(todo[p], D)
        <5>1. Has(w, D)
          BY <1>7, <2>1, <2>4, <2>6, <2>8, <4>2
        <5>2. QED
          BY <1>2, <4>2, <5>1 DEF Owes
      <4>3. CASE q = p /\ request[p] \in {"complete", "go-live-now"} /\ Has(todo[p], {"disown"})
        <5>1. n # "disown"
          BY <2>3, <4>3
        <5>2. Has(t, {"disown"}) /\ n # "create"
          BY <1>7, <2>8, <4>3, <5>1
        <5>3. Has(w, {"disown"}) /\ w # <<>>
          BY <2>4, <2>6, <2>7, <5>2
        <5>4. QED
          BY <1>2, <4>3, <5>3 DEF Owes
      <4>4. QED
        BY <3>1, <4>1, <4>2, <4>3 DEF Owes
    <3>2. CASE stream = airing /\ activeB = airing
      <4>1. stream # Off
        BY <2>1, <3>2 DEF TypeInv, Typed, Args, Off, Broadcasts, None
      <4>2. CASE n \in {"halt", "disown"}
        <5>1. w = t
          BY <2>4, <4>2
        <5>2. request[p] \notin {"manual", "scheduled", "resume", "none"}
          <6>1. ~Only(todo[p], Doings \cup {"resume"})
            BY <1>7, <4>2 DEF Doings
          <6>2. QED
            BY <1>5, <6>1 DEF UnrefusedInv, Unmarked
        <5>3. request[p] \in {"stop", "end", "complete", "go-live-now"}
          BY <5>2 DEF TypeInv, Typed, Requests, Starting
        <5>4. CASE request[p] \in {"stop", "end"}
          <6>1. Has(t, D)
            BY <1>3, <1>6, <1>7, <2>1, <4>2, <5>4
          <6>2. QED
            BY <1>2, <5>1, <6>1 DEF Owes
        <5>5. CASE request[p] \in {"complete", "go-live-now"}
          <6>1. n = "halt"
            BY <2>3, <4>2, <5>5
          <6>2. Has(t, {"disown"})
            BY <1>3, <1>7, <5>5, <6>1 DEF Shape
          <6>3. Owes(p)'
            BY <1>2, <2>7, <5>1, <5>5, <6>2 DEF Owes
          <6>4. QED
            BY <6>3
        <5>6. QED
          BY <5>3, <5>4, <5>5
      <4>3. n # "adopt"
        <5>1. ASSUME n = "adopt" PROVE FALSE
          <6>1. request[p] = "scheduled"
            BY <1>3, <1>7, <2>3, <5>1 DEF Shape
          <6>2. Has(t, {"air"})
            BY <1>3, <1>7, <5>1, <6>1 DEF Shape
          <6>3. QED
            BY <1>7, <2>2, <6>2
        <5>2. QED
          BY <5>1
      <4>4. CASE n \notin {"halt", "disown"}
        BY <2>1, <2>3, <3>2, <4>1, <4>3, <4>4
      <4>5. QED
        BY <4>2, <4>4
    <3>3. QED
      BY <1>6, <2>1, <3>1, <3>2
  <2>11. QED
    BY <2>1, <2>9, <2>10
<1>13. QED
  BY <1>10, <1>11, <1>12

LEMMA EventNext ==
  ASSUME TypeInv, ShapeInv, ShapeInv', UnrefusedInv, AscentInv, EventInv, [Next]_vars
  PROVE  EventInv'
<1>1. CASE Aside
  <2>1. Unmarked({"failed"})' => Kept /\ stream' = stream /\ marred \subseteq marred'
    BY <1>1, AsideIsQuiet DEF TypeInv, Unmarked
  <2>2. QED
    BY <2>1 DEF EventInv, Owes, Kept, Unmarked, Busy
<1>2. CASE Crash
  <2>1. /\ airing' = None
    BY <1>2 DEF Crash
  <2>2. QED
    BY <2>1 DEF EventInv
<1>3. QED
  BY <1>1, <1>2, EventBegins, EventCalls, StepKinds

LEMMA StartingAlways == Spec => [](UnrefusedInv /\ AscentInv)
<1>1. Init => UnrefusedInv /\ AscentInv
  BY EmptyWord DEF Init, UnrefusedInv, AscentInv
<1>2. QED
  BY <1>1, UnrefusedNext, AscentNext, TypeInvAlways, PTL DEF Spec

LEMMA EventAlways == Spec => []EventInv
<1>1. Init => EventInv
  BY EmptyWord DEF Init, EventInv, Busy
<1>2. QED
  BY <1>1, EventNext, ShapeAlways, StartingAlways, TypeInvAlways, PTL DEF Spec

\* The event that the scheduler will stop at its end is the one on the air,
\* unless requests overlapped with a starting one, a Start was refused, a
\* handler took over from the scheduler, or FFmpeg was given up.
THEOREM EventOwnsItsStream == Spec => []EventOwnsStream
<1>1. EventInv => EventOwnsStream
  <2> SUFFICES ASSUME EventInv, Unmarred({"raced", "refused", "overtaken", "failed"}), airing # None
               PROVE  stream = airing /\ activeB = airing
    BY DEF EventOwnsStream
  <2>1. \A p \in Processes : ~Owes(p)
    BY EmptyWord DEF Unmarred, Quiet, Busy, Owes
  <2>2. QED
    BY <2>1 DEF EventInv, Unmarred, Unmarked
<1>2. QED
  BY <1>1, EventAlways, PTL

-----------------------------------------------------------------------------
(* IntentFollows *)

\* Without credentials there are no broadcasts.
Credentials ==
  ~Configured => activeB = None /\ intent.b = None /\ \A p \in Processes : Bound(todo[p], {"mark"}, None)

\* A stream that is off is remembered by nobody, or will be forgotten; one that
\* is on is remembered, or will be off.
Remembered ==
  /\ stream = Off =>
       /\ intent = NoIntent \/ (Configured /\ \E p \in Processes : Has(todo[p], {"unmark"}))
       /\ activeB = None \/ (Configured /\ \E p \in Processes : Has(todo[p], {"disown"}))
  /\ stream # Off =>
       /\ intent.to = stream
       /\ intent.b = activeB \/ (Configured /\ \E p \in Processes : Has(todo[p], {"halt"}))

\* A process that will put a stream on, or that has and will say so.
Rising(p) == Has(todo[p], {"start"}) \/ Has(todo[p], {"mark"}) \/ Has(todo[p], {"resume"})

\* What such a process has found, and will leave behind.
Underway(p) ==
  LET w == todo[p]
      r == request[p]
  IN  /\ Busy(p) /\ r = "stop" => activeB = None
      /\ Has(w, {"start"}) /\ r # "resume" => stream # Off \/ intent = NoIntent
      /\ Has(w, {"start"}) /\ r = "resume" => Bound(w, {"start"}, intent.to) /\ activeB = intent.b
      /\ Has(w, {"resume"}) => stream = Off
      /\ (Has(w, {"start"}) \/ Has(w, {"mark"})) /\ r = "manual" =>
           \/ Has(w, {"start"}) /\ stream # Off
           \/ /\ activeB = None /\ Bound(w, {"mark"}, None) /\ Bound(w, {"start"}, config)
              /\ Has(w, {"start"}) \/ stream = config

IntentInv ==
  Unmarked({"raced", "refused", "failed", "dropped", "unsaved"}) =>
    /\ Remembered \/ \E p \in Processes : Rising(p)
    /\ \A p \in Processes : Underway(p)

LEMMA RisesAlone ==
  ASSUME TypeInv, NEW p \in Processes, Rising(p)
  PROVE  /\ Busy(p) /\ request[p] \in Starting
         /\ Has(todo[p], {"resume"}) => request[p] = "resume" /\ Only(todo[p], {"resume"})
         /\ Has(todo[p], {"start"}) \/ Has(todo[p], {"mark"}) => Only(todo[p], Doings)
         /\ Has(todo[p], {"mark"}) => request[p] # "resume"
         /\ "raced" \notin marred => \A q \in Processes : q # p => todo[q] = <<>>
<1>1. Legal(request[p], todo[p])
  BY DEF TypeInv, Worded
<1>2. Busy(p)
  BY EmptyWord DEF Rising, Busy
<1>3. ~Only(todo[p], Undoing) /\ ~Only(todo[p], Undoing \cup {"create"})
  BY DEF Rising, Only, Has, Undoing
<1>4. \/ request[p] \in Starting /\ Only(todo[p], Doings) /\ (Has(todo[p], {"mark"}) => request[p] # "resume")
      \/ request[p] = "resume" /\ Only(todo[p], {"resume"})
  BY <1>1, <1>3 DEF Legal
<1>5. Only(todo[p], Doings) => ~Has(todo[p], {"resume"})
  BY DEF Only, Has, Doings
<1>6. Only(todo[p], {"resume"}) => ~Has(todo[p], {"start"}) /\ ~Has(todo[p], {"mark"})
  BY DEF Only, Has
<1>7. request[p] \in Starting
  BY <1>4 DEF Starting
<1>8. QED
  BY <1>2, <1>4, <1>5, <1>6, <1>7 DEF TypeInv, Noticed, Busy

LEMMA MarklessWords ==
  ASSUME NEW w, Only(w, Undoing) \/ Only(w, Undoing \cup {"create"}) \/ ~Has(w, {"mark"})
  PROVE  Bound(w, {"mark"}, None)
  BY DEF Only, Has, Bound, Undoing

LEMMA CredentialsNext ==
  ASSUME TypeInv, ShapeInv, Credentials, [Next]_vars
  PROVE  Credentials'
<1> SUFFICES ASSUME ~Configured
             PROVE  activeB' = None /\ intent'.b = None /\ \A q \in Processes : Bound(todo'[q], {"mark"}, None)
  BY DEF Credentials
<1>1. activeB = None /\ intent.b = None /\ \A q \in Processes : Bound(todo[q], {"mark"}, None)
  BY DEF Credentials
<1>2. NoIntent.b = None
  BY DEF NoIntent
<1>3. activeB \in Args /\ airing \in Args /\ intent \in Intents \cup {NoIntent} /\ config \in Args
  BY DEF TypeInv, Typed
<1>4. CASE Requesting
  <2>1. PICK p \in Processes, what \in Requests, w \in Words : Begin(p, what, w) /\ Turns(p, what, w)
    BY <1>4, RequestIsOne
  <2>2. w \in Words
    BY <2>1, RequestWords DEF TypeInv
  <2>3. todo'[p] = w /\ \A q \in Processes : q # p => todo'[q] = todo[q]
    BY <2>1, <2>2, BeginFacts DEF TypeInv
  <2>4. Bound(w, {"mark"}, None)
    <3>1. CASE what = "manual"
      <4>1. w = <<Call("block", None), Call("start", config), Call("mark", None)>>
        BY <2>1, <3>1 DEF Turns
      <4>2. QED
        BY <4>1 DEF Call, Bound
    <3>2. CASE what # "manual"
      <4>1. w = <<>> \/ w = StopRequest(activeB) \/ w = StopActiveEvent(airing)
        BY <2>1, <3>2 DEF Turns
      <4>2. Only(w, Undoing)
        BY <1>3, <4>1, EmptyWord, UndoingWords
      <4>3. QED
        BY <4>2, MarklessWords
    <3>3. QED
      BY <3>1, <3>2
  <2>5. activeB' = None
    BY <1>1, <2>1 DEF Turns
  <2>6. intent' = intent
    BY <1>4, RequestIsOne
  <2>7. QED
    BY <1>1, <2>3, <2>4, <2>5, <2>6
<1>5. ASSUME NEW p \in Processes, CallStep(p)
      PROVE  activeB' = None /\ intent'.b = None /\ \A q \in Processes : Bound(todo'[q], {"mark"}, None)
  <2> DEFINE n == Head(todo[p]).do
             a == Head(todo[p]).b
             t == Tail(todo[p])
  <2>1. PICK w \in Words : Return(p, w) /\ Becomes(p, w)
    BY <1>5, CallWords
  <2>2. todo'[p] = w /\ \A q \in Processes : q # p => todo'[q] = todo[q]
    BY <2>1, ReturnFacts DEF TypeInv
  <2>3. todo[p] \in Words /\ todo[p] # <<>> /\ Shape(request[p], todo[p])
    BY <1>5, CallIsOne DEF TypeInv, Typed, Busy, ShapeInv
  <2>4. t \in Words /\ (\A X : Has(todo[p], X) <=> n \in X \/ Has(t, X))
    BY <2>3, TailWord
  <2>5. Bound(t, {"mark"}, None) /\ (n = "mark" => a = None)
    BY <1>1, <2>3, TailOrder
  <2>6. n \notin {"adopt", "create"}
    BY <2>3, <2>4 DEF Shape
  <2>7. Effect(p)
    BY <1>5, CallHasEffect DEF TypeInv
  <2>8. activeB' = None
    BY <1>1, <2>6, <2>7 DEF Effect
  <2>9. intent'.b = None
    BY <1>1, <1>2, <2>5, <2>7 DEF Effect
  <2>10. Bound(w, {"mark"}, None)
    <3>1. CASE w = t
      BY <2>5, <3>1
    <3>2. CASE w = Refusal(request[p])
      <4>1. Only(w, Undoing)
        BY <3>2, RefusalWord DEF Only, Undoing
      <4>2. QED
        BY <4>1, MarklessWords
    <3>3. CASE w = <<>>
      BY <3>3, EmptyWord, MarklessWords
    <3>4. CASE w = StopActiveEvent(airing) \o t
      <4>1. StopActiveEvent(airing) \in Words /\ Bound(StopActiveEvent(airing), {"mark"}, None)
        BY <1>3, UndoingWords, MarklessWords
      <4>2. QED
        BY <2>4, <2>5, <3>4, <4>1, CatOrder
    <3>5. CASE w = Resuming(intent)
      BY <1>3, <3>5, StartingWords, MarklessWords
    <3>6. QED
      BY <2>1, <2>6, <3>1, <3>2, <3>3, <3>4, <3>5 DEF Becomes
  <2>11. QED
    BY <1>1, <2>2, <2>8, <2>9, <2>10
<1>6. CASE Aside
  BY <1>1, <1>6, AsideIsQuiet DEF TypeInv, Kept
<1>7. CASE Crash
  <2>1. todo' = [p \in Processes |-> IF p = Boot /\ intent # NoIntent THEN <<Call("resume", None)>> ELSE <<>>]
    BY <1>7 DEF Crash
  <2>2. Bound(<<Call("resume", None)>>, {"mark"}, None) /\ Bound(<<>>, {"mark"}, None)
    BY DEF Call, Bound
  <2>3. activeB' = None /\ intent' = intent
    BY <1>7 DEF Crash
  <2>4. QED
    BY <1>1, <2>1, <2>2, <2>3
<1>8. QED
  BY <1>4, <1>5, <1>6, <1>7, StepKinds

\* The words that put a stream on, by the calls the invariant looks at.
LEMMA RisingWords ==
  ASSUME NEW b \in Args
  PROVE  /\ LET w == <<Call("block", None), Call("start", b), Call("mark", None)>>
            IN  Has(w, {"start"}) /\ ~Has(w, {"resume"}) /\ Bound(w, {"mark"}, None) /\ Bound(w, {"start"}, b)
         /\ Has(Airing(b), {"start"}) /\ ~Has(Airing(b), {"resume"})
         /\ Has(Broadcasting(b), {"start"}) /\ ~Has(Broadcasting(b), {"resume"})
         /\ \A i \in Intents \cup {NoIntent} :
              Has(Resuming(i), {"start"}) /\ ~Has(Resuming(i), {"resume"}) /\ Bound(Resuming(i), {"start"}, i.to)
<1>1. LET w == <<Call("block", None), Call("start", b), Call("mark", None)>>
      IN  Has(w, {"start"}) /\ ~Has(w, {"resume"}) /\ Bound(w, {"mark"}, None) /\ Bound(w, {"start"}, b)
  BY DEF Call, Has, Bound
<1>2. \A w : Only(w, Doings) => ~Has(w, {"resume"})
  BY DEF Only, Has, Doings
<1>3. /\ Has(Airing(b), {"start"}) /\ ~Has(Airing(b), {"resume"})
      /\ Has(Broadcasting(b), {"start"}) /\ ~Has(Broadcasting(b), {"resume"})
  BY <1>2, BoundWords, StartingWords
<1>4. ASSUME NEW i \in Intents \cup {NoIntent}
      PROVE  Has(Resuming(i), {"start"}) /\ ~Has(Resuming(i), {"resume"}) /\ Bound(Resuming(i), {"start"}, i.to)
  <2>1. i.to \in Args /\ i.b \in Args
    BY DEF Intents, NoIntent, Args
  <2> DEFINE v == <<Call("block", None), Call("start", i.to)>>
  <2>2. v \in Words /\ Has(v, {"start"}) /\ Bound(v, {"start"}, i.to)
    BY <2>1 DEF Call, Words, Calls, Names, Doings, Args, Has, Bound
  <2>3. Launching(i.b) \in Words /\ Bound(Launching(i.b), {"start"}, i.to)
    BY <2>1 DEF Launching, Call, Words, Calls, Names, Doings, Args, Bound
  <2>4. Bound(<<>>, {"start"}, i.to)
    BY DEF Bound
  <2>5. Relaunching(i) \in Words /\ Bound(Relaunching(i), {"start"}, i.to)
    BY <2>3, <2>4, EmptyWord DEF Relaunching
  <2> HIDE DEF v
  <2>6. Has(v \o Relaunching(i), {"start"}) /\ Bound(v \o Relaunching(i), {"start"}, i.to)
    BY <2>2, <2>5, CatWord, CatOrder
  <2>7. Resuming(i) = v \o Relaunching(i)
    BY DEF Resuming, v
  <2>8. QED
    BY <1>2, <2>6, <2>7, StartingWords
<1>5. QED
  BY <1>1, <1>3, <1>4

LEMMA StopHalts ==
  ASSUME NEW b \in Args
  PROVE  Has(StopRequest(b), {"halt"})
<1>1. {"halt", "unblock", "unmark", "stopActive"} \cap {"halt"} # {}
  OBVIOUS
<1>2. QED
  BY <1>1, WordsStop

\* A request that begins finds nobody rising, or is noticed.
LEMMA IntentBegins ==
  ASSUME TypeInv, Credentials, IntentInv, Requesting
  PROVE  IntentInv'
<1> SUFFICES ASSUME Unmarked({"raced", "refused", "failed", "dropped", "unsaved"})'
             PROVE  /\ Remembered' \/ \E q \in Processes : Rising(q)'
                    /\ \A q \in Processes : Underway(q)'
  BY DEF IntentInv
<1>1. PICK p \in Processes, what \in Requests, w \in Words : Begin(p, what, w) /\ Turns(p, what, w)
  BY RequestIsOne
<1>2. w \in Words /\ Legal(what, w) /\ activeB \in Args /\ airing \in Args /\ config \in Args
  BY <1>1, RequestWords DEF TypeInv, Typed
<1>3. /\ ~Busy(p) /\ todo'[p] = w /\ request'[p] = what
      /\ \A q \in Processes : q # p => todo'[q] = todo[q] /\ request'[q] = request[q]
      /\ \A q \in Processes : q # p /\ Busy(q) /\ (what \in Starting \/ request[q] \in Starting) => "raced" \in marred'
      /\ marred \subseteq marred'
  BY <1>1, <1>2, BeginFacts DEF TypeInv
<1>4. stream' = stream /\ intent' = intent
  BY RequestIsOne
<1>5. activeB' = activeB \/ (what = "stop" /\ activeB' = None)
  BY <1>1 DEF Turns
<1>6. \A q \in Processes : ~Rising(q)
  <2>1. \A q \in Processes : q # p => ~Rising(q)
    BY <1>3, RisesAlone DEF Unmarked
  <2>2. ~Rising(p)
    BY <1>3, RisesAlone
  <2>3. QED
    BY <2>1, <2>2
<1>7. Remembered /\ \A q \in Processes : Underway(q)
  BY <1>3, <1>6 DEF IntentInv, Unmarked
<1>8. todo[p] = <<>> /\ \A X : ~Has(todo[p], X)
  BY <1>3, EmptyWord DEF Busy
<1>9. \A q \in Processes : \A X : Has(todo[q], X) => Has(todo'[q], X)
  BY <1>3, <1>8
<1>10. ASSUME NEW q \in Processes, q # p PROVE Underway(q)'
  <2>1. Underway(q) /\ ~Rising(q)
    BY <1>6, <1>7
  <2>2. todo'[q] = todo[q] /\ request'[q] = request[q]
    BY <1>3, <1>10
  <2>3. QED
    BY <1>5, <2>1, <2>2 DEF Underway, Rising, Busy
<1>11. CASE what \notin {"manual", "scheduled"}
  <2>1. ~Has(w, {"start"}) /\ ~Has(w, {"mark"}) /\ ~Has(w, {"resume"})
    <3>1. what # "resume"
      BY <1>1 DEF Turns
    <3>2. Only(w, Undoing) \/ Only(w, Undoing \cup {"create"})
      <4>1. CASE what = "go-live-now"
        <5>1. w = Takeover(activeB) \o <<Call("create", None)>>
          BY <1>1, <4>1 DEF Turns
        <5>2. Takeover(activeB) \in Words /\ Only(Takeover(activeB), Undoing \cup {"create"})
          BY <1>2, UndoingWords DEF Only
        <5>3. LET v == <<Call("create", None)>> IN v \in Words /\ Only(v, Undoing \cup {"create"})
          BY DEF Call, Words, Calls, Names, Args, Only
        <5>4. QED
          BY <5>1, <5>2, <5>3, CatWord
      <4>2. CASE what # "go-live-now"
        BY <1>2, <1>11, <3>1, <4>2 DEF Legal, Starting
      <4>3. QED
        BY <4>1, <4>2
    <3>3. QED
      BY <3>2 DEF Only, Has, Undoing
  <2>2. Underway(p)'
    <3>1. what = "stop" => activeB' = None
      BY <1>1 DEF Turns
    <3>2. QED
      BY <1>3, <2>1, <3>1 DEF Underway
  <2>3. Remembered'
    <3>1. CASE activeB' = activeB
      BY <1>4, <1>7, <1>9, <3>1 DEF Remembered
    <3>2. CASE what = "stop" /\ activeB' = None
      <4>1. Has(todo'[p], {"halt"})
        <5>1. w = StopRequest(activeB)
          BY <1>1, <3>2 DEF Turns
        <5>2. QED
          BY <1>2, <1>3, <5>1, StopHalts
      <4>2. ~Configured => intent.b = None
        BY DEF Credentials
      <4>3. QED
        BY <1>4, <1>7, <1>9, <3>2, <4>1, <4>2, StreamServerAssumption DEF Remembered
    <3>3. QED
      BY <1>5, <3>1, <3>2
  <2>4. QED
    BY <1>10, <2>2, <2>3
<1>12. CASE what \in {"manual", "scheduled"}
  <2>1. \A q \in Processes : \A X : ~Has(todo[q], X)
    <3>1. \A q \in Processes : q # p => todo[q] = <<>>
      BY <1>3, <1>12 DEF Unmarked, Busy, Starting
    <3>2. QED
      BY <1>8, <3>1, EmptyWord
  <2>2. stream = Off => intent = NoIntent /\ activeB = None
    BY <1>7, <2>1 DEF Remembered
  <2>3. activeB' = activeB
    BY <1>5, <1>12
  <2>4. Has(w, {"start"}) /\ ~Has(w, {"resume"})
    <3>1. CASE what = "manual"
      BY <1>1, <1>2, <3>1, RisingWords DEF Turns
    <3>2. CASE what = "scheduled"
      <4>1. PICK b \in Args : w = Airing(b)
        BY <1>1, <3>2, StreamServerAssumption DEF Turns, Args, Broadcasts
      <4>2. QED
        BY <4>1, RisingWords
    <3>3. QED
      BY <1>12, <3>1, <3>2
  <2>5. what = "manual" => config' = config /\ Bound(w, {"mark"}, None) /\ Bound(w, {"start"}, config)
    BY <1>1, <1>2, RisingWords DEF Turns
  <2>6. Underway(p)'
    BY <1>3, <1>4, <1>12, <2>2, <2>3, <2>4, <2>5 DEF Underway
  <2>7. Rising(p)'
    BY <1>3, <2>4 DEF Rising
  <2>8. QED
    BY <1>10, <2>6, <2>7
<1>13. QED
  BY <1>11, <1>12

\* A call of a process that puts a stream on.
LEMMA IntentRises ==
  ASSUME TypeInv, ShapeInv, AscentInv, IntentInv, NEW p \in Processes, CallStep(p), Rising(p)
  PROVE  IntentInv'
<1> DEFINE n == Head(todo[p]).do
           a == Head(todo[p]).b
           t == Tail(todo[p])
<1> SUFFICES ASSUME Unmarked({"raced", "refused", "failed", "dropped", "unsaved"})'
             PROVE  /\ Remembered' \/ \E q \in Processes : Rising(q)'
                    /\ \A q \in Processes : Underway(q)'
  BY DEF IntentInv
<1>1. PICK w \in Words : Return(p, w) /\ Becomes(p, w)
  BY CallWords
<1>2. /\ todo'[p] = w /\ request'[p] = (IF w = <<>> THEN "none" ELSE request[p])
      /\ \A q \in Processes : q # p => todo'[q] = todo[q] /\ request'[q] = request[q]
  BY <1>1, ReturnFacts DEF TypeInv
<1>3. todo[p] \in Words /\ todo[p] # <<>> /\ Shape(request[p], todo[p])
  BY CallIsOne DEF TypeInv, Typed, Busy, ShapeInv
<1>4. Effect(p)
  BY CallHasEffect DEF TypeInv
<1>5. Unmarked({"raced", "refused", "failed", "dropped", "unsaved"})
  BY <1>4 DEF Effect, Unmarked
<1>6. /\ request[p] \in Starting /\ \A q \in Processes : q # p => todo[q] = <<>>
      /\ Has(todo[p], {"resume"}) => request[p] = "resume" /\ Only(todo[p], {"resume"})
      /\ Has(todo[p], {"start"}) \/ Has(todo[p], {"mark"}) => Only(todo[p], Doings)
      /\ Has(todo[p], {"mark"}) => request[p] # "resume"
  BY <1>5, RisesAlone DEF Unmarked
<1>7. Underway(p)
  BY <1>5 DEF IntentInv
<1>8. /\ t \in Words
      /\ \A Y : Has(todo[p], Y) <=> n \in Y \/ Has(t, Y)
      /\ \A Y : Only(todo[p], Y) <=> n \in Y /\ Only(t, Y)
      /\ \A X, Y : Followed(todo[p], X, Y) => (n \in X => Has(t, Y))
  BY <1>3, TailWord
<1>9. /\ \A X, Y : NoneAfter(todo[p], X, Y) => (n \in Y => ~Has(t, X))
      /\ \A Y, b : Bound(todo[p], Y, b) => Bound(t, Y, b) /\ (n \in Y => a = b)
  BY <1>3, TailOrder
<1>10. config \in Args /\ activeB \in Args /\ a \in Args /\ stream \in {Off, None} \cup Broadcasts
       /\ intent \in Intents \cup {NoIntent} /\ intent.to \in Args /\ intent.b \in Args /\ Off \notin Args
  <2>1. a \in Args
    BY <1>3, TailWord DEF Calls
  <2>2. Off \notin Args
    BY DEF Off, Args, None, Broadcasts
  <2>3. QED
    BY <2>1, <2>2 DEF TypeInv, Typed, Intents, NoIntent, Args
<1>11. \A q \in Processes : q # p => Underway(q)'
  <2>1. ASSUME NEW q \in Processes, q # p PROVE Underway(q)'
    <3>1. todo'[q] = <<>> /\ \A X : ~Has(todo'[q], X)
      BY <1>2, <1>6, <2>1, EmptyWord
    <3>2. QED
      BY <3>1 DEF Underway, Busy
  <2>2. QED
    BY <2>1
<1>12. CASE n = "resume"
  <2>1. request[p] = "resume" /\ stream = Off /\ stream' = stream
    BY <1>4, <1>6, <1>7, <1>8, <1>12 DEF Underway, Effect
  <2>2. todo'[p] = Resuming(intent) /\ intent' = intent /\ activeB' = intent.b
    BY <1>4, <1>12 DEF Effect, Unmarked
  <2>3. Has(todo'[p], {"start"}) /\ ~Has(todo'[p], {"resume"}) /\ Bound(todo'[p], {"start"}, intent'.to)
    BY <1>10, <2>2, RisingWords DEF Args
  <2>4. request'[p] = "resume"
    BY <1>2, <2>1, <2>3, EmptyWord
  <2>5. Underway(p)' /\ Rising(p)'
    BY <2>2, <2>3, <2>4 DEF Underway, Rising
  <2>6. QED
    BY <1>11, <2>5
<1>13. CASE n # "resume"
  <2>1. Has(todo[p], {"start"}) \/ Has(todo[p], {"mark"})
    BY <1>6, <1>8, <1>13 DEF Rising
  <2>2. n \in Doings /\ Only(t, Doings) /\ ~Has(t, {"resume"})
    BY <1>6, <1>8, <2>1 DEF Only, Has, Doings
  <2>3. w = t /\ (n = "start" => stream = Off)
    BY <1>1, <2>2, <1>5, <1>4 DEF Becomes, Doings, Unmarked, Effect
  <2>4. /\ stream' = (IF n = "start" THEN a ELSE stream)
        /\ config' = (IF n = "adopt" THEN a ELSE config)
        /\ activeB' = (IF n = "adopt" THEN a ELSE activeB)
        /\ intent' = (IF n = "mark" THEN [mode |-> request[p], b |-> a, to |-> config] ELSE intent)
    BY <1>4, <2>2, <2>3 DEF Effect, Doings, Unmarked
  <2>5. request'[p] \in {"none", request[p]} /\ (\A X : Has(t, X) => request'[p] = request[p])
    BY <1>2, <2>3, EmptyWord
  <2>6. Busy(p)' => request'[p] # "stop"
    BY <1>2, <1>6 DEF Busy, Starting
  <2>7. CASE n = "start"
    <3>1. ~Has(t, {"start"})
      <4>1. ~Has(t, {"adopt", "start"})
        BY <1>3, <1>9, <2>7 DEF Shape
      <4>2. QED
        BY <4>1 DEF Has
    <3>2. Has(todo[p], {"start"}) /\ stream = Off /\ stream' = a
      BY <1>8, <2>3, <2>4, <2>7
    <3>3. CASE request[p] = "resume"
      <4>1. ~Has(t, {"mark"})
        BY <1>6, <1>8, <3>3
      <4>2. a = intent.to /\ activeB = intent.b
        BY <1>7, <1>9, <2>7, <3>2, <3>3 DEF Underway
      <4>3. Remembered'
        BY <1>10, <2>4, <2>7, <3>2, <4>2 DEF Remembered
      <4>4. Underway(p)'
        BY <1>2, <2>2, <2>3, <2>6, <3>1, <4>1 DEF Underway
      <4>5. QED
        BY <1>11, <4>3, <4>4
    <3>4. CASE request[p] # "resume"
      <4>1. Has(t, {"mark"})
        BY <1>3, <1>6, <1>8, <2>7, <3>4 DEF Shape, Starting
      <4>2. Rising(p)'
        BY <1>2, <2>3, <4>1 DEF Rising
      <4>3. request[p] = "manual" => activeB = None /\ Bound(todo[p], {"mark"}, None) /\ Bound(todo[p], {"start"}, config)
        BY <1>7, <3>2 DEF Underway
      <4>4. request[p] = "manual" => activeB' = None /\ Bound(t, {"mark"}, None) /\ Bound(t, {"start"}, config') /\ stream' = config'
        BY <1>9, <2>4, <2>7, <3>2, <4>3
      <4>5. Underway(p)'
        BY <1>2, <2>2, <2>3, <2>5, <2>6, <3>1, <4>4 DEF Underway
      <4>6. QED
        BY <1>11, <4>2, <4>5
    <3>5. QED
      BY <3>3, <3>4
  <2>8. CASE n = "mark"
    <3>1. ~Has(t, {"adopt"}) /\ ~Has(t, {"start"}) /\ ~Has(t, {"mark"})
      <4>1. ~Has(t, {"adopt", "start"}) /\ ~Has(t, {"mark"})
        BY <1>3, <1>9, <2>8 DEF Shape
      <4>2. QED
        BY <4>1 DEF Has
    <3>2. ~Has(todo[p], {"start"}) /\ ~Has(todo[p], {"adopt"}) /\ Has(todo[p], {"mark"}) /\ request[p] # "resume"
      BY <1>6, <1>8, <2>8, <3>1
    <3>3. stream = config /\ activeB = a
      <4>1. CASE request[p] = "manual"
        BY <1>7, <1>9, <2>8, <3>2, <4>1 DEF Underway
      <4>2. CASE request[p] \in {"go-live-now", "scheduled"}
        <5>1. Has(todo[p], {"start", "mark", "air"})
          BY <1>8, <2>8
        <5>2. Ascending(p)
          BY <1>5, <4>2, <5>1 DEF AscentInv, Unmarked
        <5>3. QED
          BY <1>9, <2>8, <3>2, <5>2 DEF Ascending
      <4>3. QED
        BY <1>6, <3>2, <4>1, <4>2 DEF Starting
    <3>4. intent'.to = config /\ intent'.b = a
      BY <2>4, <2>8
    <3>5. Remembered'
      BY <1>10, <2>4, <2>8, <3>3, <3>4 DEF Remembered
    <3>6. Underway(p)'
      BY <1>2, <2>2, <2>3, <2>6, <3>1 DEF Underway
    <3>7. QED
      BY <1>11, <3>5, <3>6
  <2>9. CASE n \notin {"start", "mark"}
    <3>1. \A X \in {{"start"}, {"mark"}} : Has(t, X) <=> Has(todo[p], X)
      BY <1>8, <2>9
    <3>2. Rising(p)'
      BY <1>2, <2>1, <2>3, <3>1 DEF Rising
    <3>3. request'[p] = request[p]
      BY <2>1, <2>5, <3>1
    <3>4. stream' = stream /\ intent' = intent /\ (n # "adopt" => activeB' = activeB /\ config' = config)
      BY <2>4, <2>9
    <3>5. request[p] \in {"manual", "resume"} => n # "adopt"
      BY <1>3, <1>8 DEF Shape
    <3>6. \A X, b : Bound(todo[p], X, b) => Bound(t, X, b)
      BY <1>9
    <3>7. Underway(p)'
      BY <1>2, <1>7, <2>2, <2>3, <2>6, <3>1, <3>3, <3>4, <3>5, <3>6 DEF Underway
    <3>8. QED
      BY <1>11, <3>2, <3>7
  <2>10. QED
    BY <2>7, <2>8, <2>9
<1>14. QED
  BY <1>12, <1>13

\* A call of a process that puts no stream on, while nobody does.
LEMMA IntentFalls ==
  ASSUME TypeInv, ShapeInv, CameraInv, IntentInv, NEW p \in Processes, CallStep(p), ~Rising(p)
  PROVE  IntentInv'
<1> DEFINE n == Head(todo[p]).do
           a == Head(todo[p]).b
           t == Tail(todo[p])
<1> SUFFICES ASSUME Unmarked({"raced", "refused", "failed", "dropped", "unsaved"})'
             PROVE  /\ Remembered' \/ \E q \in Processes : Rising(q)'
                    /\ \A q \in Processes : Underway(q)'
  BY DEF IntentInv
<1>1. PICK w \in Words : Return(p, w) /\ Becomes(p, w)
  BY CallWords
<1>2. /\ todo'[p] = w /\ request'[p] = (IF w = <<>> THEN "none" ELSE request[p])
      /\ \A q \in Processes : q # p => todo'[q] = todo[q] /\ request'[q] = request[q]
  BY <1>1, ReturnFacts DEF TypeInv
<1>3. Busy(p) /\ todo[p] \in Words /\ todo[p] # <<>> /\ Shape(request[p], todo[p]) /\ Legal(request[p], todo[p])
  BY CallIsOne DEF TypeInv, Typed, Busy, ShapeInv, Worded
<1>4. Effect(p)
  BY CallHasEffect DEF TypeInv
<1>5. Unmarked({"raced", "refused", "failed", "dropped", "unsaved"})
  BY <1>4 DEF Effect, Unmarked
<1>6. \A q \in Processes : ~Rising(q)
  <2>1. ASSUME NEW q \in Processes, Rising(q) PROVE FALSE
    <3>1. q # p /\ todo[p] = <<>>
      BY <1>5, <2>1, RisesAlone DEF Unmarked
    <3>2. QED
      BY <1>3, <3>1
  <2>2. QED
    BY <2>1
<1>7. Remembered /\ \A q \in Processes : Underway(q)
  BY <1>5, <1>6 DEF IntentInv
<1>8. /\ t \in Words
      /\ \A Y : Has(todo[p], Y) <=> n \in Y \/ Has(t, Y)
      /\ \A Y : Only(todo[p], Y) <=> n \in Y /\ Only(t, Y)
      /\ \A X, Y : Followed(todo[p], X, Y) => (n \in X => Has(t, Y))
      /\ \A X, Y : Preceded(todo[p], X, Y) => n \notin X
  BY <1>3, TailWord
<1>9. \A X, Y : NoneAfter(todo[p], X, Y) => (n \in Y => ~Has(t, X))
  BY <1>3, TailOrder
<1>10. n \notin {"start", "mark", "resume", "adopt"}
  <2>1. n \notin {"start", "mark", "resume"} /\ ~Has(t, {"start"})
    BY <1>6, <1>8 DEF Rising
  <2>2. n # "adopt"
    BY <1>3, <1>8, <2>1 DEF Shape
  <2>3. QED
    BY <2>1, <2>2
<1>11. /\ stream' = (IF n = "halt" THEN Off ELSE stream)
       /\ config' = config
       /\ activeB' = (IF n = "disown" THEN None ELSE activeB)
       /\ intent' = (IF n = "unmark" THEN NoIntent ELSE intent)
  BY <1>4, <1>10 DEF Effect, Unmarked
<1>12. ASSUME NEW q \in Processes, q # p PROVE Underway(q)'
  <2>1. Underway(q) /\ ~Rising(q)
    BY <1>6, <1>7
  <2>2. todo'[q] = todo[q] /\ request'[q] = request[q]
    BY <1>2, <1>12
  <2>3. QED
    BY <1>11, <2>1, <2>2 DEF Underway, Rising, Busy
<1>13. request'[p] = "stop" => activeB' = None
  <2>1. request'[p] = "stop" => request[p] = "stop"
    BY <1>2
  <2>2. QED
    BY <1>3, <1>7, <1>11, <2>1 DEF Underway
<1>14. ASSUME NEW X \in {{"halt"}, {"unmark"}, {"disown"}}, NEW q \in Processes, Has(todo[q], X), n \notin X,
              w = t \/ \A Y : Has(t, Y) => Has(w, Y)
       PROVE  Has(todo'[q], X)
  BY <1>2, <1>8, <1>14
<1>15. CASE n = "create" /\ w # <<>>
  <2>1. PICK b \in Broadcasts : w = Broadcasting(b)
    BY <1>1, <1>15 DEF Becomes, Undoing, Doings
  <2>2. request[p] = "go-live-now" /\ ~Has(t, Undoing)
    BY <1>3, <1>8, <1>9, <1>15 DEF Legal, Shape, Undoing, Doings
  <2>3. \A q \in Processes : q # p => todo[q] = <<>>
    BY <1>3, <1>5, <2>2 DEF TypeInv, Noticed, Unmarked, Busy, Starting
  <2>4. \A q \in Processes : ~Has(todo[q], {"unmark"})
    <3>1. ~Has(todo[p], {"unmark"})
      BY <1>8, <1>15, <2>2 DEF Has, Undoing
    <3>2. QED
      BY <2>3, <3>1, EmptyWord
  <2>5. stream = Off => intent = NoIntent
    BY <1>7, <2>4 DEF Remembered
  <2>6. Has(w, {"start"}) /\ ~Has(w, {"resume"})
    BY <2>1, RisingWords DEF Args
  <2>7. Underway(p)' /\ Rising(p)'
    BY <1>2, <1>11, <1>13, <1>15, <2>2, <2>5, <2>6 DEF Underway, Rising
  <2>8. QED
    BY <1>12, <2>7
<1>16. CASE w = <<>> /\ n \in {"create", "cancelBroadcast"} /\ (n = "cancelBroadcast" => ~Configured)
  <2>1. ~Has(w, {"start"}) /\ ~Has(w, {"mark"}) /\ ~Has(w, {"resume"})
    BY <1>16, EmptyWord
  <2>2. Underway(p)'
    BY <1>2, <1>13, <2>1 DEF Underway
  <2>3. n = "create" => \A X \in {{"halt"}, {"unmark"}, {"disown"}} : ~Has(todo[p], X)
    <3>1. n = "create" => ~Has(t, Undoing)
      BY <1>3, <1>9 DEF Shape
    <3>2. n = "create" => ~Has(t, {"halt"}) /\ ~Has(t, {"unmark"}) /\ ~Has(t, {"disown"})
      BY <3>1 DEF Has, Undoing
    <3>3. QED
      BY <1>8, <3>2
  <2>4. ASSUME Configured, NEW X \in {{"halt"}, {"unmark"}, {"disown"}}, NEW q \in Processes, Has(todo[q], X)
        PROVE  Has(todo'[q], X)
    BY <1>2, <1>16, <2>3, <2>4
  <2>5. Remembered'
    BY <1>7, <1>11, <1>16, <2>4 DEF Remembered
  <2>6. QED
    BY <1>12, <2>2, <2>5
<1>17. CASE n = "stopActive" /\ w = StopActiveEvent(airing) \o t
  <2>1. StopActiveEvent(airing) \in Words /\ Only(StopActiveEvent(airing), Undoing)
    BY UndoingWords DEF TypeInv, Typed
  <2>2. \A Y : Has(w, Y) <=> Has(StopActiveEvent(airing), Y) \/ Has(t, Y)
    BY <1>8, <1>17, <2>1, CatWord
  <2>3. ~Has(w, {"start"}) /\ ~Has(w, {"mark"}) /\ ~Has(w, {"resume"})
    <3>1. \A X : Undoing \cap X = {} => ~Has(StopActiveEvent(airing), X)
      BY <2>1, OnlyWord
    <3>2. Undoing \cap {"start"} = {} /\ Undoing \cap {"mark"} = {} /\ Undoing \cap {"resume"} = {}
      BY DEF Undoing
    <3>3. QED
      BY <1>6, <1>8, <2>2, <3>1, <3>2 DEF Rising
  <2>4. Underway(p)'
    BY <1>2, <1>13, <2>3 DEF Underway
  <2>5. Remembered'
    BY <1>7, <1>11, <1>14, <1>17, <2>2 DEF Remembered
  <2>6. QED
    BY <1>12, <2>4, <2>5
<1>18. CASE w = t /\ (n = "cancelBroadcast" => Configured)
  <2>1. ~Has(w, {"start"}) /\ ~Has(w, {"mark"}) /\ ~Has(w, {"resume"})
    BY <1>6, <1>8, <1>18 DEF Rising
  <2>2. Underway(p)'
    BY <1>2, <1>13, <2>1 DEF Underway
  <2>3. n \in {"unmark", "disown"} => stream = Off
    BY <1>5, <1>8 DEF CameraInv, Unmarked, Freeing
  <2>4. CASE n = "halt"
    <3>1. Configured
      BY <1>3, <1>8, <2>4 DEF Shape
    <3>2. Has(todo'[p], {"unmark"})
      BY <1>2, <1>3, <1>8, <1>18, <2>4 DEF Shape
    <3>3. activeB = None \/ Has(todo'[p], {"disown"})
      BY <1>2, <1>3, <1>7, <1>8, <1>18, <2>4 DEF Shape, Underway
    <3>4. Remembered'
      BY <1>11, <2>4, <3>1, <3>2, <3>3 DEF Remembered
    <3>5. QED
      BY <1>12, <2>2, <3>4
  <2>5. CASE n = "unmark"
    <3>1. stream' = Off /\ intent' = NoIntent /\ activeB' = activeB /\ stream = Off
      BY <1>11, <2>3, <2>5
    <3>2. \A q \in Processes : Has(todo[q], {"disown"}) => Has(todo'[q], {"disown"})
      BY <1>14, <1>18, <2>5
    <3>3. Remembered'
      BY <1>7, <3>1, <3>2 DEF Remembered
    <3>4. QED
      BY <1>12, <2>2, <3>3
  <2>6. CASE n = "disown"
    <3>1. stream' = Off /\ intent' = intent /\ activeB' = None /\ stream = Off
      BY <1>11, <2>3, <2>6
    <3>2. \A q \in Processes : Has(todo[q], {"unmark"}) => Has(todo'[q], {"unmark"})
      BY <1>14, <1>18, <2>6
    <3>3. Remembered'
      BY <1>7, <3>1, <3>2 DEF Remembered
    <3>4. QED
      BY <1>12, <2>2, <3>3
  <2>7. CASE n \notin {"halt", "unmark", "disown"}
    <3>1. \A X \in {{"halt"}, {"unmark"}, {"disown"}}, q \in Processes : Has(todo[q], X) => Has(todo'[q], X)
      BY <1>14, <1>18, <2>7
    <3>2. stream' = stream /\ activeB' = activeB /\ intent' = intent
      BY <1>11, <2>7
    <3>3. Remembered'
      BY <1>7, <3>1, <3>2 DEF Remembered
    <3>4. QED
      BY <1>12, <2>2, <3>3
  <2>8. QED
    BY <2>4, <2>5, <2>6, <2>7
<1>19. QED
  BY <1>1, <1>10, <1>15, <1>16, <1>17, <1>18 DEF Becomes

LEMMA IntentNext ==
  ASSUME TypeInv, ShapeInv, CameraInv, AscentInv, Credentials, IntentInv, [Next]_vars
  PROVE  IntentInv'
<1>1. CASE Aside
  <2>1. Unmarked({"failed"})' => Kept /\ stream' = stream /\ marred \subseteq marred'
    BY <1>1, AsideIsQuiet DEF TypeInv, Unmarked
  <2>2. QED
    BY <2>1 DEF IntentInv, Remembered, Rising, Underway, Kept, Unmarked, Busy
<1>2. CASE Crash
  <2>1. /\ todo' = [p \in Processes |-> IF p = Boot /\ intent # NoIntent THEN <<Call("resume", None)>> ELSE <<>>]
        /\ request' = [p \in Processes |-> IF p = Boot THEN "resume" ELSE "none"]
        /\ stream' = Off /\ activeB' = None /\ intent' = intent
    BY <1>2 DEF Crash
  <2>2. LET w == <<Call("resume", None)>> IN Has(w, {"resume"}) /\ ~Has(w, {"start"}) /\ ~Has(w, {"mark"})
    BY DEF Call, Has
  <2>3. \A p \in Processes : ~Has(todo'[p], {"start"}) /\ ~Has(todo'[p], {"mark"})
    BY <2>1, <2>2, EmptyWord
  <2>4. \A p \in Processes : Underway(p)'
    BY <2>1, <2>3 DEF Underway
  <2>5. intent # NoIntent => Rising(Boot)'
    BY <2>1, <2>2 DEF Rising, Processes
  <2>6. intent = NoIntent => Remembered'
    BY <2>1 DEF Remembered
  <2>7. Boot \in Processes
    BY DEF Processes
  <2>8. QED
    BY <2>4, <2>5, <2>6, <2>7 DEF IntentInv
<1>3. QED
  BY <1>1, <1>2, IntentBegins, IntentRises, IntentFalls, StepKinds

LEMMA CameraAlways == Spec => []CameraInv
<1>1. Init => CameraInv
  BY PairedWords DEF Init, CameraInv, Paired
<1>2. QED
  BY <1>1, CameraInvNext, TypeInvAlways, PTL DEF Spec

LEMMA IntentAlways == Spec => [](Credentials /\ IntentInv)
<1>1. Init => Credentials /\ IntentInv
  <2>1. Init => Credentials
    BY DEF Init, Credentials, NoIntent, Bound
  <2>2. Init => IntentInv
    BY EmptyWord DEF Init, IntentInv, Remembered, Underway, Busy
  <2>3. QED
    BY <2>1, <2>2
<1>2. QED
  BY <1>1, CredentialsNext, IntentNext, ShapeAlways, StartingAlways, CameraAlways, TypeInvAlways, PTL DEF Spec

\* The intent file says what is on whenever no request is on the way: a crash
\* now resumes the stream as it was, or nothing.  Excused: starts that overlapped
\* or were refused, an FFmpeg given up, a record that a boot dropped, and one that
\* could not be written or removed.
THEOREM IntentFollowsStream == Spec => []IntentFollows
<1>1. IntentInv => IntentFollows
  <2> SUFFICES ASSUME IntentInv, Unmarred({"raced", "refused", "failed", "dropped", "unsaved"})
               PROVE  IF stream = Off THEN intent = NoIntent ELSE intent.to = stream /\ intent.b = activeB
    BY DEF IntentFollows
  <2>1. \A p \in Processes : \A X : ~Has(todo[p], X)
    BY EmptyWord DEF Unmarred, Quiet, Busy
  <2>2. Remembered
    BY <2>1 DEF IntentInv, Unmarred, Unmarked, Rising
  <2>3. QED
    BY <2>1, <2>2 DEF Remembered
<1>2. QED
  BY <1>1, IntentAlways, PTL

-----------------------------------------------------------------------------
(* NoOrphanLive *)

\* More about the order of the calls: GoLiveNow completes after it has halted,
\* the others disown first and complete then.
Ordered(r, w) ==
  /\ r = "go-live-now" => NoneAfter(w, {"halt"}, {"complete"})
  /\ r \notin {"go-live-now", "stop"} => NoneAfter(w, {"disown"}, {"complete"})
  /\ Has(w, {"stopActive"}) => r = "stop"

OrderedInv == \A p \in Processes : Ordered(request[p], todo[p])

\* b is live, or will be if YouTube agrees to what it was asked.
Onward(b) == yt[b] = "live" \/ (yt[b] = "testing" /\ phase[b] = "asked live")

\* Somebody will complete b, or have it completed.
Accountable(b) ==
  \/ activeB = b
  \/ b \in ending
  \/ \E p \in Processes : HasFor(todo[p], {"complete", "detach"}, b)
  \/ intent.b = b /\ \E p \in Processes : Has(todo[p], {"resume"})

\* Who makes a broadcast the active one finds none there; who disowns the
\* active one will complete it, or has done so.
Dutiful(p) ==
  LET w == todo[p]
  IN  /\ Has(w, {"adopt", "resume"}) => activeB = None
      /\ Has(w, {"create"}) => activeB = None \/ Has(w, {"disown"})
      /\ Has(w, {"disown"}) /\ activeB # None =>
           \/ HasFor(w, {"complete"}, activeB)
           \/ stream = Off /\ yt[activeB] \notin {"testing", "live"} /\ request[p] = "go-live-now"
      /\ request[p] = "go-live-now" /\ Has(w, {"disown"}) => stream = Off \/ Has(w, {"halt"})

Orphaning == {"raced", "refused", "overtaken", "failed", "uncompleted", "dropped", "unsaved"}

OrphanInv ==
  /\ ~Configured => \A b \in Broadcasts : yt[b] = "none"
  /\ Unmarked(Orphaning) =>
       /\ airing # None => activeB \in {None, airing}
       /\ \A b \in Broadcasts : Onward(b) => Accountable(b)
       /\ \A p \in Processes : Dutiful(p)

\* A start that will be refused, because something streams already.
Doomed == \E p \in Processes : Has(todo[p], {"start"}) /\ stream # Off

Unlaunched == ~Configured => \A b \in Broadcasts : yt[b] = "none"

AccountInv == Unlaunched /\ (Doomed \/ OrphanInv)

LEMMA OrderedWords ==
  ASSUME NEW b \in Args
  PROVE  /\ Ordered("stop", StopRequest(b)) /\ Ordered("end", StopActiveEvent(b))
         /\ Ordered("complete", CompleteActive(b)) /\ Ordered("complete", Completing(b))
         /\ Ordered("go-live-now", Takeover(b) \o <<Call("create", None)>>)
         /\ \A r : Ordered(r, Refusal(r))
         /\ \A r, w : Only(w, Doings) \/ Only(w, {"resume"}) => Ordered(r, w)
<1>1. Ordered("stop", StopRequest(b))
  BY DEF Ordered
<1>2. ASSUME NEW r, NEW w, NEW Z, Only(w, Z), Z \cap {"complete"} = {}, Z \cap {"stopActive"} = {}
      PROVE  Ordered(r, w)
  BY <1>2, OnlyOrder, OnlyWord DEF Ordered
<1>3. ASSUME NEW r, NEW w, Only(w, Doings) \/ Only(w, {"resume"}) PROVE Ordered(r, w)
  <2>1. Doings \cap {"complete"} = {} /\ Doings \cap {"stopActive"} = {}
    BY DEF Doings
  <2>2. {"resume"} \cap {"complete"} = {} /\ {"resume"} \cap {"stopActive"} = {}
    OBVIOUS
  <2>3. QED
    BY <1>2, <1>3, <2>1, <2>2
<1>4. ASSUME NEW r PROVE Ordered(r, Refusal(r))
  <2> DEFINE Z == {"disown", "unblock", "unmark"}
  <2>1. Only(Refusal(r), Z) /\ Z \cap {"complete"} = {} /\ Z \cap {"stopActive"} = {}
    BY RefusalWord
  <2>2. QED
    BY <1>2, <2>1
<1>5. Ordered("complete", Completing(b))
  <2>1. Only(Completing(b), {"complete"})
    BY UndoingWords
  <2>2. {"complete"} \cap {"disown"} = {} /\ {"complete"} \cap {"stopActive"} = {}
    OBVIOUS
  <2>3. QED
    BY <2>1, <2>2, OnlyOrder, OnlyWord DEF Ordered
<1>6. Ordered("complete", CompleteActive(b))
  BY DEF CompleteActive, Call, NoneAfter, Has, Ordered
<1>7. Ordered("go-live-now", Takeover(b) \o <<Call("create", None)>>)
  <2> DEFINE v == <<Call("halt", None), Call("unblock", None), Call("cancel", None), Call("complete", b),
                    Call("disown", None), Call("unmark", None)>>
             u == <<Call("create", None)>>
  <2>1. NoneAfter(v, {"halt"}, {"complete"}) /\ ~Has(v, {"stopActive"})
    BY DEF Call, NoneAfter, Has
  <2>2. NoneAfter(<<>>, {"halt"}, {"complete"}) /\ ~Has(<<>>, {"stopActive"})
    BY EmptyWord DEF NoneAfter
  <2>3. Takeover(b) \in Words /\ NoneAfter(Takeover(b), {"halt"}, {"complete"}) /\ ~Has(Takeover(b), {"stopActive"})
    BY <2>1, <2>2, UndoingWords DEF Takeover
  <2>4. u \in Words /\ NoneAfter(u, {"halt"}, {"complete"}) /\ ~Has(u, {"halt"}) /\ ~Has(u, {"stopActive"})
    BY DEF Call, Words, Calls, Names, Args, NoneAfter, Has
  <2> HIDE DEF u
  <2>5. NoneAfter(Takeover(b) \o u, {"halt"}, {"complete"}) /\ ~Has(Takeover(b) \o u, {"stopActive"})
    BY <2>3, <2>4, CatOrder, CatWord
  <2>6. QED
    BY <2>5 DEF Ordered, u
<1>8. Ordered("end", StopActiveEvent(b))
  <2> DEFINE v == <<Call("cancelBroadcast", None)>>
             u == <<Call("forget", None)>>
             s == v \o StopStream
             x == s \o Completing(b)
  <2>1. v \in Words /\ NoneAfter(v, {"disown"}, {"complete"}) /\ ~Has(v, {"complete"}) /\ ~Has(v, {"stopActive"})
    BY DEF Call, Words, Calls, Names, Undoing, Args, NoneAfter, Has
  <2>2. /\ StopStream \in Words /\ NoneAfter(StopStream, {"disown"}, {"complete"})
        /\ ~Has(StopStream, {"complete"}) /\ ~Has(StopStream, {"stopActive"})
    BY DEF StopStream, Call, Words, Calls, Names, Undoing, Args, NoneAfter, Has
  <2>3. /\ Completing(b) \in Words /\ NoneAfter(Completing(b), {"disown"}, {"complete"})
        /\ ~Has(Completing(b), {"stopActive"})
    BY <1>5, UndoingWords DEF Ordered
  <2>4. u \in Words /\ NoneAfter(u, {"disown"}, {"complete"}) /\ ~Has(u, {"disown"}) /\ ~Has(u, {"stopActive"})
    BY DEF Call, Words, Calls, Names, Undoing, Args, NoneAfter, Has
  <2>5. StopActiveEvent(b) = x \o u
    BY DEF StopActiveEvent
  <2> HIDE DEF v, u
  <2>6. s \in Words /\ NoneAfter(s, {"disown"}, {"complete"}) /\ ~Has(s, {"complete"}) /\ ~Has(s, {"stopActive"})
    BY <2>1, <2>2, CatOrder, CatWord
  <2> HIDE DEF s
  <2>7. x \in Words /\ NoneAfter(x, {"disown"}, {"complete"}) /\ ~Has(x, {"stopActive"})
    BY <2>3, <2>6, CatOrder, CatWord
  <2> HIDE DEF x
  <2>8. NoneAfter(x \o u, {"disown"}, {"complete"}) /\ ~Has(x \o u, {"stopActive"})
    BY <2>4, <2>7, CatOrder, CatWord
  <2>9. QED
    BY <2>5, <2>8 DEF Ordered
<1>9. QED
  BY <1>1, <1>3, <1>4, <1>5, <1>6, <1>7, <1>8

LEMMA OrderedNext ==
  ASSUME TypeInv, OrderedInv, [Next]_vars
  PROVE  OrderedInv'
<1>1. /\ activeB \in Args /\ airing \in Args /\ config \in Args /\ Broadcasts \subseteq Args /\ Scheduled \subseteq Args
      /\ intent \in Intents \cup {NoIntent} /\ None \in Args
  BY StreamServerAssumption DEF TypeInv, Typed, Args, Broadcasts
<1>2. \A r : Ordered(r, <<>>)
  BY EmptyWord DEF Ordered, NoneAfter
<1>3. CASE Requesting
  <2>1. PICK p \in Processes, what \in Requests, w \in Words : Begin(p, what, w) /\ Turns(p, what, w)
    BY <1>3, RequestIsOne
  <2>2. w \in Words
    BY <2>1, RequestWords DEF TypeInv
  <2>3. todo'[p] = w /\ request'[p] = what /\ \A q \in Processes : q # p => todo'[q] = todo[q] /\ request'[q] = request[q]
    BY <2>1, <2>2, BeginFacts DEF TypeInv
  <2>4. CASE what \in {"manual", "scheduled"}
    <3>1. Only(w, Doings)
      BY <1>1, <2>1, <2>4, StartingWords DEF Turns
    <3>2. QED
      BY <1>1, <2>3, <3>1, OrderedWords DEF OrderedInv
  <2>5. CASE what \notin {"manual", "scheduled"}
    <3>1. Ordered(what, w)
      BY <1>1, <1>2, <2>1, <2>5, OrderedWords DEF Turns
    <3>2. QED
      BY <2>3, <3>1 DEF OrderedInv
  <2>6. QED
    BY <2>4, <2>5
<1>4. ASSUME NEW p \in Processes, CallStep(p) PROVE OrderedInv'
  <2> DEFINE n == Head(todo[p]).do
             t == Tail(todo[p])
  <2>1. PICK w \in Words : Return(p, w) /\ Becomes(p, w)
    BY <1>4, CallWords
  <2>2. /\ todo'[p] = w /\ request'[p] = (IF w = <<>> THEN "none" ELSE request[p])
        /\ \A q \in Processes : q # p => todo'[q] = todo[q] /\ request'[q] = request[q]
    BY <2>1, ReturnFacts DEF TypeInv
  <2>3. todo[p] \in Words /\ todo[p] # <<>> /\ Ordered(request[p], todo[p])
    BY <1>4, CallIsOne DEF TypeInv, Typed, Busy, OrderedInv
  <2>4. /\ t \in Words
        /\ \A X : Has(todo[p], X) <=> n \in X \/ Has(t, X)
    BY <2>3, TailWord
  <2>5. \A X, Y : NoneAfter(todo[p], X, Y) => NoneAfter(t, X, Y)
    BY <2>3, TailOrder
  <2>6. Ordered(request[p], w)
    <3>1. CASE w = t
      BY <2>3, <2>4, <2>5, <3>1 DEF Ordered
    <3>2. CASE w = <<>> \/ w = Refusal(request[p])
      BY <1>1, <1>2, <3>2, OrderedWords
    <3>3. CASE \E b \in Broadcasts \ Scheduled : w = Broadcasting(b)
      <4>1. Only(w, Doings)
        BY <1>1, <3>3, StartingWords
      <4>2. QED
        BY <1>1, <4>1, OrderedWords
    <3>4. CASE n = "stopActive" /\ w = StopActiveEvent(airing) \o t
      <4>1. request[p] = "stop"
        BY <2>3, <2>4, <3>4 DEF Ordered
      <4>2. QED
        BY <4>1 DEF Ordered
    <3>5. CASE w = Resuming(intent)
      <4>1. Only(w, Doings)
        BY <1>1, <3>5, StartingWords
      <4>2. QED
        BY <1>1, <4>1, OrderedWords
    <3>6. QED
      BY <2>1, <3>1, <3>2, <3>3, <3>4, <3>5 DEF Becomes
  <2>7. QED
    BY <1>2, <2>2, <2>6 DEF OrderedInv
<1>5. CASE Aside
  BY <1>5, AsideIsQuiet DEF TypeInv, OrderedInv, Kept
<1>6. CASE Crash
  <2>1. todo' = [p \in Processes |-> IF p = Boot /\ intent # NoIntent THEN <<Call("resume", None)>> ELSE <<>>]
    BY <1>6 DEF Crash
  <2>2. Only(<<Call("resume", None)>>, {"resume"})
    BY DEF Call, Only
  <2>3. \A r : Ordered(r, <<Call("resume", None)>>)
    BY <1>1, <2>2, OrderedWords
  <2>4. QED
    BY <1>2, <2>1, <2>3 DEF OrderedInv
<1>7. QED
  BY <1>3, <1>4, <1>5, <1>6, StepKinds

-----------------------------------------------------------------------------
(* What the steps do on YouTube *)

Airborne(b) == yt[b] \in {"testing", "live"}

\* A call of p puts no broadcast on the air; it completes its own, or that is
\* noticed; and it detaches its own.
LEMMA CallAtYouTube ==
  ASSUME TypeInv, NEW p \in Processes, CallStep(p), NEW b \in Broadcasts
  PROVE  LET n == Head(todo[p]).do
             a == Head(todo[p]).b
         IN  /\ Onward(b)' => Onward(b)
             /\ Airborne(b)' => Airborne(b)
             /\ n = "complete" /\ a = b => ~Airborne(b)' \/ "uncompleted" \in marred'
             /\ n # "create" /\ yt[b] = "none" => yt'[b] = "none"
             /\ b \in ending \/ (n = "detach" /\ a = b) => b \in ending'
<1> USE DEF Doing, Arg, Onward, Airborne, youtube, transition
<1> DEFINE n == Head(todo[p]).do
           a == Head(todo[p]).b
<1>1. /\ yt \in [Broadcasts -> Statuses] /\ phase \in [Broadcasts -> Phases]
  BY DEF TypeInv, Typed
<1>2. b # None
  BY DEF Broadcasts, None
<1>3. CASE yt' = yt /\ phase' = phase /\ ending' = ending /\ n \notin {"complete", "detach"}
  BY <1>3
<1>4. CASE Complete(p)
  <2>1. ending' = ending /\ phase' = phase /\ n = "complete"
    BY <1>4 DEF Complete
  <2>2. CASE yt' = [yt EXCEPT ![a] = Ended(@)]
    <3>1. yt'[b] = IF b = a THEN Ended(yt[b]) ELSE yt[b]
      BY <1>1, <2>2
    <3>2. QED
      BY <2>1, <3>1 DEF Ended
  <2>3. CASE yt' = yt /\ "uncompleted" \in marred'
    BY <2>1, <2>3
  <2>4. QED
    BY <1>4, <2>2, <2>3 DEF Complete, Upset
<1>5. CASE Detach(p)
  BY <1>2, <1>5 DEF Detach
<1>6. CASE Create(p)
  <2>1. PICK d \in Broadcasts : yt[d] = "none" /\ yt' = [yt EXCEPT ![d] = "bound"]
    BY <1>6 DEF Create
  <2>2. ending' = ending /\ phase' = phase /\ n = "create"
    BY <1>6 DEF Create
  <2>3. QED
    BY <1>1, <2>1, <2>2
<1>7. CASE Launch(p)
  <2>1. yt' = yt /\ ending' = ending /\ n = "launch" /\ phase' = [phase EXCEPT ![a] = "testing"]
    BY <1>7 DEF Launch
  <2>2. phase'[b] = "asked live" => phase[b] = "asked live"
    BY <1>1, <2>1
  <2>3. QED
    BY <2>1, <2>2
<1>8. CASE Cancel(p) \/ CancelBroadcast(p)
  BY <1>3, <1>8 DEF Cancel, CancelBroadcast, CancelTransition
<1>9. CASE Block(p) \/ Unblock(p) \/ Start(p) \/ StartRefused(p) \/ Halt(p) \/ MarkLive(p) \/ MarkIdle(p) \/ Adopt(p) \/ Disown(p)
  BY <1>3, <1>9 DEF Block, Unblock, Start, StartRefused, Halt, MarkLive, MarkIdle, Adopt, Disown
<1>10. CASE CreateFails(p) \/ StopActive(p) \/ Forget(p) \/ Air(p) \/ ResumeIfNeeded(p) \/ ResumeRefused(p)
  BY <1>3, <1>10 DEF CreateFails, StopActive, Forget, Air, ResumeIfNeeded, ResumeRefused
<1>11. QED
  BY <1>4, <1>5, <1>6, <1>7, <1>8, <1>9, <1>10 DEF CallStep

\* What YouTube and the goroutines do: a broadcast goes live only if the
\* server asked for it when it was the active one, and streamed.
LEMMA AsideAtYouTube ==
  ASSUME TypeInv, Aside, NEW b \in Broadcasts
  PROVE  /\ Onward(b)' => Onward(b) \/ activeB = b
         /\ Airborne(b)' => Airborne(b) \/ stream = b
         /\ yt[b] = "none" => yt'[b] = "none"
         /\ b \in ending => b \in ending' \/ ~Onward(b)' \/ "uncompleted" \in marred'
<1> USE DEF Onward, Airborne
<1>1. /\ yt \in [Broadcasts -> Statuses] /\ phase \in [Broadcasts -> Phases]
  BY DEF TypeInv, Typed
<1>2. CASE UNCHANGED vars \/ FFmpegFails
  BY <1>2 DEF FFmpegFails, vars, youtube, transition
<1>3. ASSUME NEW d \in Broadcasts, Attempt(d)
      PROVE  /\ Onward(b)' => Onward(b) \/ activeB = b
             /\ yt' = yt /\ ending' = ending
  <2>1. /\ yt' = yt /\ ending' = ending
        /\ phase' = [phase EXCEPT ![d] = IF activeB = d /\ d \notin cancelled THEN Asked(phase[d]) ELSE "done"]
    BY <1>3 DEF Attempt, GoOn
  <2>2. phase'[b] = "asked live" => phase[b] = "asked live" \/ activeB = b
    BY <1>1, <2>1
  <2>3. QED
    BY <2>1, <2>2
<1>4. ASSUME NEW d \in Broadcasts, CompleteLater(d)
      PROVE  /\ Onward(b)' => Onward(b)
             /\ Airborne(b)' => Airborne(b)
             /\ yt[b] = "none" => yt'[b] = "none"
             /\ b \in ending => b \in ending' \/ ~Onward(b)' \/ "uncompleted" \in marred'
  <2>1. phase' = phase /\ ending' = ending \ {d}
    BY <1>4 DEF CompleteLater, transition
  <2>2. CASE yt' = [yt EXCEPT ![d] = Ended(@)]
    <3>1. yt'[b] = IF b = d THEN Ended(yt[b]) ELSE yt[b]
      BY <1>1, <2>2
    <3>2. QED
      BY <2>1, <3>1 DEF Ended
  <2>3. CASE yt' = yt /\ "uncompleted" \in marred'
    BY <2>1, <2>3
  <2>4. QED
    BY <1>4, <2>2, <2>3 DEF CompleteLater, Upset
<1>5. ASSUME NEW d \in Broadcasts, Answer(d)
      PROVE  /\ Onward(b)' => Onward(b)
             /\ Airborne(b)' => Airborne(b) \/ stream = b
             /\ yt[b] = "none" => yt'[b] = "none"
             /\ ending' = ending
  <2>1. PICK st \in {"testing", "live"} :
             /\ phase[d] = Asked(st)
             /\ \/ yt[d] = Before(st) /\ stream = d /\ yt' = [yt EXCEPT ![d] = st] /\ GoOn(d, After(st))
                \/ yt' = yt /\ \E point \in {After(st), st, "done"} : GoOn(d, point)
    BY <1>5 DEF Answer
  <2>2. ending' = ending
    BY <2>1 DEF GoOn
  <2>3. phase'[b] = "asked live" => phase[b] = "asked live" /\ b # d
    BY <1>1, <2>1 DEF GoOn, After
  <2>4. yt' = yt \/ (yt[d] = Before(st) /\ stream = d /\ yt' = [yt EXCEPT ![d] = st])
    BY <2>1
  <2>5. CASE b # d \/ yt' = yt
    BY <1>1, <2>2, <2>3, <2>4, <2>5
  <2>6. CASE b = d /\ yt[d] = Before(st) /\ stream = d /\ yt' = [yt EXCEPT ![d] = st]
    <3>1. yt'[b] = st
      BY <1>1, <2>6
    <3>2. st = "live" => Onward(b)
      BY <2>1, <2>6 DEF Asked, Before
    <3>3. QED
      BY <2>2, <2>3, <2>6, <3>1, <3>2 DEF Before
  <2>7. QED
    BY <2>4, <2>5, <2>6
<1>6. CASE \E d \in Broadcasts : TransitionStep(d) \/ CompleteLater(d)
  <2>1. PICK d \in Broadcasts : Attempt(d) \/ CompleteLater(d) \/ Answer(d)
    BY <1>6 DEF TransitionStep
  <2>2. QED
    BY <1>3, <1>4, <1>5, <2>1
<1>7. QED
  BY <1>2, <1>6 DEF Aside

-----------------------------------------------------------------------------
(* Nobody orphans a live broadcast *)

\* The requests that turn to the active broadcast complete it.
LEMMA DutyWords ==
  ASSUME NEW b \in Args
  PROVE  /\ HasFor(StopRequest(b), {"complete", "detach"}, b)
         /\ HasFor(CompleteActive(b), {"complete"}, b)
         /\ b # None => HasFor(StopActiveEvent(b), {"complete"}, b)
         /\ LET w == Takeover(b) \o <<Call("create", None)>>
            IN  /\ b = None => ~Has(w, {"disown"})
                /\ b # None => HasFor(w, {"complete"}, b) /\ Has(w, {"disown"}) /\ Has(w, {"halt"})
<1>1. HasFor(StopRequest(b), {"complete", "detach"}, b)
  BY DEF StopRequest, Call, HasFor
<1>2. HasFor(CompleteActive(b), {"complete"}, b)
  BY DEF CompleteActive, Call, HasFor
<1>3. ASSUME b # None PROVE HasFor(StopActiveEvent(b), {"complete"}, b)
  <2> DEFINE v == <<Call("cancelBroadcast", None)>>
             u == <<Call("forget", None)>>
             s == v \o StopStream
             x == s \o Completing(b)
  <2>1. v \in Words /\ u \in Words /\ StopStream \in Words
    BY DEF StopStream, Call, Words, Calls, Names, Undoing, Args
  <2>2. Completing(b) \in Words /\ HasFor(Completing(b), {"complete"}, b)
    <3>1. HasFor(<<Call("complete", b)>>, {"complete"}, b)
      BY DEF Call, HasFor
    <3>2. QED
      BY <1>3, <3>1, UndoingWords DEF Completing
  <2>3. StopActiveEvent(b) = x \o u
    BY DEF StopActiveEvent
  <2> HIDE DEF v, u
  <2>4. s \in Words
    BY <2>1, CatWord
  <2> HIDE DEF s
  <2>5. x \in Words /\ HasFor(x, {"complete"}, b)
    BY <2>2, <2>4, CatWord, CatOrder
  <2> HIDE DEF x
  <2>6. HasFor(x \o u, {"complete"}, b)
    BY <2>1, <2>5, CatOrder
  <2>7. QED
    BY <2>3, <2>6
<1>4. LET w == Takeover(b) \o <<Call("create", None)>>
      IN  /\ b = None => ~Has(w, {"disown"})
          /\ b # None => HasFor(w, {"complete"}, b) /\ Has(w, {"disown"}) /\ Has(w, {"halt"})
  <2> DEFINE v == <<Call("halt", None), Call("unblock", None), Call("cancel", None), Call("complete", b),
                    Call("disown", None), Call("unmark", None)>>
             u == <<Call("create", None)>>
  <2>1. HasFor(v, {"complete"}, b) /\ Has(v, {"disown"}) /\ Has(v, {"halt"})
    BY DEF Call, Has, HasFor
  <2>2. u \in Words /\ ~Has(u, {"disown"})
    BY DEF Call, Words, Calls, Names, Args, Has
  <2>3. Takeover(b) \in Words /\ (b = None => Takeover(b) = <<>>) /\ (b # None => Takeover(b) = v)
    BY UndoingWords DEF Takeover
  <2> HIDE DEF u, v
  <2>4. b = None => ~Has(Takeover(b) \o u, {"disown"})
    BY <2>2, <2>3, EmptyWord, CatWord
  <2>5. b # None => Has(Takeover(b) \o u, {"disown"}) /\ Has(Takeover(b) \o u, {"halt"})
    BY <2>1, <2>2, <2>3, CatWord
  <2>6. b # None => HasFor(Takeover(b) \o u, {"complete"}, b)
    BY <2>1, <2>2, <2>3, CatOrder
  <2>7. QED
    BY <2>4, <2>5, <2>6 DEF u
<1>5. QED
  BY <1>1, <1>2, <1>3, <1>4

LEMMA RequestAtYouTube ==
  ASSUME TypeInv, Requesting, NEW b \in Broadcasts
  PROVE  /\ Onward(b)' => Onward(b)
         /\ Airborne(b)' => Airborne(b)
         /\ ending' = ending
         /\ ~Configured => yt' = yt
<1> USE DEF Onward, Airborne, youtube, transition
<1>1. ASSUME NEW c \in Clients, Request(c) PROVE yt' = yt /\ phase' = phase /\ ending' = ending
  BY <1>1 DEF Request, HandleStart, HandleStop, HandleGoLiveNow, HandleCompleteBroadcast, HandleConfigUpdate
<1>2. ASSUME NEW d \in Scheduled, GoLive(d)
      PROVE  /\ Onward(b)' => Onward(b)
             /\ Airborne(b)' => Airborne(b)
             /\ ending' = ending /\ Configured
  <2>1. /\ Configured /\ ending' = ending /\ phase' = phase
        /\ yt' = yt \/ yt' = [yt EXCEPT ![d] = "bound"]
    BY <1>2 DEF GoLive
  <2>2. yt'[b] = yt[b] \/ yt'[b] = "bound"
    BY <2>1 DEF TypeInv, Typed
  <2>3. QED
    BY <2>1, <2>2
<1>3. CASE EventEnds
  BY <1>3 DEF EventEnds
<1>4. QED
  BY <1>1, <1>2, <1>3 DEF Requesting

\* A request that begins detaches what it disowns, or finds what it is to complete.
LEMMA OrphanBegins ==
  ASSUME TypeInv, IntentInv, OrphanInv, Requesting, ~Doomed'
  PROVE  OrphanInv'
<1>1. PICK p \in Processes, what \in Requests, w \in Words : Begin(p, what, w) /\ Turns(p, what, w)
  BY RequestIsOne
<1>2. w \in Words /\ Legal(what, w) /\ activeB \in Args /\ airing \in Args /\ config \in Args
  BY <1>1, RequestWords DEF TypeInv, Typed
<1>3. /\ ~Busy(p) /\ todo'[p] = w /\ request'[p] = what
      /\ \A q \in Processes : q # p => todo'[q] = todo[q] /\ request'[q] = request[q]
      /\ \A q \in Processes : q # p /\ Busy(q) /\ (what \in Starting \/ request[q] \in Starting) => "raced" \in marred'
      /\ marred \subseteq marred'
  BY <1>1, <1>2, BeginFacts DEF TypeInv
<1>4. stream' = stream /\ intent' = intent /\ airing' = airing
  BY RequestIsOne
<1>5. activeB' = activeB \/ (what = "stop" /\ activeB' = None /\ w = StopRequest(activeB))
  BY <1>1 DEF Turns
<1>6. ASSUME ~Configured, NEW b \in Broadcasts PROVE yt'[b] = "none"
  BY <1>6, RequestAtYouTube DEF OrphanInv
<1>7. ASSUME Unmarked(Orphaning)'
      PROVE  /\ airing' # None => activeB' \in {None, airing'}
             /\ \A b \in Broadcasts : Onward(b)' => Accountable(b)'
             /\ \A q \in Processes : Dutiful(q)'
  <2>1. /\ airing # None => activeB \in {None, airing}
        /\ \A b \in Broadcasts : Onward(b) => Accountable(b)
        /\ \A q \in Processes : Dutiful(q)
    BY <1>3, <1>7 DEF OrphanInv, Unmarked
  <2>2. airing' # None => activeB' \in {None, airing'}
    BY <1>4, <1>5, <2>1
  <2>3. todo[p] = <<>> /\ (\A X : ~Has(todo[p], X)) /\ (\A X, b : ~HasFor(todo[p], X, b))
    BY <1>3, EmptyWord DEF Busy, HasFor
  <2>4. ASSUME NEW b \in Broadcasts, Onward(b)' PROVE Accountable(b)'
    <3>1. Accountable(b) /\ ending' = ending /\ b \in Args
      BY <2>1, <2>4, RequestAtYouTube DEF Args
    <3>2. CASE activeB = b
      <4>1. activeB' = b \/ HasFor(w, {"complete", "detach"}, b)
        BY <1>5, <3>1, <3>2, DutyWords
      <4>2. QED
        BY <1>3, <4>1 DEF Accountable
    <3>3. CASE activeB # b
      BY <1>3, <1>4, <2>3, <3>1, <3>3 DEF Accountable
    <3>4. QED
      BY <3>2, <3>3
  <2>5. ASSUME NEW q \in Processes, q # p PROVE Dutiful(q)'
    <3>1. Dutiful(q) /\ todo'[q] = todo[q] /\ request'[q] = request[q]
      BY <1>3, <2>1, <2>5
    <3>2. activeB' = activeB \/ activeB' = None
      BY <1>5
    <3>3. activeB # None => (yt[activeB] \notin {"testing", "live"} => yt'[activeB] \notin {"testing", "live"})
      <4>1. activeB # None => activeB \in Broadcasts
        BY <1>2 DEF Args
      <4>2. QED
        BY <4>1, RequestAtYouTube DEF Airborne
    <3>4. QED
      BY <1>4, <3>1, <3>2, <3>3 DEF Dutiful
  <2>6. ASSUME what = "stop" PROVE Dutiful(p)'
    BY <1>1, <1>3, <2>6 DEF Turns, Dutiful
  <2>7. ASSUME what = "none" PROVE Dutiful(p)'
    BY <1>1, <1>3, <2>7, EmptyWord DEF Turns, Dutiful
  <2>8. ASSUME what \in {"complete", "end"} PROVE Dutiful(p)'
    <3>1. Only(w, Undoing)
      BY <1>2, <2>8 DEF Legal, Starting
    <3>2. ~Has(w, {"adopt", "resume"}) /\ ~Has(w, {"create"})
      BY <3>1, OnlyWord DEF Undoing
    <3>3. Has(w, {"disown"}) /\ activeB # None => HasFor(w, {"complete"}, activeB)
      <4>1. CASE what = "end"
        BY <1>1, <1>2, <2>1, <4>1, DutyWords DEF Turns
      <4>2. CASE what = "complete"
        <5>1. PICK b \in Broadcasts : w = IF b = activeB THEN CompleteActive(b) ELSE Completing(b)
          BY <1>1, <4>2 DEF Turns
        <5>2. b \in Args
          BY DEF Args
        <5>3. {"complete"} \cap {"disown"} = {}
          OBVIOUS
        <5>4. ~Has(Completing(b), {"disown"})
          BY <5>2, <5>3, UndoingWords, OnlyWord
        <5>5. QED
          BY <5>1, <5>2, <5>4, DutyWords
      <4>3. QED
        BY <2>8, <4>1, <4>2
    <3>4. activeB' = activeB
      BY <1>5, <2>8
    <3>5. QED
      BY <1>3, <2>8, <3>2, <3>3, <3>4 DEF Dutiful
  <2>9. ASSUME what = "go-live-now" PROVE Dutiful(p)'
    <3>1. w = Takeover(activeB) \o <<Call("create", None)>>
      BY <1>1, <2>9 DEF Turns
    <3>2. ~Has(w, {"adopt", "resume"})
      <4>1. Only(w, Undoing) \/ Only(w, Undoing \cup {"create"})
        <5>1. Takeover(activeB) \in Words /\ Only(Takeover(activeB), Undoing \cup {"create"})
          BY <1>2, UndoingWords DEF Only
        <5>2. LET v == <<Call("create", None)>> IN v \in Words /\ Only(v, Undoing \cup {"create"})
          BY DEF Call, Words, Calls, Names, Args, Only
        <5>3. QED
          BY <3>1, <5>1, <5>2, CatWord
      <4>2. QED
        BY <4>1 DEF Only, Has, Undoing
    <3>3. /\ activeB = None => ~Has(w, {"disown"})
          /\ activeB # None => HasFor(w, {"complete"}, activeB) /\ Has(w, {"disown"}) /\ Has(w, {"halt"})
      BY <1>2, <3>1, DutyWords
    <3>4. activeB' = activeB
      BY <1>5, <2>9
    <3>5. QED
      BY <1>3, <3>2, <3>3, <3>4 DEF Dutiful
  <2>10. ASSUME what \in {"manual", "scheduled"} PROVE Dutiful(p)'
    <3>1. Only(w, Doings)
      <4>1. Scheduled \subseteq Args
        BY StreamServerAssumption DEF Args, Broadcasts
      <4>2. QED
        BY <1>1, <1>2, <2>10, <4>1, StartingWords DEF Turns
    <3>2. ~Has(w, {"create"}) /\ ~Has(w, {"disown"}) /\ ~Has(w, {"resume"})
      BY <3>1 DEF Only, Has, Doings
    <3>3. Has(w, {"adopt", "resume"}) => activeB = None
      <4>1. CASE what = "manual"
        <5>1. w = <<Call("block", None), Call("start", config), Call("mark", None)>>
          BY <1>1, <4>1 DEF Turns
        <5>2. QED
          BY <5>1 DEF Call, Has
      <4>2. CASE what = "scheduled"
        <5>1. stream = Off
          <6>1. PICK b \in Args : w = Airing(b)
            BY <1>1, <4>2, StreamServerAssumption DEF Turns, Args, Broadcasts
          <6>2. Has(todo'[p], {"start"})
            BY <1>3, <6>1, BoundWords
          <6>3. QED
            BY <1>4, <6>2 DEF Doomed
        <5>2. \A q \in Processes : ~Busy(q)
          BY <1>3, <1>7, <4>2 DEF Starting, Unmarked, Orphaning
        <5>3. \A q \in Processes : \A X : ~Has(todo[q], X)
          BY <5>2, EmptyWord DEF Busy
        <5>4. Remembered
          BY <1>3, <1>7, <5>3 DEF IntentInv, Unmarked, Orphaning, Rising
        <5>5. QED
          BY <5>1, <5>3, <5>4 DEF Remembered
      <4>3. QED
        BY <2>10, <4>1, <4>2
    <3>4. activeB' = activeB
      BY <1>5, <2>10
    <3>5. QED
      BY <1>3, <2>10, <3>2, <3>3, <3>4 DEF Dutiful
  <2>11. Dutiful(p)'
    BY <1>1, <2>6, <2>7, <2>8, <2>9, <2>10 DEF Turns
  <2>12. QED
    BY <2>2, <2>4, <2>5, <2>11
<1>8. QED
  BY <1>6, <1>7 DEF OrphanInv

\* The active broadcast changes hands in no other way than the calls say.
LEMMA CallTakesOver ==
  ASSUME TypeInv, ShapeInv, UnrefusedInv, AscentInv, EventInv, NEW p \in Processes, CallStep(p),
         Unmarked(Orphaning)', airing # None => activeB \in {None, airing}
  PROVE  airing' # None => activeB' \in {None, airing'}
<1> DEFINE n == Head(todo[p]).do
           a == Head(todo[p]).b
           t == Tail(todo[p])
<1>1. Effect(p)
  BY CallHasEffect DEF TypeInv
<1>2. Unmarked({"raced", "refused", "failed"}) /\ Unmarked({"raced", "refused", "overtaken", "failed"}) /\ Unmarked({"refused"})
  BY <1>1 DEF Effect, Unmarked, Orphaning
<1>3. Busy(p) /\ todo[p] \in Words /\ todo[p] # <<>> /\ Legal(request[p], todo[p]) /\ Shape(request[p], todo[p])
  BY CallIsOne DEF TypeInv, Typed, Worded, Busy, ShapeInv
<1>4. /\ \A X : Has(todo[p], X) <=> n \in X \/ Has(t, X)
      /\ \A X : Only(todo[p], X) => n \in X
      /\ \A X, Y : Followed(todo[p], X, Y) => (n \in X => Has(t, Y))
  BY <1>3, TailWord
<1>5. /\ Busy(p) /\ request[p] = "resume" => airing = None
      /\ Has(todo[p], {"air"}) => airing = None
  BY <1>2 DEF EventInv
<1>6. CASE n = "air"
  <2>1. request[p] = "scheduled"
    BY <1>3, <1>4, <1>6 DEF Shape
  <2>2. Ascending(p)
    <3>1. Has(todo[p], {"start", "mark", "air"})
      BY <1>4, <1>6
    <3>2. QED
      BY <1>2, <2>1, <3>1 DEF AscentInv
  <2>3. ~Has(todo[p], {"start"}) /\ ~Has(todo[p], {"adopt"})
    <3>1. ~Has(t, {"adopt", "start"})
      BY <1>3, <1>6, TailOrder DEF Shape
    <3>2. QED
      BY <1>4, <1>6, <3>1 DEF Has
  <2>4. PICK b \in Broadcasts : Bound(todo[p], {"adopt", "start", "mark", "air"}, b) /\ activeB = b
    BY <2>2, <2>3 DEF Ascending
  <2>5. a = b
    BY <1>3, <1>6, <2>4, TailOrder
  <2>6. activeB' = activeB /\ airing' = a
    BY <1>1, <1>6 DEF Effect
  <2>7. QED
    BY <2>4, <2>5, <2>6
<1>7. CASE n = "adopt"
  <2>1. Only(todo[p], Doings) /\ request[p] \in {"go-live-now", "scheduled"}
    BY <1>3, <1>4, <1>7 DEF Legal, Shape, Undoing
  <2>2. airing' = airing /\ (request[p] = "go-live-now" => airing = None)
    BY <1>1, <1>7 DEF Effect, Unmarked, Orphaning
  <2>3. request[p] = "scheduled" => airing = None
    BY <1>3, <1>4, <1>5, <1>7 DEF Shape
  <2>4. QED
    BY <2>1, <2>2, <2>3
<1>8. CASE n = "resume"
  <2>1. request[p] = "resume" /\ airing' = airing
    BY <1>1, <1>3, <1>4, <1>8 DEF Legal, Undoing, Doings, Effect
  <2>2. QED
    BY <1>3, <1>5, <2>1
<1>9. CASE n \notin {"air", "adopt", "resume"}
  <2>1. (airing' = airing \/ airing' = None) /\ (activeB' = activeB \/ activeB' = None)
    BY <1>1, <1>9 DEF Effect
  <2>2. QED
    BY <2>1
<1>10. QED
  BY <1>6, <1>7, <1>8, <1>9

\* What a process leaves when it does a call: who was accountable still is.
LEMMA CallKeepsAccount ==
  ASSUME TypeInv, ShapeInv, OrphanInv, NEW p \in Processes, CallStep(p), Unmarked(Orphaning)',
         NEW b \in Broadcasts, Onward(b)'
  PROVE  Accountable(b)'
<1> DEFINE n == Head(todo[p]).do
           a == Head(todo[p]).b
           t == Tail(todo[p])
           C == {"complete", "detach"}
<1>1. Effect(p)
  BY CallHasEffect DEF TypeInv
<1>2. Unmarked(Orphaning)
  BY <1>1 DEF Effect, Unmarked
<1>3. Onward(b) /\ ~(n = "complete" /\ a = b) /\ (b \in ending \/ (n = "detach" /\ a = b) => b \in ending')
  <2>1. /\ Onward(b)' => Onward(b)
        /\ n = "complete" /\ a = b => ~Airborne(b)' \/ "uncompleted" \in marred'
        /\ b \in ending \/ (n = "detach" /\ a = b) => b \in ending'
    BY CallAtYouTube
  <2>2. Onward(b)' => Airborne(b)'
    BY DEF Onward, Airborne
  <2>3. QED
    BY <2>1, <2>2 DEF Unmarked, Orphaning
<1>4. Configured /\ Accountable(b) /\ Dutiful(p) /\ Airborne(b) /\ b # None
  <2>1. b # None
    BY DEF Broadcasts, None
  <2>2. Airborne(b) /\ yt[b] # "none"
    BY <1>3 DEF Onward, Airborne
  <2>3. QED
    BY <1>2, <1>3, <2>1, <2>2 DEF OrphanInv
<1>5. PICK w \in Words : Return(p, w) /\ Becomes(p, w)
  BY CallWords
<1>6. todo'[p] = w /\ \A q \in Processes : q # p => todo'[q] = todo[q]
  BY <1>5, ReturnFacts DEF TypeInv
<1>7. Busy(p) /\ todo[p] \in Words /\ todo[p] # <<>> /\ Legal(request[p], todo[p]) /\ Shape(request[p], todo[p])
  BY CallIsOne DEF TypeInv, Typed, Worded, Busy, ShapeInv
<1>8. /\ t \in Words
      /\ \A X : Has(todo[p], X) <=> n \in X \/ Has(t, X)
      /\ \A X : Only(todo[p], X) => n \in X /\ Only(t, X)
  BY <1>7, TailWord
<1>9. \A X : HasFor(todo[p], X, b) => (n \in X /\ a = b) \/ HasFor(t, X, b)
  BY <1>7, TailOrder
<1>10. HasFor(t, C, b) => Accountable(b)'
  <2>1. CASE w = t
    BY <1>6, <2>1 DEF Accountable
  <2>2. CASE w = StopActiveEvent(airing) \o t
    <3>1. StopActiveEvent(airing) \in Words
      BY UndoingWords DEF TypeInv, Typed
    <3>2. HasFor(t, C, b) => HasFor(w, C, b)
      BY <1>8, <2>2, <3>1, CatOrder
    <3>3. QED
      BY <1>6, <3>2 DEF Accountable
  <2>3. CASE n = "create"
    <3>1. NoneAfter(todo[p], Undoing, {"create"})
      BY <1>7 DEF Shape
    <3>2. ~Has(t, Undoing)
      BY <1>7, <2>3, <3>1, TailOrder
    <3>3. QED
      BY <3>2 DEF Has, HasFor, Undoing
  <2>4. CASE n = "resume"
    <3>1. Only(todo[p], {"resume"})
      BY <1>7, <1>8, <2>4 DEF Legal, Undoing, Doings
    <3>2. QED
      BY <1>8, <3>1 DEF Only, HasFor
  <2>5. QED
    BY <1>4, <1>5, <2>1, <2>2, <2>3, <2>4 DEF Becomes, Unmarked, Orphaning
<1>11. CASE activeB = b
  <2>1. n \notin {"adopt", "resume"}
    BY <1>4, <1>8, <1>11 DEF Dutiful
  <2>2. activeB' = b \/ n = "disown"
    BY <1>1, <1>11, <2>1 DEF Effect
  <2>3. n = "disown" => HasFor(t, C, b)
    <3>1. n = "disown" => HasFor(todo[p], {"complete"}, b)
      BY <1>4, <1>8, <1>11 DEF Dutiful, Airborne
    <3>2. HasFor(t, {"complete"}, b) => HasFor(t, C, b)
      BY DEF HasFor
    <3>3. QED
      BY <1>9, <3>1, <3>2
  <2>4. QED
    BY <1>10, <2>2, <2>3 DEF Accountable
<1>12. CASE b \in ending
  BY <1>3, <1>12 DEF Accountable
<1>13. ASSUME NEW q \in Processes, HasFor(todo[q], C, b) PROVE Accountable(b)'
  <2>1. CASE q # p
    BY <1>6, <1>13, <2>1 DEF Accountable
  <2>2. CASE q = p
    BY <1>3, <1>9, <1>10, <1>13, <2>2 DEF Accountable
  <2>3. QED
    BY <2>1, <2>2
<1>14. ASSUME intent.b = b, NEW q \in Processes, Has(todo[q], {"resume"}) PROVE Accountable(b)'
  <2>1. Rising(q) /\ "raced" \notin marred
    BY <1>2, <1>14 DEF Rising, Unmarked, Orphaning
  <2>2. q = p
    BY <1>7, <2>1, RisesAlone
  <2>3. n = "resume"
    BY <1>8, <1>14, <2>1, <2>2, RisesAlone
  <2>4. activeB' = intent.b
    BY <1>1, <2>3 DEF Effect, Unmarked, Orphaning
  <2>5. QED
    BY <1>14, <2>4 DEF Accountable
<1>15. QED
  BY <1>4, <1>11, <1>12, <1>13, <1>14 DEF Accountable

\* p, which does a call, remains dutiful.
LEMMA CallerKeepsDuty ==
  ASSUME TypeInv, ShapeInv, OrderedInv, IntentInv, NEW p \in Processes, CallStep(p), Unmarked(Orphaning)', Dutiful(p)
  PROVE  Dutiful(p)'
<1> DEFINE n == Head(todo[p]).do
           a == Head(todo[p]).b
           t == Tail(todo[p])
<1>1. Effect(p)
  BY CallHasEffect DEF TypeInv
<1>2. Unmarked(Orphaning)
  BY <1>1 DEF Effect, Unmarked
<1>3. PICK w \in Words : Return(p, w) /\ Becomes(p, w)
  BY CallWords
<1>4. todo'[p] = w /\ request'[p] = (IF w = <<>> THEN "none" ELSE request[p])
  BY <1>3, ReturnFacts DEF TypeInv
<1>5. /\ Busy(p) /\ todo[p] \in Words /\ todo[p] # <<>>
      /\ Legal(request[p], todo[p]) /\ Shape(request[p], todo[p]) /\ Ordered(request[p], todo[p])
  BY CallIsOne DEF TypeInv, Typed, Worded, Busy, ShapeInv, OrderedInv
<1>6. /\ t \in Words
      /\ \A X : Has(todo[p], X) <=> n \in X \/ Has(t, X)
      /\ \A X : Only(todo[p], X) => n \in X /\ Only(t, X)
  BY <1>5, TailWord
<1>7. \A X, Y : NoneAfter(todo[p], X, Y) => (n \in Y => ~Has(t, X))
  BY <1>5, TailOrder
<1>8. request[p] = "stop" => activeB = None
  BY <1>2, <1>5 DEF IntentInv, Unmarked, Orphaning, Underway
<1>9. /\ Has(todo[p], {"adopt", "resume"}) => activeB = None
      /\ Has(todo[p], {"create"}) => activeB = None \/ Has(todo[p], {"disown"})
      /\ Has(todo[p], {"disown"}) /\ activeB # None =>
           \/ HasFor(todo[p], {"complete"}, activeB)
           \/ stream = Off /\ ~Airborne(activeB) /\ request[p] = "go-live-now"
      /\ request[p] = "go-live-now" /\ Has(todo[p], {"disown"}) => stream = Off \/ Has(todo[p], {"halt"})
  BY DEF Dutiful, Airborne
<1>10. CASE w = <<>>
  BY <1>4, <1>10, EmptyWord DEF Dutiful
<1>11. ASSUME Only(w, Doings), ~Has(w, {"adopt"}) \/ activeB' = None PROVE Dutiful(p)'
  <2>1. ~Has(w, {"create"}) /\ ~Has(w, {"disown"}) /\ (Has(w, {"adopt", "resume"}) => Has(w, {"adopt"}))
    BY <1>11 DEF Only, Has, Doings
  <2>2. QED
    BY <1>4, <1>11, <2>1 DEF Dutiful
<1>12. CASE n = "create" /\ \E b \in Broadcasts \ Scheduled : w = Broadcasting(b)
  <2>1. Only(w, Doings)
    BY <1>12, StartingWords DEF Args
  <2>2. ~Has(todo[p], {"disown"})
    <3>1. ~Has(t, Undoing)
      BY <1>5, <1>7, <1>12 DEF Shape
    <3>2. ~Has(t, {"disown"})
      BY <3>1 DEF Has, Undoing
    <3>3. QED
      BY <1>6, <1>12, <3>2
  <2>3. activeB' = None
    BY <1>1, <1>6, <1>9, <1>12, <2>2 DEF Effect
  <2>4. QED
    BY <1>11, <2>1, <2>3
<1>13. CASE n = "stopActive" /\ w = StopActiveEvent(airing) \o t
  <2>1. request[p] = "stop"
    BY <1>5, <1>6, <1>13 DEF Ordered
  <2>2. activeB' = None
    BY <1>1, <1>8, <1>13, <2>1 DEF Effect
  <2>3. QED
    BY <1>4, <2>1, <2>2 DEF Dutiful
<1>14. CASE n = "resume" /\ w = Resuming(intent)
  <2>1. request[p] = "resume" /\ intent \in Intents \cup {NoIntent} /\ None \in Args
    BY <1>5, <1>6, <1>14 DEF Legal, Undoing, Doings, TypeInv, Typed, Args
  <2>2. Only(w, Doings)
    BY <1>14, <2>1, StartingWords
  <2>3. ~Has(w, {"adopt"})
    <3>1. Shape("resume", w)
      BY <1>14, <2>1, RequestShapes
    <3>2. QED
      BY <3>1 DEF Shape
  <2>4. QED
    BY <1>11, <2>2, <2>3
<1>15. CASE w = t /\ n \in (Undoing \cup Doings) \ {"stopActive"}
  <2>1. activeB' = IF n = "adopt" THEN a ELSE IF n = "disown" THEN None ELSE activeB
    BY <1>1, <1>15 DEF Effect, Undoing, Doings
  <2>2. CASE Only(todo[p], Doings)
    <3>1. Only(t, Doings) /\ n # "disown"
      BY <1>6, <2>2 DEF Doings
    <3>2. n = "adopt" => ~Has(t, {"adopt"})
      <4>1. n = "adopt" => ~Has(t, {"adopt", "start"}) \/ ~Has(t, {"adopt"})
        BY <1>5, <1>7 DEF Shape
      <4>2. QED
        BY <4>1 DEF Has
    <3>3. n # "adopt" /\ Has(t, {"adopt"}) => activeB' = None
      <4>1. Has(t, {"adopt"}) => Has(todo[p], {"adopt", "resume"})
        BY <1>6 DEF Has
      <4>2. QED
        BY <1>9, <2>1, <3>1, <4>1
    <3>4. QED
      BY <1>11, <1>15, <3>1, <3>2, <3>3
  <2>3. CASE ~Only(todo[p], Doings)
    <3>1. Only(todo[p], Undoing \cup {"create"})
      <4>1. Only(todo[p], Undoing) => Only(todo[p], Undoing \cup {"create"})
        BY DEF Only
      <4>2. ~Only(todo[p], {"resume"})
        BY <1>6, <1>15 DEF Undoing, Doings
      <4>3. QED
        BY <1>5, <2>3, <4>1, <4>2 DEF Legal
    <3>2. n \notin {"adopt", "start"} /\ ~Has(t, {"adopt", "resume"})
      <4>1. n \notin {"adopt", "start"} /\ Only(t, Undoing \cup {"create"})
        BY <1>6, <3>1 DEF Undoing
      <4>2. QED
        BY <4>1 DEF Only, Has, Undoing
    <3>3. Has(t, {"create"}) => activeB' = None \/ Has(t, {"disown"})
      BY <1>6, <1>9, <2>1, <3>2
    <3>4. stream' = Off \/ (stream' = stream /\ n # "halt")
      BY <1>1, <3>2 DEF Effect
    <3>5. request[p] = "go-live-now" /\ Has(t, {"disown"}) => stream' = Off \/ Has(t, {"halt"})
      BY <1>6, <1>9, <3>4
    <3>6. ASSUME Has(t, {"disown"}), activeB' # None
          PROVE  \/ HasFor(t, {"complete"}, activeB')
                 \/ stream' = Off /\ yt'[activeB'] \notin {"testing", "live"} /\ request[p] = "go-live-now"
      <4>1. activeB' = activeB /\ activeB \in Broadcasts /\ Has(todo[p], {"disown"})
        BY <1>6, <2>1, <3>2, <3>6 DEF TypeInv, Typed, Args
      <4>2. PICK b \in Broadcasts : b = activeB
        BY <4>1
      <4>3. (Airborne(b)' => Airborne(b)) /\ (n = "complete" /\ a = b => ~Airborne(b)')
        BY CallAtYouTube DEF Unmarked, Orphaning
      <4>4. CASE HasFor(t, {"complete"}, b)
        BY <4>1, <4>2, <4>4
      <4>5. CASE stream = Off /\ ~Airborne(b) /\ request[p] = "go-live-now"
        <5>1. stream' = Off
          BY <3>4, <4>5
        <5>2. QED
          BY <4>1, <4>2, <4>3, <4>5, <5>1 DEF Airborne
      <4>6. CASE n = "complete" /\ a = b
        <5>1. request[p] # "stop"
          BY <1>8, <3>6, <4>1
        <5>2. request[p] = "go-live-now"
          BY <1>5, <1>7, <3>6, <4>6, <5>1 DEF Ordered
        <5>3. ~Has(todo[p], {"halt"})
          BY <1>5, <1>6, <1>7, <4>6, <5>2 DEF Ordered
        <5>4. stream' = Off
          BY <1>9, <3>4, <4>1, <5>2, <5>3
        <5>5. QED
          BY <4>1, <4>2, <4>3, <4>6, <5>2, <5>4 DEF Airborne
      <4>7. HasFor(todo[p], {"complete"}, b) => (n = "complete" /\ a = b) \/ HasFor(t, {"complete"}, b)
        BY <1>5, TailOrder
      <4>8. HasFor(todo[p], {"complete"}, b) \/ (stream = Off /\ ~Airborne(b) /\ request[p] = "go-live-now")
        BY <1>9, <3>6, <4>1, <4>2
      <4>9. QED
        BY <4>4, <4>5, <4>6, <4>7, <4>8
    <3>7. w # <<>> => request'[p] = request[p]
      BY <1>4
    <3>8. QED
      BY <1>4, <1>10, <1>15, <3>2, <3>3, <3>5, <3>6, <3>7 DEF Dutiful
  <2>4. QED
    BY <2>2, <2>3
<1>16. QED
  BY <1>3, <1>10, <1>12, <1>13, <1>14, <1>15 DEF Becomes, Unmarked, Orphaning

\* So do the others, who find the active broadcast as it was, or none.
LEMMA OthersKeepDuty ==
  ASSUME TypeInv, ShapeInv, NEW p \in Processes, CallStep(p), Unmarked(Orphaning)',
         NEW q \in Processes, q # p, Dutiful(q)
  PROVE  Dutiful(q)'
<1> DEFINE n == Head(todo[p]).do
<1>1. PICK w \in Words : Return(p, w) /\ Becomes(p, w)
  BY CallWords
<1>2. todo'[q] = todo[q] /\ request'[q] = request[q]
  BY <1>1, ReturnFacts DEF TypeInv
<1>3. CASE ~Busy(q)
  <2>1. todo'[q] = <<>>
    BY <1>2, <1>3 DEF Busy
  <2>2. QED
    BY <2>1, EmptyWord DEF Dutiful
<1>4. CASE Busy(q)
  <2>1. Effect(p) /\ Busy(p) /\ "raced" \notin marred
    BY CallHasEffect, CallIsOne DEF TypeInv, Effect, Unmarked, Orphaning
  <2>2. request[p] \notin Starting /\ request[q] \notin Starting
    BY <1>4, <2>1 DEF TypeInv, Noticed
  <2>3. n \notin {"adopt", "resume"}
    <3>1. Legal(request[p], todo[p]) /\ todo[p] \in Words /\ todo[p] # <<>>
      BY <2>1 DEF TypeInv, Typed, Worded, Busy
    <3>2. Only(todo[p], Undoing)
      BY <2>2, <3>1 DEF Legal, Starting
    <3>3. QED
      BY <3>1, <3>2, TailWord DEF Undoing
  <2>4. activeB' = activeB \/ activeB' = None
    BY <2>1, <2>3 DEF Effect
  <2>5. QED
    BY <1>2, <2>2, <2>4 DEF Dutiful, Starting
<1>5. QED
  BY <1>3, <1>4

\* Without credentials nothing is created on YouTube.
LEMMA UnlaunchedNext ==
  ASSUME TypeInv, ShapeInv, Unlaunched, [Next]_vars
  PROVE  Unlaunched'
<1> SUFFICES ASSUME ~Configured, NEW b \in Broadcasts PROVE yt'[b] = "none"
  BY DEF Unlaunched
<1>1. yt[b] = "none"
  BY DEF Unlaunched
<1>2. ASSUME NEW p \in Processes, CallStep(p) PROVE yt'[b] = "none"
  <2>1. todo[p] \in Words /\ todo[p] # <<>> /\ Shape(request[p], todo[p])
    BY <1>2, CallIsOne DEF TypeInv, Typed, Busy, ShapeInv
  <2>2. Head(todo[p]).do # "create"
    BY <2>1, TailWord DEF Shape
  <2>3. QED
    BY <1>1, <1>2, <2>2, CallAtYouTube
<1>3. CASE Aside
  BY <1>1, <1>3, AsideAtYouTube DEF Unlaunched
<1>4. CASE Requesting
  BY <1>1, <1>4, RequestAtYouTube
<1>5. CASE Crash
  BY <1>1, <1>5 DEF Crash
<1>6. QED
  BY <1>2, <1>3, <1>4, <1>5, StepKinds

\* A start that is to be refused is, unless something goes wrong before.
LEMMA DoomedNext ==
  ASSUME TypeInv, Doomed, [Next]_vars, Unmarked(Orphaning)'
  PROVE  Doomed'
<1>1. PICK q \in Processes : Has(todo[q], {"start"}) /\ stream # Off
  BY DEF Doomed
<1>2. /\ Busy(q) /\ request[q] \in Starting /\ Only(todo[q], Doings)
      /\ "raced" \notin marred => \A p \in Processes : p # q => todo[p] = <<>>
  BY <1>1, RisesAlone DEF Rising
<1>3. CASE Requesting
  <2>1. PICK p \in Processes, what \in Requests, w \in Words : Begin(p, what, w) /\ Turns(p, what, w)
    BY <1>3, RequestIsOne
  <2>2. ~Busy(p) /\ (q # p => "raced" \in marred')
    BY <1>2, <2>1, BeginFacts DEF TypeInv
  <2>3. QED
    BY <1>2, <2>2 DEF Unmarked, Orphaning
<1>4. ASSUME NEW p \in Processes, CallStep(p) PROVE Doomed'
  <2> DEFINE n == Head(todo[p]).do
             t == Tail(todo[p])
  <2>1. Effect(p) /\ Busy(p)
    BY <1>4, CallHasEffect, CallIsOne DEF TypeInv
  <2>2. p = q
    BY <1>2, <2>1 DEF Effect, Unmarked, Orphaning, Busy
  <2>3. PICK w \in Words : Return(p, w) /\ Becomes(p, w)
    BY <1>4, CallWords
  <2>4. todo'[p] = w
    BY <2>3, ReturnFacts DEF TypeInv
  <2>5. todo[p] \in Words /\ todo[p] # <<>>
    BY <2>1 DEF TypeInv, Typed, Busy
  <2>6. n \in Doings /\ (n = "start" \/ Has(t, {"start"}))
    BY <1>1, <1>2, <2>2, <2>5, TailWord
  <2>7. n # "start" /\ w = t
    BY <1>1, <2>3, <2>6 DEF Becomes, Doings, Unmarked, Orphaning
  <2>8. stream' = stream
    BY <2>1, <2>6, <2>7 DEF Effect, Doings
  <2>9. QED
    BY <1>1, <2>4, <2>6, <2>7, <2>8 DEF Doomed
<1>5. CASE Aside
  <2>1. Kept /\ stream' = stream
    BY <1>5, AsideIsQuiet DEF TypeInv, Unmarked, Orphaning
  <2>2. QED
    BY <1>1, <2>1 DEF Doomed, Kept
<1>6. CASE Crash
  <2>1. ~Quiet
    BY <1>2 DEF Quiet
  <2>2. "uncompleted" \in marred'
    BY <1>6, <2>1 DEF Crash, Upset
  <2>3. QED
    BY <2>2 DEF Unmarked, Orphaning
<1>7. QED
  BY <1>3, <1>4, <1>5, <1>6, StepKinds

LEMMA OrphanNext ==
  ASSUME TypeInv, ShapeInv, OrderedInv, UnrefusedInv, AscentInv, EventInv, IntentInv, OrphanInv, [Next]_vars, ~Doomed'
  PROVE  OrphanInv'
<1>1. ASSUME NEW p \in Processes, CallStep(p) PROVE OrphanInv'
  <2>1. ASSUME ~Configured, NEW b \in Broadcasts PROVE yt'[b] = "none"
    <3>1. todo[p] \in Words /\ todo[p] # <<>> /\ Shape(request[p], todo[p])
      BY <1>1, CallIsOne DEF TypeInv, Typed, Busy, ShapeInv
    <3>2. Head(todo[p]).do # "create"
      BY <2>1, <3>1, TailWord DEF Shape
    <3>3. QED
      BY <1>1, <2>1, <3>2, CallAtYouTube DEF OrphanInv
  <2>2. Unmarked(Orphaning)' => Unmarked(Orphaning)
    BY <1>1, CallHasEffect DEF TypeInv, Effect, Unmarked
  <2>3. Unmarked(Orphaning)' => \A q \in Processes : Dutiful(q)'
    <3>1. ASSUME Unmarked(Orphaning)', NEW q \in Processes PROVE Dutiful(q)'
      <4>1. Dutiful(q)
        BY <2>2, <3>1 DEF OrphanInv
      <4>2. QED
        BY <1>1, <3>1, <4>1, CallerKeepsDuty, OthersKeepDuty
    <3>2. QED
      BY <3>1
  <2>4. Unmarked(Orphaning)' => \A b \in Broadcasts : Onward(b)' => Accountable(b)'
    BY <1>1, CallKeepsAccount
  <2>5. Unmarked(Orphaning)' => (airing' # None => activeB' \in {None, airing'})
    <3>1. ASSUME Unmarked(Orphaning)' PROVE airing # None => activeB \in {None, airing}
      BY <2>2, <3>1 DEF OrphanInv
    <3>2. QED
      BY <1>1, <3>1, CallTakesOver
  <2>6. QED
    BY <2>1, <2>3, <2>4, <2>5 DEF OrphanInv
<1>2. CASE Aside
  <2>1. ASSUME ~Configured, NEW b \in Broadcasts PROVE yt'[b] = "none"
    BY <1>2, <2>1, AsideAtYouTube DEF OrphanInv
  <2>2. ASSUME Unmarked(Orphaning)'
        PROVE  /\ airing' # None => activeB' \in {None, airing'}
               /\ \A b \in Broadcasts : Onward(b)' => Accountable(b)'
               /\ \A p \in Processes : Dutiful(p)'
    <3>1. Kept /\ stream' = stream /\ Unmarked(Orphaning)
      BY <1>2, <2>2, AsideIsQuiet DEF TypeInv, Unmarked, Orphaning
    <3>2. /\ airing # None => activeB \in {None, airing}
          /\ \A b \in Broadcasts : Onward(b) => Accountable(b)
          /\ \A p \in Processes : Dutiful(p)
      BY <3>1 DEF OrphanInv
    <3>3. ASSUME NEW b \in Broadcasts, Onward(b)' PROVE Accountable(b)'
      <4>1. /\ Onward(b) \/ activeB = b
            /\ b \in ending => b \in ending'
        BY <1>2, <2>2, <3>3, AsideAtYouTube DEF Unmarked, Orphaning
      <4>2. QED
        BY <3>1, <3>2, <4>1 DEF Accountable, Kept
    <3>4. ASSUME NEW p \in Processes PROVE Dutiful(p)'
      <4>1. ASSUME activeB # None, stream = Off, yt[activeB] \notin {"testing", "live"}
            PROVE  yt'[activeB] \notin {"testing", "live"}
        <5>1. activeB \in Broadcasts /\ activeB # Off
          BY <4>1 DEF TypeInv, Typed, Args, Broadcasts, Off
        <5>2. QED
          BY <1>2, <4>1, <5>1, AsideAtYouTube DEF Airborne
      <4>2. QED
        BY <3>1, <3>2, <4>1 DEF Dutiful, Kept
    <3>5. QED
      BY <3>1, <3>2, <3>3, <3>4 DEF Kept
  <2>3. QED
    BY <2>1, <2>2 DEF OrphanInv
<1>3. CASE Crash
  <2>1. /\ todo' = [p \in Processes |-> IF p = Boot /\ intent # NoIntent THEN <<Call("resume", None)>> ELSE <<>>]
        /\ stream' = Off /\ activeB' = None /\ airing' = None /\ intent' = intent /\ yt' = yt
        /\ phase' = [b \in Broadcasts |-> "none"]
        /\ marred' = marred \cup ({"rebooted"} \cup IF Quiet /\ ending = {} THEN {} ELSE {"uncompleted"})
    BY <1>3 DEF Crash, Upset
  <2>2. LET w == <<Call("resume", None)>> IN Has(w, {"resume"}) /\ ~Has(w, {"create"}) /\ ~Has(w, {"disown"})
    BY DEF Call, Has
  <2>3. \A p \in Processes : Dutiful(p)'
    BY <2>1, <2>2, EmptyWord DEF Dutiful
  <2>4. ASSUME Unmarked(Orphaning)', NEW b \in Broadcasts, Onward(b)' PROVE Accountable(b)'
    <3>1. Quiet /\ ending = {} /\ Unmarked(Orphaning)
      BY <2>1, <2>4 DEF Unmarked, Orphaning
    <3>2. \A p \in Processes : todo[p] = <<>>
      BY <3>1 DEF Quiet, Busy
    <3>3. \A p \in Processes : \A X : ~Has(todo[p], X) /\ ~HasFor(todo[p], X, b)
      BY <3>2, EmptyWord DEF HasFor
    <3>4. Onward(b) /\ b # None
      <4>1. phase'[b] # "asked live"
        BY <2>1
      <4>2. b # None
        BY DEF Broadcasts, None
      <4>3. QED
        BY <2>1, <2>4, <4>1, <4>2 DEF Onward
    <3>5. activeB = b
      BY <3>1, <3>3, <3>4 DEF OrphanInv, Accountable
    <3>6. Remembered
      BY <3>1, <3>3 DEF IntentInv, Unmarked, Orphaning, Rising
    <3>7. intent.b = b /\ intent # NoIntent
      BY <3>3, <3>4, <3>5, <3>6 DEF Remembered, NoIntent
    <3>8. Boot \in Processes /\ Has(todo'[Boot], {"resume"})
      BY <2>1, <2>2, <3>7 DEF Processes
    <3>9. QED
      BY <2>1, <3>7, <3>8 DEF Accountable
  <2>5. QED
    BY <2>1, <2>3, <2>4 DEF OrphanInv
<1>4. QED
  BY <1>1, <1>2, <1>3, OrphanBegins, StepKinds

LEMMA AccountNext ==
  ASSUME TypeInv, ShapeInv, OrderedInv, UnrefusedInv, AscentInv, EventInv, IntentInv, AccountInv, [Next]_vars
  PROVE  AccountInv'
<1>1. Unlaunched'
  BY UnlaunchedNext DEF AccountInv
<1>2. CASE Doomed
  <2>1. ~Unmarked(Orphaning)' => OrphanInv'
    BY <1>1 DEF OrphanInv, Unlaunched
  <2>2. QED
    BY <1>1, <1>2, <2>1, DoomedNext DEF AccountInv
<1>3. CASE ~Doomed
  BY <1>1, <1>3, OrphanNext DEF AccountInv
<1>4. QED
  BY <1>2, <1>3

LEMMA AccountAlways == Spec => []AccountInv
<1>1. Init => OrderedInv
  BY EmptyWord DEF Init, OrderedInv, Ordered, NoneAfter
<1>2. Init => AccountInv
  <2> SUFFICES ASSUME Init PROVE AccountInv
    OBVIOUS
  <2>1. \A p \in Processes : Dutiful(p)
    BY EmptyWord DEF Init, Dutiful
  <2>2. \A b \in Broadcasts : yt[b] = "none" /\ ~Onward(b)
    BY DEF Init, Onward
  <2>3. QED
    BY <2>1, <2>2 DEF Init, AccountInv, Unlaunched, OrphanInv
<1>3. QED
  BY <1>1, <1>2, OrderedNext, AccountNext, ShapeAlways, StartingAlways, EventAlways, IntentAlways, TypeInvAlways, PTL DEF Spec

\* A broadcast that is live on YouTube is the server's active one whenever no
\* request and no completing goroutine is on the way.  Excused: what
\* IntentFollowsStream excuses, a takeover from the scheduler, and a broadcast
\* whose completion failed; no other stop, end of an event or restart leaves one
\* behind that nobody would complete.
THEOREM NoLiveIsOrphaned == Spec => []NoOrphanLive
<1>1. AccountInv => NoOrphanLive
  <2> SUFFICES ASSUME AccountInv, ending = {}, NEW b \in Broadcasts, yt[b] = "live",
                      Unmarred({"raced", "refused", "overtaken", "failed", "uncompleted", "dropped", "unsaved"})
               PROVE  activeB = b
    BY DEF NoOrphanLive
  <2>1. \A p \in Processes : \A X : ~Has(todo[p], X) /\ ~HasFor(todo[p], X, b)
    BY EmptyWord DEF Unmarred, Quiet, Busy, HasFor
  <2>2. Onward(b) /\ Unmarked(Orphaning)
    BY DEF Onward, Unmarked, Unmarred, Orphaning
  <2>3. OrphanInv
    BY <2>1 DEF AccountInv, Doomed
  <2>4. QED
    BY <2>1, <2>2, <2>3 DEF OrphanInv, Accountable
<1>2. QED
  BY <1>1, AccountAlways, PTL

-----------------------------------------------------------------------------
(* StopEndsOccurrence *)

\* About the calls of a request, once more: an occurrence has one broadcast, and is
\* nobody else's; only a Stop leaves a broadcast to be completed, as its last call.
Fitting(r, w) ==
  /\ r = "scheduled" =>
       /\ Only(w, Doings \cup {"disown", "unblock"})
       /\ \E b \in Args : Bound(w, {"adopt", "air"}, b)
  /\ r = "go-live-now" => \A b \in Scheduled : ~HasFor(w, {"adopt"}, b)
  /\ r # "stop" => ~Has(w, {"detach"})
  /\ NoneAfter(w, {"stopActive", "forget"}, {"detach"})

FittingInv == \A p \in Processes : Fitting(request[p], todo[p])

LEMMA ActiveDetachesNothing ==
  ASSUME NEW b \in Args
  PROVE  Only(StopActiveEvent(b), Undoing \ {"detach"})
<1> DEFINE v == <<Call("cancelBroadcast", None)>>
           u == <<Call("forget", None)>>
           Z == Undoing \ {"detach"}
<1>1. v \in Words /\ Only(v, Z) /\ u \in Words /\ Only(u, Z) /\ StopStream \in Words /\ Only(StopStream, Z)
  BY DEF StopStream, Call, Words, Calls, Names, Undoing, Args, Only
<1>2. Completing(b) \in Words /\ Only(Completing(b), Z)
  BY UndoingWords DEF Only, Undoing
<1>3. StopActiveEvent(b) = v \o StopStream \o Completing(b) \o u
  BY DEF StopActiveEvent
<1> HIDE DEF v, u, Z
<1>4. v \o StopStream \in Words /\ Only(v \o StopStream, Z)
  BY <1>1, CatWord
<1>5. v \o StopStream \o Completing(b) \in Words /\ Only(v \o StopStream \o Completing(b), Z)
  BY <1>2, <1>4, CatWord
<1>6. Only(v \o StopStream \o Completing(b) \o u, Z)
  BY <1>1, <1>5, CatWord
<1>7. QED
  BY <1>3, <1>6 DEF Z

LEMMA FittingWords ==
  ASSUME NEW b \in Args
  PROVE  /\ Fitting("stop", StopRequest(b)) /\ Fitting("end", StopActiveEvent(b))
         /\ Fitting("complete", CompleteActive(b)) /\ Fitting("complete", Completing(b))
         /\ Fitting("go-live-now", Takeover(b) \o <<Call("create", None)>>)
         /\ Fitting("scheduled", Airing(b))
         /\ b \notin Scheduled => Fitting("go-live-now", Broadcasting(b))
         /\ \A r : Fitting(r, <<>>) /\ Fitting(r, Refusal(r))
         /\ \A r, w : r \notin {"scheduled", "go-live-now"} /\ (Only(w, Doings) \/ Only(w, {"resume"})) => Fitting(r, w)
<1>1. ASSUME NEW r, NEW w, NEW Z, Only(w, Z), r # "scheduled", "detach" \notin Z, r = "go-live-now" => "adopt" \notin Z
      PROVE  Fitting(r, w)
  <2>1. Z \cap {"detach"} = {} /\ (r = "go-live-now" => Z \cap {"adopt"} = {})
    BY <1>1
  <2>2. ~Has(w, {"detach"}) /\ NoneAfter(w, {"stopActive", "forget"}, {"detach"})
    BY <1>1, <2>1, OnlyWord, OnlyOrder
  <2>3. r = "go-live-now" => \A c \in Scheduled : ~HasFor(w, {"adopt"}, c)
    BY <1>1, <2>1, OnlyOrder
  <2>4. QED
    BY <1>1, <2>2, <2>3 DEF Fitting
<1>2. Fitting("stop", StopRequest(b))
  BY DEF StopRequest, Call, NoneAfter, Fitting
<1>3. Fitting("end", StopActiveEvent(b))
  BY <1>1, ActiveDetachesNothing
<1>4. Fitting("complete", CompleteActive(b)) /\ Fitting("complete", Completing(b))
  <2>1. Only(CompleteActive(b), Undoing \ {"detach"})
    BY DEF CompleteActive, Call, Undoing, Only
  <2>2. Only(Completing(b), {"complete"})
    BY UndoingWords
  <2>3. QED
    BY <1>1, <2>1, <2>2
<1>5. Fitting("go-live-now", Takeover(b) \o <<Call("create", None)>>)
  <2> DEFINE v == <<Call("halt", None), Call("unblock", None), Call("cancel", None), Call("complete", b),
                    Call("disown", None), Call("unmark", None)>>
             u == <<Call("create", None)>>
             Z == (Undoing \ {"detach"}) \cup {"create"}
  <2>1. Only(v, Z) /\ Only(<<>>, Z) /\ u \in Words /\ Only(u, Z)
    BY DEF Call, Words, Calls, Names, Undoing, Args, Only
  <2>2. Takeover(b) \in Words /\ Only(Takeover(b), Z)
    BY <2>1, UndoingWords DEF Takeover
  <2>3. "detach" \notin Z /\ "adopt" \notin Z
    BY DEF Undoing
  <2> HIDE DEF u, Z
  <2>4. Only(Takeover(b) \o u, Z)
    BY <2>1, <2>2, CatWord
  <2>5. QED
    BY <1>1, <2>3, <2>4 DEF u
<1>6. Fitting("scheduled", Airing(b))
  <2>1. Only(Airing(b), Doings)
    BY StartingWords
  <2>2. Only(Airing(b), Doings \cup {"disown", "unblock"}) /\ ~Has(Airing(b), {"detach"})
    BY <2>1 DEF Only, Has, Doings
  <2>3. NoneAfter(Airing(b), {"stopActive", "forget"}, {"detach"})
    BY <2>1 DEF Only, NoneAfter, Doings
  <2>4. Bound(Airing(b), {"adopt", "air"}, b)
    BY BoundWords DEF Bound
  <2>5. QED
    BY <2>2, <2>3, <2>4 DEF Fitting
<1>7. ASSUME b \notin Scheduled PROVE Fitting("go-live-now", Broadcasting(b))
  <2>1. Only(Broadcasting(b), Doings)
    BY StartingWords
  <2>2. ~Has(Broadcasting(b), {"detach"}) /\ NoneAfter(Broadcasting(b), {"stopActive", "forget"}, {"detach"})
    BY <2>1 DEF Only, Has, NoneAfter, Doings
  <2>3. \A c \in Scheduled : ~HasFor(Broadcasting(b), {"adopt"}, c)
    BY <1>7, BoundWords DEF Bound, HasFor
  <2>4. QED
    BY <2>2, <2>3 DEF Fitting
<1>8. ASSUME NEW r PROVE Fitting(r, <<>>)
  <2>1. NoneAfter(<<>>, {"stopActive", "forget"}, {"detach"}) /\ Bound(<<>>, {"adopt", "air"}, b)
        /\ \A c : ~HasFor(<<>>, {"adopt"}, c)
    BY DEF NoneAfter, Bound, HasFor
  <2>2. QED
    BY <2>1, EmptyWord DEF Fitting
<1>9. ASSUME NEW r PROVE Fitting(r, Refusal(r))
  <2>1. CASE r # "scheduled"
    BY <1>1, <2>1, RefusalWord
  <2>2. CASE r = "scheduled"
    <3> DEFINE v == <<Call("disown", None)>>
               u == <<Call("unblock", None)>>
               Z == {"disown", "unblock"}
    <3>1. v \in Words /\ Only(v, Z) /\ u \in Words /\ Only(u, Z)
      BY DEF Call, Words, Calls, Names, Undoing, Args, Only
    <3>2. Refusal(r) = v \o u \o <<>>
      BY <2>2 DEF Refusal
    <3> HIDE DEF v, u
    <3>3. v \o u \in Words /\ Only(v \o u, Z)
      BY <3>1, CatWord
    <3>4. Only(Refusal(r), Z)
      BY <3>2, <3>3, EmptyWord, CatWord
    <3>5. Only(Refusal(r), Doings \cup {"disown", "unblock"})
      BY <3>4 DEF Only
    <3>6. Bound(Refusal(r), {"adopt", "air"}, b) /\ ~Has(Refusal(r), {"detach"})
          /\ NoneAfter(Refusal(r), {"stopActive", "forget"}, {"detach"})
      BY <3>4 DEF Only, Bound, Has, NoneAfter
    <3>7. QED
      BY <2>2, <3>5, <3>6 DEF Fitting
  <2>3. QED
    BY <2>1, <2>2
<1>10. ASSUME NEW r, NEW w, r \notin {"scheduled", "go-live-now"}, Only(w, Doings) \/ Only(w, {"resume"})
       PROVE  Fitting(r, w)
  <2>1. "detach" \notin Doings /\ "detach" \notin {"resume"}
    BY DEF Doings
  <2>2. QED
    BY <1>1, <1>10, <2>1
<1>11. QED
  BY <1>2, <1>3, <1>4, <1>5, <1>6, <1>7, <1>8, <1>9, <1>10

LEMMA FittingNext ==
  ASSUME TypeInv, OrderedInv, FittingInv, [Next]_vars
  PROVE  FittingInv'
<1>1. /\ activeB \in Args /\ airing \in Args /\ config \in Args /\ Broadcasts \subseteq Args /\ Scheduled \subseteq Args
      /\ intent \in Intents \cup {NoIntent} /\ None \in Args
  BY StreamServerAssumption DEF TypeInv, Typed, Args, Broadcasts
<1>2. CASE Requesting
  <2>1. PICK p \in Processes, what \in Requests, w \in Words : Begin(p, what, w) /\ Turns(p, what, w)
    BY <1>2, RequestIsOne
  <2>2. todo'[p] = w /\ request'[p] = what /\ \A q \in Processes : q # p => todo'[q] = todo[q] /\ request'[q] = request[q]
    BY <2>1, BeginFacts DEF TypeInv
  <2>3. Fitting(what, w)
    <3>1. CASE what = "manual"
      <4>1. Only(w, Doings)
        BY <1>1, <2>1, <3>1, StartingWords DEF Turns
      <4>2. QED
        BY <1>1, <3>1, <4>1, FittingWords
    <3>2. CASE what # "manual"
      BY <1>1, <2>1, <3>2, FittingWords DEF Turns
    <3>3. QED
      BY <3>1, <3>2
  <2>4. QED
    BY <2>2, <2>3 DEF FittingInv
<1>3. ASSUME NEW p \in Processes, CallStep(p) PROVE FittingInv'
  <2> DEFINE n == Head(todo[p]).do
             t == Tail(todo[p])
  <2>1. PICK w \in Words : Return(p, w) /\ Becomes(p, w)
    BY <1>3, CallWords
  <2>2. /\ todo'[p] = w /\ request'[p] = (IF w = <<>> THEN "none" ELSE request[p])
        /\ \A q \in Processes : q # p => todo'[q] = todo[q] /\ request'[q] = request[q]
    BY <2>1, ReturnFacts DEF TypeInv
  <2>3. /\ todo[p] \in Words /\ todo[p] # <<>> /\ Ordered(request[p], todo[p]) /\ Fitting(request[p], todo[p])
        /\ Legal(request[p], todo[p])
    BY <1>3, CallIsOne DEF TypeInv, Typed, Worded, Busy, OrderedInv, FittingInv
  <2>4. /\ t \in Words
        /\ \A X : Has(todo[p], X) <=> n \in X \/ Has(t, X)
        /\ \A X : Only(todo[p], X) <=> n \in X /\ Only(t, X)
    BY <2>3, TailWord
  <2>5. /\ \A X, Y : NoneAfter(todo[p], X, Y) => NoneAfter(t, X, Y)
        /\ \A X, b : Bound(todo[p], X, b) => Bound(t, X, b)
        /\ \A X, b : HasFor(t, X, b) => HasFor(todo[p], X, b)
    BY <2>3, TailOrder
  <2>6. Fitting(request[p], w)
    <3>1. CASE w = t
      BY <2>3, <2>4, <2>5, <3>1 DEF Fitting
    <3>2. CASE w = <<>> \/ w = Refusal(request[p])
      BY <1>1, <3>2, FittingWords
    <3>3. CASE n = "create" /\ \E b \in Broadcasts \ Scheduled : w = Broadcasting(b)
      <4>1. request[p] = "go-live-now"
        BY <2>3, <2>4, <3>3 DEF Legal, Undoing, Doings
      <4>2. QED
        BY <1>1, <3>3, <4>1, FittingWords
    <3>4. CASE n = "stopActive" /\ w = StopActiveEvent(airing) \o t
      <4> DEFINE v == StopActiveEvent(airing)
      <4>1. request[p] = "stop"
        BY <2>3, <2>4, <3>4 DEF Ordered
      <4>2. v \in Words /\ Only(v, Undoing \ {"detach"})
        BY <1>1, UndoingWords, ActiveDetachesNothing
      <4>3. (Undoing \ {"detach"}) \cap {"detach"} = {}
        OBVIOUS
      <4>4. NoneAfter(v, {"stopActive", "forget"}, {"detach"}) /\ ~Has(v, {"detach"})
        BY <4>2, <4>3, OnlyOrder, OnlyWord
      <4>5. NoneAfter(t, {"stopActive", "forget"}, {"detach"})
        BY <2>3, <2>5 DEF Fitting
      <4> HIDE DEF v
      <4>6. NoneAfter(v \o t, {"stopActive", "forget"}, {"detach"})
        BY <2>4, <4>2, <4>4, <4>5, CatOrder
      <4>7. QED
        BY <3>4, <4>1, <4>6 DEF Fitting, v
    <3>5. CASE n = "resume" /\ w = Resuming(intent)
      <4>1. request[p] = "resume"
        BY <2>3, <2>4, <3>5 DEF Legal, Undoing, Doings
      <4>2. Only(w, Doings)
        BY <1>1, <3>5, StartingWords
      <4>3. QED
        BY <1>1, <4>1, <4>2, FittingWords
    <3>6. QED
      BY <2>1, <3>1, <3>2, <3>3, <3>4, <3>5 DEF Becomes
  <2>7. QED
    BY <1>1, <2>2, <2>6, FittingWords DEF FittingInv
<1>4. CASE Aside
  BY <1>4, AsideIsQuiet DEF TypeInv, FittingInv, Kept
<1>5. CASE Crash
  <2>1. /\ todo' = [p \in Processes |-> IF p = Boot /\ intent # NoIntent THEN <<Call("resume", None)>> ELSE <<>>]
        /\ request' = [p \in Processes |-> IF p = Boot THEN "resume" ELSE "none"]
    BY <1>5 DEF Crash
  <2>2. Only(<<Call("resume", None)>>, {"resume"})
    BY DEF Call, Only
  <2>3. Fitting("resume", <<Call("resume", None)>>)
    BY <1>1, <2>2, FittingWords
  <2>4. QED
    BY <1>1, <2>1, <2>3, FittingWords DEF FittingInv
<1>6. QED
  BY <1>2, <1>3, <1>4, <1>5, StepKinds

\* What a step does to the occurrences that the scheduler has not finished with, and
\* to the broadcasts that are being completed.
LEMMA SchedulerEffects ==
  ASSUME Typed
  PROVE  /\ Requesting => waiting' = waiting /\ ending' = ending
         /\ \A p \in Processes : CallStep(p) =>
              LET n == Head(todo[p]).do
                  a == Head(todo[p]).b
              IN  /\ waiting' = IF n = "forget" THEN waiting \ {airing} ELSE waiting
                  /\ ending' = IF n = "detach" /\ a # None THEN ending \cup {a} ELSE ending
         /\ Aside => waiting' = waiting /\ ending' \subseteq ending
<1> USE DEF scheduler, youtube, Doing, Arg
<1>1. ASSUME Requesting PROVE waiting' = waiting /\ ending' = ending
  BY <1>1 DEF Requesting, Request, HandleStart, HandleStop, HandleConfigUpdate, HandleGoLiveNow, HandleCompleteBroadcast,
              GoLive, EventEnds
<1>2. ASSUME NEW p \in Processes, CallStep(p)
      PROVE  /\ waiting' = IF Head(todo[p]).do = "forget" THEN waiting \ {airing} ELSE waiting
             /\ ending' = IF Head(todo[p]).do = "detach" /\ Head(todo[p]).b # None THEN ending \cup {Head(todo[p]).b} ELSE ending
  <2>1. CASE Block(p) \/ Unblock(p) \/ Start(p) \/ StartRefused(p) \/ Halt(p) \/ MarkLive(p) \/ MarkIdle(p)
    BY <2>1 DEF Block, Unblock, Start, StartRefused, Halt, MarkLive, MarkIdle
  <2>2. CASE Adopt(p) \/ Disown(p) \/ Create(p) \/ CreateFails(p) \/ Complete(p) \/ Detach(p)
    BY <2>2 DEF Adopt, Disown, Create, CreateFails, Complete, Detach
  <2>3. CASE StopActive(p) \/ Forget(p) \/ Air(p) \/ Cancel(p) \/ CancelBroadcast(p) \/ Launch(p)
    BY <2>3 DEF StopActive, Forget, Air, Cancel, CancelBroadcast, Launch
  <2>4. CASE ResumeIfNeeded(p) \/ ResumeRefused(p)
    BY <2>4 DEF ResumeIfNeeded, ResumeRefused
  <2>5. QED
    BY <1>2, <2>1, <2>2, <2>3, <2>4 DEF CallStep
<1>3. ASSUME Aside PROVE waiting' = waiting /\ ending' \subseteq ending
  <2>1. ASSUME NEW b \in Broadcasts, TransitionStep(b) \/ CompleteLater(b)
        PROVE  waiting' = waiting /\ ending' \subseteq ending
    BY <2>1 DEF TransitionStep, Attempt, Answer, GoOn, CompleteLater
  <2>2. QED
    BY <1>3, <2>1 DEF Aside, FFmpegFails, vars
<1>4. QED
  BY <1>1, <1>2, <1>3

\* p is putting b on the air, or will disown it because its start was refused.
Raising(p, b) ==
  \/ HasFor(todo[p], {"air"}, b)
  \/ request[p] = "scheduled" /\ Has(todo[p], {"disown"})

Closing == {"stopActive", "forget"}

\* Unless a start overlapped or the host went down: an unfinished occurrence whose
\* broadcast is the active one is the active event, or about to be; and when a Stop
\* will leave its broadcast to be completed, that Stop has yet to finish it.
FinishInv ==
  Unmarked({"raced", "rebooted"}) =>
    /\ activeB \in waiting => airing = activeB \/ \E p \in Processes : Raising(p, activeB)
    /\ \A p \in Processes :
         /\ Busy(p) => request[p] # "resume"
         /\ Has(todo[p], {"air"}) => airing = None
         /\ \A b \in waiting : HasFor(todo[p], {"detach"}, b) => airing = b /\ Has(todo[p], Closing)
    /\ ending \cap waiting = {}

LEMMA ForIsHas ==
  ASSUME NEW w, NEW X, NEW b, HasFor(w, X, b)
  PROVE  Has(w, X) /\ w # <<>>
<1>1. Has(w, X)
  BY DEF HasFor, Has
<1>2. QED
  BY <1>1, EmptyWord

\* Whoever raises a broadcast serves an occurrence, and is alone.
LEMMA RaisersAlone ==
  ASSUME TypeInv, ShapeInv, NEW p \in Processes, NEW b, Raising(p, b)
  PROVE  /\ request[p] = "scheduled" /\ Busy(p)
         /\ \A q \in Processes : q # p /\ Busy(q) => "raced" \in marred
<1>1. Shape(request[p], todo[p])
  BY DEF ShapeInv
<1>2. request[p] = "scheduled" /\ todo[p] # <<>>
  BY <1>1, ForIsHas, EmptyWord DEF Raising, Shape
<1>3. QED
  BY <1>2 DEF TypeInv, Noticed, Busy, Starting

LEMMA FinishBegins ==
  ASSUME TypeInv, TypeInv', ShapeInv, ShapeInv', FittingInv', FinishInv, Requesting
  PROVE  FinishInv'
<1> SUFFICES ASSUME Unmarked({"raced", "rebooted"})'
             PROVE  /\ activeB' \in waiting' => airing' = activeB' \/ \E q \in Processes : Raising(q, activeB)'
                    /\ \A q \in Processes :
                         /\ Busy(q)' => request'[q] # "resume"
                         /\ Has(todo'[q], {"air"}) => airing' = None
                         /\ \A b \in waiting' : HasFor(todo'[q], {"detach"}, b) => airing' = b /\ Has(todo'[q], Closing)
                    /\ ending' \cap waiting' = {}
  BY DEF FinishInv
<1>1. PICK p \in Processes, what \in Requests, w \in Words : Begin(p, what, w) /\ Turns(p, what, w)
  BY RequestIsOne
<1>2. /\ ~Busy(p) /\ todo'[p] = w /\ request'[p] = what
      /\ \A q \in Processes : q # p => todo'[q] = todo[q] /\ request'[q] = request[q]
      /\ marred \subseteq marred'
  BY <1>1, BeginFacts DEF TypeInv
<1>3. airing' = airing /\ waiting' = waiting /\ ending' = ending
  BY RequestIsOne, SchedulerEffects DEF TypeInv
<1>4. /\ activeB \in waiting => airing = activeB \/ \E q \in Processes : Raising(q, activeB)
      /\ \A q \in Processes :
           /\ Busy(q) => request[q] # "resume"
           /\ Has(todo[q], {"air"}) => airing = None
           /\ \A b \in waiting : HasFor(todo[q], {"detach"}, b) => airing = b /\ Has(todo[q], Closing)
      /\ ending \cap waiting = {}
  BY <1>2 DEF FinishInv, Unmarked
<1>5. None \notin waiting
  BY StreamServerAssumption DEF TypeInv, Typed, Broadcasts, None
<1>6. ASSUME NEW q \in Processes, NEW b, Raising(q, b) PROVE q # p /\ Raising(q, b)'
  <2>1. q # p
    BY <1>2, <1>6, RaisersAlone
  <2>2. QED
    BY <1>2, <1>6, <2>1 DEF Raising
<1>7. ASSUME activeB' \in waiting' PROVE airing' = activeB' \/ \E q \in Processes : Raising(q, activeB)'
  <2>1. activeB' = activeB
    BY <1>1, <1>3, <1>5, <1>7 DEF Turns
  <2>2. ASSUME NEW q \in Processes, Raising(q, activeB) PROVE Raising(q, activeB)'
    BY <1>2, <1>6, <2>1, <2>2 DEF Raising
  <2>3. QED
    BY <1>3, <1>4, <1>7, <2>1, <2>2
<1>8. ASSUME NEW b \in waiting, HasFor(w, {"detach"}, b) PROVE airing = b /\ Has(w, Closing)
  <2>1. what = "stop"
    <3>1. Fitting(what, w)
      BY <1>2 DEF FittingInv
    <3>2. QED
      BY <1>8, <3>1, ForIsHas DEF Fitting
  <2>2. w = StopRequest(activeB)
    BY <1>1, <2>1 DEF Turns
  <2>3. b = activeB /\ Has(w, Closing)
    BY <1>8, <2>2 DEF StopRequest, Call, HasFor, Has, Closing
  <2>4. ASSUME NEW q \in Processes, Raising(q, activeB) PROVE FALSE
    <3>1. q # p /\ request[q] = "scheduled" /\ Busy(q)
      BY <1>6, <2>4, RaisersAlone
    <3>2. Busy(q)' /\ request'[q] \in Starting /\ Busy(p)'
      BY <1>2, <1>8, <3>1, ForIsHas DEF Busy, Starting
    <3>3. "raced" \in marred'
      BY <3>1, <3>2 DEF TypeInv, Noticed
    <3>4. QED
      BY <3>3 DEF Unmarked
  <2>5. QED
    BY <1>4, <2>3, <2>4
<1>9. what # "resume" /\ (Has(w, {"air"}) => airing = None)
  <2>1. Shape(what, w)
    BY <1>2 DEF ShapeInv
  <2>2. QED
    BY <1>1, <2>1 DEF Turns, Shape
<1>10. ASSUME NEW q \in Processes
       PROVE  /\ Busy(q)' => request'[q] # "resume"
              /\ Has(todo'[q], {"air"}) => airing' = None
              /\ \A b \in waiting' : HasFor(todo'[q], {"detach"}, b) => airing' = b /\ Has(todo'[q], Closing)
  <2>1. CASE q = p
    BY <1>2, <1>3, <1>8, <1>9, <2>1
  <2>2. CASE q # p
    BY <1>2, <1>3, <1>4, <2>2 DEF Busy
  <2>3. QED
    BY <2>1, <2>2
<1>11. QED
  BY <1>3, <1>4, <1>7, <1>10

LEMMA FinishCalls ==
  ASSUME TypeInv, ShapeInv, ShapeInv', OrderedInv, FittingInv, FittingInv', FinishInv, NEW p \in Processes, CallStep(p)
  PROVE  FinishInv'
<1> DEFINE n == Head(todo[p]).do
           a == Head(todo[p]).b
           t == Tail(todo[p])
<1> SUFFICES ASSUME Unmarked({"raced", "rebooted"})'
             PROVE  /\ activeB' \in waiting' => airing' = activeB' \/ \E q \in Processes : Raising(q, activeB)'
                    /\ \A q \in Processes :
                         /\ Busy(q)' => request'[q] # "resume"
                         /\ Has(todo'[q], {"air"}) => airing' = None
                         /\ \A b \in waiting' : HasFor(todo'[q], {"detach"}, b) => airing' = b /\ Has(todo'[q], Closing)
                    /\ ending' \cap waiting' = {}
  BY DEF FinishInv
<1>1. PICK w \in Words : Return(p, w) /\ Becomes(p, w)
  BY CallWords
<1>2. /\ todo'[p] = w /\ request'[p] = (IF w = <<>> THEN "none" ELSE request[p])
      /\ \A q \in Processes : q # p => todo'[q] = todo[q] /\ request'[q] = request[q]
  BY <1>1, ReturnFacts DEF TypeInv
<1>3. /\ Busy(p) /\ todo[p] \in Words /\ todo[p] # <<>> /\ Legal(request[p], todo[p]) /\ Shape(request[p], todo[p])
      /\ Ordered(request[p], todo[p]) /\ Fitting(request[p], todo[p])
  BY CallIsOne DEF TypeInv, Typed, Worded, Busy, ShapeInv, OrderedInv, FittingInv
<1>4. Effect(p)
  BY CallHasEffect DEF TypeInv
<1>5. Unmarked({"raced", "rebooted"})
  BY <1>4 DEF Effect, Unmarked
<1>6. /\ activeB \in waiting => airing = activeB \/ \E q \in Processes : Raising(q, activeB)
      /\ \A q \in Processes :
           /\ Busy(q) => request[q] # "resume"
           /\ Has(todo[q], {"air"}) => airing = None
           /\ \A b \in waiting : HasFor(todo[q], {"detach"}, b) => airing = b /\ Has(todo[q], Closing)
      /\ ending \cap waiting = {}
  BY <1>5 DEF FinishInv
<1>7. /\ waiting' = IF n = "forget" THEN waiting \ {airing} ELSE waiting
      /\ ending' = IF n = "detach" /\ a # None THEN ending \cup {a} ELSE ending
  BY SchedulerEffects DEF TypeInv
<1>8. /\ t \in Words
      /\ \A Y : Has(todo[p], Y) <=> n \in Y \/ Has(t, Y)
      /\ \A Y : Only(todo[p], Y) <=> n \in Y /\ Only(t, Y)
      /\ \A X, Y : Followed(todo[p], X, Y) => (n \in X => Has(t, Y))
  BY <1>3, TailWord
<1>9. /\ \A X, Y : NoneAfter(todo[p], X, Y) => (n \in Y => ~Has(t, X))
      /\ \A X, b : Bound(todo[p], X, b) => Bound(t, X, b) /\ (n \in X => a = b)
      /\ \A X, b : HasFor(todo[p], X, b) => (n \in X /\ a = b) \/ HasFor(t, X, b)
      /\ \A X, b : HasFor(t, X, b) => HasFor(todo[p], X, b)
  BY <1>3, TailOrder
<1>10. request[p] # "resume" /\ n # "resume"
  BY <1>3, <1>6, <1>8 DEF Legal, Undoing, Doings
<1>11. /\ airing' = IF n = "forget" THEN None ELSE IF n = "air" THEN a ELSE airing
       /\ activeB' = IF n = "adopt" THEN a ELSE IF n = "disown" THEN None ELSE activeB
  BY <1>4, <1>10 DEF Effect
<1>12. \/ w = t /\ n # "stopActive"
       \/ n = "start" /\ w = Refusal(request[p])
       \/ n = "create" /\ (w = <<>> \/ \E b \in Broadcasts \ Scheduled : w = Broadcasting(b))
       \/ n = "stopActive" /\ w = StopActiveEvent(airing) \o t
       \/ n = "cancelBroadcast" /\ w = <<>>
  BY <1>1, <1>10 DEF Becomes
<1>13. waiting \subseteq Broadcasts /\ None \notin waiting /\ waiting \subseteq Scheduled
  BY StreamServerAssumption DEF TypeInv, Typed, Broadcasts, None
<1>14. ASSUME n \in {"air", "adopt", "start"}
       PROVE  Only(todo[p], Doings) /\ \A q \in Processes : q # p => todo[q] = <<>>
  BY <1>3, <1>5, <1>14, StartsAlone DEF Unmarked, Doings, Undoing
\* A scheduled request makes no other call that undoes anything than those of its refusal.
<1>15. ASSUME request[p] = "scheduled"
       PROVE  n \in Doings \cup {"disown", "unblock"} /\ \E b \in Args : Bound(todo[p], {"adopt", "air"}, b)
  BY <1>3, <1>8, <1>15 DEF Fitting
<1>16. ASSUME NEW q \in Processes, NEW b, Raising(q, b), n \notin {"air", "disown"}
       PROVE  Raising(q, b)'
  <2>1. CASE q # p
    BY <1>2, <1>16, <2>1 DEF Raising
  <2>2. CASE q = p
    <3>1. request[p] = "scheduled"
      BY <1>16, <2>2, RaisersAlone
    <3>2. w = t \/ w = Refusal("scheduled")
      BY <1>12, <1>15, <3>1 DEF Doings
    <3>3. CASE w = t
      <4>1. HasFor(t, {"air"}, b) \/ Has(t, {"disown"})
        BY <1>8, <1>9, <1>16, <2>2, <3>3 DEF Raising
      <4>2. t # <<>>
        BY <4>1, ForIsHas, EmptyWord
      <4>3. QED
        BY <1>2, <2>2, <3>1, <3>3, <4>1, <4>2 DEF Raising
    <3>4. CASE w = Refusal("scheduled")
      <4> DEFINE v == <<Call("disown", None)>>
                 u == <<Call("unblock", None)>>
      <4>1. w = v \o u \o <<>>
        BY <3>4 DEF Refusal
      <4>2. v \in Words /\ u \in Words /\ Has(v, {"disown"})
        BY DEF Call, Words, Calls, Names, Undoing, Args, Has
      <4> HIDE DEF v, u
      <4>3. v \o u \in Words /\ Has(v \o u, {"disown"})
        BY <4>2, CatWord
      <4>4. Has(w, {"disown"})
        BY <4>1, <4>3, EmptyWord, CatWord
      <4>5. w # <<>>
        BY <4>4, EmptyWord
      <4>6. QED
        BY <1>2, <2>2, <3>1, <4>4, <4>5 DEF Raising
    <3>5. QED
      BY <3>2, <3>3, <3>4
  <2>3. QED
    BY <2>1, <2>2
<1>17. ASSUME activeB' \in waiting' PROVE airing' = activeB' \/ \E q \in Processes : Raising(q, activeB)'
  <2>1. CASE n = "adopt"
    <3>1. activeB' = a /\ a \in waiting
      BY <1>7, <1>11, <1>17, <2>1
    <3>2. HasFor(todo[p], {"adopt"}, a)
      <4>1. Head(todo[p]) = todo[p][1] /\ 1 \in 1..Len(todo[p])
        BY <1>3, HeadTailProperties, EmptySeq, LenProperties DEF Words
      <4>2. QED
        BY <2>1, <4>1 DEF HasFor
    <3>3. request[p] = "scheduled"
      BY <1>3, <1>8, <1>13, <2>1, <3>1, <3>2 DEF Shape, Fitting
    <3>4. PICK b \in Args : Bound(todo[p], {"adopt", "air"}, b)
      BY <1>15, <3>3
    <3>5. a = b /\ Bound(t, {"adopt", "air"}, a) /\ Has(t, {"air"})
      BY <1>3, <1>8, <1>9, <2>1, <3>3, <3>4 DEF Shape
    <3>6. HasFor(t, {"air"}, a)
      BY <3>5 DEF Bound, Has, HasFor
    <3>7. w = t
      BY <1>12, <2>1
    <3>8. Raising(p, activeB)'
      BY <1>2, <3>1, <3>6, <3>7 DEF Raising
    <3>9. QED
      BY <3>8
  <2>2. CASE n = "air"
    <3>1. activeB' = activeB /\ activeB \in waiting /\ airing' = a /\ airing = None
      BY <1>6, <1>7, <1>8, <1>11, <1>17, <2>2
    <3>2. PICK q \in Processes : Raising(q, activeB)
      BY <1>6, <1>13, <3>1
    <3>3. q = p
      BY <1>14, <2>2, <3>2, RaisersAlone DEF Busy
    <3>4. ~Has(todo[p], {"disown"})
      BY <1>14, <2>2 DEF Only, Has, Doings
    <3>5. HasFor(todo[p], {"air"}, activeB) /\ request[p] = "scheduled"
      BY <3>2, <3>3, <3>4, RaisersAlone DEF Raising
    <3>6. PICK b \in Args : Bound(todo[p], {"adopt", "air"}, b)
      BY <1>15, <3>5
    <3>7. a = b /\ activeB = b
      BY <1>9, <2>2, <3>5, <3>6 DEF Bound, HasFor
    <3>8. QED
      BY <3>1, <3>7
  <2>3. CASE n = "disown"
    BY <1>7, <1>11, <1>13, <1>17, <2>3
  <2>4. CASE n \notin {"adopt", "air", "disown"}
    <3>1. activeB' = activeB /\ activeB \in waiting
      BY <1>7, <1>11, <1>17, <2>4
    <3>2. ASSUME NEW q \in Processes, Raising(q, activeB) PROVE Raising(q, activeB)'
      BY <1>16, <2>4, <3>1, <3>2 DEF Raising
    <3>3. airing = activeB => n # "forget" /\ airing' = airing
      BY <1>7, <1>11, <1>17, <2>4, <3>1
    <3>4. QED
      BY <1>6, <3>1, <3>2, <3>3
  <2>5. QED
    BY <2>1, <2>2, <2>3, <2>4
<1>18. ASSUME NEW q \in Processes PROVE Busy(q)' => request'[q] # "resume"
  BY <1>2, <1>6, <1>10 DEF Busy
<1>19. ASSUME NEW q \in Processes, Has(todo'[q], {"air"}) PROVE airing' = None
  <2>1. Shape(request'[q], todo'[q])
    BY DEF ShapeInv
  <2>2. request'[q] = "scheduled"
    BY <1>19, <2>1 DEF Shape
  <2>3. CASE q = p
    <3>1. request[p] = "scheduled"
      BY <1>2, <2>2, <2>3
    <3>2. w = t \/ w = Refusal("scheduled")
      BY <1>12, <1>15, <3>1 DEF Doings
    <3>3. w # Refusal("scheduled")
      <4>1. {"disown", "unblock", "unmark"} \cap {"air"} = {}
        OBVIOUS
      <4>2. QED
        BY <1>2, <1>19, <2>3, <4>1, RefusalWord, OnlyWord
    <3>4. Has(t, {"air"})
      BY <1>2, <1>19, <2>3, <3>2, <3>3
    <3>5. n # "air" /\ airing = None
      BY <1>3, <1>6, <1>8, <1>9, <3>4 DEF Shape
    <3>6. QED
      BY <1>11, <3>5
  <2>4. CASE q # p
    <3>1. Has(todo[q], {"air"}) /\ todo[q] # <<>>
      BY <1>2, <1>19, <2>4, EmptyWord
    <3>2. n # "air"
      BY <1>14, <2>4, <3>1
    <3>3. QED
      BY <1>6, <1>11, <3>1, <3>2
  <2>5. QED
    BY <2>3, <2>4
<1>20. ASSUME NEW q \in Processes, NEW b \in waiting', HasFor(todo'[q], {"detach"}, b)
       PROVE  airing' = b /\ Has(todo'[q], Closing)
  <2>1. b \in waiting /\ (n = "forget" => b # airing)
    BY <1>7, <1>20
  <2>2. CASE q # p
    <3>1. HasFor(todo[q], {"detach"}, b) /\ todo'[q] = todo[q]
      BY <1>2, <1>20, <2>2
    <3>2. airing = b /\ Has(todo[q], Closing) /\ todo[q] # <<>>
      BY <1>6, <2>1, <3>1, ForIsHas
    <3>3. n # "air" /\ n # "forget"
      BY <1>14, <2>1, <2>2, <3>2
    <3>4. QED
      BY <1>11, <3>1, <3>2, <3>3
  <2>3. CASE q = p
    <3>1. HasFor(w, {"detach"}, b) /\ Has(w, {"detach"})
      BY <1>2, <1>20, <2>3, ForIsHas
    <3>2. request[p] = "stop"
      <4>1. Fitting(request'[p], w)
        BY <1>2 DEF FittingInv
      <4>2. QED
        BY <1>2, <3>1, <4>1 DEF Fitting
    <3>3. n \in Undoing
      BY <1>3, <1>8, <3>2 DEF Legal, Starting
    <3>4. (w = t /\ n # "stopActive") \/ (n = "stopActive" /\ w = StopActiveEvent(airing) \o t)
      BY <1>12, <3>1, <3>3, EmptyWord DEF Undoing
    <3>5. CASE w = t /\ n # "stopActive"
      <4>1. airing = b /\ Has(todo[p], Closing)
        BY <1>6, <1>9, <2>1, <3>1, <3>5
      <4>2. n # "forget" /\ n # "air"
        BY <2>1, <3>3, <4>1 DEF Undoing
      <4>3. Has(t, Closing)
        BY <1>8, <3>5, <4>1, <4>2 DEF Closing
      <4>4. QED
        BY <1>2, <1>11, <2>3, <3>5, <4>1, <4>2, <4>3
    <3>6. CASE n = "stopActive" /\ w = StopActiveEvent(airing) \o t
      <4> DEFINE v == StopActiveEvent(airing)
      <4>1. airing \in Args
        BY DEF TypeInv, Typed
      <4>2. v \in Words /\ Only(v, Undoing \ {"detach"})
        BY <4>1, UndoingWords, ActiveDetachesNothing
      <4>3. Has(v, Closing)
        <5>1. {"halt", "unblock", "unmark", "forget"} \cap Closing # {}
          BY DEF Closing
        <5>2. QED
          BY <4>1, <5>1, WordsStop
      <4> HIDE DEF v
      <4>4. HasFor(t, {"detach"}, b)
        <5>1. w = v \o t
          BY <3>6 DEF v
        <5>2. PICK i \in 1..Len(w) : w[i].do = "detach" /\ w[i].b = b
          BY <3>1 DEF HasFor
        <5>3. /\ Len(v) \in Nat /\ Len(t) \in Nat /\ Len(w) = Len(v) + Len(t)
              /\ w[i] = IF i <= Len(v) THEN v[i] ELSE t[i - Len(v)]
          BY <1>8, <4>2, <5>1, <5>2, ConcatProperties, LenProperties DEF Words
        <5>4. ~(i <= Len(v))
          <6>1. ASSUME i <= Len(v) PROVE FALSE
            <7>1. i \in 1..Len(v) /\ v[i].do = "detach"
              BY <5>2, <5>3, <6>1
            <7>2. QED
              BY <4>2, <7>1 DEF Only
          <6>2. QED
            BY <6>1
        <5>5. i - Len(v) \in 1..Len(t) /\ t[i - Len(v)] = w[i]
          BY <5>3, <5>4
        <5>6. QED
          BY <5>2, <5>5 DEF HasFor
      <4>5. airing = b
        BY <1>6, <1>9, <2>1, <4>4
      <4>6. Has(w, Closing)
        BY <1>8, <3>6, <4>2, <4>3, CatWord DEF v
      <4>7. QED
        BY <1>2, <1>11, <2>3, <3>6, <4>5, <4>6
    <3>7. QED
      BY <3>4, <3>5, <3>6
  <2>4. QED
    BY <2>2, <2>3
<1>21. ending' \cap waiting' = {}
  <2>1. CASE n = "detach" /\ a \in waiting
    <3>1. HasFor(todo[p], {"detach"}, a)
      <4>1. Head(todo[p]) = todo[p][1] /\ 1 \in 1..Len(todo[p])
        BY <1>3, HeadTailProperties, EmptySeq, LenProperties DEF Words
      <4>2. QED
        BY <2>1, <4>1 DEF HasFor
    <3>2. Has(t, Closing)
      BY <1>6, <1>8, <2>1, <3>1 DEF Closing
    <3>3. ~Has(t, Closing)
      BY <1>3, <1>9, <2>1 DEF Fitting, Closing
    <3>4. QED
      BY <3>2, <3>3
  <2>2. CASE ~(n = "detach" /\ a \in waiting)
    BY <1>6, <1>7, <2>2
  <2>3. QED
    BY <2>1, <2>2
<1>22. QED
  BY <1>17, <1>18, <1>19, <1>20, <1>21

LEMMA FinishNext ==
  ASSUME TypeInv, TypeInv', ShapeInv, ShapeInv', OrderedInv, FittingInv, FittingInv', FinishInv, [Next]_vars
  PROVE  FinishInv'
<1>1. CASE Aside
  <2>1. Kept /\ marred \subseteq marred' /\ waiting' = waiting /\ ending' \subseteq ending
    BY <1>1, AsideIsQuiet, SchedulerEffects DEF TypeInv
  <2>2. QED
    BY <2>1 DEF FinishInv, Raising, Kept, Unmarked, Busy
<1>2. CASE Crash
  BY <1>2 DEF Crash, Upset, FinishInv, Unmarked
<1>3. QED
  BY <1>1, <1>2, FinishBegins, FinishCalls, StepKinds

\* When an operator's Stop has left a scheduled broadcast to be completed, the
\* scheduler is through with its occurrence, whatever other requests, failures of
\* FFmpeg and of YouTube went before: unless a start overlapped with another request
\* or the host went down, no broadcast is completed while it is on the air again.
THEOREM StopEndsItsOccurrence == Spec => []StopEndsOccurrence
<1>1. Init => OrderedInv /\ FittingInv
  <2>1. None \in Args
    BY DEF Args
  <2>2. QED
    BY <2>1, EmptyWord, FittingWords DEF Init, OrderedInv, Ordered, NoneAfter, FittingInv
<1>2. Init => FinishInv
  <2> SUFFICES ASSUME Init PROVE FinishInv
    OBVIOUS
  <2>1. \A p \in Processes : todo[p] = <<>> /\ ~Busy(p) /\ \A X : ~Has(todo[p], X) /\ \A b : ~HasFor(todo[p], X, b)
    BY EmptyWord DEF Init, Busy, HasFor
  <2>2. None \notin Scheduled
    BY StreamServerAssumption DEF None
  <2>3. QED
    BY <2>1, <2>2 DEF Init, FinishInv
<1>3. FinishInv => StopEndsOccurrence
  BY DEF FinishInv, StopEndsOccurrence, Unmarked
<1>4. QED
  BY <1>1, <1>2, <1>3, OrderedNext, FittingNext, FinishNext, ShapeAlways, TypeInvAlways, PTL DEF Spec

=============================================================================
