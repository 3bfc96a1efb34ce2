------------------------- MODULE PreviewProofs -------------------------
(***************************************************************************)
(* Proofs about Preview: that Block leaves no FFmpeg of the preview        *)
(* unkilled, that the listeners never stay with a session nobody can       *)
(* close, and that they are leased to one session at a time, but for the   *)
(* excused starts and offers, for any number of offers, sessions and       *)
(* callers of Block.                                                       *)
(***************************************************************************)
EXTENDS Preview, TLAPS

Existing(s) == s \in 0..sessions

PreviewTypes ==
  /\ blocked \in BOOLEAN /\ dying \in BOOLEAN /\ strayed \in BOOLEAN /\ overwritten \in BOOLEAN
  /\ sessions \in 0..MaxSessions
  /\ cmd \in [SessionIds -> {"none", "running", "exited"}]
  /\ closing \in [SessionIds -> {"open", "stop", "release", "forget", "closed"}]
  /\ offer \in [Offers -> {"idle", "replace", "replacing", "decode", "spawn", "negotiate", "publish", "abandon"}]
  /\ mine \in [Offers -> {0} \cup SessionIds] /\ sawBlocked \in [Offers -> BOOLEAN]
  /\ call \in [Callers -> {"idle", "stopping", "resuming"}] /\ held \in [Callers -> {0} \cup SessionIds]
  /\ update \in {"idle", "stopping", "starting"}

\* Nobody refers to a session that was not made, and none of those runs or
\* closes; an offer that replaces or makes one refers to one.
Numbered ==
  /\ Existing(session) /\ Existing(port) /\ Existing(changed)
  /\ \A c \in Callers : Existing(held[c])
  /\ \A s \in SessionIds : s > sessions => cmd[s] = "none" /\ closing[s] = "open"
  /\ \A o \in Offers :
       /\ Existing(mine[o])
       /\ offer[o] \in {"replace", "replacing", "spawn", "negotiate", "publish", "abandon"} => mine[o] # 0

\* A session that has released the listeners never has them again.
PortReleased == port # 0 => closing[port] \notin {"forget", "closed"}

\* A handler will publish, replace or close s.
Owned(s) == \E o \in Offers : mine[o] = s /\ offer[o] \in {"replace", "spawn", "negotiate", "publish"}

\* An open session is the server's, or an offer's.
OpenIsOwned ==
  ~overwritten => \A s \in SessionIds : s <= sessions /\ closing[s] = "open" => session = s \/ Owned(s)

\* A session that closes kills its FFmpeg before anything else.
ClosingKills == ~strayed => \A s \in SessionIds : cmd[s] = "running" => closing[s] \in {"open", "stop"}

\* While the camera is blocked, an open session with an FFmpeg has a Block about
\* to kill it.
Yielding ==
  ~strayed /\ ~overwritten /\ blocked =>
    \A s \in SessionIds : cmd[s] = "running" /\ closing[s] = "open" =>
      \E c \in Callers : call[c] = "stopping" /\ held[c] = s

PreviewInv ==
  PreviewTypes /\ Numbered /\ PortReleased /\ OpenIsOwned /\ ClosingKills /\ Yielding

LEMMA PreviewInitInv == PreviewInit => PreviewInv
<1> SUFFICES ASSUME PreviewInit PROVE PreviewInv
  OBVIOUS
<1> USE PreviewAssumption DEF PreviewInit
<1>1. PreviewTypes
  <2>1. 0 \in 0..MaxSessions
    OBVIOUS
  <2>2. QED
    BY <2>1 DEF PreviewTypes
<1>2. Numbered /\ PortReleased
  BY DEF Numbered, Existing, PortReleased
<1>3. OpenIsOwned /\ ClosingKills /\ Yielding
  BY DEF OpenIsOwned, ClosingKills, Yielding, SessionIds
<1>4. QED
  BY <1>1, <1>2, <1>3 DEF PreviewInv

\* An FFmpeg that is started in time is started for an open session while the
\* camera is not blocked.
LEMMA StartStep ==
  ASSUME PreviewTypes, NEW s \in SessionIds, StartFFmpeg(s)
  PROVE  /\ cmd' \in [SessionIds -> {"none", "running", "exited"}] /\ strayed' \in BOOLEAN /\ dying' = dying
         /\ \A u \in SessionIds \ {s} : cmd'[u] = cmd[u]
         /\ cmd'[s] = cmd[s] \/ cmd'[s] = "running"
         /\ ~strayed' => ~strayed /\ (cmd' = cmd \/ (~blocked /\ closing[s] = "open"))
<1>1. /\ cmd' \in [SessionIds -> {"none", "running", "exited"}] /\ dying' = dying
      /\ \A u \in SessionIds \ {s} : cmd'[u] = cmd[u]
      /\ cmd'[s] = cmd[s] \/ cmd'[s] = "running"
  BY DEF PreviewTypes, StartFFmpeg
<1>2. strayed' = (strayed \/ (cmd' # cmd /\ (blocked \/ closing[s] # "open")))
  BY DEF StartFFmpeg
<1>3. strayed' \in BOOLEAN /\ (~strayed' => ~strayed /\ (cmd' = cmd \/ (~blocked /\ closing[s] = "open")))
  BY <1>2, Zenon DEF PreviewTypes
<1>4. QED
  BY <1>1, <1>3

LEMMA PreviewNextInv == PreviewInv /\ [PreviewNext]_previewVars => PreviewInv'
<1> SUFFICES ASSUME PreviewInv, [PreviewNext]_previewVars PROVE PreviewInv'
  OBVIOUS
<1> USE PreviewAssumption DEF SessionIds
<1>0. PreviewTypes /\ Numbered /\ PortReleased /\ OpenIsOwned /\ ClosingKills /\ Yielding
  BY DEF PreviewInv
<1>1. ASSUME NEW o \in Offers, Offer(o) PROVE PreviewInv'
  <2>1. PreviewTypes'
    <3>1. mine' \in [Offers -> {0} \cup SessionIds]
      BY <1>1, <1>0 DEF Offer, PreviewTypes, Numbered, Existing
    <3>2. sawBlocked' \in [Offers -> BOOLEAN]
      BY <1>1, <1>0 DEF Offer, PreviewTypes
    <3>3. QED
      BY <1>1, <1>0, <3>1, <3>2 DEF Offer, OfferAt, PreviewTypes
  <2>2. Numbered'
    BY <1>1, <1>0 DEF Offer, OfferAt, PreviewTypes, Numbered, Existing
  <2>3. PortReleased'
    BY <1>1, <1>0 DEF Offer, OfferAt, PreviewTypes, Numbered, Existing, PortReleased
  <2>4. OpenIsOwned'
    <3> SUFFICES ASSUME ~overwritten, NEW s \in SessionIds, s <= sessions, closing[s] = "open"
                 PROVE  Owned(s)'
      BY <1>1 DEF Offer, OpenIsOwned
    <3>1. offer[o] = "idle" /\ mine'[o] = session /\ offer'[o] = (IF session = 0 THEN "decode" ELSE "replace")
          /\ \A q \in Offers \ {o} : mine'[q] = mine[q] /\ offer'[q] = offer[q]
      BY <1>1, <1>0 DEF Offer, OfferAt, PreviewTypes
    <3>2. session = s \/ Owned(s)
      BY <1>0 DEF OpenIsOwned
    <3>3. QED
      BY <3>1, <3>2 DEF Owned
  <2>5. ClosingKills'
    BY <1>1, <1>0 DEF Offer, OfferAt, PreviewTypes, ClosingKills
  <2>6. Yielding'
    BY <1>1, <1>0 DEF Offer, OfferAt, PreviewTypes, ClosingKills, Yielding
  <2>7. QED
    BY <2>1, <2>2, <2>3, <2>4, <2>5, <2>6 DEF PreviewInv
<1>2. ASSUME NEW o \in Offers, Replace(o) PROVE PreviewInv'
  <2>1. PreviewTypes'
    BY <1>2, <1>0 DEF Replace, OfferAt, Close, PreviewTypes
  <2>2. Numbered'
    <3>1. mine[o] \in SessionIds /\ mine[o] <= sessions
      BY <1>2, <1>0 DEF Replace, PreviewTypes, Numbered, Existing
    <3>2. \A s \in SessionIds : s > sessions => closing'[s] = closing[s]
      BY <1>2, <1>0, <3>1 DEF Replace, Close, PreviewTypes
    <3>3. ASSUME NEW q \in Offers
          PROVE  /\ Existing(mine'[q])
                 /\ offer'[q] \in {"replace", "replacing", "spawn", "negotiate", "publish", "abandon"} => mine'[q] # 0
      <4>1. CASE q = o
        <5>1. \/ offer'[o] = "replacing" /\ mine'[o] = mine[o]
              \/ offer'[o] = "decode" /\ mine'[o] = 0
          BY <1>2, <1>0 DEF Replace, OfferAt, PreviewTypes
        <5>2. QED
          BY <1>0, <3>1, <4>1, <5>1 DEF Existing, PreviewTypes
      <4>2. CASE q # o
        <5>1. offer'[q] = offer[q] /\ mine'[q] = mine[q]
          BY <1>2, <1>0, <4>2 DEF Replace, OfferAt, PreviewTypes
        <5>2. QED
          BY <1>0, <5>1 DEF Numbered
      <4>3. QED
        BY <4>1, <4>2
    <3>4. UNCHANGED <<session, port, held, changed, sessions, cmd>>
      BY <1>2 DEF Replace
    <3>5. QED
      BY <1>0, <3>2, <3>3, <3>4 DEF Numbered, Existing
  <2>3. PortReleased'
    BY <1>2, <1>0 DEF Replace, OfferAt, Close, PreviewTypes, Numbered, Existing, PortReleased
  <2>4. OpenIsOwned'
    <3> SUFFICES ASSUME ~overwritten, NEW s \in SessionIds, s <= sessions, closing'[s] = "open"
                 PROVE  session = s \/ Owned(s)'
      BY <1>2 DEF Replace, OpenIsOwned
    <3>1. closing[s] = "open" /\ s # mine[o]
      BY <1>2, <1>0 DEF Replace, Close, PreviewTypes
    <3>2. \A q \in Offers \ {o} : mine'[q] = mine[q] /\ offer'[q] = offer[q]
      BY <1>2, <1>0 DEF Replace, OfferAt, PreviewTypes
    <3>3. session = s \/ Owned(s)
      BY <1>0, <3>1 DEF OpenIsOwned
    <3>4. QED
      BY <3>1, <3>2, <3>3 DEF Owned
  <2>5. ClosingKills'
    BY <1>2, <1>0 DEF Replace, OfferAt, Close, PreviewTypes, ClosingKills
  <2>6. Yielding'
    BY <1>2, <1>0 DEF Replace, OfferAt, Close, PreviewTypes, ClosingKills, Yielding
  <2>7. QED
    BY <2>1, <2>2, <2>3, <2>4, <2>5, <2>6 DEF PreviewInv
<1>3. ASSUME NEW o \in Offers, Replaced(o) PROVE PreviewInv'
  <2>1. PreviewTypes'
    BY <1>3, <1>0 DEF Replaced, OfferAt, PreviewTypes
  <2>2. Numbered'
    BY <1>3, <1>0 DEF Replaced, OfferAt, PreviewTypes, Numbered, Existing
  <2>3. PortReleased'
    BY <1>3, <1>0 DEF Replaced, OfferAt, PreviewTypes, Numbered, Existing, PortReleased
  <2>4. OpenIsOwned'
    BY <1>3, <1>0 DEF Replaced, OfferAt, PreviewTypes, Numbered, Existing, OpenIsOwned, Owned
  <2>5. ClosingKills'
    BY <1>3, <1>0 DEF Replaced, OfferAt, PreviewTypes, ClosingKills
  <2>6. Yielding'
    BY <1>3, <1>0 DEF Replaced, OfferAt, PreviewTypes, ClosingKills, Yielding
  <2>7. QED
    BY <2>1, <2>2, <2>3, <2>4, <2>5, <2>6 DEF PreviewInv
<1>4. ASSUME NEW o \in Offers, Refuse(o) PROVE PreviewInv'
  <2>1. PreviewTypes'
    BY <1>4, <1>0 DEF Refuse, Fails, OfferAt, PreviewTypes
  <2>2. Numbered'
    BY <1>4, <1>0 DEF Refuse, Fails, OfferAt, PreviewTypes, Numbered, Existing
  <2>3. PortReleased'
    BY <1>4, <1>0 DEF Refuse, Fails, OfferAt, PreviewTypes, Numbered, Existing, PortReleased
  <2>4. OpenIsOwned'
    <3>1. \A q \in Offers \ {o} : mine'[q] = mine[q] /\ offer'[q] = offer[q]
      BY <1>4, <1>0 DEF Refuse, Fails, OfferAt, PreviewTypes
    <3>2. \A s \in SessionIds : Owned(s) => Owned(s)'
      BY <1>4, <3>1 DEF Refuse, Owned
    <3>3. QED
      BY <1>4, <1>0, <3>2 DEF Refuse, OpenIsOwned
  <2>5. ClosingKills'
    BY <1>4, <1>0 DEF Refuse, Fails, OfferAt, PreviewTypes, ClosingKills
  <2>6. Yielding'
    BY <1>4, <1>0 DEF Refuse, Fails, OfferAt, PreviewTypes, ClosingKills, Yielding
  <2>7. QED
    BY <2>1, <2>2, <2>3, <2>4, <2>5, <2>6 DEF PreviewInv
<1>5. ASSUME NEW o \in Offers, Listen(o) PROVE PreviewInv'
  <2>1. PreviewTypes'
    BY <1>5, <1>0 DEF Listen, OfferAt, PreviewTypes
  <2>2. Numbered'
    BY <1>5, <1>0 DEF Listen, OfferAt, PreviewTypes, Numbered, Existing
  <2>3. PortReleased'
    BY <1>5, <1>0 DEF Listen, OfferAt, PreviewTypes, Numbered, Existing, PortReleased
  <2>4. OpenIsOwned'
    BY <1>5, <1>0 DEF Listen, OfferAt, PreviewTypes, Numbered, Existing, OpenIsOwned, Owned
  <2>5. ClosingKills'
    BY <1>5, <1>0 DEF Listen, OfferAt, PreviewTypes, ClosingKills
  <2>6. Yielding'
    BY <1>5, <1>0 DEF Listen, OfferAt, PreviewTypes, ClosingKills, Yielding
  <2>7. QED
    BY <2>1, <2>2, <2>3, <2>4, <2>5, <2>6 DEF PreviewInv
<1>6. ASSUME NEW o \in Offers, Spawn(o) PROVE PreviewInv'
  <2>1. mine[o] \in SessionIds /\ mine[o] <= sessions /\ StartFFmpeg(mine[o])
    BY <1>6, <1>0 DEF Spawn, PreviewTypes, Numbered, Existing
  <2>2. /\ cmd' \in [SessionIds -> {"none", "running", "exited"}] /\ strayed' \in BOOLEAN /\ dying' = dying
        /\ \A u \in SessionIds \ {mine[o]} : cmd'[u] = cmd[u]
        /\ cmd'[mine[o]] = cmd[mine[o]] \/ cmd'[mine[o]] = "running"
        /\ ~strayed' => ~strayed /\ (cmd' = cmd \/ (~blocked /\ closing[mine[o]] = "open"))
    BY <1>0, <2>1, StartStep
  <2>3. /\ closing' \in [SessionIds -> {"open", "stop", "release", "forget", "closed"}]
        /\ \A u \in SessionIds \ {mine[o]} : closing'[u] = closing[u]
        /\ closing'[mine[o]] = closing[mine[o]] \/ (closing[mine[o]] = "open" /\ closing'[mine[o]] = "stop")
    <3>1. Close(mine[o]) \/ closing' = closing
      BY <1>6 DEF Spawn
    <3>2. CASE Close(mine[o])
      BY <1>0, <2>1, <3>2 DEF Close, PreviewTypes
    <3>3. CASE closing' = closing
      BY <1>0, <3>3 DEF PreviewTypes
    <3>4. QED
      BY <3>1, <3>2, <3>3
  <2>4. /\ offer[o] = "spawn" /\ offer'[o] \in {"negotiate", "abandon"}
        /\ offer'[o] = "abandon" => closing'[mine[o]] # "open"
        /\ \A q \in Offers \ {o} : offer'[q] = offer[q]
        /\ offer' \in [Offers -> {"idle", "replace", "replacing", "decode", "spawn", "negotiate", "publish", "abandon"}]
    <3>1. OfferAt(o, "negotiate") \/ (OfferAt(o, "abandon") /\ Close(mine[o]))
      BY <1>6 DEF Spawn
    <3>2. OfferAt(o, "abandon") /\ Close(mine[o]) => closing'[mine[o]] # "open"
      BY <1>0, <2>1 DEF Close, PreviewTypes
    <3>3. QED
      BY <1>6, <1>0, <3>1, <3>2 DEF Spawn, OfferAt, PreviewTypes
  <2>5. UNCHANGED <<blocked, session, port, sessions, mine, sawBlocked, call, held, update, changed, overwritten>>
    BY <1>6 DEF Spawn
  <2>6. PreviewTypes'
    BY <1>0, <2>2, <2>3, <2>4, <2>5 DEF PreviewTypes
  <2>7. Numbered'
    BY <1>0, <2>1, <2>2, <2>3, <2>4, <2>5 DEF PreviewTypes, Numbered, Existing
  <2>8. PortReleased'
    BY <1>0, <2>1, <2>3, <2>5 DEF PreviewTypes, Numbered, Existing, PortReleased
  <2>9. OpenIsOwned'
    <3> SUFFICES ASSUME ~overwritten, NEW s \in SessionIds, s <= sessions, closing'[s] = "open"
                 PROVE  session = s \/ Owned(s)'
      BY <2>5 DEF OpenIsOwned
    <3>1. closing[s] = "open" /\ (s = mine[o] => offer'[o] = "negotiate")
      BY <2>3, <2>4
    <3>2. session = s \/ Owned(s)
      BY <1>0, <3>1 DEF OpenIsOwned
    <3>3. QED
      BY <2>4, <2>5, <3>1, <3>2 DEF Owned
  <2>10. ClosingKills'
    <3> SUFFICES ASSUME ~strayed', NEW s \in SessionIds, cmd'[s] = "running" PROVE closing'[s] \in {"open", "stop"}
      BY DEF ClosingKills
    <3>1. closing[s] \in {"open", "stop"}
      BY <1>0, <2>2 DEF ClosingKills
    <3>2. QED
      BY <2>3, <3>1
  <2>11. Yielding'
    <3> SUFFICES ASSUME ~strayed', ~overwritten, blocked, NEW s \in SessionIds, cmd'[s] = "running", closing'[s] = "open"
                 PROVE  \E c \in Callers : call[c] = "stopping" /\ held[c] = s
      BY <2>5 DEF Yielding
    <3>1. cmd[s] = "running" /\ closing[s] = "open" /\ ~strayed
      BY <2>2, <2>3
    <3>2. QED
      BY <1>0, <3>1 DEF Yielding
  <2>12. QED
    BY <2>6, <2>7, <2>8, <2>9, <2>10, <2>11 DEF PreviewInv
<1>7. ASSUME NEW o \in Offers, Negotiate(o) PROVE PreviewInv'
  <2>1. PreviewTypes'
    <3>1. closing' \in [SessionIds -> {"open", "stop", "release", "forget", "closed"}]
      BY <1>7, <1>0 DEF Negotiate, Close, PreviewTypes
    <3>2. OfferAt(o, "publish") \/ OfferAt(o, "abandon")
      BY <1>7 DEF Negotiate
    <3>3. offer' \in [Offers -> {"idle", "replace", "replacing", "decode", "spawn", "negotiate", "publish", "abandon"}]
      BY <1>0, <3>2 DEF OfferAt, PreviewTypes
    <3>4. QED
      BY <1>7, <1>0, <3>1, <3>3 DEF Negotiate, PreviewTypes
  <2>2. Numbered'
    BY <1>7, <1>0 DEF Negotiate, OfferAt, Close, PreviewTypes, Numbered, Existing
  <2>3. PortReleased'
    BY <1>7, <1>0 DEF Negotiate, OfferAt, Close, PreviewTypes, Numbered, Existing, PortReleased
  <2>4. OpenIsOwned'
    <3> SUFFICES ASSUME ~overwritten', NEW s \in SessionIds, s <= sessions, closing'[s] = "open"
                 PROVE  session' = s \/ Owned(s)'
      BY <1>7 DEF Negotiate, OpenIsOwned
    <3>1. closing[s] = "open" /\ UNCHANGED <<session, sessions, mine, overwritten>>
      BY <1>7, <1>0 DEF Negotiate, Close, PreviewTypes
    <3>2. session = s \/ Owned(s)
      BY <1>0, <1>7, <3>1 DEF OpenIsOwned, Negotiate
    <3>3. ASSUME NEW q \in Offers, mine[q] = s, offer[q] \in {"replace", "spawn", "negotiate", "publish"}
          PROVE  offer'[q] \in {"replace", "spawn", "negotiate", "publish"}
      <4>1. CASE q # o
        BY <1>7, <1>0, <3>3, <4>1 DEF Negotiate, OfferAt, PreviewTypes
      <4>2. CASE q = o
        <5>1. offer'[o] \in {"publish", "abandon"} /\ (offer'[o] = "abandon" => closing'[mine[o]] # "open")
          BY <1>7, <1>0, <3>3, <4>2 DEF Negotiate, OfferAt, Close, PreviewTypes
        <5>2. QED
          BY <3>3, <4>2, <5>1
      <4>3. QED
        BY <4>1, <4>2
    <3>4. QED
      BY <3>1, <3>2, <3>3 DEF Owned
  <2>5. ClosingKills'
    BY <1>7, <1>0 DEF Negotiate, OfferAt, Close, PreviewTypes, ClosingKills
  <2>6. Yielding'
    BY <1>7, <1>0 DEF Negotiate, OfferAt, Close, PreviewTypes, ClosingKills, Yielding
  <2>7. QED
    BY <2>1, <2>2, <2>3, <2>4, <2>5, <2>6 DEF PreviewInv
<1>8. ASSUME NEW o \in Offers, Abandon(o) PROVE PreviewInv'
  <2>1. PreviewTypes'
    BY <1>8, <1>0 DEF Abandon, Fails, OfferAt, PreviewTypes
  <2>2. Numbered'
    BY <1>8, <1>0 DEF Abandon, Fails, OfferAt, PreviewTypes, Numbered, Existing
  <2>3. PortReleased'
    BY <1>8, <1>0 DEF Abandon, Fails, OfferAt, PreviewTypes, Numbered, Existing, PortReleased
  <2>4. OpenIsOwned'
    <3>1. \A q \in Offers \ {o} : mine'[q] = mine[q] /\ offer'[q] = offer[q]
      BY <1>8, <1>0 DEF Abandon, Fails, OfferAt, PreviewTypes
    <3>2. \A s \in SessionIds : Owned(s) => Owned(s)'
      BY <1>8, <3>1 DEF Abandon, Owned
    <3>3. QED
      BY <1>8, <1>0, <3>2 DEF Abandon, OpenIsOwned
  <2>5. ClosingKills'
    BY <1>8, <1>0 DEF Abandon, Fails, OfferAt, PreviewTypes, ClosingKills
  <2>6. Yielding'
    BY <1>8, <1>0 DEF Abandon, Fails, OfferAt, PreviewTypes, ClosingKills, Yielding
  <2>7. QED
    BY <2>1, <2>2, <2>3, <2>4, <2>5, <2>6 DEF PreviewInv
<1>9. ASSUME NEW o \in Offers, Publish(o) PROVE PreviewInv'
  <2>1. PreviewTypes'
    BY <1>9, <1>0 DEF Publish, Fails, OfferAt, PreviewTypes
  <2>2. Numbered'
    BY <1>9, <1>0 DEF Publish, Fails, OfferAt, PreviewTypes, Numbered, Existing
  <2>3. PortReleased'
    BY <1>9, <1>0 DEF Publish, Fails, OfferAt, PreviewTypes, Numbered, Existing, PortReleased
  <2>4. OpenIsOwned'
    <3> SUFFICES ASSUME ~overwritten', NEW s \in SessionIds, s <= sessions, closing'[s] = "open"
                 PROVE  session' = s \/ Owned(s)'
      BY <1>9 DEF Publish, OpenIsOwned
    <3>1. ~overwritten /\ session = 0 /\ session' = mine[o] /\ UNCHANGED closing
      BY <1>9 DEF Publish
    <3>2. PICK q \in Offers : mine[q] = s /\ offer[q] \in {"replace", "spawn", "negotiate", "publish"}
      BY <1>0, <3>1 DEF OpenIsOwned, Owned
    <3>3. CASE q = o
      BY <3>1, <3>2, <3>3
    <3>4. CASE q # o
      <4>1. mine'[q] = mine[q] /\ offer'[q] = offer[q]
        BY <1>9, <1>0, <3>4 DEF Publish, Fails, OfferAt, PreviewTypes
      <4>2. QED
        BY <3>2, <4>1 DEF Owned
    <3>5. QED
      BY <3>3, <3>4
  <2>5. ClosingKills'
    BY <1>9, <1>0 DEF Publish, Fails, OfferAt, PreviewTypes, ClosingKills
  <2>6. Yielding'
    BY <1>9, <1>0 DEF Publish, Fails, OfferAt, PreviewTypes, ClosingKills, Yielding
  <2>7. QED
    BY <2>1, <2>2, <2>3, <2>4, <2>5, <2>6 DEF PreviewInv
<1>10. ASSUME NEW s \in SessionIds, IceFails(s) PROVE PreviewInv'
  <2>1. PreviewTypes'
    BY <1>10, <1>0 DEF IceFails, Close, PreviewTypes
  <2>2. Numbered'
    BY <1>10, <1>0 DEF IceFails, Close, PreviewTypes, Numbered, Existing
  <2>3. PortReleased'
    BY <1>10, <1>0 DEF IceFails, Close, PreviewTypes, Numbered, Existing, PortReleased
  <2>4. OpenIsOwned'
    BY <1>10, <1>0 DEF IceFails, Close, PreviewTypes, Numbered, Existing, OpenIsOwned, Owned
  <2>5. ClosingKills'
    BY <1>10, <1>0 DEF IceFails, Close, PreviewTypes, ClosingKills
  <2>6. Yielding'
    BY <1>10, <1>0 DEF IceFails, Close, PreviewTypes, ClosingKills, Yielding
  <2>7. QED
    BY <2>1, <2>2, <2>3, <2>4, <2>5, <2>6 DEF PreviewInv
<1>11. ASSUME NEW s \in SessionIds, FFmpegExits(s) PROVE PreviewInv'
  <2>1. PreviewTypes'
    BY <1>11, <1>0 DEF FFmpegExits, PreviewTypes
  <2>2. Numbered'
    BY <1>11, <1>0 DEF FFmpegExits, PreviewTypes, Numbered, Existing
  <2>3. PortReleased'
    BY <1>11, <1>0 DEF FFmpegExits, PreviewTypes, Numbered, Existing, PortReleased
  <2>4. OpenIsOwned'
    BY <1>11, <1>0 DEF FFmpegExits, PreviewTypes, Numbered, Existing, OpenIsOwned, Owned
  <2>5. ClosingKills'
    BY <1>11, <1>0 DEF FFmpegExits, PreviewTypes, ClosingKills
  <2>6. Yielding'
    BY <1>11, <1>0 DEF FFmpegExits, PreviewTypes, ClosingKills, Yielding
  <2>7. QED
    BY <2>1, <2>2, <2>3, <2>4, <2>5, <2>6 DEF PreviewInv
<1>12. ASSUME NEW s \in SessionIds, Reaper(s) PROVE PreviewInv'
  <2>1. PreviewTypes'
    BY <1>12, <1>0 DEF Reaper, Close, PreviewTypes
  <2>2. Numbered'
    BY <1>12, <1>0 DEF Reaper, Close, PreviewTypes, Numbered, Existing
  <2>3. PortReleased'
    BY <1>12, <1>0 DEF Reaper, Close, PreviewTypes, Numbered, Existing, PortReleased
  <2>4. OpenIsOwned'
    BY <1>12, <1>0 DEF Reaper, Close, PreviewTypes, Numbered, Existing, OpenIsOwned, Owned
  <2>5. ClosingKills'
    BY <1>12, <1>0 DEF Reaper, Close, PreviewTypes, ClosingKills
  <2>6. Yielding'
    BY <1>12, <1>0 DEF Reaper, Close, PreviewTypes, ClosingKills, Yielding
  <2>7. QED
    BY <2>1, <2>2, <2>3, <2>4, <2>5, <2>6 DEF PreviewInv
<1>13. ASSUME NEW s \in SessionIds, CloseStops(s) PROVE PreviewInv'
  <2>1. PreviewTypes'
    BY <1>13, <1>0 DEF CloseStops, StopFFmpeg, PreviewTypes
  <2>2. Numbered'
    BY <1>13, <1>0 DEF CloseStops, StopFFmpeg, PreviewTypes, Numbered, Existing
  <2>3. PortReleased'
    BY <1>13, <1>0 DEF CloseStops, StopFFmpeg, PreviewTypes, Numbered, Existing, PortReleased
  <2>4. OpenIsOwned'
    BY <1>13, <1>0 DEF CloseStops, StopFFmpeg, PreviewTypes, Numbered, Existing, OpenIsOwned, Owned
  <2>5. ClosingKills'
    BY <1>13, <1>0 DEF CloseStops, StopFFmpeg, PreviewTypes, ClosingKills
  <2>6. Yielding'
    BY <1>13, <1>0 DEF CloseStops, StopFFmpeg, PreviewTypes, ClosingKills, Yielding
  <2>7. QED
    BY <2>1, <2>2, <2>3, <2>4, <2>5, <2>6 DEF PreviewInv
<1>14. ASSUME NEW s \in SessionIds, CloseReleases(s) PROVE PreviewInv'
  <2>1. PreviewTypes'
    BY <1>14, <1>0 DEF CloseReleases, PreviewTypes
  <2>2. Numbered'
    BY <1>14, <1>0 DEF CloseReleases, PreviewTypes, Numbered, Existing
  <2>3. PortReleased'
    BY <1>14, <1>0 DEF CloseReleases, PreviewTypes, Numbered, Existing, PortReleased
  <2>4. OpenIsOwned'
    BY <1>14, <1>0 DEF CloseReleases, PreviewTypes, Numbered, Existing, OpenIsOwned, Owned
  <2>5. ClosingKills'
    BY <1>14, <1>0 DEF CloseReleases, PreviewTypes, ClosingKills
  <2>6. Yielding'
    BY <1>14, <1>0 DEF CloseReleases, PreviewTypes, ClosingKills, Yielding
  <2>7. QED
    BY <2>1, <2>2, <2>3, <2>4, <2>5, <2>6 DEF PreviewInv
<1>15. ASSUME NEW s \in SessionIds, CloseForgets(s) PROVE PreviewInv'
  <2>1. PreviewTypes'
    BY <1>15, <1>0 DEF CloseForgets, PreviewTypes
  <2>2. Numbered'
    BY <1>15, <1>0 DEF CloseForgets, PreviewTypes, Numbered, Existing
  <2>3. PortReleased'
    BY <1>15, <1>0 DEF CloseForgets, PreviewTypes, Numbered, Existing, PortReleased
  <2>4. OpenIsOwned'
    BY <1>15, <1>0 DEF CloseForgets, PreviewTypes, Numbered, Existing, OpenIsOwned, Owned
  <2>5. ClosingKills'
    BY <1>15, <1>0 DEF CloseForgets, PreviewTypes, ClosingKills
  <2>6. Yielding'
    BY <1>15, <1>0 DEF CloseForgets, PreviewTypes, ClosingKills, Yielding
  <2>7. QED
    BY <2>1, <2>2, <2>3, <2>4, <2>5, <2>6 DEF PreviewInv
<1>16. ASSUME NEW c \in Callers, Block(c) PROVE PreviewInv'
  <2>1. PreviewTypes'
    <3>1. session \in {0} \cup SessionIds
      BY <1>0 DEF PreviewTypes, Numbered, Existing
    <3>2. call' \in [Callers -> {"idle", "stopping", "resuming"}] /\ held' \in [Callers -> {0} \cup SessionIds]
      BY <1>16, <1>0, <3>1 DEF Block, CallAt, PreviewTypes
    <3>3. blocked' \in BOOLEAN /\ strayed' \in BOOLEAN
      BY <1>16, <1>0, Zenon DEF Block, PreviewTypes
    <3>4. QED
      BY <1>16, <1>0, <3>2, <3>3 DEF Block, PreviewTypes
  <2>2. Numbered'
    BY <1>16, <1>0 DEF Block, CallAt, PreviewTypes, Numbered, Existing
  <2>3. PortReleased'
    BY <1>16, <1>0 DEF Block, CallAt, PreviewTypes, Numbered, Existing, PortReleased
  <2>4. OpenIsOwned'
    BY <1>16, <1>0 DEF Block, CallAt, PreviewTypes, Numbered, Existing, OpenIsOwned, Owned
  <2>5. ClosingKills'
    BY <1>16, <1>0 DEF Block, CallAt, PreviewTypes, ClosingKills
  <2>6. Yielding'
    <3> SUFFICES ASSUME ~strayed', ~overwritten, NEW s \in SessionIds, cmd[s] = "running", closing[s] = "open"
                 PROVE  call'[c] = "stopping" /\ held'[c] = s
      BY <1>16, <1>0 DEF Block, Yielding
    <3>1. s <= sessions /\ s # 0
      BY <1>0 DEF Numbered, PreviewTypes
    <3>2. ~Owned(s)
      BY <1>16 DEF Block, Owned
    <3>3. session = s
      BY <1>0, <3>1, <3>2 DEF OpenIsOwned
    <3>4. QED
      BY <1>0, <1>16, <3>1, <3>3 DEF Block, CallAt, PreviewTypes
  <2>7. QED
    BY <2>1, <2>2, <2>3, <2>4, <2>5, <2>6 DEF PreviewInv
<1>17. ASSUME NEW c \in Callers, BlockStops(c) PROVE PreviewInv'
  <2>1. PreviewTypes'
    BY <1>17, <1>0 DEF BlockStops, CallAt, StopFFmpeg, PreviewTypes
  <2>2. Numbered'
    BY <1>17, <1>0 DEF BlockStops, CallAt, StopFFmpeg, PreviewTypes, Numbered, Existing
  <2>3. PortReleased'
    BY <1>17, <1>0 DEF BlockStops, CallAt, StopFFmpeg, PreviewTypes, Numbered, Existing, PortReleased
  <2>4. OpenIsOwned'
    BY <1>17, <1>0 DEF BlockStops, CallAt, StopFFmpeg, PreviewTypes, Numbered, Existing, OpenIsOwned, Owned
  <2>5. ClosingKills'
    BY <1>17, <1>0 DEF BlockStops, CallAt, StopFFmpeg, PreviewTypes, ClosingKills
  <2>6. Yielding'
    BY <1>17, <1>0 DEF BlockStops, CallAt, StopFFmpeg, PreviewTypes, ClosingKills, Yielding
  <2>7. QED
    BY <2>1, <2>2, <2>3, <2>4, <2>5, <2>6 DEF PreviewInv
<1>18. ASSUME NEW c \in Callers, Unblock(c) PROVE PreviewInv'
  <2>1. PreviewTypes'
    <3>1. session \in {0} \cup SessionIds
      BY <1>0 DEF PreviewTypes, Numbered, Existing
    <3>2. call' \in [Callers -> {"idle", "stopping", "resuming"}] /\ held' \in [Callers -> {0} \cup SessionIds]
      BY <1>18, <1>0, <3>1 DEF Unblock, CallAt, PreviewTypes
    <3>3. blocked' \in BOOLEAN /\ strayed' \in BOOLEAN
      BY <1>18, <1>0, Zenon DEF Unblock, PreviewTypes
    <3>4. QED
      BY <1>18, <1>0, <3>2, <3>3 DEF Unblock, PreviewTypes
  <2>2. Numbered'
    BY <1>18, <1>0 DEF Unblock, CallAt, PreviewTypes, Numbered, Existing
  <2>3. PortReleased'
    BY <1>18, <1>0 DEF Unblock, CallAt, PreviewTypes, Numbered, Existing, PortReleased
  <2>4. OpenIsOwned'
    BY <1>18, <1>0 DEF Unblock, CallAt, PreviewTypes, Numbered, Existing, OpenIsOwned, Owned
  <2>5. ClosingKills'
    BY <1>18, <1>0 DEF Unblock, CallAt, PreviewTypes, ClosingKills
  <2>6. Yielding'
    BY <1>18, <1>0 DEF Unblock, CallAt, PreviewTypes, ClosingKills, Yielding
  <2>7. QED
    BY <2>1, <2>2, <2>3, <2>4, <2>5, <2>6 DEF PreviewInv
<1>19. ASSUME NEW c \in Callers, Resume(c) PROVE PreviewInv'
  <2>1. PreviewTypes'
    BY <1>19, <1>0 DEF Resume, CallAt, StartFFmpeg, PreviewTypes
  <2>2. Numbered'
    BY <1>19, <1>0 DEF Resume, CallAt, StartFFmpeg, PreviewTypes, Numbered, Existing
  <2>3. PortReleased'
    BY <1>19, <1>0 DEF Resume, CallAt, StartFFmpeg, PreviewTypes, Numbered, Existing, PortReleased
  <2>4. OpenIsOwned'
    BY <1>19, <1>0 DEF Resume, CallAt, StartFFmpeg, PreviewTypes, Numbered, Existing, OpenIsOwned, Owned
  <2>5. ClosingKills'
    BY <1>19, <1>0 DEF Resume, CallAt, StartFFmpeg, PreviewTypes, ClosingKills
  <2>6. Yielding'
    BY <1>19, <1>0 DEF Resume, CallAt, StartFFmpeg, PreviewTypes, ClosingKills, Yielding
  <2>7. QED
    BY <2>1, <2>2, <2>3, <2>4, <2>5, <2>6 DEF PreviewInv
<1>20. CASE UpdateConfig
  <2>1. PreviewTypes'
    BY <1>20, <1>0 DEF UpdateConfig, PreviewTypes
  <2>2. Numbered'
    BY <1>20, <1>0 DEF UpdateConfig, PreviewTypes, Numbered, Existing
  <2>3. PortReleased'
    BY <1>20, <1>0 DEF UpdateConfig, PreviewTypes, Numbered, Existing, PortReleased
  <2>4. OpenIsOwned'
    BY <1>20, <1>0 DEF UpdateConfig, PreviewTypes, Numbered, Existing, OpenIsOwned, Owned
  <2>5. ClosingKills'
    BY <1>20, <1>0 DEF UpdateConfig, PreviewTypes, ClosingKills
  <2>6. Yielding'
    BY <1>20, <1>0 DEF UpdateConfig, PreviewTypes, ClosingKills, Yielding
  <2>7. QED
    BY <2>1, <2>2, <2>3, <2>4, <2>5, <2>6 DEF PreviewInv
<1>21. CASE ConfigStops
  <2>1. PreviewTypes'
    BY <1>21, <1>0 DEF ConfigStops, StopFFmpeg, PreviewTypes
  <2>2. Numbered'
    BY <1>21, <1>0 DEF ConfigStops, StopFFmpeg, PreviewTypes, Numbered, Existing
  <2>3. PortReleased'
    BY <1>21, <1>0 DEF ConfigStops, StopFFmpeg, PreviewTypes, Numbered, Existing, PortReleased
  <2>4. OpenIsOwned'
    BY <1>21, <1>0 DEF ConfigStops, StopFFmpeg, PreviewTypes, Numbered, Existing, OpenIsOwned, Owned
  <2>5. ClosingKills'
    BY <1>21, <1>0 DEF ConfigStops, StopFFmpeg, PreviewTypes, ClosingKills
  <2>6. Yielding'
    BY <1>21, <1>0 DEF ConfigStops, StopFFmpeg, PreviewTypes, ClosingKills, Yielding
  <2>7. QED
    BY <2>1, <2>2, <2>3, <2>4, <2>5, <2>6 DEF PreviewInv
<1>22. CASE ConfigStarts
  <2>1. PreviewTypes'
    BY <1>22, <1>0 DEF ConfigStarts, StartFFmpeg, PreviewTypes
  <2>2. Numbered'
    BY <1>22, <1>0 DEF ConfigStarts, StartFFmpeg, PreviewTypes, Numbered, Existing
  <2>3. PortReleased'
    BY <1>22, <1>0 DEF ConfigStarts, StartFFmpeg, PreviewTypes, Numbered, Existing, PortReleased
  <2>4. OpenIsOwned'
    BY <1>22, <1>0 DEF ConfigStarts, StartFFmpeg, PreviewTypes, Numbered, Existing, OpenIsOwned, Owned
  <2>5. ClosingKills'
    BY <1>22, <1>0 DEF ConfigStarts, StartFFmpeg, PreviewTypes, ClosingKills
  <2>6. Yielding'
    <3>1. changed \in {0} \cup SessionIds /\ StartFFmpeg(changed)
      BY <1>22, <1>0 DEF ConfigStarts, PreviewTypes, Numbered, Existing
    <3>2. CASE changed = 0
      <4>1. cmd' = cmd \/ cmd' = [cmd EXCEPT ![changed] = "running"]
        BY <3>1 DEF StartFFmpeg
      <4>2. \A s \in SessionIds : cmd'[s] = cmd[s]
        BY <1>0, <3>2, <4>1 DEF PreviewTypes
      <4>3. strayed' = (strayed \/ (cmd' # cmd /\ (blocked \/ closing[changed] # "open")))
        BY <3>1 DEF StartFFmpeg
      <4>4. QED
        BY <1>22, <1>0, <4>2, <4>3 DEF ConfigStarts, Yielding
    <3>3. CASE changed \in SessionIds
      <4>1. ~strayed' => ~strayed /\ (cmd' = cmd \/ ~blocked)
        BY <1>0, <3>1, <3>3, StartStep
      <4>2. QED
        BY <1>22, <1>0, <4>1 DEF ConfigStarts, Yielding
    <3>4. QED
      BY <3>1, <3>2, <3>3
  <2>7. QED
    BY <2>1, <2>2, <2>3, <2>4, <2>5, <2>6 DEF PreviewInv
<1>23. CASE KilledExits
  <2>1. /\ UNCHANGED <<blocked, session, port, sessions, cmd, closing, offer, mine, sawBlocked, call, held>>
        /\ UNCHANGED <<update, changed, strayed, overwritten>> /\ dying' \in BOOLEAN
    BY <1>23 DEF KilledExits
  <2>2. QED
    BY <2>1, <1>0 DEF PreviewInv, PreviewTypes, Numbered, Existing, PortReleased, OpenIsOwned, Owned, ClosingKills, Yielding
<1>24. CASE UNCHANGED previewVars
  BY <1>24, <1>0 DEF previewVars, PreviewInv, PreviewTypes, Numbered, Existing, PortReleased, OpenIsOwned, Owned,
     ClosingKills, Yielding
<1>25. QED
  BY <1>1, <1>2, <1>3, <1>4, <1>5, <1>6, <1>7, <1>8, <1>9, <1>10, <1>11, <1>12, <1>13, <1>14, <1>15, <1>16, <1>17, <1>18, <1>19, <1>20, <1>21, <1>22, <1>23, <1>24 DEF PreviewNext

\* While the camera is blocked and no Block is under way, every FFmpeg of the
\* preview has been killed or its closing session is about to, unless one was
\* started late, an offer was being served, or a session was overwritten.
THEOREM BlockYieldsCamera == PreviewSpec => []CameraYielded
<1>1. PreviewInv => CameraYielded
  BY DEF PreviewInv, PreviewTypes, ClosingKills, Yielding, CameraYielded
<1>2. QED
  BY <1>1, PreviewInitInv, PreviewNextInv, PTL DEF PreviewSpec

\* When nothing is under way the listeners are free or the current session's,
\* unless an offer was published over another one's session.
THEOREM ListenersAreKept == PreviewSpec => []NoLostSession
<1>1. PreviewInv => NoLostSession
  <2> SUFFICES ASSUME PreviewInv, ~overwritten, \A o \in Offers : offer[o] = "idle",
                      \A s \in SessionIds : closing[s] \in {"open", "closed"}, port # 0
               PROVE  port = session
    BY DEF NoLostSession
  <2>1. port \in SessionIds /\ port <= sessions
    BY PreviewAssumption DEF PreviewInv, PreviewTypes, Numbered, Existing, SessionIds
  <2>2. closing[port] = "open"
    BY <2>1 DEF PreviewInv, PortReleased
  <2>3. ~Owned(port)
    BY DEF Owned
  <2>4. QED
    BY <2>1, <2>2, <2>3 DEF PreviewInv, OpenIsOwned
<1>2. QED
  BY <1>1, PreviewInitInv, PreviewNextInv, PTL DEF PreviewSpec

-----------------------------------------------------------------------------
(* The lease of the listeners *)

\* A session holds the listeners from its making until it releases them ...
HoldsPort == \A s \in SessionIds : s <= sessions /\ closing[s] \in {"open", "stop", "release"} => port = s

\* ... and whoever stops or starts an FFmpeg does it for a session.
Aimed == (\A c \in Callers : call[c] # "idle" => held[c] # 0) /\ (update # "idle" => changed # 0)

LeaseInv == PreviewInv /\ HoldsPort /\ Aimed

LEMMA SessionOf ==
  ASSUME PreviewInv, NEW s, Existing(s), s # 0
  PROVE  s \in SessionIds /\ s <= sessions
BY PreviewAssumption DEF PreviewInv, PreviewTypes, Existing, SessionIds

LEMMA MineIsSession ==
  ASSUME PreviewInv, NEW o \in Offers,
         offer[o] \in {"replace", "replacing", "spawn", "negotiate", "publish", "abandon"}
  PROVE  mine[o] \in SessionIds /\ mine[o] <= sessions
BY SessionOf DEF PreviewInv, Numbered

\* Beginning to close a session leaves it the listeners.
LEMMA CloseHolds ==
  ASSUME PreviewInv, HoldsPort, NEW s \in SessionIds, Close(s) \/ UNCHANGED closing, UNCHANGED <<port, sessions>>
  PROVE  HoldsPort'
BY DEF PreviewInv, PreviewTypes, Close, HoldsPort

LEMMA AimedStays ==
  ASSUME LeaseInv, [PreviewNext]_previewVars
  PROVE  Aimed'
<1>0. call \in [Callers -> {"idle", "stopping", "resuming"}] /\ held \in [Callers -> {0} \cup SessionIds]
  BY DEF LeaseInv, PreviewInv, PreviewTypes
<1>1. ASSUME NEW c \in Callers, Block(c) \/ BlockStops(c) \/ Unblock(c) \/ Resume(c)
      PROVE  Aimed'
  BY <1>0, <1>1 DEF LeaseInv, Aimed, Block, BlockStops, Unblock, Resume, CallAt
<1>2. ASSUME NEW o \in Offers,
             Offer(o) \/ Replace(o) \/ Replaced(o) \/ Refuse(o) \/ Listen(o) \/ Spawn(o) \/ Negotiate(o)
               \/ Abandon(o) \/ Publish(o)
      PROVE  UNCHANGED <<call, held, update, changed>>
  BY <1>2 DEF Offer, Replace, Replaced, Refuse, Listen, Spawn, Negotiate, Abandon, Publish
<1>3. ASSUME NEW s \in SessionIds,
             IceFails(s) \/ FFmpegExits(s) \/ Reaper(s) \/ CloseStops(s) \/ CloseReleases(s) \/ CloseForgets(s)
      PROVE  UNCHANGED <<call, held, update, changed>>
  BY <1>3 DEF IceFails, FFmpegExits, Reaper, CloseStops, CloseReleases, CloseForgets
<1>4. CASE UNCHANGED <<call, held, update, changed>>
  BY <1>4 DEF LeaseInv, Aimed
<1>5. CASE UNCHANGED previewVars
  BY <1>4, <1>5 DEF previewVars
<1>6. CASE UpdateConfig \/ ConfigStops \/ ConfigStarts \/ KilledExits
  BY <1>6 DEF LeaseInv, Aimed, UpdateConfig, ConfigStops, ConfigStarts, KilledExits
<1>7. QED
  BY <1>1, <1>2, <1>3, <1>4, <1>5, <1>6 DEF PreviewNext

LEMMA HoldsPortStays ==
  ASSUME LeaseInv, [PreviewNext]_previewVars
  PROVE  HoldsPort'
<1> USE DEF LeaseInv
<1>1. CASE UNCHANGED <<port, sessions, closing>>
  BY <1>1 DEF HoldsPort
<1>2. ASSUME NEW o \in Offers, Replace(o) \/ Spawn(o) \/ Negotiate(o) PROVE HoldsPort'
  <2>1. mine[o] \in SessionIds
    BY <1>2, MineIsSession DEF Replace, Spawn, Negotiate
  <2>2. (Close(mine[o]) \/ UNCHANGED closing) /\ UNCHANGED <<port, sessions>>
    BY <1>2 DEF Replace, Spawn, Negotiate
  <2>3. QED
    BY <2>1, <2>2, CloseHolds
<1>3. ASSUME NEW o \in Offers, Listen(o) PROVE HoldsPort'
  <2>1. port = 0 /\ port' = sessions + 1 /\ sessions' = sessions + 1 /\ UNCHANGED closing /\ sessions \in Nat
    BY <1>3, PreviewAssumption DEF Listen, PreviewInv, PreviewTypes
  <2>2. QED
    BY <2>1 DEF HoldsPort, SessionIds
<1>4. ASSUME NEW o \in Offers,
             Offer(o) \/ Replaced(o) \/ Refuse(o) \/ Abandon(o) \/ Publish(o)
      PROVE  UNCHANGED <<port, sessions, closing>>
  BY <1>4 DEF Offer, Replaced, Refuse, Abandon, Publish
<1>5. ASSUME NEW s \in SessionIds, IceFails(s) \/ Reaper(s) PROVE HoldsPort'
  BY <1>5, CloseHolds DEF IceFails, Reaper
<1>6. ASSUME NEW s \in SessionIds, CloseStops(s) \/ CloseReleases(s) \/ CloseForgets(s) PROVE HoldsPort'
  <2>1. CASE CloseStops(s) \/ CloseForgets(s)
    BY <1>6, <2>1 DEF CloseStops, CloseForgets, PreviewInv, PreviewTypes, HoldsPort
  <2>2. CASE CloseReleases(s)
    BY <1>6, <2>2 DEF CloseReleases, PreviewInv, PreviewTypes, HoldsPort
  <2>3. QED
    BY <1>6, <2>1, <2>2
<1>7. ASSUME NEW s \in SessionIds, FFmpegExits(s) PROVE UNCHANGED <<port, sessions, closing>>
  BY <1>7 DEF FFmpegExits
<1>8. ASSUME NEW c \in Callers, Block(c) \/ BlockStops(c) \/ Unblock(c) \/ Resume(c)
      PROVE  UNCHANGED <<port, sessions, closing>>
  BY <1>8 DEF Block, BlockStops, Unblock, Resume
<1>9. CASE UpdateConfig \/ ConfigStops \/ ConfigStarts \/ KilledExits
  BY <1>1, <1>9 DEF UpdateConfig, ConfigStops, ConfigStarts, KilledExits
<1>10. CASE UNCHANGED previewVars
  BY <1>1, <1>10 DEF previewVars
<1>11. QED
  BY <1>1, <1>2, <1>3, <1>4, <1>5, <1>6, <1>7, <1>8, <1>9, <1>10 DEF PreviewNext

\* While no FFmpeg was started late, the one that runs feeds the session with
\* the listeners.
LEMMA FedHolds ==
  ASSUME LeaseInv, ~strayed
  PROVE  /\ Fed \subseteq {port} /\ (Fed # {} => port \in SessionIds)
         /\ Feeding = IF Fed = {} THEN 0 ELSE port
<1>1. ASSUME NEW s \in Fed PROVE port = s
  <2>1. s \in SessionIds /\ cmd[s] = "running" /\ s <= sessions
    BY <1>1, PreviewAssumption DEF Fed, LeaseInv, PreviewInv, PreviewTypes, Numbered, SessionIds
  <2>2. QED
    BY <2>1 DEF LeaseInv, PreviewInv, ClosingKills, HoldsPort
<1>2. QED
  BY <1>1 DEF Fed, Feeding

\* An FFmpeg is started, in time: for the session with the listeners, and no
\* other runs.
LEMMA StartLaunches ==
  ASSUME LeaseInv, ~strayed, ~strayed', NEW s \in SessionIds, s <= sessions, StartFFmpeg(s),
         UNCHANGED <<port, sessions>>
  PROVE  [Lease!LeaseNext]_(Lease!leaseVars)
<1> USE DEF LeaseInv, PreviewInv, PreviewTypes
<1>1. CASE UNCHANGED cmd
  BY <1>1 DEF Lease!leaseVars, Feeding, Fed
<1>2. CASE cmd[s] = "none" /\ cmd' = [cmd EXCEPT ![s] = "running"]
  <2>1. cmd' # cmd /\ closing[s] = "open"
    BY <1>2 DEF StartFFmpeg
  <2>2. port = s /\ port # 0
    BY <2>1 DEF HoldsPort, SessionIds
  <2>3. Fed = {} /\ Feeding = 0
    BY <1>2, <2>2, FedHolds DEF Fed
  <2>4. Fed' = {s}
    BY <1>2, <2>3 DEF Fed
  <2>5. Feeding' = s
    BY <2>4 DEF Feeding
  <2>6. Lease!Launch(s)
    BY <2>2, <2>3, <2>5 DEF Lease!Launch
  <2>7. QED
    BY <2>6 DEF Lease!LeaseNext
<1>3. QED
  BY <1>1, <1>2 DEF StartFFmpeg

\* An FFmpeg is stopped or exits, or was not running.
LEMMA StopExits ==
  ASSUME LeaseInv, ~strayed, NEW s \in SessionIds, Fed' = Fed \ {s}, UNCHANGED <<port, sessions>>
  PROVE  [Lease!LeaseNext]_(Lease!leaseVars)
<1>1. CASE s \notin Fed
  <2>1. Fed' = Fed
    BY <1>1
  <2>2. Fed = {} \/ Fed = {port}
    BY FedHolds
  <2>3. Feeding' = Feeding
    BY <2>1, <2>2 DEF Feeding
  <2>4. QED
    BY <2>3 DEF Lease!leaseVars
<1>2. CASE s \in Fed
  <2>1. port = s /\ Feeding = s /\ s # 0
    BY <1>2, FedHolds DEF SessionIds
  <2>2. Fed' = {} /\ Feeding' = 0
    BY <1>2, FedHolds DEF Feeding
  <2>3. Lease!Exit
    BY <2>1, <2>2 DEF Lease!Exit
  <2>4. QED
    BY <2>3 DEF Lease!LeaseNext
<1>3. QED
  BY <1>1, <1>2

LEMMA ListenerStep ==
  ASSUME LeaseInv, [PreviewNext]_previewVars
  PROVE  [Lease!LeaseNext \/ strayed']_(Lease!leaseVars)
<1> SUFFICES ASSUME ~strayed' PROVE [Lease!LeaseNext]_(Lease!leaseVars)
  OBVIOUS
<1>0. ~strayed
  BY Zenon DEF PreviewNext, Offer, Replace, Replaced, Refuse, Listen, Spawn, Negotiate, Abandon, Publish,
     IceFails, FFmpegExits, Reaper, CloseStops, CloseReleases, CloseForgets, Block, BlockStops, Unblock, Resume,
     UpdateConfig, ConfigStops, ConfigStarts, KilledExits, StartFFmpeg, previewVars
<1> USE DEF LeaseInv, PreviewInv, PreviewTypes
<1>1. CASE UNCHANGED <<port, sessions, cmd>>
  BY <1>1 DEF Lease!leaseVars, Feeding, Fed
<1>2. ASSUME NEW o \in Offers, Listen(o) PROVE Lease!LeaseNext
  <2>1. port = 0 /\ port' = sessions + 1 /\ sessions' = sessions + 1 /\ UNCHANGED cmd
        /\ sessions \in Nat /\ sessions + 1 \in SessionIds
    BY <1>2, PreviewAssumption DEF Listen, SessionIds
  <2>2. Feeding = 0 /\ Feeding' = 0
    BY <1>0, <2>1, FedHolds DEF Feeding, Fed, SessionIds
  <2>3. sessions + 1 \notin 1..sessions /\ 1..sessions' = (1..sessions) \cup {sessions + 1}
    BY <2>1
  <2>4. Lease!Acquire(sessions + 1)
    BY <2>1, <2>2, <2>3 DEF Lease!Acquire
  <2>5. QED
    BY <2>1, <2>4 DEF Lease!LeaseNext
<1>3. ASSUME NEW o \in Offers, Spawn(o) PROVE [Lease!LeaseNext]_(Lease!leaseVars)
  <2>1. mine[o] \in SessionIds /\ mine[o] <= sessions
    BY <1>3, MineIsSession DEF Spawn
  <2>2. QED
    BY <1>0, <1>3, <2>1, StartLaunches DEF Spawn
<1>4. ASSUME NEW o \in Offers,
             Offer(o) \/ Replace(o) \/ Replaced(o) \/ Refuse(o) \/ Negotiate(o) \/ Abandon(o) \/ Publish(o)
      PROVE  UNCHANGED <<port, sessions, cmd>>
  BY <1>4 DEF Offer, Replace, Replaced, Refuse, Negotiate, Abandon, Publish
<1>5. ASSUME NEW s \in SessionIds, FFmpegExits(s) \/ CloseStops(s) PROVE [Lease!LeaseNext]_(Lease!leaseVars)
  <2>1. Fed' = Fed \ {s} /\ UNCHANGED <<port, sessions>>
    BY <1>5 DEF FFmpegExits, CloseStops, StopFFmpeg, Fed
  <2>2. QED
    BY <1>0, <2>1, StopExits
<1>6. ASSUME NEW s \in SessionIds, CloseReleases(s) PROVE [Lease!LeaseNext]_(Lease!leaseVars)
  <2>1. CASE port # s
    BY <1>1, <1>6, <2>1 DEF CloseReleases
  <2>2. CASE port = s
    <3>1. port # 0 /\ port' = 0 /\ UNCHANGED <<cmd, sessions>>
      BY <1>6, <2>2 DEF CloseReleases, SessionIds
    <3>2. Fed = {}
      BY <1>0, <1>6, <2>2, FedHolds DEF CloseReleases, ClosingKills, Fed
    <3>3. Feeding = 0 /\ Feeding' = 0
      BY <3>1, <3>2 DEF Feeding, Fed
    <3>4. Lease!Release
      BY <3>1, <3>3 DEF Lease!Release
    <3>5. QED
      BY <3>4 DEF Lease!LeaseNext
  <2>3. QED
    BY <2>1, <2>2
<1>7. ASSUME NEW s \in SessionIds, IceFails(s) \/ Reaper(s) \/ CloseForgets(s)
      PROVE  UNCHANGED <<port, sessions, cmd>>
  BY <1>7 DEF IceFails, Reaper, CloseForgets
<1>8. ASSUME NEW s, Existing(s), s # 0, StopFFmpeg(s) \/ StartFFmpeg(s), UNCHANGED <<port, sessions>>
      PROVE  [Lease!LeaseNext]_(Lease!leaseVars)
  <2>1. s \in SessionIds /\ s <= sessions
    BY <1>8, SessionOf
  <2>2. CASE StopFFmpeg(s)
    <3>1. Fed' = Fed \ {s}
      BY <2>1, <2>2 DEF StopFFmpeg, Fed
    <3>2. QED
      BY <1>0, <1>8, <2>1, <3>1, StopExits
  <2>3. QED
    BY <1>0, <1>8, <2>1, <2>2, StartLaunches
<1>9. ASSUME NEW c \in Callers, BlockStops(c) \/ Resume(c) PROVE [Lease!LeaseNext]_(Lease!leaseVars)
  <2>1. Existing(held[c]) /\ held[c] # 0
    BY <1>9 DEF BlockStops, Resume, Numbered, Aimed
  <2>2. (StopFFmpeg(held[c]) \/ StartFFmpeg(held[c])) /\ UNCHANGED <<port, sessions>>
    BY <1>9 DEF BlockStops, Resume
  <2>3. QED
    BY <1>8, <2>1, <2>2
<1>10. CASE ConfigStops \/ ConfigStarts
  BY <1>8, <1>10 DEF ConfigStops, ConfigStarts, Numbered, Aimed
<1>11. ASSUME NEW c \in Callers, Block(c) \/ Unblock(c) PROVE UNCHANGED <<port, sessions, cmd>>
  BY <1>11 DEF Block, Unblock
<1>12. CASE UpdateConfig \/ KilledExits
  BY <1>1, <1>12 DEF UpdateConfig, KilledExits
<1>13. CASE UNCHANGED previewVars
  BY <1>1, <1>13 DEF previewVars
<1>14. QED
  BY <1>1, <1>2, <1>3, <1>4, <1>5, <1>6, <1>7, <1>9, <1>10, <1>11, <1>12, <1>13 DEF PreviewNext

LEMMA ListenersFree == PreviewInit => Lease!LeaseInit /\ HoldsPort /\ Aimed
<1> SUFFICES ASSUME PreviewInit PROVE Lease!LeaseInit /\ HoldsPort /\ Aimed
  OBVIOUS
<1>1. Fed = {} /\ 1..sessions = {}
  BY DEF PreviewInit, Fed
<1>2. HoldsPort /\ Aimed
  BY DEF PreviewInit, HoldsPort, Aimed, SessionIds
<1>3. QED
  BY <1>1, <1>2 DEF PreviewInit, Lease!LeaseInit, Feeding

\* The preview implements the lease of its listeners, of which an FFmpeg is a part
\* until it is killed, whoever replaces, blocks, restarts or loses its session,
\* until an FFmpeg is started late.
THEOREM PreviewImplementsLease == PreviewSpec => ListenersLeased
<1>1. PreviewInit => LeaseInv
  BY PreviewInitInv, ListenersFree DEF LeaseInv
<1>2. LeaseInv /\ [PreviewNext]_previewVars => LeaseInv'
  BY PreviewNextInv, HoldsPortStays, AimedStays DEF LeaseInv
<1>3. LeaseInv /\ [PreviewNext]_previewVars => [Lease!LeaseNext \/ strayed']_(Lease!leaseVars)
  BY ListenerStep
<1>4. QED
  BY <1>1, <1>2, <1>3, ListenersFree, PTL DEF PreviewSpec, ListenersLeased
=============================================================================
