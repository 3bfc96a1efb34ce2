----------------------------- MODULE OAuthToken -----------------------------
(***************************************************************************)
(* internal/youtube/oauth.go: the Google login and what is kept of it -    *)
(* the token in memory, its file, and the cached HTTP client, which is     *)
(* bound to the token it was built from.  A token is the consent it came   *)
(* from and the consent whose channel name it shows; access tokens and     *)
(* their expiry are a refresh that may happen at any request.  Callers are *)
(* API calls, VerifyAuth and the consent callback, all through HTTPClient. *)
(***************************************************************************)
EXTENDS Naturals

CONSTANTS
  Tasks,        \* goroutines that use Auth
  MaxConsents,  \* bound: codes Google accepts
  MaxFlows,     \* bound: consent pages opened
  MaxReboots    \* bound: crashes

ASSUME OAuthAssumption == {MaxConsents, MaxFlows, MaxReboots} \subseteq Nat

VARIABLES
  token,       \* a.token: [who, name], who 0 when nil
  tokenFile,   \* what loadToken would read
  client,      \* the consent a.client is bound to, or 0
  state,       \* a.state, or 0
  flows,       \* consent pages opened
  consents,    \* codes exchanged
  reboots,
  task,        \* task[t]: the job t has, its step, where saveToken returns to, the
               \* consent its client is bound to, the token saveToken has in hand
  removing,    \* Logout has cleared the memory and not removed the file
  login,       \* history: the consent the operator last gave and did not withdraw, or 0
  unsaved,     \* history: writing or removing the file failed, and it is of another login
  overlapped   \* history: a login or logout met a request under way

oauthVars == <<token, tokenFile, client, state, flows, consents, reboots, task, removing, login, unsaved, overlapped>>

NoToken == [who |-> 0, name |-> 0]
IdleTask == [job |-> "none", step |-> "idle", after |-> "none", source |-> 0, copy |-> NoToken]

OAuthInit ==
  /\ token = NoToken /\ tokenFile = NoToken /\ client = 0
  /\ state = 0 /\ flows = 0 /\ consents = 0 /\ reboots = 0
  /\ task = [t \in Tasks |-> IdleTask]
  /\ removing = FALSE /\ login = 0 /\ unsaved = FALSE /\ overlapped = FALSE

At(t, point) == task[t].step = point

GoesTo(t, point) ==
  task' = [task EXCEPT ![t] = IF point = "idle" THEN IdleTask ELSE [@ EXCEPT !.step = point]]

\* saveToken, and then point
Saves(t, point) == task' = [task EXCEPT ![t].step = "save", ![t].after = point]

\* What is left of a job once the request failed: Exchange still saves.
Ends(t) == IF task[t].job = "login" THEN Saves(t, "idle") ELSE GoesTo(t, "idle")

InRequest(t) == task[t].step \notin {"idle", "code"}
-----------------------------------------------------------------------------
(* Login *)

AuthURL ==
  /\ flows < MaxFlows
  /\ flows' = flows + 1 /\ state' = flows + 1
  /\ UNCHANGED <<token, tokenFile, client, consents, reboots, task, removing, login, unsaved, overlapped>>

\* The callback of a page opened earlier is turned away.
Exchange(t) ==
  /\ At(t, "idle") /\ state # 0
  /\ task' = [task EXCEPT ![t].job = "login", ![t].step = "code"]
  /\ UNCHANGED <<token, tokenFile, client, state, flows, consents, reboots, removing, login, unsaved, overlapped>>

CodeRefused(t) ==
  /\ At(t, "code")
  /\ GoesTo(t, "idle")
  /\ UNCHANGED <<token, tokenFile, client, state, flows, consents, reboots, removing, login, unsaved, overlapped>>

Accepts(t) ==
  /\ At(t, "code") /\ consents < MaxConsents
  /\ consents' = consents + 1
  /\ token' = [who |-> consents + 1, name |-> 0]
  /\ state' = 0
  /\ login' = consents + 1
  /\ overlapped' = (overlapped \/ removing \/ \E u \in Tasks : InRequest(u))
  /\ GoesTo(t, "client")
  /\ UNCHANGED <<tokenFile, flows, reboots, removing, unsaved>>

CodeAcceptedKeepsClient(t) == Accepts(t) /\ UNCHANGED client

\* The new token drops the client bound to the old one.
CodeAccepted(t) == Accepts(t) /\ client' = 0
-----------------------------------------------------------------------------
(* Requests: HTTPClient, the refreshing token source, fetchChannelInfo *)

Call(t) ==
  /\ At(t, "idle")
  /\ \E j \in {"call", "verify"} : task' = [task EXCEPT ![t].job = j, ![t].step = "client"]
  /\ UNCHANGED <<token, tokenFile, client, state, flows, consents, reboots, removing, login, unsaved, overlapped>>

HTTPClient(t) ==
  /\ At(t, "client")
  /\ \/ /\ token.who = 0
        /\ Ends(t)
     \/ /\ token.who # 0 /\ client # 0
        /\ task' = [task EXCEPT ![t].source = client, ![t].step = "request"]
     \/ /\ token.who # 0 /\ client = 0
        /\ task' = [task EXCEPT ![t].source = token.who, ![t].step = "build"]
  /\ UNCHANGED <<token, tokenFile, client, state, flows, consents, reboots, removing, login, unsaved, overlapped>>

Build(t) ==
  /\ At(t, "build")
  /\ client' = task[t].source
  /\ GoesTo(t, "request")
  /\ UNCHANGED <<token, tokenFile, state, flows, consents, reboots, removing, login, unsaved, overlapped>>

\* persistTokenSource.Token: a token other than the one in memory (refreshed,
\* or of another login) replaces it and inherits its channel name.
Token(t) ==
  /\ At(t, "request")
  /\ \/ /\ token' = [token EXCEPT !.who = task[t].source]
        /\ Saves(t, "answer")
     \/ /\ token.who = task[t].source
        /\ GoesTo(t, "answer")
        /\ UNCHANGED token
  /\ UNCHANGED <<tokenFile, client, state, flows, consents, reboots, removing, login, unsaved, overlapped>>

\* No network, a revoked token, an answer other than 200.
RequestFails(t) ==
  /\ At(t, "request") \/ At(t, "answer")
  /\ Ends(t)
  /\ UNCHANGED <<token, tokenFile, client, state, flows, consents, reboots, removing, login, unsaved, overlapped>>

\* fetchChannelInfo names the channel in place and saves.
Answer(t) ==
  /\ At(t, "answer")
  /\ IF task[t].job = "call"
     THEN GoesTo(t, "idle") /\ UNCHANGED token
     ELSE /\ token' = IF token.who = 0 THEN token ELSE [token EXCEPT !.name = task[t].source]
          /\ Saves(t, IF task[t].job = "login" THEN "again" ELSE "idle")
  /\ UNCHANGED <<tokenFile, client, state, flows, consents, reboots, removing, login, unsaved, overlapped>>

\* Exchange saves once more.
SaveAgain(t) ==
  /\ At(t, "again")
  /\ Saves(t, "idle")
  /\ UNCHANGED <<token, tokenFile, client, state, flows, consents, reboots, removing, login, unsaved, overlapped>>

\* The disk is full or the file not ours: the callers log that at most and go on,
\* but for the last step of Exchange, which tells the operator.
FileFails ==
  /\ unsaved' = (tokenFile.who # login)
  /\ UNCHANGED tokenFile

\* saveToken takes the pointer under the lock ...
SaveToken(t) ==
  /\ At(t, "save")
  /\ IF token.who = 0
     THEN GoesTo(t, task[t].after)
     ELSE task' = [task EXCEPT ![t].copy = token, ![t].step = "write"]
  /\ UNCHANGED <<token, tokenFile, client, state, flows, consents, reboots, removing, login, unsaved, overlapped>>

\* ... and encodes without it, so that a name set meanwhile may be in or not.
WriteToken(t) ==
  /\ At(t, "write")
  /\ \/ /\ tokenFile' \in {task[t].copy} \cup {u \in {token} : u.who = task[t].copy.who}
        /\ unsaved' = FALSE
     \/ FileFails
  /\ task' = [task EXCEPT ![t] = IF @.after = "idle" THEN IdleTask
                                 ELSE [@ EXCEPT !.step = task[t].after, !.copy = NoToken]]
  /\ UNCHANGED <<token, client, state, flows, consents, reboots, removing, login, overlapped>>
-----------------------------------------------------------------------------
(* Logout and restart *)

Logout ==
  /\ ~removing
  /\ token' = NoToken /\ client' = 0
  /\ removing' = TRUE /\ login' = 0
  /\ overlapped' = (overlapped \/ \E t \in Tasks : InRequest(t))
  /\ UNCHANGED <<tokenFile, state, flows, consents, reboots, task, unsaved>>

RemoveFile ==
  /\ removing
  /\ removing' = FALSE
  /\ \/ tokenFile' = NoToken /\ unsaved' = FALSE
     \/ FileFails
  /\ UNCHANGED <<token, client, state, flows, consents, reboots, task, login, overlapped>>

\* The next process knows what the file says, and so does the operator.
Reboot ==
  /\ reboots < MaxReboots
  /\ reboots' = reboots + 1
  /\ token' = tokenFile /\ client' = 0 /\ state' = 0
  /\ task' = [t \in Tasks |-> IdleTask]
  /\ removing' = FALSE /\ login' = tokenFile.who /\ unsaved' = FALSE
  /\ UNCHANGED <<tokenFile, flows, consents, overlapped>>
-----------------------------------------------------------------------------
OAuthNext ==
  \/ AuthURL \/ Logout \/ RemoveFile \/ Reboot
  \/ \E t \in Tasks :
       \/ Exchange(t) \/ CodeRefused(t) \/ CodeAccepted(t)
       \/ Call(t) \/ HTTPClient(t) \/ Build(t) \/ Token(t) \/ RequestFails(t) \/ Answer(t)
       \/ SaveAgain(t) \/ SaveToken(t) \/ WriteToken(t)

Consents == 0..MaxConsents
SomeTokens == [who: Consents, name: Consents]
Steps == {"idle", "code", "client", "build", "request", "answer", "again", "save", "write"}

OAuthSpec == OAuthInit /\ [][OAuthNext]_oauthVars

\* Every variable has its type.
OAuthTypeOK ==
  /\ {token, tokenFile} \subseteq SomeTokens
  /\ {client, consents, login} \subseteq Consents
  /\ {state, flows} \subseteq 0..MaxFlows /\ reboots \in 0..MaxReboots
  /\ task \in [Tasks -> [job: {"none", "call", "verify", "login"}, step: Steps,
                         after: {"none", "idle", "answer", "again"}, source: Consents, copy: SomeTokens]]
  /\ {removing, unsaved, overlapped} \subseteq BOOLEAN

\* Once every request is over, the operator's last login is the one in memory
\* and the one the cached client speaks for, the channel shown is its own, and
\* after a logout there is none; a restart would load the same.  Requests that
\* run side by side may write the file in any order and lose none of this.
\* Excused: a request under way when the operator logs in or out brings its own
\* token back, and what a restart loads when the file could not be written or
\* removed, until a later write succeeds.
LoginIsLatest ==
  (\A t \in Tasks : At(t, "idle")) /\ ~removing /\ ~overlapped =>
    /\ token.who = login /\ client \in {0, login}
    /\ token.name \in {0, login}
    /\ tokenFile.who = login \/ unsaved
    /\ tokenFile.name \in {0, tokenFile.who}
=============================================================================
