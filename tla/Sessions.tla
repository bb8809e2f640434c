------------------------------- MODULE Sessions -------------------------------
(***************************************************************************)
(* One session of the web (sessions.service.ts): its refresh token is rotated   *)
(* at each refresh, a token presented again within ten seconds gets the answer  *)
(* already given, later it is taken for a copy and the session is revoked        *)
(* (D-13).  Its tabs share one cookie (web session-cookies.ts, proxy.ts,         *)
(* lib/server/refresh.ts), and pages refresh without the tabs' lock.  And the    *)
(* "Voir comme le vendeur" views opened from it (impersonation.service.ts).     *)
(*                                                                          *)
(* A tick is a third of the grace; a refresh is on its way for one at most each  *)
(* way, unless MaxLate lets it be late.                                      *)
(***************************************************************************)
EXTENDS Integers, FiniteSets

CONSTANTS Tabs, Views,
          MaxTokens,   \* bound: rotations
          MaxNow,      \* bound
          MaxFaults,   \* bound: answers lost, restarts, requests late
          None

GRACE       == 3 \* refreshGraceSeconds
FRESH       == 4 \* an access token lasts longer than the grace
VIEW_LASTS  == 3 \* impersonationTtlSeconds

Tokens  == 0..MaxTokens
REASONS == {"DECONNEXION", "INACTIVITE", "REGENERATION_MOT_DE_PASSE", "DESACTIVATION"}

\* A rotation in the window, a refresh of a tab on its way or served, and answered.
Rotation == [until: Nat, result: Tokens \cup {None}]
Refresh  == [step: {"SENT", "FIND", "ROTATE", "WAIT", "SHARED"}, since: Nat, token: Tokens]
Answered == [step: {"ANSWER"}, since: Nat, token: Tokens, gets: Tokens \cup {None}]

\* ended, at: why and when; audits is history: how often its end was recorded.
View == [expires: 0..(MaxNow + VIEW_LASTS), ended: {"NO", "SORTIE", "EXPIRATION", "SESSION_REVOQUEE"},
         at: 0..(MaxNow + VIEW_LASTS), audits: 0..2]

\* What the module assumes of its constants.
SessionsAssumption ==
  /\ {MaxTokens, MaxNow, MaxFaults} \subseteq Nat
  /\ None \notin Nat /\ None \notin Rotation /\ None \notin Refresh /\ None \notin Answered
  /\ None \notin View /\ None \notin REASONS \cup {"REUTILISATION"}

VARIABLES
  now,
  row,    \* refresh_tokens: the token, the one before, why it was revoked
  issued, \* tokens drawn so far
  recent, \* recentRotations: by token, until when and its result, None while under way
  jar,    \* the browser's cookies: the token, until when its access token is fresh
  call,   \* a refresh of a tab
  view,   \* impersonation_sessions, None when not started
  ending, \* the endings under way: their reason and the views they found open
  faults

vars == <<now, row, issued, recent, jar, call, view, ending, faults>>

TypeOK ==
  /\ now \in 0..MaxNow /\ row.token \in Tokens /\ row.previous \in Tokens \cup {None}
  /\ row.revoked \in REASONS \cup {None, "REUTILISATION"} /\ issued \in Tokens
  /\ recent \in [Tokens -> Rotation \cup {None}]
  /\ jar.token \in Tokens \cup {None} /\ faults \in 0..MaxFaults
  /\ view \in [Views -> View \cup {None}]
  /\ call \in [Tabs -> Refresh \cup Answered \cup {None}]

Init ==
  /\ now = 0 /\ row = [token |-> 0, previous |-> None, revoked |-> None] /\ issued = 0
  /\ recent = [t \in Tokens |-> None] /\ jar = [token |-> 0, freshTo |-> 0]
  /\ call = [t \in Tabs |-> None] /\ view = [v \in Views |-> None]
  /\ ending = {} /\ faults = 0

sessionVars == <<row, issued, recent, jar, call>>
viewVars    == <<view, ending>>

At(t, step) == call[t] # None /\ call[t].step = step
Fault == faults < MaxFaults /\ faults' = faults + 1

\* Late: on its way there, or back, for a tick already.
Late(t) == call[t] # None /\ call[t].since < now

\* A request being served takes no time beside its way there and back.
Served(t) == call[t] # None /\ call[t].step \notin {"SENT", "ANSWER"}

Tick ==
  /\ now < MaxNow /\ now' = now + 1 /\ {t \in Tabs : Served(t) \/ Late(t)} = {}
  /\ UNCHANGED <<sessionVars, viewVars, faults>>

TickLate ==
  /\ now < MaxNow /\ now' = now + 1 /\ {t \in Tabs : Late(t)} # {} /\ Fault
  /\ UNCHANGED <<sessionVars, viewVars>>

-----------------------------------------------------------------------------
(* A refresh *)

\* planSession: a page or a call of a tab whose access token is about to expire.
Send(t) ==
  /\ call[t] = None /\ jar.token # None /\ now >= jar.freshTo
  /\ call' = [call EXCEPT ![t] = [step |-> "SENT", since |-> now, token |-> jar.token]]
  /\ UNCHANGED <<now, row, issued, recent, jar, viewVars, faults>>

Answer(t, what) ==
  call' = [call EXCEPT ![t] = [step |-> "ANSWER", since |-> now, token |-> call[t].token, gets |-> what]]

\* Mutant of Shares: only a result already there is shared.
SharesDone(token) ==
  recent[token] # None /\ recent[token].until > now /\ recent[token].result # None

\* A refresh of that token, begun or done, in its ten seconds.
Shares(token) == recent[token] # None /\ recent[token].until > now

\* Registered under its token before the first await, or sharing the one there.
Arrive(t) ==
  LET token == call[t].token IN
  /\ At(t, "SENT")
  /\ IF Shares(token) THEN recent' = recent /\ call' = [call EXCEPT ![t].step = "WAIT"]
     ELSE /\ recent' = [recent EXCEPT ![token] = [until |-> now + GRACE, result |-> None]]
          /\ call' = [call EXCEPT ![t].step = "FIND"]
  /\ UNCHANGED <<now, row, issued, jar, viewVars, faults>>

\* A failed attempt is not a rotation: forgotten, whoever shares it fails too.
FailAll(token, t) ==
  /\ recent' = [recent EXCEPT ![token] = None]
  /\ call' = [u \in Tabs |->
       IF u = t \/ (call[u] # None /\ call[u].token = token /\ call[u].step = "WAIT")
       THEN [step |-> "ANSWER", since |-> now, token |-> token, gets |-> None] ELSE call[u]]

(* findForRefresh: the session of the token; one already rotated is a copy, and   *)
(* the session is revoked with its views.                                    *)
Find(t) ==
  LET token == call[t].token  replayed == row.previous = token /\ row.token # token IN
  /\ At(t, "FIND")
  /\ IF row.token = token /\ row.revoked = None
     THEN call' = [call EXCEPT ![t].step = "ROTATE"] /\ UNCHANGED <<row, recent, ending>>
     ELSE /\ FailAll(token, t)
          /\ IF replayed /\ row.revoked = None
             THEN row' = [row EXCEPT !.revoked = "REUTILISATION"]
             ELSE UNCHANGED row
          /\ UNCHANGED ending
  /\ UNCHANGED <<now, issued, jar, view, faults>>

\* Mutant of CanRotate: the session is not read again.
CanRotateRead(token) == row.token = token

\* rotate writes on the old token and an open session only.
CanRotate(token) == row.token = token /\ row.revoked = None

Rotate(t) ==
  LET token == call[t].token IN
  /\ At(t, "ROTATE")
  /\ IF CanRotate(token)
     THEN /\ issued < MaxTokens /\ issued' = issued + 1
          /\ row' = [row EXCEPT !.token = issued + 1, !.previous = token]
          /\ recent' = [recent EXCEPT ![token].result = IF recent[token] = None THEN @ ELSE issued + 1]
          /\ call' = [u \in Tabs |->
               IF u = t THEN [step |-> "ANSWER", since |-> now, token |-> token, gets |-> issued + 1]
               ELSE IF call[u] # None /\ call[u].token = token /\ call[u].step = "WAIT"
               THEN [call[u] EXCEPT !.step = "SHARED"] ELSE call[u]]
     ELSE FailAll(token, t) /\ UNCHANGED <<row, issued>>
  /\ UNCHANGED <<now, jar, viewVars, faults>>

\* Served from the window while the session is still open.
Share(t) ==
  LET kept == recent[call[t].token] IN
  /\ At(t, "SHARED") \/ (At(t, "WAIT") /\ kept # None /\ kept.result # None)
  /\ Answer(t, IF row.revoked # None \/ kept = None THEN None ELSE kept.result)
  /\ UNCHANGED <<now, row, issued, recent, jar, viewVars, faults>>

\* The cookies are replaced, or cleared when it was refused.
Receive(t) ==
  /\ At(t, "ANSWER") /\ call' = [call EXCEPT ![t] = None]
  /\ jar' = [token |-> call[t].gets, freshTo |-> now + FRESH]
  /\ UNCHANGED <<now, row, issued, recent, viewVars, faults>>

LoseAnswer(t) ==
  /\ At(t, "ANSWER") /\ Fault /\ call' = [call EXCEPT ![t] = None]
  /\ UNCHANGED <<now, row, issued, recent, jar, viewVars>>

\* The server starts again: the window is lost, and what it was serving.
Restart ==
  /\ Fault /\ recent' = [t \in Tokens |-> None]
  /\ call' = [t \in Tabs |-> IF At(t, "ANSWER") \/ At(t, "SENT") THEN call[t] ELSE None]
  /\ ending' = {}
  /\ UNCHANGED <<now, row, issued, jar, view>>

-----------------------------------------------------------------------------
(* The end of the session, and the views opened from it *)

Open == {v \in Views : view[v] # None /\ view[v].ended = "NO"}

\* A view lasts its thirty minutes; the admin is signed in when he asks for it.
Start(v) ==
  /\ view[v] = None /\ row.revoked = None
  /\ view' = [view EXCEPT ![v] = [expires |-> now + VIEW_LASTS, ended |-> "NO", at |-> 0, audits |-> 0]]
  /\ UNCHANGED <<now, sessionVars, ending, faults>>

\* endImpersonations reads the open views first: exit, the job of every minute, revoke.
FindOpen(reason, found) ==
  /\ found # {} /\ ending' = ending \cup {[reason |-> reason, found |-> found]}
  /\ UNCHANGED <<now, issued, recent, jar, call, view, faults>>

Exit(v) == v \in Open /\ now < view[v].expires /\ FindOpen("SORTIE", {v}) /\ UNCHANGED row
EndExpired == FindOpen("EXPIRATION", {v \in Open : view[v].expires <= now}) /\ UNCHANGED row

\* A copy found revokes the session in its own transaction, then its views are ended.
EndViews == row.revoked # None /\ FindOpen("SESSION_REVOQUEE", Open) /\ UNCHANGED row

\* Logout, thirty idle minutes of staff, a new password, a deactivation.
Revoke(reason) ==
  /\ row.revoked = None /\ row' = [row EXCEPT !.revoked = reason]
  /\ UNCHANGED <<now, issued, recent, jar, call, viewVars, faults>>

\* Mutant of StillOpen: the view is written as it was found.
StillOpenFound(v) == TRUE

\* The update is conditional on the view still being open.
StillOpen(v) == view[v].ended = "NO"

\* One view ended and its end recorded; an expired one ended when its time ran out.
EndView(e, v) ==
  /\ e \in ending /\ v \in e.found
  /\ view' = IF StillOpen(v)
             THEN [view EXCEPT ![v] =
                    [expires |-> view[v].expires, ended |-> e.reason,
                     at |-> IF e.reason = "EXPIRATION" THEN view[v].expires ELSE now,
                     audits |-> IF view[v].audits < 2 THEN view[v].audits + 1 ELSE 2]]
             ELSE view
  /\ ending' = (ending \ {e}) \cup (IF e.found = {v} THEN {} ELSE {[e EXCEPT !.found = @ \ {v}]})
  /\ UNCHANGED <<now, sessionVars, faults>>

-----------------------------------------------------------------------------
Refreshing(t) ==
  Send(t) \/ Arrive(t) \/ Find(t) \/ Rotate(t) \/ Share(t) \/ Receive(t) \/ LoseAnswer(t)

Next ==
  \/ Tick \/ TickLate \/ Restart \/ EndExpired \/ EndViews
  \/ \E t \in Tabs : Refreshing(t)
  \/ \E v \in Views : Start(v) \/ Exit(v)
  \/ \E reason \in REASONS : Revoke(reason)
  \/ \E e \in ending : \E v \in e.found : EndView(e, v)

Spec == Init /\ [][Next]_vars

-----------------------------------------------------------------------------
(* Properties *)

(* "Two tabs refreshing at once do not log the user out" (D-13): however their    *)
(* refreshes and answers cross, no token of the browser is taken for a copy.     *)
(* Not so after one fault: an answer lost, a restart or a late request.          *)
NotTakenForACopy == faults = 0 => row.revoked # "REUTILISATION"

(* While the session is open its cookies are never cleared by a refused refresh.  *)
StaysSignedIn == faults = 0 /\ row.revoked = None => jar.token # None

(* A revoked session is not rotated, whatever had been read of it.               *)
StaysRevoked   == row.revoked # None => row' = row
RevokedIsFinal == [][StaysRevoked]_vars

(* Each view is ended and its end recorded once, exit, expiry and revocation      *)
(* found at the same time; by its expiry at the time it ran out.               *)
EndedOnce ==
  \A v \in Views : view[v] # None =>
    /\ view[v].audits = (IF view[v].ended = "NO" THEN 0 ELSE 1)
    /\ view[v].ended = "EXPIRATION" => view[v].at = view[v].expires

-----------------------------------------------------------------------------
(* The inductive invariant of NotTakenForACopy and StaysSignedIn: what holds of    *)
(* an open session while nothing failed                                       *)

UnderWay == {t \in Tabs : call[t] # None}
Drawing  == {t \in UnderWay : call[t].step \in {"FIND", "ROTATE"}}
Replaced == {t \in UnderWay : call[t].token = issued - 1}
Current  == {t \in UnderWay : call[t].token = issued}

SessionTypes ==
  /\ now \in Nat /\ issued \in Tokens
  /\ row \in [token: {issued}, previous: Tokens \cup {None}, revoked: {None}]
  /\ recent \in [Tokens -> Rotation \cup {None}]
  /\ jar \in [token: Tokens, freshTo: Nat]
  /\ call \in [Tabs -> Refresh \cup Answered \cup {None}]

(* The window holds the last rotation, and the one under way, begun this instant, for *)
(* one refresh alone.                                                        *)
WindowInv ==
  /\ issued # 0 => recent[issued - 1] # None /\ recent[issued - 1].result = issued
  /\ \A token \in Tokens : recent[token] # None => token <= issued /\ recent[token].until <= now + GRACE
  /\ recent[issued] # None =>
       recent[issued].result = None /\ recent[issued].until = now + GRACE /\ Drawing # {}
  /\ Drawing # {} => recent[issued] # None
  /\ \A t, u \in Drawing : t = u

(* A refresh of the token before the last gets the last, in time to be in the      *)
(* window; none is left when the last is presented.                            *)
RefreshInv ==
  /\ UnderWay = Replaced \cup Current /\ \A t \in UnderWay : call[t].since \in {now - 1, now}
  /\ \A t \in Replaced :
       /\ call[t].step \notin {"FIND", "ROTATE"}
       /\ IF call[t].step = "ANSWER"
          THEN call[t].gets = issued /\ call[t].since + 1 <= recent[issued - 1].until
          ELSE call[t].since + 2 <= recent[issued - 1].until
  /\ \A t \in Current : call[t].step \notin {"SHARED", "ANSWER"}
  /\ Current # {} => Replaced = {} /\ jar.token = issued

(* The browser has the last token, long enough not to present it while the one      *)
(* before is on its way; or the first answer to bring it is less than a tick late. *)
JarInv ==
  \/ jar.token = issued /\ (issued # 0 => jar.freshTo > recent[issued - 1].until)
  \/ /\ issued # 0 /\ jar.token = issued - 1
     /\ \E t \in Replaced : call[t].step = "ANSWER" /\ call[t].since + GRACE = recent[issued - 1].until

SessionInv ==
  /\ faults \in Nat
  /\ faults = 0 => row.revoked # "REUTILISATION"
  /\ faults = 0 /\ row.revoked = None => SessionTypes /\ WindowInv /\ RefreshInv /\ JarInv

(* And of EndedOnce. *)
ViewInv ==
  /\ now \in 0..MaxNow /\ EndedOnce /\ view \in [Views -> View \cup {None}]
  /\ ending \subseteq [reason: {"SORTIE", "EXPIRATION", "SESSION_REVOQUEE"}, found: SUBSET Views]
  /\ \A e \in ending, v \in Views : v \in e.found => view[v] # None
=============================================================================
