------------------------------- MODULE SignIn -------------------------------
(***************************************************************************)
(* Signing in and staying signed in: sessions (services/sessions.py), the  *)
(* gate in front of every page and the dependency behind it (auth_gate in  *)
(* main.py, services/auth.py), the password form and the passkey ceremony  *)
(* with the attempts they share (routers/auth_routes.py, webauthn.py,      *)
(* services/rate_limit.py, webauthn_service.py), and the first run, which  *)
(* ends in a session (SetupClaim).                                         *)
(*                                                                         *)
(* Time is the age of things, in units of what the smallest of the limits  *)
(* is counted in, and stops counting where nothing more depends on it.     *)
(***************************************************************************)
EXTENDS SetupClaim, Sequences

CONSTANTS
  Tokens,        \* bound: the sessions there may be
  Requests,      \* page loads under way
  Tabs,          \* pages that hold a passkey ceremony
  IdleDays, AbsoluteDays,
  CookieDays,    \* SESSION_COOKIE_MAX_AGE
  MaxAttempts, Window,
  Ttl,           \* CHALLENGE_TTL
  Uses           \* which of the three parts of the run a behaviour takes

NoToken == "no token"
NoTab == "no tab"

ASSUME LimitAssumption ==
  /\ NoToken \notin Tokens /\ NoTab \notin Tabs
  /\ IdleDays \in Nat /\ AbsoluteDays \in Nat /\ CookieDays \in Nat
  /\ MaxAttempts \in Nat \ {0} /\ Window \in Nat /\ Ttl \in Nat

VARIABLES
  use,       \* "setup", "pages" or "tabs": what this behaviour exercises
  sessions,  \* sessions[t]: [age, idle], for the sessions in the table
  cookie,    \* what the browser sends: [token, age, seen]
  busy,      \* another connection has held the write lock for too long
  page,      \* page[q]: where a page load is, and with which token
  hits,      \* the ages of the attempts the limiter counts
  taken,     \* the ages of the attempts that were let through (history)
  pending,   \* _PENDING for the user's key: [tab, age]
  accepted   \* accepted[tab]: how often the answer to its challenge counted (history)

sessionVars == <<sessions, cookie, busy, page>>
attemptVars == <<hits, taken, pending, accepted>>
vars == <<use, claimVars, sessionVars, attemptVars>>

Older(age, limit) == IF age > limit THEN age ELSE age + 1
NoCookie == [token |-> NoToken, age |-> 0, seen |-> 0]
NoChallenge == [tab |-> NoTab, age |-> 0]
Off == [at |-> "off", token |-> NoToken]

----------------------------------------------------------------------------
(* Sessions.                                                                *)

Fresh == [age |-> 0, idle |-> 0]
Free(t) == t \in Tokens \ DOMAIN sessions
Put(t, row) == [u \in DOMAIN sessions \cup {t} |-> IF u = t THEN row ELSE sessions[u]]
Dropped(t) == [u \in DOMAIN sessions \ {t} |-> sessions[u]]
Dead(row) == row.age > AbsoluteDays \/ row.idle > IdleDays
Live(t) == t \in DOMAIN sessions /\ ~Dead(sessions[t])

\* What a hit writes: when the session was last seen.
Touched(row) == [row EXCEPT !.idle = 0]

\* create_session and attach_session_cookie.
StartSession(t) ==
  /\ ~busy
  /\ sessions' = Put(t, Fresh)
  /\ cookie' = [token |-> t, age |-> 0, seen |-> 0]

\* lookup_session: what it finds, and what it leaves in the table.  A touch
\* that cannot be written is given up, the session is not.
Found(t) == Live(t)
AfterLookup(t) ==
  IF t \notin DOMAIN sessions \/ busy THEN sessions
  ELSE IF Dead(sessions[t]) THEN Dropped(t)
  ELSE Put(t, IF sessions[t].idle > 0 THEN Touched(sessions[t]) ELSE sessions[t])

OpenPage(q) ==
  /\ page[q] = Off
  /\ page' = [page EXCEPT ![q] = [at |-> "gate", token |-> cookie.token]]
  /\ cookie' = [cookie EXCEPT !.seen = 0]
  /\ UNCHANGED <<claimVars, sessions, busy, attemptVars>>

\* auth_gate: to /setup while there is no user, to /login without a session.
Gate(q) ==
  LET t == page[q].token IN
  /\ page[q].at = "gate"
  /\ IF users = {} THEN page' = [page EXCEPT ![q] = Off] /\ UNCHANGED sessions
     ELSE /\ sessions' = AfterLookup(t)
          /\ page' = [page EXCEPT ![q] = IF Found(t) THEN [@ EXCEPT !.at = "route"] ELSE Off]
  /\ UNCHANGED <<claimVars, cookie, busy, attemptVars>>

\* get_current_user looks the session up once more.
Route(q) ==
  LET t == page[q].token IN
  /\ page[q].at = "route"
  /\ sessions' = AfterLookup(t)
  /\ page' = [page EXCEPT ![q] = Off]
  /\ UNCHANGED <<claimVars, cookie, busy, attemptVars>>

\* revoke_session, on /logout and after a change of the password.
SignOut ==
  /\ cookie.token # NoToken /\ ~busy
  /\ sessions' = Dropped(cookie.token)
  /\ cookie' = NoCookie
  /\ UNCHANGED <<claimVars, busy, page, attemptVars>>

\* An import, say, takes the write lock for longer than others wait, and
\* gives it back.
BusyChanges ==
  /\ busy' = ~busy
  /\ UNCHANGED <<claimVars, sessions, cookie, page, attemptVars>>

----------------------------------------------------------------------------
(* Attempts.  The password form and both halves of the passkey ceremony     *)
(* count against one budget.                                                *)

Inside(age) == age <= Window

\* The attempts before the first one inside the window leave on the left.
FirstInside(s) ==
  CHOOSE n \in 1 .. Len(s) + 1 :
    /\ n <= Len(s) => Inside(s[n])
    /\ \A i \in 1 .. n - 1 : ~ Inside(s[i])
Recent(s) == SubSeq(s, FirstInside(s), Len(s))

\* Mistake: the attempt that fills the window is let through as well.
HitLate(s) ==
  LET r == Recent(s) IN
  IF Len(r) > MaxAttempts THEN [ok |-> FALSE, left |-> r]
  ELSE [ok |-> TRUE, left |-> Append(r, 0)]

\* Mistake: an attempt that is turned away starts the window anew.
HitRenews(s) ==
  LET r == Recent(s) IN
  IF Len(r) >= MaxAttempts THEN [ok |-> FALSE, left |-> [i \in DOMAIN r |-> 0]]
  ELSE [ok |-> TRUE, left |-> Append(r, 0)]

\* RateLimiter.hit
Hit(s) ==
  LET r == Recent(s) IN
  IF Len(r) >= MaxAttempts THEN [ok |-> FALSE, left |-> r]
  ELSE [ok |-> TRUE, left |-> Append(r, 0)]

Try(ok) ==
  LET h == Hit(hits) IN
  /\ hits' = h.left
  /\ taken' = IF h.ok THEN Append(Recent(taken), 0) ELSE taken
  /\ h.ok = ok

TurnedAway == Try(FALSE) /\ UNCHANGED <<claimVars, sessionVars, pending, accepted>>

\* login_submit: with a wrong password, or with the right one.
SignInByPassword ==
  /\ users # {}
  /\ Try(TRUE)
  /\ \/ UNCHANGED <<sessions, cookie>>
     \/ \E t \in Tokens : Free(t) /\ StartSession(t)
  /\ UNCHANGED <<claimVars, busy, page, pending, accepted>>

\* begin_authentication: a newer challenge takes the place of an older one.
AskForChallenge(tab) ==
  /\ Try(TRUE)
  /\ pending' = [tab |-> tab, age |-> 0]
  /\ accepted' = [accepted EXCEPT ![tab] = 0]
  /\ UNCHANGED <<claimVars, sessionVars>>

\* Mistake: the challenge is read and stays.
LeftOfPending == IF pending.age > Ttl THEN NoChallenge ELSE pending

\* _pop: whatever comes of the answer, the challenge is gone.
AfterPop == NoChallenge

Answers(tab) == pending.tab = tab /\ pending.age <= Ttl

\* login/verify.  The same answer may be sent again; one that does not fit
\* uses the challenge up, and so does a database that is busy.
AnswerChallenge(tab) ==
  /\ users # {}
  /\ Try(TRUE)
  /\ pending' = AfterPop
  /\ IF Answers(tab) /\ ~busy
     THEN /\ accepted' = [accepted EXCEPT ![tab] = IF @ > 1 THEN @ ELSE @ + 1]
          /\ \/ \E t \in Tokens : Free(t) /\ StartSession(t)
             \/ Tokens = DOMAIN sessions /\ UNCHANGED <<sessions, cookie>>
     ELSE UNCHANGED <<accepted, sessions, cookie>>
  /\ UNCHANGED <<claimVars, busy, page>>

----------------------------------------------------------------------------
(* The first run ends in a session; without one the user signs in.          *)
FirstSession(s) ==
  /\ step[s] = "signin"
  /\ Goes(s, "done")
  /\ \/ \E t \in Tokens : Free(t) /\ StartSession(t)
     \/ busy /\ UNCHANGED <<sessions, cookie>>
  /\ UNCHANGED <<users, owner, file, backups, writer, work, counted, busy, page, attemptVars>>

\* A restart forgets attempts, challenges and page loads; the table stays.
Restart ==
  /\ RestartSetups
  /\ hits' = << >> /\ taken' = << >> /\ pending' = NoChallenge
  /\ page' = [q \in Requests |-> Off] /\ busy' = FALSE
  /\ UNCHANGED <<sessions, cookie, accepted>>

\* Time passes; the browser drops a cookie that has reached its age.
Tick ==
  /\ sessions' = [t \in DOMAIN sessions |->
                    [age |-> Older(sessions[t].age, AbsoluteDays),
                     idle |-> Older(sessions[t].idle, IdleDays)]]
  /\ cookie' = IF cookie.token # NoToken /\ cookie.age >= CookieDays THEN NoCookie
               ELSE [cookie EXCEPT !.age = Older(@, CookieDays), !.seen = Older(@, IdleDays)]
  /\ hits' = [i \in DOMAIN hits |-> Older(hits[i], Window)]
  /\ taken' = [i \in DOMAIN Recent(taken) |-> Older(Recent(taken)[i], Window)]
  /\ pending' = IF pending.age > Ttl THEN NoChallenge ELSE [pending EXCEPT !.age = Older(@, Ttl)]
  /\ UNCHANGED <<claimVars, busy, page, accepted>>

Init ==
  /\ use \in Uses
  /\ IF use = "setup" THEN ClaimInit ELSE \E s \in Setups : ClaimedInit(s)
  /\ sessions = [t \in {} |-> Fresh] /\ cookie = NoCookie /\ busy = FALSE
  /\ page = [q \in Requests |-> Off]
  /\ hits = << >> /\ taken = << >> /\ pending = NoChallenge
  /\ accepted = [tab \in Tabs |-> 0]

ClaimStep ==
  /\ \/ \E s \in Setups : SetupStep(s)
     \/ Checkpoint \/ ClearCategories
  /\ UNCHANGED <<sessionVars, attemptVars>>

Pages ==
  \/ \E q \in Requests : OpenPage(q) \/ Gate(q) \/ Route(q)
  \/ SignOut

Ceremonies == \E tab \in Tabs : AskForChallenge(tab) \/ AnswerChallenge(tab)

Next ==
  /\ \/ use = "setup" /\ (ClaimStep \/ \E s \in Setups : FirstSession(s))
     \/ use \in {"setup", "pages"} /\ Pages
     \/ use # "setup" /\ (TurnedAway \/ SignInByPassword)
     \/ use = "tabs" /\ Ceremonies
     \/ BusyChanges \/ Restart \/ Tick
  /\ UNCHANGED use

\* Time passes, whatever anybody does.
Spec == Init /\ [][Next]_vars /\ WF_vars(Tick /\ UNCHANGED use)

----------------------------------------------------------------------------
(* No more than MaxAttempts attempts are let through within a window,       *)
(* however password and passkey attempts mix with what is turned away.      *)
AttemptsBounded == Cardinality({ i \in DOMAIN taken : Inside(taken[i]) }) <= MaxAttempts

(* The shapes of sessions, cookie and attempts, and that limit.             *)
TypeOK ==
  /\ ClaimTypeOK
  /\ DOMAIN sessions \subseteq Tokens
  /\ \A t \in DOMAIN sessions : /\ sessions[t].age \in 0 .. AbsoluteDays + 1
                                /\ sessions[t].idle \in 0 .. IdleDays + 1
  /\ cookie.token \in Tokens \cup {NoToken}
  /\ hits \in Seq(0 .. Window + 1) /\ Len(hits) <= MaxAttempts /\ AttemptsBounded

(* The answer to a challenge counts once, however often it is sent.         *)
AnswerOnce == \A tab \in Tabs : accepted[tab] <= 1

(* Whoever is turned away may try again some time, even who keeps trying.   *)
LockoutEnds == Len(Recent(hits)) >= MaxAttempts ~> Len(Recent(hits)) < MaxAttempts

(* Who visits often enough stays signed in up to the absolute deadline:     *)
(* the browser still has the cookie of a live session.  sessions.py:7.      *)
VisitorStaysSignedIn ==
  [][~SignOut /\ cookie.token # NoToken /\ Live(cookie.token) /\ cookie.seen <= IdleDays
       => cookie'.token # NoToken]_cookie

(* A session that is over leaves the table.                                 *)
TableIsCleared == \A t \in Tokens : t \in DOMAIN sessions ~> t \notin DOMAIN sessions
=============================================================================
