------------------------------- MODULE Session -------------------------------
(***************************************************************************)
(* The browser session of frontend/src: the stored tokens and cached       *)
(* profile (lib/auth/session.ts), the request layer with its single-flight *)
(* refresh (lib/api/client.ts) and the provider that shows a user          *)
(* (lib/auth/auth-context.tsx), over the cookie that the login, refresh    *)
(* and logout routes keep (app/api/v1/auth).                               *)
(*                                                                         *)
(* A token, a cookie and a profile are the user they belong to.  Every     *)
(* asynchronous function is a process split at its awaits; the server      *)
(* answers a request any time later, or fails it, and may refuse a token   *)
(* at any time.  All waiters of one refresh resume with its answer: their  *)
(* continuations run before the browser handles anything else.             *)
(***************************************************************************)
EXTENDS Naturals, FiniteSets

CONSTANTS Users, None,
          MaxAttempts,    \* attempts tryRefresh makes (four in the code)
          MaxReloads      \* bound: times the page is reloaded

ASSUME SessionAssumption ==
    None \notin Users /\ MaxAttempts \in Nat \ {0} /\ MaxReloads \in Nat

\* mount: the effect of AuthProvider; call: any call a screen makes, among
\* them refreshUser.
Procs == {"mount", "login", "logout", "call"}

VARIABLES
    cookie,        \* dmh_refresh, the HttpOnly cookie
    access,        \* the access token, both copies
    refreshToken,  \* the refresh token in localStorage
    cachedMe,      \* the cached /me profile
    status, user,  \* what AuthProvider shows
    pc,            \* per process: the await it is at
    tok,           \* per process: the token its request carries
    attempt,       \* attempts tryRefresh has made
    shown,         \* what the mount effect found: "nothing", so the spinner
                   \* stays, "profile", or only the "profile without a token"
    refreshing,    \* refreshPromise: the cookie it was sent with
    reloads,
    old, crossed   \* history: requests of an earlier session, and whether
                   \* the answer to one of them was ever used

vars == <<cookie, access, refreshToken, cachedMe, status, user, pc, tok,
          attempt, shown, refreshing, reloads, old, crossed>>

storage == <<access, refreshToken, cachedMe>>
screen == <<status, user>>
history == <<old, crossed>>

Idle == "idle"
NotSent == [on |-> FALSE, cookie |-> None]
Waiting == {"trying", "await"}          \* awaiting refreshPromise
InFlight == {"sent", "resent", "post"} \union Waiting

TypeOK ==
    /\ {cookie, access, refreshToken, cachedMe, user} \subseteq Users \union {None}
    /\ status \in {"loading", "authenticated", "unauthenticated"}
    /\ pc \in [Procs -> InFlight \union {Idle, "start", "backoff"}]
    /\ tok \in [Procs -> Users \union {None}]
    /\ attempt \in 0 .. MaxAttempts - 1
    /\ refreshing \in [on : BOOLEAN, cookie : Users \union {None}]
    /\ shown \in {"nothing", "profile", "profile without a token"}
    /\ crossed \in BOOLEAN
    /\ reloads \in 0 .. MaxReloads
    /\ old \subseteq Procs \union {"refresh"}

Init ==
    /\ cookie \in Users \union {None}
    /\ refreshToken = cookie
    /\ access \in {cookie, None}
    /\ cachedMe \in {cookie, None}
    /\ status = "loading" /\ user = None
    /\ pc = [p \in Procs |-> IF p = "mount" THEN "start" ELSE Idle]
    /\ tok = [p \in Procs |-> None]
    /\ attempt = 0 /\ shown = "nothing"
    /\ refreshing = NotSent
    /\ reloads = 0
    /\ old = {} /\ crossed = FALSE

(***************************************************************************)
(* Storage and the shown session.                                          *)
(***************************************************************************)

clearSession == access' = None /\ refreshToken' = None /\ cachedMe' = None

\* The provider shows a signed-in user, or nobody.
applySession(u) == status' = "authenticated" /\ user' = u
\* Faulty variant: the spinner or the page stays.
SignedOutUserOnly == user' = None /\ UNCHANGED status

SignedOut == status' = "unauthenticated" /\ user' = None

\* The handler of dmh:auth-expired.
handleAuthExpired == clearSession /\ SignedOut

\* History: every request in flight but those answered now belongs to the
\* session that ends.
SessionEnds(answered) ==
    old' = ({p \in Procs : pc[p] \in InFlight \union {"backoff"}}
             \union (IF refreshing.on THEN {"refresh"} ELSE {}))
             \ answered

(***************************************************************************)
(* The refresh: refreshAccessToken and app/api/v1/auth/refresh.            *)
(***************************************************************************)

\* refreshAccessToken: joined when one is in flight, sent otherwise.
JoinRefresh ==
    refreshing' = IF refreshing.on THEN refreshing
                  ELSE [on |-> TRUE, cookie |-> cookie]

\* Faulty variant: one attempt too many.
LastAttemptOff == MaxAttempts

\* The attempts of tryRefresh, counted from zero.
LastAttempt == MaxAttempts - 1

\* Callers whose request was refused and who wait to send it again.
Failing == {p \in Procs : pc[p] = "await"}

\* The mount effect has no attempt left, or its /me was refused.
GivesUp ==
    pc["mount"] = "await" \/ (pc["mount"] = "trying" /\ attempt = LastAttempt)

\* Where a waiter goes on: its request is sent again, or fails with the 401
\* it had; the mount effect asks for /me, waits for its next attempt, or ends.
AfterRefresh(p, ok) ==
    CASE pc[p] = "await"  -> IF ok THEN "resent" ELSE Idle
      [] pc[p] = "trying" -> IF ok THEN "sent"
                             ELSE IF GivesUp THEN Idle ELSE "backoff"
      [] OTHER            -> pc[p]

\* The refresh in flight is answered and every waiter continues.
WaitersContinue(ok) ==
    /\ refreshing.on /\ refreshing' = NotSent
    /\ pc' = [p \in Procs |-> AfterRefresh(p, ok)]
    /\ tok' = [p \in Procs |-> IF pc[p] \notin Waiting THEN tok[p]
                              ELSE IF ok THEN refreshing.cookie ELSE None]
    /\ attempt' = IF pc["mount"] # "trying" THEN attempt
                  ELSE IF ok \/ GivesUp THEN 0 ELSE attempt + 1
    /\ shown' = IF ~ok /\ GivesUp THEN "nothing" ELSE shown
    /\ UNCHANGED reloads

\* History: callers that returned are of no session any more.
RefreshOver(ok) ==
    old' = old \ ({"refresh"} \union {p \in Procs : AfterRefresh(p, ok) = Idle})

\* The route answers 401 without a cookie; the body and the header that the
\* client also sends are not read.
RefreshSucceeds ==
    /\ refreshing.cookie # None
    /\ WaitersContinue(TRUE)
    /\ cookie' = refreshing.cookie
    /\ access' = refreshing.cookie /\ refreshToken' = refreshing.cookie
    /\ crossed' = (crossed \/ \E p \in old : p = "refresh" \/ pc[p] \in Waiting)
    /\ RefreshOver(TRUE)
    /\ UNCHANGED <<cachedMe, screen>>

\* wasRefreshRejectedByServer: a caller with a 401 ends the session.
RefreshRejected ==
    /\ Failing # {}
    /\ WaitersContinue(FALSE)
    /\ handleAuthExpired
    /\ SessionEnds({"refresh"} \union Failing)
    /\ UNCHANGED <<cookie, crossed>>

\* The server was not reached, or nobody but the mount effect was told: only
\* that effect signs out, when it gives up with nothing on screen.
RefreshFails ==
    /\ WaitersContinue(FALSE)
    /\ IF GivesUp /\ shown = "nothing"
       THEN /\ status' = "unauthenticated"
            /\ user' = IF pc["mount"] = "trying" THEN None ELSE user
       ELSE UNCHANGED screen
    /\ RefreshOver(FALSE)
    /\ UNCHANGED <<cookie, storage, crossed>>

RefreshAnswered == RefreshSucceeds \/ RefreshRejected \/ RefreshFails

(***************************************************************************)
(* The mount effect.                                                       *)
(***************************************************************************)

Send(p, t) == pc' = [pc EXCEPT ![p] = "sent"] /\ tok' = [tok EXCEPT ![p] = t]

\* A cached profile is shown at once and checked in the background; without
\* one the spinner stays until the session is restored.
Mount ==
    /\ pc["mount"] = "start"
    /\ shown' = IF cachedMe = None THEN "nothing"
                ELSE IF access # None THEN "profile" ELSE "profile without a token"
    /\ attempt' = 0
    /\ IF cachedMe # None THEN applySession(cachedMe) ELSE UNCHANGED screen
    /\ IF cachedMe # None /\ access # None
       THEN Send("mount", access) /\ UNCHANGED refreshing
       ELSE /\ pc' = [pc EXCEPT !["mount"] = "trying"]
            /\ JoinRefresh /\ UNCHANGED tok
    /\ UNCHANGED <<cookie, storage, reloads, history>>

\* The delay of tryRefresh is over: the next attempt.
Backoff ==
    /\ pc["mount"] = "backoff"
    /\ pc' = [pc EXCEPT !["mount"] = "trying"]
    /\ JoinRefresh
    /\ UNCHANGED <<cookie, storage, screen, tok, attempt, shown, reloads,
                   history>>

(***************************************************************************)
(* Answers to requests that carry an access token (apiFetch, apiUpload).   *)
(***************************************************************************)

\* The function that waited for the answer returns.
Done(p) ==
    /\ pc' = [pc EXCEPT ![p] = Idle] /\ tok' = [tok EXCEPT ![p] = None]
    /\ shown' = IF p = "mount" THEN "nothing" ELSE shown

\* 200: mount, login and refreshUser asked for /me, and cache and show the
\* profile; any other call of a screen leaves the session alone.
Answered(p) ==
    /\ pc[p] \in {"sent", "resent"} /\ tok[p] # None
    /\ Done(p)
    /\ \/ applySession(tok[p]) /\ cachedMe' = tok[p] /\ crossed' = (crossed \/ p \in old)
       \/ p = "call" /\ UNCHANGED <<screen, cachedMe, crossed>>
    /\ old' = old \ {p}
    /\ UNCHANGED <<cookie, access, refreshToken, attempt, refreshing, reloads>>

\* 401 on the first try: wait for the refresh, unless this is the retry.
Unauthorized(p) ==
    /\ pc[p] = "sent"
    /\ pc' = [pc EXCEPT ![p] = "await"]
    /\ JoinRefresh
    /\ UNCHANGED <<cookie, storage, screen, tok, attempt, shown, reloads,
                   history>>

\* Any other failure is thrown to the caller: the mount effect without a
\* cached profile shows the sign-in page, everybody else changes nothing.
Failed(p) ==
    /\ pc[p] \in {"sent", "resent"}
    /\ Done(p)
    /\ IF p = "mount" /\ shown = "nothing" THEN status' = "unauthenticated" /\ UNCHANGED user
                                ELSE UNCHANGED screen
    /\ old' = old \ {p}
    /\ UNCHANGED <<cookie, storage, attempt, refreshing, reloads, crossed>>

\* account_disabled: the mount effect ends the session, except where it
\* shows a profile and had to refresh first.
Disabled(p) ==
    /\ pc[p] \in {"sent", "resent"} /\ tok[p] # None
    /\ Done(p)
    /\ IF p = "mount" /\ shown # "profile without a token"
       THEN clearSession /\ SignedOut /\ SessionEnds({p})
       ELSE UNCHANGED <<storage, screen>> /\ old' = old \ {p}
    /\ UNCHANGED <<cookie, attempt, refreshing, reloads, crossed>>

(***************************************************************************)
(* Sign-in, sign-out, calls of the screens.                                *)
(***************************************************************************)

\* login: everything of the previous session is cleared, then the request.
Login(u) ==
    /\ status # "authenticated" /\ pc["login"] = Idle /\ pc["mount"] # "start"
    /\ clearSession
    /\ pc' = [pc EXCEPT !["login"] = "post"]
    /\ tok' = [tok EXCEPT !["login"] = u]
    /\ SessionEnds({})
    /\ UNCHANGED <<cookie, screen, attempt, shown, refreshing, reloads, crossed>>

\* Faulty variant: the route passes the tokens on without keeping the cookie.
LoginAnsweredBody ==
    /\ pc["login"] = "post"
    /\ access' = tok["login"] /\ refreshToken' = tok["login"]
    /\ pc' = [pc EXCEPT !["login"] = "sent"]
    /\ old' = old \ {"login"}
    /\ UNCHANGED <<cookie, cachedMe, screen, tok, attempt, shown, refreshing,
                   reloads, crossed>>

\* The login route passes the answer on and keeps the cookie of a success.
LoginAnswered ==
    /\ pc["login"] = "post"
    /\ \/ /\ cookie' = tok["login"]
          /\ access' = tok["login"] /\ refreshToken' = tok["login"]
          /\ pc' = [pc EXCEPT !["login"] = "sent"]
          /\ UNCHANGED <<tok, shown>>
       \/ /\ Done("login")
          /\ UNCHANGED <<cookie, access, refreshToken>>
    /\ old' = old \ {"login"}
    /\ UNCHANGED <<cachedMe, screen, attempt, refreshing, reloads, crossed>>

Logout ==
    /\ status = "authenticated" /\ pc["logout"] = Idle
    /\ pc' = [pc EXCEPT !["logout"] = "post"]
    /\ UNCHANGED <<cookie, storage, screen, tok, attempt, shown, refreshing,
                   reloads, history>>

\* logout clears everything whatever the answer; the route deletes the
\* cookie when it was reached.
LogoutAnswered ==
    /\ pc["logout"] = "post"
    /\ cookie' \in {None, cookie}
    /\ Done("logout")
    /\ clearSession /\ SignedOut
    /\ SessionEnds({"logout"})
    /\ UNCHANGED <<attempt, refreshing, reloads, crossed>>

\* A screen's call, or refreshUser: the stored token goes out with it.
Call ==
    /\ pc["call"] = Idle /\ status = "authenticated"
    /\ Send("call", access)
    /\ UNCHANGED <<cookie, storage, screen, attempt, shown, refreshing, reloads,
                   history>>

\* The page is loaded again: what was in flight is forgotten, storage stays.
Reload ==
    /\ reloads < MaxReloads
    /\ reloads' = reloads + 1
    /\ status' = "loading" /\ user' = None
    /\ pc' = [p \in Procs |-> IF p = "mount" THEN "start" ELSE Idle]
    /\ tok' = [p \in Procs |-> None]
    /\ attempt' = 0 /\ shown' = "nothing"
    /\ refreshing' = NotSent
    /\ old' = {}
    /\ UNCHANGED <<cookie, storage, crossed>>

\* The browser drops the cookie (expired, or cleared by a policy).
CookieCleared ==
    /\ cookie # None /\ cookie' = None
    /\ UNCHANGED <<storage, screen, pc, tok, attempt, shown, refreshing, reloads,
                   history>>

Response(p) == Answered(p) \/ Unauthorized(p) \/ Failed(p) \/ Disabled(p)

Next ==
    \/ Mount \/ Backoff \/ RefreshAnswered
    \/ \E p \in Procs : Response(p)
    \/ \E u \in Users : Login(u)
    \/ LoginAnswered \/ Logout \/ LogoutAnswered
    \/ Call \/ Reload \/ CookieCleared

\* The mount effect runs, its timers fire, and fetch settles its requests.
MountStep == Mount \/ Backoff \/ Response("mount")

Fairness == WF_vars(MountStep) /\ WF_vars(RefreshAnswered)

Spec == Init /\ [][Next]_vars /\ Fairness

(***************************************************************************)
(* Properties.                                                             *)
(***************************************************************************)

\* As long as no answer of an ended session was used, the user on screen is
\* the one whose token the next request carries and whose profile a reload
\* shows: login, logout and the expiry handler leave nothing of the previous
\* session behind (auth-context.tsx:86, 226, 251).
ShownUserOwnsSession ==
    ~crossed /\ status = "authenticated" =>
        /\ user # None
        /\ access \in {user, None}
        /\ cachedMe \in {user, None}

\* The start-up spinner ends: the mount effect reaches a signed-in or a
\* signed-out state after finitely many attempts (auth-context.tsx:117-220).
SpinnerEnds == status = "loading" ~> status # "loading"
=============================================================================
