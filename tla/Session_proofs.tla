--------------------------- MODULE Session_proofs ----------------------------
(***************************************************************************)
(* Proofs about Session: types, and that whoever is shown owns the tokens  *)
(* and the profile that are kept, for any number of users, attempts and    *)
(* reloads.                                                                *)
(***************************************************************************)
EXTENDS Session, TLAPS

\* The answer of the refresh in flight would be used by an ended session.
Stale == "refresh" \in old \/ \E p \in Procs \intersect old : pc[p] \in Waiting

\* Everything that may still come to be shown or stored is u's.
Owned(u) ==
    /\ {cookie, access, cachedMe} \subseteq {u, None}
    /\ status = "authenticated" => user = u /\ u # None
    /\ \A p \in Procs \ old : pc[p] \in {"sent", "resent"} => tok[p] \in {u, None}
    /\ refreshing.on => Stale \/ refreshing.cookie \in {u, None}

\* While a sign-in is posted nothing else of a living session is under way:
\* its answer may hand all of the browser to another user.
LoginAlone ==
    pc["login"] = "post" =>
        /\ pc["mount"] # "start" /\ cachedMe = None /\ status # "authenticated"
        /\ \A p \in Procs \ old : p # "login" => pc[p] = Idle
        /\ refreshing.on => Stale

OneOwner == ~crossed => LoginAlone /\ \E u \in Users \union {None} : Owned(u)

\* Only the mount effect is ever about to start.
OnlyMountStarts == \A p \in Procs : pc[p] = "start" => p = "mount"

IInv == TypeOK /\ OnlyMountStarts /\ OneOwner

-----------------------------------------------------------------------------
(* Types *)

LEMMA FirstAttempt == 0 \in 0 .. MaxAttempts - 1 /\ 0 \in 0 .. MaxReloads
    BY SessionAssumption

LEMMA NextAttempt ==
    ASSUME attempt \in 0 .. MaxAttempts - 1, attempt # LastAttempt
    PROVE  attempt + 1 \in 0 .. MaxAttempts - 1
    BY SessionAssumption DEF LastAttempt

LEMMA Kept ==
    ASSUME TypeOK
    PROVE  /\ cookie \in Users \union {None} /\ access \in Users \union {None}
           /\ \A p \in Procs : tok[p] \in Users \union {None}
           /\ reloads \in 0 .. MaxReloads
    BY DEF TypeOK

LEMMA NextReload ==
    ASSUME reloads \in 0 .. MaxReloads, reloads < MaxReloads
    PROVE  reloads + 1 \in 0 .. MaxReloads
    BY SessionAssumption

LEMMA InitType == Init => TypeOK
<1> SUFFICES ASSUME Init PROVE TypeOK
    OBVIOUS
<1>1. pc \in [Procs -> InFlight \union {Idle, "start", "backoff"}]
    BY DEF Init
<1>2. refreshing \in [on : BOOLEAN, cookie : Users \union {None}]
    BY DEF Init, NotSent
<1> QED
    BY <1>1, <1>2, FirstAttempt DEF Init, TypeOK

LEMMA JoinRefreshType ==
    ASSUME TypeOK, JoinRefresh
    PROVE  refreshing' \in [on : BOOLEAN, cookie : Users \union {None}]
    BY DEF TypeOK, JoinRefresh

LEMMA SessionEndsType ==
    ASSUME TypeOK, NEW S, SessionEnds(S)
    PROVE  old' \subseteq Procs \union {"refresh"}
    BY DEF TypeOK, SessionEnds

LEMMA ContinueType ==
    ASSUME TypeOK, NEW ok \in BOOLEAN, WaitersContinue(ok)
    PROVE  /\ pc' \in [Procs -> InFlight \union {Idle, "start", "backoff"}]
           /\ tok' \in [Procs -> Users \union {None}]
           /\ attempt' \in 0 .. MaxAttempts - 1
           /\ refreshing' \in [on : BOOLEAN, cookie : Users \union {None}]
           /\ shown' \in {"nothing", "profile", "profile without a token"}
           /\ reloads' \in 0 .. MaxReloads
<1>1. ASSUME NEW p \in Procs
      PROVE  AfterRefresh(p, ok) \in InFlight \union {Idle, "start", "backoff"}
    BY <1>1 DEF TypeOK, AfterRefresh, InFlight, Waiting, Idle
<1>2. pc' \in [Procs -> InFlight \union {Idle, "start", "backoff"}]
    BY <1>1 DEF WaitersContinue
<1>3. tok' \in [Procs -> Users \union {None}]
    BY DEF WaitersContinue, TypeOK
<1>4. attempt' \in 0 .. MaxAttempts - 1
  <2>1. attempt \in 0 .. MaxAttempts - 1
      BY DEF TypeOK
  <2>2. attempt' \in {attempt, 0} \/ (attempt # LastAttempt /\ attempt' = attempt + 1)
      BY DEF WaitersContinue, GivesUp
  <2> QED
      BY <2>1, <2>2, FirstAttempt, NextAttempt
<1>5. refreshing' \in [on : BOOLEAN, cookie : Users \union {None}]
    BY DEF WaitersContinue, NotSent
<1>6. shown' \in {"nothing", "profile", "profile without a token"}
    BY DEF WaitersContinue, TypeOK
<1>7. reloads' \in 0 .. MaxReloads
    BY DEF WaitersContinue, TypeOK
<1> QED
    BY <1>2, <1>3, <1>4, <1>5, <1>6, <1>7

LEMMA DoneType ==
    ASSUME TypeOK, NEW p \in Procs, Done(p)
    PROVE  /\ pc' \in [Procs -> InFlight \union {Idle, "start", "backoff"}]
           /\ tok' \in [Procs -> Users \union {None}]
           /\ shown' \in {"nothing", "profile", "profile without a token"}
    BY DEF TypeOK, Done

LEMMA NextType == ASSUME TypeOK, [Next]_vars PROVE TypeOK'
<1>1. CASE Mount
  <2>1. pc' \in [Procs -> InFlight \union {Idle, "start", "backoff"}]
    <3>1. \E at \in {"sent", "trying"} : pc' = [pc EXCEPT !["mount"] = at]
        BY <1>1 DEF Mount, Send
    <3> QED
        BY <3>1 DEF TypeOK, InFlight, Waiting
  <2>2. tok' \in [Procs -> Users \union {None}]
    <3>1. access \in Users \union {None} /\ tok \in [Procs -> Users \union {None}]
        BY Kept DEF TypeOK
    <3>2. tok' = tok \/ tok' = [tok EXCEPT !["mount"] = access]
        BY <1>1 DEF Mount, Send
    <3> QED
        BY <3>1, <3>2
  <2>3. refreshing' \in [on : BOOLEAN, cookie : Users \union {None}]
      BY <1>1, JoinRefreshType DEF Mount, TypeOK
  <2>4. /\ {status'} \subseteq {"loading", "authenticated", "unauthenticated"}
        /\ user' \in Users \union {None}
      BY <1>1 DEF Mount, applySession, screen, TypeOK
  <2>5. /\ attempt' \in 0 .. MaxAttempts - 1
        /\ shown' \in {"nothing", "profile", "profile without a token"}
      BY <1>1, FirstAttempt DEF Mount
  <2>6. UNCHANGED <<cookie, storage, reloads, history>>
      BY <1>1 DEF Mount
  <2>7. {cookie', access', refreshToken', cachedMe', user'} \subseteq Users \union {None}
    <3>1. {cookie, access, refreshToken, cachedMe} \subseteq Users \union {None}
        BY DEF TypeOK
    <3> QED
        BY <2>4, <2>6, <3>1 DEF storage
  <2>8. /\ crossed' \in BOOLEAN /\ reloads' \in 0 .. MaxReloads
        /\ old' \subseteq Procs \union {"refresh"}
      BY <2>6 DEF TypeOK, history
  <2> QED
      BY <2>1, <2>2, <2>3, <2>4, <2>5, <2>7, <2>8 DEF TypeOK
<1>2. CASE Backoff
  <2>1. refreshing' \in [on : BOOLEAN, cookie : Users \union {None}]
      BY <1>2, JoinRefreshType DEF Backoff
  <2>2. pc' \in [Procs -> InFlight \union {Idle, "start", "backoff"}]
      BY <1>2 DEF Backoff, TypeOK, InFlight, Waiting
  <2> QED
      BY <1>2, <2>1, <2>2 DEF Backoff, TypeOK, storage, screen, history
<1>3. CASE RefreshSucceeds
  <2>1. /\ WaitersContinue(TRUE)
        /\ {cookie', access', refreshToken'} \subseteq {refreshing.cookie}
        /\ crossed' \in BOOLEAN /\ UNCHANGED <<cachedMe, screen>>
      BY <1>3 DEF RefreshSucceeds, TypeOK
  <2>2. refreshing.cookie \in Users \union {None}
      BY DEF TypeOK
  <2>3. {cookie', access', refreshToken', cachedMe', user'} \subseteq Users \union {None}
      BY <2>1, <2>2 DEF TypeOK, screen
  <2>4. old' \subseteq Procs \union {"refresh"}
      BY <1>3 DEF RefreshSucceeds, RefreshOver, TypeOK
  <2>5. status' \in {"loading", "authenticated", "unauthenticated"}
      BY <2>1 DEF TypeOK, screen
  <2> QED
      BY <2>1, <2>3, <2>4, <2>5, ContinueType DEF TypeOK
<1>4. CASE RefreshRejected
    BY <1>4, ContinueType, SessionEndsType
    DEF RefreshRejected, handleAuthExpired, clearSession, SignedOut, TypeOK
<1>5. CASE RefreshFails
  <2>1. /\ WaitersContinue(FALSE) /\ UNCHANGED <<cookie, storage, crossed>>
        /\ status' \in {status, "unauthenticated"} /\ user' \in {user, None}
        /\ old' \subseteq old
      BY <1>5 DEF RefreshFails, RefreshOver, screen
  <2>2. /\ {cookie', access', refreshToken', cachedMe', user'} \subseteq Users \union {None}
        /\ status' \in {"loading", "authenticated", "unauthenticated"}
        /\ crossed' \in BOOLEAN /\ old' \subseteq Procs \union {"refresh"}
      BY <2>1 DEF TypeOK, storage
  <2> QED
      BY <2>1, <2>2, ContinueType DEF TypeOK
<1>6. ASSUME NEW p \in Procs, Answered(p) PROVE TypeOK'
  <2>1. tok[p] \in Users \union {None}
      BY Kept
  <2>2. /\ status' \in {"loading", "authenticated", "unauthenticated"}
        /\ {user', cachedMe'} \subseteq Users \union {None}
        /\ crossed' \in BOOLEAN
      BY <1>6, <2>1 DEF Answered, applySession, TypeOK, screen
  <2>3. /\ UNCHANGED <<cookie, access, refreshToken, attempt, refreshing, reloads>>
        /\ old' \subseteq old /\ Done(p)
      BY <1>6 DEF Answered
  <2>4. {cookie', access', refreshToken', cachedMe', user'} \subseteq Users \union {None}
    <3>1. {cookie, access, refreshToken} \subseteq Users \union {None}
        BY DEF TypeOK
    <3> QED
        BY <2>2, <2>3, <3>1
  <2>5. /\ attempt' \in 0 .. MaxAttempts - 1 /\ reloads' \in 0 .. MaxReloads
        /\ refreshing' \in [on : BOOLEAN, cookie : Users \union {None}]
        /\ old' \subseteq Procs \union {"refresh"}
      BY <2>3 DEF TypeOK
  <2> QED
      BY <2>2, <2>3, <2>4, <2>5, DoneType DEF TypeOK
<1>7. ASSUME NEW p \in Procs, Unauthorized(p) PROVE TypeOK'
  <2>1. refreshing' \in [on : BOOLEAN, cookie : Users \union {None}]
      BY <1>7, JoinRefreshType DEF Unauthorized
  <2>2. pc' \in [Procs -> InFlight \union {Idle, "start", "backoff"}]
      BY <1>7 DEF Unauthorized, TypeOK, InFlight, Waiting
  <2>3. UNCHANGED <<cookie, storage, screen, tok, attempt, shown, reloads, history>>
      BY <1>7 DEF Unauthorized
  <2> QED
      BY <2>1, <2>2, <2>3 DEF TypeOK, storage, screen, history
<1>8. ASSUME NEW p \in Procs, Failed(p) PROVE TypeOK'
    BY <1>8, DoneType DEF Failed, TypeOK, storage, screen
<1>9. ASSUME NEW p \in Procs, Disabled(p) PROVE TypeOK'
  <2>1. Done(p) /\ UNCHANGED <<cookie, attempt, refreshing, reloads, crossed>>
      BY <1>9 DEF Disabled
  <2>2. /\ access' \in {access, None} /\ refreshToken' \in {refreshToken, None}
        /\ cachedMe' \in {cachedMe, None} /\ user' \in {user, None}
        /\ status' \in {status, "unauthenticated"}
      BY <1>9 DEF Disabled, clearSession, SignedOut, storage, screen
  <2>3. old' \subseteq Procs \union {"refresh"}
      BY <1>9, SessionEndsType DEF Disabled, TypeOK
  <2>4. {cookie', access', refreshToken', cachedMe', user'} \subseteq Users \union {None}
      BY <2>1, <2>2 DEF TypeOK
  <2>5. /\ status' \in {"loading", "authenticated", "unauthenticated"}
        /\ attempt' \in 0 .. MaxAttempts - 1 /\ reloads' \in 0 .. MaxReloads
        /\ refreshing' \in [on : BOOLEAN, cookie : Users \union {None}]
        /\ crossed' \in BOOLEAN
      BY <2>1, <2>2 DEF TypeOK
  <2> QED
      BY <2>1, <2>3, <2>4, <2>5, DoneType DEF TypeOK
<1>10. ASSUME NEW u \in Users, Login(u) PROVE TypeOK'
  <2>1. /\ UNCHANGED <<cookie, screen, attempt, shown, refreshing, reloads, crossed>>
        /\ access' = None /\ refreshToken' = None /\ cachedMe' = None
      BY <1>10 DEF Login, clearSession
  <2>2. /\ pc' \in [Procs -> InFlight \union {Idle, "start", "backoff"}]
        /\ tok' \in [Procs -> Users \union {None}]
      BY <1>10 DEF Login, TypeOK, InFlight
  <2>3. old' \subseteq Procs \union {"refresh"}
      BY <1>10, SessionEndsType DEF Login
  <2> QED
      BY <2>1, <2>2, <2>3 DEF TypeOK, screen
<1>11. CASE LoginAnswered
  <2>1. "login" \in Procs
      BY DEF Procs
  <2>2. /\ pc' \in [Procs -> InFlight \union {Idle, "start", "backoff"}]
        /\ tok' \in [Procs -> Users \union {None}]
        /\ shown' \in {"nothing", "profile", "profile without a token"}
    <3>1. \/ /\ pc' = [pc EXCEPT !["login"] = "sent"] /\ UNCHANGED <<tok, shown>>
          \/ Done("login")
        BY <1>11 DEF LoginAnswered
    <3>2. CASE pc' = [pc EXCEPT !["login"] = "sent"] /\ UNCHANGED <<tok, shown>>
        BY <3>2 DEF TypeOK, InFlight
    <3> QED
        BY <2>1, <3>1, <3>2, DoneType
  <2>3. tok["login"] \in Users \union {None}
      BY <2>1, Kept
  <2>4. {cookie', access', refreshToken', cachedMe', user'} \subseteq Users \union {None}
    <3>1. {cookie, access, refreshToken, cachedMe, user} \subseteq Users \union {None}
        BY DEF TypeOK
    <3>2. /\ cookie' \in {cookie, tok["login"]} /\ access' \in {access, tok["login"]}
          /\ refreshToken' \in {refreshToken, tok["login"]}
          /\ cachedMe' = cachedMe /\ user' = user
        BY <1>11 DEF LoginAnswered, screen
    <3> QED
        BY <2>3, <3>1, <3>2
  <2>5. old' \subseteq Procs \union {"refresh"}
      BY <1>11 DEF LoginAnswered, TypeOK
  <2>6. UNCHANGED <<cachedMe, screen, attempt, refreshing, reloads, crossed>>
      BY <1>11 DEF LoginAnswered
  <2> QED
      BY <2>2, <2>4, <2>5, <2>6 DEF TypeOK, screen
<1>12. CASE Logout
    BY <1>12 DEF Logout, TypeOK, storage, screen, history, InFlight
<1>13. CASE LogoutAnswered
  <2>1. /\ Done("logout") /\ "logout" \in Procs
        /\ UNCHANGED <<attempt, refreshing, reloads, crossed>>
        /\ cookie' \in {None, cookie} /\ access' = None /\ refreshToken' = None
        /\ cachedMe' = None /\ user' = None /\ status' = "unauthenticated"
      BY <1>13 DEF LogoutAnswered, clearSession, SignedOut, Procs
  <2>2. old' \subseteq Procs \union {"refresh"}
      BY <1>13, SessionEndsType DEF LogoutAnswered
  <2> QED
      BY <2>1, <2>2, DoneType DEF TypeOK
<1>14. CASE Call
    BY <1>14 DEF Call, Send, TypeOK, storage, screen, history, InFlight
<1>15. CASE Reload
  <2>1. pc' \in [Procs -> InFlight \union {Idle, "start", "backoff"}]
      BY <1>15 DEF Reload
  <2>2. tok' \in [Procs -> Users \union {None}]
      BY <1>15 DEF Reload
  <2>3. refreshing' \in [on : BOOLEAN, cookie : Users \union {None}]
      BY <1>15 DEF Reload, NotSent
  <2>4. reloads' \in 0 .. MaxReloads
      BY <1>15, Kept, NextReload DEF Reload
  <2>5. {cookie', access', refreshToken', cachedMe', user'} \subseteq Users \union {None}
      BY <1>15 DEF Reload, TypeOK, storage
  <2>6. attempt' \in 0 .. MaxAttempts - 1
      BY <1>15, FirstAttempt DEF Reload
  <2>7. /\ status' \in {"loading", "authenticated", "unauthenticated"}
        /\ shown' \in {"nothing", "profile", "profile without a token"}
        /\ crossed' \in BOOLEAN /\ old' \subseteq Procs \union {"refresh"}
      BY <1>15 DEF Reload, TypeOK
  <2> QED
      BY <2>1, <2>2, <2>3, <2>4, <2>5, <2>6, <2>7 DEF TypeOK
<1>16. CASE CookieCleared
    BY <1>16 DEF CookieCleared, TypeOK, storage, screen, history
<1>17. CASE UNCHANGED vars
    BY <1>17 DEF vars, TypeOK
<1> QED
    BY <1>1, <1>2, <1>3, <1>4, <1>5, <1>6, <1>7, <1>8, <1>9, <1>10, <1>11,
       <1>12, <1>13, <1>14, <1>15, <1>16, <1>17
    DEF Next, RefreshAnswered, Response

-----------------------------------------------------------------------------
(* The invariant *)

LEMMA StaleKept ==
    ASSUME Stale, "refresh" \in old => "refresh" \in old',
           \A p \in Procs \intersect old :
               pc[p] \in Waiting => p \in old' /\ pc'[p] \in Waiting
    PROVE  Stale'
    BY DEF Stale

\* When a session ends, what was in flight is old.
LEMMA EndsLive ==
    ASSUME TypeOK, NEW S, SessionEnds(S)
    PROVE  /\ \A p \in Procs \ old' : p \notin S => pc[p] \in {Idle, "start"}
           /\ refreshing.on /\ "refresh" \notin S => "refresh" \in old'
<1>1. ASSUME NEW p \in Procs \ old', p \notin S PROVE pc[p] \in {Idle, "start"}
  <2>1. pc[p] \in InFlight \union {Idle, "start", "backoff"}
      BY <1>1 DEF TypeOK
  <2> QED
      BY <1>1, <2>1 DEF SessionEnds
<1> QED
    BY <1>1 DEF SessionEnds

LEMMA InitOwner == Init => OnlyMountStarts /\ OneOwner
<1> SUFFICES ASSUME Init PROVE OnlyMountStarts /\ OneOwner
    OBVIOUS
<1>1. Owned(cookie)
    BY DEF Init, Owned, NotSent, Idle, Procs
<1>2. LoginAlone
    BY DEF Init, LoginAlone, Idle, Procs
<1>3. OnlyMountStarts
    BY DEF Init, OnlyMountStarts, Idle
<1> QED
    BY <1>1, <1>2, <1>3 DEF Init, OneOwner

LEMMA NextStarts ==
    ASSUME TypeOK, OnlyMountStarts, [Next]_vars PROVE OnlyMountStarts'
<1> USE DEF TypeOK, OnlyMountStarts, Idle
<1>1. ASSUME NEW ok \in BOOLEAN, WaitersContinue(ok) PROVE OnlyMountStarts'
    BY <1>1 DEF WaitersContinue, AfterRefresh
<1>2. CASE RefreshAnswered
    BY <1>1, <1>2
    DEF RefreshAnswered, RefreshSucceeds, RefreshRejected, RefreshFails
<1>3. CASE Mount \/ Backoff \/ Call
  <2>1. \E q \in Procs, at \in {"sent", "trying"} : pc' = [pc EXCEPT ![q] = at]
      BY <1>3 DEF Mount, Backoff, Call, Send, Procs
  <2> QED
      BY <2>1
<1>4. ASSUME NEW p \in Procs, Response(p) PROVE OnlyMountStarts'
  <2>1. \E at \in {"await", Idle} : pc' = [pc EXCEPT ![p] = at]
      BY <1>4 DEF Response, Answered, Unauthorized, Failed, Disabled, Done
  <2> QED
      BY <2>1
<1>5. ASSUME NEW q \in Procs,
             \E at \in {"post", "sent", Idle} : pc' = [pc EXCEPT ![q] = at]
      PROVE  OnlyMountStarts'
    BY <1>5
<1>6. CASE \/ \E u \in Users : Login(u)
           \/ LoginAnswered \/ Logout \/ LogoutAnswered
  <2>1. \E q \in Procs : \E at \in {"post", "sent", Idle} :
            pc' = [pc EXCEPT ![q] = at]
      BY <1>6 DEF Login, LoginAnswered, Logout, LogoutAnswered, Done, Procs
  <2> QED
      BY <1>5, <2>1
<1>7. CASE Reload
    BY <1>7 DEF Reload
<1>8. CASE CookieCleared \/ UNCHANGED vars
    BY <1>8 DEF CookieCleared, vars
<1> QED
    BY <1>2, <1>3, <1>4, <1>6, <1>7, <1>8 DEF Next

\* The step leaves a session to its owner.
StepOwned(u) == LoginAlone' /\ Owned(u)'

LEMMA MountOwner ==
    ASSUME TypeOK, LoginAlone, NEW u, Owned(u), Mount PROVE StepOwned(u)
<1>0. /\ cookie \in {u, None} /\ access \in {u, None} /\ cachedMe \in {u, None}
      /\ refreshing.on => Stale \/ refreshing.cookie \in {u, None}
    BY DEF Owned
<1>1. pc["login"] # "post" /\ pc'["login"] # "post"
  <2>1. \E at \in {"sent", "trying"} : pc' = [pc EXCEPT !["mount"] = at]
      BY DEF Mount, Send
  <2>2. pc["mount"] = "start" /\ pc["login"] # "post"
      BY DEF Mount, LoginAlone
  <2> QED
      BY <2>1, <2>2 DEF TypeOK, Procs
<1>2. /\ {cookie', access', cachedMe'} \subseteq {u, None}
      /\ status' = "authenticated" => user' = u /\ u # None
    BY DEF Mount, Owned, applySession, screen, storage
<1>3. \A p \in Procs \ old : pc[p] \in {"sent", "resent"} => tok[p] \in {u, None}
    BY DEF Owned
<1>4. pc \in [Procs -> InFlight \union {Idle, "start", "backoff"}] /\ DOMAIN tok = Procs
    BY DEF TypeOK
<1>5. old' = old
    BY DEF Mount, history
<1>6. CASE cachedMe # None /\ access # None
  <2>1. /\ pc' = [pc EXCEPT !["mount"] = "sent"]
        /\ tok' = [tok EXCEPT !["mount"] = access]
        /\ refreshing' = refreshing
      BY <1>6 DEF Mount, Send
  <2>2. ASSUME NEW p \in Procs \ old', pc'[p] \in {"sent", "resent"}
        PROVE  tok'[p] \in {u, None}
      BY <1>0, <1>3, <1>4, <1>5, <2>1, <2>2
  <2>3. ASSUME refreshing'.on PROVE Stale' \/ refreshing'.cookie \in {u, None}
    <3>1. \A p \in Procs \intersect old :
              pc[p] \in Waiting => p \in old' /\ pc'[p] \in Waiting
        BY <1>4, <1>5, <2>1 DEF Mount, Waiting
    <3>2. Stale => Stale'
        BY <1>5, <3>1, StaleKept
    <3> QED
        BY <1>0, <2>1, <2>3, <3>2
  <2> QED
      BY <1>1, <1>2, <2>2, <2>3 DEF StepOwned, LoginAlone, Owned
<1>7. CASE ~(cachedMe # None /\ access # None)
  <2>1. /\ pc' = [pc EXCEPT !["mount"] = "trying"]
        /\ JoinRefresh /\ tok' = tok
      BY <1>7 DEF Mount
  <2>2. ASSUME NEW p \in Procs \ old', pc'[p] \in {"sent", "resent"}
        PROVE  tok'[p] \in {u, None}
      BY <1>3, <1>4, <1>5, <2>1, <2>2
  <2>3. ASSUME refreshing'.on PROVE Stale' \/ refreshing'.cookie \in {u, None}
    <3>1. \A p \in Procs \intersect old :
              pc[p] \in Waiting => p \in old' /\ pc'[p] \in Waiting
        BY <1>4, <1>5, <2>1 DEF Waiting
    <3>2. Stale => Stale'
        BY <1>5, <3>1, StaleKept
    <3> QED
        BY <1>0, <2>1, <2>3, <3>2 DEF JoinRefresh
  <2> QED
      BY <1>1, <1>2, <2>2, <2>3 DEF StepOwned, LoginAlone, Owned
<1> QED
    BY <1>6, <1>7

LEMMA BackoffOwner ==
    ASSUME TypeOK, LoginAlone, NEW u, Owned(u), Backoff PROVE StepOwned(u)
<1>1. Stale => Stale'
  <2>1. \A p \in Procs \intersect old :
            pc[p] \in Waiting => p \in old' /\ pc'[p] \in Waiting
      BY DEF Backoff, TypeOK, Waiting, history
  <2> QED
      BY <2>1, StaleKept DEF Backoff, history
<1>2. LoginAlone'
  <2> SUFFICES ASSUME pc'["login"] = "post" PROVE LoginAlone'
      BY DEF LoginAlone
  <2>1. pc["login"] = "post"
      BY DEF Backoff, TypeOK, Procs
  <2>2. "mount" \in Procs /\ "mount" \in old
      BY <2>1 DEF LoginAlone, Backoff, Idle, Procs
  <2>3. Stale'
      BY <2>2 DEF Stale, Backoff, TypeOK, Waiting, history
  <2> QED
      BY <2>1, <2>2, <2>3
      DEF LoginAlone, Backoff, TypeOK, storage, screen, history
<1>3. ASSUME NEW p \in Procs \ old', pc'[p] \in {"sent", "resent"}
      PROVE  tok'[p] \in {u, None}
    BY <1>3 DEF Backoff, Owned, TypeOK, history
<1>4. ASSUME refreshing'.on PROVE Stale' \/ refreshing'.cookie \in {u, None}
    BY <1>1, <1>4 DEF Backoff, JoinRefresh, Owned
<1> QED
    BY <1>2, <1>3, <1>4 DEF StepOwned, Owned, Backoff, storage, screen

LEMMA SucceedsOwner ==
    ASSUME TypeOK, LoginAlone, NEW u, Owned(u), RefreshSucceeds, ~crossed'
    PROVE  StepOwned(u)
<1>1. refreshing.on /\ refreshing' = NotSent
    BY DEF RefreshSucceeds, WaitersContinue
<1>2. ~Stale
    BY DEF RefreshSucceeds, Stale
<1>3. refreshing.cookie = u /\ u # None
    BY <1>1, <1>2 DEF Owned, RefreshSucceeds
<1>4. pc["login"] # "post" /\ pc'["login"] # "post"
    BY <1>1, <1>2
    DEF LoginAlone, RefreshSucceeds, WaitersContinue, AfterRefresh, Idle, Procs
<1>5. ASSUME NEW p \in Procs \ old', pc'[p] \in {"sent", "resent"}
      PROVE  tok'[p] \in {u, None}
  <2>1. CASE pc[p] \in Waiting
      BY <1>3, <2>1 DEF RefreshSucceeds, WaitersContinue
  <2>2. CASE pc[p] \notin Waiting
    <3>1. pc'[p] = AfterRefresh(p, TRUE) /\ pc'[p] = pc[p]
        BY <2>2 DEF RefreshSucceeds, WaitersContinue, AfterRefresh, Waiting
    <3>2. p \notin old
        BY <1>5, <3>1 DEF RefreshSucceeds, RefreshOver, Idle, Procs
    <3> QED
        BY <1>5, <2>2, <3>1, <3>2 DEF RefreshSucceeds, WaitersContinue, Owned
  <2> QED
      BY <2>1, <2>2
<1>6. status' = "authenticated" => user' = u
    BY DEF RefreshSucceeds, screen, Owned
<1>7. {cookie', access', cachedMe'} \subseteq {u, None}
    BY <1>3 DEF RefreshSucceeds, Owned
<1>8. ~refreshing'.on
    BY <1>1 DEF NotSent
<1> QED
    BY <1>3, <1>4, <1>5, <1>6, <1>7, <1>8 DEF StepOwned, LoginAlone, Owned

LEMMA RejectedOwner ==
    ASSUME TypeOK, OnlyMountStarts, LoginAlone, NEW u, Owned(u), RefreshRejected
    PROVE  StepOwned(u)
<1>1. ~refreshing'.on
    BY DEF RefreshRejected, WaitersContinue, NotSent
<1>2. /\ access' = None /\ cachedMe' = None /\ cookie' = cookie
      /\ status' = "unauthenticated"
    BY DEF RefreshRejected, handleAuthExpired, clearSession, SignedOut
<1>3. ASSUME NEW p \in Procs \ old' PROVE pc'[p] \in {Idle, "start"}
  <2>1. CASE p \in Failing
      BY <2>1 DEF RefreshRejected, WaitersContinue, AfterRefresh, Failing
  <2>2. CASE p \notin Failing
    <3>1. pc[p] \in {Idle, "start"}
        BY <1>3, <2>2, EndsLive DEF RefreshRejected, Procs
    <3> QED
        BY <3>1 DEF RefreshRejected, WaitersContinue, AfterRefresh, Idle
  <2> QED
      BY <2>1, <2>2
<1>4. LoginAlone'
  <2> SUFFICES ASSUME pc'["login"] = "post" PROVE LoginAlone'
      BY DEF LoginAlone
  <2>1. pc["login"] = "post"
      BY DEF RefreshRejected, WaitersContinue, AfterRefresh, Idle, Procs
  <2>2. pc["mount"] # "start"
      BY <2>1 DEF LoginAlone
  <2>3. ASSUME NEW p \in Procs, pc'[p] = "start" PROVE FALSE
      BY <2>2, <2>3
      DEF RefreshRejected, WaitersContinue, AfterRefresh, Idle, OnlyMountStarts
  <2> QED
      BY <1>1, <1>2, <1>3, <2>3 DEF LoginAlone, Procs
<1> QED
    BY <1>1, <1>2, <1>3, <1>4 DEF StepOwned, Owned, Idle

LEMMA FailsOwner ==
    ASSUME TypeOK, LoginAlone, NEW u, Owned(u), RefreshFails
    PROVE  StepOwned(u)
<1>1. ~refreshing'.on
    BY DEF RefreshFails, WaitersContinue, NotSent
<1>2. /\ UNCHANGED <<cookie, access, cachedMe>>
      /\ status' = "authenticated" => status = "authenticated" /\ user' = user
    BY DEF RefreshFails, storage, screen
<1>3. ASSUME NEW p \in Procs \ old', p \in old PROVE pc'[p] = Idle
    BY <1>3 DEF RefreshFails, WaitersContinue, RefreshOver, Procs
<1>4. ASSUME NEW p \in Procs, pc'[p] \notin {Idle, "backoff"}
      PROVE  pc'[p] = pc[p] /\ tok'[p] = tok[p]
    BY <1>4 DEF RefreshFails, WaitersContinue, AfterRefresh, Waiting
<1>5. ASSUME NEW p \in Procs, pc[p] = Idle PROVE pc'[p] = Idle
    BY <1>5 DEF RefreshFails, WaitersContinue, AfterRefresh, Idle
<1>6. LoginAlone'
  <2> SUFFICES ASSUME pc'["login"] = "post" PROVE LoginAlone'
      BY DEF LoginAlone
  <2>1. pc["login"] = "post"
      BY <1>4 DEF Idle, Procs
  <2>2. pc'["mount"] # "start"
      BY <1>4, <2>1 DEF LoginAlone, Idle, Procs
  <2> QED
      BY <1>1, <1>2, <1>3, <1>5, <2>1, <2>2 DEF LoginAlone
<1>7. ASSUME NEW p \in Procs \ old', pc'[p] \in {"sent", "resent"}
      PROVE  tok'[p] \in {u, None}
    BY <1>3, <1>4, <1>7 DEF Owned, Idle
<1> QED
    BY <1>1, <1>2, <1>6, <1>7 DEF StepOwned, Owned

\* The function that waited for the answer of p returns; p was no posted sign-in.
LEMMA DoneOwner ==
    ASSUME TypeOK, LoginAlone, NEW u, Owned(u), NEW p \in Procs,
           pc[p] \in {"sent", "resent"}, Done(p), old' = old \ {p},
           UNCHANGED <<cookie, access, cachedMe, refreshing>>,
           status' = "authenticated" => status = "authenticated" /\ user' = user
    PROVE  StepOwned(u)
<1>1. pc' = [pc EXCEPT ![p] = Idle] /\ tok' = [tok EXCEPT ![p] = None]
    BY DEF Done
<1>2. DOMAIN pc = Procs /\ DOMAIN tok = Procs
    BY DEF TypeOK
<1>3. Stale => Stale'
  <2>1. \A q \in Procs \intersect old :
            pc[q] \in Waiting => q \in old' /\ pc'[q] \in Waiting
      BY <1>1, <1>2 DEF Waiting
  <2> QED
      BY <2>1, StaleKept DEF Procs
<1>4. LoginAlone'
  <2> SUFFICES ASSUME pc'["login"] = "post" PROVE LoginAlone'
      BY DEF LoginAlone
  <2>1. pc["login"] = "post" /\ pc'["mount"] # "start"
      BY <1>1, <1>2 DEF LoginAlone, Idle, Procs
  <2>2. ASSUME NEW q \in Procs \ old', q # "login" PROVE pc'[q] = Idle
      BY <1>1, <1>2, <2>1, <2>2 DEF LoginAlone
  <2> QED
      BY <1>3, <2>1, <2>2 DEF LoginAlone
<1>5. ASSUME NEW q \in Procs \ old', pc'[q] \in {"sent", "resent"}
      PROVE  tok'[q] \in {u, None}
    BY <1>1, <1>2, <1>5 DEF Owned, Idle
<1>6. refreshing'.on => Stale' \/ refreshing'.cookie \in {u, None}
    BY <1>3 DEF Owned
<1>7. /\ {cookie', access', cachedMe'} \subseteq {u, None}
      /\ status' = "authenticated" => user' = u /\ u # None
    BY DEF Owned
<1> QED
    BY <1>4, <1>5, <1>6, <1>7 DEF StepOwned, Owned

LEMMA AnsweredOwner ==
    ASSUME TypeOK, LoginAlone, NEW u, Owned(u), NEW p \in Procs, Answered(p),
           ~crossed'
    PROVE  StepOwned(u)
<1>1. CASE p = "call" /\ UNCHANGED <<screen, cachedMe, crossed>>
    BY <1>1, DoneOwner DEF Answered, screen
<1>2. CASE /\ applySession(tok[p]) /\ cachedMe' = tok[p]
           /\ crossed' = (crossed \/ p \in old)
  <2>1. p \notin old /\ pc[p] \in {"sent", "resent"} /\ tok[p] # None
      BY <1>2 DEF Answered
  <2>2. tok[p] = u /\ u # None
      BY <2>1 DEF Owned
  <2>3. pc' = [pc EXCEPT ![p] = Idle] /\ tok' = [tok EXCEPT ![p] = None]
      BY DEF Answered, Done
  <2>4. DOMAIN pc = Procs /\ DOMAIN tok = Procs
      BY DEF TypeOK
  <2>5. old' = old
      BY <2>1 DEF Answered
  <2>6. pc'["login"] # "post"
      BY <2>1, <2>3, <2>4 DEF LoginAlone, Idle, Procs
  <2>7. ASSUME NEW q \in Procs \ old', pc'[q] \in {"sent", "resent"}
        PROVE  tok'[q] \in {u, None}
      BY <2>3, <2>4, <2>5, <2>7 DEF Owned, Idle
  <2>8. refreshing'.on => Stale' \/ refreshing'.cookie \in {u, None}
    <3>1. \A q \in Procs \intersect old :
              pc[q] \in Waiting => q \in old' /\ pc'[q] \in Waiting
        BY <2>1, <2>3, <2>4, <2>5
    <3>2. Stale => Stale'
        BY <2>5, <3>1, StaleKept
    <3>3. refreshing' = refreshing
        BY DEF Answered
    <3> QED
        BY <3>2, <3>3 DEF Owned
  <2>9. /\ {cookie', access', cachedMe'} \subseteq {u, None}
        /\ user' = u
      BY <1>2, <2>2 DEF Owned, Answered, applySession
  <2> QED
      BY <2>2, <2>6, <2>7, <2>8, <2>9 DEF StepOwned, LoginAlone, Owned
<1> QED
    BY <1>1, <1>2 DEF Answered

LEMMA UnauthorizedOwner ==
    ASSUME TypeOK, LoginAlone, NEW u, Owned(u), NEW p \in Procs, Unauthorized(p)
    PROVE  StepOwned(u)
<1>1. pc' = [pc EXCEPT ![p] = "await"] /\ tok' = tok /\ old' = old
    BY DEF Unauthorized, history
<1>2. DOMAIN pc = Procs /\ pc[p] = "sent"
    BY DEF TypeOK, Unauthorized
<1>3. Stale => Stale'
  <2>1. \A q \in Procs \intersect old :
            pc[q] \in Waiting => q \in old' /\ pc'[q] \in Waiting
      BY <1>1, <1>2 DEF Waiting
  <2> QED
      BY <1>1, <2>1, StaleKept
<1>4. LoginAlone'
  <2> SUFFICES ASSUME pc'["login"] = "post" PROVE LoginAlone'
      BY DEF LoginAlone
  <2>1. pc["login"] = "post" /\ p # "login"
      BY <1>1, <1>2 DEF Procs
  <2>2. p \in old
      BY <1>2, <2>1 DEF LoginAlone, Idle
  <2>3. Stale'
      BY <1>1, <1>2, <2>2 DEF Stale, Waiting
  <2>4. UNCHANGED <<cachedMe, status>>
      BY DEF Unauthorized, storage, screen
  <2>5. ASSUME NEW q \in Procs \ old', q # "login" PROVE pc'[q] = Idle
      BY <1>1, <1>2, <2>1, <2>2, <2>5 DEF LoginAlone
  <2>6. pc'["mount"] # "start"
      BY <1>1, <1>2, <2>1 DEF LoginAlone, Procs
  <2> QED
      BY <2>1, <2>3, <2>4, <2>5, <2>6 DEF LoginAlone
<1>5. ASSUME NEW q \in Procs \ old', pc'[q] \in {"sent", "resent"}
      PROVE  tok'[q] \in {u, None}
    BY <1>1, <1>2, <1>5 DEF Owned
<1>6. ASSUME refreshing'.on PROVE Stale' \/ refreshing'.cookie \in {u, None}
  <2>1. cookie \in {u, None} /\ JoinRefresh
      BY DEF Owned, Unauthorized
  <2> QED
      BY <1>3, <1>6, <2>1 DEF JoinRefresh, Owned
<1>7. UNCHANGED <<cookie, access, cachedMe, status, user>>
    BY DEF Unauthorized, storage, screen
<1> QED
    BY <1>4, <1>5, <1>6, <1>7 DEF StepOwned, Owned

LEMMA FailedOwner ==
    ASSUME TypeOK, LoginAlone, NEW u, Owned(u), NEW p \in Procs, Failed(p)
    PROVE  StepOwned(u)
    BY DoneOwner DEF Failed, storage, screen

\* When the session ends and only S goes on, nobody owns less.
LEMMA EndsOwner ==
    ASSUME TypeOK, OnlyMountStarts, LoginAlone, NEW u, Owned(u), NEW S, SessionEnds(S),
           "refresh" \notin S, access' = None, cachedMe' = None,
           cookie' \in {cookie, None}, status' # "authenticated",
           UNCHANGED refreshing,
           NEW at \in {Idle, "post"}, NEW p \in Procs, pc[p] # "start",
           \A q \in S : q = p,
           pc' = [pc EXCEPT ![p] = at], at = "post" => p = "login" /\ pc["mount"] # "start"
    PROVE  StepOwned(u)
<1>1. DOMAIN pc = Procs
    BY DEF TypeOK
<1>2. ASSUME NEW q \in Procs \ old', pc'[q] \notin {Idle, "post"}
      PROVE  q = "mount" /\ pc'[q] = "start"
  <2>1. q # p /\ q \notin S
      BY <1>1, <1>2
  <2>2. pc[q] \in {Idle, "start"}
      BY <1>2, <2>1, EndsLive
  <2> QED
      BY <1>1, <1>2, <2>1, <2>2 DEF OnlyMountStarts
<1>3. refreshing'.on => Stale'
    BY EndsLive DEF Stale
<1>4. LoginAlone'
  <2> SUFFICES ASSUME pc'["login"] = "post" PROVE LoginAlone'
      BY DEF LoginAlone
  <2>1. pc'["mount"] # "start"
      BY <1>1 DEF LoginAlone, Idle, Procs
  <2>2. ASSUME NEW q \in Procs \ old', q # "login" PROVE pc'[q] = Idle
    <3>1. CASE q = p
        BY <1>1, <2>2, <3>1
    <3>2. CASE q # p
        BY <1>1, <2>1, <2>2, <3>2, EndsLive DEF OnlyMountStarts
    <3> QED
        BY <3>1, <3>2
  <2> QED
      BY <1>3, <2>1, <2>2 DEF LoginAlone
<1>5. \A q \in Procs \ old' : pc'[q] \notin {"sent", "resent"}
    BY <1>2 DEF Idle
<1>6. {cookie', access', cachedMe'} \subseteq {u, None}
    BY DEF Owned
<1> QED
    BY <1>3, <1>4, <1>5, <1>6 DEF StepOwned, Owned

LEMMA DisabledOwner ==
    ASSUME TypeOK, OnlyMountStarts, LoginAlone, NEW u, Owned(u), NEW p \in Procs,
           Disabled(p)
    PROVE  StepOwned(u)
<1>1. CASE p = "mount" /\ shown # "profile without a token"
  <2>1. /\ clearSession /\ SignedOut /\ SessionEnds({p})
        /\ UNCHANGED <<cookie, refreshing>> /\ Done(p) /\ pc[p] # "start"
      BY <1>1 DEF Disabled
  <2>2. /\ pc' = [pc EXCEPT ![p] = Idle] /\ cookie' \in {cookie, None}
        /\ access' = None /\ cachedMe' = None /\ status' # "authenticated"
      BY <2>1 DEF Done, clearSession, SignedOut
  <2> DEFINE S == {p}
  <2>3. SessionEnds(S) /\ "refresh" \notin S /\ \A q \in S : q = p
      BY <1>1, <2>1
  <2> HIDE DEF S
  <2> QED
      BY <1>1, <2>1, <2>2, <2>3, EndsOwner DEF Idle
<1>2. CASE ~(p = "mount" /\ shown # "profile without a token")
    BY <1>2, DoneOwner DEF Disabled, storage, screen
<1> QED
    BY <1>1, <1>2

LEMMA LoginOwner ==
    ASSUME TypeOK, OnlyMountStarts, LoginAlone, NEW u, Owned(u), NEW v \in Users,
           Login(v)
    PROVE  StepOwned(u)
<1>1. /\ SessionEnds({}) /\ UNCHANGED refreshing
      /\ pc' = [pc EXCEPT !["login"] = "post"] /\ cookie' \in {cookie, None}
      /\ access' = None /\ cachedMe' = None /\ status' # "authenticated"
      /\ pc["login"] # "start" /\ pc["mount"] # "start" /\ "login" \in Procs
    BY DEF Login, clearSession, screen, Idle, Procs
<1> DEFINE S == {}
<1>2. SessionEnds(S) /\ "refresh" \notin S /\ \A q \in S : q = "login"
    BY <1>1
<1> HIDE DEF S
<1> QED
    BY <1>1, <1>2, EndsOwner

LEMMA LogoutAnsweredOwner ==
    ASSUME TypeOK, OnlyMountStarts, LoginAlone, NEW u, Owned(u), LogoutAnswered
    PROVE  StepOwned(u)
<1>1. /\ SessionEnds({"logout"}) /\ UNCHANGED refreshing
      /\ pc' = [pc EXCEPT !["logout"] = Idle] /\ cookie' \in {cookie, None}
      /\ access' = None /\ cachedMe' = None /\ status' # "authenticated"
      /\ pc["logout"] # "start" /\ "logout" \in Procs
    BY DEF LogoutAnswered, Done, clearSession, SignedOut, Procs
<1> DEFINE S == {"logout"}
<1>2. SessionEnds(S) /\ "refresh" \notin S /\ \A q \in S : q = "logout"
    BY <1>1
<1> HIDE DEF S
<1> QED
    BY <1>1, <1>2, EndsOwner DEF Idle

\* The one step that may hand the browser to another user.
LEMMA LoginAnsweredOwner ==
    ASSUME TypeOK, LoginAlone, NEW u \in Users \union {None}, Owned(u), LoginAnswered
    PROVE  LoginAlone' /\ \E v \in Users \union {None} : Owned(v)'
<1> DEFINE owner == tok["login"]
<1>1. DOMAIN pc = Procs /\ DOMAIN tok = Procs /\ "login" \in Procs
    BY DEF TypeOK, Procs
<1>2. /\ pc["login"] = "post" /\ old' = old \ {"login"}
      /\ UNCHANGED <<cachedMe, status, user, refreshing>>
    BY DEF LoginAnswered, screen
<1>3. /\ cachedMe = None /\ status # "authenticated"
      /\ \A p \in Procs \ old : p # "login" => pc[p] = Idle
      /\ refreshing.on => Stale
    BY <1>2 DEF LoginAlone
<1>4. PICK at \in {"sent", Idle} : pc' = [pc EXCEPT !["login"] = at]
    BY DEF LoginAnswered, Done
<1>5. refreshing'.on => Stale'
  <2>1. \A q \in Procs \intersect old :
            pc[q] \in Waiting => q \in old' /\ pc'[q] \in Waiting
      BY <1>1, <1>2, <1>4 DEF Waiting
  <2> QED
      BY <1>2, <1>3, <2>1, StaleKept
<1>6. LoginAlone'
    BY <1>1, <1>4 DEF LoginAlone, Idle
<1>7. ASSUME NEW p \in Procs \ old', pc'[p] \in {"sent", "resent"}
      PROVE  p = "login" /\ at = "sent"
    BY <1>1, <1>2, <1>3, <1>4, <1>7 DEF Idle
<1>8. CASE /\ cookie' = owner /\ access' = owner /\ refreshToken' = owner
           /\ UNCHANGED <<tok, shown>>
  <2>1. Owned(owner)'
      BY <1>2, <1>3, <1>5, <1>7, <1>8 DEF Owned
  <2>2. owner' = owner /\ owner \in Users \union {None}
      BY <1>1, <1>8, Kept
  <2> QED
      BY <1>6, <2>1, <2>2
<1>9. CASE Done("login") /\ UNCHANGED <<cookie, access, refreshToken>>
  <2>1. \A p \in Procs \ old' : pc'[p] \notin {"sent", "resent"}
    <3>1. pc'["login"] = Idle
        BY <1>1, <1>9 DEF Done
    <3> QED
        BY <1>7, <3>1 DEF Idle
  <2>2. Owned(u)'
      BY <1>2, <1>3, <1>5, <1>9, <2>1 DEF Owned
  <2> QED
      BY <1>6, <2>2
<1> QED
    BY <1>8, <1>9 DEF LoginAnswered

\* The other steps of the screens, a reload and the end of the cookie.
LEMMA QuietOwner ==
    ASSUME TypeOK, LoginAlone, NEW u, Owned(u),
           Logout \/ Call \/ Reload \/ CookieCleared \/ UNCHANGED vars
    PROVE  StepOwned(u)
<1>1. CASE Logout
  <2>1. /\ status = "authenticated" /\ pc["logout"] = Idle
        /\ pc' = [pc EXCEPT !["logout"] = "post"]
        /\ UNCHANGED <<cookie, access, cachedMe, status, user, tok, refreshing, old>>
      BY <1>1 DEF Logout, storage, screen, history
  <2>2. pc'["login"] # "post" /\ DOMAIN pc = Procs
      BY <2>1 DEF LoginAlone, TypeOK, Procs
  <2>3. Stale => Stale'
      BY <2>1, <2>2 DEF Stale, Waiting, Idle
  <2>4. ASSUME NEW q \in Procs \ old', pc'[q] \in {"sent", "resent"}
        PROVE  tok'[q] \in {u, None}
      BY <2>1, <2>2, <2>4 DEF Owned
  <2> QED
      BY <2>1, <2>2, <2>3, <2>4 DEF StepOwned, LoginAlone, Owned
<1>2. CASE Call
  <2>1. /\ status = "authenticated" /\ pc["call"] = Idle
        /\ pc' = [pc EXCEPT !["call"] = "sent"]
        /\ tok' = [tok EXCEPT !["call"] = access]
        /\ UNCHANGED <<cookie, access, cachedMe, status, user, refreshing, old>>
      BY <1>2 DEF Call, Send, storage, screen, history
  <2>2. pc'["login"] # "post" /\ DOMAIN pc = Procs /\ DOMAIN tok = Procs
      BY <2>1 DEF LoginAlone, TypeOK, Procs
  <2>3. Stale => Stale'
      BY <2>1, <2>2 DEF Stale, Waiting, Idle
  <2>4. ASSUME NEW q \in Procs \ old', pc'[q] \in {"sent", "resent"}
        PROVE  tok'[q] \in {u, None}
      BY <2>1, <2>2, <2>4 DEF Owned
  <2> QED
      BY <2>1, <2>2, <2>3, <2>4 DEF StepOwned, LoginAlone, Owned
<1>3. CASE Reload
    BY <1>3
    DEF Reload, storage, NotSent, StepOwned, LoginAlone, Owned, Idle, Procs
<1>4. CASE CookieCleared
  <2>1. Stale' = Stale
      BY <1>4 DEF CookieCleared, history, Stale
  <2> QED
      BY <1>4, <2>1
      DEF CookieCleared, storage, screen, history, StepOwned, LoginAlone, Owned
<1>5. CASE UNCHANGED vars
  <2>1. Stale' = Stale
      BY <1>5 DEF vars, Stale
  <2> QED
      BY <1>5, <2>1 DEF vars, StepOwned, LoginAlone, Owned
<1> QED
    BY <1>1, <1>2, <1>3, <1>4, <1>5

LEMMA NextOwner ==
    ASSUME TypeOK, OnlyMountStarts, OneOwner, [Next]_vars PROVE OneOwner'
<1> SUFFICES ASSUME ~crossed' PROVE OneOwner'
    BY DEF OneOwner
<1>1. ~crossed
  <2>1. ASSUME NEW p \in Procs, Response(p) PROVE crossed => crossed'
      BY <2>1 DEF Response, Answered, Unauthorized, Failed, Disabled, history
  <2>2. RefreshAnswered => (crossed => crossed')
      BY DEF RefreshAnswered, RefreshSucceeds, RefreshRejected, RefreshFails
  <2>3. ASSUME NEW u \in Users, Login(u) PROVE crossed' = crossed
      BY <2>3 DEF Login
  <2> QED
      BY <2>1, <2>2, <2>3
      DEF Next, Mount, Backoff, LoginAnswered, Logout, LogoutAnswered, Call,
          Reload, CookieCleared, vars, history
<1>2. PICK u \in Users \union {None} : LoginAlone /\ Owned(u)
    BY <1>1 DEF OneOwner
<1>3. CASE LoginAnswered
    BY <1>2, <1>3, LoginAnsweredOwner DEF OneOwner
<1>4. CASE ~LoginAnswered
  <2> SUFFICES StepOwned(u)
      BY DEF StepOwned, OneOwner
  <2>1. ASSUME NEW p \in Procs, Response(p) PROVE StepOwned(u)
      BY <1>2, <2>1, AnsweredOwner, UnauthorizedOwner, FailedOwner, DisabledOwner
      DEF Response
  <2>2. CASE RefreshAnswered
      BY <1>2, <2>2, SucceedsOwner, RejectedOwner, FailsOwner DEF RefreshAnswered
  <2>3. CASE Mount \/ Backoff
      BY <1>2, <2>3, MountOwner, BackoffOwner
  <2>4. ASSUME NEW v \in Users, Login(v) PROVE StepOwned(u)
      BY <1>2, <2>4, LoginOwner
  <2>5. CASE LogoutAnswered
      BY <1>2, <2>5, LogoutAnsweredOwner
  <2>6. CASE Logout \/ Call \/ Reload \/ CookieCleared \/ UNCHANGED vars
      BY <1>2, <2>6, QuietOwner
  <2> QED
      BY <1>4, <2>1, <2>2, <2>3, <2>4, <2>5, <2>6 DEF Next
<1> QED
    BY <1>3, <1>4

-----------------------------------------------------------------------------
(* The theorems *)

LEMMA InitInv == Init => IInv
    BY InitType, InitOwner DEF IInv

LEMMA NextInv == IInv /\ [Next]_vars => IInv'
    BY NextType, NextStarts, NextOwner DEF IInv

LEMMA OwnerShown == IInv => ShownUserOwnsSession
<1> SUFFICES ASSUME IInv, ~crossed, status = "authenticated"
             PROVE  /\ user # None
                    /\ access \in {user, None} /\ cachedMe \in {user, None}
    BY DEF ShownUserOwnsSession
<1>1. PICK u \in Users \union {None} : Owned(u)
    BY DEF IInv, OneOwner
<1> QED
    BY <1>1 DEF Owned

\* The inductive invariant: types, and one owner of all that is kept, in
\* flight or on screen until an answer of an ended session is used.
THEOREM Invariant == Spec => []IInv
    BY InitInv, NextInv, PTL DEF Spec

\* Every variable has its type, for any number of users, attempts, reloads.
THEOREM TypeCorrect == Spec => []TypeOK
<1>1. IInv => TypeOK
    BY DEF IInv
<1> QED
    BY <1>1, Invariant, PTL

\* The user on screen owns the stored token and the cached profile, however
\* the mount effect, a refresh with its waiters, sign-in, sign-out, calls and
\* reloads interleave, as long as no answer of an ended session is used.
THEOREM ShownUserOwnsSessionHolds == Spec => []ShownUserOwnsSession
    BY OwnerShown, Invariant, PTL

\* For the instance of another module, which has to show what Session assumes.
LEMMA SessionKept ==
    None \notin Users /\ MaxAttempts \in Nat \ {0} /\ MaxReloads \in Nat =>
        /\ Init => IInv
        /\ IInv /\ [Next]_vars => IInv'
        /\ IInv => ShownUserOwnsSession
    BY InitInv, NextInv, OwnerShown
=============================================================================
