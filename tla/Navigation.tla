----------------------------- MODULE Navigation -----------------------------
(***************************************************************************)
(* Which page a signed-in user ends up on: the menus of the partner portal *)
(* (components/layout), the guards around its pages (components/auth), the *)
(* redirects of the sign-in, password and dashboard pages, and the hotel   *)
(* switcher.  A redirect is a step of its own, as each runs in an effect   *)
(* after the page it belongs to was rendered; the platform may change a    *)
(* hotel's tier, plan or status between any two steps.                     *)
(***************************************************************************)
EXTENDS Naturals, Sequences, FiniteSets

CONSTANTS Hotels, None,
          Roles,       \* the role codes users of this instance hold
          PagesInUse   \* the pages this instance visits

VARIABLES
    signedIn, super, mustReset,  \* user
    role,                        \* memberships: the role in each hotel
    active,                      \* activeHotelId
    permsOf,                     \* the role whose permissions /me returned
    hotelStatus, mode, plan,     \* of each hotel, on the server
    path,                        \* pathname
    nav,                         \* router.replace under way: where to
    greeted,                     \* the sign-in page's effect has run
    returnTo                     \* AUTH_RETURN_KEY

vars == <<signedIn, super, mustReset, role, active, permsOf, hotelStatus, mode,
          plan, path, nav, greeted, returnTo>>
userVars == <<signedIn, super, mustReset, role, active, permsOf>>
hotelVars == <<hotelStatus, mode, plan>>

(***************************************************************************)
(* Pages, permissions and menus.                                           *)
(***************************************************************************)

\* The permission each partner page is wrapped in (RequirePermission).
PagePermission(p) ==
    CASE p = "/checkin" -> "stay.checkin"
      [] p = "/checkout" -> "stay.checkout"
      [] p = "/current-guests" -> "guests.view"
      [] p \in {"/advance-booking", "/advance-bookings", "/completed-bookings"}
           -> "bookings.view"
      [] p = "/rooms" -> "rooms.view"
      [] p = "/housekeeping" -> "housekeeping.manage"
      [] p = "/expenses" -> "expenses.view"
      [] p = "/payments" -> "payments.view"
      [] p \in {"/restaurant-billing", "/gst-tax"} -> "reports.financial"
      [] p = "/invoices" -> "invoices.manage"
      [] p = "/my-attendance" -> "staff.attendance_self"
      [] p = "/staff" -> "staff.view"
      [] p \in {"/staff/attendance", "/staff/leaves"} -> "staff.attendance_view"
      [] p = "/staff/checkin" -> "staff.attendance_record"
      [] p = "/reports" -> "reports.view"
      [] p = "/daily-closing" -> "ops.daily_closing"
      [] p = "/shift-handover" -> "ops.shift_handover"
      [] p = "/notifications" -> "notifications.view"
      [] p = "/audit" -> "audit.view"
      [] p \in {"/settings", "/plan"} -> "hotel.view"
      [] p = "/edit-hotel" -> "hotel.manage_settings"
      [] p = "/team" -> "hotel.manage_team"

GuardedPages ==
    {"/checkin", "/checkout", "/current-guests", "/advance-booking",
     "/advance-bookings", "/completed-bookings", "/rooms", "/housekeeping",
     "/expenses", "/payments", "/restaurant-billing", "/gst-tax", "/invoices",
     "/my-attendance", "/staff", "/staff/attendance", "/staff/leaves",
     "/staff/checkin", "/reports", "/daily-closing", "/shift-handover",
     "/notifications", "/audit", "/settings", "/plan", "/edit-hotel", "/team"}

PartnerPages == GuardedPages \union {"/dashboard"}

\* Pages and menu items of the staff module, and of expenses.
FullOnly == {"/my-attendance", "/staff", "/staff/attendance", "/staff/leaves",
             "/staff/checkin"}

\* ROLE_PERMISSIONS of the server, reduced to the permissions of pages.
GeneralStaff == {"hotel.view", "notifications.view", "staff.attendance_self"}
Housekeeping == {"rooms.view", "housekeeping.manage"}
Receptionist ==
    {"rooms.view", "guests.view", "bookings.view", "stay.checkin", "stay.checkout",
     "payments.view", "invoices.manage", "ops.shift_handover", "staff.view",
     "staff.attendance_view", "staff.attendance_record"}
Admin == {"expenses.view", "housekeeping.manage", "reports.view"}
Manager ==
    {"hotel.manage_settings", "reports.financial", "ops.daily_closing",
     "audit.view"}
Owner == {"hotel.manage_team"}

\* Each role of the desk has what the one below it has.
RoleHas(r, permission) ==
    \/ permission \in GeneralStaff
    \/ r = "housekeeping" /\ permission \in Housekeeping
    \/ r \notin {"general_staff", "housekeeping"} /\ permission \in Receptionist
    \/ r \in {"owner", "manager", "admin"} /\ permission \in Admin
    \/ r \in {"owner", "manager"} /\ permission \in Manager
    \/ r = "owner" /\ permission \in Owner

can(permission) == RoleHas(permsOf, permission)

Modes == {"checkin_only", "checkin_expense", "full"}

\* accessMode of AuthProvider: the live setting of the active hotel.
accessMode == mode[active]

\* RequireAccessMode: the tiers that admit a page.
satisfies(m, p) ==
    /\ p \in FullOnly => m = "full"
    /\ p = "/expenses" => m # "checkin_only"

\* Faulty variant: one permission guards the whole staff module.
permittedByModule(p) ==
    p \in GuardedPages =>
        can(IF p \in FullOnly THEN "staff.view" ELSE PagePermission(p))

permitted(p) == p \in GuardedPages => can(PagePermission(p))

\* PartnerNav and PartnerBottomNav: the items shown, the plan link with them.
\* A hotel without GST hides its page.
NavItems(gst) ==
    {p \in GuardedPages \ {"/plan"} :
        /\ can(PagePermission(p))
        /\ p = "/gst-tax" => gst
        /\ p \in FullOnly => accessMode = "full"
        /\ p = "/expenses" => accessMode # "checkin_only"}
      \union (IF can("hotel.manage_settings") THEN {"/plan"} ELSE {})

\* isAttendanceOnly: nothing on the dashboard is theirs.
isAttendanceOnly ==
    ~can("rooms.view") /\ ~can("bookings.view") /\ can("staff.attendance_self")

\* PartnerMobileTabBar: the first five of the candidates, in this order.
TabCandidates ==
    <<"/dashboard", "/my-attendance", "/checkin", "/current-guests",
      "/advance-bookings", "/payments", "/rooms", "/housekeeping">>
MaxTabs == 5

TabShown(p) == permitted(p) /\ (p = "/my-attendance" => accessMode = "full")

TabItems ==
    IF accessMode = "full" /\ isAttendanceOnly THEN {"/my-attendance"}
    ELSE {TabCandidates[i] : i \in
            {j \in DOMAIN TabCandidates :
                /\ TabShown(TabCandidates[j])
                /\ Cardinality({k \in 1 .. j : TabShown(TabCandidates[k])}) <= MaxTabs}}

\* Search results of the header: bookings by status, guests by their stay.
SearchTargets ==
    (IF can("bookings.view")
     THEN {"/current-guests", "/completed-bookings", "/advance-bookings"} ELSE {})
      \union (IF can("guests.view")
              THEN {"/current-guests", "/advance-bookings", "/completed-bookings"} ELSE {})

(***************************************************************************)
(* What a page does with the visitor.                                      *)
(***************************************************************************)

suspended == hotelStatus[active] = "suspended"
home == IF super THEN "/admin" ELSE "/dashboard"

\* RequireAuth, RequireAccessMode, RequirePermission and the dashboard's own
\* effect: where the page sends the visitor, None when it lets them stay.
\* The guards are nested: an inner one runs once the outer ones let pass.
GuardTarget(p) ==
    CASE p \in {"/login", "/suspended"}                      -> None
      [] p = "/"               -> IF signedIn THEN home ELSE "/login"
      [] p = "/change-password" -> IF signedIn THEN None ELSE "/login"
      [] ~signedIn                                           -> "/login"
      [] mustReset                                           -> "/change-password"
      [] p = "/admin"          -> IF super THEN None ELSE "/dashboard"
      [] super                                               -> "/admin"
      [] suspended                                           -> "/suspended"
      [] ~satisfies(accessMode, p)                           -> "/dashboard"
      [] ~permitted(p)                                       -> "/dashboard"
      [] p = "/dashboard" /\ isAttendanceOnly                -> "/my-attendance"
      [] OTHER                                               -> None

\* No redirect is due or under way: the visitor sees this page and can act.
AtRest == nav = None /\ GuardTarget(path) = None

\* WIND_DOWN_PATHS: what an expired hotel can still open.
WindDown == {"/plan", "/checkout", "/current-guests", "/payments", "/invoices"}

\* SubscriptionGate: a blocked plan replaces the page by a panel.
Blocked(p) == plan[active] = "expired" /\ p \in PartnerPages \ WindDown

Paths == PartnerPages \union
         {"/", "/login", "/admin", "/change-password", "/suspended"}

(***************************************************************************)
(* Steps.                                                                  *)
(***************************************************************************)

TypeOK ==
    /\ {signedIn, super, mustReset, greeted} \subseteq BOOLEAN
    /\ role \in [Hotels -> Roles] /\ active \in Hotels /\ permsOf \in Roles
    /\ hotelStatus \in [Hotels -> {"active", "suspended"}]
    /\ mode \in [Hotels -> Modes]
    /\ plan \in [Hotels -> {"active", "expired"}]
    /\ path \in Paths /\ {nav, returnTo} \subseteq Paths \union {None}

Init ==
    /\ signedIn = FALSE /\ super \in BOOLEAN /\ mustReset \in BOOLEAN
    /\ role \in [Hotels -> Roles] /\ active = CHOOSE h \in Hotels : TRUE
    /\ permsOf = role[active]
    /\ hotelStatus = [h \in Hotels |-> "active"]
    /\ mode \in [Hotels -> Modes]
    /\ plan = [h \in Hotels |-> "active"]
    /\ path = "/login" /\ nav = None /\ greeted = FALSE
    /\ returnTo \in {None} \union (PagesInUse \ {"/dashboard"})

\* A redirect replaces one that has not arrived yet.
Replace(p) == nav' = p

\* The page asked for is reached, once the effects of this one have run.
Arrive ==
    /\ nav # None
    /\ path = "/login" /\ signedIn => greeted
    /\ path' = nav /\ nav' = None
    /\ greeted' = FALSE
    /\ UNCHANGED <<userVars, hotelVars, returnTo>>

\* A guard's effect; RequireAuth first stores where the visitor was.
Redirect ==
    /\ nav = None /\ GuardTarget(path) # None
    /\ Replace(GuardTarget(path))
    /\ returnTo' = IF ~signedIn /\ path \in PartnerPages \union {"/admin"}
                   THEN path ELSE returnTo
    /\ UNCHANGED <<userVars, hotelVars, path, greeted>>

\* The return key is taken by whoever asks first.
TakeReturn(default) ==
    /\ Replace(IF returnTo # None THEN returnTo ELSE default)
    /\ returnTo' = None

\* onSubmit of the sign-in page.  Its closure has the memberships of before
\* the sign-in (none), so it never finds the hotel suspended.
SubmitLogin ==
    /\ path = "/login" /\ ~signedIn /\ nav = None
    /\ signedIn' = TRUE /\ greeted' = FALSE
    /\ active' = CHOOSE h \in Hotels : TRUE
    /\ permsOf' = role[active']
    /\ IF mustReset THEN Replace("/change-password") /\ UNCHANGED returnTo
                    ELSE TakeReturn(home)
    /\ UNCHANGED <<super, mustReset, role, hotelVars, path>>

\* The effect of the sign-in page, on the render that follows.
GreetLogin ==
    /\ path = "/login" /\ signedIn /\ ~greeted
    /\ greeted' = TRUE
    /\ CASE mustReset           -> Replace("/change-password") /\ UNCHANGED returnTo
         [] ~super /\ suspended -> Replace("/suspended") /\ UNCHANGED returnTo
         [] OTHER               -> TakeReturn(home)
    /\ UNCHANGED <<userVars, hotelVars, path>>

\* change-password: the profile is read again; when that read fails the
\* provider still believes the reset is due.
ChangePassword(refreshed) ==
    /\ path = "/change-password" /\ signedIn /\ nav = None
    /\ mustReset' = (mustReset /\ ~refreshed)
    /\ Replace(IF super /\ refreshed THEN "/admin" ELSE "/dashboard")
    /\ UNCHANGED <<signedIn, super, role, active, permsOf, hotelVars, path, greeted,
                   returnTo>>

\* Signing out from the header, the suspension screen or the expiry panel.
SignOut ==
    /\ signedIn /\ AtRest /\ path # "/login"
    /\ signedIn' = FALSE
    /\ Replace("/login")
    /\ returnTo' = IF path \in PartnerPages \union {"/admin"} THEN path ELSE returnTo
    /\ UNCHANGED <<super, mustReset, role, active, permsOf, hotelVars, path, greeted>>

\* A link of a menu or a search result is followed.
FollowLink ==
    /\ signedIn /\ ~super /\ AtRest /\ path \in PartnerPages /\ ~Blocked(path)
    /\ \E p \in (NavItems(TRUE) \union TabItems \union SearchTargets) \cap PagesInUse :
          p # path /\ Replace(p)
    /\ UNCHANGED <<userVars, hotelVars, path, greeted, returnTo>>

\* An address is typed, or the page is opened anew.
Visit ==
    /\ AtRest /\ path # "/login"
    /\ \E p \in PagesInUse \union {"/", "/admin"} : p # path /\ Replace(p)
    /\ UNCHANGED <<userVars, hotelVars, path, greeted, returnTo>>

\* HotelSwitcher: the active hotel and every query change, /me is not asked.
SwitchTo(h) ==
    /\ signedIn /\ ~super /\ h # active /\ path \in PartnerPages
    /\ active' = h
    /\ UNCHANGED <<signedIn, super, mustReset, role, permsOf, hotelVars, path, nav,
                   greeted, returnTo>>

\* /me answers again, for the active hotel.
RefreshMe ==
    /\ signedIn /\ permsOf' = role[active]
    /\ UNCHANGED <<signedIn, super, mustReset, role, active, hotelVars, path, nav,
                   greeted, returnTo>>

\* The platform changes a hotel.
PlatformChange(h) ==
    /\ \/ \E m \in Modes : mode' = [mode EXCEPT ![h] = m] /\ UNCHANGED <<hotelStatus, plan>>
       \/ \E s \in {"active", "suspended"} :
             hotelStatus' = [hotelStatus EXCEPT ![h] = s] /\ UNCHANGED <<mode, plan>>
       \/ \E s \in {"active", "expired"} :
             plan' = [plan EXCEPT ![h] = s] /\ UNCHANGED <<mode, hotelStatus>>
    /\ UNCHANGED <<userVars, path, nav, greeted, returnTo>>

Next ==
    \/ Arrive \/ Redirect \/ SubmitLogin \/ GreetLogin \/ SignOut \/ FollowLink
    \/ Visit \/ RefreshMe
    \/ \E refreshed \in BOOLEAN : ChangePassword(refreshed)
    \/ \E h \in Hotels : SwitchTo(h) \/ PlatformChange(h)

\* Effects run, and a navigation that is not replaced arrives.
\* At most one of the three is possible at a time.
Effects == Arrive \/ Redirect \/ GreetLogin

Spec == Init /\ [][Next]_vars /\ WF_vars(Effects)

(***************************************************************************)
(* Properties.                                                             *)
(***************************************************************************)

\* No menu leads nowhere: every item that the sidebar, the tab bar, the plan
\* link or the search offers opens a page whose guards admit the visitor,
\* for every role and tier, also while the permissions are still those of
\* the hotel left (partner-sidebar.tsx:326, partner-mobile-tab-bar.tsx:114).
\* Only the dashboard sends attendance-only staff on.
MenuOpens ==
    signedIn /\ ~super /\ ~mustReset /\ ~suspended =>
        \A p \in NavItems(TRUE) \union TabItems \union SearchTargets :
            GuardTarget(p) = None \/ (p = "/dashboard" /\ isAttendanceOnly)

\* A hotel that may only wind down still reaches the pages it needs, from
\* the menu of every role that can check guests out.
WindDownReachable ==
    can("stay.checkout") =>
        \A p \in WindDown \ {"/plan"} : ~Blocked(p) /\ p \in NavItems(TRUE)

\* Staff with nothing but their attendance, on a hotel without that module.
Homeless == isAttendanceOnly /\ accessMode # "full"

\* The visitor has come to rest, or is staff without a home.
Settled == AtRest \/ Homeless

\* Redirects end: whatever the visitor opens, the guards let them come to
\* rest on a page, unless they are staff without a home
\* (require-permission.tsx:60, require-access-mode.tsx:60, dashboard:406).
RedirectsEnd == []<>Settled
=============================================================================
