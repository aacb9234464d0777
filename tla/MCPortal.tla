------------------------------ MODULE MCPortal ------------------------------
(***************************************************************************)
(* The portal around its screens for TLC: the session of the browser, the  *)
(* pages a user is led to, and the room screens that poll the server.  A   *)
(* sum of models like MCFrontDesk; here the session has its own variables, *)
(* and each model keeps the fairness of its own specification.             *)
(***************************************************************************)
EXTENDS Session

CONSTANTS
    Hotels, Roles, PagesInUse, Rooms, FiltersInUse, MaxOther

VARIABLES
    page,
    m1, m2, m3, m4, m5, m6, m7, m8, m9, m10, m11, m12, m13

Pages == INSTANCE Navigation WITH
    signedIn <- m1, super <- m2, mustReset <- m3, role <- m4, active <- m5,
    permsOf <- m6, hotelStatus <- m7, mode <- m8, plan <- m9, path <- m10,
    nav <- m11, greeted <- m12, returnTo <- m13

RoomsPage == INSTANCE RoomScreens WITH
    server <- m1, task <- m2, copy <- m3, fetch <- m4, filter <- m5,
    dialog <- m6, typed <- m7, call <- m8, other <- m9

\* The pages and filters of this instance are some of the portal's, and there
\* is a hotel.
ASSUME PagesAssumption ==
    /\ Hotels # {} /\ PagesInUse \subseteq Pages!Paths
    /\ FiltersInUse \subseteq RoomsPage!Filters

\* What others change is counted.
ASSUME OthersAssumption == MaxOther \in Nat

memory == <<m1, m2, m3, m4, m5, m6, m7, m8, m9, m10, m11, m12, m13>>
mcVars == <<page, vars, memory>>

\* The cells that a page does not use stay empty.
MCInit ==
    \/ /\ page = "session" /\ Init
       /\ m1 = None /\ m2 = None /\ m3 = None /\ m4 = None /\ m5 = None
       /\ m6 = None /\ m7 = None /\ m8 = None /\ m9 = None /\ m10 = None
       /\ m11 = None /\ m12 = None /\ m13 = None
    \/ /\ page = "navigation" /\ Init /\ cookie = None
       /\ Pages!Init
    \/ /\ page = "rooms" /\ Init /\ cookie = None
       /\ RoomsPage!Init /\ m10 = None /\ m11 = None /\ m12 = None
       /\ m13 = None

SessionStep == page = "session" /\ Next /\ UNCHANGED <<page, memory>>
PagesStep == page = "navigation" /\ Pages!Next /\ UNCHANGED <<page, vars>>
RoomsPageStep ==
    /\ page = "rooms" /\ RoomsPage!Next
    /\ UNCHANGED <<page, vars, m10, m11, m12, m13>>

MCNext ==
    \/ SessionStep \/ PagesStep \/ RoomsPageStep

\* The fairness of Session, Navigation and RoomScreens: the effects run, the
\* timers fire and the requests are settled.
EffectsRun ==
    \/ page = "session" /\ MountStep /\ UNCHANGED <<page, memory>>
    \/ page = "navigation" /\ Pages!Effects /\ UNCHANGED <<page, vars>>
    \/ /\ page = "rooms" /\ RoomsPage!Reads
       /\ UNCHANGED <<page, vars, m10, m11, m12, m13>>
RefreshSettles ==
    page = "session" /\ RefreshAnswered /\ UNCHANGED <<page, memory>>

MCSpec ==
    MCInit /\ [][MCNext]_mcVars
      /\ WF_mcVars(EffectsRun) /\ WF_mcVars(RefreshSettles)

-----------------------------------------------------------------------------
\* Every model's variables have their types.
TypesOK ==
    /\ TypeOK
    /\ page = "navigation" => Pages!TypeOK
    /\ page = "rooms" => RoomsPage!TypeOK

\* The start-up spinner of the session ends (auth-context.tsx:117-220).
StartUpEnds == page = "session" => SpinnerEnds

\* The guards' redirects end on a page (require-permission.tsx:60), unless
\* the user is staff that no page admits: see Navigation.
RedirectsEnd == []<>(page = "navigation" => Pages!Settled)

\* The room screens come to show what the server holds (rooms/page.tsx:440,
\* housekeeping/page.tsx): see RoomScreens.
DesksConverge ==
    <>[][page = "rooms" => RoomsPage!Quiet]_mcVars =>
        <>[](page = "rooms" => RoomsPage!Converged)
=============================================================================
