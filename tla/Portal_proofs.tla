---------------------------- MODULE Portal_proofs ----------------------------
(***************************************************************************)
(* Proofs about the portal around its screens: that every state of the     *)
(* session, the pages and the room screens has its type, and that whoever  *)
(* is shown owns the session, for any users, hotels, rooms and pages.      *)
(***************************************************************************)
EXTENDS MCPortal, Session_proofs

-----------------------------------------------------------------------------
(* The pages and their guards *)

LEMMA GuardsToPages ==
    ASSUME NEW p
    PROVE  Pages!GuardTarget(p) \in Pages!Paths \union {None}
<1>1. {"/", "/login", "/admin", "/change-password", "/suspended", "/dashboard",
       "/my-attendance"} \subseteq Pages!Paths
    BY DEF Pages!Paths, Pages!PartnerPages, Pages!GuardedPages
<1>2. Pages!GuardTarget(p) \in {"/login", "/admin", "/change-password", "/suspended",
                                "/dashboard", "/my-attendance", None}
    BY DEF Pages!GuardTarget, Pages!home
<1> QED
    BY <1>1, <1>2

LEMMA LinksToPages ==
    /\ PagesInUse \subseteq Pages!Paths
    /\ Pages!PartnerPages \subseteq Pages!Paths
    /\ Pages!home \in Pages!Paths
    /\ {"/", "/login", "/admin", "/change-password", "/suspended", "/dashboard"}
         \subseteq Pages!Paths
    BY PagesAssumption DEF Pages!Paths, Pages!PartnerPages, Pages!home

LEMMA FirstHotel == (CHOOSE h \in Hotels : TRUE) \in Hotels
    BY PagesAssumption

LEMMA PagesInit == Pages!Init => Pages!TypeOK
<1> SUFFICES ASSUME Pages!Init PROVE Pages!TypeOK
    OBVIOUS
<1>1. m5 \in Hotels /\ m6 \in Roles
    BY FirstHotel DEF Pages!Init
<1>2. m10 \in Pages!Paths /\ {m11, m13} \subseteq Pages!Paths \union {None}
    BY LinksToPages DEF Pages!Init
<1>3. m9 \in [Hotels -> {"active", "expired"}] /\ m7 \in [Hotels -> {"active", "suspended"}]
    BY DEF Pages!Init
<1> QED
    BY <1>1, <1>2, <1>3 DEF Pages!Init, Pages!TypeOK

LEMMA PagesNext == ASSUME Pages!TypeOK, Pages!Next PROVE Pages!TypeOK'
<1> USE DEF Pages!TypeOK
<1>1. CASE Pages!Arrive
    BY <1>1 DEF Pages!Arrive, Pages!userVars, Pages!hotelVars
<1>2. CASE Pages!Redirect
    BY <1>2, GuardsToPages DEF Pages!Redirect, Pages!Replace, Pages!userVars,
       Pages!hotelVars
<1>3. CASE Pages!SubmitLogin
  <2>1. m5' \in Hotels /\ m6' \in Roles
      BY <1>3, FirstHotel DEF Pages!SubmitLogin
  <2>2. {m11', m13'} \subseteq Pages!Paths \union {None}
      BY <1>3, LinksToPages DEF Pages!SubmitLogin, Pages!Replace, Pages!TakeReturn
  <2> QED
      BY <1>3, <2>1, <2>2 DEF Pages!SubmitLogin, Pages!hotelVars
<1>4. CASE Pages!GreetLogin
  <2>1. {m11', m13'} \subseteq Pages!Paths \union {None}
    <3>1. PagesInUse \subseteq Pages!Paths /\ Pages!home \in Pages!Paths
             /\ "/change-password" \in Pages!Paths
             /\ "/suspended" \in Pages!Paths
        BY LinksToPages
    <3> QED
        BY <1>4, <3>1 DEF Pages!GreetLogin, Pages!Replace, Pages!TakeReturn
  <2> QED
      BY <1>4, <2>1 DEF Pages!GreetLogin, Pages!userVars, Pages!hotelVars
<1>5. CASE Pages!SignOut
    BY <1>5, LinksToPages DEF Pages!SignOut, Pages!Replace, Pages!hotelVars
<1>6. CASE Pages!FollowLink
    BY <1>6, LinksToPages DEF Pages!FollowLink, Pages!Replace, Pages!userVars,
       Pages!hotelVars
<1>7. CASE Pages!Visit
    BY <1>7, LinksToPages DEF Pages!Visit, Pages!Replace, Pages!userVars,
       Pages!hotelVars
<1>8. CASE Pages!RefreshMe
    BY <1>8 DEF Pages!RefreshMe, Pages!hotelVars
<1>9. ASSUME NEW refreshed \in BOOLEAN, Pages!ChangePassword(refreshed)
      PROVE  Pages!TypeOK'
    BY <1>9, LinksToPages DEF Pages!ChangePassword, Pages!Replace, Pages!hotelVars
<1>10. ASSUME NEW h \in Hotels, Pages!SwitchTo(h) PROVE Pages!TypeOK'
    BY <1>10 DEF Pages!SwitchTo, Pages!hotelVars
<1>11. ASSUME NEW h \in Hotels, Pages!PlatformChange(h) PROVE Pages!TypeOK'
  <2>1. /\ m7' \in [Hotels -> {"active", "suspended"}]
        /\ m8' \in [Hotels -> Pages!Modes]
        /\ m9' \in [Hotels -> {"active", "expired"}]
      BY <1>11 DEF Pages!PlatformChange
  <2> QED
      BY <1>11, <2>1 DEF Pages!PlatformChange, Pages!userVars
<1> QED
    BY <1>1, <1>2, <1>3, <1>4, <1>5, <1>6, <1>7, <1>8, <1>9, <1>10, <1>11
    DEF Pages!Next

-----------------------------------------------------------------------------
(* The room screens *)

\* A move of the table leads to a status.
LEMMA MovesToStatuses ==
    ASSUME NEW s \in RoomsPage!RoomStatuses, NEW t, RoomsPage!CanTransition(s, t)
    PROVE  t \in RoomsPage!RoomStatuses
    BY DEF RoomsPage!CanTransition, RoomsPage!TRANSITIONS, RoomsPage!RoomStatuses

LEMMA RoomsInit == RoomsPage!Init => RoomsPage!TypeOK
<1> SUFFICES ASSUME RoomsPage!Init PROVE RoomsPage!TypeOK
    OBVIOUS
<1>1. m1 \in [Rooms -> RoomsPage!RoomValues]
  <2> DEFINE first == {[status |-> s, guest |-> g, arriving |-> a, noted |-> FALSE] :
                         s \in {"available", "occupied", "cleaning_required"},
                         g \in BOOLEAN, a \in BOOLEAN}
  <2>1. first \subseteq RoomsPage!RoomValues
    <3> SUFFICES ASSUME NEW x \in first PROVE x \in RoomsPage!RoomValues
        OBVIOUS
    <3>1. PICK s \in {"available", "occupied", "cleaning_required"},
               g \in BOOLEAN, a \in BOOLEAN :
             x = [status |-> s, guest |-> g, arriving |-> a, noted |-> FALSE]
        OBVIOUS
    <3> QED
        BY <3>1 DEF RoomsPage!RoomValues, RoomsPage!RoomStatuses
  <2>2. m1 \in [Rooms -> first]
      BY DEF RoomsPage!Init
  <2> HIDE DEF first
  <2> QED
      BY <2>1, <2>2
<1>2. m2 \in [Rooms -> {None, "cleaning_required", "cleaning_in_progress"}]
    BY DEF RoomsPage!Init
<1>3. m5 \in RoomsPage!Filters
  <2>1. ASSUME NEW q PROVE RoomsPage!LinkedFilter(q) \in RoomsPage!Filters
      BY DEF RoomsPage!LinkedFilter, RoomsPage!LegacyFilter, RoomsPage!Filters,
             RoomsPage!Buckets
  <2> QED
      BY <2>1 DEF RoomsPage!Init
<1>4. m9 \in 0 .. MaxOther
    BY OthersAssumption DEF RoomsPage!Init
<1> QED
    BY <1>1, <1>2, <1>3, <1>4 DEF RoomsPage!Init, RoomsPage!TypeOK

\* What a read has copied.
Copied(c) ==
    /\ c.rooms \in [Rooms -> RoomsPage!RoomValues]
    /\ DOMAIN c.tasks = Rooms

LEMMA AnswerType ==
    ASSUME RoomsPage!TypeOK, RoomsPage!Answer
    PROVE  /\ m1' \in [Rooms -> RoomsPage!RoomValues]
           /\ m2' \in [Rooms -> {None, "cleaning_required", "cleaning_in_progress"}]
           /\ m4' # None /\ m4' # m4 => Copied(m4')
           /\ m7' \in BOOLEAN
           /\ m6' \in {m6, None}
<1> DEFINE r == m8.room
           byTask == m8.what \in {"start", "complete"}
           to == IF byTask THEN RoomsPage!TaskStatus(r, m8.what) ELSE m8.what
           moved == [m1 EXCEPT ![r] = RoomsPage!MovedRoom(r, to, m8.noted)]
           tasked == [m2 EXCEPT ![r] =
                        CASE m8.what = "start" -> "cleaning_in_progress"
                          [] m8.what = "complete" -> None
                          [] OTHER -> RoomsPage!MovedTask(r, m8.what)]
<1>1. /\ r \in Rooms /\ m8.noted \in BOOLEAN /\ m1[r] \in RoomsPage!RoomValues
      /\ m8.what \in RoomsPage!RoomStatuses \union {"start", "complete"}
    BY DEF RoomsPage!TypeOK, RoomsPage!Answer
<1>2. to \in RoomsPage!RoomStatuses
    BY <1>1 DEF RoomsPage!TaskStatus, RoomsPage!RoomValues, RoomsPage!RoomStatuses
<1>3. moved \in [Rooms -> RoomsPage!RoomValues]
  <2>1. RoomsPage!MovedRoom(r, to, m8.noted) \in RoomsPage!RoomValues
    <3> HIDE DEF to
    <3> QED
        BY <1>1, <1>2 DEF RoomsPage!MovedRoom, RoomsPage!RoomValues
  <2> QED
      BY <1>1, <2>1 DEF RoomsPage!TypeOK
<1>4. tasked \in [Rooms -> {None, "cleaning_required", "cleaning_in_progress"}]
  <2>1. RoomsPage!MovedTask(r, m8.what)
          \in {None, "cleaning_required", "cleaning_in_progress"}
      BY <1>1 DEF RoomsPage!MovedTask, RoomsPage!TypeOK
  <2> QED
      BY <1>1, <2>1 DEF RoomsPage!TypeOK
<1>5. \/ /\ m1' = moved /\ m2' = tasked
         /\ m4' = [rooms |-> m1', tasks |-> m2']
         /\ m6' = (IF byTask THEN m6 ELSE None) /\ m7' = (byTask /\ m7)
      \/ UNCHANGED <<m1, m2, m4, m6, m7>>
    BY DEF RoomsPage!Answer
<1> HIDE DEF moved, tasked
<1>6. /\ m1' \in [Rooms -> RoomsPage!RoomValues]
      /\ m2' \in [Rooms -> {None, "cleaning_required", "cleaning_in_progress"}]
    BY <1>3, <1>4, <1>5 DEF RoomsPage!TypeOK
<1>7. m4' # m4 => Copied(m4')
    BY <1>5, <1>6 DEF Copied
<1>8. m7' \in BOOLEAN
    BY <1>5, Zenon DEF RoomsPage!TypeOK
<1>9. m6' \in {m6, None}
    BY <1>5
<1> QED
    BY <1>6, <1>7, <1>8, <1>9

LEMMA OtherDeskType ==
    ASSUME RoomsPage!TypeOK, NEW r \in Rooms, NEW s \in RoomsPage!RoomStatuses,
           RoomsPage!OtherDesk(r, s)
    PROVE  /\ m1' \in [Rooms -> RoomsPage!RoomValues]
           /\ m2' \in [Rooms -> {None, "cleaning_required", "cleaning_in_progress"}]
           /\ m9' \in 0 .. MaxOther
<1>1. m1[r] \in RoomsPage!RoomValues
    BY DEF RoomsPage!TypeOK
<1>2. PICK g \in BOOLEAN : m1' = [m1 EXCEPT ![r] = [m1[r] EXCEPT !.status = s, !.guest = g]]
    BY <1>1 DEF RoomsPage!OtherDesk, RoomsPage!TypeOK, RoomsPage!RoomValues
<1>3. m1' \in [Rooms -> RoomsPage!RoomValues]
    BY <1>1, <1>2 DEF RoomsPage!TypeOK, RoomsPage!RoomValues
<1>4. m2' \in [Rooms -> {None, "cleaning_required", "cleaning_in_progress"}]
  <2>1. RoomsPage!MovedTask(r, s) \in {None, "cleaning_required", "cleaning_in_progress"}
      BY DEF RoomsPage!MovedTask, RoomsPage!TypeOK
  <2> QED
      BY <2>1 DEF RoomsPage!OtherDesk, RoomsPage!TypeOK
<1>5. m9' \in 0 .. MaxOther
    BY OthersAssumption DEF RoomsPage!OtherDesk, RoomsPage!TypeOK
<1> QED
    BY <1>3, <1>4, <1>5

LEMMA RoomsNext == ASSUME RoomsPage!TypeOK, RoomsPage!Next PROVE RoomsPage!TypeOK'
<1> USE DEF RoomsPage!TypeOK, RoomsPage!screen
<1>1. CASE RoomsPage!ReadRooms
    BY <1>1 DEF RoomsPage!ReadRooms
<1>2. CASE RoomsPage!RoomsRead
    BY <1>2 DEF RoomsPage!RoomsRead
<1>3. ASSUME NEW f \in FiltersInUse, RoomsPage!ChooseFilter(f) PROVE RoomsPage!TypeOK'
    BY <1>3, PagesAssumption DEF RoomsPage!ChooseFilter
<1>4. ASSUME NEW r \in Rooms, NEW s \in RoomsPage!RoomStatuses,
             RoomsPage!handleSelectStatus(r, s)
      PROVE  RoomsPage!TypeOK'
  <2>1. m6' = m6 \/ m6' \in [room : Rooms, status : RoomsPage!NeedsReason]
      BY <1>4 DEF RoomsPage!handleSelectStatus
  <2>2. m7' \in BOOLEAN
      BY <1>4 DEF RoomsPage!handleSelectStatus
  <2>3. m8' = m8 \/ (\E b \in BOOLEAN : m8' = [room |-> r, what |-> s, noted |-> b])
      BY <1>4, Zenon DEF RoomsPage!handleSelectStatus
  <2>4. m8' # None => m8' \in [room : Rooms,
                               what : RoomsPage!RoomStatuses \union {"start", "complete"},
                               noted : BOOLEAN]
      BY <1>4, <2>3
  <2>5. UNCHANGED <<m1, m2, m3, m4, m5, m9>>
      BY <1>4 DEF RoomsPage!handleSelectStatus
  <2> QED
      BY <2>1, <2>2, <2>4, <2>5
<1>5. CASE RoomsPage!TypeReason
    BY <1>5 DEF RoomsPage!TypeReason
<1>6. CASE RoomsPage!CancelReason
    BY <1>6 DEF RoomsPage!CancelReason
<1>7. CASE RoomsPage!handleConfirmReasonStatus
    BY <1>7 DEF RoomsPage!handleConfirmReasonStatus, RoomsPage!NeedsReason,
       RoomsPage!RoomStatuses
<1>8. ASSUME NEW r \in Rooms, NEW what \in {"start", "complete"},
             RoomsPage!TaskButton(r, what)
      PROVE  RoomsPage!TypeOK'
    BY <1>8 DEF RoomsPage!TaskButton
<1>9. CASE RoomsPage!Answer
    BY <1>9, AnswerType DEF RoomsPage!Answer, Copied
<1>10. ASSUME NEW r \in Rooms, NEW s \in RoomsPage!RoomStatuses, RoomsPage!OtherDesk(r, s)
       PROVE  RoomsPage!TypeOK'
    BY <1>10, OtherDeskType DEF RoomsPage!OtherDesk
<1> QED
    BY <1>1, <1>2, <1>3, <1>4, <1>5, <1>6, <1>7, <1>8, <1>9, <1>10 DEF RoomsPage!Next

-----------------------------------------------------------------------------
(* The portal *)

LEMMA PortalInit == MCInit => TypesOK
    BY InitType, PagesInit, RoomsInit DEF MCInit, TypesOK

LEMMA PortalNext == ASSUME TypesOK, [MCNext]_mcVars PROVE TypesOK'
<1>1. CASE SessionStep
    BY <1>1, NextType DEF SessionStep, TypesOK
<1>2. CASE PagesStep
  <2>1. TypeOK'
      BY <1>2, NextType DEF PagesStep, TypesOK
  <2> QED
      BY <1>2, <2>1, PagesNext DEF PagesStep, TypesOK
<1>3. CASE RoomsPageStep
  <2>1. TypeOK'
      BY <1>3, NextType DEF RoomsPageStep, TypesOK
  <2> QED
      BY <1>3, <2>1, RoomsNext DEF RoomsPageStep, TypesOK
<1>4. CASE UNCHANGED mcVars
  <2>1. TypeOK'
      BY <1>4, NextType DEF mcVars, TypesOK
  <2>2. UNCHANGED <<page, m1, m2, m3, m4, m5, m6, m7, m8, m9, m10, m11, m12, m13>>
      BY <1>4 DEF mcVars, memory
  <2> QED
      BY <2>1, <2>2 DEF TypesOK, Pages!TypeOK, RoomsPage!TypeOK
<1> QED
    BY <1>1, <1>2, <1>3, <1>4 DEF MCNext

\* Every reachable state of the session, of the pages and of the room screens
\* has its type: no redirect leads out of the portal, and what is asked of the
\* server is about a room of the hotel and a status of the table.
THEOREM TypesOKHolds == MCSpec => []TypesOK
    BY PortalInit, PortalNext, PTL DEF MCSpec

\* A step of the portal is one of the session, or leaves it alone.
LEMMA StepOfSession == ASSUME [MCNext]_mcVars PROVE [Next]_vars
    BY DEF MCNext, SessionStep, PagesStep, RoomsPageStep, mcVars

\* The theorem about the session holds in the portal as it is composed: the user
\* that is shown is the one whose tokens the browser holds, unless an answer of
\* an ended session was used (auth-context.tsx).
THEOREM SessionOwnedHolds == MCSpec => []ShownUserOwnsSession
<1>1. MCInit => IInv
    BY InitInv DEF MCInit
<1>2. IInv /\ [MCNext]_mcVars => IInv'
    BY StepOfSession, NextInv
<1> QED
    BY <1>1, <1>2, OwnerShown, PTL DEF MCSpec
=============================================================================
