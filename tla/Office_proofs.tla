--------------------------- MODULE Office_proofs ----------------------------
(***************************************************************************)
(* Proofs about the screens of MCOffice.                                   *)
(***************************************************************************)
EXTENDS MCOffice, Integers, Sequences, FiniteSetTheorems, TLAPS

Member == [active : BOOLEAN, profile : People]

-----------------------------------------------------------------------------
(* The members of the team *)

LEMMA NoneNoMember == None \notin Member
    BY NoneAssumption DEF Member

LEMMA MembersInit == TeamPage!Init => TeamPage!MembersKept
    BY DEF TeamPage!Init, TeamPage!MembersKept, TeamPage!OwnProfiles, TeamPage!Live

\* A member whose data change keeps a profile of their own.
LEMMA WriteKeeps ==
    ASSUME TeamPage!MembersKept, NEW m \in People, NEW r \in Member, r.profile = m,
           m1' = [m1 EXCEPT ![m] = r]
    PROVE  /\ m1' \in [People -> {None} \union Member]
           /\ TeamPage!Live \subseteq TeamPage!Live'
           /\ TeamPage!OwnProfiles'
<1>1. r # None
    BY NoneNoMember
<1> QED
    BY <1>1 DEF TeamPage!MembersKept, TeamPage!OwnProfiles, TeamPage!Live, Member

\* Who is hired is active and has a profile; the others keep theirs.
LEMMA HireKeeps ==
    ASSUME NEW m \in People, TeamPage!MembersKept, TeamPage!Hire(m)
    PROVE  /\ m1' \in [People -> {None} \union Member]
           /\ TeamPage!Live \subseteq TeamPage!Live'
           /\ TeamPage!OwnProfiles'
<1> DEFINE hired == [active |-> TRUE, profile |-> m]
<1>1. hired \in Member /\ hired.profile = m
    BY DEF Member
<1>2. CASE m1' = [m1 EXCEPT ![m] = hired]
    BY <1>1, <1>2, WriteKeeps
<1>3. CASE UNCHANGED m1
    BY <1>3 DEF TeamPage!MembersKept, TeamPage!OwnProfiles, TeamPage!Live, Member
<1> QED
    BY <1>2, <1>3 DEF TeamPage!Hire

\* So is a member whose profile is edited, and whose status is set.
LEMMA ChangeKeeps ==
    ASSUME TeamPage!MembersKept, NEW m \in TeamPage!Live,
           \/ m1' = [m1 EXCEPT ![m].profile = m]
           \/ \E b \in BOOLEAN : m1' = [m1 EXCEPT ![m].active = b]
    PROVE  /\ m1' \in [People -> {None} \union Member]
           /\ TeamPage!Live \subseteq TeamPage!Live'
           /\ TeamPage!OwnProfiles'
<1>1. m \in People /\ m1[m] \in Member /\ m1[m].profile = m
    BY DEF TeamPage!MembersKept, TeamPage!Live, TeamPage!OwnProfiles, Member
<1>2. PICK r \in Member : r.profile = m /\ m1' = [m1 EXCEPT ![m] = r]
  <2> DEFINE own == [m1[m] EXCEPT !.profile = m]
             now(b) == [m1[m] EXCEPT !.active = b]
  <2>1. own \in Member /\ own.profile = m
      BY <1>1 DEF Member
  <2>2. \A b \in BOOLEAN : now(b) \in Member /\ now(b).profile = m
      BY <1>1 DEF Member
  <2>3. \/ m1' = [m1 EXCEPT ![m] = own]
        \/ \E b \in BOOLEAN : m1' = [m1 EXCEPT ![m] = now(b)]
      BY <1>1
  <2> QED
      BY <2>1, <2>2, <2>3
<1> QED
    BY <1>1, <1>2, WriteKeeps

\* As long as members stay, so do the dialogs and the calls under way.
LEMMA DialogsKept ==
    ASSUME TeamPage!MembersKept, m1' \in [People -> {None} \union Member],
           TeamPage!Live \subseteq TeamPage!Live', TeamPage!OwnProfiles',
           m7' \in People \union {None, "open"},
           UNCHANGED <<m5, m8>>, m10' \subseteq m10
    PROVE  TeamPage!MembersKept'
<1> USE DEF TeamPage!MembersKept, Member
<1> DEFINE L == TeamPage!Live
<1>1. L \subseteq L'
    OBVIOUS
<1>2. m8 \in [target : L \union {None}, fields : People \union {None},
             sent : {None} \union [id : L, fields : People]]
    OBVIOUS
<1>3. m8' \in [target : L' \union {None}, fields : People \union {None},
              sent : {None} \union [id : L', fields : People]]
  <2> HIDE DEF L
  <2>1. m8'.sent \in {None} \union [id : L', fields : People]
      BY <1>1, <1>2
  <2> QED
      BY <1>1, <1>2, <2>1
<1> QED
    BY <1>3

LEMMA MembersNext ==
    ASSUME TeamPage!MembersKept, [TeamPage!Next]_TeamPage!teamVars
    PROVE  TeamPage!MembersKept'
<1> DEFINE Mine == <<m1, m5, m7, m8, m10>>
<1>1. CASE TeamPage!ReadTeam
    BY <1>1 DEF TeamPage!ReadTeam, TeamPage!Read, TeamPage!MembersKept,
                TeamPage!Live, TeamPage!OwnProfiles
<1>2. ASSUME NEW m \in People, TeamPage!Hire(m), UNCHANGED <<m5, m8, m10>>,
             m7' \in People \union {None, "open"}
      PROVE  TeamPage!MembersKept'
    BY <1>2, HireKeeps, DialogsKept
<1>3. CASE TeamPage!Added
    BY <1>2, <1>3 DEF TeamPage!Added, TeamPage!MembersKept
<1>4. ASSUME NEW m \in People, TeamPage!OtherHires(m) PROVE TeamPage!MembersKept'
    BY <1>2, <1>4 DEF TeamPage!OtherHires, TeamPage!MembersKept
<1>5. ASSUME NEW m \in People, TeamPage!OpenEdit(m) PROVE TeamPage!MembersKept'
    BY <1>5 DEF TeamPage!OpenEdit, TeamPage!Filled, TeamPage!MembersKept,
                TeamPage!Live, TeamPage!OwnProfiles
<1>6. CASE TeamPage!CloseEdit \/ TeamPage!SaveEdit
    BY <1>6 DEF TeamPage!CloseEdit, TeamPage!SaveEdit, TeamPage!MembersKept,
                TeamPage!Live, TeamPage!OwnProfiles
<1>7. ASSUME NEW ok \in BOOLEAN, TeamPage!Edited(ok) PROVE TeamPage!MembersKept'
  <2>1. CASE ok
    <3>1. m8.sent.id \in TeamPage!Live /\ m8.sent.fields = m8.sent.id
        BY <1>7 DEF TeamPage!Edited, TeamPage!MembersKept
    <3>2. /\ m1' \in [People -> {None} \union Member]
          /\ TeamPage!Live \subseteq TeamPage!Live'
          /\ TeamPage!OwnProfiles'
        BY <1>7, <2>1, <3>1, ChangeKeeps DEF TeamPage!Edited
    <3>3. /\ UNCHANGED <<m5, m7, m10>>
          /\ m8' = [m8 EXCEPT !.sent = None, !.target = None]
        BY <1>7, <2>1 DEF TeamPage!Edited
    <3>4. m8' \in [target : TeamPage!Live' \union {None},
                  fields : People \union {None},
                  sent : {None} \union [id : TeamPage!Live', fields : People]]
          /\ m8'.target = None /\ m8'.sent = None
        BY <3>3 DEF TeamPage!MembersKept
    <3> QED
        BY <3>2, <3>3, <3>4 DEF TeamPage!MembersKept, Member
  <2>2. CASE ~ok
      BY <1>7, <2>2 DEF TeamPage!Edited, TeamPage!MembersKept,
                        TeamPage!Live, TeamPage!OwnProfiles
  <2> QED
      BY <2>1, <2>2
<1>8. ASSUME NEW m \in People, TeamPage!SetStatus(m) PROVE TeamPage!MembersKept'
  <2> DEFINE call == [id |-> m, enabled |-> ~m5[m]]
  <2>1. m5[m] \in BOOLEAN /\ m \in TeamPage!Live
      BY <1>8 DEF TeamPage!SetStatus, TeamPage!AtPage, TeamPage!MembersKept
  <2>2. call \in [id : TeamPage!Live, enabled : BOOLEAN]
      BY <2>1
  <2>3. m10' = m10 \union {call} /\ UNCHANGED <<m1, m5, m7, m8>>
      BY <1>8 DEF TeamPage!SetStatus
  <2> HIDE DEF call
  <2> QED
      BY <2>2, <2>3 DEF TeamPage!MembersKept, TeamPage!Live, TeamPage!OwnProfiles
<1>9. ASSUME NEW a \in m10, TeamPage!set_member_status(a)
      PROVE  TeamPage!MembersKept'
  <2>1. a.id \in TeamPage!Live /\ a.enabled \in BOOLEAN
      BY DEF TeamPage!MembersKept
  <2>2. /\ m1' \in [People -> {None} \union Member]
        /\ TeamPage!Live \subseteq TeamPage!Live'
        /\ TeamPage!OwnProfiles'
      BY <1>9, <2>1, ChangeKeeps DEF TeamPage!set_member_status
  <2> QED
      BY <1>9, <2>2, DialogsKept DEF TeamPage!set_member_status, TeamPage!MembersKept
<1>10. CASE UNCHANGED <<m1, m5, m8, m10>> /\ m7' \in People \union {None, "open"}
    BY <1>10 DEF TeamPage!MembersKept, TeamPage!Live, TeamPage!OwnProfiles
<1> QED
    BY <1>1, <1>3, <1>4, <1>5, <1>6, <1>7, <1>8, <1>9, <1>10
    DEF TeamPage!Next, TeamPage!teamVars, TeamPage!ReadRequests,
        TeamPage!OpenAdd, TeamPage!CloseAdd, TeamPage!CloseReset,
        TeamPage!SendReset, TeamPage!reset_member_password,
        TeamPage!dismiss_request, TeamPage!Add, TeamPage!Ask,
        TeamPage!OpenReset, TeamPage!Dismiss, TeamPage!OtherResets,
        TeamPage!MembersKept

LEMMA RequestsInit == TeamPage!Init => TeamPage!RequestsNumbered
    BY DEF TeamPage!Init, TeamPage!RequestsNumbered, TeamPage!RequestsHeard

LEMMA RequestsNext ==
    ASSUME TeamPage!RequestsNumbered, [TeamPage!Next]_TeamPage!teamVars
    PROVE  TeamPage!RequestsNumbered'
<1> USE DEF TeamPage!RequestsNumbered, TeamPage!RequestsHeard
<1>1. ASSUME NEW m \in People, TeamPage!Ask(m) PROVE TeamPage!RequestsNumbered'
    BY <1>1 DEF TeamPage!Ask
<1>2. ASSUME NEW m \in People, TeamPage!Dismiss(m) PROVE TeamPage!RequestsNumbered'
    BY <1>2 DEF TeamPage!Dismiss
<1>3. ASSUME NEW m, TeamPage!complete_for_user(m), UNCHANGED <<m3, m11>>
      PROVE  TeamPage!RequestsNumbered'
    BY <1>3 DEF TeamPage!complete_for_user
<1>4. CASE TeamPage!reset_member_password \/ \E m \in People : TeamPage!OtherResets(m)
    BY <1>3, <1>4 DEF TeamPage!reset_member_password, TeamPage!OtherResets
<1>5. CASE TeamPage!dismiss_request
    BY <1>5 DEF TeamPage!dismiss_request, TeamPage!Dismissed
<1>6. CASE UNCHANGED <<m2, m3, m4, m11>>
    BY <1>6
<1> QED
    BY <1>1, <1>2, <1>4, <1>5, <1>6
    DEF TeamPage!Next, TeamPage!teamVars, TeamPage!ReadTeam,
        TeamPage!ReadRequests, TeamPage!OpenAdd, TeamPage!CloseAdd,
        TeamPage!Added, TeamPage!CloseEdit, TeamPage!SaveEdit,
        TeamPage!Edited, TeamPage!CloseReset, TeamPage!SendReset,
        TeamPage!set_member_status, TeamPage!Add, TeamPage!OpenEdit,
        TeamPage!SetStatus, TeamPage!OpenReset, TeamPage!OtherHires
-----------------------------------------------------------------------------
(* The super admin's form of a hotel *)

LEMMA FieldsInit == AdminHotelPage!Init => AdminHotelPage!FieldsOfPage
    BY DEF AdminHotelPage!Init, AdminHotelPage!Form!Init,
           AdminHotelPage!FieldsOfPage, AdminHotelPage!Form!FieldsOfHotel,
           AdminHotelPage!Form!OwnHotelSaved

LEMMA FieldsNext ==
    ASSUME AdminHotelPage!FieldsOfPage,
           [AdminHotelPage!Next]_AdminHotelPage!adminVars
    PROVE  AdminHotelPage!FieldsOfPage'
<1> USE DEF AdminHotelPage!FieldsOfPage, AdminHotelPage!Form!FieldsOfHotel,
            AdminHotelPage!Form!OwnHotelSaved
<1>1. CASE AdminHotelPage!HotelComes
    BY <1>1 DEF AdminHotelPage!HotelComes, AdminHotelPage!Form!HotelComes,
                AdminHotelPage!Form!serverVars
<1>2. CASE AdminHotelPage!SaveIdentity
    BY <1>2 DEF AdminHotelPage!SaveIdentity, AdminHotelPage!Form!SaveIdentity,
                AdminHotelPage!Form!formVars
<1>3. ASSUME NEW h \in Hotels, AdminHotelPage!OpenHotel(h)
      PROVE  AdminHotelPage!FieldsOfPage'
    BY <1>3 DEF AdminHotelPage!OpenHotel, AdminHotelPage!Form!SwitchHotel,
                AdminHotelPage!Form!serverVars
<1>4. CASE AdminHotelPage!Refill
    BY <1>4 DEF AdminHotelPage!Refill, AdminHotelPage!Form!Refill,
                AdminHotelPage!Form!serverVars
<1>5. CASE AdminHotelPage!Update
    BY <1>5 DEF AdminHotelPage!Update, AdminHotelPage!Form!Update,
                AdminHotelPage!Form!serverVars, AdminHotelPage!Form!formVars
<1>6. CASE m12 # None /\ UNCHANGED <<m1, m2, m6>>
    BY <1>6
<1>7. CASE UNCHANGED <<m1, m2, m6, m12>>
    BY <1>7
<1>8. CASE AdminHotelPage!SaveTypes \/ AdminHotelPage!SaveRooms
    BY <1>6, <1>8
    DEF AdminHotelPage!SaveTypes, AdminHotelPage!Form!SaveTypes,
        AdminHotelPage!SaveRooms, AdminHotelPage!Form!SaveRooms,
        AdminHotelPage!Form!formVars
<1>9. CASE AdminHotelPage!RoomsCome \/ AdminHotelPage!FillRooms
    BY <1>7, <1>9
    DEF AdminHotelPage!RoomsCome, AdminHotelPage!Form!RoomsCome,
        AdminHotelPage!FillRooms, AdminHotelPage!Form!FillRooms,
        AdminHotelPage!Form!serverVars, AdminHotelPage!Form!formVars
<1>10. ASSUME NEW n, \/ AdminHotelPage!addRoom(n) \/ AdminHotelPage!removeRoom(n)
                     \/ \E c : AdminHotelPage!updateRoom(n, c)
       PROVE  AdminHotelPage!FieldsOfPage'
    BY <1>7, <1>10
    DEF AdminHotelPage!addRoom, AdminHotelPage!Form!addRoomEntry,
        AdminHotelPage!removeRoom, AdminHotelPage!Form!removeRoomEntry,
        AdminHotelPage!updateRoom, AdminHotelPage!Form!updateRoomEntry,
        AdminHotelPage!Form!Row, AdminHotelPage!Form!serverVars
<1>11. CASE \/ AdminHotelPage!addType \/ AdminHotelPage!removeType
            \/ \E k : AdminHotelPage!updateType(k)
    BY <1>7, <1>11
    DEF AdminHotelPage!addType, AdminHotelPage!Form!addTypeEntry,
        AdminHotelPage!removeType, AdminHotelPage!Form!removeTypeEntry,
        AdminHotelPage!updateType, AdminHotelPage!Form!updateTypeEntry,
        AdminHotelPage!Form!deleteSavedType,
        AdminHotelPage!Form!TypeRow, AdminHotelPage!Form!serverVars
<1>12. CASE \/ AdminHotelPage!SaveDetails \/ AdminHotelPage!DetailComes
            \/ AdminHotelPage!FillDetail
            \/ \E m : AdminHotelPage!ChooseMode(m) \/ AdminHotelPage!OtherAdmin(m)
    BY <1>7, <1>12
    DEF AdminHotelPage!SaveDetails, AdminHotelPage!DetailComes,
        AdminHotelPage!FillDetail, AdminHotelPage!ChooseMode,
        AdminHotelPage!OtherAdmin, AdminHotelPage!roomsForm
<1>13. CASE UNCHANGED AdminHotelPage!adminVars
    BY <1>7, <1>13 DEF AdminHotelPage!adminVars, AdminHotelPage!roomsForm
<1> QED
    BY <1>1, <1>2, <1>3, <1>4, <1>5, <1>8, <1>9, <1>10, <1>11, <1>12, <1>13
    DEF AdminHotelPage!Next

\* The rows of the form, on which no type is chosen.
AdminRows ==
    /\ m3 \in [Hotels -> SUBSET {}] /\ m4 \in [Hotels -> [Numbers -> {None}]]
    /\ m5 \in {None} \union [Numbers -> {None}]
    /\ m7 \in [Numbers -> AdminHotelPage!Form!Choices]
    /\ m8 \in [Numbers -> {None}] /\ m9 \in BOOLEAN
    /\ m10 \in {None, AdminHotelPage!Form!NoType} /\ m11 \subseteq Numbers

LEMMA ModesInit == AdminHotelPage!Init => AdminHotelPage!ModesOfPage
    BY DEF AdminHotelPage!Init, AdminHotelPage!Form!Init,
           AdminHotelPage!ModesOfPage, AdminHotelPage!ModeWasWanted,
           AdminHotelPage!Form!Maybe

LEMMA SaveIsNoNull == \A r \in AdminHotelPage!Form!Saves : r # None
    BY NoneAssumption

\* What Goes makes of the update.
Gone(stage, created) ==
    \E part \in {m12.failed, m12.failed \union {m12.stage}} :
        m12' = [m12 EXCEPT !.stage = stage, !.created = created, !.failed = part]

LEMMA SaveGoes ==
    ASSUME m12 \in AdminHotelPage!Form!Saves,
           m12.stage \in AdminHotelPage!Form!Sections,
           NEW stage \in {"types", "rooms", "done"},
           NEW created \in AdminHotelPage!Form!Maybe({}), Gone(stage, created)
    PROVE  m12' \in AdminHotelPage!Form!Saves /\ m12' # None /\ m12'.stage = stage
<1> USE DEF AdminHotelPage!Form!Saves, AdminHotelPage!Form!Sections,
            AdminHotelPage!Form!Maybe
<1>1. PICK part \in {m12.failed, m12.failed \union {m12.stage}} :
            m12' = [m12 EXCEPT !.stage = stage, !.created = created, !.failed = part]
    BY DEF Gone
<1>2. part \subseteq AdminHotelPage!Form!Sections
    OBVIOUS
<1>3. m12' \in AdminHotelPage!Form!Saves /\ m12'.stage = stage
    BY <1>1, <1>2
<1> QED
    BY <1>3, SaveIsNoNull

LEMMA ModesNext ==
    ASSUME AdminHotelPage!ModesOfPage, AdminRows,
           [AdminHotelPage!Next]_AdminHotelPage!adminVars
    PROVE  AdminHotelPage!ModesOfPage'
<1> USE DEF AdminHotelPage!ModesOfPage, AdminHotelPage!ModeWasWanted
<1>1. CASE AdminHotelPage!SaveIdentity
  <2>1. /\ UNCHANGED <<m1, m13, m14, m15, m16, m17, m18>>
        /\ m12 \in AdminHotelPage!Form!Saves /\ m12.stage = "identity"
        /\ Gone("types", None)
      BY <1>1 DEF AdminHotelPage!SaveIdentity, AdminHotelPage!Form!SaveIdentity,
                  AdminHotelPage!Form!Goes, Gone,
                  AdminHotelPage!detailVars, AdminHotelPage!detailForm,
                  AdminHotelPage!Form!Maybe
  <2>2. m12' \in AdminHotelPage!Form!Saves /\ m12' # None /\ m12'.stage = "types"
      BY <2>1, SaveGoes DEF AdminHotelPage!Form!Sections, AdminHotelPage!Form!Maybe
  <2> QED
      BY <2>1, <2>2 DEF AdminHotelPage!Form!Maybe
<1>2. CASE AdminHotelPage!SaveTypes \/ AdminHotelPage!SaveRooms
  <2>1. UNCHANGED <<m1, m13, m14, m15, m16, m17, m18>>
      BY <1>2 DEF AdminHotelPage!SaveTypes, AdminHotelPage!Form!SaveTypes,
                  AdminHotelPage!SaveRooms, AdminHotelPage!Form!SaveRooms,
                  AdminHotelPage!detailVars, AdminHotelPage!detailForm
  <2>2. m12 \in AdminHotelPage!Form!Saves /\ m17 = None
      BY <1>2 DEF AdminHotelPage!SaveTypes, AdminHotelPage!Form!SaveTypes,
                  AdminHotelPage!SaveRooms, AdminHotelPage!Form!SaveRooms,
                  AdminHotelPage!Form!Maybe
  <2>3. CASE AdminHotelPage!SaveTypes
    <3>1. m12.stage = "types" /\ Gone("rooms", None)
        BY <2>3 DEF AdminHotelPage!SaveTypes, AdminHotelPage!Form!SaveTypes,
                    AdminHotelPage!Form!Goes, Gone
    <3> QED
        BY <2>1, <2>2, <3>1, SaveGoes
        DEF AdminHotelPage!Form!Sections, AdminHotelPage!Form!Maybe
  <2>4. CASE AdminHotelPage!SaveRooms
    <3>1. m12.created \in AdminHotelPage!Form!Maybe({})
        BY <2>2 DEF AdminHotelPage!Form!Saves
    <3>2. m12.stage = "rooms" /\ Gone("done", m12.created)
        BY <2>4 DEF AdminHotelPage!SaveRooms, AdminHotelPage!Form!SaveRooms,
                    AdminHotelPage!Form!Goes, Gone
    <3> QED
        BY <2>1, <2>2, <3>1, <3>2, SaveGoes
        DEF AdminHotelPage!Form!Sections, AdminHotelPage!Form!Maybe
  <2> QED
      BY <1>2, <2>3, <2>4
<1>3. CASE AdminHotelPage!Refill
    BY <1>3 DEF AdminHotelPage!Refill, AdminHotelPage!Form!Refill,
                AdminHotelPage!Form!Maybe
<1>4. CASE AdminHotelPage!Update
  <2>1. /\ UNCHANGED <<m1, m13, m14, m15, m16, m18>> /\ (m16 \/ m14 = None)
        /\ m17' = IF AdminHotelPage!modeChanged THEN m15 ELSE None
        /\ m12' = [stage |-> "identity", created |-> None, failed |-> {},
                   rows |-> m7, listed |-> m9]
      BY <1>4 DEF AdminHotelPage!Update, AdminHotelPage!Form!Update
  <2>2. m12' \in AdminHotelPage!Form!Saves /\ m12'.stage = "identity"
      BY <2>1 DEF AdminHotelPage!Form!Saves, AdminHotelPage!Form!Sections,
                  AdminHotelPage!Form!Maybe, AdminRows
  <2>3. m12' # None
      BY <2>2, SaveIsNoNull
  <2>4. m17' \in m18[m1] \union {None}
      BY <2>1 DEF AdminHotelPage!modeChanged
  <2> HIDE DEF AdminHotelPage!ModeWasWanted
  <2> QED
      BY <2>1, <2>2, <2>3, <2>4
      DEF AdminHotelPage!Form!Maybe, AdminHotelPage!ModeWasWanted
<1>5. ASSUME NEW h \in Hotels, AdminHotelPage!OpenHotel(h)
      PROVE  AdminHotelPage!ModesOfPage'
    BY <1>5 DEF AdminHotelPage!OpenHotel, AdminHotelPage!Form!SwitchHotel,
                AdminHotelPage!Full
<1>6. CASE AdminHotelPage!SaveDetails
    BY <1>6 DEF AdminHotelPage!SaveDetails, AdminHotelPage!roomsForm
<1>7. CASE AdminHotelPage!DetailComes \/ AdminHotelPage!FillDetail
    BY <1>7 DEF AdminHotelPage!DetailComes, AdminHotelPage!FillDetail,
                AdminHotelPage!roomsForm
<1>8. ASSUME NEW m \in Modes, AdminHotelPage!ChooseMode(m)
      PROVE  AdminHotelPage!ModesOfPage'
    BY <1>8 DEF AdminHotelPage!ChooseMode, AdminHotelPage!roomsForm
<1>9. ASSUME NEW m \in Modes, AdminHotelPage!OtherAdmin(m)
      PROVE  AdminHotelPage!ModesOfPage'
    BY <1>9 DEF AdminHotelPage!OtherAdmin, AdminHotelPage!roomsForm,
                AdminHotelPage!detailForm
<1>10. CASE UNCHANGED <<m1, m12, m13, m14, m15, m16, m17, m18>>
    BY <1>10
<1>11. CASE \/ AdminHotelPage!HotelComes \/ AdminHotelPage!RoomsCome
            \/ AdminHotelPage!FillRooms
    BY <1>10, <1>11
    DEF AdminHotelPage!HotelComes, AdminHotelPage!Form!HotelComes,
        AdminHotelPage!RoomsCome, AdminHotelPage!Form!RoomsCome,
        AdminHotelPage!FillRooms, AdminHotelPage!Form!FillRooms,
        AdminHotelPage!detailVars, AdminHotelPage!detailForm
<1>12. ASSUME NEW n, \/ AdminHotelPage!addRoom(n) \/ AdminHotelPage!removeRoom(n)
                     \/ \E c : AdminHotelPage!updateRoom(n, c)
       PROVE  AdminHotelPage!ModesOfPage'
    BY <1>10, <1>12
    DEF AdminHotelPage!addRoom, AdminHotelPage!Form!addRoomEntry,
        AdminHotelPage!removeRoom, AdminHotelPage!Form!removeRoomEntry,
        AdminHotelPage!updateRoom, AdminHotelPage!Form!updateRoomEntry,
        AdminHotelPage!Form!Row, AdminHotelPage!detailVars,
        AdminHotelPage!detailForm
<1>13. CASE \/ AdminHotelPage!addType \/ AdminHotelPage!removeType
            \/ \E k : AdminHotelPage!updateType(k)
    BY <1>10, <1>13
    DEF AdminHotelPage!addType, AdminHotelPage!Form!addTypeEntry,
        AdminHotelPage!removeType, AdminHotelPage!Form!removeTypeEntry,
        AdminHotelPage!updateType, AdminHotelPage!Form!updateTypeEntry,
        AdminHotelPage!Form!deleteSavedType,
        AdminHotelPage!Form!TypeRow, AdminHotelPage!detailVars,
        AdminHotelPage!detailForm
<1>14. CASE UNCHANGED AdminHotelPage!adminVars
    BY <1>10, <1>14 DEF AdminHotelPage!adminVars, AdminHotelPage!roomsForm,
                        AdminHotelPage!detailVars, AdminHotelPage!detailForm
<1> QED
    BY <1>1, <1>2, <1>3, <1>4, <1>5, <1>6, <1>7, <1>8, <1>9, <1>11, <1>12,
       <1>13, <1>14
    DEF AdminHotelPage!Next
-----------------------------------------------------------------------------
(* The partner's form of a hotel *)

LEMMA HotelFieldsInit == HotelPage!Init => HotelPage!FieldsOfHotel
    BY DEF HotelPage!Init, HotelPage!FieldsOfHotel, HotelPage!OwnHotelSaved

LEMMA HotelFieldsNext ==
    ASSUME HotelPage!FieldsOfHotel, [HotelPage!Next]_HotelPage!editHotelVars
    PROVE  HotelPage!FieldsOfHotel'
<1> USE DEF HotelPage!FieldsOfHotel, HotelPage!OwnHotelSaved,
            HotelPage!serverVars, HotelPage!formVars
<1>1. CASE HotelPage!HotelComes
    BY <1>1 DEF HotelPage!HotelComes
<1>2. CASE HotelPage!SaveIdentity
    BY <1>2 DEF HotelPage!SaveIdentity
<1>3. ASSUME NEW h \in Hotels, HotelPage!SwitchHotel(h)
      PROVE  HotelPage!FieldsOfHotel'
    BY <1>3 DEF HotelPage!SwitchHotel
<1>4. CASE HotelPage!Refill
    BY <1>4 DEF HotelPage!Refill
<1>5. CASE HotelPage!Update
    BY <1>5 DEF HotelPage!Update
<1>6. CASE m12 # None /\ UNCHANGED <<m1, m2, m6>>
    BY <1>6
<1>7. CASE UNCHANGED <<m1, m2, m6, m12>>
    BY <1>7
<1>8. CASE HotelPage!SaveTypes \/ HotelPage!SaveRooms
    BY <1>6, <1>8 DEF HotelPage!SaveTypes, HotelPage!SaveRooms
<1>9. CASE \/ HotelPage!RoomsCome \/ HotelPage!FillRooms \/ HotelPage!addTypeEntry
           \/ HotelPage!removeTypeEntry \/ UNCHANGED HotelPage!editHotelVars
           \/ \E n, c : HotelPage!Row(n, c)
           \/ \E k : HotelPage!updateTypeEntry(k) \/ HotelPage!deleteSavedType(k)
           \/ \E n, k : HotelPage!OtherDesk(n, k)
    BY <1>7, <1>9
    DEF HotelPage!RoomsCome, HotelPage!FillRooms, HotelPage!addTypeEntry,
        HotelPage!removeTypeEntry, HotelPage!updateTypeEntry, HotelPage!TypeRow,
        HotelPage!editHotelVars, HotelPage!Row, HotelPage!deleteSavedType,
        HotelPage!OtherDesk
<1> QED
    BY <1>1, <1>2, <1>3, <1>4, <1>5, <1>8, <1>9
    DEF HotelPage!Next, HotelPage!addRoomEntry, HotelPage!removeRoomEntry,
        HotelPage!updateRoomEntry

LEMMA RowsInit ==
    ASSUME HotelPage!Init
    PROVE  HotelPage!RowsAsFilled
<1>1. m4 \in [Hotels -> [Numbers -> HotelPage!Maybe(Types)]]
    BY TypesAssumption DEF HotelPage!Init, HotelPage!Maybe
<1>2. m3 \in [Hotels -> SUBSET Types]
    BY TypesAssumption DEF HotelPage!Init
<1> QED
    BY <1>1, <1>2
    DEF HotelPage!Init, HotelPage!RowsAsFilled, HotelPage!Maybe,
        HotelPage!NoRooms, HotelPage!Choices

\* What a row becomes on the server is a room type, or no room.
LEMMA ResolvedType ==
    ASSUME m12 \in HotelPage!Saves, NEW n \in HotelPage!Sent
    PROVE  n \in Numbers /\ HotelPage!Resolved(m12.rows[n]) \in Types
<1>1. m12.rows \in [Numbers -> HotelPage!Choices]
      /\ m12.created \in HotelPage!Maybe(Types)
    BY DEF HotelPage!Saves
<1>2. n \in Numbers /\ m12.rows[n] \in HotelPage!Choices
      /\ HotelPage!Resolved(m12.rows[n]) \notin {None, HotelPage!NoType}
    BY <1>1 DEF HotelPage!Sent, HotelPage!Skipped, HotelPage!Kept
<1>3. CASE m12.rows[n] = HotelPage!New
    BY <1>1, <1>2, <1>3 DEF HotelPage!Resolved, HotelPage!Maybe
<1>4. CASE m12.rows[n] # HotelPage!New
    BY <1>2, <1>4 DEF HotelPage!Resolved, HotelPage!Choices
<1> QED
    BY <1>2, <1>3, <1>4

LEMMA FormSaveGoes ==
    ASSUME m12 \in HotelPage!Saves, m12.stage \in HotelPage!Sections,
           NEW stage \in {"types", "rooms", "done"},
           NEW created \in HotelPage!Maybe(Types), Gone(stage, created)
    PROVE  /\ m12' \in HotelPage!Saves
           /\ m12'.rows = m12.rows /\ m12'.listed = m12.listed
<1> USE DEF HotelPage!Saves, HotelPage!Sections
<1>1. PICK part \in {m12.failed, m12.failed \union {m12.stage}} :
            m12' = [m12 EXCEPT !.stage = stage, !.created = created, !.failed = part]
    BY DEF Gone
<1>2. part \subseteq HotelPage!Sections
    OBVIOUS
<1> QED
    BY <1>1, <1>2

LEMMA RowsNext ==
    ASSUME HotelPage!RowsAsFilled, [HotelPage!Next]_HotelPage!editHotelVars
    PROVE  HotelPage!RowsAsFilled'
<1> USE DEF HotelPage!RowsAsFilled, HotelPage!Maybe, HotelPage!serverVars,
            HotelPage!formVars
<1>1. CASE HotelPage!RoomsCome
    BY <1>1 DEF HotelPage!RoomsCome
<1>2. CASE HotelPage!FillRooms
    BY <1>2 DEF HotelPage!FillRooms, HotelPage!Choices
<1>3. ASSUME NEW h \in Hotels, HotelPage!SwitchHotel(h)
      PROVE  HotelPage!RowsAsFilled'
    BY <1>3 DEF HotelPage!SwitchHotel, HotelPage!NoRooms, HotelPage!Choices
<1>4. ASSUME NEW n \in Numbers, NEW c \in HotelPage!Choices, HotelPage!Row(n, c)
      PROVE  HotelPage!RowsAsFilled'
    BY <1>4 DEF HotelPage!Row, HotelPage!calm
<1>5. CASE HotelPage!addTypeEntry \/ \E k \in Types \union {HotelPage!NoType} :
                                        HotelPage!updateTypeEntry(k)
    BY <1>5 DEF HotelPage!addTypeEntry, HotelPage!updateTypeEntry, HotelPage!TypeRow,
                HotelPage!calm
<1>6. CASE HotelPage!removeTypeEntry
    BY <1>6, TypesAssumption, NoneAssumption
    DEF HotelPage!removeTypeEntry, HotelPage!TypeRow, HotelPage!Choices,
        HotelPage!calm
<1>7. ASSUME NEW k \in Types, HotelPage!deleteSavedType(k)
      PROVE  HotelPage!RowsAsFilled'
    BY <1>7 DEF HotelPage!deleteSavedType, HotelPage!Choices, HotelPage!calm
<1>8. CASE HotelPage!Update
  <2>1. m9 \in BOOLEAN
      BY <1>8 DEF HotelPage!Update
  <2> QED
      BY <1>8 DEF HotelPage!Update, HotelPage!Saves, HotelPage!Sections
<1>9. CASE HotelPage!SaveIdentity
  <2>1. Gone("types", None) /\ m12 \in HotelPage!Saves /\ m12.stage = "identity"
      BY <1>9 DEF HotelPage!SaveIdentity, HotelPage!Goes, Gone
  <2>2. m12' \in HotelPage!Saves /\ m12'.rows = m12.rows /\ m12'.listed = m12.listed
      BY <2>1, FormSaveGoes DEF HotelPage!Sections
  <2> QED
      BY <1>9, <2>2 DEF HotelPage!SaveIdentity
<1>10. CASE HotelPage!SaveTypes
  <2>1. \E created \in HotelPage!Maybe(Types) : Gone("rooms", created)
      BY <1>10 DEF HotelPage!SaveTypes, HotelPage!Goes, Gone
  <2>2. m12 \in HotelPage!Saves /\ m12.stage = "types"
      BY <1>10 DEF HotelPage!SaveTypes
  <2>3. m12' \in HotelPage!Saves /\ m12'.rows = m12.rows /\ m12'.listed = m12.listed
      BY <2>1, <2>2, FormSaveGoes DEF HotelPage!Sections
  <2>4. m3' \in [Hotels -> SUBSET Types]
    <3>1. UNCHANGED m3 \/ (m10 \in Types /\ m3' = [m3 EXCEPT ![m1] = @ \union {m10}])
        BY <1>10 DEF HotelPage!SaveTypes
    <3>2. m3 \in [Hotels -> SUBSET Types]
        OBVIOUS
    <3> QED
        BY <3>1, <3>2
  <2> QED
      BY <1>10, <2>3, <2>4 DEF HotelPage!SaveTypes
<1>11. CASE HotelPage!SaveRooms
  <2>1. m12 \in HotelPage!Saves /\ m12.stage = "rooms" /\ Gone("done", m12.created)
      BY <1>11 DEF HotelPage!SaveRooms, HotelPage!Goes, Gone
  <2>2. m12' \in HotelPage!Saves /\ m12'.rows = m12.rows /\ m12'.listed = m12.listed
      BY <2>1, FormSaveGoes DEF HotelPage!Sections, HotelPage!Saves
  <2> DEFINE left(gone) == [n \in Numbers |-> IF n \in gone THEN None ELSE m4[m1][n]]
  <2>3. \E gone \in SUBSET HotelPage!Deleted : \E done \in SUBSET HotelPage!Sent :
           m4' = [m4 EXCEPT ![m1] = [n \in Numbers |->
                    IF n \in done THEN HotelPage!Resolved(m12.rows[n])
                    ELSE left(gone)[n]]]
    <3>1. PICK gone \in SUBSET {n \in HotelPage!Deleted : m4[m1][n] # None} :
            \E done \in SUBSET {n \in HotelPage!Sent :
                                HotelPage!HasId(n) <=> left(gone)[n] # None} :
              m4' = [m4 EXCEPT ![m1] = [n \in Numbers |->
                       IF n \in done THEN HotelPage!Resolved(m12.rows[n])
                       ELSE left(gone)[n]]]
        BY <1>11, Zenon DEF HotelPage!SaveRooms
    <3> HIDE DEF left
    <3>2. PICK done \in SUBSET {n \in HotelPage!Sent :
                                HotelPage!HasId(n) <=> left(gone)[n] # None} :
              m4' = [m4 EXCEPT ![m1] = [n \in Numbers |->
                       IF n \in done THEN HotelPage!Resolved(m12.rows[n])
                       ELSE left(gone)[n]]]
        BY <3>1, Zenon
    <3>3. gone \in SUBSET HotelPage!Deleted /\ done \in SUBSET HotelPage!Sent
        OBVIOUS
    <3> QED
        BY <3>2, <3>3, Zenon
  <2>4. \A n \in HotelPage!Sent : HotelPage!Resolved(m12.rows[n]) \in Types
      BY <2>1, ResolvedType
  <2>5. m4' \in [Hotels -> [Numbers -> HotelPage!Maybe(Types)]]
      BY <2>3, <2>4
  <2> QED
      BY <1>11, <2>2, <2>5 DEF HotelPage!SaveRooms
<1>12. CASE HotelPage!Refill
    BY <1>12 DEF HotelPage!Refill, HotelPage!NoRooms
<1>13. ASSUME NEW n \in Numbers, NEW k \in HotelPage!Maybe(Old),
              HotelPage!OtherDesk(n, k)
       PROVE  HotelPage!RowsAsFilled'
    BY <1>13, TypesAssumption DEF HotelPage!OtherDesk
<1>14. CASE HotelPage!HotelComes \/ UNCHANGED HotelPage!editHotelVars
    BY <1>14 DEF HotelPage!HotelComes, HotelPage!editHotelVars
<1> QED
    BY <1>1, <1>2, <1>3, <1>4, <1>5, <1>6, <1>7, <1>8, <1>9, <1>10, <1>11,
       <1>12, <1>13, <1>14
    DEF HotelPage!Next, HotelPage!addRoomEntry, HotelPage!removeRoomEntry,
        HotelPage!updateRoomEntry, HotelPage!Choices

\* A row that the desk left alone is neither deleted nor sent.
LEMMA UntouchedKept == HotelPage!RowsAsFilled => HotelPage!UntouchedRoomsKept
<1> SUFFICES ASSUME HotelPage!RowsAsFilled, m12 # None, m12.listed,
                    NEW n \in HotelPage!Deleted \union HotelPage!Sent, n \notin m11
             PROVE  FALSE
    BY DEF HotelPage!UntouchedRoomsKept
<1>1. /\ m12.rows[n] = m7[n] /\ m7[n] \in {m8[n], HotelPage!NoType}
      /\ n \in Numbers /\ m8[n] \in Types \union {None}
    BY DEF HotelPage!RowsAsFilled, HotelPage!Deleted, HotelPage!Sent,
           HotelPage!Kept, HotelPage!Maybe
<1>2. HotelPage!NoType # None /\ HotelPage!NoType # HotelPage!New
      /\ HotelPage!New \notin Types \union {None}
    BY NoneAssumption, TypesAssumption DEF HotelPage!NoType, HotelPage!New
<1> QED
    BY <1>1, <1>2
    DEF HotelPage!Deleted, HotelPage!Sent, HotelPage!Kept, HotelPage!Skipped,
        HotelPage!Resolved, HotelPage!Original, HotelPage!HasId

-----------------------------------------------------------------------------
(* The special requirements *)

LEMMA NoneNoRow == None \notin Names /\ None \notin RequirementIds
    BY NoneAssumption

LEMMA ListsAreNoNull ==
    /\ \A l \in RequirementsPage!Lists : l # None
    /\ \A f \in RequirementsPage!Forms : f # None
    /\ \A s \in SUBSET (RequirementIds \union {None}) : s # None
    BY NoneAssumption DEF RequirementsPage!Lists, RequirementsPage!Maybe

LEMMA ListedInit == RequirementsPage!Init => RequirementsPage!RowsAsListed
    BY DEF RequirementsPage!Init, RequirementsPage!RowsAsListed,
           RequirementsPage!NoRows, RequirementsPage!Maybe,
           RequirementsPage!UntouchedRequirementsKept

\* The calls of an update, when its turn comes: of rows that the desk touched, if
\* a list had filled them at the click.
LEMMA TurnSends ==
    ASSUME RequirementsPage!RowsAsListed, RequirementsPage!RequirementsTurn
    PROVE  /\ m7' \subseteq RequirementIds \union {None}
           /\ \A i \in m7' \ {None} : m6.rows[i] \in RequirementsPage!Maybe(Names)
           /\ None \in m7' => m6.fresh \in Names
           /\ m6.listed => m7' \ {None} \subseteq m9
<1> USE DEF RequirementsPage!RowsAsListed, RequirementsPage!Maybe
<1>1. /\ m7' \subseteq RequirementsPage!Deactivated
                        \union RequirementsPage!Changed \union {None}
      /\ None \in m7' => m6.fresh \in Names
    BY NoneNoRow
    DEF RequirementsPage!RequirementsTurn, RequirementsPage!Deactivated,
        RequirementsPage!Changed
<1>2. \A i \in m7' \ {None} : m6.rows[i] \in RequirementsPage!Maybe(Names)
    BY <1>1 DEF RequirementsPage!Deactivated, RequirementsPage!Changed
<1>3. m7' \subseteq RequirementIds \union {None}
    BY <1>1 DEF RequirementsPage!Deactivated, RequirementsPage!Changed
<1>4. ASSUME m6.listed PROVE m7' \ {None} \subseteq m9
  <2>1. m5 # None /\ m6.rows = m3
      BY <1>4 DEF RequirementsPage!RequirementsTurn
  <2>2. \A i \in RequirementIds \ m9 : m6.rows[i] = RequirementsPage!Original(i)
      BY <2>1 DEF RequirementsPage!Original, RequirementsPage!Known
  <2>3. RequirementsPage!Deactivated \union RequirementsPage!Changed
          \subseteq m9 \intersect RequirementIds
      BY <2>2 DEF RequirementsPage!Deactivated, RequirementsPage!Changed
  <2> QED
      BY <1>1, <2>3
<1> QED
    BY <1>1, <1>2, <1>3, <1>4

LEMMA ListedNext ==
    ASSUME RequirementsPage!RowsAsListed,
           [RequirementsPage!Next]_RequirementsPage!requirementVars
    PROVE  RequirementsPage!RowsAsListed'
<1> USE DEF RequirementsPage!RowsAsListed, RequirementsPage!Maybe,
            RequirementsPage!UntouchedRequirementsKept
<1>1. CASE RequirementsPage!ServicesCome
    BY <1>1, ListsAreNoNull DEF RequirementsPage!ServicesCome
<1>2. CASE RequirementsPage!FillServices
  <2>1. m2 \in RequirementsPage!Lists
      BY <1>2 DEF RequirementsPage!FillServices
  <2>2. m2 \in [RequirementIds -> RequirementsPage!Texts \union {None}]
      BY <2>1 DEF RequirementsPage!Lists, RequirementsPage!Texts
  <2> QED
      BY <1>2, <2>1, <2>2 DEF RequirementsPage!FillServices
<1>3. ASSUME NEW i \in RequirementIds,
             NEW t \in RequirementsPage!Texts \union {None},
             RequirementsPage!Change(i, t)
      PROVE  RequirementsPage!RowsAsListed'
    BY <1>3 DEF RequirementsPage!Change, RequirementsPage!calm, RequirementsPage!NoRows
<1>4. ASSUME NEW t \in RequirementsPage!Texts \union {None},
             RequirementsPage!NewRow(t)
      PROVE  RequirementsPage!RowsAsListed'
    BY <1>4 DEF RequirementsPage!NewRow
<1>5. CASE RequirementsPage!Update
  <2>1. m6' \in RequirementsPage!Forms /\ m6'.rows = m3 /\ (m6'.listed <=> m5 # None)
      BY <1>5 DEF RequirementsPage!Update, RequirementsPage!Forms
  <2>2. m6 = None /\ ~m8 /\ m7 = None
        /\ UNCHANGED <<m1, m2, m3, m4, m5, m7, m8, m9, m10>>
      BY <1>5 DEF RequirementsPage!Update, RequirementsPage!calm
  <2> QED
      BY <2>1, <2>2
<1>6. CASE RequirementsPage!RequirementsTurn
    BY <1>6, TurnSends DEF RequirementsPage!RequirementsTurn
<1>7. ASSUME NEW i \in RequirementIds, RequirementsPage!SaveRequirement(i)
      PROVE  RequirementsPage!RowsAsListed'
  <2>1. m1' \in RequirementsPage!Lists
    <3>1. m6.rows[i] \in RequirementsPage!Maybe(Names)
        BY <1>7, NoneNoRow DEF RequirementsPage!SaveRequirement
    <3> QED
        BY <1>7, <3>1 DEF RequirementsPage!SaveRequirement, RequirementsPage!Lists
  <2> QED
      BY <1>7, <2>1 DEF RequirementsPage!SaveRequirement
<1>8. CASE RequirementsPage!CreateRequirement
  <2>1. m7 # None /\ m6.fresh \in Names
      BY <1>8, ListsAreNoNull DEF RequirementsPage!CreateRequirement
  <2>2. m1' \in RequirementsPage!Lists
      BY <1>8, <2>1 DEF RequirementsPage!CreateRequirement, RequirementsPage!Lists
  <2> QED
      BY <1>8, <2>1, <2>2 DEF RequirementsPage!CreateRequirement
<1>9. CASE RequirementsPage!CallsThrough
    BY <1>9 DEF RequirementsPage!CallsThrough
<1>10. CASE RequirementsPage!Refill
    BY <1>10, ListsAreNoNull DEF RequirementsPage!Refill
<1>11. ASSUME NEW i \in RequirementIds, NEW n \in RequirementsPage!Maybe(Names),
              RequirementsPage!OtherDesk(i, n)
       PROVE  RequirementsPage!RowsAsListed'
    BY <1>11 DEF RequirementsPage!OtherDesk, RequirementsPage!Lists
<1>12. CASE UNCHANGED RequirementsPage!requirementVars
    BY <1>12 DEF RequirementsPage!requirementVars
<1> QED
    BY <1>1, <1>2, <1>3, <1>4, <1>5, <1>6, <1>7, <1>8, <1>9, <1>10, <1>11, <1>12
    DEF RequirementsPage!Next, RequirementsPage!removeReqEntry,
        RequirementsPage!updateReqEntry, RequirementsPage!addReqEntry,
        RequirementsPage!TypeNewRow, RequirementsPage!RemoveNewRow,
        RequirementsPage!Texts

\* A row that was created is created once.
LEMMA CreatedInit == RequirementsPage!Init => RequirementsPage!CreatedThen
    BY DEF RequirementsPage!Init, RequirementsPage!CreatedThen,
           RequirementsPage!CreatedOnce

LEMMA CreatedNext ==
    ASSUME RequirementsPage!RowsAsListed, RequirementsPage!CreatedThen,
           [RequirementsPage!Next]_RequirementsPage!requirementVars
    PROVE  RequirementsPage!CreatedThen'
<1> USE DEF RequirementsPage!CreatedThen, RequirementsPage!CreatedOnce
<1>1. /\ m7 # None => m7 \in SUBSET (RequirementIds \union {None}) /\ ~m8
      /\ m6 # None => ~m8
    BY DEF RequirementsPage!RowsAsListed, RequirementsPage!Maybe
<1>2. CASE RequirementsPage!FillServices
    BY <1>2 DEF RequirementsPage!FillServices
<1>3. ASSUME NEW t, RequirementsPage!NewRow(t) PROVE RequirementsPage!CreatedThen'
    BY <1>3 DEF RequirementsPage!NewRow
<1>4. CASE RequirementsPage!Update
    BY <1>4 DEF RequirementsPage!Update, RequirementsPage!calm
<1>5. CASE RequirementsPage!RequirementsTurn
    BY <1>1, <1>5 DEF RequirementsPage!RequirementsTurn
<1>6. ASSUME NEW i \in RequirementIds, RequirementsPage!SaveRequirement(i)
      PROVE  RequirementsPage!CreatedThen'
  <2>1. m7' \in SUBSET (RequirementIds \union {None}) /\ m7' \subseteq m7
      BY <1>1, <1>6 DEF RequirementsPage!SaveRequirement
  <2>2. m7' # None
      BY <2>1, ListsAreNoNull
  <2> QED
      BY <1>1, <1>6, <2>1, <2>2 DEF RequirementsPage!SaveRequirement
<1>7. CASE RequirementsPage!CreateRequirement
  <2>1. m7 = {None} /\ m7' = {} /\ UNCHANGED <<m5, m6, m8>>
        /\ m10' \in {m10, IF m10 = 0 THEN 1 ELSE 2}
      BY <1>7 DEF RequirementsPage!CreateRequirement
  <2>2. {} \in SUBSET (RequirementIds \union {None})
        /\ {None} \in SUBSET (RequirementIds \union {None})
      OBVIOUS
  <2>3. {} # None /\ {None} # None
      BY <2>2, ListsAreNoNull
  <2>4. m5 # None => m10 = 0
      BY <1>1, <2>1, <2>3
  <2> QED
      BY <2>1, <2>3, <2>4
<1>8. CASE RequirementsPage!CallsThrough
    BY <1>8 DEF RequirementsPage!CallsThrough
<1>9. CASE RequirementsPage!Refill
    BY <1>9 DEF RequirementsPage!Refill
<1>10. CASE UNCHANGED <<m5, m6, m7, m8, m10>>
    BY <1>10
<1> QED
    BY <1>2, <1>3, <1>4, <1>5, <1>6, <1>7, <1>8, <1>9, <1>10
    DEF RequirementsPage!Next, RequirementsPage!requirementVars,
        RequirementsPage!ServicesCome, RequirementsPage!Change,
        RequirementsPage!removeReqEntry, RequirementsPage!updateReqEntry,
        RequirementsPage!addReqEntry, RequirementsPage!TypeNewRow,
        RequirementsPage!RemoveNewRow, RequirementsPage!OtherDesk

-----------------------------------------------------------------------------
(* The super admin's new hotel *)

LEMMA NoneNoStep == None \notin NewHotelPage!Steps
    BY NoneAssumption

LEMMA HotelInit ==
    ASSUME NewHotelPage!Init
    PROVE  NewHotelPage!CreatedSoFar
    BY NoneNoStep
    DEF NewHotelPage!Init, NewHotelPage!CreatedSoFar, NewHotelPage!Steps,
        NewHotelPage!RoomsHaveChosenType, NewHotelPage!MissingReported,
        NewHotelPage!OneHotel

LEMMA HotelNext ==
    ASSUME NewHotelPage!CreatedSoFar, [NewHotelPage!Next]_NewHotelPage!addHotelVars
    PROVE  NewHotelPage!CreatedSoFar'
<1> USE DEF NewHotelPage!CreatedSoFar, NewHotelPage!Steps,
            NewHotelPage!RoomsHaveChosenType, NewHotelPage!MissingReported,
            NewHotelPage!OneHotel, NewHotelPage!NoRoomMissing,
            NewHotelPage!NoMemberMissing, NewHotelPage!validRooms,
            NewHotelPage!validTypes, NewHotelPage!formVars,
            NewHotelPage!serverVars, NewHotelPage!qrVars
<1>0. None \notin {"hotel", "extras", "types", "rooms", "members", "settings", "done"}
    BY NoneNoStep
<1>1. CASE NewHotelPage!Submit
    BY <1>0, <1>1 DEF NewHotelPage!Submit
<1>2. CASE NewHotelPage!CreateHotel
    BY <1>0, <1>2 DEF NewHotelPage!CreateHotel, NewHotelPage!EmailFree
<1>3. CASE NewHotelPage!Extras
    BY <1>0, <1>3 DEF NewHotelPage!Extras
<1>4. CASE NewHotelPage!CreateType
    BY <1>0, <1>4 DEF NewHotelPage!CreateType, NewHotelPage!Fails, NewHotelPage!First
<1>5. CASE NewHotelPage!CreateRoom
    BY <1>0, <1>5 DEF NewHotelPage!CreateRoom, NewHotelPage!Fails, NewHotelPage!madeFor
<1>6. CASE NewHotelPage!CreateMembers
    BY <1>0, <1>6 DEF NewHotelPage!CreateMembers
<1>7. CASE NewHotelPage!Created
    BY <1>0, <1>7 DEF NewHotelPage!Created
<1>8. CASE /\ m2' \in [Numbers -> NewHotelPage!TypeKeys \union {NewHotelPage!NoType, None}]
           /\ UNCHANGED <<m7, m8, m9, m10, m11, m12, m13, m14>>
    BY <1>8
<1>9. ASSUME NEW n \in Numbers,
             \/ NewHotelPage!addRoomEntry(n) \/ NewHotelPage!removeRoomEntry(n)
             \/ \E k \in NewHotelPage!TypeKeys \union {NewHotelPage!NoType} :
                    NewHotelPage!updateRoomEntry(n, k)
      PROVE  NewHotelPage!CreatedSoFar'
    BY <1>8, <1>9
    DEF NewHotelPage!addRoomEntry, NewHotelPage!removeRoomEntry,
        NewHotelPage!updateRoomEntry, NewHotelPage!EditRooms,
        NewHotelPage!First, NewHotelPage!TypeKeys
<1>10. ASSUME NEW k \in NewHotelPage!TypeKeys, NewHotelPage!removeTypeEntry(k)
       PROVE  NewHotelPage!CreatedSoFar'
    BY <1>8, <1>10 DEF NewHotelPage!removeTypeEntry, NewHotelPage!Edit, NewHotelPage!EditRooms
<1> QED
    BY <1>1, <1>2, <1>3, <1>4, <1>5, <1>6, <1>7, <1>8, <1>9, <1>10
    DEF NewHotelPage!Next, NewHotelPage!addHotelVars,
        NewHotelPage!updateTypeEntry, NewHotelPage!addMember,
        NewHotelPage!updateMember, NewHotelPage!setUpiId,
        NewHotelPage!handleLogoChange, NewHotelPage!removeGallerySlot,
        NewHotelPage!FillRequired, NewHotelPage!pollAndLoadQr,
        NewHotelPage!TryFailed, NewHotelPage!Edit, NewHotelPage!EditRooms

-----------------------------------------------------------------------------
(* The bell *)

LEMMA SameCardinality == \A S : Bell!Cardinality(S) = Cardinality(S)
    BY Zenon DEF Bell!Cardinality, Cardinality

\* An entry behind so many newer ones stays behind when more come.
LEMMA LeftForGood ==
    ASSUME NEW S, NEW T \in SUBSET Nat, IsFiniteSet(T), S \subseteq T,
           NEW i \in S, i \notin Bell!Newest(S, Limit)
    PROVE  i \notin Bell!Newest(T, Limit)
<1> DEFINE A == Bell!Newer(S, i)
           B == Bell!Newer(T, i)
<1>1. A \subseteq B /\ B \subseteq T
    BY DEF Bell!Newer
<1>2. IsFiniteSet(B) /\ Cardinality(B) \in Nat
    BY <1>1, FS_Subset, FS_CardinalityType
<1>3. Cardinality(A) <= Cardinality(B) /\ Cardinality(A) \in Nat
    BY <1>1, <1>2, FS_Subset, FS_CardinalityType
<1>4. ~(Cardinality(A) < Limit)
    BY SameCardinality DEF Bell!Newest
<1>5. ~(Cardinality(B) < Limit)
    BY <1>2, <1>3, <1>4, LimitAssumption
<1> QED
    BY <1>5, SameCardinality DEF Bell!Newest

LEMMA NextScopeFinite ==
    ASSUME m2' \in Seq(InUse)
    PROVE  Bell!Scope' \in SUBSET Nat /\ IsFiniteSet(Bell!Scope')
<1>1. Len(m2') \in Nat /\ Bell!Scope' \subseteq 1 .. Len(m2')
    BY DEF Bell!Scope
<1>2. IsFiniteSet(1 .. Len(m2'))
    BY <1>1, FS_Interval
<1>3. IsFiniteSet(Bell!Scope')
    BY <1>1, <1>2, FS_Subset
<1>4. Bell!Scope' \subseteq Nat
    BY <1>1
<1> QED
    BY <1>3, <1>4

LEMMA ScopeGrows ==
    ASSUME m2 \in Seq(InUse), NEW c \in InUse, m2' = Append(m2, c), UNCHANGED m1
    PROVE  m2' \in Seq(InUse) /\ Bell!Scope \subseteq Bell!Scope'
    BY DEF Bell!Scope

LEMMA SpentInit ==
    ASSUME Bell!Init
    PROVE  Bell!SpentOnce
<1>1. m2 = <<>> /\ m7 = [i \in Bell!NoteIds |-> 0] /\ m8 = {}
      /\ m4 = None /\ m6 = None
    BY DEF Bell!Init
<1>2. \A i \in Bell!NoteIds : m7[i] = 0
    BY DEF Bell!Init
<1>3. Bell!Spent = {} /\ Bell!RingsOnce
    BY <1>1, <1>2 DEF Bell!Spent, Bell!RingsOnce
<1>4. m2 \in Seq(InUse) /\ m7 \in [Bell!NoteIds -> Nat]
    BY <1>1
<1> QED
    BY <1>1, <1>3, <1>4 DEF Bell!SpentOnce

\* Only entries that are not spent ring, and all that the bell looks at is known.
LEMMA SpentNext ==
    ASSUME Bell!SpentOnce, [Bell!Next]_Bell!vars
    PROVE  Bell!SpentOnce'
<1>1. ASSUME NEW c \in InUse, Bell!create_notification(c) PROVE Bell!SpentOnce'
  <2> USE DEF Bell!SpentOnce, Bell!RingsOnce, Bell!Spent
  <2>1. m2' = Append(m2, c) /\ UNCHANGED <<m1, m4, m6, m7, m8>>
      BY <1>1 DEF Bell!create_notification, Bell!bellVars
  <2>2. m2' \in Seq(InUse) /\ Bell!Scope \subseteq Bell!Scope'
      BY <2>1, ScopeGrows
  <2>3. Bell!Scope' \in SUBSET Nat /\ IsFiniteSet(Bell!Scope')
      BY <2>2, NextScopeFinite
  <2>4. \A i \in Bell!Scope : i \notin Bell!Newest(Bell!Scope, Limit)
                             => i \notin Bell!Newest(Bell!Scope', Limit)
      BY <2>2, <2>3, LeftForGood
  <2> QED
      BY <2>1, <2>2, <2>4
<1>2. CASE Bell!RefetchBell
  <2> USE DEF Bell!SpentOnce, Bell!RingsOnce, Bell!Spent
  <2>1. UNCHANGED <<m1, m2, m3, m6, m7, m8>> /\ m4'.items = Bell!Newest(Bell!Scope, Limit)
      BY <1>2 DEF Bell!RefetchBell, Bell!serverVars, Bell!list_notifications
  <2>2. Bell!Scope' = Bell!Scope
      BY <2>1 DEF Bell!Scope
  <2>3. Bell!Newest(Bell!Scope, Limit) \subseteq Bell!Scope
      BY DEF Bell!Newest
  <2> QED
      BY <2>1, <2>2, <2>3
<1>3. CASE Bell!BellEffect
  <2> DEFINE new == IF m6 = None THEN {} ELSE Bell!Unread(m4) \ m6
  <2>1. /\ m4 # None /\ UNCHANGED <<m1, m2, m4>>
        /\ m7' = [i \in Bell!NoteIds |-> IF i \in new THEN m7[i] + 1 ELSE m7[i]]
        /\ m8' = IF m6 = None THEN m8 \union {i \in m4.items : m7[i] = 0} ELSE m8
        /\ m6' = IF m6 = None THEN m4.items ELSE m6 \union m4.items
      BY <1>3 DEF Bell!BellEffect, Bell!Seen, Bell!serverVars
  <2>2. /\ m4.items \subseteq Bell!Scope /\ new \subseteq m4.items
        /\ new \intersect Bell!Spent = {}
      BY <2>1 DEF Bell!SpentOnce, Bell!Unread, Bell!Shown
  <2>3. Bell!Scope' = Bell!Scope
      BY <2>1 DEF Bell!Scope
  <2> HIDE DEF new
  <2>4. m7' \in [Bell!NoteIds -> Nat]
      BY <2>1 DEF Bell!SpentOnce
  <2>5. CASE m6 = None
    <3>1. m7' = m7 /\ m8' = m8 \union {i \in m4.items : m7[i] = 0} /\ m6' = m4.items
        BY <2>1, <2>4, <2>5 DEF new, Bell!SpentOnce
    <3>2. Bell!Spent' \subseteq Bell!Spent \union m4.items
        BY <3>1 DEF Bell!Spent
    <3>3. Bell!RingsOnce'
        BY <3>1 DEF Bell!RingsOnce, Bell!SpentOnce
    <3> QED
        BY <2>1, <2>2, <2>3, <2>4, <3>1, <3>2, <3>3 DEF Bell!SpentOnce
  <2>6. CASE m6 # None
    <3>1. Bell!Spent' \subseteq Bell!Spent \union new
        BY <2>1, <2>6 DEF Bell!Spent, Bell!SpentOnce
    <3>2. Bell!RingsOnce'
        BY <2>1, <2>2, <2>6 DEF Bell!RingsOnce, Bell!Spent, Bell!SpentOnce
    <3> QED
        BY <2>1, <2>2, <2>3, <2>4, <2>6, <3>1, <3>2 DEF Bell!SpentOnce
  <2> QED
      BY <2>5, <2>6
<1>4. CASE Bell!Navigate
    BY <1>4 DEF Bell!Navigate, Bell!serverVars, Bell!SpentOnce,
                Bell!RingsOnce, Bell!Spent, Bell!Scope
<1>5. CASE UNCHANGED <<m1, m2, m4, m6, m7, m8>>
    BY <1>5 DEF Bell!SpentOnce, Bell!RingsOnce, Bell!Spent, Bell!Scope
<1> QED
    BY <1>1, <1>2, <1>3, <1>4, <1>5
    DEF Bell!Next, Bell!vars, Bell!serverVars, Bell!bellVars,
        Bell!CooledDown, Bell!onMarkRead, Bell!ReadElsewhere, Bell!setPage,
        Bell!markAll, Bell!mark_read, Bell!MarkFails, Bell!toggleSound,
        Bell!requestBrowserNotificationPermission, Bell!selectTab,
        Bell!toggleGroup, Bell!setActiveCategory

-----------------------------------------------------------------------------
(* The settings of the hotel *)

LEMMA SettingsInit ==
    SettingsPage!Init => /\ SettingsPage!FormTyped /\ SettingsPage!RefreshedShown
                         /\ SettingsPage!PreviewFollows
    BY DEF SettingsPage!Init, SettingsPage!FormTyped, SettingsPage!RefreshedShown,
           SettingsPage!PreviewFollows

\* A new version drops the image that is shown and those asked for.
LEMMA SettingsShow ==
    ASSUME SettingsPage!PreviewFollows, NEW v, SettingsPage!Show(v),
           m9' \in Nat, m9 <= m9', v \in Nat, v <= m9', m13' \subseteq m13
    PROVE  SettingsPage!PreviewFollows'
<1>1. /\ m9 \in Nat /\ m10 \in Nat /\ m10 <= m9
      /\ \A w \in m13 : w \in Nat /\ w <= m9
      /\ \A i \in m14 : /\ i \in [got : Nat, live : BOOLEAN] /\ i.got <= m9
                        /\ i.live => i.got >= m10
      /\ m15 # None => m15 \in Nat /\ m15 >= m10
    BY DEF SettingsPage!PreviewFollows
<1>2. m10' = v
    BY DEF SettingsPage!Show
<1>3. CASE v = m10
  <2>1. UNCHANGED <<m14, m15>>
      BY <1>3 DEF SettingsPage!Show
  <2> QED
      BY <1>1, <1>2, <1>3, <2>1 DEF SettingsPage!PreviewFollows
<1>4. CASE v # m10
  <2>1. m15' = None /\ m14' = {[i EXCEPT !.live = FALSE] : i \in m14}
      BY <1>4 DEF SettingsPage!Show
  <2>2. ASSUME NEW i \in m14'
        PROVE  i \in [got : Nat, live : BOOLEAN] /\ i.got <= m9' /\ i.live = FALSE
    <3>1. PICK j \in m14 : i = [j EXCEPT !.live = FALSE]
        BY <2>1
    <3>2. j \in [got : Nat, live : BOOLEAN] /\ j.got <= m9
        BY <1>1
    <3>3. i = [got |-> j.got, live |-> FALSE]
        BY <3>1, <3>2
    <3>4. j.got \in Nat /\ j.got <= m9'
        BY <1>1, <3>2
    <3> QED
        BY <3>3, <3>4
  <2>3. \A w \in m13' : w \in Nat /\ w <= m9'
      BY <1>1
  <2>4. \A i \in m14' : /\ i \in [got : Nat, live : BOOLEAN] /\ i.got <= m9'
                        /\ i.live => i.got >= m10'
      BY <2>2
  <2> QED
      BY <1>2, <2>1, <2>3, <2>4 DEF SettingsPage!PreviewFollows
<1> QED
    BY <1>3, <1>4

LEMMA SettingsPreviewNext ==
    SettingsPage!PreviewFollows /\ [SettingsPage!Next]_SettingsPage!vars
        => SettingsPage!PreviewFollows'
<1> SUFFICES ASSUME SettingsPage!PreviewFollows, [SettingsPage!Next]_SettingsPage!vars
             PROVE  SettingsPage!PreviewFollows'
    OBVIOUS
<1>1. /\ m9 \in Nat /\ m10 \in Nat /\ m10 <= m9
      /\ \A v \in m13 : v \in Nat /\ v <= m9
      /\ \A i \in m14 : /\ i \in [got : Nat, live : BOOLEAN] /\ i.got <= m9
                        /\ i.live => i.got >= m10
      /\ m15 # None => m15 \in Nat /\ m15 >= m10
    BY DEF SettingsPage!PreviewFollows
<1>2. ASSUME m10' = m9, m14' = {}, m15' = None, UNCHANGED <<m9, m13>>
      PROVE  SettingsPage!PreviewFollows'
    BY <1>1, <1>2 DEF SettingsPage!PreviewFollows
<1>3. ASSUME NEW t \in SettingsPage!Tabs, SettingsPage!handleTabChange(t)
      PROVE  SettingsPage!PreviewFollows'
    BY <1>2, <1>3 DEF SettingsPage!handleTabChange
<1>4. ASSUME NEW r \in SettingsPage!Rights, SettingsPage!ChangeRights(r)
      PROVE  SettingsPage!PreviewFollows'
    BY <1>2, <1>4 DEF SettingsPage!ChangeRights
<1>5. CASE UNCHANGED <<m9, m10, m13, m14, m15>>
    BY <1>5 DEF SettingsPage!PreviewFollows
<1>6. ASSUME NEW ok \in BOOLEAN, SettingsPage!UpiSaved(ok)
      PROVE  SettingsPage!PreviewFollows'
  <2>1. CASE ok
    <3>1. m9' = m9 + 1 /\ SettingsPage!Show(m9') /\ m13' = m13
        BY <1>6, <2>1 DEF SettingsPage!UpiSaved
    <3> QED
        BY <1>1, <3>1, SettingsShow
  <2>2. CASE ~ok
      BY <1>5, <1>6, <2>2 DEF SettingsPage!UpiSaved
  <2> QED
      BY <2>1, <2>2
<1>7. ASSUME NEW v \in 0..MaxVersion, SettingsPage!pollForQr(v)
      PROVE  SettingsPage!PreviewFollows'
  <2>1. m13' = m13 \union {m9} /\ UNCHANGED <<m9, m10, m14, m15>>
      BY <1>7 DEF SettingsPage!pollForQr
  <2> QED
      BY <1>1, <2>1 DEF SettingsPage!PreviewFollows
<1>8. ASSUME NEW v \in 0..MaxVersion, SettingsPage!PollAnswered(v)
      PROVE  SettingsPage!PreviewFollows'
    BY <1>1, <1>8, SettingsShow DEF SettingsPage!PollAnswered
<1>9. CASE SettingsPage!AskImage
  <2>1. /\ m14' = m14 \union {[got |-> m9, live |-> TRUE]}
        /\ UNCHANGED <<m9, m10, m13, m15>>
      BY <1>9 DEF SettingsPage!AskImage
  <2>2. ASSUME NEW i \in m14'
        PROVE  /\ i \in [got : Nat, live : BOOLEAN] /\ i.got <= m9
               /\ i.live => i.got >= m10
    <3>1. CASE i \in m14
        BY <1>1, <3>1
    <3>2. CASE i = [got |-> m9, live |-> TRUE]
      <4>1. i \in [got : Nat, live : BOOLEAN] /\ i.got = m9
          BY <1>1, <3>2
      <4> QED
          BY <1>1, <4>1
    <3> QED
        BY <2>1, <3>1, <3>2
  <2> QED
      BY <1>1, <2>1, <2>2 DEF SettingsPage!PreviewFollows
<1>10. ASSUME NEW i \in SettingsPage!Images, SettingsPage!ImageComes(i)
       PROVE  SettingsPage!PreviewFollows'
  <2>1. /\ i \in m14 /\ m14' = m14 \ {i} /\ UNCHANGED <<m9, m10, m13>>
        /\ m15' = m15 \/ (i.live /\ m15' = i.got)
      BY <1>10 DEF SettingsPage!ImageComes
  <2> QED
      BY <1>1, <2>1 DEF SettingsPage!PreviewFollows
<1>11. CASE \/ SettingsPage!ReadSettings \/ SettingsPage!SaveSettings
            \/ SettingsPage!SettingsSaved \/ SettingsPage!SaveUpi
            \/ \E f \in SettingsPage!Fields, v \in Values :
                 SettingsPage!TypeField(f, v) \/ SettingsPage!OtherDesk(f, v)
            \/ UNCHANGED SettingsPage!vars
    BY <1>5, <1>11
    DEF SettingsPage!ReadSettings, SettingsPage!SaveSettings,
        SettingsPage!SettingsSaved, SettingsPage!SaveUpi, SettingsPage!TypeField,
        SettingsPage!OtherDesk, SettingsPage!vars, SettingsPage!qrVars
<1> QED
    BY <1>3, <1>4, <1>6, <1>7, <1>8, <1>9, <1>10, <1>11 DEF SettingsPage!Next

FormKept == SettingsPage!FormTyped /\ SettingsPage!RefreshedShown

LEMMA FormNext == FormKept /\ [SettingsPage!Next]_SettingsPage!vars => FormKept'
<1> SUFFICES ASSUME FormKept, [SettingsPage!Next]_SettingsPage!vars
             PROVE  FormKept'
    OBVIOUS
<1>1. /\ m3 \in [SettingsPage!Fields -> Values] /\ m5 \in [SettingsPage!Fields -> Values]
      /\ m4 # None => m4 \in [SettingsPage!Fields -> Values]
      /\ m7 # None => m7 \in [SettingsPage!Fields -> Values]
      /\ m4 # None => \A f \in {"time", "mode"} \ m6 : m5[f] = m4[f]
    BY DEF FormKept, SettingsPage!FormTyped, SettingsPage!RefreshedShown
<1>2. ASSUME m3' \in [SettingsPage!Fields -> Values],
             m5' \in [SettingsPage!Fields -> Values],
             m4' # None => m4' \in [SettingsPage!Fields -> Values],
             m7' # None => m7' \in [SettingsPage!Fields -> Values],
             m4' # None => \A f \in {"time", "mode"} \ m6' : m5'[f] = m4'[f]
      PROVE  FormKept'
    BY <1>2 DEF FormKept, SettingsPage!FormTyped, SettingsPage!RefreshedShown
<1>3. CASE UNCHANGED <<m3, m4, m5, m6, m7>>
    BY <1>1, <1>2, <1>3
<1>4. ASSUME NEW t \in SettingsPage!Tabs, SettingsPage!handleTabChange(t)
      PROVE  FormKept'
    BY <1>1, <1>2, <1>4 DEF SettingsPage!handleTabChange
<1>5. CASE SettingsPage!ReadSettings
  <2>1. m4' = m3 /\ UNCHANGED <<m3, m7>> /\ m5' = SettingsPage!Refilled(m3)
      BY <1>5 DEF SettingsPage!ReadSettings
  <2>2. CASE m4 = None \/ m4["mode"] # m3["mode"]
    <3>1. m5' = m3
        BY <2>1, <2>2 DEF SettingsPage!Refilled
    <3> QED
        BY <1>1, <1>2, <2>1, <3>1
  <2>3. CASE ~(m4 = None \/ m4["mode"] # m3["mode"])
    <3>1. m5' = [m5 EXCEPT !["time"] = m3["time"]] /\ m6' = m6 \ {"time"}
        BY <1>5, <2>1, <2>3 DEF SettingsPage!Refilled, SettingsPage!ReadSettings
    <3>2. {"time", "mode"} \subseteq SettingsPage!Fields
        BY DEF SettingsPage!Fields
    <3>3. m5'["time"] = m3["time"] /\ m5'["mode"] = m5["mode"]
        BY <1>1, <3>1, <3>2
    <3>4. m5' \in [SettingsPage!Fields -> Values]
        BY <1>1, <3>1, <3>2
    <3>5. "mode" \notin m6 => m5["mode"] = m3["mode"]
        BY <1>1, <2>3
    <3> QED
        BY <1>1, <1>2, <2>1, <3>1, <3>3, <3>4, <3>5
  <2> QED
      BY <2>2, <2>3
<1>6. ASSUME NEW f \in SettingsPage!Fields, NEW v \in Values, SettingsPage!TypeField(f, v)
      PROVE  FormKept'
  <2>1. /\ m5' = [m5 EXCEPT ![f] = v] /\ m6' = m6 \union {f}
        /\ UNCHANGED <<m3, m4, m7>>
      BY <1>6 DEF SettingsPage!TypeField
  <2>2. \A g \in SettingsPage!Fields : g # f => m5'[g] = m5[g]
      BY <1>1, <2>1
  <2>3. {"time", "mode"} \subseteq SettingsPage!Fields
      BY DEF SettingsPage!Fields
  <2> QED
      BY <1>1, <1>2, <2>1, <2>2, <2>3
<1>7. ASSUME NEW f \in SettingsPage!Fields, NEW v \in Values, SettingsPage!OtherDesk(f, v)
      PROVE  FormKept'
  <2>1. m3' = [m3 EXCEPT ![f] = v] /\ UNCHANGED <<m4, m5, m6, m7>>
      BY <1>7 DEF SettingsPage!OtherDesk
  <2> QED
      BY <1>1, <1>2, <2>1
<1>8. CASE SettingsPage!SaveSettings
  <2>1. m7' = m5 /\ UNCHANGED <<m3, m4, m5, m6>>
      BY <1>8 DEF SettingsPage!SaveSettings
  <2> QED
      BY <1>1, <1>2, <2>1
<1>9. CASE SettingsPage!SettingsSaved
  <2>1. m7 # None /\ m3' \in {m7, m3} /\ m7' = None /\ UNCHANGED <<m4, m5, m6>>
      BY <1>9 DEF SettingsPage!SettingsSaved
  <2> QED
      BY <1>1, <1>2, <2>1
<1>10. CASE \/ \E r \in SettingsPage!Rights : SettingsPage!ChangeRights(r)
            \/ SettingsPage!SaveUpi \/ SettingsPage!AskImage
            \/ \E ok \in BOOLEAN : SettingsPage!UpiSaved(ok)
            \/ \E v \in 0..MaxVersion :
                 SettingsPage!pollForQr(v) \/ SettingsPage!PollAnswered(v)
            \/ \E i \in SettingsPage!Images : SettingsPage!ImageComes(i)
            \/ UNCHANGED SettingsPage!vars
    BY <1>3, <1>10
    DEF SettingsPage!ChangeRights, SettingsPage!SaveUpi, SettingsPage!AskImage,
        SettingsPage!UpiSaved, SettingsPage!pollForQr, SettingsPage!PollAnswered,
        SettingsPage!ImageComes, SettingsPage!vars, SettingsPage!formVars
<1> QED
    BY <1>4, <1>5, <1>6, <1>7, <1>8, <1>9, <1>10 DEF SettingsPage!Next

LEMMA PaymentSettingsInit == PaymentSettings!Init => PaymentSettings!PreviewFollows
    BY DEF PaymentSettings!Init, PaymentSettings!PreviewFollows

LEMMA PaymentSettingsShow ==
    ASSUME PaymentSettings!PreviewFollows, NEW v, PaymentSettings!Show(v),
           m9' \in Nat, m9 <= m9', v \in Nat, v <= m9', m13' \subseteq m13
    PROVE  PaymentSettings!PreviewFollows'
<1>1. /\ m9 \in Nat /\ m10 \in Nat /\ m10 <= m9
      /\ \A w \in m13 : w \in Nat /\ w <= m9
      /\ \A i \in m14 : /\ i \in [got : Nat, live : BOOLEAN] /\ i.got <= m9
                        /\ i.live => i.got >= m10
      /\ m15 # None => m15 \in Nat /\ m15 >= m10
    BY DEF PaymentSettings!PreviewFollows
<1>2. m10' = v
    BY DEF PaymentSettings!Show
<1>3. CASE v = m10
  <2>1. UNCHANGED <<m14, m15>>
      BY <1>3 DEF PaymentSettings!Show
  <2> QED
      BY <1>1, <1>2, <1>3, <2>1 DEF PaymentSettings!PreviewFollows
<1>4. CASE v # m10
  <2>1. m15' = None /\ m14' = {[i EXCEPT !.live = FALSE] : i \in m14}
      BY <1>4 DEF PaymentSettings!Show
  <2>2. ASSUME NEW i \in m14'
        PROVE  i \in [got : Nat, live : BOOLEAN] /\ i.got <= m9' /\ i.live = FALSE
    <3>1. PICK j \in m14 : i = [j EXCEPT !.live = FALSE]
        BY <2>1
    <3>2. j \in [got : Nat, live : BOOLEAN] /\ j.got <= m9
        BY <1>1
    <3>3. i = [got |-> j.got, live |-> FALSE]
        BY <3>1, <3>2
    <3>4. j.got \in Nat /\ j.got <= m9'
        BY <1>1, <3>2
    <3> QED
        BY <3>3, <3>4
  <2>3. \A w \in m13' : w \in Nat /\ w <= m9'
      BY <1>1
  <2>4. \A i \in m14' : /\ i \in [got : Nat, live : BOOLEAN] /\ i.got <= m9'
                        /\ i.live => i.got >= m10'
      BY <2>2
  <2> QED
      BY <1>2, <2>1, <2>3, <2>4 DEF PaymentSettings!PreviewFollows
<1> QED
    BY <1>3, <1>4

LEMMA PaymentSettingsNext ==
    PaymentSettings!PreviewFollows /\ [PaymentSettings!Next]_PaymentSettings!vars
        => PaymentSettings!PreviewFollows'
<1> SUFFICES ASSUME PaymentSettings!PreviewFollows, [PaymentSettings!Next]_PaymentSettings!vars
             PROVE  PaymentSettings!PreviewFollows'
    OBVIOUS
<1>1. /\ m9 \in Nat /\ m10 \in Nat /\ m10 <= m9
      /\ \A v \in m13 : v \in Nat /\ v <= m9
      /\ \A i \in m14 : /\ i \in [got : Nat, live : BOOLEAN] /\ i.got <= m9
                        /\ i.live => i.got >= m10
      /\ m15 # None => m15 \in Nat /\ m15 >= m10
    BY DEF PaymentSettings!PreviewFollows
<1>2. ASSUME m10' = m9, m14' = {}, m15' = None, UNCHANGED <<m9, m13>>
      PROVE  PaymentSettings!PreviewFollows'
    BY <1>1, <1>2 DEF PaymentSettings!PreviewFollows
<1>3. ASSUME NEW t \in PaymentSettings!Tabs, PaymentSettings!handleTabChange(t)
      PROVE  PaymentSettings!PreviewFollows'
    BY <1>2, <1>3 DEF PaymentSettings!handleTabChange
<1>4. ASSUME NEW r \in PaymentSettings!Rights, PaymentSettings!ChangeRights(r)
      PROVE  PaymentSettings!PreviewFollows'
    BY <1>2, <1>4 DEF PaymentSettings!ChangeRights
<1>5. CASE UNCHANGED <<m9, m10, m13, m14, m15>>
    BY <1>5 DEF PaymentSettings!PreviewFollows
<1>6. ASSUME NEW ok \in BOOLEAN, PaymentSettings!UpiSaved(ok)
      PROVE  PaymentSettings!PreviewFollows'
  <2>1. CASE ok
    <3>1. m9' = m9 + 1 /\ PaymentSettings!Show(m9') /\ m13' = m13
        BY <1>6, <2>1 DEF PaymentSettings!UpiSaved
    <3> QED
        BY <1>1, <3>1, PaymentSettingsShow
  <2>2. CASE ~ok
      BY <1>5, <1>6, <2>2 DEF PaymentSettings!UpiSaved
  <2> QED
      BY <2>1, <2>2
<1>7. ASSUME NEW v \in 0..3, PaymentSettings!pollForQr(v)
      PROVE  PaymentSettings!PreviewFollows'
  <2>1. m13' = m13 \union {m9} /\ UNCHANGED <<m9, m10, m14, m15>>
      BY <1>7 DEF PaymentSettings!pollForQr
  <2> QED
      BY <1>1, <2>1 DEF PaymentSettings!PreviewFollows
<1>8. ASSUME NEW v \in 0..3, PaymentSettings!PollAnswered(v)
      PROVE  PaymentSettings!PreviewFollows'
    BY <1>1, <1>8, PaymentSettingsShow DEF PaymentSettings!PollAnswered
<1>9. CASE PaymentSettings!AskImage
  <2>1. /\ m14' = m14 \union {[got |-> m9, live |-> TRUE]}
        /\ UNCHANGED <<m9, m10, m13, m15>>
      BY <1>9 DEF PaymentSettings!AskImage
  <2>2. ASSUME NEW i \in m14'
        PROVE  /\ i \in [got : Nat, live : BOOLEAN] /\ i.got <= m9
               /\ i.live => i.got >= m10
    <3>1. CASE i \in m14
        BY <1>1, <3>1
    <3>2. CASE i = [got |-> m9, live |-> TRUE]
      <4>1. i \in [got : Nat, live : BOOLEAN] /\ i.got = m9
          BY <1>1, <3>2
      <4> QED
          BY <1>1, <4>1
    <3> QED
        BY <2>1, <3>1, <3>2
  <2> QED
      BY <1>1, <2>1, <2>2 DEF PaymentSettings!PreviewFollows
<1>10. ASSUME NEW i \in PaymentSettings!Images, PaymentSettings!ImageComes(i)
       PROVE  PaymentSettings!PreviewFollows'
  <2>1. /\ i \in m14 /\ m14' = m14 \ {i} /\ UNCHANGED <<m9, m10, m13>>
        /\ m15' = m15 \/ (i.live /\ m15' = i.got)
      BY <1>10 DEF PaymentSettings!ImageComes
  <2> QED
      BY <1>1, <2>1 DEF PaymentSettings!PreviewFollows
<1>11. CASE \/ PaymentSettings!ReadSettings \/ PaymentSettings!SaveSettings
            \/ PaymentSettings!SettingsSaved \/ PaymentSettings!SaveUpi
            \/ \E f \in PaymentSettings!Fields, v \in {0} :
                 PaymentSettings!TypeField(f, v) \/ PaymentSettings!OtherDesk(f, v)
            \/ UNCHANGED PaymentSettings!vars
    BY <1>5, <1>11
    DEF PaymentSettings!ReadSettings, PaymentSettings!SaveSettings,
        PaymentSettings!SettingsSaved, PaymentSettings!SaveUpi, PaymentSettings!TypeField,
        PaymentSettings!OtherDesk, PaymentSettings!vars, PaymentSettings!qrVars
<1> QED
    BY <1>3, <1>4, <1>6, <1>7, <1>8, <1>9, <1>10, <1>11 DEF PaymentSettings!Next

-----------------------------------------------------------------------------
(* The pictures of the hotel *)

Shot == Pictures \union {None}
OneRead == [place : PicturesPanel!Places, of : Nat, got : Shot \union {PicturesPanel!Asked}]

\* The parts of ReadsSettle.
PicturesTyped ==
    /\ m3 \in [PicturesPanel!Places -> Nat] /\ m4 \in [PicturesPanel!Places -> Shot]
    /\ m1 \in [PicturesPanel!Places -> Shot] /\ m2 \subseteq Slots
    /\ m6 \subseteq [kind : PicturesPanel!Kinds, place : PicturesPanel!Places,
                     picture : Shot, done : BOOLEAN]
    /\ \A c \in m6 : c.kind = "logo" <=> c.place = PicturesPanel!Logo
    /\ m5 \subseteq OneRead
    /\ \A r \in m5 : r.place \in m2 \union {PicturesPanel!Logo} /\ r.of <= m3[r.place]
PlacesEmpty ==
    \A p \in PicturesPanel!Places \ (m2 \union {PicturesPanel!Logo}) : m4[p] = None
PlacesBring ==
    \A p \in (m2 \union {PicturesPanel!Logo}) \ m9 :
        PicturesPanel!Pending(p) \/ PicturesPanel!Brings(p)
SlotsListed ==
    \A s \in Slots \ m9 :
        PicturesPanel!Pending(s) \/ m7 \/ (s \in m2 <=> m1[s] # None)

PicturesSettle == PicturesTyped /\ PlacesEmpty /\ PlacesBring /\ SlotsListed

LEMMA SettleParts ==
    PicturesPanel!ReadsSettle
        <=> PicturesSettle
<1>1. (m5 \subseteq [place : PicturesPanel!Shown, of : Nat,
                     got : Pictures \union {None, PicturesPanel!Asked}]
         /\ m2 \subseteq Slots)
      <=> (m5 \subseteq OneRead
             /\ (\A r \in m5 : r.place \in m2 \union {PicturesPanel!Logo})
             /\ m2 \subseteq Slots)
    BY DEF OneRead, Shot, PicturesPanel!Shown, PicturesPanel!Places
<1> QED
    BY <1>1
    DEF PicturesPanel!ReadsSettle, PicturesSettle, PicturesTyped, PlacesEmpty, PlacesBring,
        SlotsListed, PicturesPanel!Shown, Shot

LEMMA PicturesInit == PicturesPanel!Init => PicturesSettle
<1> SUFFICES ASSUME PicturesPanel!Init
             PROVE  PicturesSettle
    OBVIOUS
<1>1. /\ m1 \in [PicturesPanel!Places -> Shot]
      /\ m2 = {s \in Slots : m1[s] # None}
      /\ m3 = [p \in PicturesPanel!Places |-> 0]
      /\ m4 = [p \in PicturesPanel!Places |-> None]
      /\ m5 = {[place |-> p, of |-> 0, got |-> PicturesPanel!Asked] :
                 p \in m2 \union {PicturesPanel!Logo}}
      /\ m6 = {} /\ m7 = FALSE /\ m9 = {}
    BY DEF PicturesPanel!Init, PicturesPanel!Read, Shot
<1>2. Slots \subseteq PicturesPanel!Places /\ PicturesPanel!Logo \in PicturesPanel!Places
    BY DEF PicturesPanel!Places
<1>3. PicturesTyped
    BY <1>1, <1>2 DEF PicturesTyped, OneRead, Shot
<1>4. PlacesEmpty
    BY <1>1 DEF PlacesEmpty
<1>5. PlacesBring
  <2> SUFFICES ASSUME NEW p \in m2 \union {PicturesPanel!Logo}
               PROVE  PicturesPanel!Brings(p)
      BY DEF PlacesBring
  <2> DEFINE r == [place |-> p, of |-> 0, got |-> PicturesPanel!Asked]
  <2>1. p \in PicturesPanel!Places
      BY <1>1, <1>2
  <2>2. r \in m5 /\ r.place = p /\ r.of = m3[p]
      BY <1>1, <2>1
  <2>3. \A q \in m5 : q.got = PicturesPanel!Asked
      BY <1>1
  <2> HIDE DEF r
  <2> QED
      BY <2>2, <2>3 DEF PicturesPanel!Brings
<1>6. SlotsListed
    BY <1>1 DEF SlotsListed
<1> QED
    BY <1>3, <1>4, <1>5, <1>6 DEF PicturesSettle

LEMMA ServerReadsSettle ==
    ASSUME PicturesSettle, NEW r \in m5, PicturesPanel!ServerReads(r)
    PROVE  PicturesSettle'
<1>1. r \in OneRead /\ r.place \in m2 \union {PicturesPanel!Logo} /\ r.of <= m3[r.place]
    BY DEF PicturesSettle, PicturesTyped
<1> DEFINE q == [place |-> r.place, of |-> r.of, got |-> m1[r.place]]
<1>2. [r EXCEPT !.got = m1[r.place]] = q
    BY <1>1 DEF OneRead
<1>3. m5' = (m5 \ {r}) \union {q} /\ UNCHANGED <<m1, m2, m3, m4, m6, m7, m9>>
    BY <1>2 DEF PicturesPanel!ServerReads
<1>4. q \in OneRead /\ q.place = r.place /\ q.of = r.of /\ q.got = m1[r.place]
    BY <1>1 DEF OneRead, PicturesSettle, PicturesTyped
<1> HIDE DEF q
<1>5. PicturesTyped'
    BY <1>1, <1>3, <1>4 DEF PicturesSettle, PicturesTyped
<1>6. PlacesBring'
  <2> SUFFICES ASSUME NEW p \in (m2 \union {PicturesPanel!Logo}) \ m9,
                      ~PicturesPanel!Pending(p)
               PROVE  PicturesPanel!Brings(p)'
      BY <1>3 DEF PlacesBring, PicturesPanel!Pending
  <2>1. PicturesPanel!Brings(p)
      BY DEF PicturesSettle, PlacesBring
  <2> QED
      BY <1>3, <1>4, <2>1 DEF PicturesPanel!Brings
<1> QED
    BY <1>3, <1>5, <1>6
    DEF PicturesSettle, PlacesEmpty, SlotsListed, PicturesPanel!Pending

LEMMA PictureComesSettle ==
    ASSUME PicturesSettle, NEW r \in m5, PicturesPanel!PictureComes(r)
    PROVE  PicturesSettle'
<1>1. r \in OneRead /\ r.place \in m2 \union {PicturesPanel!Logo} /\ r.of <= m3[r.place]
    BY DEF PicturesSettle, PicturesTyped
<1>2. /\ r.got # PicturesPanel!Asked /\ m5' = m5 \ {r}
      /\ m4' = IF r.of = m3[r.place] THEN [m4 EXCEPT ![r.place] = r.got] ELSE m4
      /\ UNCHANGED <<m1, m2, m3, m6, m7, m9>>
    BY <1>1 DEF PicturesPanel!PictureComes, PicturesPanel!Current, PicturesPanel!Shown
<1>3. /\ m4' \in [PicturesPanel!Places -> Shot]
      /\ \A p \in PicturesPanel!Places :
           m4'[p] = IF r.of = m3[r.place] /\ p = r.place THEN r.got ELSE m4[p]
    BY <1>1, <1>2 DEF PicturesSettle, PicturesTyped, OneRead
<1>4. PicturesTyped'
    BY <1>2, <1>3 DEF PicturesSettle, PicturesTyped
<1>5. PlacesEmpty'
    BY <1>1, <1>2, <1>3 DEF PicturesSettle, PlacesEmpty
<1>6. PlacesBring'
  <2> SUFFICES ASSUME NEW p \in (m2 \union {PicturesPanel!Logo}) \ m9,
                      ~PicturesPanel!Pending(p)
               PROVE  PicturesPanel!Brings(p)'
      BY <1>2 DEF PlacesBring, PicturesPanel!Pending
  <2>1. PicturesPanel!Brings(p)
      BY DEF PicturesSettle, PlacesBring
  <2>2. p \in PicturesPanel!Places
      BY DEF PicturesPanel!Places, PicturesSettle, PicturesTyped
  <2> QED
      BY <1>2, <1>3, <2>1, <2>2 DEF PicturesPanel!Brings
<1> QED
    BY <1>2, <1>4, <1>5, <1>6 DEF PicturesSettle, SlotsListed, PicturesPanel!Pending

LEMMA GalleryComesSettle ==
    ASSUME PicturesSettle, PicturesPanel!GalleryComes
    PROVE  PicturesSettle'
<1> DEFINE Fresh(s) == [place |-> s, of |-> m3[s], got |-> PicturesPanel!Asked]
           News == {Fresh(s) : s \in m2' \ m2}
<1>1. /\ m2' = {s \in Slots : m1[s] # None} /\ m7' = FALSE
      /\ m5' = {r \in m5 : r.place \in m2' \union {PicturesPanel!Logo}} \union News
      /\ m4' = [p \in PicturesPanel!Places |-> IF p \in Slots \ m2' THEN None ELSE m4[p]]
      /\ UNCHANGED <<m1, m3, m6, m9>>
    BY DEF PicturesPanel!GalleryComes, PicturesPanel!Read
<1>2. /\ Slots \subseteq PicturesPanel!Places /\ PicturesPanel!Logo \in PicturesPanel!Places
      /\ PicturesPanel!Logo \notin Slots /\ m2' \subseteq Slots
      /\ \A p \in PicturesPanel!Places : p \in Slots \/ p = PicturesPanel!Logo
    BY <1>1, SlotsAssumption DEF PicturesPanel!Places
<1>3. \A s \in m2' \ m2 : /\ Fresh(s) \in OneRead /\ Fresh(s).place = s
                          /\ Fresh(s).of = m3[s] /\ Fresh(s).got = PicturesPanel!Asked
    BY <1>2 DEF OneRead, PicturesSettle, PicturesTyped
<1>4. \A r \in News : /\ r \in OneRead /\ r.place \in m2' \ m2
                      /\ r.of = m3[r.place] /\ r.got = PicturesPanel!Asked
    BY <1>3
<1>5. \A s \in m2' \ m2 : \E r \in News : r.place = s /\ r.of = m3[s]
    BY <1>3
<1>6. \A s \in m2' \ m2 : m3[s] \in Nat
    BY <1>2 DEF PicturesSettle, PicturesTyped
<1> HIDE DEF News, Fresh
<1>7. m4' \in [PicturesPanel!Places -> Shot]
    BY <1>1 DEF PicturesSettle, PicturesTyped, Shot
<1>8. /\ m5' \subseteq OneRead
      /\ \A r \in m5' : r.place \in m2' \union {PicturesPanel!Logo} /\ r.of <= m3[r.place]
    BY <1>1, <1>4, <1>6 DEF PicturesSettle, PicturesTyped
<1>9. PicturesTyped'
    BY <1>1, <1>2, <1>7, <1>8 DEF PicturesSettle, PicturesTyped
<1>10. PlacesEmpty'
    BY <1>1, <1>2 DEF PlacesEmpty
<1>11. PlacesBring'
  <2> SUFFICES ASSUME NEW p \in (m2' \union {PicturesPanel!Logo}) \ m9,
                      ~PicturesPanel!Pending(p)
               PROVE  PicturesPanel!Brings(p)'
      BY <1>1 DEF PlacesBring, PicturesPanel!Pending
  <2>1. CASE p \in m2' \ m2
    <3>1. \A r \in m5 : r.place # p
        BY <1>2, <2>1 DEF PicturesSettle, PicturesTyped
    <3> QED
        BY <1>1, <1>4, <1>5, <2>1, <3>1 DEF PicturesPanel!Brings
  <2>2. CASE p \notin m2' \ m2
    <3>1. p \in (m2 \union {PicturesPanel!Logo}) \ m9 /\ m4'[p] = m4[p]
        BY <1>1, <1>2, <2>2
    <3>2. PicturesPanel!Brings(p)
        BY <3>1 DEF PicturesSettle, PlacesBring
    <3>3. \A r : r.place = p => (r \in m5' <=> r \in m5)
        BY <1>1, <1>4, <2>2
    <3> QED
        BY <1>1, <3>1, <3>2, <3>3 DEF PicturesPanel!Brings
  <2> QED
      BY <2>1, <2>2
<1>12. SlotsListed'
    BY <1>1 DEF SlotsListed
<1> QED
    BY <1>9, <1>10, <1>11, <1>12 DEF PicturesSettle

LEMMA SendSettles ==
    ASSUME PicturesSettle, NEW kind \in PicturesPanel!Kinds, NEW place \in PicturesPanel!Places,
           NEW picture \in Shot, kind = "logo" <=> place = PicturesPanel!Logo,
           PicturesPanel!Send(kind, place, picture)
    PROVE  PicturesSettle'
<1> DEFINE c == [kind |-> kind, place |-> place, picture |-> picture, done |-> FALSE]
<1>1. m6' = m6 \union {c} /\ UNCHANGED <<m1, m2, m3, m4, m5, m7, m9>>
    BY DEF PicturesPanel!Send
<1>2. /\ c \in [kind : PicturesPanel!Kinds, place : PicturesPanel!Places,
                picture : Shot, done : BOOLEAN]
      /\ c.kind = kind /\ c.place = place
    OBVIOUS
<1> HIDE DEF c
<1>3. PicturesTyped'
    BY <1>1, <1>2 DEF PicturesSettle, PicturesTyped
<1>4. \A p : PicturesPanel!Pending(p) => PicturesPanel!Pending(p)'
    BY <1>1 DEF PicturesPanel!Pending
<1>5. \A p : PicturesPanel!Brings(p) => PicturesPanel!Brings(p)'
    BY <1>1 DEF PicturesPanel!Brings
<1>6. PlacesBring'
    BY <1>1, <1>4, <1>5 DEF PicturesSettle, PlacesBring
<1>7. SlotsListed'
    BY <1>1, <1>4 DEF PicturesSettle, SlotsListed
<1> QED
    BY <1>1, <1>3, <1>6, <1>7 DEF PicturesSettle, PlacesEmpty

LEMMA ServerStoresSettle ==
    ASSUME PicturesSettle, NEW c \in m6, PicturesPanel!ServerStores(c)
    PROVE  PicturesSettle'
<1> DEFINE d == [c EXCEPT !.done = TRUE]
<1>1. c \in [kind : PicturesPanel!Kinds, place : PicturesPanel!Places,
             picture : Shot, done : BOOLEAN]
    BY DEF PicturesSettle, PicturesTyped
<1>2. c.kind = "logo" <=> c.place = PicturesPanel!Logo
    BY DEF PicturesSettle, PicturesTyped
<1>3. /\ ~c.done /\ m6' = (m6 \ {c}) \union {d} /\ UNCHANGED <<m2, m3, m4, m5, m7, m9>>
      /\ m1' = [m1 EXCEPT ![c.place] = c.picture]
    BY DEF PicturesPanel!ServerStores
<1>4. /\ d \in [kind : PicturesPanel!Kinds, place : PicturesPanel!Places,
                picture : Shot, done : BOOLEAN]
      /\ d.kind = c.kind /\ d.place = c.place /\ d.done
  <2>1. d \in [kind : PicturesPanel!Kinds, place : PicturesPanel!Places,
               picture : Shot, done : BOOLEAN]
      BY <1>1
  <2>2. d.kind = c.kind /\ d.place = c.place
      BY <1>1
  <2>3. d.done
      BY Zenon, <1>1
  <2> QED
      BY <2>1, <2>2, <2>3
<1> HIDE DEF d
<1>5. /\ m1' \in [PicturesPanel!Places -> Shot]
      /\ \A p \in PicturesPanel!Places : p # c.place => m1'[p] = m1[p]
    BY <1>1, <1>3 DEF PicturesSettle, PicturesTyped
<1>6. PicturesTyped'
    BY <1>1, <1>2, <1>3, <1>4, <1>5 DEF PicturesSettle, PicturesTyped
<1>7. \A p : ~PicturesPanel!Pending(p)' => ~PicturesPanel!Pending(p) /\ p # c.place
    BY <1>3, <1>4 DEF PicturesPanel!Pending
<1>8. \A p \in PicturesPanel!Places :
         p # c.place /\ PicturesPanel!Brings(p) => PicturesPanel!Brings(p)'
    BY <1>3, <1>5 DEF PicturesPanel!Brings
<1>9. m2 \union {PicturesPanel!Logo} \subseteq PicturesPanel!Places
    BY DEF PicturesSettle, PicturesTyped, PicturesPanel!Places
<1>10. PlacesBring'
    BY <1>3, <1>7, <1>8, <1>9 DEF PicturesSettle, PlacesBring
<1>11. SlotsListed'
    BY <1>3, <1>5, <1>7 DEF PicturesSettle, SlotsListed, PicturesPanel!Places
<1> QED
    BY <1>3, <1>6, <1>10, <1>11 DEF PicturesSettle, PlacesEmpty

LEMMA CallSucceedsSettles ==
    ASSUME PicturesSettle, NEW c \in m6, PicturesPanel!CallSucceeds(c)
    PROVE  PicturesSettle'
<1> DEFINE place == c.place
           fresh == [place |-> place, of |-> m3[place] + 1, got |-> PicturesPanel!Asked]
           shows == place \in m2 \union {PicturesPanel!Logo}
<1>1. /\ place \in PicturesPanel!Places
      /\ c.kind = "logo" <=> place = PicturesPanel!Logo
    BY DEF PicturesSettle, PicturesTyped
<1>2. /\ m6' = m6 \ {c} /\ UNCHANGED <<m1, m2>> /\ m9' = m9 \ {place}
      /\ m7' = (m7 \/ c.kind # "logo")
      /\ m3' = [m3 EXCEPT ![place] = m3[place] + 1] /\ m4' = [m4 EXCEPT ![place] = None]
      /\ m5' = m5 \union (IF shows THEN {fresh} ELSE {})
    BY DEF PicturesPanel!CallSucceeds, PicturesPanel!bumpSlot, PicturesPanel!Read,
           PicturesPanel!Shown
<1>3. m3[place] \in Nat
    BY <1>1 DEF PicturesSettle, PicturesTyped
<1>4. /\ fresh \in OneRead /\ fresh.place = place /\ fresh.of = m3[place] + 1
      /\ fresh.got = PicturesPanel!Asked
    BY <1>1, <1>3 DEF OneRead
<1> HIDE DEF fresh
<1>5. /\ m3' \in [PicturesPanel!Places -> Nat] /\ m3'[place] = m3[place] + 1
      /\ \A p \in PicturesPanel!Places : p # place => m3'[p] = m3[p]
    BY <1>1, <1>2, <1>3 DEF PicturesSettle, PicturesTyped
<1>6. /\ m4' \in [PicturesPanel!Places -> Shot] /\ m4'[place] = None
      /\ \A p \in PicturesPanel!Places : p # place => m4'[p] = m4[p]
    BY <1>1, <1>2 DEF PicturesSettle, PicturesTyped, Shot
<1> HIDE DEF place
<1>7. PicturesTyped'
  <2>1. m5 \subseteq OneRead /\ \A r \in m5 : r.of \in Nat /\ r.place \in PicturesPanel!Places
      BY DEF PicturesSettle, PicturesTyped, OneRead
  <2>2. m5' \subseteq OneRead
      BY <1>2, <1>4, <2>1
  <2>3. \A r \in m5 : r.place \in m2 \union {PicturesPanel!Logo} /\ r.of <= m3'[r.place]
    <3> SUFFICES ASSUME NEW r \in m5
                 PROVE  r.place \in m2 \union {PicturesPanel!Logo} /\ r.of <= m3'[r.place]
        OBVIOUS
    <3>1. r.place \in m2 \union {PicturesPanel!Logo} /\ r.of <= m3[r.place]
        BY DEF PicturesSettle, PicturesTyped
    <3> QED
        BY <1>3, <1>5, <2>1, <3>1
  <2>4. \A r \in m5' : r.place \in m2 \union {PicturesPanel!Logo} /\ r.of <= m3'[r.place]
      BY <1>2, <1>3, <1>4, <1>5, <2>3
  <2> QED
      BY <1>2, <1>5, <1>6, <2>2, <2>4 DEF PicturesSettle, PicturesTyped
<1>8. PlacesEmpty'
    BY <1>1, <1>2, <1>6 DEF PicturesSettle, PlacesEmpty
<1>9. \A p : p # place /\ PicturesPanel!Pending(p) => PicturesPanel!Pending(p)'
    BY <1>2 DEF PicturesPanel!Pending, place
<1>10. PlacesBring'
  <2> SUFFICES ASSUME NEW p \in (m2 \union {PicturesPanel!Logo}) \ m9',
                      ~PicturesPanel!Pending(p)'
               PROVE  PicturesPanel!Brings(p)'
      BY <1>2 DEF PlacesBring
  <2>1. CASE p = place
    <3>1. m5' = m5 \union {fresh}
        BY <1>2, <2>1
    <3>2. \A r \in m5 : ~(r.place = p /\ r.of = m3'[p])
        BY <1>3, <1>5, <2>1 DEF PicturesSettle, PicturesTyped
    <3> QED
        BY <1>4, <1>5, <2>1, <3>1, <3>2 DEF PicturesPanel!Brings
  <2>2. CASE p # place
    <3>1. p \in PicturesPanel!Places
        BY DEF PicturesSettle, PicturesTyped, PicturesPanel!Places
    <3>2. PicturesPanel!Brings(p)
        BY <1>2, <1>9, <2>2 DEF PicturesSettle, PlacesBring
    <3>3. m3'[p] = m3[p] /\ m4'[p] = m4[p] /\ m1'[p] = m1[p]
        BY <1>2, <1>5, <1>6, <2>2, <3>1
    <3>4. \A r : r.place = p => (r \in m5' <=> r \in m5)
        BY <1>2, <1>4, <2>2
    <3> QED
        BY <1>2, <3>2, <3>3, <3>4 DEF PicturesPanel!Brings
  <2> QED
      BY <2>1, <2>2
<1>11. SlotsListed'
    BY <1>1, <1>2, <1>9, SlotsAssumption DEF PicturesSettle, SlotsListed
<1> QED
    BY <1>7, <1>8, <1>10, <1>11 DEF PicturesSettle

LEMMA CallFailsSettles ==
    ASSUME PicturesSettle, NEW c \in m6, PicturesPanel!CallFails(c)
    PROVE  PicturesSettle'
<1>1. /\ m6' = m6 \ {c} /\ UNCHANGED <<m1, m2, m3, m4, m5, m7>>
      /\ m9' = IF c.done THEN m9 \union {c.place} ELSE m9
    BY DEF PicturesPanel!CallFails
<1>2. PicturesTyped'
    BY <1>1 DEF PicturesSettle, PicturesTyped
<1>3. \A p : p \notin m9' /\ PicturesPanel!Pending(p) => p \notin m9 /\ PicturesPanel!Pending(p)'
    BY <1>1 DEF PicturesPanel!Pending
<1>4. m9 \subseteq m9'
    BY <1>1
<1>5. \A p : PicturesPanel!Brings(p) => PicturesPanel!Brings(p)'
    BY <1>1 DEF PicturesPanel!Brings
<1>6. PlacesBring'
    BY <1>1, <1>3, <1>4, <1>5 DEF PicturesSettle, PlacesBring
<1>7. SlotsListed'
    BY <1>1, <1>3, <1>4 DEF PicturesSettle, SlotsListed
<1> QED
    BY <1>1, <1>2, <1>6, <1>7 DEF PicturesSettle, PlacesEmpty

LEMMA PicturesNext ==
    PicturesSettle /\ [PicturesPanel!Next]_PicturesPanel!imagesVars => PicturesSettle'
<1> SUFFICES ASSUME PicturesSettle, [PicturesPanel!Next]_PicturesPanel!imagesVars
             PROVE  PicturesSettle'
    OBVIOUS
<1>1. /\ Slots \subseteq PicturesPanel!Places /\ PicturesPanel!Logo \in PicturesPanel!Places
      /\ PicturesPanel!Logo \notin Slots
      /\ Pictures \subseteq Shot /\ None \in Shot
      /\ {"logo", "upload", "delete"} \subseteq PicturesPanel!Kinds
    BY SlotsAssumption DEF PicturesPanel!Places, Shot, PicturesPanel!Kinds
<1>2. ASSUME NEW r \in m5, PicturesPanel!ServerReads(r) \/ PicturesPanel!PictureComes(r)
      PROVE  PicturesSettle'
    BY <1>2, ServerReadsSettle, PictureComesSettle
<1>3. CASE PicturesPanel!GalleryComes
    BY <1>3, GalleryComesSettle
<1>4. ASSUME NEW p \in Pictures, PicturesPanel!onLogoFile(p)
      PROVE  PicturesSettle'
    BY <1>1, <1>4, SendSettles DEF PicturesPanel!onLogoFile
<1>5. ASSUME NEW p \in Pictures, NEW s \in Slots, PicturesPanel!onGalleryFile(s, p)
      PROVE  PicturesSettle'
  <2>1. PicturesPanel!Send("upload", s, p)
      BY <1>5 DEF PicturesPanel!onGalleryFile
  <2>2. s # PicturesPanel!Logo /\ s \in PicturesPanel!Places /\ p \in Shot
      BY <1>1
  <2> QED
      BY <1>1, <2>1, <2>2, SendSettles
<1>6. ASSUME NEW s \in Slots, PicturesPanel!galleryDelete(s)
      PROVE  PicturesSettle'
  <2>1. PicturesPanel!Send("delete", s, None)
      BY <1>6 DEF PicturesPanel!galleryDelete
  <2>2. s # PicturesPanel!Logo /\ s \in PicturesPanel!Places
      BY <1>1
  <2> QED
      BY <1>1, <2>1, <2>2, SendSettles
<1>7. ASSUME NEW c \in m6, PicturesPanel!ServerStores(c) \/ PicturesPanel!CallSucceeds(c)
                           \/ PicturesPanel!CallFails(c)
      PROVE  PicturesSettle'
    BY <1>7, ServerStoresSettle, CallSucceedsSettles, CallFailsSettles
<1>8. CASE UNCHANGED PicturesPanel!imagesVars
    BY <1>8
    DEF PicturesPanel!imagesVars, PicturesSettle, PicturesTyped, PlacesEmpty, PlacesBring,
        SlotsListed, PicturesPanel!Pending, PicturesPanel!Brings
<1> QED
    BY <1>2, <1>3, <1>4, <1>5, <1>6, <1>7, <1>8 DEF PicturesPanel!Next

LEMMA PicturesShow == PicturesSettle => PicturesPanel!StoredPictureShown
<1> SUFFICES ASSUME PicturesSettle, m5 = {}, m6 = {}, ~m7,
                    NEW p \in PicturesPanel!Places \ m9
             PROVE  m4[p] = m1[p]
    BY DEF PicturesPanel!StoredPictureShown
<1>1. CASE p \in m2 \union {PicturesPanel!Logo}
    BY <1>1 DEF PicturesSettle, PlacesBring, PicturesPanel!Pending, PicturesPanel!Brings
<1>2. CASE p \notin m2 \union {PicturesPanel!Logo}
  <2>1. m4[p] = None
      BY <1>2 DEF PicturesSettle, PlacesEmpty
  <2>2. p \in Slots \ m9
      BY <1>2 DEF PicturesPanel!Places
  <2> QED
      BY <1>2, <2>1, <2>2 DEF PicturesSettle, SlotsListed, PicturesPanel!Pending
<1> QED
    BY <1>1, <1>2

-----------------------------------------------------------------------------
(* The crop editor *)

Some == Nat \ {0}
Positive(a) == a[1] \in Some /\ a[2] \in Some

LEMMA ProductsPositive ==
    ASSUME NEW a \in Some, NEW b \in Some
    PROVE  a * b \in Some
BY DEF Some

\* The least scale is nineteen twentieths of the scale that shows all of the picture, and it
\* shows all of an upright one.
LEMMA LeastContains ==
    ASSUME NEW box \in PictureEditor!Size, NEW pic \in PictureEditor!Size, NEW steps \in 0 .. 3
    PROVE  LET contain == PictureEditor!computeContainScale(box, pic, steps)
               least == PictureEditor!computeMinScaleFor(box, pic, steps)
               cover == PictureEditor!computeCoverScale(box, pic, steps)
           IN  /\ Positive(contain) /\ Positive(least) /\ Positive(cover)
               /\ PictureEditor!Le(least, contain) /\ PictureEditor!Le(least, cover)
               /\ least = <<19 * contain[1], 20 * contain[2]>>
               /\ steps % 2 = 0 =>
                    /\ pic.w * least[1] <= box.w * least[2]
                    /\ pic.h * least[1] <= box.h * least[2]
<1> DEFINE contain == PictureEditor!computeContainScale(box, pic, steps)
           cover == PictureEditor!computeCoverScale(box, pic, steps)
           least == PictureEditor!computeMinScaleFor(box, pic, steps)
<1>1. box.w \in Some /\ box.h \in Some /\ pic.w \in Some /\ pic.h \in Some
    BY DEF PictureEditor!Size, Some
<1>2. PICK a, b, c, d \in Some :
         /\ PictureEditor!Ratios(box, pic, steps) = <<<<a, b>>, <<c, d>>>>
         /\ steps % 2 = 0 => a = box.w /\ b = pic.w /\ c = box.h /\ d = pic.h
    BY <1>1 DEF PictureEditor!Ratios
<1>3. a * d \in Some /\ c * b \in Some
    BY <1>2, ProductsPositive
<1>4. a * b \in Some /\ c * d \in Some
    BY <1>2, ProductsPositive
<1>5. CASE a * d <= c * b
  <2>1. contain = <<a, b>>
      BY <1>2, <1>5 DEF PictureEditor!computeContainScale, PictureEditor!Least, PictureEditor!Le
  <2>2. cover = <<c, d>>
      BY <1>2, <1>5 DEF PictureEditor!computeCoverScale, PictureEditor!Greatest, PictureEditor!Le
  <2> HIDE DEF contain, cover
  <2>3. ~(c * (20 * b) <= (19 * a) * d)
      BY <1>2, <1>3, <1>5 DEF Some
  <2>4. least = <<19 * a, 20 * b>>
      BY <2>1, <2>2, <2>3
      DEF PictureEditor!computeMinScaleFor, PictureEditor!Least, PictureEditor!Le, contain, cover
  <2> HIDE DEF least
  <2>5. Positive(contain) /\ Positive(least) /\ Positive(cover)
      BY <1>2, <2>1, <2>2, <2>4 DEF Positive, Some
  <2>6. (19 * a) * b <= a * (20 * b) /\ (19 * a) * d <= c * (20 * b)
      BY <1>2, <1>3, <1>4, <1>5 DEF Some
  <2>7. PictureEditor!Le(least, contain) /\ PictureEditor!Le(least, cover)
      BY <2>1, <2>2, <2>4, <2>6 DEF PictureEditor!Le
  <2>8. b * (19 * a) <= a * (20 * b) /\ d * (19 * a) <= c * (20 * b)
      BY <1>2, <1>3, <1>4, <1>5 DEF Some
  <2>9. steps % 2 = 0 => /\ pic.w * least[1] <= box.w * least[2]
                         /\ pic.h * least[1] <= box.h * least[2]
      BY <1>2, <2>4, <2>8
  <2> QED
      BY <2>1, <2>4, <2>5, <2>7, <2>9 DEF contain, cover, least
<1>6. CASE ~(a * d <= c * b)
  <2>1. contain = <<c, d>>
      BY <1>2, <1>6 DEF PictureEditor!computeContainScale, PictureEditor!Least, PictureEditor!Le
  <2>2. cover = <<a, b>>
      BY <1>2, <1>6 DEF PictureEditor!computeCoverScale, PictureEditor!Greatest, PictureEditor!Le
  <2> HIDE DEF contain, cover
  <2>3. ~(a * (20 * d) <= (19 * c) * b)
      BY <1>2, <1>3, <1>6 DEF Some
  <2>4. least = <<19 * c, 20 * d>>
      BY <2>1, <2>2, <2>3
      DEF PictureEditor!computeMinScaleFor, PictureEditor!Least, PictureEditor!Le, contain, cover
  <2> HIDE DEF least
  <2>5. Positive(contain) /\ Positive(least) /\ Positive(cover)
      BY <1>2, <2>1, <2>2, <2>4 DEF Positive, Some
  <2>6. (19 * c) * d <= c * (20 * d) /\ (19 * c) * b <= a * (20 * d)
      BY <1>2, <1>3, <1>4, <1>6 DEF Some
  <2>7. PictureEditor!Le(least, contain) /\ PictureEditor!Le(least, cover)
      BY <2>1, <2>2, <2>4, <2>6 DEF PictureEditor!Le
  <2>8. b * (19 * c) <= a * (20 * d) /\ d * (19 * c) <= c * (20 * d)
      BY <1>2, <1>3, <1>4, <1>6 DEF Some
  <2>9. steps % 2 = 0 => /\ pic.w * least[1] <= box.w * least[2]
                         /\ pic.h * least[1] <= box.h * least[2]
      BY <1>2, <2>4, <2>8
  <2> QED
      BY <2>1, <2>4, <2>5, <2>7, <2>9 DEF contain, cover, least
<1> QED
    BY <1>5, <1>6

LEMMA SlackNotNegative ==
    ASSUME NEW side \in Some, NEW frame \in Some, NEW s, Positive(s)
    PROVE  LET slack == PictureEditor!Slack(side, frame, s)
           IN  slack[1] \in Nat /\ slack[2] \in Some
<1>1. side * s[1] \in Some /\ frame * s[2] \in Some
    BY ProductsPositive DEF Positive
<1> DEFINE n == side * s[1] - frame * s[2]
           d == 2 * s[2]
<1>2. n \in Int /\ d \in Some
    BY <1>1 DEF Positive, Some
<1>3. PictureEditor!Slack(side, frame, s) = IF 0 * d <= n * 1 THEN <<n, d>> ELSE <<0, 1>>
    BY DEF PictureEditor!Slack, PictureEditor!Greatest, PictureEditor!Le, PictureEditor!Zero
<1> HIDE DEF n, d
<1> QED
    BY <1>2, <1>3 DEF Some

Within(c, bound) ==
    /\ PictureEditor!Fraction(c) /\ PictureEditor!Le(c, bound)
    /\ PictureEditor!Le(PictureEditor!Minus(c), bound)

LEMMA ClampBounds ==
    ASSUME NEW v, PictureEditor!Fraction(v), NEW bound, bound[1] \in Nat, bound[2] \in Some
    PROVE  Within(PictureEditor!Clamp(v, bound), bound)
<1> DEFINE c == PictureEditor!Clamp(v, bound)
           p == bound[1]
           q == bound[2]
           low == <<-p, q>>
<1>1. PictureEditor!Minus(bound) = low
    BY DEF PictureEditor!Minus
<1>2. p \in Nat /\ q \in Some /\ v[1] \in Int /\ v[2] \in Some
    BY DEF PictureEditor!Fraction, Some
<1>3. p * q \in Nat /\ p * v[2] \in Nat /\ v[1] * q \in Int /\ (-p) * v[2] = -(p * v[2])
      /\ (-p) * q = -(p * q) /\ (-v[1]) * q = -(v[1] * q) /\ (-(-p)) * q = p * q
    BY <1>2 DEF Some
<1> SUFFICES Within(c, bound)
    OBVIOUS
<1>4. CASE ~((-p) * v[2] <= v[1] * q)
  <2>1. PictureEditor!Greatest(low, v) = low
      BY <1>4 DEF PictureEditor!Greatest, PictureEditor!Le
  <2>2. c = bound \/ c = low
      BY <1>1, <2>1 DEF PictureEditor!Clamp, PictureEditor!Least
  <2> HIDE DEF c
  <2>3. CASE c = bound
      BY <1>2, <1>3, <2>3
      DEF Within, PictureEditor!Fraction, PictureEditor!Le, PictureEditor!Minus, Some
  <2>4. CASE c = low
    <3>1. c[1] = -p /\ c[2] = q
        BY <2>4
    <3> QED
        BY <1>2, <1>3, <3>1
        DEF Within, PictureEditor!Fraction, PictureEditor!Le, PictureEditor!Minus, Some
  <2> QED
      BY <2>2, <2>3, <2>4
<1>5. CASE (-p) * v[2] <= v[1] * q
  <2>1. PictureEditor!Greatest(low, v) = v
      BY <1>5 DEF PictureEditor!Greatest, PictureEditor!Le
  <2>2. c = IF p * v[2] <= v[1] * q THEN bound ELSE v
      BY <1>1, <2>1 DEF PictureEditor!Clamp, PictureEditor!Least, PictureEditor!Le
  <2> HIDE DEF c
  <2>3. CASE c = bound
      BY <1>2, <1>3, <2>3
      DEF Within, PictureEditor!Fraction, PictureEditor!Le, PictureEditor!Minus, Some
  <2>4. CASE c = v /\ ~(p * v[2] <= v[1] * q)
      BY <1>2, <1>3, <1>5, <2>4
      DEF Within, PictureEditor!Fraction, PictureEditor!Le, PictureEditor!Minus, Some
  <2> QED
      BY <2>2, <2>3, <2>4
<1> QED
    BY <1>4, <1>5

LEMMA GreatestIsAbove ==
    ASSUME NEW a, NEW b, Positive(a), Positive(b)
    PROVE  LET g == PictureEditor!Greatest(a, b)
           IN  Positive(g) /\ PictureEditor!Le(b, g)
<1>1. a[1] * b[2] \in Some /\ b[1] * a[2] \in Some /\ b[1] * b[2] \in Some
    BY ProductsPositive DEF Positive
<1>2. CASE a[1] * b[2] <= b[1] * a[2]
    BY <1>1, <1>2 DEF PictureEditor!Greatest, PictureEditor!Le, Some
<1>3. CASE ~(a[1] * b[2] <= b[1] * a[2])
    BY <1>1, <1>3 DEF PictureEditor!Greatest, PictureEditor!Le, Some
<1> QED
    BY <1>2, <1>3

\* The picture covers the middle of the frame.
Covers(o, pic, box, s) ==
    /\ Within(o.x, PictureEditor!Slack(pic.w, box.w, s))
    /\ Within(o.y, PictureEditor!Slack(pic.h, box.h, s))

LEMMA CentreFramed ==
    ASSUME NEW pic \in PictureEditor!Size, NEW box \in PictureEditor!Size, NEW s, Positive(s)
    PROVE  Covers(PictureEditor!Centre, pic, box, s)
<1>1. \A bound : bound[1] \in Nat /\ bound[2] \in Some => Within(PictureEditor!Zero, bound)
    BY DEF Within, PictureEditor!Zero, PictureEditor!Fraction, PictureEditor!Le,
           PictureEditor!Minus, Some
<1>2. pic.w \in Some /\ pic.h \in Some /\ box.w \in Some /\ box.h \in Some
    BY DEF PictureEditor!Size, Some
<1>3. /\ Within(PictureEditor!Zero, PictureEditor!Slack(pic.w, box.w, s))
      /\ Within(PictureEditor!Zero, PictureEditor!Slack(pic.h, box.h, s))
    BY <1>1, <1>2, SlackNotNegative
<1> QED
    BY <1>3 DEF Covers, PictureEditor!Centre

LEMMA ClampedFramed ==
    ASSUME NEW box \in PictureEditor!Size, NEW s, Positive(s), NEW steps,
           PictureEditor!Shown(m1, steps) \in PictureEditor!Size,
           NEW o, PictureEditor!Fraction(o.x), PictureEditor!Fraction(o.y)
    PROVE  Covers(PictureEditor!clampOffset(o, box, s, steps),
                  PictureEditor!Shown(m1, steps), box, s)
<1> DEFINE pic == PictureEditor!Shown(m1, steps)
           wide == PictureEditor!Slack(pic.w, box.w, s)
           high == PictureEditor!Slack(pic.h, box.h, s)
<1>1. pic.w \in Some /\ pic.h \in Some /\ box.w \in Some /\ box.h \in Some
    BY DEF PictureEditor!Size, Some
<1>2. wide[1] \in Nat /\ wide[2] \in Some /\ high[1] \in Nat /\ high[2] \in Some
    BY <1>1, SlackNotNegative
<1>3. Within(PictureEditor!Clamp(o.x, wide), wide) /\ Within(PictureEditor!Clamp(o.y, high), high)
    BY <1>2, ClampBounds
<1>4. PictureEditor!clampOffset(o, box, s, steps)
        = [x |-> PictureEditor!Clamp(o.x, wide), y |-> PictureEditor!Clamp(o.y, high)]
    BY DEF PictureEditor!clampOffset
<1> QED
    BY <1>3, <1>4 DEF Covers

EditorKept ==
    /\ m1 \in PictureEditor!Size /\ m2 \in PictureEditor!Size /\ m6 \in 0 .. 3
    /\ m4 = PictureEditor!computeMinScaleFor(m2, m1, m6)
    /\ Positive(m3) /\ PictureEditor!Le(m4, m3)
    /\ Covers(m5, PictureEditor!Shown(m1, m6), m2, m3)

LEMMA TurnedSize ==
    ASSUME NEW pic \in PictureEditor!Size, NEW steps
    PROVE  PictureEditor!Shown(pic, steps) \in PictureEditor!Size
BY DEF PictureEditor!Shown, PictureEditor!Size

LEMMA FramesHaveSizes ==
    Photographs \subseteq PictureEditor!Size /\ Frames \subseteq PictureEditor!Size
BY DEF Photographs, Frames, PictureEditor!Size

LEMMA EditorInit == PictureEditor!Init => EditorKept
<1> SUFFICES ASSUME PictureEditor!Init
             PROVE  EditorKept
    OBVIOUS
<1> DEFINE contain == PictureEditor!computeContainScale(m2, m1, 0)
           least == PictureEditor!computeMinScaleFor(m2, m1, 0)
<1>1. /\ m1 \in PictureEditor!Size /\ m2 \in PictureEditor!Size /\ m6 = 0
      /\ m5 = PictureEditor!Centre
    BY FramesHaveSizes DEF PictureEditor!Init
<1>2. Positive(contain) /\ PictureEditor!Le(least, contain)
    BY <1>1, LeastContains
<1>3. m3 = contain /\ m4 = PictureEditor!Least(least, contain)
    BY DEF PictureEditor!Init, PictureEditor!Fitted
<1>4. m4 = least
    BY <1>2, <1>3 DEF PictureEditor!Least
<1> HIDE DEF contain
<1>5. Covers(m5, PictureEditor!Shown(m1, m6), m2, m3)
    BY <1>1, <1>2, <1>3, CentreFramed, TurnedSize
<1> QED
    BY <1>1, <1>2, <1>3, <1>4, <1>5 DEF EditorKept

LEMMA EditorNext ==
    EditorKept /\ [PictureEditor!Next]_PictureEditor!editorVars => EditorKept'
<1> SUFFICES ASSUME EditorKept, [PictureEditor!Next]_PictureEditor!editorVars
             PROVE  EditorKept'
    OBVIOUS
<1>1. /\ m1 \in PictureEditor!Size /\ m2 \in PictureEditor!Size /\ m6 \in 0 .. 3
      /\ Positive(m3) /\ PictureEditor!Le(m4, m3)
      /\ m4 = PictureEditor!computeMinScaleFor(m2, m1, m6)
      /\ Covers(m5, PictureEditor!Shown(m1, m6), m2, m3)
    BY DEF EditorKept
<1>2. Positive(m4)
    BY <1>1, LeastContains
<1>3. PictureEditor!Fraction(m5.x) /\ PictureEditor!Fraction(m5.y)
    BY <1>1 DEF Covers, Within
<1>4. CASE PictureEditor!fitFullDocument
  <2> DEFINE box == PictureEditor!Shown(m1, m6)
  <2>1. /\ m2' = box /\ m5' = PictureEditor!Centre /\ UNCHANGED <<m1, m6>>
        /\ m3' = PictureEditor!computeCoverScale(box, m1, m6)
        /\ m4' = PictureEditor!computeMinScaleFor(box, m1, m6)
      BY <1>4 DEF PictureEditor!fitFullDocument
  <2>2. box \in PictureEditor!Size
      BY <1>1, TurnedSize
  <2> HIDE DEF box
  <2>3. Positive(m3') /\ PictureEditor!Le(m4', m3')
      BY <1>1, <2>1, <2>2, LeastContains
  <2>4. Covers(m5', PictureEditor!Shown(m1, m6), box, m3')
      BY <1>1, <2>1, <2>2, <2>3, CentreFramed, TurnedSize
  <2> QED
      BY <1>1, <2>1, <2>2, <2>3, <2>4 DEF EditorKept
<1>5. CASE PictureEditor!Drag
  <2>1. PICK dx, dy \in {-Far, 0, Far} :
          m5' = PictureEditor!clampOffset([x |-> <<dx, 1>>, y |-> <<dy, 1>>], m2, m3, m6)
      BY <1>5 DEF PictureEditor!Drag
  <2>2. UNCHANGED <<m1, m2, m3, m4, m6>>
      BY <1>5 DEF PictureEditor!Drag
  <2> DEFINE o == [x |-> <<dx, 1>>, y |-> <<dy, 1>>]
  <2>3. PictureEditor!Fraction(o.x) /\ PictureEditor!Fraction(o.y)
      BY FarAssumption DEF PictureEditor!Fraction
  <2> HIDE DEF o
  <2>4. m5' = PictureEditor!clampOffset(o, m2, m3, m6)
      BY <2>1 DEF o
  <2>5. Covers(m5', PictureEditor!Shown(m1, m6), m2, m3)
      BY <1>1, <2>3, <2>4, ClampedFramed, TurnedSize
  <2> QED
      BY <1>1, <2>2, <2>5 DEF EditorKept
<1>6. CASE PictureEditor!Zoom
  <2>1. PICK n \in {1, 2, 5} :
          /\ m3' = PictureEditor!Times(n, m4)
          /\ m5' = PictureEditor!clampOffset(m5, m2, PictureEditor!Times(n, m4), m6)
      BY <1>6 DEF PictureEditor!Zoom
  <2>2. UNCHANGED <<m1, m2, m4, m6>>
      BY <1>6 DEF PictureEditor!Zoom
  <2>3. m4[1] * m4[2] \in Some
      BY <1>2, ProductsPositive DEF Positive
  <2>4. m3' = <<n * m4[1], m4[2]>>
      BY <2>1 DEF PictureEditor!Times
  <2>5. m4[1] * m4[2] <= (n * m4[1]) * m4[2]
      BY <1>2, <2>3 DEF Positive, Some
  <2>6. Positive(m3') /\ PictureEditor!Le(m4, m3')
      BY <1>2, <2>4, <2>5 DEF Positive, Some, PictureEditor!Le
  <2>7. Covers(m5', PictureEditor!Shown(m1, m6), m2, m3')
      BY <1>1, <1>3, <2>1, <2>6, ClampedFramed, TurnedSize
  <2> QED
      BY <1>1, <2>2, <2>6, <2>7 DEF EditorKept
<1>7. CASE PictureEditor!ResizeFrame
  <2>1. PICK box \in Frames :
          /\ m2' = box /\ m4' = PictureEditor!computeMinScaleFor(box, m1, m6)
          /\ m3' = PictureEditor!Greatest(m3, m4')
          /\ m5' = PictureEditor!clampOffset(m5, box, m3', m6)
      BY <1>7 DEF PictureEditor!ResizeFrame
  <2>2. UNCHANGED <<m1, m6>>
      BY <1>7 DEF PictureEditor!ResizeFrame
  <2>3. box \in PictureEditor!Size
      BY FramesHaveSizes
  <2>4. Positive(m4')
      BY <1>1, <2>1, <2>3, LeastContains
  <2>5. Positive(m3') /\ PictureEditor!Le(m4', m3')
      BY <1>1, <2>1, <2>4, GreatestIsAbove
  <2>6. Covers(m5', PictureEditor!Shown(m1, m6), box, m3')
      BY <1>1, <1>3, <2>1, <2>3, <2>5, ClampedFramed, TurnedSize
  <2> QED
      BY <1>1, <2>1, <2>2, <2>3, <2>5, <2>6 DEF EditorKept
<1>8. CASE PictureEditor!reset
  <2>1. /\ m6' = 0 /\ m4' = PictureEditor!computeMinScaleFor(m2, m1, 0) /\ m3' = m4'
        /\ m5' = PictureEditor!Centre /\ UNCHANGED <<m1, m2>>
      BY <1>8 DEF PictureEditor!reset
  <2>2. Positive(m4')
      BY <1>1, <2>1, LeastContains
  <2>3. m4'[1] * m4'[2] \in Some
      BY <2>2, ProductsPositive DEF Positive
  <2>4. Positive(m3') /\ PictureEditor!Le(m4', m3')
      BY <2>1, <2>2, <2>3 DEF PictureEditor!Le, Some
  <2>5. Covers(m5', PictureEditor!Shown(m1, 0), m2, m3')
      BY <1>1, <2>1, <2>4, CentreFramed, TurnedSize
  <2> QED
      BY <1>1, <2>1, <2>4, <2>5 DEF EditorKept
<1>9. ASSUME NEW dir \in {-1, 1}, PictureEditor!rotate90(dir)
      PROVE  EditorKept'
  <2>1. /\ m6' = (m6 + dir + 4) % 4 /\ m4' = PictureEditor!computeMinScaleFor(m2, m1, m6')
        /\ m3' = PictureEditor!Greatest(m3, m4')
        /\ m5' = PictureEditor!Centre /\ UNCHANGED <<m1, m2>>
      BY <1>9 DEF PictureEditor!rotate90
  <2>2. m6' \in 0 .. 3
      BY <1>1, <2>1
  <2>3. Positive(m4')
      BY <1>1, <2>1, <2>2, LeastContains
  <2>4. Positive(m3') /\ PictureEditor!Le(m4', m3')
      BY <1>1, <2>1, <2>3, GreatestIsAbove
  <2>5. Covers(m5', PictureEditor!Shown(m1, m6'), m2, m3')
      BY <1>1, <2>1, <2>4, CentreFramed, TurnedSize
  <2> QED
      BY <1>1, <2>1, <2>2, <2>4, <2>5 DEF EditorKept
<1>10. CASE PictureEditor!Close
    BY <1>10 DEF PictureEditor!Close, EditorKept
<1>11. CASE UNCHANGED PictureEditor!editorVars
    BY <1>11 DEF PictureEditor!editorVars, EditorKept
<1> QED
    BY <1>4, <1>5, <1>6, <1>7, <1>8, <1>9, <1>10, <1>11 DEF PictureEditor!Next

LEMMA EditorShow == EditorKept => PictureEditor!WholeReachable /\ PictureEditor!FrameKept
<1> SUFFICES ASSUME EditorKept
             PROVE  PictureEditor!WholeReachable /\ PictureEditor!FrameKept
    OBVIOUS
<1>1. m6 % 2 = 0 => /\ m1.w * m4[1] <= m2.w * m4[2]
                    /\ m1.h * m4[1] <= m2.h * m4[2]
    BY LeastContains DEF EditorKept
<1>2. PictureEditor!WholeReachable
    BY <1>1 DEF PictureEditor!WholeReachable, PictureEditor!WholeFits, PictureEditor!Shown
<1>3. PictureEditor!FrameKept
    BY DEF EditorKept, Covers, Within, PictureEditor!FrameKept
<1> QED
    BY <1>2, <1>3

-----------------------------------------------------------------------------
(* The session: the theorem of Session_proofs, in the cells of the screen *)

SignIn == INSTANCE Session_proofs WITH
    cookie <- m1, access <- m2, refreshToken <- m3, cachedMe <- m4,
    status <- m5, user <- m6, pc <- m7, tok <- m8, attempt <- m9,
    shown <- m10, refreshing <- m11, reloads <- m12, old <- m13,
    crossed <- m14

LEMMA SignInInit == SessionScreen!Init => SignIn!IInv
<1>1. SessionScreen!Init <=> SignIn!Init
    BY DEF SessionScreen!Init, SignIn!Init, SessionScreen!Procs, SignIn!Procs,
           SessionScreen!Idle, SignIn!Idle, SessionScreen!NotSent, SignIn!NotSent
<1> QED
    BY <1>1, SignIn!SessionKept, SignInAssumption

LEMMA SignInShow == SignIn!IInv => SessionScreen!ShownUserOwnsSession
    BY SignIn!SessionKept, SignInAssumption
    DEF SessionScreen!ShownUserOwnsSession, SignIn!ShownUserOwnsSession

LEMMA SignInNext ==
    SignIn!IInv /\ [SessionScreen!Next]_SessionScreen!vars => SignIn!IInv'
<1>1. SessionScreen!Mount <=> SignIn!Mount
    BY DEF SessionScreen!Mount, SignIn!Mount, SessionScreen!applySession, SignIn!applySession,
        SessionScreen!screen, SignIn!screen, SessionScreen!Send, SignIn!Send,
        SessionScreen!JoinRefresh, SignIn!JoinRefresh, SessionScreen!storage, SignIn!storage,
        SessionScreen!history, SignIn!history
<1>2. SessionScreen!Backoff <=> SignIn!Backoff
    BY DEF SessionScreen!Backoff, SignIn!Backoff, SessionScreen!JoinRefresh, SignIn!JoinRefresh,
        SessionScreen!storage, SignIn!storage, SessionScreen!screen, SignIn!screen,
        SessionScreen!history, SignIn!history
<1>3. SessionScreen!RefreshSucceeds <=> SignIn!RefreshSucceeds
    BY DEF SessionScreen!RefreshSucceeds, SignIn!RefreshSucceeds, SessionScreen!WaitersContinue,
        SignIn!WaitersContinue, SessionScreen!NotSent, SignIn!NotSent, SessionScreen!Procs,
        SignIn!Procs, SessionScreen!AfterRefresh, SignIn!AfterRefresh, SessionScreen!Idle,
        SignIn!Idle, SessionScreen!GivesUp, SignIn!GivesUp, SessionScreen!LastAttempt,
        SignIn!LastAttempt, SessionScreen!Waiting, SignIn!Waiting, SessionScreen!RefreshOver,
        SignIn!RefreshOver, SessionScreen!screen, SignIn!screen
<1>4. SessionScreen!RefreshRejected <=> SignIn!RefreshRejected
    BY DEF SessionScreen!RefreshRejected, SignIn!RefreshRejected, SessionScreen!Failing,
        SignIn!Failing, SessionScreen!Procs, SignIn!Procs, SessionScreen!WaitersContinue,
        SignIn!WaitersContinue, SessionScreen!NotSent, SignIn!NotSent,
        SessionScreen!AfterRefresh, SignIn!AfterRefresh, SessionScreen!Idle, SignIn!Idle,
        SessionScreen!GivesUp, SignIn!GivesUp, SessionScreen!LastAttempt, SignIn!LastAttempt,
        SessionScreen!Waiting, SignIn!Waiting, SessionScreen!handleAuthExpired,
        SignIn!handleAuthExpired, SessionScreen!clearSession, SignIn!clearSession,
        SessionScreen!SignedOut, SignIn!SignedOut, SessionScreen!SessionEnds, SignIn!SessionEnds,
        SessionScreen!InFlight, SignIn!InFlight
<1>5. SessionScreen!RefreshFails <=> SignIn!RefreshFails
    BY DEF SessionScreen!RefreshFails, SignIn!RefreshFails, SessionScreen!WaitersContinue,
        SignIn!WaitersContinue, SessionScreen!NotSent, SignIn!NotSent, SessionScreen!Procs,
        SignIn!Procs, SessionScreen!AfterRefresh, SignIn!AfterRefresh, SessionScreen!Idle,
        SignIn!Idle, SessionScreen!GivesUp, SignIn!GivesUp, SessionScreen!LastAttempt,
        SignIn!LastAttempt, SessionScreen!Waiting, SignIn!Waiting, SessionScreen!screen,
        SignIn!screen, SessionScreen!RefreshOver, SignIn!RefreshOver, SessionScreen!storage,
        SignIn!storage
<1>6. SessionScreen!LoginAnswered <=> SignIn!LoginAnswered
    BY DEF SessionScreen!LoginAnswered, SignIn!LoginAnswered, SessionScreen!Done, SignIn!Done,
        SessionScreen!Idle, SignIn!Idle, SessionScreen!screen, SignIn!screen
<1>7. SessionScreen!Logout <=> SignIn!Logout
    BY DEF SessionScreen!Logout, SignIn!Logout, SessionScreen!Idle, SignIn!Idle,
        SessionScreen!storage, SignIn!storage, SessionScreen!screen, SignIn!screen,
        SessionScreen!history, SignIn!history
<1>8. SessionScreen!LogoutAnswered <=> SignIn!LogoutAnswered
    BY DEF SessionScreen!LogoutAnswered, SignIn!LogoutAnswered, SessionScreen!Done, SignIn!Done,
        SessionScreen!Idle, SignIn!Idle, SessionScreen!clearSession, SignIn!clearSession,
        SessionScreen!SignedOut, SignIn!SignedOut, SessionScreen!SessionEnds, SignIn!SessionEnds,
        SessionScreen!Procs, SignIn!Procs, SessionScreen!InFlight, SignIn!InFlight,
        SessionScreen!Waiting, SignIn!Waiting
<1>9. SessionScreen!Call <=> SignIn!Call
    BY DEF SessionScreen!Call, SignIn!Call, SessionScreen!Idle, SignIn!Idle, SessionScreen!Send,
        SignIn!Send, SessionScreen!storage, SignIn!storage, SessionScreen!screen, SignIn!screen,
        SessionScreen!history, SignIn!history
<1>10. SessionScreen!Reload <=> SignIn!Reload
    BY DEF SessionScreen!Reload, SignIn!Reload, SessionScreen!Procs, SignIn!Procs,
        SessionScreen!Idle, SignIn!Idle, SessionScreen!NotSent, SignIn!NotSent,
        SessionScreen!storage, SignIn!storage
<1>11. SessionScreen!CookieCleared <=> SignIn!CookieCleared
    BY DEF SessionScreen!CookieCleared, SignIn!CookieCleared, SessionScreen!storage, SignIn!storage,
        SessionScreen!screen, SignIn!screen, SessionScreen!history, SignIn!history
<1>12. ASSUME NEW p PROVE SessionScreen!Answered(p) <=> SignIn!Answered(p)
    BY DEF SessionScreen!Answered, SignIn!Answered, SessionScreen!Done, SignIn!Done,
        SessionScreen!Idle, SignIn!Idle, SessionScreen!applySession, SignIn!applySession,
        SessionScreen!screen, SignIn!screen
<1>13. ASSUME NEW p PROVE SessionScreen!Unauthorized(p) <=> SignIn!Unauthorized(p)
    BY DEF SessionScreen!Unauthorized, SignIn!Unauthorized, SessionScreen!JoinRefresh,
        SignIn!JoinRefresh, SessionScreen!storage, SignIn!storage, SessionScreen!screen,
        SignIn!screen, SessionScreen!history, SignIn!history
<1>14. ASSUME NEW p PROVE SessionScreen!Failed(p) <=> SignIn!Failed(p)
    BY DEF SessionScreen!Failed, SignIn!Failed, SessionScreen!Done, SignIn!Done, SessionScreen!Idle,
        SignIn!Idle, SessionScreen!screen, SignIn!screen, SessionScreen!storage, SignIn!storage
<1>15. ASSUME NEW p PROVE SessionScreen!Disabled(p) <=> SignIn!Disabled(p)
    BY DEF SessionScreen!Disabled, SignIn!Disabled, SessionScreen!Done, SignIn!Done,
        SessionScreen!Idle, SignIn!Idle, SessionScreen!clearSession, SignIn!clearSession,
        SessionScreen!SignedOut, SignIn!SignedOut, SessionScreen!SessionEnds, SignIn!SessionEnds,
        SessionScreen!Procs, SignIn!Procs, SessionScreen!InFlight, SignIn!InFlight,
        SessionScreen!Waiting, SignIn!Waiting, SessionScreen!storage, SignIn!storage,
        SessionScreen!screen, SignIn!screen
<1>16. ASSUME NEW u PROVE SessionScreen!Login(u) <=> SignIn!Login(u)
    BY DEF SessionScreen!Login, SignIn!Login, SessionScreen!Idle, SignIn!Idle,
        SessionScreen!clearSession, SignIn!clearSession, SessionScreen!SessionEnds,
        SignIn!SessionEnds, SessionScreen!Procs, SignIn!Procs, SessionScreen!InFlight,
        SignIn!InFlight, SessionScreen!Waiting, SignIn!Waiting, SessionScreen!screen,
        SignIn!screen
<1>17. SessionScreen!Next => SignIn!Next
    BY <1>1, <1>2, <1>3, <1>4, <1>5, <1>6, <1>7, <1>8, <1>9, <1>10, <1>11, <1>12, <1>13, <1>14, <1>15, <1>16
    DEF SessionScreen!Next, SignIn!Next, SessionScreen!RefreshAnswered, SignIn!RefreshAnswered,
        SessionScreen!Response, SignIn!Response, SessionScreen!Procs, SignIn!Procs
<1>18. UNCHANGED SessionScreen!vars => UNCHANGED SignIn!vars
    BY DEF SessionScreen!vars, SignIn!vars
<1> QED
    BY <1>17, <1>18, SignIn!SessionKept, SignInAssumption

-----------------------------------------------------------------------------
(* The expenses: types, and the receipt an expense was added with *)

Transitions == [id : Ids, to : Statuses, read : Statuses \union {None}]

\* An expense whose receipt is on its way is as it was recorded.
Awaiting ==
    /\ adding.id \in Live
    /\ ledger[adding.id].meant = adding.paper
    /\ ledger[adding.id].receipt = None

AddingOK ==
    adding # None =>
        /\ adding.phase = "create" => adding.id = None
        /\ adding.phase = "upload" => Awaiting

\* Transitions are of expenses that are there.
ActingOK == \A r \in acting : r \in Transitions /\ r.id \in Live

LedgerInv == TypeOK /\ AddingOK /\ ActingOK /\ ReceiptAsAdded

-----------------------------------------------------------------------------
LEMMA LiveExpense ==
    ASSUME TypeOK, NEW e \in Live
    PROVE  e \in Ids /\ ledger[e] \in Expense /\ ledger[e] # None
    BY DEF TypeOK, Live

LEMMA NewExpense ==
    ASSUME NEW s \in Statuses, NEW p \in Papers \union {None}
    PROVE  /\ create_expense(s, p) \in Expense
           /\ create_expense(s, p).meant = p
           /\ create_expense(s, p).receipt = None
    BY DEF create_expense, Expense

LEMMA LedgerInit == Init => LedgerInv
<1> SUFFICES ASSUME Init PROVE LedgerInv
    OBVIOUS
<1>1. Live = {}
    BY DEF Init, Live
<1>2. ledger \in [Ids -> Expense \union {None}] /\ other \in 0 .. MaxOther
    BY ExpensesAssumption DEF Init
<1>3. TypeOK
    BY <1>2 DEF Init, TypeOK, Form, Blank
<1> QED
    BY <1>1, <1>3 DEF Init, LedgerInv, AddingOK, ActingOK, ReceiptAsAdded

\* Steps that leave the ledger and the receipts under way as they are.
LEMMA FormInv ==
    ASSUME LedgerInv, UNCHANGED <<ledger, adding, lost, unsure>>, TypeOK', ActingOK'
    PROVE  LedgerInv'
    BY DEF LedgerInv, AddingOK, Awaiting, ReceiptAsAdded, Live

LEMMA ScreenInv ==
    ASSUME LedgerInv, UNCHANGED <<ledger, adding, lost, unsure, acting>>, TypeOK'
    PROVE  LedgerInv'
<1>1. ActingOK'
    BY DEF LedgerInv, ActingOK, Live
<1> QED
    BY <1>1, FormInv

LEMMA PageInv ==
    ASSUME LedgerInv,
           \/ ReadExpenses \/ TypeAmount \/ RemoveReceipt \/ AddRecurring
           \/ \E p \in Papers, k \in {"pdf", "large", "picture"} : PickReceipt(p, k)
           \/ \E b \in BOOLEAN : Framed(b) \/ RecurringAnswered(b)
           \/ \E e \in Ids : AskReason(e)
    PROVE  LedgerInv'
<1>1. CASE ReadExpenses \/ AddRecurring
    BY <1>1, ScreenInv DEF LedgerInv, TypeOK, ReadExpenses, AddRecurring
<1>2. CASE TypeAmount \/ RemoveReceipt
  <2>1. form' \in Form
      BY <1>2 DEF LedgerInv, TypeOK, TypeAmount, RemoveReceipt, Form
  <2> QED
      BY <1>2, <2>1, ScreenInv DEF LedgerInv, TypeOK, TypeAmount, RemoveReceipt
<1>3. ASSUME NEW p \in Papers, NEW k \in {"pdf", "large", "picture"},
             PickReceipt(p, k)
      PROVE  LedgerInv'
  <2>1. form' \in Form /\ framing' \in Papers \union {None}
      BY <1>3 DEF LedgerInv, TypeOK, PickReceipt, Form
  <2> QED
      BY <1>3, <2>1, ScreenInv DEF LedgerInv, TypeOK, PickReceipt
<1>4. ASSUME NEW b \in BOOLEAN, Framed(b) PROVE LedgerInv'
  <2>1. form' \in Form
      BY <1>4 DEF LedgerInv, TypeOK, Framed, Form
  <2> QED
      BY <1>4, <2>1, ScreenInv DEF LedgerInv, TypeOK, Framed
<1>5. ASSUME NEW b \in BOOLEAN, RecurringAnswered(b) PROVE LedgerInv'
    BY <1>5, ScreenInv DEF LedgerInv, TypeOK, RecurringAnswered
<1>6. ASSUME NEW e \in Ids, AskReason(e) PROVE LedgerInv'
    BY <1>6, ScreenInv DEF LedgerInv, TypeOK, AskReason
<1> QED
    BY <1>1, <1>2, <1>3, <1>4, <1>5, <1>6

-----------------------------------------------------------------------------
(* Adding an expense *)

LEMMA AddInv == ASSUME LedgerInv, Add PROVE LedgerInv'
<1>1. form.receipt \in Papers \union {None}
    BY DEF LedgerInv, TypeOK, Form
<1>2. UNCHANGED <<ledger, lost, unsure, acting>> /\ TypeOK'
    BY <1>1 DEF LedgerInv, TypeOK, Adding, Add
<1>3. AddingOK' /\ adding'.id = None
    BY <1>1 DEF Add, AddingOK, Adding
<1>4. adding = None
    BY DEF Add
<1>5. None \notin Live
    BY ExpensesAssumption DEF Live
<1>6. Live' = Live
    BY <1>2 DEF Live
<1>7. ReceiptAsAdded'
    BY <1>2, <1>4, <1>5, <1>6 DEF LedgerInv, ReceiptAsAdded
<1> QED
    BY <1>2, <1>3, <1>6, <1>7 DEF LedgerInv, ActingOK

\* A new expense disturbs no other.
LEMMA InsertInv ==
    ASSUME LedgerInv, NEW e \in FreeIds, NEW x \in Expense,
           ledger' = [ledger EXCEPT ![e] = x]
    PROVE  /\ e \in Ids /\ Live' = Live \union {e}
           /\ ledger' \in [Ids -> Expense \union {None}]
           /\ ledger'[e] = x
           /\ \A f \in Live : f # e /\ ledger'[f] = ledger[f]
<1>1. e \in Ids /\ e \notin Live /\ x # None
    BY ExpensesAssumption DEF FreeIds
<1>2. DOMAIN ledger = Ids
    BY DEF LedgerInv, TypeOK
<1>3. \A f \in Ids : ledger'[f] = IF f = e THEN x ELSE ledger[f]
    BY <1>2
<1>4. ledger' \in [Ids -> Expense \union {None}]
    BY DEF LedgerInv, TypeOK
<1>5. Live' = Live \union {e}
    BY <1>1, <1>3 DEF Live
<1> QED
    BY <1>1, <1>3, <1>4, <1>5 DEF LedgerInv, Live

LEMMA CreatedInv == ASSUME LedgerInv, NEW e \in Ids, Created(e) PROVE LedgerInv'
<1> DEFINE x == create_expense("submitted", adding.paper)
<1>1. adding # None /\ adding \in Adding /\ adding.phase = "create" /\ adding.id = None
    BY DEF LedgerInv, TypeOK, AddingOK, Created
<1>2. x \in Expense /\ x.meant = adding.paper /\ x.receipt = None
    BY <1>1, NewExpense DEF Adding, Statuses
<1>3. /\ e \in Ids /\ Live' = Live \union {e}
      /\ ledger' \in [Ids -> Expense \union {None}]
      /\ ledger'[e] = x
      /\ \A f \in Live : f # e /\ ledger'[f] = ledger[f]
    BY <1>2, InsertInv DEF Created
<1>4. adding' \in Adding /\ adding'.phase = "upload" /\ adding'.id = e
      /\ adding'.paper = adding.paper /\ adding' # None
    BY <1>1, ExpensesAssumption DEF Created, Adding
<1>5. TypeOK'
    BY <1>3, <1>4 DEF LedgerInv, TypeOK, Created
<1>6. UNCHANGED <<lost, unsure>> /\ acting' = acting
    BY DEF Created
<1>7. AddingOK'
    BY <1>2, <1>3, <1>4, <1>6 DEF AddingOK, Awaiting
<1>8. ReceiptAsAdded'
  <2>1. None \notin Live
      BY ExpensesAssumption DEF Live
  <2> QED
      BY <2>1, <1>1, <1>3, <1>4, <1>6 DEF LedgerInv, ReceiptAsAdded
<1>9. ActingOK'
    BY <1>3, <1>6 DEF LedgerInv, ActingOK
<1> QED
    BY <1>5, <1>7, <1>8, <1>9 DEF LedgerInv

LEMMA NotCreatedInv == ASSUME LedgerInv, NotCreated PROVE LedgerInv'
<1>1. adding # None /\ adding \in Adding /\ adding.id = None /\ None \notin Live
    BY ExpensesAssumption DEF LedgerInv, TypeOK, AddingOK, NotCreated, Live
<1>2. adding' = None /\ UNCHANGED <<lost, acting>>
    BY DEF NotCreated
<1>3. CASE UNCHANGED <<ledger, unsure>>
  <2>1. TypeOK' /\ Live' = Live
      BY <1>3 DEF LedgerInv, TypeOK, NotCreated, Live
  <2> QED
      BY <2>1, <1>1, <1>2, <1>3 DEF LedgerInv, AddingOK, ActingOK, ReceiptAsAdded
<1>4. ASSUME NEW e \in FreeIds,
             ledger' = [ledger EXCEPT ![e] =
                          create_expense("submitted", adding.paper)],
             unsure' = unsure \union {e}
      PROVE  LedgerInv'
  <2> DEFINE x == create_expense("submitted", adding.paper)
  <2>1. x \in Expense /\ x.receipt = None
      BY <1>1, NewExpense DEF Adding, Statuses
  <2>2. /\ e \in Ids /\ Live' = Live \union {e}
        /\ ledger' \in [Ids -> Expense \union {None}]
        /\ ledger'[e] = x
        /\ \A f \in Live : f # e /\ ledger'[f] = ledger[f]
      BY <2>1, <1>4, InsertInv
  <2>3. TypeOK'
      BY <2>2, <1>2, <1>4 DEF LedgerInv, TypeOK, NotCreated
  <2>4. ReceiptAsAdded'
      BY <2>1, <2>2, <1>1, <1>2, <1>4 DEF LedgerInv, ReceiptAsAdded
  <2> QED
      BY <2>2, <2>3, <2>4, <1>2 DEF LedgerInv, AddingOK, ActingOK
<1> QED
    BY <1>3, <1>4 DEF NotCreated

LEMMA RecurringInv == ASSUME LedgerInv, NEW e \in Ids, run_due_recurring(e) PROVE LedgerInv'
<1> DEFINE x == create_expense("draft", None)
<1>1. x \in Expense /\ x.meant = None /\ x.receipt = None
    BY NewExpense DEF Statuses
<1>2. /\ e \in Ids /\ Live' = Live \union {e}
      /\ ledger' \in [Ids -> Expense \union {None}]
      /\ ledger'[e] = x
      /\ \A f \in Live : f # e /\ ledger'[f] = ledger[f]
    BY <1>1, InsertInv DEF run_due_recurring
<1>3. adding' = adding /\ UNCHANGED <<lost, unsure>> /\ acting' = acting
    BY DEF run_due_recurring
<1>4. TypeOK'
    BY <1>2 DEF LedgerInv, TypeOK, run_due_recurring
<1>5. AddingOK'
    BY <1>2, <1>3 DEF LedgerInv, AddingOK, Awaiting
<1>6. ReceiptAsAdded'
    BY <1>1, <1>2, <1>3 DEF LedgerInv, ReceiptAsAdded
<1>7. ActingOK'
    BY <1>2, <1>3 DEF LedgerInv, ActingOK
<1> QED
    BY <1>4, <1>5, <1>6, <1>7 DEF LedgerInv

LEMMA UploadedInv == ASSUME LedgerInv, NEW ok \in BOOLEAN, Uploaded(ok) PROVE LedgerInv'
<1> DEFINE i == adding.id
           p == adding.paper
<1>1. adding # None /\ adding \in Adding /\ Awaiting
    BY DEF LedgerInv, TypeOK, AddingOK, Adding, Uploaded
<1>2. i \in Ids /\ i \in Live /\ ledger[i] \in Expense /\ ledger[i] # None
    BY <1>1, LiveExpense DEF LedgerInv, Awaiting
<1>3. p \in Papers \union {None}
    BY <1>1 DEF Adding
<1>4. /\ adding' = None /\ form' = Blank
      /\ UNCHANGED <<framing, target, acting, unsure, template, other>>
      /\ lost' = IF ok THEN lost ELSE lost \union {i}
    BY DEF Uploaded
<1>5. Blank \in Form
    BY DEF Blank, Form
<1>6. CASE ledger' = [ledger EXCEPT ![i].receipt = p]
  <2>1. DOMAIN ledger = Ids
      BY DEF LedgerInv, TypeOK
  <2>2. \A f \in Ids : f # i => ledger'[f] = ledger[f]
      BY <1>6, <2>1
  <2>3. ledger'[i] = [ledger[i] EXCEPT !.receipt = p]
      BY <1>6, <2>1, <1>2
  <2>4. ledger'[i] \in Expense /\ ledger'[i].receipt = p
        /\ ledger'[i].meant = ledger[i].meant
      BY <2>3, <1>2, <1>3 DEF Expense
  <2>5. ledger' \in [Ids -> Expense \union {None}]
      BY <1>6, <2>3, <2>4, <1>2 DEF LedgerInv, TypeOK
  <2>6. Live' = Live
      BY <2>2, <2>4, <1>2, ExpensesAssumption DEF Live
  <2>7. ReceiptAsAdded'
      BY <2>2, <2>4, <2>6, <1>1, <1>4 DEF LedgerInv, ReceiptAsAdded, Awaiting, Live
  <2>8. TypeOK'
      BY <2>5, <1>2, <1>4, <1>5 DEF LedgerInv, TypeOK
  <2> QED
      BY <2>6, <2>7, <2>8, <1>4 DEF LedgerInv, AddingOK, ActingOK
<1>7. CASE ~ok /\ UNCHANGED ledger
  <2>1. Live' = Live
      BY <1>7 DEF Live
  <2>2. TypeOK'
      BY <1>7, <1>2, <1>4, <1>5 DEF LedgerInv, TypeOK
  <2>3. ReceiptAsAdded'
      BY <1>7, <2>1, <1>1, <1>4 DEF LedgerInv, ReceiptAsAdded, Awaiting
  <2> QED
      BY <1>7, <2>1, <2>2, <2>3, <1>4 DEF LedgerInv, AddingOK, ActingOK
<1> QED
    BY <1>6, <1>7 DEF Uploaded, PaperSent

-----------------------------------------------------------------------------
(* Moving an expense *)

LEMMA AskedInv ==
    ASSUME LedgerInv,
           \/ \E e \in Ids, to \in Statuses \ {"draft"} : act(e, to) \/ OtherActs(e, to)
           \/ \E b \in BOOLEAN : Reject(b)
    PROVE  LedgerInv'
<1>1. UNCHANGED <<ledger, adding, lost, unsure>> /\ Live' = Live
    BY DEF act, OtherActs, Reject, Live
<1>2. TypeOK'
    BY ExpensesAssumption DEF LedgerInv, TypeOK, act, OtherActs, Reject
<1>3. ActingOK'
    BY <1>1 DEF LedgerInv, ActingOK, act, OtherActs, Reject, Transitions, Live, Statuses
<1> QED
    BY <1>1, <1>2, <1>3, FormInv

LEMMA ReadInv ==
    ASSUME LedgerInv, NEW r \in acting, transition_expense(r) PROVE LedgerInv'
<1>1. UNCHANGED <<ledger, adding, lost, unsure>> /\ Live' = Live
    BY DEF transition_expense, Live
<1>2. TypeOK'
    BY DEF LedgerInv, TypeOK, transition_expense
<1>3. r \in Transitions /\ r.id \in Live
    BY DEF LedgerInv, ActingOK
<1>4. ledger[r.id].status \in Statuses
    BY <1>3, LiveExpense DEF LedgerInv, Expense
<1>5. [r EXCEPT !.read = ledger[r.id].status] \in Transitions
    BY <1>3, <1>4 DEF Transitions
<1>6. [r EXCEPT !.read = ledger[r.id].status].id = r.id
    BY <1>3 DEF Transitions
<1>7. ActingOK'
    BY <1>1, <1>3, <1>5, <1>6 DEF LedgerInv, ActingOK, transition_expense
<1> QED
    BY <1>1, <1>2, <1>7, FormInv

LEMMA CommitInv ==
    ASSUME LedgerInv, NEW r \in acting, CommitTransition(r) PROVE LedgerInv'
<1> DEFINE i == r.id
<1>1. r \in Transitions /\ i \in Live
    BY DEF LedgerInv, ActingOK
<1>2. i \in Ids /\ ledger[i] \in Expense /\ ledger[i] # None
    BY <1>1, LiveExpense DEF LedgerInv
<1>3. ledger' = [ledger EXCEPT ![i].status = r.to] /\ r.to \in Statuses
    BY <1>1 DEF CommitTransition, Transitions
<1>4. DOMAIN ledger = Ids
    BY DEF LedgerInv, TypeOK
<1>5. \A f \in Ids : f # i => ledger'[f] = ledger[f]
    BY <1>3, <1>4
<1>6. ledger'[i] = [ledger[i] EXCEPT !.status = r.to]
    BY <1>3, <1>4, <1>2
<1>7. /\ ledger'[i] \in Expense
      /\ ledger'[i].receipt = ledger[i].receipt
      /\ ledger'[i].meant = ledger[i].meant
    BY <1>6, <1>2, <1>3 DEF Expense
<1>8. ledger' \in [Ids -> Expense \union {None}]
    BY <1>3, <1>6, <1>7, <1>2 DEF LedgerInv, TypeOK
<1>9. Live' = Live
    BY <1>5, <1>7, <1>2, ExpensesAssumption DEF Live
<1>10. adding' = adding /\ UNCHANGED <<lost, unsure>> /\ acting' \subseteq acting
    BY DEF CommitTransition
<1>11. \A f \in Live : /\ ledger'[f].receipt = ledger[f].receipt
                       /\ ledger'[f].meant = ledger[f].meant
    BY <1>5, <1>7 DEF Live
<1>12. TypeOK'
    BY <1>8 DEF LedgerInv, TypeOK, CommitTransition
<1>13. AddingOK'
    BY <1>9, <1>10, <1>11 DEF LedgerInv, AddingOK, Awaiting
<1>14. ReceiptAsAdded'
    BY <1>9, <1>10, <1>11 DEF LedgerInv, ReceiptAsAdded
<1> QED
    BY <1>9, <1>10, <1>12, <1>13, <1>14 DEF LedgerInv, ActingOK

-----------------------------------------------------------------------------
LEMMA LedgerNext == LedgerInv /\ [Next]_vars => LedgerInv'
<1> SUFFICES ASSUME LedgerInv, [Next]_vars PROVE LedgerInv'
    OBVIOUS
<1>1. CASE UNCHANGED vars
    BY <1>1 DEF vars, LedgerInv, TypeOK, AddingOK, Awaiting, ActingOK,
                ReceiptAsAdded, Live
<1>2. CASE Next
    BY <1>2, PageInv, AddInv, NotCreatedInv, CreatedInv, RecurringInv, UploadedInv, AskedInv,
       ReadInv, CommitInv DEF Next
<1> QED
    BY <1>1, <1>2

THEOREM LedgerInvariant == Spec => []LedgerInv
    BY LedgerInit, LedgerNext, PTL DEF Spec

(***************************************************************************)
(* The ledger and the page that shows it keep their types                  *)
(* (expenses/page.tsx, services/expenses.py).                              *)
(***************************************************************************)
THEOREM LedgerTypeCorrect == Spec => []TypeOK
<1>1. LedgerInv => TypeOK
    BY DEF LedgerInv
<1> QED
    BY <1>1, LedgerInvariant, PTL

(***************************************************************************)
(* An expense has the receipt it was added with, or it has none and an     *)
(* error was shown, whatever is typed, picked or moved while the expense   *)
(* is recorded and its receipt sent, and whichever of the two answers is   *)
(* lost (expenses/page.tsx, InlineAddExpense).                             *)
(***************************************************************************)
THEOREM ReceiptAsAddedHolds == Spec => []ReceiptAsAdded
<1>1. LedgerInv => ReceiptAsAdded
    BY DEF LedgerInv
<1> QED
    BY <1>1, LedgerInvariant, PTL

-----------------------------------------------------------------------------
(* Types: the team *)

\* What MembersKept and RequestsNumbered leave open of the types.
TeamTypes ==
    /\ m3 \in [People -> 0 .. MaxAsks]
    /\ m4 \subseteq People \X (1 .. MaxAsks)
    /\ m5 = None \/ m5 \in [People -> BOOLEAN \union {None}]
    /\ m6 \in [People -> Nat] /\ \A m \in People : m6[m] <= m3[m]
    /\ m9 \in [target : People \union {None}, sent : People \union {None}]
    /\ m11 = None \/ m11 \in [id : People, number : 1 .. MaxAsks]
    /\ m12 \in 0 .. MaxOther

LEMMA TeamTypesInit == TeamPage!Init => TeamTypes
    BY ExpensesAssumption, BoundsAssumption DEF TeamPage!Init, TeamTypes

LEMMA TeamTypesNext ==
    ASSUME TeamTypes, TeamPage!MembersKept, TeamPage!RequestsNumbered,
           [TeamPage!Next]_TeamPage!teamVars
    PROVE  TeamTypes'
<1>1. CASE TeamPage!ReadTeam
  <2>1. TeamPage!Read \in [People -> BOOLEAN \union {None}]
      BY DEF TeamPage!Read, TeamPage!MembersKept
  <2> QED
      BY <1>1, <2>1 DEF TeamPage!ReadTeam, TeamTypes
<1>2. CASE TeamPage!ReadRequests
    BY <1>2 DEF TeamPage!ReadRequests, TeamTypes, TeamPage!RequestsNumbered
<1>3. ASSUME NEW m \in People, TeamPage!Ask(m) PROVE TeamTypes'
    BY <1>3, BoundsAssumption DEF TeamPage!Ask, TeamTypes
<1>4. ASSUME NEW m \in People, TeamPage!OpenReset(m) PROVE TeamTypes'
    BY <1>4 DEF TeamPage!OpenReset, TeamTypes
<1>5. CASE TeamPage!CloseReset \/ TeamPage!SendReset
    BY <1>5 DEF TeamPage!CloseReset, TeamPage!SendReset, TeamTypes
\* A request that is answered is one that was made.
<1>6. ASSUME NEW m \in People, m2[m] # 0
      PROVE  <<m, m2[m]>> \in People \X (1 .. MaxAsks)
    BY <1>6, BoundsAssumption DEF TeamTypes, TeamPage!RequestsNumbered
<1>7. ASSUME NEW m \in People, TeamPage!complete_for_user(m)
      PROVE  m4' \subseteq People \X (1 .. MaxAsks)
    BY <1>6, <1>7 DEF TeamPage!complete_for_user, TeamTypes
<1>8. CASE TeamPage!reset_member_password
  <2>1. m9.sent \in People
      BY <1>8 DEF TeamPage!reset_member_password, TeamTypes
  <2>2. m4' \subseteq People \X (1 .. MaxAsks)
      BY <1>7, <1>8, <2>1 DEF TeamPage!reset_member_password
  <2> QED
      BY <1>8, <2>2 DEF TeamPage!reset_member_password, TeamTypes
<1>9. ASSUME NEW m \in People, TeamPage!OtherResets(m) PROVE TeamTypes'
  <2>1. m4' \subseteq People \X (1 .. MaxAsks)
      BY <1>7, <1>9 DEF TeamPage!OtherResets
  <2> QED
      BY <1>9, <2>1, ExpensesAssumption DEF TeamPage!OtherResets, TeamTypes
<1>10. ASSUME NEW m \in People, TeamPage!Dismiss(m) PROVE TeamTypes'
  <2>1. m6[m] \in 1 .. MaxAsks
      BY <1>10, BoundsAssumption DEF TeamPage!Dismiss, TeamTypes
  <2> QED
      BY <1>10, <2>1 DEF TeamPage!Dismiss, TeamTypes
<1>11. CASE TeamPage!dismiss_request
    BY <1>11 DEF TeamPage!dismiss_request, TeamTypes
<1>12. ASSUME NEW m \in People, TeamPage!OtherHires(m) PROVE TeamTypes'
    BY <1>12, ExpensesAssumption DEF TeamPage!OtherHires, TeamTypes
<1>13. CASE UNCHANGED <<m3, m4, m5, m6, m9, m11, m12>>
    BY <1>13 DEF TeamTypes
<1> QED
    BY <1>1, <1>2, <1>3, <1>4, <1>5, <1>8, <1>9, <1>10, <1>11, <1>12, <1>13
    DEF TeamPage!Next, TeamPage!teamVars, TeamPage!OpenAdd, TeamPage!CloseAdd,
        TeamPage!Added, TeamPage!CloseEdit, TeamPage!SaveEdit, TeamPage!Edited,
        TeamPage!set_member_status, TeamPage!Add, TeamPage!OpenEdit,
        TeamPage!SetStatus

LEMMA TeamTyped ==
    ASSUME TeamTypes, TeamPage!MembersKept, TeamPage!RequestsNumbered
    PROVE  TeamPage!TypeOK
<1>1. TeamPage!Live \subseteq People
    BY DEF TeamPage!Live
<1>2. {m8.target, m8.fields, m9.target, m9.sent} \subseteq People \union {None}
    BY <1>1 DEF TeamTypes, TeamPage!MembersKept
<1>3. m8.sent = None \/ m8.sent \in [id : People, fields : People]
    BY <1>1 DEF TeamPage!MembersKept
<1>4. \A m \in People :
        /\ m1[m] = None \/ m1[m] \in [active : BOOLEAN, profile : People]
        /\ {m2[m], m6[m]} \subseteq 0 .. m3[m] /\ m3[m] \in 0 .. MaxAsks
    BY DEF TeamTypes, TeamPage!MembersKept, TeamPage!RequestsNumbered
<1> QED
    BY <1>2, <1>3, <1>4 DEF TeamPage!TypeOK, TeamTypes, TeamPage!MembersKept

-----------------------------------------------------------------------------
(* Types: the partner's form of a hotel *)

\* What RowsAsFilled leaves open of the types; what is saved was filled.
HotelTypes ==
    /\ m2 \in [Hotels -> Hotels] /\ m6 \in HotelPage!Maybe(Hotels)
    /\ m11 \subseteq Numbers /\ (m12 # None => m6 \in Hotels)

LEMMA HotelTypesInit == HotelPage!Init => HotelTypes
    BY DEF HotelPage!Init, HotelTypes, HotelPage!Maybe

LEMMA HotelTypesNext ==
    ASSUME HotelTypes, HotelPage!RowsAsFilled,
           [HotelPage!Next]_HotelPage!editHotelVars
    PROVE  HotelTypes'
<1> USE DEF HotelTypes, HotelPage!Maybe, HotelPage!serverVars, HotelPage!formVars
<1>1. m1 \in Hotels
    BY DEF HotelPage!RowsAsFilled
<1>2. CASE HotelPage!HotelComes
    BY <1>1, <1>2 DEF HotelPage!HotelComes
<1>3. CASE HotelPage!FillRooms
    BY <1>1, <1>3 DEF HotelPage!FillRooms
<1>4. ASSUME NEW n \in Numbers, NEW c, HotelPage!Row(n, c) PROVE HotelTypes'
    BY <1>4 DEF HotelPage!Row
<1>5. CASE HotelPage!Update
    BY <1>5 DEF HotelPage!Update
<1>6. CASE HotelPage!SaveIdentity
  <2>1. m6 \in Hotels /\ m12 # None /\ UNCHANGED <<m6, m11>>
      BY <1>6 DEF HotelPage!SaveIdentity
  <2>2. m2' = m2 \/ m2' = [m2 EXCEPT ![m1] = m6]
      BY <1>6 DEF HotelPage!SaveIdentity
  <2>3. m2' \in [Hotels -> Hotels]
      BY <1>1, <2>1, <2>2
  <2> QED
      BY <2>1, <2>3
<1>7. CASE HotelPage!Refill
    BY <1>7 DEF HotelPage!Refill
<1>8. CASE m12 # None /\ UNCHANGED <<m2, m6, m11>>
    BY <1>8
<1>9. CASE UNCHANGED <<m2, m6, m11, m12>>
    BY <1>9
<1>10. CASE HotelPage!SaveTypes \/ HotelPage!SaveRooms
    BY <1>8, <1>10 DEF HotelPage!SaveTypes, HotelPage!SaveRooms
<1>11. CASE \/ HotelPage!RoomsCome \/ HotelPage!addTypeEntry
            \/ HotelPage!removeTypeEntry \/ UNCHANGED HotelPage!editHotelVars
            \/ \E k : HotelPage!updateTypeEntry(k) \/ HotelPage!deleteSavedType(k)
            \/ \E n, k : HotelPage!OtherDesk(n, k)
    BY <1>9, <1>11
    DEF HotelPage!RoomsCome, HotelPage!addTypeEntry, HotelPage!removeTypeEntry,
        HotelPage!updateTypeEntry, HotelPage!TypeRow, HotelPage!editHotelVars,
        HotelPage!deleteSavedType, HotelPage!OtherDesk
<1>12. ASSUME NEW h \in Hotels, HotelPage!SwitchHotel(h) PROVE HotelTypes'
    BY <1>12 DEF HotelPage!SwitchHotel
<1> QED
    BY <1>2, <1>3, <1>4, <1>5, <1>6, <1>7, <1>10, <1>11, <1>12
    DEF HotelPage!Next, HotelPage!addRoomEntry, HotelPage!removeRoomEntry,
        HotelPage!updateRoomEntry

LEMMA HotelTyped ==
    ASSUME HotelTypes, HotelPage!RowsAsFilled PROVE HotelPage!TypeOK
    BY DEF HotelTypes, HotelPage!RowsAsFilled, HotelPage!TypeOK, HotelPage!Maybe

-----------------------------------------------------------------------------
(* Types: the super admin's form of a hotel, on which no type is chosen *)

AdminTypes ==
    /\ AdminRows
    /\ m14 \in Modes \union {None} /\ m15 \in Modes /\ m16 \in BOOLEAN
    /\ m17 \in Modes \union {None}

LEMMA AdminTypesInit == AdminHotelPage!Init => AdminTypes
<1> SUFFICES ASSUME AdminHotelPage!Init PROVE AdminTypes
    OBVIOUS
<1>1. AdminRows
    BY DEF AdminHotelPage!Init, AdminHotelPage!Form!Init, AdminRows,
           AdminHotelPage!Form!NoRooms, AdminHotelPage!Form!Maybe,
           AdminHotelPage!Form!Choices
<1> QED
    BY <1>1, ModesAssumption DEF AdminHotelPage!Init, AdminTypes, AdminHotelPage!Full

\* The steps that the form shares with the partner's.
LEMMA AdminRowsNext ==
    ASSUME AdminRows, AdminHotelPage!FieldsOfPage, AdminHotelPage!ModesOfPage,
           [AdminHotelPage!Next]_AdminHotelPage!adminVars
    PROVE  AdminRows'
<1> USE DEF AdminRows, AdminHotelPage!Form!serverVars, AdminHotelPage!Form!formVars
<1>1. m1 \in Hotels
    BY DEF AdminHotelPage!FieldsOfPage, AdminHotelPage!Form!FieldsOfHotel
<1>2. CASE AdminHotelPage!RoomsCome
    BY <1>1, <1>2 DEF AdminHotelPage!RoomsCome, AdminHotelPage!Form!RoomsCome
<1>3. CASE AdminHotelPage!FillRooms
    BY <1>1, <1>3 DEF AdminHotelPage!FillRooms, AdminHotelPage!Form!FillRooms,
                      AdminHotelPage!Form!Choices
<1>4. ASSUME NEW n \in Numbers, NEW c \in AdminHotelPage!Form!Choices,
             AdminHotelPage!Form!Row(n, c)
      PROVE  AdminRows'
    BY <1>4 DEF AdminHotelPage!Form!Row
<1>5. ASSUME NEW n \in Numbers,
             \/ AdminHotelPage!addRoom(n) \/ AdminHotelPage!removeRoom(n)
             \/ \E c \in AdminHotelPage!Form!Choices : AdminHotelPage!updateRoom(n, c)
      PROVE  AdminRows'
  <2>1. {AdminHotelPage!Form!NoType, None} \subseteq AdminHotelPage!Form!Choices
      BY DEF AdminHotelPage!Form!Choices
  <2> QED
      BY <1>4, <1>5, <2>1
      DEF AdminHotelPage!addRoom, AdminHotelPage!removeRoom,
          AdminHotelPage!updateRoom, AdminHotelPage!Form!addRoomEntry,
          AdminHotelPage!Form!removeRoomEntry, AdminHotelPage!Form!updateRoomEntry
<1>6. CASE \/ AdminHotelPage!addType
           \/ \E k \in {AdminHotelPage!Form!NoType} : AdminHotelPage!updateType(k)
    BY <1>6 DEF AdminHotelPage!addType, AdminHotelPage!Form!addTypeEntry,
                AdminHotelPage!updateType, AdminHotelPage!Form!updateTypeEntry,
                AdminHotelPage!Form!TypeRow
<1>7. CASE AdminHotelPage!removeType
    BY <1>7 DEF AdminHotelPage!removeType, AdminHotelPage!Form!removeTypeEntry,
                AdminHotelPage!Form!TypeRow, AdminHotelPage!Form!Choices
<1>8. CASE AdminHotelPage!SaveIdentity
    BY <1>8 DEF AdminHotelPage!SaveIdentity, AdminHotelPage!Form!SaveIdentity
<1>9. CASE AdminHotelPage!SaveTypes
    BY <1>9 DEF AdminHotelPage!SaveTypes, AdminHotelPage!Form!SaveTypes
\* No row is of a type that can be sent.
<1>10. CASE AdminHotelPage!SaveRooms
  <2>1. m12 # None /\ m12.created = None
      BY <1>10 DEF AdminHotelPage!SaveRooms, AdminHotelPage!Form!SaveRooms,
                   AdminHotelPage!ModesOfPage, AdminHotelPage!Form!Saves,
                   AdminHotelPage!Form!Maybe
  <2>2. AdminHotelPage!Form!Sent = {}
    <3>1. m12.rows \in [Numbers -> AdminHotelPage!Form!Choices]
        BY <2>1 DEF AdminHotelPage!ModesOfPage, AdminHotelPage!Form!Saves,
                    AdminHotelPage!Form!Maybe
    <3> QED
        BY <2>1, <3>1
        DEF AdminHotelPage!Form!Sent, AdminHotelPage!Form!Kept,
            AdminHotelPage!Form!Skipped, AdminHotelPage!Form!Resolved,
            AdminHotelPage!Form!Choices
  <2>3. UNCHANGED <<m1, m2, m3, m5, m6, m7, m8, m9, m10, m11>>
      BY <1>10 DEF AdminHotelPage!SaveRooms, AdminHotelPage!Form!SaveRooms
  <2> DEFINE left(gone) == [n \in Numbers |-> IF n \in gone THEN None ELSE m4[m1][n]]
  <2>4. PICK gone \in SUBSET {n \in AdminHotelPage!Form!Deleted : m4[m1][n] # None} :
          \E done \in SUBSET {n \in AdminHotelPage!Form!Sent :
                          AdminHotelPage!Form!HasId(n) <=> left(gone)[n] # None} :
            m4' = [m4 EXCEPT ![m1] = [n \in Numbers |->
                     IF n \in done THEN AdminHotelPage!Form!Resolved(m12.rows[n])
                     ELSE left(gone)[n]]]
      BY <1>10, Zenon DEF AdminHotelPage!SaveRooms, AdminHotelPage!Form!SaveRooms
  <2>5. m4' = [m4 EXCEPT ![m1] = [n \in Numbers |-> left(gone)[n]]]
    <3> HIDE DEF left
    <3> QED
        BY <2>2, <2>4
  <2>6. \A n \in Numbers : left(gone)[n] = None
      BY <1>1
  <2>7. m4' \in [Hotels -> [Numbers -> {None}]]
    <3> HIDE DEF left
    <3> QED
        BY <2>5, <2>6
  <2> QED
      BY <2>3, <2>7
<1>11. CASE AdminHotelPage!Refill
    BY <1>1, <1>11 DEF AdminHotelPage!Refill, AdminHotelPage!Form!Refill,
                       AdminHotelPage!Form!NoRooms
<1>12. ASSUME NEW h \in Hotels, AdminHotelPage!OpenHotel(h) PROVE AdminRows'
    BY <1>12 DEF AdminHotelPage!OpenHotel, AdminHotelPage!Form!SwitchHotel,
                 AdminHotelPage!Form!NoRooms, AdminHotelPage!Form!Choices
<1>13. CASE UNCHANGED <<m3, m4, m5, m7, m8, m9, m10, m11>>
    BY <1>13
<1>14. CASE \/ AdminHotelPage!HotelComes \/ AdminHotelPage!Update
            \/ AdminHotelPage!SaveDetails \/ AdminHotelPage!DetailComes
            \/ AdminHotelPage!FillDetail \/ UNCHANGED AdminHotelPage!adminVars
            \/ \E m : AdminHotelPage!ChooseMode(m) \/ AdminHotelPage!OtherAdmin(m)
    BY <1>13, <1>14
    DEF AdminHotelPage!HotelComes, AdminHotelPage!Form!HotelComes,
        AdminHotelPage!Update, AdminHotelPage!Form!Update,
        AdminHotelPage!SaveDetails, AdminHotelPage!DetailComes,
        AdminHotelPage!FillDetail, AdminHotelPage!ChooseMode,
        AdminHotelPage!OtherAdmin, AdminHotelPage!roomsForm,
        AdminHotelPage!adminVars
<1> QED
    BY <1>2, <1>3, <1>5, <1>6, <1>7, <1>8, <1>9, <1>10, <1>11, <1>12, <1>14
    DEF AdminHotelPage!Next

LEMMA AdminTypesNext ==
    ASSUME AdminTypes, AdminHotelPage!FieldsOfPage, AdminHotelPage!ModesOfPage,
           [AdminHotelPage!Next]_AdminHotelPage!adminVars
    PROVE  AdminTypes'
<1>1. AdminRows'
    BY AdminRowsNext DEF AdminTypes
<1> DEFINE Kinds == /\ m14 \in Modes \union {None} /\ m15 \in Modes /\ m16 \in BOOLEAN
                    /\ m17 \in Modes \union {None}
<1>2. Kinds /\ m1 \in Hotels /\ m13 \in [Hotels -> Modes]
    BY DEF AdminTypes, AdminHotelPage!ModesOfPage
<1>3. CASE AdminHotelPage!Update
  <2>1. m17' \in Modes \union {None}
      BY <1>2, <1>3 DEF AdminHotelPage!Update
  <2> QED
      BY <1>1, <1>2, <1>3, <2>1 DEF AdminHotelPage!Update, AdminTypes
<1>4. CASE AdminHotelPage!SaveDetails
    BY <1>1, <1>2, <1>4 DEF AdminHotelPage!SaveDetails, AdminTypes
<1>5. CASE AdminHotelPage!Refill
    BY <1>1, <1>2, <1>5 DEF AdminHotelPage!Refill, AdminTypes
<1>6. ASSUME NEW h \in Hotels, AdminHotelPage!OpenHotel(h) PROVE AdminTypes'
    BY <1>1, <1>2, <1>6, ModesAssumption
    DEF AdminHotelPage!OpenHotel, AdminTypes, AdminHotelPage!Full
<1>7. CASE AdminHotelPage!DetailComes \/ AdminHotelPage!FillDetail
    BY <1>1, <1>2, <1>7
    DEF AdminHotelPage!DetailComes, AdminHotelPage!FillDetail, AdminTypes
<1>8. ASSUME NEW m \in Modes, AdminHotelPage!ChooseMode(m) PROVE AdminTypes'
    BY <1>1, <1>2, <1>8 DEF AdminHotelPage!ChooseMode, AdminTypes
<1>9. CASE UNCHANGED <<m14, m15, m16, m17>>
    BY <1>1, <1>2, <1>9 DEF AdminTypes
<1>10. CASE UNCHANGED AdminHotelPage!adminVars \/ \E m : AdminHotelPage!OtherAdmin(m)
    BY <1>9, <1>10 DEF AdminHotelPage!adminVars, AdminHotelPage!detailVars,
                       AdminHotelPage!detailForm, AdminHotelPage!OtherAdmin
<1> QED
    BY <1>3, <1>4, <1>5, <1>6, <1>7, <1>8, <1>9, <1>10
    DEF AdminHotelPage!Next, AdminHotelPage!HotelComes, AdminHotelPage!RoomsCome,
        AdminHotelPage!FillRooms, AdminHotelPage!addRoom,
        AdminHotelPage!removeRoom, AdminHotelPage!updateRoom,
        AdminHotelPage!addType, AdminHotelPage!updateType,
        AdminHotelPage!removeType, AdminHotelPage!SaveIdentity,
        AdminHotelPage!SaveTypes, AdminHotelPage!SaveRooms,
        AdminHotelPage!detailVars, AdminHotelPage!detailForm

LEMMA AdminTyped ==
    ASSUME AdminTypes, AdminHotelPage!FieldsOfPage, AdminHotelPage!ModesOfPage
    PROVE  AdminHotelPage!TypeOK
<1>1. AdminHotelPage!Form!TypeOK
    BY DEF AdminTypes, AdminRows, AdminHotelPage!FieldsOfPage,
           AdminHotelPage!Form!FieldsOfHotel, AdminHotelPage!ModesOfPage, AdminHotelPage!Form!TypeOK,
           AdminHotelPage!Form!Maybe
<1> QED
    BY <1>1 DEF AdminTypes, AdminHotelPage!ModesOfPage, AdminHotelPage!TypeOK

-----------------------------------------------------------------------------
(* Types: the special requirements and the new hotel *)

LEMMA RequirementTypesNext ==
    ASSUME m8 \in BOOLEAN, m9 \subseteq RequirementIds,
           [RequirementsPage!Next]_RequirementsPage!requirementVars
    PROVE  m8' \in BOOLEAN /\ m9' \subseteq RequirementIds
<1>1. m8' \in {m8, TRUE, FALSE}
    BY DEF RequirementsPage!Next, RequirementsPage!requirementVars,
           RequirementsPage!ServicesCome, RequirementsPage!FillServices,
           RequirementsPage!Change,
           RequirementsPage!removeReqEntry, RequirementsPage!updateReqEntry,
           RequirementsPage!addReqEntry, RequirementsPage!TypeNewRow,
           RequirementsPage!RemoveNewRow, RequirementsPage!NewRow,
           RequirementsPage!Update, RequirementsPage!RequirementsTurn,
           RequirementsPage!SaveRequirement,
           RequirementsPage!CreateRequirement, RequirementsPage!CallsThrough,
           RequirementsPage!Refill, RequirementsPage!OtherDesk
<1>2. m9' \in {m9, {}} \/ \E i \in RequirementIds : m9' = m9 \union {i}
    BY DEF RequirementsPage!Next, RequirementsPage!requirementVars,
           RequirementsPage!ServicesCome, RequirementsPage!FillServices,
           RequirementsPage!Change,
           RequirementsPage!removeReqEntry, RequirementsPage!updateReqEntry,
           RequirementsPage!addReqEntry, RequirementsPage!TypeNewRow,
           RequirementsPage!RemoveNewRow, RequirementsPage!NewRow,
           RequirementsPage!Update, RequirementsPage!RequirementsTurn,
           RequirementsPage!SaveRequirement,
           RequirementsPage!CreateRequirement, RequirementsPage!CallsThrough,
           RequirementsPage!Refill, RequirementsPage!OtherDesk
<1> QED
    BY <1>1, <1>2

LEMMA RequirementsTyped ==
    ASSUME m8 \in BOOLEAN, m9 \subseteq RequirementIds,
           RequirementsPage!RowsAsListed, RequirementsPage!CreatedThen
    PROVE  RequirementsPage!TypeOK
    BY DEF RequirementsPage!RowsAsListed, RequirementsPage!CreatedThen,
           RequirementsPage!TypeOK

\* What CreatedSoFar leaves open of the types; what is sent is a form, and
\* nothing is asked for before there is a hotel.
NewHotelTypes ==
    /\ m1 \in [NewHotelPage!TypeKeys -> {"gone", "blank", "named"}]
    /\ m3 \in [Members -> {"none", "partial", "complete"}]
    /\ m4 \in BOOLEAN /\ m5 \in BOOLEAN /\ m6 \in BOOLEAN
    /\ m8 # None => m7 \in NewHotels
    /\ m10 \subseteq NewHotelPage!Steps \union Members
    /\ m11 \in BOOLEAN /\ m14 \subseteq Members /\ m15 \in BOOLEAN
    /\ m16 \in {"none", "polling", "shown", "late"} /\ m17 \in 0 .. MaxPolls
    /\ ~m11 => m17 = 0 /\ m16 = "none"
    /\ m16 = "polling" => m17 < MaxPolls

LEMMA NewHotelTypesInit == NewHotelPage!Init => NewHotelTypes
<1> SUFFICES ASSUME NewHotelPage!Init PROVE NewHotelTypes
    OBVIOUS
<1>1. m4 \in BOOLEAN /\ m5 \in BOOLEAN /\ m6 \in BOOLEAN /\ m11 \in BOOLEAN
      /\ m15 \in BOOLEAN
    BY Zenon DEF NewHotelPage!Init
<1>2. m1 \in [NewHotelPage!TypeKeys -> {"gone", "blank", "named"}]
    BY DEF NewHotelPage!Init
<1>3. m3 \in [Members -> {"none", "partial", "complete"}]
    BY DEF NewHotelPage!Init
<1>4. m17 \in 0 .. MaxPolls /\ m17 = 0 /\ m16 = "none"
    BY BoundsAssumption DEF NewHotelPage!Init
<1> QED
    BY <1>1, <1>2, <1>3, <1>4 DEF NewHotelPage!Init, NewHotelTypes

LEMMA NewHotelTypesNext ==
    ASSUME NewHotelTypes, NewHotelPage!CreatedSoFar,
           [NewHotelPage!Next]_NewHotelPage!addHotelVars
    PROVE  NewHotelTypes'
<1> USE DEF NewHotelTypes, NewHotelPage!formVars, NewHotelPage!serverVars,
            NewHotelPage!qrVars
<1>1. CASE NewHotelPage!Submit
  <2> DEFINE f == [names |-> m1, rows |-> m2, members |-> m3, upi |-> m4, pictures |-> m5]
  <2>1. m7' = f /\ UNCHANGED <<m1, m3, m4, m5, m6, m11, m14, m15, m16, m17>>
        /\ m10' = {}
      BY <1>1 DEF NewHotelPage!Submit
  <2>2. m1 \in [NewHotelPage!TypeKeys -> {"gone", "blank", "named"}]
        /\ m2 \in [Numbers -> NewHotelPage!TypeKeys \union {NewHotelPage!NoType, None}]
        /\ m3 \in [Members -> {"none", "partial", "complete"}]
      BY DEF NewHotelPage!CreatedSoFar
  <2>3. m4 \in BOOLEAN /\ m5 \in BOOLEAN
      BY Zenon
  <2>4. f \in NewHotels
      BY <2>2, <2>3, Zenon DEF NewHotels
  <2> HIDE DEF f
  <2> QED
      BY <2>1, <2>4
<1>2. CASE NewHotelPage!CreateHotel
    BY <1>2, NoneNoStep DEF NewHotelPage!CreateHotel, NewHotelPage!Steps
<1>3. CASE NewHotelPage!Extras
  <2>1. m7.upi \in BOOLEAN
      BY <1>3, NoneNoStep DEF NewHotelPage!Extras, NewHotelPage!Steps, NewHotels
  <2>2. m15' \in BOOLEAN
      BY <1>3, <2>1 DEF NewHotelPage!Extras
  <2>3. m10' \subseteq NewHotelPage!Steps \union Members
      BY <1>3 DEF NewHotelPage!Extras, NewHotelPage!Steps
  <2> QED
      BY <1>3, <2>2, <2>3, NoneNoStep DEF NewHotelPage!Extras, NewHotelPage!Steps
<1>4. CASE NewHotelPage!CreateType
    BY <1>4, NoneNoStep DEF NewHotelPage!CreateType, NewHotelPage!Fails, NewHotelPage!Steps
<1>5. CASE NewHotelPage!CreateRoom
    BY <1>5, NoneNoStep DEF NewHotelPage!CreateRoom, NewHotelPage!Fails, NewHotelPage!Steps
<1>6. CASE NewHotelPage!CreateMembers
    BY <1>6, NoneNoStep DEF NewHotelPage!CreateMembers, NewHotelPage!Steps
<1>7. CASE NewHotelPage!Created
  <2>1. ~m11 /\ m17 = 0 /\ 0 < MaxPolls
      BY <1>7, NoneNoStep, BoundsAssumption
      DEF NewHotelPage!Created, NewHotelPage!Steps, NewHotelPage!CreatedSoFar
  <2> QED
      BY <1>7, <2>1 DEF NewHotelPage!Created
<1>8. CASE NewHotelPage!pollAndLoadQr
    BY <1>8, BoundsAssumption DEF NewHotelPage!pollAndLoadQr, NewHotelPage!TryFailed
<1>9. CASE /\ m1' \in [NewHotelPage!TypeKeys -> {"gone", "blank", "named"}]
           /\ m3' \in [Members -> {"none", "partial", "complete"}]
           /\ m4' \in {m4, TRUE} /\ m5' \in {m5, TRUE, FALSE} /\ m6' \in {m6, TRUE}
           /\ UNCHANGED <<m7, m8, m10, m11, m14, m15, m16, m17>>
    BY <1>9
<1>10. CASE \/ \E k \in NewHotelPage!TypeKeys :
                 \/ NewHotelPage!removeTypeEntry(k)
                 \/ \E name \in {"blank", "named"} : NewHotelPage!updateTypeEntry(k, name)
            \/ \E n \in Numbers :
                 \/ NewHotelPage!addRoomEntry(n) \/ NewHotelPage!removeRoomEntry(n)
                 \/ \E k : NewHotelPage!updateRoomEntry(n, k)
            \/ \E m \in Members : NewHotelPage!addMember(m) \/ NewHotelPage!updateMember(m)
            \/ NewHotelPage!setUpiId \/ NewHotelPage!handleLogoChange
            \/ NewHotelPage!removeGallerySlot \/ NewHotelPage!FillRequired
            \/ UNCHANGED NewHotelPage!addHotelVars
    BY <1>9, <1>10
    DEF NewHotelPage!removeTypeEntry, NewHotelPage!updateTypeEntry,
        NewHotelPage!addRoomEntry, NewHotelPage!removeRoomEntry,
        NewHotelPage!updateRoomEntry, NewHotelPage!addMember,
        NewHotelPage!updateMember, NewHotelPage!setUpiId,
        NewHotelPage!handleLogoChange, NewHotelPage!removeGallerySlot,
        NewHotelPage!FillRequired, NewHotelPage!addHotelVars,
        NewHotelPage!Edit, NewHotelPage!EditRooms
<1> QED
    BY <1>1, <1>2, <1>3, <1>4, <1>5, <1>6, <1>7, <1>8, <1>10
    DEF NewHotelPage!Next

LEMMA NewHotelTyped ==
    ASSUME NewHotelTypes, NewHotelPage!CreatedSoFar PROVE NewHotelPage!TypeOK
<1>1. m8 # None => m7 # None
    BY NoneAssumption DEF NewHotelTypes
<1>2. {m4, m5, m6} \subseteq BOOLEAN
    BY Zenon DEF NewHotelTypes
<1> QED
    BY <1>1, <1>2 DEF NewHotelTypes, NewHotelPage!CreatedSoFar, NewHotelPage!TypeOK

-----------------------------------------------------------------------------
(* Types: the settings of the hotel *)

\* What FormTyped and PreviewFollows leave open of the types: the tabs, and the numbers of the codes
\* drawn, asked for and shown.
SettingsTypes ==
    /\ m1 \in SettingsPage!Rights /\ m2 \in SettingsPage!Tabs
    /\ m6 \subseteq SettingsPage!Fields /\ m8 \in 0 .. MaxOther
    /\ m9 \in 0 .. MaxVersion /\ m11 \in BOOLEAN /\ (m11 = TRUE => m9 < MaxVersion)
    /\ m12 \subseteq 0 .. m9
    /\ \A i \in m14 : i.got >= 1
    /\ m15 # None => m15 \in 1 .. m9

LEMMA SettingsTypesInit == SettingsPage!Init => SettingsTypes
<1> SUFFICES ASSUME SettingsPage!Init PROVE SettingsTypes
    OBVIOUS
<1>1. m2 \in SettingsPage!Tabs
    BY DEF SettingsPage!Init, SettingsPage!FirstTab, SettingsPage!Tabs
<1>2. m8 \in 0 .. MaxOther /\ m9 \in 0 .. MaxVersion
    BY ExpensesAssumption, BoundsAssumption DEF SettingsPage!Init
<1>3. m11 \in BOOLEAN /\ m11 # TRUE
    BY Zenon DEF SettingsPage!Init
<1> QED
    BY <1>1, <1>2, <1>3 DEF SettingsPage!Init, SettingsTypes

\* A version of those that were drawn is shown.
LEMMA SettingsTypesShow ==
    ASSUME SettingsTypes, SettingsPage!PreviewFollows, NEW v, SettingsPage!Show(v),
           m9' \in 0 .. MaxVersion, m9 <= m9'
    PROVE  (\A i \in m14' : i.got >= 1) /\ (m15' # None => m15' \in 1 .. m9')
<1>1. m15' \in {m15, None}
    BY DEF SettingsPage!Show
<1>2. ASSUME NEW i \in m14' PROVE i.got >= 1
  <2>1. m14' = m14 \/ m14' = {[j EXCEPT !.live = FALSE] : j \in m14}
      BY DEF SettingsPage!Show
  <2>2. \A j \in m14 : j.got >= 1 /\ j \in [got : Nat, live : BOOLEAN]
      BY DEF SettingsTypes, SettingsPage!PreviewFollows
  <2>3. \A j \in m14 : [j EXCEPT !.live = FALSE].got = j.got
      BY <2>2
  <2> QED
      BY <2>1, <2>2, <2>3
<1> QED
    BY <1>1, <1>2, BoundsAssumption DEF SettingsTypes

LEMMA SettingsTypesNext ==
    ASSUME SettingsTypes, SettingsPage!PreviewFollows, [SettingsPage!Next]_SettingsPage!vars
    PROVE  SettingsTypes'
<1> USE DEF SettingsTypes, SettingsPage!formVars, SettingsPage!qrVars
<1>0. MaxVersion \in Nat /\ MaxOther \in Nat /\ m9 \in Nat /\ m10 \in 0 .. m9
    BY ExpensesAssumption, BoundsAssumption DEF SettingsPage!PreviewFollows
<1>1. ASSUME NEW t \in SettingsPage!Tabs, SettingsPage!handleTabChange(t) PROVE SettingsTypes'
    BY <1>0, <1>1 DEF SettingsPage!handleTabChange
<1>2. ASSUME NEW r \in SettingsPage!Rights, SettingsPage!ChangeRights(r) PROVE SettingsTypes'
    BY <1>0, <1>2 DEF SettingsPage!ChangeRights, SettingsPage!Tabs
<1>3. CASE SettingsPage!ReadSettings
    BY <1>3 DEF SettingsPage!ReadSettings
<1>4. ASSUME NEW f \in SettingsPage!Fields, NEW v \in Values, SettingsPage!TypeField(f, v)
      PROVE  SettingsTypes'
    BY <1>4 DEF SettingsPage!TypeField
<1>5. ASSUME NEW f \in SettingsPage!Fields, NEW v \in Values, SettingsPage!OtherDesk(f, v)
      PROVE  SettingsTypes'
    BY <1>0, <1>5 DEF SettingsPage!OtherDesk
<1>6. CASE SettingsPage!SaveSettings \/ SettingsPage!SettingsSaved \/ UNCHANGED SettingsPage!vars
    BY <1>6 DEF SettingsPage!SaveSettings, SettingsPage!SettingsSaved, SettingsPage!vars
<1>7. CASE SettingsPage!SaveUpi
    BY <1>0, <1>7 DEF SettingsPage!SaveUpi
<1>8. ASSUME NEW ok \in BOOLEAN, SettingsPage!UpiSaved(ok) PROVE SettingsTypes'
  <2>1. CASE ok
    <3>1. /\ m9' = m9 + 1 /\ m11 /\ m11' = FALSE /\ m12' = m12 \union {m10}
          /\ SettingsPage!Show(m9') /\ UNCHANGED <<m1, m2, m6, m8>>
        BY <1>8, <2>1 DEF SettingsPage!UpiSaved
    <3>2. m11 = TRUE /\ m11' \in BOOLEAN /\ m11' # TRUE
        BY <3>1, Zenon
    <3>3. m9' \in 0 .. MaxVersion /\ m9 <= m9'
        BY <1>0, <3>1, <3>2
    <3>4. (\A i \in m14' : i.got >= 1) /\ (m15' # None => m15' \in 1 .. m9')
        BY <3>1, <3>3, SettingsTypesShow
    <3>5. m12' \subseteq 0 .. m9'
        BY <1>0, <3>1, <3>3
    <3> QED
        BY <3>1, <3>2, <3>3, <3>4, <3>5
  <2>2. CASE ~ok
    <3>1. m11' = FALSE /\ UNCHANGED <<m1, m2, m6, m8, m9, m12, m14, m15>>
        BY <1>8, <2>2 DEF SettingsPage!UpiSaved
    <3>2. m11' \in BOOLEAN /\ m11' # TRUE
        BY <3>1, Zenon
    <3> QED
        BY <3>1, <3>2
  <2> QED
      BY <2>1, <2>2
<1>9. ASSUME NEW v \in 0 .. MaxVersion, SettingsPage!pollForQr(v) PROVE SettingsTypes'
    BY <1>0, <1>9 DEF SettingsPage!pollForQr
<1>10. ASSUME NEW v \in 0 .. MaxVersion, SettingsPage!PollAnswered(v) PROVE SettingsTypes'
  <2>1. SettingsPage!Show(v) /\ UNCHANGED <<m1, m2, m6, m8, m9, m11, m12>>
      BY <1>10 DEF SettingsPage!PollAnswered
  <2>2. m9' \in 0 .. MaxVersion /\ m9 <= m9'
      BY <1>0, <2>1
  <2>3. (\A i \in m14' : i.got >= 1) /\ (m15' # None => m15' \in 1 .. m9')
      BY <2>1, <2>2, SettingsTypesShow
  <2> QED
      BY <2>1, <2>3
<1>11. CASE SettingsPage!AskImage
    BY <1>0, <1>11 DEF SettingsPage!AskImage
<1>12. ASSUME NEW i \in SettingsPage!Images, SettingsPage!ImageComes(i) PROVE SettingsTypes'
  <2>1. i \in m14 /\ i.got >= 1 /\ i.got \in Nat /\ i.got <= m9
      BY <1>12 DEF SettingsPage!ImageComes, SettingsPage!PreviewFollows
  <2>2. m14' = m14 \ {i} /\ m15' \in {m15, i.got}
        /\ UNCHANGED <<m1, m2, m6, m8, m9, m11, m12>>
      BY <1>12 DEF SettingsPage!ImageComes
  <2> QED
      BY <1>0, <2>1, <2>2
<1> QED
    BY <1>1, <1>2, <1>3, <1>4, <1>5, <1>6, <1>7, <1>8, <1>9, <1>10, <1>11, <1>12
    DEF SettingsPage!Next

LEMMA SettingsTyped ==
    ASSUME SettingsTypes, SettingsPage!FormTyped, SettingsPage!PreviewFollows
    PROVE  SettingsPage!TypeOK
<1>0. MaxVersion \in Nat /\ m9 \in 0 .. MaxVersion /\ m10 \in 0 .. m9
    BY BoundsAssumption DEF SettingsTypes, SettingsPage!PreviewFollows
<1>1. m14 \subseteq SettingsPage!Images
  <2> SUFFICES ASSUME NEW i \in m14 PROVE i \in SettingsPage!Images
      OBVIOUS
  <2>1. i \in [got : Nat, live : BOOLEAN] /\ i.got <= m9 /\ i.got >= 1
      BY DEF SettingsTypes, SettingsPage!PreviewFollows
  <2>2. i.got \in 1 .. MaxVersion
      BY <1>0, <2>1
  <2> QED
      BY <2>1, <2>2 DEF SettingsPage!Images
<1>2. m12 \union m13 \subseteq 0 .. MaxVersion
  <2>1. \A v \in m12 \union m13 : v \in Nat /\ v <= m9
      BY <1>0 DEF SettingsTypes, SettingsPage!PreviewFollows
  <2> QED
      BY <1>0, <2>1
<1>3. \A c \in {m4, m7} \ {None} : c \in [SettingsPage!Fields -> Values]
    BY DEF SettingsPage!FormTyped
<1>4. m15 \in {None} \union 1 .. m9
    BY DEF SettingsTypes
<1> QED
    BY <1>0, <1>1, <1>2, <1>3, <1>4 DEF SettingsTypes, SettingsPage!FormTyped, SettingsPage!TypeOK

-----------------------------------------------------------------------------
(* Types: the payment settings *)

\* What FormTyped and PreviewFollows leave open of the types: the tabs, and the numbers of the codes
\* drawn, asked for and shown.
PaymentTypes ==
    /\ m1 \in PaymentSettings!Rights /\ m2 \in PaymentSettings!Tabs
    /\ m6 \subseteq PaymentSettings!Fields /\ m8 \in 0 .. 0
    /\ m9 \in 0 .. 3 /\ m11 \in BOOLEAN /\ (m11 = TRUE => m9 < 3)
    /\ m12 \subseteq 0 .. m9
    /\ \A i \in m14 : i.got >= 1
    /\ m15 # None => m15 \in 1 .. m9

LEMMA PaymentTypesInit == PaymentSettings!Init => PaymentTypes
<1> SUFFICES ASSUME PaymentSettings!Init PROVE PaymentTypes
    OBVIOUS
<1>1. m2 \in PaymentSettings!Tabs
    BY DEF PaymentSettings!Init, PaymentSettings!FirstTab, PaymentSettings!Tabs
<1>2. m8 \in 0 .. 0 /\ m9 \in 0 .. 3
    BY ExpensesAssumption, BoundsAssumption DEF PaymentSettings!Init
<1>3. m11 \in BOOLEAN /\ m11 # TRUE
    BY Zenon DEF PaymentSettings!Init
<1> QED
    BY <1>1, <1>2, <1>3 DEF PaymentSettings!Init, PaymentTypes

\* A version of those that were drawn is shown.
LEMMA PaymentTypesShow ==
    ASSUME PaymentTypes, PaymentSettings!PreviewFollows, NEW v, PaymentSettings!Show(v),
           m9' \in 0 .. 3, m9 <= m9'
    PROVE  (\A i \in m14' : i.got >= 1) /\ (m15' # None => m15' \in 1 .. m9')
<1>1. m15' \in {m15, None}
    BY DEF PaymentSettings!Show
<1>2. ASSUME NEW i \in m14' PROVE i.got >= 1
  <2>1. m14' = m14 \/ m14' = {[j EXCEPT !.live = FALSE] : j \in m14}
      BY DEF PaymentSettings!Show
  <2>2. \A j \in m14 : j.got >= 1 /\ j \in [got : Nat, live : BOOLEAN]
      BY DEF PaymentTypes, PaymentSettings!PreviewFollows
  <2>3. \A j \in m14 : [j EXCEPT !.live = FALSE].got = j.got
      BY <2>2
  <2> QED
      BY <2>1, <2>2, <2>3
<1> QED
    BY <1>1, <1>2, BoundsAssumption DEF PaymentTypes

LEMMA PaymentTypesNext ==
    ASSUME PaymentTypes, PaymentSettings!PreviewFollows, [PaymentSettings!Next]_PaymentSettings!vars
    PROVE  PaymentTypes'
<1> USE DEF PaymentTypes, PaymentSettings!formVars, PaymentSettings!qrVars
<1>0. 3 \in Nat /\ 0 \in Nat /\ m9 \in Nat /\ m10 \in 0 .. m9
    BY ExpensesAssumption, BoundsAssumption DEF PaymentSettings!PreviewFollows
<1>1. ASSUME NEW t \in PaymentSettings!Tabs, PaymentSettings!handleTabChange(t) PROVE PaymentTypes'
    BY <1>0, <1>1 DEF PaymentSettings!handleTabChange
<1>2. ASSUME NEW r \in PaymentSettings!Rights, PaymentSettings!ChangeRights(r) PROVE PaymentTypes'
    BY <1>0, <1>2 DEF PaymentSettings!ChangeRights, PaymentSettings!Tabs
<1>3. CASE PaymentSettings!ReadSettings
    BY <1>3 DEF PaymentSettings!ReadSettings
<1>4. ASSUME NEW f \in PaymentSettings!Fields, NEW v \in {0}, PaymentSettings!TypeField(f, v)
      PROVE  PaymentTypes'
    BY <1>4 DEF PaymentSettings!TypeField
<1>5. ASSUME NEW f \in PaymentSettings!Fields, NEW v \in {0}, PaymentSettings!OtherDesk(f, v)
      PROVE  PaymentTypes'
    BY <1>0, <1>5 DEF PaymentSettings!OtherDesk
<1>6. CASE PaymentSettings!SaveSettings \/ PaymentSettings!SettingsSaved \/ UNCHANGED PaymentSettings!vars
    BY <1>6 DEF PaymentSettings!SaveSettings, PaymentSettings!SettingsSaved, PaymentSettings!vars
<1>7. CASE PaymentSettings!SaveUpi
    BY <1>0, <1>7 DEF PaymentSettings!SaveUpi
<1>8. ASSUME NEW ok \in BOOLEAN, PaymentSettings!UpiSaved(ok) PROVE PaymentTypes'
  <2>1. CASE ok
    <3>1. /\ m9' = m9 + 1 /\ m11 /\ m11' = FALSE /\ m12' = m12 \union {m10}
          /\ PaymentSettings!Show(m9') /\ UNCHANGED <<m1, m2, m6, m8>>
        BY <1>8, <2>1 DEF PaymentSettings!UpiSaved
    <3>2. m11 = TRUE /\ m11' \in BOOLEAN /\ m11' # TRUE
        BY <3>1, Zenon
    <3>3. m9' \in 0 .. 3 /\ m9 <= m9'
        BY <1>0, <3>1, <3>2
    <3>4. (\A i \in m14' : i.got >= 1) /\ (m15' # None => m15' \in 1 .. m9')
        BY <3>1, <3>3, PaymentTypesShow
    <3>5. m12' \subseteq 0 .. m9'
        BY <1>0, <3>1, <3>3
    <3> QED
        BY <3>1, <3>2, <3>3, <3>4, <3>5
  <2>2. CASE ~ok
    <3>1. m11' = FALSE /\ UNCHANGED <<m1, m2, m6, m8, m9, m12, m14, m15>>
        BY <1>8, <2>2 DEF PaymentSettings!UpiSaved
    <3>2. m11' \in BOOLEAN /\ m11' # TRUE
        BY <3>1, Zenon
    <3> QED
        BY <3>1, <3>2
  <2> QED
      BY <2>1, <2>2
<1>9. ASSUME NEW v \in 0 .. 3, PaymentSettings!pollForQr(v) PROVE PaymentTypes'
    BY <1>0, <1>9 DEF PaymentSettings!pollForQr
<1>10. ASSUME NEW v \in 0 .. 3, PaymentSettings!PollAnswered(v) PROVE PaymentTypes'
  <2>1. PaymentSettings!Show(v) /\ UNCHANGED <<m1, m2, m6, m8, m9, m11, m12>>
      BY <1>10 DEF PaymentSettings!PollAnswered
  <2>2. m9' \in 0 .. 3 /\ m9 <= m9'
      BY <1>0, <2>1
  <2>3. (\A i \in m14' : i.got >= 1) /\ (m15' # None => m15' \in 1 .. m9')
      BY <2>1, <2>2, PaymentTypesShow
  <2> QED
      BY <2>1, <2>3
<1>11. CASE PaymentSettings!AskImage
    BY <1>0, <1>11 DEF PaymentSettings!AskImage
<1>12. ASSUME NEW i \in PaymentSettings!Images, PaymentSettings!ImageComes(i) PROVE PaymentTypes'
  <2>1. i \in m14 /\ i.got >= 1 /\ i.got \in Nat /\ i.got <= m9
      BY <1>12 DEF PaymentSettings!ImageComes, PaymentSettings!PreviewFollows
  <2>2. m14' = m14 \ {i} /\ m15' \in {m15, i.got}
        /\ UNCHANGED <<m1, m2, m6, m8, m9, m11, m12>>
      BY <1>12 DEF PaymentSettings!ImageComes
  <2> QED
      BY <1>0, <2>1, <2>2
<1> QED
    BY <1>1, <1>2, <1>3, <1>4, <1>5, <1>6, <1>7, <1>8, <1>9, <1>10, <1>11, <1>12
    DEF PaymentSettings!Next

LEMMA PaymentTyped ==
    ASSUME PaymentTypes, PaymentSettings!FormTyped, PaymentSettings!PreviewFollows
    PROVE  PaymentSettings!TypeOK
<1>0. 3 \in Nat /\ m9 \in 0 .. 3 /\ m10 \in 0 .. m9
    BY BoundsAssumption DEF PaymentTypes, PaymentSettings!PreviewFollows
<1>1. m14 \subseteq PaymentSettings!Images
  <2> SUFFICES ASSUME NEW i \in m14 PROVE i \in PaymentSettings!Images
      OBVIOUS
  <2>1. i \in [got : Nat, live : BOOLEAN] /\ i.got <= m9 /\ i.got >= 1
      BY DEF PaymentTypes, PaymentSettings!PreviewFollows
  <2>2. i.got \in 1 .. 3
      BY <1>0, <2>1
  <2> QED
      BY <2>1, <2>2 DEF PaymentSettings!Images
<1>2. m12 \union m13 \subseteq 0 .. 3
  <2>1. \A v \in m12 \union m13 : v \in Nat /\ v <= m9
      BY <1>0 DEF PaymentTypes, PaymentSettings!PreviewFollows
  <2> QED
      BY <1>0, <2>1
<1>3. \A c \in {m4, m7} \ {None} : c \in [PaymentSettings!Fields -> {0}]
    BY DEF PaymentSettings!FormTyped
<1>4. m15 \in {None} \union 1 .. m9
    BY DEF PaymentTypes
<1> QED
    BY <1>0, <1>1, <1>2, <1>3, <1>4 DEF PaymentTypes, PaymentSettings!FormTyped, PaymentSettings!TypeOK

LEMMA PaymentFormInit == PaymentSettings!Init => PaymentSettings!FormTyped
    BY DEF PaymentSettings!Init, PaymentSettings!FormTyped

LEMMA PaymentFormNext ==
    ASSUME PaymentSettings!FormTyped, [PaymentSettings!Next]_PaymentSettings!vars
    PROVE  PaymentSettings!FormTyped'
<1> USE DEF PaymentSettings!FormTyped
<1>1. ASSUME NEW t, PaymentSettings!handleTabChange(t)
      PROVE  PaymentSettings!FormTyped'
    BY <1>1 DEF PaymentSettings!handleTabChange
<1>2. CASE PaymentSettings!ReadSettings
  <2>1. PaymentSettings!Refilled(m3) \in [PaymentSettings!Fields -> {0}]
      BY DEF PaymentSettings!Refilled
  <2> QED
      BY <1>2, <2>1 DEF PaymentSettings!ReadSettings
<1>3. ASSUME NEW f \in PaymentSettings!Fields, NEW v \in {0},
             PaymentSettings!TypeField(f, v) \/ PaymentSettings!OtherDesk(f, v)
      PROVE  PaymentSettings!FormTyped'
    BY <1>3 DEF PaymentSettings!TypeField, PaymentSettings!OtherDesk
<1>4. CASE PaymentSettings!SaveSettings \/ PaymentSettings!SettingsSaved
    BY <1>4 DEF PaymentSettings!SaveSettings, PaymentSettings!SettingsSaved
<1>5. CASE UNCHANGED <<m3, m4, m5, m7>>
    BY <1>5
<1>6. CASE \/ \E r \in PaymentSettings!Rights : PaymentSettings!ChangeRights(r)
           \/ PaymentSettings!SaveUpi \/ PaymentSettings!AskImage
           \/ \E ok \in BOOLEAN : PaymentSettings!UpiSaved(ok)
           \/ \E v : PaymentSettings!pollForQr(v) \/ PaymentSettings!PollAnswered(v)
           \/ \E i : PaymentSettings!ImageComes(i)
           \/ UNCHANGED PaymentSettings!vars
    BY <1>5, <1>6
    DEF PaymentSettings!ChangeRights, PaymentSettings!SaveUpi,
        PaymentSettings!AskImage, PaymentSettings!UpiSaved,
        PaymentSettings!pollForQr, PaymentSettings!PollAnswered,
        PaymentSettings!ImageComes, PaymentSettings!vars, PaymentSettings!formVars
<1> QED
    BY <1>1, <1>2, <1>3, <1>4, <1>6 DEF PaymentSettings!Next

-----------------------------------------------------------------------------
(* Types: the pictures of the hotel *)

\* A version is raised once for each call that came back.
PicturesCounted ==
    /\ IsFiniteSet(m6) /\ m8 \in 0 .. MaxCalls
    /\ \A p \in PicturesPanel!Places : m3[p] + Cardinality(m6) <= m8
    /\ m7 \in BOOLEAN /\ m9 \subseteq PicturesPanel!Places

LEMMA PicturesCountedInit == PicturesPanel!Init => PicturesCounted
<1> SUFFICES ASSUME PicturesPanel!Init PROVE PicturesCounted
    OBVIOUS
<1>1. IsFiniteSet(m6) /\ Cardinality(m6) = 0
    BY FS_EmptySet DEF PicturesPanel!Init
<1>2. \A p \in PicturesPanel!Places : m3[p] = 0
    BY DEF PicturesPanel!Init
<1>3. m7 \in BOOLEAN
    BY Zenon DEF PicturesPanel!Init
<1>4. m8 = 0 /\ m9 = {}
    BY DEF PicturesPanel!Init
<1> QED
    BY <1>1, <1>2, <1>3, <1>4, BoundsAssumption DEF PicturesCounted

LEMMA PicturesCountedNext ==
    ASSUME PicturesCounted, PicturesSettle,
           [PicturesPanel!Next]_PicturesPanel!imagesVars
    PROVE  PicturesCounted'
<1>1. /\ IsFiniteSet(m6) /\ Cardinality(m6) \in Nat /\ m8 \in 0 .. MaxCalls
      /\ m3 \in [PicturesPanel!Places -> Nat] /\ MaxCalls \in Nat
      /\ \A p \in PicturesPanel!Places : m3[p] + Cardinality(m6) <= m8
      /\ m7 \in BOOLEAN /\ m9 \subseteq PicturesPanel!Places
    BY FS_CardinalityType, BoundsAssumption
    DEF PicturesCounted, PicturesSettle, PicturesTyped
<1>2. ASSUME UNCHANGED <<m3, m6, m8, m9>>, m7' \in BOOLEAN PROVE PicturesCounted'
    BY <1>2 DEF PicturesCounted
<1>3. ASSUME NEW r \in m5, PicturesPanel!ServerReads(r) \/ PicturesPanel!PictureComes(r)
      PROVE  PicturesCounted'
    BY <1>1, <1>2, <1>3 DEF PicturesPanel!ServerReads, PicturesPanel!PictureComes
<1>4. CASE PicturesPanel!GalleryComes
  <2>1. m7' \in BOOLEAN
      BY <1>4, Zenon DEF PicturesPanel!GalleryComes
  <2> QED
      BY <1>2, <1>4, <2>1 DEF PicturesPanel!GalleryComes
<1>5. ASSUME NEW kind, NEW place, NEW picture, PicturesPanel!Send(kind, place, picture)
      PROVE  PicturesCounted'
  <2> DEFINE c == [kind |-> kind, place |-> place, picture |-> picture, done |-> FALSE]
  <2>1. /\ m8 < MaxCalls /\ m8' = m8 + 1 /\ m6' = m6 \union {c}
        /\ UNCHANGED <<m3, m7, m9>>
      BY <1>5 DEF PicturesPanel!Send
  <2> HIDE DEF c
  <2>2. /\ IsFiniteSet(m6 \union {c})
        /\ Cardinality(m6 \union {c}) \in {Cardinality(m6), Cardinality(m6) + 1}
      BY <1>1, FS_AddElement
  <2> QED
      BY <1>1, <2>1, <2>2 DEF PicturesCounted
<1>6. ASSUME NEW c \in m6
      PROVE  /\ IsFiniteSet(m6 \ {c}) /\ Cardinality(m6 \ {c}) \in Nat
             /\ Cardinality(m6) = Cardinality(m6 \ {c}) + 1
             /\ c.place \in PicturesPanel!Places
  <2>1. IsFiniteSet(m6 \ {c}) /\ Cardinality(m6 \ {c}) = Cardinality(m6) - 1
      BY <1>1, FS_RemoveElement
  <2>2. Cardinality(m6 \ {c}) \in Nat
      BY <2>1, FS_CardinalityType
  <2> QED
      BY <1>1, <2>1, <2>2 DEF PicturesSettle, PicturesTyped
<1>7. ASSUME NEW c \in m6, PicturesPanel!ServerStores(c) PROVE PicturesCounted'
  <2> DEFINE d == [c EXCEPT !.done = TRUE]
  <2>1. m6' = (m6 \ {c}) \union {d} /\ UNCHANGED <<m3, m7, m8, m9>>
      BY <1>7 DEF PicturesPanel!ServerStores
  <2> HIDE DEF d
  <2>2. /\ IsFiniteSet(m6')
        /\ Cardinality(m6') \in {Cardinality(m6 \ {c}), Cardinality(m6 \ {c}) + 1}
      BY <1>6, <2>1, FS_AddElement
  <2>3. Cardinality(m6 \ {c}) \in Nat /\ Cardinality(m6) = Cardinality(m6 \ {c}) + 1
      BY <1>6
  <2>4. Cardinality(m6') \in Nat /\ Cardinality(m6') <= Cardinality(m6)
      BY <2>2, <2>3
  <2>5. \A p \in PicturesPanel!Places : m3'[p] + Cardinality(m6') <= m8'
      BY <1>1, <2>1, <2>4
  <2> QED
      BY <1>1, <2>1, <2>2, <2>5 DEF PicturesCounted
<1>8. ASSUME NEW c \in m6, PicturesPanel!CallSucceeds(c) PROVE PicturesCounted'
  <2>1. /\ m6' = m6 \ {c} /\ m3' = [m3 EXCEPT ![c.place] = @ + 1] /\ m8' = m8
        /\ m9' \subseteq m9
      BY <1>8 DEF PicturesPanel!CallSucceeds, PicturesPanel!bumpSlot
  <2>2. m7' \in BOOLEAN
      BY <1>8, Zenon DEF PicturesPanel!CallSucceeds
  <2>3. \A p \in PicturesPanel!Places : m3'[p] \in {m3[p], m3[p] + 1}
      BY <1>1, <2>1
  <2> QED
      BY <1>1, <1>6, <2>1, <2>2, <2>3 DEF PicturesCounted
<1>9. ASSUME NEW c \in m6, PicturesPanel!CallFails(c) PROVE PicturesCounted'
  <2>1. /\ m6' = m6 \ {c} /\ UNCHANGED <<m3, m7, m8>>
        /\ m9' \subseteq m9 \union {c.place}
      BY <1>9 DEF PicturesPanel!CallFails
  <2> QED
      BY <1>1, <1>6, <2>1 DEF PicturesCounted
<1>10. CASE UNCHANGED PicturesPanel!imagesVars
    BY <1>1, <1>2, <1>10 DEF PicturesPanel!imagesVars
<1> QED
    BY <1>3, <1>4, <1>5, <1>7, <1>8, <1>9, <1>10
    DEF PicturesPanel!Next, PicturesPanel!onLogoFile,
        PicturesPanel!onGalleryFile, PicturesPanel!galleryDelete

LEMMA PicturesAllTyped ==
    ASSUME PicturesCounted, PicturesSettle PROVE PicturesPanel!TypeOK
<1>1. Cardinality(m6) \in Nat /\ MaxCalls \in Nat
    BY FS_CardinalityType, BoundsAssumption DEF PicturesCounted
<1>2. m3 \in [PicturesPanel!Places -> Nat]
    BY DEF PicturesSettle, PicturesTyped
<1>3. \A p \in PicturesPanel!Places : m3[p] \in 0 .. MaxCalls
    BY <1>1, <1>2 DEF PicturesCounted
<1>4. m3 \in [PicturesPanel!Places -> 0 .. MaxCalls]
    BY <1>2, <1>3
<1>5. \A r \in m5 : r.place \in PicturesPanel!Places /\ r.of <= m3[r.place]
    BY DEF PicturesSettle, PicturesTyped, OneRead
<1>6. \A c \in m6 : c.kind \in PicturesPanel!Kinds /\ c.place \in PicturesPanel!Places
    BY DEF PicturesSettle, PicturesTyped
<1> QED
    BY <1>4, <1>5, <1>6 DEF PicturesCounted, PicturesSettle, PicturesTyped,
                            PicturesPanel!TypeOK, Shot

-----------------------------------------------------------------------------
(* Types: the crop editor *)

LEMMA EditorTypesNext ==
    ASSUME m1 \in Photographs, m7 \in BOOLEAN,
           [PictureEditor!Next]_PictureEditor!editorVars
    PROVE  m1' \in Photographs /\ m7' \in BOOLEAN
<1>1. m1' = m1
    BY DEF PictureEditor!Next, PictureEditor!editorVars,
           PictureEditor!fitFullDocument, PictureEditor!Drag,
           PictureEditor!Zoom, PictureEditor!ResizeFrame, PictureEditor!reset,
           PictureEditor!rotate90, PictureEditor!Close
<1>2. m7' = m7 \/ m7' = FALSE
    BY Zenon DEF PictureEditor!Next, PictureEditor!editorVars, PictureEditor!Close
<1> QED
    BY <1>1, <1>2

LEMMA EditorTyped ==
    ASSUME m1 \in Photographs, m7 \in BOOLEAN, EditorKept
    PROVE  PictureEditor!TypeOK
<1>1. Positive(m4)
    BY LeastContains DEF EditorKept
<1>2. PictureEditor!Fraction(m3) /\ PictureEditor!Fraction(m4)
    BY <1>1 DEF EditorKept, Positive, Some, PictureEditor!Fraction
<1>3. PictureEditor!Fraction(m5.x) /\ PictureEditor!Fraction(m5.y)
    BY DEF EditorKept, Covers, Within
<1> QED
    BY <1>2, <1>3 DEF EditorKept, PictureEditor!TypeOK

-----------------------------------------------------------------------------
(* Types: the bell *)

\* What SpentOnce leaves open of the types.
BellTypes ==
    /\ Len(m2) <= MaxNotes /\ m3 \subseteq Bell!NoteIds
    /\ m6 = None \/ m6 \subseteq Bell!NoteIds
    /\ m8 \subseteq Bell!NoteIds /\ m9 \subseteq Bell!NoteIds \union {0}
    /\ m14 \in {"none", "one", "batch"} /\ m19 \in 1 .. MaxNotes

LEMMA BellTypesInit == Bell!Init => BellTypes
<1> SUFFICES ASSUME Bell!Init PROVE BellTypes
    OBVIOUS
<1>1. Len(m2) = 0
    BY DEF Bell!Init
<1>2. m3 = {} /\ m6 = None /\ m8 = {} /\ m9 = {} /\ m14 = "none" /\ m19 = 1
    BY Zenon DEF Bell!Init
<1> QED
    BY <1>1, <1>2, BoundsAssumption DEF BellTypes

LEMMA BellTypesNext ==
    ASSUME BellTypes, Bell!SpentOnce, [Bell!Next]_Bell!vars
    PROVE  BellTypes'
<1> USE DEF BellTypes, Bell!serverVars, Bell!bellVars, Bell!alertVars, Bell!pageVars
<1>1. /\ m2 \in Seq(InUse) /\ Len(m2) \in Nat /\ MaxNotes \in Nat \ {0}
      /\ Bell!Scope \subseteq Bell!NoteIds
    BY BoundsAssumption DEF Bell!SpentOnce, Bell!Scope, Bell!NoteIds
<1>2. ASSUME NEW c \in InUse, Bell!create_notification(c) PROVE BellTypes'
    BY <1>1, <1>2 DEF Bell!create_notification
<1>3. CASE Bell!BellEffect
  <2>1. m4.items \subseteq Bell!NoteIds
      BY <1>1, <1>3 DEF Bell!BellEffect, Bell!SpentOnce
  <2>2. m6' \subseteq Bell!NoteIds
      BY <1>3, <2>1 DEF Bell!BellEffect, Bell!Seen
  <2>3. m8' \subseteq Bell!NoteIds
      BY <1>3, <2>1 DEF Bell!BellEffect
  <2>4. m14' \in {"none", "one", "batch"}
      BY <1>3 DEF Bell!BellEffect, Bell!showBatchSystemNotifications
  <2>5. UNCHANGED <<m2, m3, m9, m19>>
      BY <1>3, Zenon DEF Bell!BellEffect
  <2> QED
      BY <2>2, <2>3, <2>4, <2>5
<1>4. CASE Bell!Navigate
  <2>1. m6' = None /\ m19' = 1 /\ UNCHANGED <<m2, m3, m8, m9, m14>>
      BY <1>4, Zenon DEF Bell!Navigate
  <2> QED
      BY <1>1, <2>1
<1>5. ASSUME NEW i \in Bell!NoteIds,
             Bell!onMarkRead(i) \/ Bell!ReadElsewhere(i) \/ Bell!setPage(i)
      PROVE  BellTypes'
    BY <1>5 DEF Bell!onMarkRead, Bell!ReadElsewhere, Bell!setPage, Bell!NoteIds
<1>6. CASE Bell!markAll
    BY <1>6 DEF Bell!markAll
<1>7. ASSUME NEW i \in Bell!NoteIds \union {0}, Bell!mark_read(i) \/ Bell!MarkFails(i)
      PROVE  BellTypes'
  <2>1. m3' \subseteq m3 \union Bell!NoteIds /\ m9' \subseteq m9
      BY <1>1, <1>7 DEF Bell!mark_read, Bell!MarkFails
  <2> QED
      BY <1>7, <2>1 DEF Bell!mark_read, Bell!MarkFails
<1>8. ASSUME NEW c, Bell!setActiveCategory(c) PROVE BellTypes'
  <2>1. m19' = 1 /\ UNCHANGED <<m2, m3, m6, m8, m9, m14>>
      BY <1>8, Zenon DEF Bell!setActiveCategory
  <2> QED
      BY <1>1, <2>1
<1>9. CASE UNCHANGED <<m2, m3, m6, m8, m9, m14, m19>>
    BY <1>9
<1>10. CASE \/ Bell!RefetchBell \/ Bell!CooledDown \/ Bell!toggleSound
            \/ \E a : Bell!requestBrowserNotificationPermission(a)
            \/ \E c : Bell!selectTab(c) \/ Bell!toggleGroup(c)
            \/ UNCHANGED Bell!vars
    BY <1>9, <1>10
    DEF Bell!RefetchBell, Bell!CooledDown, Bell!toggleSound,
        Bell!requestBrowserNotificationPermission, Bell!selectTab,
        Bell!toggleGroup, Bell!vars
<1> QED
    BY <1>2, <1>3, <1>4, <1>5, <1>6, <1>7, <1>8, <1>10 DEF Bell!Next

LEMMA BellTyped ==
    ASSUME BellTypes, Bell!SpentOnce PROVE Bell!TypeOK
<1>1. Len(m2) \in 0 .. MaxNotes
    BY BoundsAssumption DEF BellTypes, Bell!SpentOnce
<1>2. m7 \in [Bell!NoteIds -> 0 .. 2]
    BY DEF Bell!SpentOnce, Bell!RingsOnce
<1> QED
    BY <1>1, <1>2 DEF BellTypes, Bell!TypeOK

-----------------------------------------------------------------------------
(* Types: the sign-in *)

LEMMA SignInTyped == SignIn!IInv => SessionScreen!TypeOK
<1>1. SignIn!IInv => SignIn!TypeOK
    BY DEF SignIn!IInv
<1> QED
    BY <1>1
    DEF SignIn!TypeOK, SessionScreen!TypeOK, SignIn!Procs, SessionScreen!Procs,
        SignIn!InFlight, SessionScreen!InFlight, SignIn!Waiting,
        SessionScreen!Waiting, SignIn!Idle, SessionScreen!Idle

-----------------------------------------------------------------------------
(* The sum of the screens *)

\* A step is a step of the screen that is there, or leaves it as it is.
LEMMA StepOfScreen ==
    ASSUME [MCNext]_mcVars
    PROVE  /\ screen' = screen
           /\ screen = "hotel" => [HotelPage!Next]_HotelPage!editHotelVars
           /\ screen = "requirements" =>
                [RequirementsPage!Next]_RequirementsPage!requirementVars
           /\ screen = "admin's hotel" =>
                [AdminHotelPage!Next]_AdminHotelPage!adminVars
           /\ screen = "new hotel" => [NewHotelPage!Next]_NewHotelPage!addHotelVars
           /\ screen = "bell" => [Bell!Next]_Bell!vars
           /\ screen = "team" => [TeamPage!Next]_TeamPage!teamVars
           /\ screen = "pictures" => [PicturesPanel!Next]_PicturesPanel!imagesVars
           /\ screen = "settings" => [SettingsPage!Next]_SettingsPage!vars
           /\ screen = "payment settings" => [PaymentSettings!Next]_PaymentSettings!vars
           /\ screen = "picture editor" => [PictureEditor!Next]_PictureEditor!editorVars
           /\ screen = "sign-in" => [SessionScreen!Next]_SessionScreen!vars
<1>1. ASSUME UNCHANGED <<screen, memory>>
      PROVE  UNCHANGED <<screen, HotelPage!editHotelVars,
                         RequirementsPage!requirementVars,
                         AdminHotelPage!adminVars, NewHotelPage!addHotelVars,
                         Bell!vars, TeamPage!teamVars, PicturesPanel!imagesVars,
                         SettingsPage!vars, PaymentSettings!vars,
                         PictureEditor!editorVars, SessionScreen!vars>>
    BY <1>1
    DEF memory, HotelPage!editHotelVars, HotelPage!serverVars,
        HotelPage!formVars, RequirementsPage!requirementVars,
        AdminHotelPage!adminVars, AdminHotelPage!roomsForm,
        AdminHotelPage!detailVars, AdminHotelPage!detailForm,
        NewHotelPage!addHotelVars, NewHotelPage!formVars,
        NewHotelPage!serverVars, NewHotelPage!qrVars, Bell!vars,
        Bell!serverVars, Bell!bellVars, Bell!alertVars, Bell!menuVars,
        Bell!pageVars, TeamPage!teamVars, PicturesPanel!imagesVars,
        SettingsPage!vars, SettingsPage!formVars, SettingsPage!qrVars,
        PaymentSettings!vars, PaymentSettings!formVars, PaymentSettings!qrVars,
        PictureEditor!editorVars, SessionScreen!vars
<1>2. CASE UNCHANGED mcVars
    BY <1>1, <1>2 DEF mcVars
<1>3. CASE MCNext
    BY <1>1, <1>3
    DEF MCNext, ExpensesStep, HotelPageStep, RequirementsPageStep,
        AdminHotelPageStep, NewHotelPageStep, PicturesPanelStep,
        SettingsPageStep, PaymentSettingsStep, PictureEditorStep, BellStep,
        TeamPageStep, SessionScreenStep
<1> QED
    BY <1>2, <1>3

LEMMA StepOfLedger == ASSUME [MCNext]_mcVars PROVE [Next]_vars
    BY DEF mcVars, MCNext, ExpensesStep, HotelPageStep, RequirementsPageStep,
           AdminHotelPageStep, NewHotelPageStep, PicturesPanelStep,
           SettingsPageStep, PaymentSettingsStep, PictureEditorStep, BellStep,
           TeamPageStep, SessionScreenStep

OwnRecords ==
    /\ screen = "hotel" => HotelPage!FieldsOfHotel
    /\ screen = "admin's hotel" =>
         AdminHotelPage!FieldsOfPage /\ AdminHotelPage!ModesOfPage /\ AdminTypes
    /\ screen = "team" => TeamPage!MembersKept /\ TeamPage!RequestsNumbered

\* A hotel keeps its identity and gets no mode nobody wanted for it, whichever
\* hotel is opened next and whenever its record comes; a member keeps their
\* profile and is heard, whatever dialog is opened while a call is under way.
THEOREM OwnRecordSavedHolds == MCSpec => []OwnRecordSaved
<1>1. MCInit => OwnRecords
    BY HotelFieldsInit, FieldsInit, ModesInit, AdminTypesInit, MembersInit,
       RequestsInit
    DEF MCInit, OwnRecords
<1>2. OwnRecords /\ [MCNext]_mcVars => OwnRecords'
    BY StepOfScreen, HotelFieldsNext, FieldsNext, ModesNext, AdminTypesNext,
       MembersNext, RequestsNext
    DEF OwnRecords, AdminTypes
<1>3. OwnRecords => OwnRecordSaved
    BY DEF OwnRecords, OwnRecordSaved, HotelPage!FieldsOfHotel,
           AdminHotelPage!OwnHotelSaved, AdminHotelPage!FieldsOfPage,
           AdminHotelPage!Form!FieldsOfHotel,
           AdminHotelPage!ModesOfPage, TeamPage!MembersKept,
           TeamPage!RequestsNumbered
<1> QED
    BY <1>1, <1>2, <1>3, PTL DEF MCSpec

RowsKept ==
    /\ screen = "hotel" => HotelPage!RowsAsFilled
    /\ screen = "requirements" => RequirementsPage!RowsAsListed

\* An update that was pressed on a form filled from its list writes and deletes
\* only the rows that the desk touched, whatever other desks did since, and
\* whenever the list comes again (edit-hotel/page.tsx).
THEOREM UntouchedRowsKeptHolds == MCSpec => []UntouchedRowsKept
<1>1. MCInit => RowsKept
    BY RowsInit, ListedInit DEF MCInit, RowsKept
<1>2. RowsKept /\ [MCNext]_mcVars => RowsKept'
    BY StepOfScreen, RowsNext, ListedNext DEF RowsKept
<1>3. RowsKept => UntouchedRowsKept
    BY UntouchedKept DEF RowsKept, UntouchedRowsKept, RequirementsPage!RowsAsListed
<1> QED
    BY <1>1, <1>2, <1>3, PTL DEF MCSpec

Creations ==
    /\ screen = "new hotel" => NewHotelPage!CreatedSoFar
    /\ screen = "requirements" =>
         RequirementsPage!RowsAsListed /\ RequirementsPage!CreatedThen

\* Whichever call of a submission fails, and whatever is edited meanwhile or
\* pressed again: rooms get the type their row chose, what is missing was
\* reported, and there is one hotel and one of each new requirement.
THEOREM CreatedAsFilledHolds == MCSpec => []CreatedAsFilled
<1>1. MCInit => Creations
    BY HotelInit, ListedInit, CreatedInit DEF MCInit, Creations
<1>2. Creations /\ [MCNext]_mcVars => Creations'
    BY StepOfScreen, HotelNext, ListedNext, CreatedNext DEF Creations
<1>3. Creations => CreatedAsFilled
    BY DEF Creations, CreatedAsFilled, NewHotelPage!CreatedSoFar,
           RequirementsPage!CreatedThen
<1> QED
    BY <1>1, <1>2, <1>3, PTL DEF MCSpec

BellSpentOnce == screen = "bell" => Bell!SpentOnce

\* For any number of entries, any length of the list and any order of polls,
\* navigations and marks: an entry raises one alert at most.
THEOREM RingsOnceHolds == MCSpec => []RingsOnce
<1>1. MCInit => BellSpentOnce
    BY SpentInit DEF MCInit, BellSpentOnce
<1>2. BellSpentOnce /\ [MCNext]_mcVars => BellSpentOnce'
    BY StepOfScreen, SpentNext DEF BellSpentOnce
<1>3. BellSpentOnce => RingsOnce
    BY DEF BellSpentOnce, RingsOnce, Bell!SpentOnce
<1> QED
    BY <1>1, <1>2, <1>3, PTL DEF MCSpec

Latest ==
    /\ screen = "pictures" => PicturesSettle
    /\ screen = "settings" => FormKept /\ SettingsPage!PreviewFollows
    /\ screen = "payment settings" => PaymentSettings!PreviewFollows
    /\ screen = "picture editor" => EditorKept
    /\ screen = "sign-in" => SignIn!IInv

\* Whatever overtakes what: once reads and uploads have settled the picture on
\* screen is the stored one, no older preview takes the place of a newer one,
\* a picture can be framed whole and covers its frame, and the user on screen
\* owns what the browser keeps.
THEOREM LatestShownHolds == MCSpec => []LatestShown
<1>1. MCInit => Latest
    BY PicturesInit, SettingsInit, PaymentSettingsInit, EditorInit, SignInInit
    DEF MCInit, Latest, FormKept
<1>2. Latest /\ [MCNext]_mcVars => Latest'
    BY StepOfScreen, PicturesNext, FormNext, SettingsPreviewNext,
       PaymentSettingsNext, EditorNext, SignInNext
    DEF Latest
<1>3. SettingsPage!PreviewFollows => SettingsPage!PreviewNotOlder
    BY DEF SettingsPage!PreviewFollows, SettingsPage!PreviewNotOlder
<1>4. PaymentSettings!PreviewFollows => PaymentSettings!PreviewNotOlder
    BY DEF PaymentSettings!PreviewFollows, PaymentSettings!PreviewNotOlder
<1>5. Latest => LatestShown
    BY <1>3, <1>4, PicturesShow, EditorShow, SignInShow
    DEF Latest, LatestShown, FormKept
<1> QED
    BY <1>1, <1>2, <1>5, PTL DEF MCSpec
\* What the screens' types rest on, each for its own screen.
TypesKept ==
    /\ LedgerInv
    /\ screen = "hotel" => HotelPage!RowsAsFilled /\ HotelTypes
    /\ screen = "requirements" =>
         /\ RequirementsPage!RowsAsListed /\ RequirementsPage!CreatedThen
         /\ m8 \in BOOLEAN /\ m9 \subseteq RequirementIds
    /\ screen = "admin's hotel" =>
         AdminHotelPage!FieldsOfPage /\ AdminHotelPage!ModesOfPage /\ AdminTypes
    /\ screen = "new hotel" => NewHotelPage!CreatedSoFar /\ NewHotelTypes
    /\ screen = "pictures" => PicturesSettle /\ PicturesCounted
    /\ screen = "settings" => FormKept /\ SettingsPage!PreviewFollows /\ SettingsTypes
    /\ screen = "payment settings" =>
         /\ PaymentSettings!FormTyped /\ PaymentSettings!PreviewFollows
         /\ PaymentTypes
    /\ screen = "picture editor" => EditorKept /\ m1 \in Photographs /\ m7 \in BOOLEAN
    /\ screen = "bell" => Bell!SpentOnce /\ BellTypes
    /\ screen = "team" =>
         TeamPage!MembersKept /\ TeamPage!RequestsNumbered /\ TeamTypes
    /\ screen = "sign-in" => SignIn!IInv

LEMMA TypesKeptInit == MCInit => TypesKept
<1> SUFFICES ASSUME MCInit PROVE TypesKept
    OBVIOUS
<1>1. LedgerInv
    BY LedgerInit DEF MCInit
<1>2. /\ screen = "hotel" => HotelPage!Init
      /\ screen = "requirements" => RequirementsPage!Init
      /\ screen = "admin's hotel" => AdminHotelPage!Init
      /\ screen = "new hotel" => NewHotelPage!Init
      /\ screen = "pictures" => PicturesPanel!Init
      /\ screen = "settings" => SettingsPage!Init
      /\ screen = "payment settings" => PaymentSettings!Init
      /\ screen = "picture editor" => PictureEditor!Init
      /\ screen = "bell" => Bell!Init
      /\ screen = "team" => TeamPage!Init
      /\ screen = "sign-in" => SessionScreen!Init
    BY DEF MCInit
<1>3. RequirementsPage!Init => m8 \in BOOLEAN /\ m9 \subseteq RequirementIds
    BY Zenon DEF RequirementsPage!Init
<1>4. PictureEditor!Init => m1 \in Photographs /\ m7 \in BOOLEAN
    BY Zenon DEF PictureEditor!Init
<1>5. CASE screen \in {"hotel", "requirements", "admin's hotel", "new hotel"}
    BY <1>1, <1>2, <1>3, <1>5, RowsInit, HotelTypesInit, ListedInit, CreatedInit,
       FieldsInit, ModesInit, AdminTypesInit, HotelInit, NewHotelTypesInit
    DEF TypesKept
<1>6. CASE screen \in {"pictures", "settings", "payment settings", "picture editor"}
    BY <1>1, <1>2, <1>4, <1>6, PicturesInit, PicturesCountedInit, SettingsInit,
       SettingsTypesInit, PaymentSettingsInit, PaymentFormInit, PaymentTypesInit,
       EditorInit
    DEF TypesKept, FormKept
<1>7. CASE screen \in {"bell", "team", "sign-in"}
    BY <1>1, <1>2, <1>7, SpentInit, BellTypesInit, MembersInit, RequestsInit,
       TeamTypesInit, SignInInit
    DEF TypesKept
<1> QED
    BY <1>1, <1>5, <1>6, <1>7 DEF TypesKept

LEMMA TypesKeptNext == ASSUME TypesKept, [MCNext]_mcVars PROVE TypesKept'
<1>1. screen' = screen
    BY StepOfScreen
<1>2. LedgerInv'
    BY StepOfLedger, LedgerNext DEF TypesKept
<1>3. AdminTypes => AdminRows
    BY DEF AdminTypes
<1>4. CASE screen \in {"hotel", "requirements", "admin's hotel", "new hotel"}
    BY <1>1, <1>2, <1>3, <1>4, StepOfScreen, RowsNext, HotelTypesNext, ListedNext,
       CreatedNext, RequirementTypesNext, FieldsNext, ModesNext, AdminTypesNext,
       HotelNext, NewHotelTypesNext
    DEF TypesKept
<1>5. CASE screen \in {"pictures", "settings", "payment settings", "picture editor"}
    BY <1>1, <1>2, <1>5, StepOfScreen, PicturesNext, PicturesCountedNext,
       FormNext, SettingsPreviewNext, SettingsTypesNext, PaymentFormNext,
       PaymentSettingsNext, PaymentTypesNext, EditorNext, EditorTypesNext
    DEF TypesKept, FormKept
<1>6. CASE screen \in {"bell", "team", "sign-in"}
    BY <1>1, <1>2, <1>6, StepOfScreen, SpentNext, BellTypesNext, MembersNext,
       RequestsNext, TeamTypesNext, SignInNext
    DEF TypesKept
<1> QED
    BY <1>1, <1>2, <1>4, <1>5, <1>6 DEF TypesKept

\* Whatever is typed, picked, saved or answered on a screen of the office, what
\* it keeps, and what the server keeps for it, stays of its type: a version, a
\* number of requests or of polls never leaves its bound, and no answer puts
\* into a form or a list what no field of it can hold.
THEOREM TypesOKHolds == MCSpec => []TypesOK
<1>1. TypesKept => TypesOK
    BY HotelTyped, RequirementsTyped, AdminTyped, NewHotelTyped, PicturesAllTyped,
       SettingsTyped, PaymentTyped, EditorTyped, BellTyped, TeamTyped, SignInTyped
    DEF TypesKept, TypesOK, LedgerInv, FormKept
<1> QED
    BY <1>1, TypesKeptInit, TypesKeptNext, PTL DEF MCSpec

\* The theorem about the expenses holds in the instance, beside the other screens:
\* an expense has the receipt it was added with, or it has none and an error was
\* shown, whichever answer was lost (expenses/page.tsx, InlineAddExpense).
THEOREM ReceiptKeptHolds == MCSpec => []ReceiptAsAdded
<1>1. TypesKept => LedgerInv
    BY DEF TypesKept
<1>2. LedgerInv => ReceiptAsAdded
    BY DEF LedgerInv
<1> QED
    BY <1>1, <1>2, TypesKeptInit, TypesKeptNext, PTL DEF MCSpec
=============================================================================
