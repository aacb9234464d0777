--------------------------------- MODULE EditHotel ---------------------------------
(***************************************************************************)
(* The Edit Hotel form (app/(partner)/edit-hotel/page.tsx).  Each section  *)
(* is filled once from its query; the page waits for the first answers,    *)
(* and shows an empty section where the answer was an error.  "Update"     *)
(* takes the fields as they stand, sends the identity and the flags,       *)
(* creates the new room type, and sends the rooms in which the fields      *)
(* differ from the list of the form by then.  A part that fails is         *)
(* reported, the others are kept; then everything is fetched and the form  *)
(* is filled again.  A switch of the header's hotel mounts the page anew   *)
(* (HotelKeyed).  Two things are left out: what is typed while an update   *)
(* is under way, which is lost with the refill, and a switch then, which   *)
(* leaves the update to go on for the hotel it was pressed for.            *)
(***************************************************************************)
CONSTANTS Hotels, Numbers, Types, None,
          Old          \* the room types that exist at first

New == "new"      \* the choice of the type row that is not saved yet ("__new__:key")
NoType == ""      \* a room row without a type
Choices == Types \union {New, NoType, None}   \* None: no row
Sections == {"identity", "types", "rooms"}
Maybe(S) == S \union {None}
\* An update under way: the section that goes next, the type it created, what failed,
\* the rows as they were at the click, and whether they were filled from a list then.
Saves == [stage : Sections \union {"done"}, created : Maybe(Types), failed : SUBSET Sections,
          rows : [Numbers -> Choices], listed : BOOLEAN]

VARIABLES
    active,       \* activeHotelId
    named,        \* server: the hotel whose identity and flags a hotel has
    types, rooms, \* server: room types, and the type of each room
    roomsCopy,    \* cache: the room list of the active hotel
    identity,     \* the hotel the identity fields were filled from (None: identityInit is false)
    rows,         \* roomEntries
    originals,    \* originalRoomsRef
    roomsInit,    \* the rows were filled from the list
    newType,      \* the unsaved type row: its name, "" while it has none
    touched,      \* history: the room rows that the desk changed
    saving        \* the update under way

serverVars == <<named, types, rooms>>
formVars == <<identity, rows, originals, roomsInit, newType, touched>>
editHotelVars == <<active, serverVars, roomsCopy, formVars, saving>>

NoRooms == [n \in Numbers |-> None]

TypeOK ==
    /\ active \in Hotels /\ named \in [Hotels -> Hotels]
    /\ types \in [Hotels -> SUBSET Types] /\ rooms \in [Hotels -> [Numbers -> Maybe(Types)]]
    /\ roomsCopy \in Maybe([Numbers -> Maybe(Types)]) /\ identity \in Maybe(Hotels)
    /\ rows \in [Numbers -> Choices] /\ originals \in [Numbers -> Maybe(Types)]
    /\ roomsInit \in BOOLEAN /\ newType \in Maybe(Types \union {NoType})
    /\ touched \subseteq Numbers
    /\ saving \in Maybe(Saves)

Init ==
    /\ active \in Hotels /\ named = [h \in Hotels |-> h]
    /\ types = [h \in Hotels |-> Old] /\ rooms \in [Hotels -> [Numbers -> Maybe(Old)]]
    /\ roomsCopy = None /\ identity = None /\ rows = NoRooms /\ originals = NoRooms /\ roomsInit = FALSE
    /\ newType = None /\ touched = {} /\ saving = None

(***************************************************************************)
(* Queries and filling.                                                    *)
(***************************************************************************)
HotelComes ==
    /\ identity = None /\ identity' = named[active]
    /\ UNCHANGED <<active, serverVars, roomsCopy, rows, originals, roomsInit, newType, touched, saving>>

RoomsCome ==
    /\ roomsCopy' = rooms[active]
    /\ UNCHANGED <<active, serverVars, formVars, saving>>

\* At any time, also in the middle of an update.
FillRooms ==
    /\ ~roomsInit /\ roomsCopy # None
    /\ rows' = roomsCopy /\ originals' = roomsCopy /\ roomsInit' = TRUE /\ touched' = {}
    /\ UNCHANGED <<active, serverVars, roomsCopy, identity, newType, saving>>

\* The header's switch: the cache is cleared, and the page is mounted anew.
SwitchHotel(h) ==
    /\ h # active /\ saving = None
    /\ active' = h /\ roomsCopy' = None
    /\ identity' = None /\ rows' = NoRooms /\ originals' = NoRooms /\ roomsInit' = FALSE
    /\ newType' = None /\ touched' = {}
    /\ UNCHANGED <<serverVars, saving>>

(***************************************************************************)
(* Editing.                                                                *)
(***************************************************************************)

\* The desk's turn: no update is under way, and a list that came has filled the form.
calm == saving = None /\ (roomsCopy # None => roomsInit)

Row(n, choice) ==
    /\ calm /\ rows[n] # choice
    /\ rows' = [rows EXCEPT ![n] = choice] /\ touched' = touched \union {n}
    /\ UNCHANGED <<active, serverVars, roomsCopy, identity, originals, roomsInit, newType, saving>>

\* A new row has no type yet.
addRoomEntry(n) == rows[n] = None /\ Row(n, NoType)
removeRoomEntry(n) == Row(n, None)

\* The list offers the saved types, and the new one once it has a name.
updateRoomEntry(n, choice) ==
    /\ rows[n] # None /\ Row(n, choice)
    /\ choice \in types[active] \/ (choice = New /\ newType \notin {None, NoType})

TypeRow(name) ==
    /\ calm /\ newType' = name
    /\ UNCHANGED <<active, serverVars, roomsCopy, identity, originals, roomsInit, saving>>

addTypeEntry == newType = None /\ TypeRow(NoType) /\ UNCHANGED <<rows, touched>>
updateTypeEntry(name) == newType # None /\ TypeRow(name) /\ UNCHANGED <<rows, touched>>

\* Removing the row takes it from the rooms that chose it.
removeTypeEntry ==
    /\ newType # None /\ TypeRow(None)
    /\ rows' = [n \in Numbers |-> IF rows[n] = New THEN NoType ELSE rows[n]]
    /\ UNCHANGED touched

\* A saved type is deleted at once; the server refuses while a room has it.
deleteSavedType(k) ==
    /\ calm /\ k \in types[active] \ Old /\ \A n \in Numbers : rooms[active][n] # k
    /\ types' = [types EXCEPT ![active] = @ \ {k}]
    /\ rows' = [n \in Numbers |-> IF rows[n] = k THEN NoType ELSE rows[n]]
    /\ UNCHANGED <<active, named, rooms, roomsCopy, identity, originals, roomsInit, newType, touched, saving>>

(***************************************************************************)
(* Update.                                                                 *)
(***************************************************************************)
Update ==
    /\ calm /\ identity # None
    /\ saving' = [stage |-> "identity", created |-> None, failed |-> {},
                  rows |-> rows, listed |-> roomsInit]
    /\ UNCHANGED <<active, serverVars, roomsCopy, formVars>>

Goes(stage, failed, created) ==
    saving' = [saving EXCEPT !.stage = stage, !.created = created,
                             !.failed = IF failed THEN @ \union {saving.stage} ELSE @]

\* The identity and the flags, whole.
SaveIdentity ==
    /\ saving # None /\ saving.stage = "identity"
    /\ \/ named' = [named EXCEPT ![active] = identity] /\ Goes("types", FALSE, None)
       \/ UNCHANGED named /\ Goes("types", TRUE, None)
    /\ UNCHANGED <<active, types, rooms, roomsCopy, formVars>>

\* The new type, if it has a name.
SaveTypes ==
    /\ saving # None /\ saving.stage = "types"
    /\ \/ newType \in {None, NoType} /\ UNCHANGED types /\ Goes("rooms", FALSE, None)
       \/ /\ newType \in Types \ types[active]
          /\ types' = [types EXCEPT ![active] = @ \union {newType}] /\ Goes("rooms", FALSE, newType)
       \/ newType \in Types /\ UNCHANGED types /\ Goes("rooms", TRUE, None)
    /\ UNCHANGED <<active, named, rooms, roomsCopy, formVars>>

\* "__new__:key" becomes the id of the type that was created.
Resolved(choice) == IF choice = New THEN saving.created ELSE choice

\* Faulty variant: the list is compared with what the cache holds now.
OriginalLive(n) == IF roomsCopy = None THEN None ELSE roomsCopy[n]

\* What a row is compared with: the list of the form, which may have come after the click.
Original(n) == originals[n]

Kept == {n \in Numbers : saving.rows[n] # None}
Skipped == {n \in Kept : Resolved(saving.rows[n]) \in {None, NoType}}

\* A row has an id when the form had its list at the click; the others are created.
HasId(n) == saving.listed /\ n \in Kept /\ Original(n) # None
Deleted == {n \in Numbers : Original(n) # None /\ ~HasId(n)}
Sent == {n \in Kept \ Skipped : HasId(n) => Resolved(saving.rows[n]) # Original(n)}

\* The deletions, then the changes and the new rooms; the server takes ids that are there
\* and numbers that are free.
SaveRooms ==
    /\ saving # None /\ saving.stage = "rooms"
    /\ \E gone \in SUBSET {n \in Deleted : rooms[active][n] # None} :
         LET left == [n \in Numbers |-> IF n \in gone THEN None ELSE rooms[active][n]]
         IN  \E done \in SUBSET {n \in Sent : HasId(n) <=> left[n] # None} :
               /\ rooms' = [rooms EXCEPT ![active] = [n \in Numbers |->
                                IF n \in done THEN Resolved(saving.rows[n]) ELSE left[n]]]
               /\ Goes("done", gone # Deleted \/ done # Sent, saving.created)
    /\ UNCHANGED <<active, named, types, roomsCopy, formVars>>

\* The queries are fetched again, which may fail; then every section is filled anew
\* (the old list is not read before that).
Refill ==
    /\ saving # None /\ saving.stage = "done"
    /\ roomsCopy' \in {roomsCopy, rooms[active]}
    /\ identity' = None /\ newType' = None
    /\ originals' = NoRooms /\ roomsInit' = FALSE /\ saving' = None
    /\ UNCHANGED <<active, serverVars, rows, touched>>

OtherDesk(n, k) ==
    /\ rooms' = [rooms EXCEPT ![active][n] = k]
    /\ UNCHANGED <<active, named, types, roomsCopy, formVars, saving>>

Next ==
    \/ HotelComes \/ RoomsCome \/ FillRooms
    \/ \E h \in Hotels : SwitchHotel(h)
    \/ \E n \in Numbers : addRoomEntry(n) \/ removeRoomEntry(n) \/ \E c \in Choices : updateRoomEntry(n, c)
    \/ addTypeEntry \/ removeTypeEntry \/ \E k \in Types \union {NoType} : updateTypeEntry(k)
    \/ \E k \in Types : deleteSavedType(k)
    \/ Update \/ SaveIdentity \/ SaveTypes \/ SaveRooms \/ Refill
    \/ \E n \in Numbers, k \in Maybe(Old) : OtherDesk(n, k)

Spec == Init /\ [][Next]_editHotelVars

(***************************************************************************)
(* What should hold.                                                       *)
(***************************************************************************)

\* A save deletes and changes only rooms whose row the desk changed, whatever other desks
\* did to the rooms since the form was filled.  (Not when the list comes after the click:
\* every room of it then counts as removed, and a delete is sent for each.)
UntouchedRoomsKept ==
    saving # None /\ saving.stage = "rooms" /\ saving.listed => Deleted \union Sent \subseteq touched

\* Why: a row that the desk left alone is as it was filled, or it lost its type when that
\* was deleted, and a row without a type is passed over; what was taken at the click from
\* a filled form is what the form still shows.
RowsAsFilled ==
    /\ types \in [Hotels -> SUBSET Types] /\ rooms \in [Hotels -> [Numbers -> Maybe(Types)]]
    /\ active \in Hotels /\ originals \in [Numbers -> Maybe(Types)]
    /\ roomsCopy # None => roomsCopy \in [Numbers -> Maybe(Types)]
    /\ newType \in Maybe(Types \union {NoType}) /\ roomsInit \in BOOLEAN
    /\ saving \in Maybe(Saves) /\ rows \in [Numbers -> Choices]
    /\ roomsInit => \A n \in Numbers \ touched : rows[n] \in {originals[n], NoType}
    /\ saving # None /\ saving.listed => roomsInit /\ saving.rows = rows

\* A hotel keeps its own identity: what a save sends was filled from the hotel it goes to.
OwnHotelSaved == \A h \in Hotels : named[h] = h

\* Why: the page is mounted anew for each hotel, so its fields are of the hotel it saves;
\* nothing is under way when the hotel changes.
FieldsOfHotel ==
    /\ active \in Hotels /\ named \in [Hotels -> Hotels]
    /\ identity \in {None, active} /\ (saving # None => identity = active)
    /\ OwnHotelSaved

====================================================================================
