------------------------------- MODULE Stays --------------------------------
(***************************************************************************)
(* Bookings, stays, rooms and housekeeping of one hotel, each service call *)
(* of backend/app/services one atomic step (the module StayTransactions    *)
(* takes the calls apart).  A booking id is one row of bookings and a room *)
(* one active row of rooms.                                                *)
(***************************************************************************)
EXTENDS Integers, FiniteSets, BookingRules, RoomStatus

CONSTANTS
    Rooms,          \* the hotel's active rooms
    Bookings,       \* identifiers of bookings, created at most once each
    Windows,        \* the stay windows clients ask for
    UsualIn,        \* the hotel's check-in time, that of a booking without one
    UsualOut,       \* its check-out time
    ManualStatuses, \* the room statuses staff choose by hand
    LastDay,        \* bound on the hotel-local date
    MaxMaintenance  \* bound on open maintenance records of a room

\* A window is a check-in date and time and a check-out date and time.
ASSUME WindowsAssumption ==
    /\ Windows \subseteq [inDay: Nat, inTime: Nat, outDay: Nat, outTime: Nat]
    /\ Windows # {}
ASSUME ManualAssumption == ManualStatuses \subseteq RoomStatuses
ASSUME BoundsAssumption == LastDay \in Nat /\ MaxMaintenance \in Nat

VARIABLES
    today,      \* hotel_today: the hotel-local date
    status,     \* status[b]: Booking.status; "none" before it is created
    window,     \* window[b]: the scheduled dates and times of b
    current,    \* current[b]: the rooms of b whose BookingRoom.is_current
    past,       \* past[b]: the rooms b was moved away from (is_current false)
    room,       \* room[r]: Room.status
    task,       \* task[r]: status of r's open HousekeepingTask, or "none"
    maint,      \* maint[r]: number of unresolved MaintenanceRecords of r
    unchecked   \* history: bookings whose claim was last changed without
                \* _assert_no_overlap of that claim; read by no action

bookingVars == <<status, window, current, past, unchecked>>
roomVars == <<room, task, maint>>
vars == <<today, bookingVars, roomVars>>

-----------------------------------------------------------------------------
Claims(b, r) == status[b] \in Active /\ r \in current[b]

\* _assert_no_overlap, the booking b itself excluded (exclude_booking_id).
NoOverlap(b, S, w) ==
    \A c \in Bookings \ {b} : \A r \in S :
        Claims(c, r) => ~Overlaps(window[c], w)

\* has_in_house_guest
InHouse(r) == \E b \in Bookings : status[b] = "checked_in" /\ r \in current[b]

\* _assert_same_day_bookable, for each room of S.
SameDayBookable(S) == \A r \in S : room[r] \notin SameDayBlocked

\* ensure_task_for_room, for each room of S.
EnsureTask(S) ==
    [r \in Rooms |-> IF r \in S /\ task[r] = "none"
                       THEN "cleaning_required" ELSE task[r]]

\* The statuses of all rooms once those of S have been set to s.
SetRooms(S, s) == [r \in Rooms |-> IF r \in S THEN s ELSE room[r]]

\* _release_rooms: legacy 'reserved' flags of the rooms of b are cleared.
ReleaseRooms(b) ==
    [r \in Rooms |-> IF r \in current[b] /\ room[r] = "reserved"
                       THEN "available" ELSE room[r]]

-----------------------------------------------------------------------------
Init ==
    /\ today = 0
    /\ status = [b \in Bookings |-> "none"]
    /\ window = [b \in Bookings |-> CHOOSE w \in Windows : TRUE]
    /\ current = [b \in Bookings |-> {}]
    /\ past = [b \in Bookings |-> {}]
    /\ room = [r \in Rooms |-> "available"]
    /\ task = [r \in Rooms |-> "none"]
    /\ maint = [r \in Rooms |-> 0]
    /\ unchecked = {}

(* ---- bookings.py ---- *)

\* The checks of create_booking and the row it inserts, with status st.
InsertBooking(b, S, w, st) ==
    /\ status[b] = "none"
    /\ ValidRequest(w)
    /\ w.inDay >= today
    /\ NoOverlap(b, S, w)
    /\ w.inDay = today => SameDayBookable(S)
    /\ status' = [status EXCEPT ![b] = st]
    /\ window' = [window EXCEPT ![b] = w]
    /\ current' = [current EXCEPT ![b] = S]
    /\ UNCHANGED <<today, past, unchecked>>

CreateBooking(b, S, w, confirm) ==
    /\ InsertBooking(b, S, w, IF confirm THEN "confirmed" ELSE "pending")
    /\ UNCHANGED roomVars

\* Fields that update_booking accepts: a guest in house only gets a new
\* check-out, and one-day windows are for bookings that already were day use.
Editable(b, w) ==
    /\ status[b] \in Active
    /\ status[b] = "checked_in" =>
         w.inDay = window[b].inDay /\ w.inTime = window[b].inTime
    /\ w.inDay <= w.outDay
    /\ IsDayUse(w) => IsDayUse(window[b])

\* Faulty variant: the overlap check is made with the old dates.
UpdateBookingDatesStale(b, w) ==
    /\ Editable(b, w)
    /\ NoOverlap(b, current[b], window[b])
    /\ window' = [window EXCEPT ![b] = w]
    /\ unchecked' = unchecked \ {b}
    /\ UNCHANGED <<today, status, current, past, roomVars>>

\* update_booking with a date among the changes: rooms locked, overlap
\* checked with the merged dates and times.
UpdateBookingDates(b, w) ==
    /\ Editable(b, w)
    /\ NoOverlap(b, current[b], w)
    /\ window' = [window EXCEPT ![b] = w]
    /\ unchecked' = unchecked \ {b}
    /\ UNCHANGED <<today, status, current, past, roomVars>>

\* update_booking with a date among the changes and times set to null: the
\* booking gets the usual ones, but the check is made with those it had ("or").
UpdateDatesDropTimes(b, w) ==
    /\ Editable(b, w)
    /\ \E checked \in {[w EXCEPT !.inTime = window[b].inTime],
                     [w EXCEPT !.outTime = window[b].outTime],
                     [w EXCEPT !.inTime = window[b].inTime, !.outTime = window[b].outTime]} :
         /\ checked.inTime # w.inTime => w.inTime = UsualIn
         /\ checked.outTime # w.outTime => w.outTime = UsualOut
         /\ checked # w
         /\ NoOverlap(b, current[b], checked)
    /\ window' = [window EXCEPT ![b] = w]
    /\ unchecked' = unchecked \union {b}
    /\ UNCHANGED <<today, status, current, past, roomVars>>

\* update_booking with times only: neither lock nor overlap check.
UpdateBookingTimes(b, w) ==
    /\ Editable(b, w)
    /\ w.inDay = window[b].inDay /\ w.outDay = window[b].outDay
    /\ w # window[b]
    /\ window' = [window EXCEPT ![b] = w]
    /\ unchecked' = unchecked \union {b}
    /\ UNCHANGED <<today, status, current, past, roomVars>>

\* Faulty variant: a room the booking once left can be allocated again.
NewRoomFreeAgain(b, r) ==
    /\ r \notin current[b]
    /\ NoOverlap(b, {r}, window[b])

\* The check replace_booking_room and add_room_to_booking make of a new room.
\* The last conjunct is the constraint uq_booking_room: a booking has one row
\* per room, so a room it was moved away from cannot be inserted again.
NewRoomFree(b, r) ==
    /\ r \notin current[b]
    /\ NoOverlap(b, {r}, window[b])
    /\ r \notin past[b]

ReplaceRoom(b, from, to) ==
    /\ status[b] \in {"pending", "confirmed"}
    /\ from \in current[b]
    /\ NewRoomFree(b, to)
    /\ window[b].inDay <= today => SameDayBookable({to})
    /\ current' = [current EXCEPT ![b] = (@ \ {from}) \union {to}]
    /\ past' = [past EXCEPT ![b] = @ \union {from}]
    /\ room' = [room EXCEPT ![from] = IF @ = "reserved" THEN "available" ELSE @]
    /\ UNCHANGED <<today, status, window, unchecked, task, maint>>

AddRoom(b, r) ==
    /\ status[b] \in {"pending", "confirmed"}
    /\ NewRoomFree(b, r)
    /\ window[b].inDay <= today => SameDayBookable({r})
    /\ current' = [current EXCEPT ![b] = @ \union {r}]
    /\ UNCHANGED <<today, status, window, past, unchecked, roomVars>>

CancelBooking(b) ==
    /\ status[b] \in {"pending", "confirmed"}
    /\ status' = [status EXCEPT ![b] = "cancelled"]
    /\ room' = ReleaseRooms(b)
    /\ UNCHANGED <<today, window, current, past, unchecked, task, maint>>

MarkNoShow(b) ==
    /\ status[b] = "confirmed"
    /\ status' = [status EXCEPT ![b] = "no_show"]
    /\ room' = ReleaseRooms(b)
    /\ UNCHANGED <<today, window, current, past, unchecked, task, maint>>

(* ---- stay.py ---- *)

\* check_in: rooms in any status from which "occupied" can be reached, and
\* "occupied" itself.  The desk may set the check-out time in passing.
CheckIn(b, isEarly, w) ==
    /\ status[b] \in {"pending", "confirmed"}
    /\ window[b].inDay > today => isEarly
    /\ \A r \in current[b] : CanTransition(room[r], "occupied")
    /\ w = [window[b] EXCEPT !.outTime = w.outTime]
    /\ room' = SetRooms(current[b], "occupied")
    /\ window' = [window EXCEPT ![b] = w]
    /\ status' = [status EXCEPT ![b] = "checked_in"]
    /\ unchecked' = IF w = window[b] THEN unchecked ELSE unchecked \union {b}
    /\ UNCHANGED <<today, current, past, task, maint>>

\* book_and_check_in: create_booking, then check_in (never early) of the new
\* row, in one transaction.
BookAndCheckIn(b, S, w) ==
    /\ InsertBooking(b, S, w, "checked_in")
    /\ w.inDay <= today
    /\ \A r \in S : CanTransition(room[r], "occupied")
    /\ room' = SetRooms(S, "occupied")
    /\ UNCHANGED <<task, maint>>

\* Faulty variant: no overlap check on the target room (the bug that the
\* comment "Audit finding CRITICAL #1" in transfer_room records as fixed).
TransferRoomUnchecked(b, from, to) ==
    /\ status[b] = "checked_in"
    /\ from \in current[b]
    /\ to \notin current[b] \union past[b]
    /\ room[to] \in Allocatable
    /\ CanTransition(room[from], "cleaning_required")
    /\ current' = [current EXCEPT ![b] = (@ \ {from}) \union {to}]
    /\ past' = [past EXCEPT ![b] = @ \union {from}]
    /\ room' = [room EXCEPT ![from] = "cleaning_required", ![to] = "occupied"]
    /\ task' = EnsureTask({from})
    /\ UNCHANGED <<today, status, window, unchecked, maint>>

\* transfer_room: an allocatable target, free for the whole booking.
TransferRoom(b, from, to) ==
    /\ status[b] = "checked_in"
    /\ from \in current[b]
    /\ from # to
    /\ room[to] \in Allocatable
    /\ NewRoomFree(b, to)
    /\ CanTransition(room[from], "cleaning_required")
    /\ CanTransition(room[to], "occupied")
    /\ current' = [current EXCEPT ![b] = (@ \ {from}) \union {to}]
    /\ past' = [past EXCEPT ![b] = @ \union {from}]
    /\ room' = [room EXCEPT ![from] = "cleaning_required", ![to] = "occupied"]
    /\ task' = EnsureTask({from})
    /\ UNCHANGED <<today, status, window, unchecked, maint>>

\* Faulty variant: the rooms keep their status.
CheckOutRoomsKept(b, w) ==
    /\ status[b] = "checked_in"
    /\ \A r \in current[b] : room[r] \in InStay
    /\ w = [window[b] EXCEPT !.outDay = w.outDay, !.outTime = w.outTime]
    /\ task' = EnsureTask(current[b])
    /\ window' = [window EXCEPT ![b] = w]
    /\ status' = [status EXCEPT ![b] = "checked_out"]
    /\ UNCHANGED <<today, current, past, unchecked, room, maint>>

\* check_out: the desk may correct the billed check-out date and time.
CheckOut(b, w) ==
    /\ status[b] = "checked_in"
    /\ \A r \in current[b] : room[r] \in InStay
    /\ w = [window[b] EXCEPT !.outDay = w.outDay, !.outTime = w.outTime]
    /\ room' = [r \in Rooms |-> IF r \in current[b] /\ room[r] = "occupied"
                                  THEN "cleaning_required" ELSE room[r]]
    /\ task' = EnsureTask(current[b])
    /\ window' = [window EXCEPT ![b] = w]
    /\ status' = [status EXCEPT ![b] = "checked_out"]
    /\ UNCHANGED <<today, current, past, unchecked, maint>>

\* reverse_checkout: rooms are reclaimed and their open tasks cancelled; the
\* claim of b comes back without an overlap check.
ReverseCheckout(b) ==
    /\ status[b] = "checked_out"
    /\ \A r \in current[b] : room[r] \in Reclaimable
    /\ room' = SetRooms(current[b], "occupied")
    /\ task' = [r \in Rooms |-> IF r \in current[b] THEN "none" ELSE task[r]]
    /\ status' = [status EXCEPT ![b] = "checked_in"]
    /\ unchecked' = unchecked \union {b}
    /\ UNCHANGED <<today, window, current, past, maint>>

(* ---- housekeeping.py ---- *)

\* list_tasks heals before it lists: tasks of rooms already ready are closed.
ListTasks ==
    /\ \E r \in Rooms : task[r] # "none" /\ room[r] \in TaskStale
    /\ task' = [r \in Rooms |-> IF room[r] \in TaskStale THEN "none" ELSE task[r]]
    /\ UNCHANGED <<today, bookingVars, room, maint>>

StartTask(r) ==
    /\ task[r] = "cleaning_required"
    /\ ~InHouse(r) => CanTransition(room[r], "cleaning_in_progress")
    /\ room' = IF InHouse(r) THEN room
                 ELSE [room EXCEPT ![r] = "cleaning_in_progress"]
    /\ task' = [task EXCEPT ![r] = "cleaning_in_progress"]
    /\ UNCHANGED <<today, bookingVars, maint>>

\* complete_task after a stayover clean: the room is the guest's again.
CompleteStayoverTask(r) ==
    /\ task[r] # "none" /\ InHouse(r)
    /\ CanTransition(room[r], "occupied")
    /\ room' = [room EXCEPT ![r] = "occupied"]
    /\ task' = [task EXCEPT ![r] = "none"]
    /\ UNCHANGED <<today, bookingVars, maint>>

\* complete_task with nobody in house: required -> in progress -> ready ->
\* available, each step asserted.
CompleteCheckoutTask(r) ==
    /\ task[r] # "none" /\ ~InHouse(r)
    /\ room[r] = "cleaning_required" \/ CanTransition(room[r], "clean_ready")
    /\ room' = [room EXCEPT ![r] = "available"]
    /\ task' = [task EXCEPT ![r] = "none"]
    /\ UNCHANGED <<today, bookingVars, maint>>

OpenMaintenance(r) ==
    /\ maint[r] < MaxMaintenance
    /\ CanTransition(room[r], "maintenance")
    /\ room' = [room EXCEPT ![r] = "maintenance"]
    /\ maint' = [maint EXCEPT ![r] = @ + 1]
    /\ UNCHANGED <<today, bookingVars, task>>

\* Faulty variants: the room is freed without asking for a guest; the room of
\* a guest is left as it is.
ResolveMaintenanceFrees(r) ==
    /\ maint[r] > 0
    /\ CanTransition(room[r], "available")
    /\ room' = [room EXCEPT ![r] = "available"]
    /\ maint' = [maint EXCEPT ![r] = @ - 1]
    /\ UNCHANGED <<today, bookingVars, task>>

ResolveMaintenanceKeeps(r) ==
    /\ maint[r] > 0
    /\ ~InHouse(r) => CanTransition(room[r], "available")
    /\ room' = IF InHouse(r) THEN room ELSE [room EXCEPT ![r] = "available"]
    /\ maint' = [maint EXCEPT ![r] = @ - 1]
    /\ UNCHANGED <<today, bookingVars, task>>

\* resolve_maintenance of one record, whatever the room went through since.
ResolveMaintenance(r) ==
    LET target == IF InHouse(r) THEN "occupied" ELSE "available"
    IN  /\ maint[r] > 0
        /\ CanTransition(room[r], target)
        /\ room' = [room EXCEPT ![r] = target]
        /\ maint' = [maint EXCEPT ![r] = @ - 1]
        /\ UNCHANGED <<today, bookingVars, task>>

(* ---- rooms.py ---- *)

\* Faulty variant: "reserved" can be set by hand.
UpdateRoomStatusReserved(r, s) ==
    /\ s = "occupied" => InHouse(r)
    /\ CanTransition(room[r], s)
    /\ s \in Freeing => ~InHouse(r)
    /\ room' = [room EXCEPT ![r] = s]
    /\ UNCHANGED <<today, bookingVars, task, maint>>

\* update_room_status: the manual override.
UpdateRoomStatus(r, s) ==
    /\ s # "reserved"
    /\ s = "occupied" => InHouse(r)
    /\ CanTransition(room[r], s)
    /\ s \in Freeing => ~InHouse(r)
    /\ room' = [room EXCEPT ![r] = s]
    /\ task' = IF s = "cleaning_required" THEN EnsureTask({r})
               ELSE IF s \in Freeing \/ (s = "occupied" /\ room[r] \in Cleaning)
                 THEN [task EXCEPT ![r] = "none"]
                 ELSE task
    /\ maint' = [maint EXCEPT ![r] = IF s \in Freeing THEN 0
                                    ELSE IF s = "maintenance" /\ @ = 0 THEN 1
                                    ELSE @]
    /\ UNCHANGED <<today, bookingVars>>

NextDay ==
    /\ today < LastDay
    /\ today' = today + 1
    /\ UNCHANGED <<bookingVars, roomVars>>

-----------------------------------------------------------------------------
\* The rooms a booking is made for.
RoomSets == (SUBSET Rooms) \ {{}}

BookingStep(b) ==
    \/ \E S \in RoomSets, w \in Windows, confirm \in BOOLEAN :
         CreateBooking(b, S, w, confirm)
    \/ \E w \in Windows : UpdateBookingDates(b, w)
    \/ \E w \in Windows : UpdateDatesDropTimes(b, w)
    \/ \E w \in Windows : UpdateBookingTimes(b, w)
    \/ \E from, to \in Rooms : ReplaceRoom(b, from, to)
    \/ \E r \in Rooms : AddRoom(b, r)
    \/ CancelBooking(b)
    \/ MarkNoShow(b)

StayStep(b) ==
    \/ \E isEarly \in BOOLEAN, w \in Windows : CheckIn(b, isEarly, w)
    \/ \E S \in RoomSets, w \in Windows : BookAndCheckIn(b, S, w)
    \/ \E from, to \in Rooms : TransferRoom(b, from, to)
    \/ \E w \in Windows : CheckOut(b, w)
    \/ ReverseCheckout(b)

RoomStep(r) ==
    \/ StartTask(r)
    \/ CompleteStayoverTask(r)
    \/ CompleteCheckoutTask(r)
    \/ OpenMaintenance(r)
    \/ ResolveMaintenance(r)
    \/ \E s \in ManualStatuses : UpdateRoomStatus(r, s)

Next ==
    \/ \E b \in Bookings : BookingStep(b) \/ StayStep(b)
    \/ \E r \in Rooms : RoomStep(r)
    \/ ListTasks
    \/ NextDay

Spec == Init /\ [][Next]_vars

-----------------------------------------------------------------------------
\* Every variable has its type.  Room.status never becomes "reserved":
\* reservations are derived from the bookings.
TypeOK ==
    /\ today \in 0..LastDay
    /\ status \in [Bookings -> BookingStatuses \union {"none"}]
    /\ window \in [Bookings -> Windows]
    /\ current \in [Bookings -> SUBSET Rooms]
    /\ past \in [Bookings -> SUBSET Rooms]
    /\ room \in [Rooms -> RoomStatuses \ {"reserved"}]
    /\ task \in [Rooms -> {"none", "cleaning_required",
                            "cleaning_in_progress"}]
    /\ maint \in [Rooms -> Nat]
    /\ unchecked \in SUBSET Bookings

\* Two bookings that claim one room for overlapping windows got there through
\* a change that skips _assert_no_overlap, or makes it with times that the booking
\* does not keep: every other service keeps the calendar free of double bookings.
OverlapOnlyUnchecked ==
    \A b, c \in Bookings : \A r \in Rooms :
        /\ b # c /\ Claims(b, r) /\ Claims(c, r)
        /\ Overlaps(window[b], window[c])
        => b \in unchecked \/ c \in unchecked

\* A room with a checked-in guest never looks vacant, whatever housekeeping,
\* maintenance and the manual override did to it meanwhile.
InHouseNotFree ==
    \A r \in Rooms : InHouse(r) => room[r] \notin Freeing

\* A room is shown as occupied only while a checked-in booking holds it.
OccupiedHasGuest ==
    \A r \in Rooms : room[r] = "occupied" => InHouse(r)

\* A room that waits for cleaning, or is being cleaned, has an open task: it
\* cannot drop off the housekeeping board.
DirtyHasTask ==
    \A r \in Rooms :
        room[r] \in {"cleaning_required", "cleaning_in_progress"}
        => task[r] # "none"

\* A room under maintenance has an unresolved record, through which the
\* operations page can bring it back.
MaintenanceHasRecord ==
    \A r \in Rooms : room[r] = "maintenance" => maint[r] > 0

\* Every booking holds a room at all times, and no room twice.
BookingHoldsRoom ==
    \A b \in Bookings : status[b] # "none" =>
        current[b] # {} /\ current[b] \cap past[b] = {}

\* Every change of a room's status is one the state machine allows, also
\* where a service assigns it without assert_transition.
RoomStepsLegal ==
    [][\A r \in Rooms : CanTransition(room[r], room'[r])]_vars

\* A guest leaves a room, by check-out or by transfer, only to a room that is
\* queued for cleaning, unless another guest is still in it.
VacatedRoomQueued ==
    [][\A r \in Rooms : InHouse(r) /\ ~InHouse(r)' =>
          /\ room'[r] \in {"cleaning_required", "cleaning_in_progress"}
          /\ task'[r] # "none"]_vars

-----------------------------------------------------------------------------
(* What a comment of the code says, and the code does not do. *)

\* "Double-booking safety lives entirely in _assert_no_overlap": no two
\* bookings ever claim a room for overlapping windows.
NoDoubleBooking ==
    \A b, c \in Bookings : \A r \in Rooms :
        b # c /\ Claims(b, r) /\ Claims(c, r)
        => ~Overlaps(window[b], window[c])

-----------------------------------------------------------------------------
\* The calendar of the hotel: the claims of the active bookings.
claim ==
    [b \in Bookings |-> IF status[b] \in Active
                          THEN current[b] \X {window[b]} ELSE {}]

Calendar == INSTANCE RoomCalendar WITH claim <- claim, unchecked <- unchecked

\* The services implement the calendar.
CalendarSpec == Calendar!Spec
=============================================================================
