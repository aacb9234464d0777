---------------------------- MODULE RoomScreens ----------------------------
(***************************************************************************)
(* The Room Status page (frontend/src/app/(partner)/rooms/page.tsx) and    *)
(* the housekeeping page, of one desk that works beside others: the grid   *)
(* polls the rooms every thirty seconds, a menu offers the moves of a room *)
(* by its copy, and a move into maintenance or out of service waits in a   *)
(* dialog for its reason.                                                  *)
(***************************************************************************)
EXTENDS RoomStatus, Naturals

CONSTANTS Rooms, None,
          FiltersInUse,   \* the filters this instance chooses
          MaxOther        \* bounds what other desks change

VARIABLES
    server,   \* [Rooms -> room]: what the hotel's database holds
    task,     \* [Rooms -> status of the open cleaning task, or None]
    copy,     \* the rooms and tasks as the screen shows them, or None
    fetch,    \* None, or what the request under way has read
    filter,   \* the bucket shown
    dialog,   \* None, or the room and the status that wait for a reason
    typed,    \* whether the dialog holds a reason of three characters
    call,     \* None, or the request under way
    other     \* changes of other desks so far

vars == <<server, task, copy, fetch, filter, dialog, typed, call, other>>
screen == <<copy, fetch, filter>>

Buckets == {"occupied", "available", "reserved", "cleaning", "maintenance"}
Filters == Buckets \union {"all"}
RoomValues == [status: RoomStatuses, guest: BOOLEAN, arriving: BOOLEAN,
               noted: BOOLEAN]

-----------------------------------------------------------------------------
(* What the screen derives from its copy.                                  *)

\* roomBucket: a free room counts as reserved only if its guest comes today.
roomBucket(room) ==
    CASE room.status = "occupied" -> "occupied"
      [] room.status \in {"maintenance", "out_of_service"} -> "maintenance"
      [] room.status \in Cleaning -> "cleaning"
      [] room.status = "reserved" -> "reserved"
      [] OTHER -> IF room.arriving THEN "reserved" ELSE "available"

\* LEGACY_FILTER_MAP: a saved link may carry a raw status.
LegacyFilter(param) ==
    CASE param \in Cleaning -> "cleaning"
      [] param = "clean_ready" -> "available"
      [] param = "out_of_service" -> "maintenance"
      [] OTHER -> "all"

\* The filter a link opens the page with.
LinkedFilter(param) == IF param \in Filters THEN param ELSE LegacyFilter(param)

\* The rooms of the grid and of the table.
Listed ==
    {r \in Rooms : filter = "all" \/ roomBucket(copy.rooms[r]) = filter}

\* RoomStatusMenuItems, case by case: the moves offered for a room.
OccupiedMoves == {"cleaning_required", "maintenance"}
AvailableMoves == {"cleaning_required", "maintenance", "out_of_service"}
CleaningMoves(guest) ==
    IF guest THEN {"occupied", "maintenance"}
    ELSE {"available", "clean_ready", "maintenance", "out_of_service"}
ClosedMoves == {"available", "cleaning_required", "clean_ready"}

MenuMoves(room) ==
    CASE room.status = "occupied" -> OccupiedMoves
      [] room.status \in Allocatable -> AvailableMoves
      [] room.status \in Cleaning -> CleaningMoves(room.guest)
      [] room.status \in {"maintenance", "out_of_service"} -> ClosedMoves
      [] OTHER -> {}

\* The statuses that ask for a reason first.
NeedsReason == {"maintenance", "out_of_service"}

-----------------------------------------------------------------------------
(* The server.                                                             *)

\* update_room_status takes a move along the table; a guest's room is never
\* freed, and becomes occupied again only for its guest.
Takes(r, status) ==
    /\ CanTransition(server[r].status, status)
    /\ status \in Freeing => ~server[r].guest
    /\ status = "occupied" => server[r].guest

MovedRoom(r, status, noted) ==
    [server[r] EXCEPT !.status = status, !.noted = noted]

\* The task of a room after a move by hand.
MovedTask(r, status) ==
    CASE status = "cleaning_required" ->
           IF task[r] = None THEN "cleaning_required" ELSE task[r]
      [] status \in Freeing \union {"occupied"} -> None
      [] OTHER -> task[r]

\* start_task and complete_task: the room of a guest stays the guest's.
TaskStatus(r, what) ==
    CASE server[r].guest -> IF what = "start" THEN server[r].status
                            ELSE "occupied"
      [] OTHER -> IF what = "start" THEN "cleaning_in_progress"
                  ELSE "available"

TaskTakes(r, what) ==
    IF what = "start"
    THEN /\ task[r] = "cleaning_required"
         /\ CanTransition(server[r].status, TaskStatus(r, what))
    ELSE /\ task[r] # None
         /\ CanTransition(server[r].status,
                          IF server[r].guest THEN "occupied"
                          ELSE "clean_ready")

-----------------------------------------------------------------------------
Init ==
    /\ server \in [Rooms ->
         {[status |-> s, guest |-> g, arriving |-> a, noted |-> FALSE] :
            s \in {"available", "occupied", "cleaning_required"},
            g \in BOOLEAN, a \in BOOLEAN}]
    /\ \A r \in Rooms :
         /\ server[r].status = "available" => ~server[r].guest
         /\ server[r].status = "occupied" => server[r].guest
    /\ task = [r \in Rooms |-> IF server[r].status = "cleaning_required"
                               THEN "cleaning_required" ELSE None]
    /\ copy = None /\ fetch = None
    /\ filter \in {LinkedFilter(param) : param \in Filters \union RoomStatuses}
    /\ filter \in FiltersInUse
    /\ dialog = None /\ typed = FALSE
    /\ call = None /\ other = 0

\* Every thirty seconds, on focus and after an own change the lists are read;
\* the read of an answered change cancels the one before it.
ReadRooms ==
    /\ fetch = None
    /\ fetch' = [rooms |-> server, tasks |-> task]
    /\ UNCHANGED <<server, task, copy, filter, dialog, typed, call, other>>

\* Faulty variant: the lists are read once.
RoomsReadOnce ==
    /\ fetch # None
    /\ copy' = IF copy = None THEN fetch ELSE copy
    /\ fetch' = None
    /\ UNCHANGED <<server, task, filter, dialog, typed, call, other>>

RoomsRead ==
    /\ fetch # None
    /\ copy' = fetch /\ fetch' = None
    /\ UNCHANGED <<server, task, filter, dialog, typed, call, other>>

\* A card or a chip.
ChooseFilter(f) ==
    /\ f # filter
    /\ filter' = f
    /\ UNCHANGED <<server, task, copy, fetch, dialog, typed, call, other>>

\* handleSelectStatus: at once, or by way of the dialog.
handleSelectStatus(r, status) ==
    /\ copy # None /\ dialog = None /\ r \in Listed
    /\ status \in MenuMoves(copy.rooms[r])
    /\ IF status \in NeedsReason
       THEN /\ dialog' = [room |-> r, status |-> status]
            /\ typed' = FALSE
            /\ UNCHANGED call
       ELSE /\ call = None
            /\ call' = [room |-> r, what |-> status, noted |-> FALSE]
            /\ UNCHANGED <<dialog, typed>>
    /\ UNCHANGED <<server, task, screen, other>>

TypeReason ==
    /\ dialog # None /\ ~typed
    /\ typed' = TRUE
    /\ UNCHANGED <<server, task, screen, dialog, call, other>>

CancelReason ==
    /\ dialog # None
    /\ dialog' = None /\ typed' = FALSE
    /\ UNCHANGED <<server, task, screen, call, other>>

\* handleConfirmReasonStatus, by the button or by Enter.
handleConfirmReasonStatus ==
    /\ dialog # None /\ typed /\ call = None
    /\ call' = [room |-> dialog.room, what |-> dialog.status, noted |-> TRUE]
    /\ UNCHANGED <<server, task, screen, dialog, typed, other>>

\* The buttons of a cleaning task, by its copy.
TaskButton(r, what) ==
    /\ copy # None /\ call = None /\ dialog = None
    /\ copy.tasks[r] \in (IF what = "start" THEN {"cleaning_required"}
                          ELSE {"cleaning_required", "cleaning_in_progress"})
    /\ call' = [room |-> r, what |-> what, noted |-> FALSE]
    /\ UNCHANGED <<server, task, screen, dialog, typed, other>>

\* The answer: success clears the dialog, whichever room it is open for, and
\* the lists are read anew.
Answer ==
    /\ call # None
    /\ LET r == call.room
           byTask == call.what \in {"start", "complete"}
           taken == IF byTask THEN TaskTakes(r, call.what)
                    ELSE Takes(r, call.what)
           status == IF byTask THEN TaskStatus(r, call.what) ELSE call.what
       IN  IF taken
           THEN /\ server' = [server EXCEPT
                                ![r] = MovedRoom(r, status, call.noted)]
                /\ task' = [task EXCEPT ![r] =
                     CASE call.what = "start" -> "cleaning_in_progress"
                       [] call.what = "complete" -> None
                       [] OTHER -> MovedTask(r, call.what)]
                /\ dialog' = IF byTask THEN dialog ELSE None
                /\ typed' = (byTask /\ typed)
                /\ fetch' = [rooms |-> server', tasks |-> task']
           ELSE UNCHANGED <<server, task, dialog, typed, fetch>>
    /\ call' = None
    /\ UNCHANGED <<copy, filter, other>>

\* Another desk moves a room, or its guest comes or leaves.
OtherDesk(r, status) ==
    /\ other < MaxOther
    /\ CanTransition(server[r].status, status) /\ status # server[r].status
    /\ status \notin {"reserved", "clean_ready"}
    /\ server' = [server EXCEPT ![r].status = status,
                    ![r].guest = (status = "occupied" \/
                                   (@ /\ status \notin Freeing))]
    /\ task' = [task EXCEPT ![r] = MovedTask(r, status)]
    /\ other' = other + 1
    /\ UNCHANGED <<screen, dialog, typed, call>>

Next ==
    \/ ReadRooms
    \/ RoomsRead
    \/ \E f \in FiltersInUse : ChooseFilter(f)
    \/ \E r \in Rooms, s \in RoomStatuses : handleSelectStatus(r, s)
    \/ TypeReason
    \/ CancelReason
    \/ handleConfirmReasonStatus
    \/ \E r \in Rooms, what \in {"start", "complete"} : TaskButton(r, what)
    \/ Answer
    \/ \E r \in Rooms, s \in RoomStatuses : OtherDesk(r, s)

\* The page's timer and the browser's fetch; nothing is asked of the desk.
Reads == ReadRooms \/ RoomsRead

Spec == Init /\ [][Next]_vars /\ WF_vars(Reads)

-----------------------------------------------------------------------------
TypeOK ==
    /\ server \in [Rooms -> RoomValues]
    /\ task \in [Rooms -> {None, "cleaning_required", "cleaning_in_progress"}]
    /\ filter \in Filters
    /\ \A shown \in {copy, fetch} \ {None} :
         /\ shown.rooms \in [Rooms -> RoomValues]
         /\ DOMAIN shown.tasks = Rooms
    /\ dialog # None => dialog \in [room: Rooms, status: NeedsReason]
    /\ call # None =>
         call \in [room: Rooms, what: RoomStatuses \union {"start", "complete"},
                  noted: BOOLEAN]
    /\ typed \in BOOLEAN
    /\ other \in 0..MaxOther

\* Nobody changes a room or a task, and the screen shows what the hotel has.
Quiet == server' = server /\ task' = task
Converged == copy # None /\ copy.rooms = server /\ copy.tasks = task

\* Once the rooms and tasks change no more, the screen shows them: the desks
\* of one hotel converge without a manual refresh, however a read crossed a
\* change of this desk or of another.
DesksConverge == <>[][Quiet]_vars => <>[]Converged
=============================================================================
