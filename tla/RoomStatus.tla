----------------------------- MODULE RoomStatus -----------------------------
(***************************************************************************)
(* The room status state machine of backend/app/domain/room_status.py, and *)
(* the status sets that the services derive from it.                       *)
(***************************************************************************)

\* A room in the inventory is always in one of these (class RoomStatus).
RoomStatuses ==
    {"available", "reserved", "occupied", "cleaning_required",
     "cleaning_in_progress", "clean_ready", "inspection_required",
     "maintenance", "out_of_service"}

\* The pairs <<from, to>> of the table TRANSITIONS.
TRANSITIONS ==
    UNION {
      {"available"} \X {"reserved", "occupied", "maintenance",
                        "out_of_service", "cleaning_required"},
      {"reserved"} \X {"occupied", "available", "maintenance"},
      {"occupied"} \X {"cleaning_required"},
      {"cleaning_required"} \X {"cleaning_in_progress", "maintenance",
                                "out_of_service", "occupied",
                                "clean_ready", "available"},
      {"cleaning_in_progress"} \X {"clean_ready", "inspection_required",
                                   "maintenance", "occupied", "available"},
      {"clean_ready"} \X {"available", "inspection_required", "occupied",
                          "cleaning_required", "maintenance"},
      {"inspection_required"} \X {"available", "cleaning_required",
                                  "maintenance"},
      {"maintenance"} \X {"available", "cleaning_required",
                          "out_of_service", "clean_ready"},
      {"out_of_service"} \X {"available", "maintenance",
                             "cleaning_required"} }

\* can_transition: staying put is always allowed, which assert_transition
\* inherits (it raises exactly when this is false).
CanTransition(cur, tgt) == cur = tgt \/ <<cur, tgt>> \in TRANSITIONS

\* Statuses in which a room can be allocated (ALLOCATABLE).
Allocatable == {"available", "clean_ready"}

\* Statuses that make a room look vacant (_FREEING_STATUSES of rooms.py).
Freeing == {"available", "clean_ready"}

\* Statuses that block an immediate stay (_SAME_DAY_BLOCKED of bookings.py).
SameDayBlocked ==
    {"occupied", "cleaning_in_progress", "maintenance", "out_of_service"}

\* Statuses a room with a guest must be in to be checked out (_in_stay).
InStay == {"occupied", "cleaning_required", "cleaning_in_progress"}

\* Faulty variant: a room waiting for inspection is taken back as well.
ReclaimableInspected ==
    {"cleaning_required", "cleaning_in_progress", "clean_ready", "available",
     "inspection_required"}

\* Statuses from which reverse_checkout takes a room back.
Reclaimable ==
    {"cleaning_required", "cleaning_in_progress", "clean_ready", "available"}

\* Faulty variant: the task of a room that waits for cleaning is stale too.
TaskStaleDirty == {"available", "clean_ready", "reserved", "cleaning_required"}

\* Statuses in which an open cleaning task is stale
\* (_TASK_STALE_ROOM_STATUSES of housekeeping.py).
TaskStale == {"available", "clean_ready", "reserved"}

\* Cleaning, or waiting for it: manual "occupied" from here closes the task.
Cleaning ==
    {"cleaning_required", "cleaning_in_progress", "inspection_required"}
=============================================================================
