---------------------------- MODULE Stays_proofs ----------------------------
(***************************************************************************)
(* Proofs that every reachable state of Stays satisfies the type invariant *)
(* and the safety invariants of rooms and calendar, for all sets of rooms, *)
(* bookings and windows; and that the services implement RoomCalendar.     *)
(***************************************************************************)
EXTENDS Stays, TLAPS

-----------------------------------------------------------------------------
(* The state machine. *)

\* Cleaning starts only in a room that is dirty.
LEMMA StartCleaning ==
    ASSUME NEW s, CanTransition(s, "cleaning_in_progress")
    PROVE  s \in {"cleaning_required", "cleaning_in_progress"}
BY DEF CanTransition, TRANSITIONS

\* Overlap of windows is symmetric.
LEMMA OverlapsSymmetric ==
    ASSUME NEW v, NEW w
    PROVE  Overlaps(v, w) <=> Overlaps(w, v)
BY DEF Overlaps

-----------------------------------------------------------------------------
(* Types. *)

LEMMA InitType == Init => TypeOK
<1> SUFFICES ASSUME Init PROVE TypeOK
    OBVIOUS
<1>1. (CHOOSE w \in Windows : TRUE) \in Windows
    BY WindowsAssumption
<1> QED
    BY <1>1, BoundsAssumption DEF Init, TypeOK, RoomStatuses

LEMMA BookingStepType ==
    ASSUME TypeOK, NEW b \in Bookings, BookingStep(b)
    PROVE  TypeOK'
<1> USE DEF TypeOK, roomVars, bookingVars
<1>1. ASSUME NEW S \in RoomSets, NEW w \in Windows, NEW confirm \in BOOLEAN,
             CreateBooking(b, S, w, confirm)
      PROVE  TypeOK'
    BY <1>1 DEF CreateBooking, InsertBooking, RoomSets, BookingStatuses
<1>2. ASSUME NEW w \in Windows, UpdateBookingDates(b, w) PROVE TypeOK'
    BY <1>2 DEF UpdateBookingDates
<1>3. ASSUME NEW w \in Windows,
             UpdateDatesDropTimes(b, w) \/ UpdateBookingTimes(b, w)
      PROVE  TypeOK'
    BY <1>3 DEF UpdateDatesDropTimes, UpdateBookingTimes
<1>4. ASSUME NEW from \in Rooms, NEW to \in Rooms, ReplaceRoom(b, from, to)
      PROVE  TypeOK'
  <2>1. room' = room
      BY <1>4 DEF ReplaceRoom
  <2>2. current' \in [Bookings -> SUBSET Rooms]
      BY <1>4 DEF ReplaceRoom
  <2>3. past' \in [Bookings -> SUBSET Rooms]
      BY <1>4 DEF ReplaceRoom
  <2> QED
      BY <1>4, <2>1, <2>2, <2>3 DEF ReplaceRoom
<1>5. ASSUME NEW r \in Rooms, AddRoom(b, r) PROVE TypeOK'
    BY <1>5 DEF AddRoom
<1>6. CASE CancelBooking(b)
    BY <1>6 DEF CancelBooking, ReleaseRooms, BookingStatuses
<1>7. CASE MarkNoShow(b)
    BY <1>7 DEF MarkNoShow, ReleaseRooms, BookingStatuses
<1> QED
    BY <1>1, <1>2, <1>3, <1>4, <1>5, <1>6, <1>7 DEF BookingStep

LEMMA StayStepType ==
    ASSUME TypeOK, NEW b \in Bookings, StayStep(b)
    PROVE  TypeOK'
<1> USE DEF TypeOK, roomVars, bookingVars, SetRooms, EnsureTask
<1>1. ASSUME NEW isEarly \in BOOLEAN, NEW w \in Windows, CheckIn(b, isEarly, w)
      PROVE  TypeOK'
    BY <1>1 DEF CheckIn, BookingStatuses, RoomStatuses
<1>2. ASSUME NEW S \in RoomSets, NEW w \in Windows, BookAndCheckIn(b, S, w)
      PROVE  TypeOK'
    BY <1>2 DEF BookAndCheckIn, InsertBooking, RoomSets, BookingStatuses,
                RoomStatuses
<1>3. ASSUME NEW from \in Rooms, NEW to \in Rooms, TransferRoom(b, from, to)
      PROVE  TypeOK'
    BY <1>3 DEF TransferRoom, RoomStatuses
<1>4. ASSUME NEW w \in Windows, CheckOut(b, w) PROVE TypeOK'
    BY <1>4 DEF CheckOut, BookingStatuses, RoomStatuses
<1>5. CASE ReverseCheckout(b)
    BY <1>5 DEF ReverseCheckout, BookingStatuses, RoomStatuses
<1> QED
    BY <1>1, <1>2, <1>3, <1>4, <1>5 DEF StayStep

LEMMA RoomStepType ==
    ASSUME TypeOK, NEW r \in Rooms, RoomStep(r)
    PROVE  TypeOK'
<1> USE DEF TypeOK, roomVars, bookingVars, EnsureTask, RoomStatuses
<1>1. CASE StartTask(r)
    BY <1>1 DEF StartTask
<1>2. CASE CompleteStayoverTask(r)
    BY <1>2 DEF CompleteStayoverTask
<1>3. CASE CompleteCheckoutTask(r)
    BY <1>3 DEF CompleteCheckoutTask
<1>4. CASE OpenMaintenance(r)
    BY <1>4 DEF OpenMaintenance
<1>5. CASE ResolveMaintenance(r)
    BY <1>5 DEF ResolveMaintenance
<1>6. ASSUME NEW s \in ManualStatuses, UpdateRoomStatus(r, s) PROVE TypeOK'
  <2>1. s \in RoomStatuses \ {"reserved"}
      BY <1>6, ManualAssumption DEF UpdateRoomStatus
  <2>2. room' \in [Rooms -> RoomStatuses \ {"reserved"}]
      BY <1>6, <2>1 DEF UpdateRoomStatus
  <2>3. task' \in [Rooms -> {"none", "cleaning_required",
                             "cleaning_in_progress"}]
      BY <1>6 DEF UpdateRoomStatus
  <2>4. maint' \in [Rooms -> Nat]
      BY <1>6 DEF UpdateRoomStatus
  <2> QED
      BY <1>6, <2>2, <2>3, <2>4 DEF UpdateRoomStatus
<1> QED
    BY <1>1, <1>2, <1>3, <1>4, <1>5, <1>6 DEF RoomStep

LEMMA NextType == TypeOK /\ [Next]_vars => TypeOK'
<1> SUFFICES ASSUME TypeOK, [Next]_vars PROVE TypeOK'
    OBVIOUS
<1>1. CASE \E b \in Bookings : BookingStep(b) \/ StayStep(b)
    BY <1>1, BookingStepType, StayStepType
<1>2. CASE \E r \in Rooms : RoomStep(r)
    BY <1>2, RoomStepType
<1>3. CASE ListTasks
    BY <1>3 DEF ListTasks, TypeOK, bookingVars
<1>4. CASE NextDay
    BY <1>4, BoundsAssumption DEF NextDay, TypeOK, bookingVars, roomVars
<1>5. CASE UNCHANGED vars
    BY <1>5 DEF vars, TypeOK, bookingVars, roomVars
<1> QED
    BY <1>1, <1>2, <1>3, <1>4, <1>5 DEF Next

\* Type correctness of the specification: in particular no service ever
\* stores the status "reserved".
THEOREM TypeCorrect == Spec => []TypeOK
BY InitType, NextType, PTL DEF Spec

-----------------------------------------------------------------------------
(* The calendar: double bookings come from unchecked changes only. *)

LEMMA BookingStepCalendar ==
    ASSUME TypeOK, OverlapOnlyUnchecked, NEW b \in Bookings, BookingStep(b)
    PROVE  OverlapOnlyUnchecked'
<1> USE DEF TypeOK, OverlapOnlyUnchecked, Claims, roomVars
<1>1. ASSUME NEW S \in RoomSets, NEW w \in Windows, NEW confirm \in BOOLEAN,
             CreateBooking(b, S, w, confirm)
      PROVE  OverlapOnlyUnchecked'
    BY <1>1, OverlapsSymmetric
    DEF CreateBooking, InsertBooking, RoomSets, NoOverlap, Active
<1>2. ASSUME NEW w \in Windows, UpdateBookingDates(b, w)
      PROVE  OverlapOnlyUnchecked'
    BY <1>2, OverlapsSymmetric DEF UpdateBookingDates, NoOverlap
<1>3. ASSUME NEW w \in Windows,
             UpdateDatesDropTimes(b, w) \/ UpdateBookingTimes(b, w)
      PROVE  OverlapOnlyUnchecked'
    BY <1>3 DEF UpdateDatesDropTimes, UpdateBookingTimes
<1>4. ASSUME NEW from \in Rooms, NEW to \in Rooms, ReplaceRoom(b, from, to)
      PROVE  OverlapOnlyUnchecked'
    BY <1>4, OverlapsSymmetric DEF ReplaceRoom, NewRoomFree, NoOverlap
<1>5. ASSUME NEW r \in Rooms, AddRoom(b, r) PROVE OverlapOnlyUnchecked'
    BY <1>5, OverlapsSymmetric DEF AddRoom, NewRoomFree, NoOverlap
<1>6. CASE CancelBooking(b)
    BY <1>6 DEF CancelBooking, Active
<1>7. CASE MarkNoShow(b)
    BY <1>7 DEF MarkNoShow, Active
<1> QED
    BY <1>1, <1>2, <1>3, <1>4, <1>5, <1>6, <1>7 DEF BookingStep

LEMMA StayStepCalendar ==
    ASSUME TypeOK, OverlapOnlyUnchecked, NEW b \in Bookings, StayStep(b)
    PROVE  OverlapOnlyUnchecked'
<1> USE DEF TypeOK, OverlapOnlyUnchecked, Claims, roomVars
<1>1. ASSUME NEW isEarly \in BOOLEAN, NEW w \in Windows, CheckIn(b, isEarly, w)
      PROVE  OverlapOnlyUnchecked'
  <2>1. CASE w = window[b]
      BY <1>1, <2>1 DEF CheckIn, Active
  <2>2. CASE w # window[b]
      BY <1>1, <2>2 DEF CheckIn, Active
  <2> QED
      BY <2>1, <2>2
<1>2. ASSUME NEW S \in RoomSets, NEW w \in Windows, BookAndCheckIn(b, S, w)
      PROVE  OverlapOnlyUnchecked'
    BY <1>2, OverlapsSymmetric
    DEF BookAndCheckIn, InsertBooking, RoomSets, NoOverlap, Active
<1>3. ASSUME NEW from \in Rooms, NEW to \in Rooms, TransferRoom(b, from, to)
      PROVE  OverlapOnlyUnchecked'
    BY <1>3, OverlapsSymmetric DEF TransferRoom, NewRoomFree, NoOverlap
<1>4. ASSUME NEW w \in Windows, CheckOut(b, w) PROVE OverlapOnlyUnchecked'
    BY <1>4 DEF CheckOut, Active
<1>5. CASE ReverseCheckout(b)
    BY <1>5 DEF ReverseCheckout
<1> QED
    BY <1>1, <1>2, <1>3, <1>4, <1>5 DEF StayStep

LEMMA NextCalendar ==
    TypeOK /\ OverlapOnlyUnchecked /\ [Next]_vars => OverlapOnlyUnchecked'
<1> SUFFICES ASSUME TypeOK, OverlapOnlyUnchecked, [Next]_vars
             PROVE  OverlapOnlyUnchecked'
    OBVIOUS
<1>1. CASE \E b \in Bookings : BookingStep(b) \/ StayStep(b)
    BY <1>1, BookingStepCalendar, StayStepCalendar
<1>2. CASE UNCHANGED bookingVars
    BY <1>2 DEF OverlapOnlyUnchecked, Claims, bookingVars
<1>3. ASSUME NEW r \in Rooms, RoomStep(r) PROVE UNCHANGED bookingVars
    BY <1>3 DEF RoomStep, StartTask, CompleteStayoverTask,
                CompleteCheckoutTask, OpenMaintenance, ResolveMaintenance,
                UpdateRoomStatus
<1> QED
    BY <1>1, <1>2, <1>3 DEF Next, ListTasks, NextDay, vars

\* Double bookings enter the calendar only through the operations that skip
\* _assert_no_overlap: editing times without dates, setting the check-out time
\* at check-in, and reversing a check-out.
THEOREM CalendarSafe == Spec => []OverlapOnlyUnchecked
<1>1. Init => OverlapOnlyUnchecked
    BY DEF Init, OverlapOnlyUnchecked, Claims, Active
<1> QED
    BY <1>1, NextCalendar, TypeCorrect, PTL DEF Spec

-----------------------------------------------------------------------------
(* Rooms, their guests and their cleaning. *)

\* The room invariants, inductive together with the types.
RoomInv ==
    /\ InHouseNotFree
    /\ OccupiedHasGuest
    /\ DirtyHasTask
    /\ MaintenanceHasRecord

LEMMA BookingStepRooms ==
    ASSUME TypeOK, RoomInv, NEW b \in Bookings, BookingStep(b)
    PROVE  RoomInv'
<1>1. UNCHANGED roomVars
  <2> USE DEF roomVars, TypeOK
  <2>1. ASSUME NEW from \in Rooms, NEW to \in Rooms, ReplaceRoom(b, from, to)
        PROVE  UNCHANGED roomVars
      BY <2>1 DEF ReplaceRoom
  <2>2. CASE CancelBooking(b)
      BY <2>2 DEF CancelBooking, ReleaseRooms
  <2>3. CASE MarkNoShow(b)
      BY <2>3 DEF MarkNoShow, ReleaseRooms
  <2> QED
      BY <2>1, <2>2, <2>3 DEF BookingStep, CreateBooking, UpdateBookingDates,
                              UpdateBookingTimes, UpdateDatesDropTimes,
                              AddRoom
<1>2. \A r \in Rooms : InHouse(r)' <=> InHouse(r)
  <2> USE DEF TypeOK, InHouse
  <2>1. ASSUME NEW S \in RoomSets, NEW w \in Windows, NEW confirm \in BOOLEAN,
               CreateBooking(b, S, w, confirm)
        PROVE  \A r \in Rooms : InHouse(r)' <=> InHouse(r)
      BY <2>1 DEF CreateBooking, InsertBooking
  <2>2. ASSUME NEW from \in Rooms, NEW to \in Rooms, ReplaceRoom(b, from, to)
        PROVE  \A r \in Rooms : InHouse(r)' <=> InHouse(r)
      BY <2>2 DEF ReplaceRoom
  <2>3. ASSUME NEW q \in Rooms, AddRoom(b, q)
        PROVE  \A r \in Rooms : InHouse(r)' <=> InHouse(r)
      BY <2>3 DEF AddRoom
  <2>4. CASE CancelBooking(b) \/ MarkNoShow(b)
      BY <2>4 DEF CancelBooking, MarkNoShow
  <2>5. ASSUME NEW w \in Windows,
               \/ UpdateBookingDates(b, w) \/ UpdateBookingTimes(b, w)
             \/ UpdateDatesDropTimes(b, w)
        PROVE  \A r \in Rooms : InHouse(r)' <=> InHouse(r)
      BY <2>5 DEF UpdateBookingDates, UpdateBookingTimes, UpdateDatesDropTimes
  <2> QED
      BY <2>1, <2>2, <2>3, <2>4, <2>5 DEF BookingStep
<1> QED
    BY <1>1, <1>2 DEF RoomInv, InHouseNotFree, OccupiedHasGuest, DirtyHasTask,
                      MaintenanceHasRecord, roomVars

LEMMA StayStepRooms ==
    ASSUME TypeOK, RoomInv, NEW b \in Bookings, StayStep(b)
    PROVE  RoomInv'
<1> USE DEF TypeOK, RoomInv, InHouseNotFree, OccupiedHasGuest, DirtyHasTask,
            MaintenanceHasRecord, InHouse, Freeing, SetRooms, EnsureTask
<1>1. ASSUME NEW isEarly \in BOOLEAN, NEW w \in Windows, CheckIn(b, isEarly, w)
      PROVE  RoomInv'
    BY <1>1 DEF CheckIn
<1>2. ASSUME NEW S \in RoomSets, NEW w \in Windows, BookAndCheckIn(b, S, w)
      PROVE  RoomInv'
    BY <1>2 DEF BookAndCheckIn, InsertBooking, RoomSets
<1>3. ASSUME NEW from \in Rooms, NEW to \in Rooms, TransferRoom(b, from, to)
      PROVE  RoomInv'
    BY <1>3 DEF TransferRoom
<1>4. ASSUME NEW w \in Windows, CheckOut(b, w) PROVE RoomInv'
    BY <1>4 DEF CheckOut
<1>5. CASE ReverseCheckout(b)
    BY <1>5 DEF ReverseCheckout
<1> QED
    BY <1>1, <1>2, <1>3, <1>4, <1>5 DEF StayStep

LEMMA RoomStepRooms ==
    ASSUME TypeOK, RoomInv, NEW r \in Rooms, RoomStep(r)
    PROVE  RoomInv'
<1> USE DEF TypeOK, RoomInv, InHouseNotFree, OccupiedHasGuest, DirtyHasTask,
            MaintenanceHasRecord, InHouse, Freeing, EnsureTask, bookingVars
<1>1. CASE StartTask(r)
    BY <1>1 DEF StartTask
<1>2. CASE CompleteStayoverTask(r)
    BY <1>2 DEF CompleteStayoverTask
<1>3. CASE CompleteCheckoutTask(r)
    BY <1>3 DEF CompleteCheckoutTask
<1>4. CASE OpenMaintenance(r)
    BY <1>4 DEF OpenMaintenance
<1>5. CASE ResolveMaintenance(r)
    BY <1>5 DEF ResolveMaintenance
<1>6. ASSUME NEW s \in ManualStatuses, UpdateRoomStatus(r, s) PROVE RoomInv'
  <2>1. InHouseNotFree' /\ OccupiedHasGuest'
      BY <1>6 DEF UpdateRoomStatus
  <2>2. DirtyHasTask'
      BY <1>6, StartCleaning DEF UpdateRoomStatus
  <2>3. MaintenanceHasRecord'
      BY <1>6 DEF UpdateRoomStatus
  <2> QED
      BY <2>1, <2>2, <2>3
<1> QED
    BY <1>1, <1>2, <1>3, <1>4, <1>5, <1>6 DEF RoomStep

LEMMA NextRooms == TypeOK /\ RoomInv /\ [Next]_vars => RoomInv'
<1> SUFFICES ASSUME TypeOK, RoomInv, [Next]_vars PROVE RoomInv'
    OBVIOUS
<1>1. CASE \E b \in Bookings : BookingStep(b) \/ StayStep(b)
    BY <1>1, BookingStepRooms, StayStepRooms
<1>2. CASE \E r \in Rooms : RoomStep(r)
    BY <1>2, RoomStepRooms
<1> USE DEF RoomInv, InHouseNotFree, OccupiedHasGuest, DirtyHasTask,
            MaintenanceHasRecord, InHouse, bookingVars, roomVars
<1>3. CASE ListTasks
    BY <1>3 DEF ListTasks, TaskStale, TypeOK
<1>4. CASE NextDay
    BY <1>4 DEF NextDay
<1>5. CASE UNCHANGED vars
    BY <1>5 DEF vars
<1> QED
    BY <1>1, <1>2, <1>3, <1>4, <1>5 DEF Next

LEMMA RoomsSafe == Spec => []RoomInv
<1>1. Init => RoomInv
    BY DEF Init, RoomInv, InHouseNotFree, OccupiedHasGuest, DirtyHasTask,
           MaintenanceHasRecord, InHouse
<1> QED
    BY <1>1, NextRooms, TypeCorrect, PTL DEF Spec

\* A room with a guest never becomes available or clean & ready.
THEOREM GuestKeepsRoom == Spec => []InHouseNotFree
<1>1. RoomInv => InHouseNotFree
    BY DEF RoomInv
<1> QED
    BY <1>1, RoomsSafe, PTL

\* A room is occupied only by a checked-in booking.
THEOREM OccupiedByGuest == Spec => []OccupiedHasGuest
<1>1. RoomInv => OccupiedHasGuest
    BY DEF RoomInv
<1> QED
    BY <1>1, RoomsSafe, PTL

\* Dirty rooms are always on the housekeeping board.
THEOREM DirtyOnBoard == Spec => []DirtyHasTask
<1>1. RoomInv => DirtyHasTask
    BY DEF RoomInv
<1> QED
    BY <1>1, RoomsSafe, PTL

\* A room under maintenance always has a record to resolve.
THEOREM MaintenanceOnBoard == Spec => []MaintenanceHasRecord
<1>1. RoomInv => MaintenanceHasRecord
    BY DEF RoomInv
<1> QED
    BY <1>1, RoomsSafe, PTL

\* Whom a step may move out of a room: the shared part of the two theorems
\* that follow.
LEMMA StepsOfRooms ==
    ASSUME TypeOK, NEW b \in Bookings, BookingStep(b)
    PROVE  UNCHANGED room /\ \A r \in Rooms : InHouse(r) => InHouse(r)'
<1> USE DEF TypeOK, InHouse, roomVars
<1>1. ASSUME NEW S \in RoomSets, NEW w \in Windows, NEW confirm \in BOOLEAN,
             CreateBooking(b, S, w, confirm)
      PROVE  UNCHANGED room /\ \A r \in Rooms : InHouse(r) => InHouse(r)'
    BY <1>1 DEF CreateBooking, InsertBooking
<1>2. ASSUME NEW from \in Rooms, NEW to \in Rooms, ReplaceRoom(b, from, to)
      PROVE  UNCHANGED room /\ \A r \in Rooms : InHouse(r) => InHouse(r)'
    BY <1>2 DEF ReplaceRoom
<1>3. ASSUME NEW q \in Rooms, AddRoom(b, q)
      PROVE  UNCHANGED room /\ \A r \in Rooms : InHouse(r) => InHouse(r)'
    BY <1>3 DEF AddRoom
<1>4. CASE CancelBooking(b) \/ MarkNoShow(b)
    BY <1>4 DEF CancelBooking, MarkNoShow, ReleaseRooms
<1>5. ASSUME NEW w \in Windows,
             \/ UpdateBookingDates(b, w) \/ UpdateBookingTimes(b, w)
             \/ UpdateDatesDropTimes(b, w)
      PROVE  UNCHANGED room /\ \A r \in Rooms : InHouse(r) => InHouse(r)'
    BY <1>5 DEF UpdateBookingDates, UpdateBookingTimes, UpdateDatesDropTimes
<1> QED
    BY <1>1, <1>2, <1>3, <1>4, <1>5 DEF BookingStep

LEMMA RoomStepLegal ==
    ASSUME TypeOK, NEW r \in Rooms, RoomStep(r)
    PROVE  \A q \in Rooms : CanTransition(room[q], room'[q])
<1> USE DEF TypeOK, CanTransition, TRANSITIONS
<1>1. CASE StartTask(r)
    BY <1>1 DEF StartTask
<1>2. CASE CompleteStayoverTask(r)
    BY <1>2 DEF CompleteStayoverTask
<1>3. CASE CompleteCheckoutTask(r)
    BY <1>3 DEF CompleteCheckoutTask
<1>4. CASE OpenMaintenance(r)
    BY <1>4 DEF OpenMaintenance
<1>5. CASE ResolveMaintenance(r)
    BY <1>5 DEF ResolveMaintenance
<1>6. ASSUME NEW s \in ManualStatuses, UpdateRoomStatus(r, s)
      PROVE  \A q \in Rooms : CanTransition(room[q], room'[q])
    BY <1>6 DEF UpdateRoomStatus
<1> QED
    BY <1>1, <1>2, <1>3, <1>4, <1>5, <1>6 DEF RoomStep

LEMMA StayStepLegal ==
    ASSUME TypeOK, NEW b \in Bookings, StayStep(b)
    PROVE  \A q \in Rooms : CanTransition(room[q], room'[q])
<1> USE DEF TypeOK, CanTransition, SetRooms
<1>1. ASSUME NEW isEarly \in BOOLEAN, NEW w \in Windows, CheckIn(b, isEarly, w)
      PROVE  \A q \in Rooms : CanTransition(room[q], room'[q])
    BY <1>1 DEF CheckIn
<1>2. ASSUME NEW S \in RoomSets, NEW w \in Windows, BookAndCheckIn(b, S, w)
      PROVE  \A q \in Rooms : CanTransition(room[q], room'[q])
    BY <1>2 DEF BookAndCheckIn
<1>3. ASSUME NEW from \in Rooms, NEW to \in Rooms, TransferRoom(b, from, to)
      PROVE  \A q \in Rooms : CanTransition(room[q], room'[q])
    BY <1>3 DEF TransferRoom
<1>4. ASSUME NEW w \in Windows, CheckOut(b, w)
      PROVE  \A q \in Rooms : CanTransition(room[q], room'[q])
    BY <1>4 DEF CheckOut, TRANSITIONS
<1>5. CASE ReverseCheckout(b)
    BY <1>5 DEF ReverseCheckout, Reclaimable, TRANSITIONS
<1> QED
    BY <1>1, <1>2, <1>3, <1>4, <1>5 DEF StayStep

\* No step of any service takes a room through a change of status that the
\* table TRANSITIONS does not have, reverse_checkout and complete_task, which
\* assign it themselves, included.
THEOREM StepsLegal == Spec => RoomStepsLegal
<1>1. TypeOK /\ [Next]_vars
      => [\A r \in Rooms : CanTransition(room[r], room'[r])]_vars
  <2> SUFFICES ASSUME TypeOK, Next
               PROVE  \A r \in Rooms : CanTransition(room[r], room'[r])
      OBVIOUS
  <2>1. CASE \E b \in Bookings : BookingStep(b)
      BY <2>1, StepsOfRooms DEF CanTransition
  <2>2. CASE \E b \in Bookings : StayStep(b)
      BY <2>2, StayStepLegal
  <2>3. CASE \E r \in Rooms : RoomStep(r)
      BY <2>3, RoomStepLegal
  <2>4. CASE ListTasks \/ NextDay
      BY <2>4 DEF ListTasks, NextDay, roomVars, CanTransition
  <2> QED
      BY <2>1, <2>2, <2>3, <2>4 DEF Next
<1> QED
    BY <1>1, TypeCorrect, PTL DEF Spec, RoomStepsLegal

LEMMA StayStepVacates ==
    ASSUME TypeOK, NEW b \in Bookings, StayStep(b),
           NEW r \in Rooms, InHouse(r), ~InHouse(r)'
    PROVE  /\ room'[r] \in {"cleaning_required", "cleaning_in_progress"}
           /\ task'[r] # "none"
<1> DEFINE Queued == /\ room'[r] \in {"cleaning_required",
                                      "cleaning_in_progress"}
                     /\ task'[r] # "none"
<1> USE DEF TypeOK, InHouse
<1>1. ASSUME NEW isEarly \in BOOLEAN, NEW w \in Windows, CheckIn(b, isEarly, w)
      PROVE  FALSE
    BY <1>1 DEF CheckIn
<1>2. ASSUME NEW S \in RoomSets, NEW w \in Windows, BookAndCheckIn(b, S, w)
      PROVE  FALSE
    BY <1>2 DEF BookAndCheckIn, InsertBooking
<1>3. ASSUME NEW from \in Rooms, NEW to \in Rooms, TransferRoom(b, from, to)
      PROVE  Queued
  <2>1. r = from
      BY <1>3 DEF TransferRoom
  <2> QED
      BY <1>3, <2>1 DEF TransferRoom, EnsureTask
<1>4. ASSUME NEW w \in Windows, CheckOut(b, w) PROVE Queued
  <2>1. r \in current[b]
      BY <1>4 DEF CheckOut
  <2> QED
      BY <1>4, <2>1 DEF CheckOut, EnsureTask, InStay
<1>5. CASE ReverseCheckout(b)
    BY <1>5 DEF ReverseCheckout
<1> QED
    BY <1>1, <1>2, <1>3, <1>4, <1>5 DEF StayStep

\* Whoever leaves a room, by check-out or transfer, leaves it queued for
\* cleaning.
THEOREM VacatedIsQueued == Spec => VacatedRoomQueued
<1> DEFINE Queued(r) ==
               /\ room'[r] \in {"cleaning_required", "cleaning_in_progress"}
               /\ task'[r] # "none"
<1>1. TypeOK /\ [Next]_vars
      => [\A r \in Rooms : InHouse(r) /\ ~InHouse(r)' => Queued(r)]_vars
  <2> SUFFICES ASSUME TypeOK, Next, NEW r \in Rooms, InHouse(r), ~InHouse(r)'
               PROVE  Queued(r)
      OBVIOUS
  <2>1. CASE \E b \in Bookings : BookingStep(b)
      BY <2>1, StepsOfRooms
  <2>2. CASE \E b \in Bookings : StayStep(b)
      BY <2>2, StayStepVacates
  <2>3. CASE UNCHANGED bookingVars
      BY <2>3 DEF InHouse, bookingVars
  <2>4. ASSUME NEW q \in Rooms, RoomStep(q) PROVE UNCHANGED bookingVars
      BY <2>4 DEF RoomStep, StartTask, CompleteStayoverTask,
                  CompleteCheckoutTask, OpenMaintenance, ResolveMaintenance,
                  UpdateRoomStatus
  <2> QED
      BY <2>1, <2>2, <2>3, <2>4 DEF Next, ListTasks, NextDay
<1> QED
    BY <1>1, TypeCorrect, PTL DEF Spec, VacatedRoomQueued

\* A booking not yet created has left no room: with this, BookingHoldsRoom is
\* preserved by the creation of a booking too.
HoldInv ==
    /\ BookingHoldsRoom
    /\ \A b \in Bookings : status[b] = "none" => past[b] = {}

LEMMA InsertHolds ==
    ASSUME TypeOK, HoldInv, NEW b \in Bookings, NEW S \in RoomSets,
           NEW w \in Windows, NEW st \in BookingStatuses,
           InsertBooking(b, S, w, st)
    PROVE  HoldInv'
<1>1. status[b] = "none" /\ past[b] = {} /\ S # {} /\ st # "none"
    BY DEF InsertBooking, HoldInv, RoomSets, BookingStatuses
<1>2. /\ status' = [status EXCEPT ![b] = st]
      /\ current' = [current EXCEPT ![b] = S]
      /\ past' = past
    BY DEF InsertBooking
<1>3. ASSUME NEW c \in Bookings
      PROVE  /\ status'[c] # "none" =>
                  current'[c] # {} /\ current'[c] \cap past'[c] = {}
             /\ status'[c] = "none" => past'[c] = {}
  <2>1. CASE c = b
      BY <1>1, <1>2, <2>1 DEF TypeOK, RoomSets
  <2>2. CASE c # b
      BY <1>2, <2>2 DEF TypeOK, HoldInv, BookingHoldsRoom
  <2> QED
      BY <2>1, <2>2
<1> QED
    BY <1>3 DEF HoldInv, BookingHoldsRoom

LEMMA BookingStepHolds ==
    ASSUME TypeOK, HoldInv, NEW b \in Bookings, BookingStep(b)
    PROVE  HoldInv'
<1> USE DEF TypeOK, HoldInv, BookingHoldsRoom
<1>1. ASSUME NEW S \in RoomSets, NEW w \in Windows, NEW confirm \in BOOLEAN,
             CreateBooking(b, S, w, confirm)
      PROVE  HoldInv'
    BY <1>1, InsertHolds DEF CreateBooking, BookingStatuses
<1>2. ASSUME NEW w \in Windows,
             \/ UpdateBookingDates(b, w) \/ UpdateBookingTimes(b, w)
             \/ UpdateDatesDropTimes(b, w)
      PROVE  HoldInv'
    BY <1>2 DEF UpdateBookingDates, UpdateBookingTimes, UpdateDatesDropTimes
<1>3. ASSUME NEW from \in Rooms, NEW to \in Rooms, ReplaceRoom(b, from, to)
      PROVE  HoldInv'
    BY <1>3 DEF ReplaceRoom, NewRoomFree
<1>4. ASSUME NEW r \in Rooms, AddRoom(b, r) PROVE HoldInv'
    BY <1>4 DEF AddRoom, NewRoomFree
<1>5. ASSUME CancelBooking(b) \/ MarkNoShow(b) PROVE HoldInv'
    BY <1>5 DEF CancelBooking, MarkNoShow
<1> QED
    BY <1>1, <1>2, <1>3, <1>4, <1>5 DEF BookingStep

LEMMA StayStepHolds ==
    ASSUME TypeOK, HoldInv, NEW b \in Bookings, StayStep(b)
    PROVE  HoldInv'
<1> USE DEF TypeOK, HoldInv, BookingHoldsRoom
<1>1. ASSUME NEW isEarly \in BOOLEAN, NEW w \in Windows, CheckIn(b, isEarly, w)
      PROVE  HoldInv'
    BY <1>1 DEF CheckIn
<1>2. ASSUME NEW S \in RoomSets, NEW w \in Windows, BookAndCheckIn(b, S, w)
      PROVE  HoldInv'
    BY <1>2, InsertHolds DEF BookAndCheckIn, BookingStatuses
<1>3. ASSUME NEW from \in Rooms, NEW to \in Rooms, TransferRoom(b, from, to)
      PROVE  HoldInv'
    BY <1>3 DEF TransferRoom, NewRoomFree
<1>4. ASSUME NEW w \in Windows, CheckOut(b, w) PROVE HoldInv'
    BY <1>4 DEF CheckOut
<1>5. ASSUME ReverseCheckout(b) PROVE HoldInv'
    BY <1>5 DEF ReverseCheckout
<1> QED
    BY <1>1, <1>2, <1>3, <1>4, <1>5 DEF StayStep

\* No change of rooms leaves a booking without a room or gives it back a room
\* it was moved away from.
THEOREM BookingsHoldRooms == Spec => []BookingHoldsRoom
<1>1. Init => HoldInv
    BY DEF Init, HoldInv, BookingHoldsRoom
<1>2. TypeOK /\ HoldInv /\ [Next]_vars => HoldInv'
  <2> SUFFICES ASSUME TypeOK, HoldInv, Next \/ UNCHANGED vars
               PROVE  HoldInv'
      OBVIOUS
  <2>1. ASSUME UNCHANGED bookingVars PROVE HoldInv'
      BY <2>1 DEF bookingVars, HoldInv, BookingHoldsRoom
  <2>2. ASSUME NEW r \in Rooms, RoomStep(r) PROVE UNCHANGED bookingVars
      BY <2>2 DEF RoomStep, StartTask, CompleteStayoverTask,
                  CompleteCheckoutTask, OpenMaintenance, ResolveMaintenance,
                  UpdateRoomStatus
  <2>3. UNCHANGED vars \/ ListTasks \/ NextDay => UNCHANGED bookingVars
      BY DEF vars, ListTasks, NextDay
  <2> QED
      BY <2>1, <2>2, <2>3, BookingStepHolds, StayStepHolds DEF Next
<1>3. HoldInv => BookingHoldsRoom
    BY DEF HoldInv
<1> QED
    BY <1>1, <1>2, <1>3, TypeCorrect, PTL DEF Spec

-----------------------------------------------------------------------------
(* The services of Stays implement RoomCalendar *)

\* What _assert_no_overlap has found is what the calendar asks of a claim.
LEMMA NoOverlapIsFree ==
    ASSUME TypeOK, NEW b \in Bookings, NEW R \in SUBSET Rooms,
           NEW w \in Windows, NoOverlap(b, R, w)
    PROVE  Calendar!Free(b, R \X {w})
<1> SUFFICES ASSUME NEW c \in Bookings \ {b}, NEW p \in R \X {w},
                    NEW q \in claim[c]
             PROVE  ~Calendar!Collides(q, p)
    BY DEF Calendar!Free
<1>1. p[1] \in R /\ p[2] = w
    OBVIOUS
<1>2. status[c] \in Active /\ q[1] \in current[c] /\ q[2] = window[c]
    BY DEF claim
<1> QED
    BY <1>1, <1>2 DEF NoOverlap, Claims, Calendar!Collides

LEMMA InitImplements == Init => Calendar!Init
    BY DEF Init, Calendar!Init, claim, Active

\* A change of the rows of one booking changes the claims of that one only.
LEMMA ClaimOfOne ==
    ASSUME TypeOK, NEW b \in Bookings,
           NEW st \in BookingStatuses, NEW w \in Windows, NEW R \in SUBSET Rooms,
           status' = [status EXCEPT ![b] = st],
           window' = [window EXCEPT ![b] = w],
           current' = [current EXCEPT ![b] = R]
    PROVE  claim' = [claim EXCEPT ![b] = IF st \in Active THEN R \X {w} ELSE {}]
    BY DEF claim, TypeOK

\* A set of claims of which all that are new are free is a reservation.
LEMMA IsReservation ==
    ASSUME TypeOK, NEW b \in Bookings, NEW R \in SUBSET Rooms,
           NEW w \in Windows,
           Calendar!Free(b, (R \X {w}) \ claim[b]),
           claim' = [claim EXCEPT ![b] = R \X {w}],
           unchecked' = unchecked
    PROVE  Calendar!Next
    BY DEF Calendar!Next, Calendar!Reserve

\* Claims given up collide with nothing.
LEMMA IsRelease ==
    ASSUME TypeOK, NEW b \in Bookings,
           claim' = [claim EXCEPT ![b] = {}],
           unchecked' = unchecked
    PROVE  Calendar!Next
<1>1. PICK w \in Windows : TRUE
    BY WindowsAssumption
<1>2. {} \X {w} = {} /\ Calendar!Free(b, ({} \X {w}) \ claim[b])
    BY DEF Calendar!Free
<1> QED
    BY <1>1, <1>2, IsReservation

LEMMA IsOverride ==
    ASSUME TypeOK, NEW b \in Bookings, NEW R \in SUBSET Rooms,
           NEW w \in Windows,
           claim' = [claim EXCEPT ![b] = R \X {w}],
           unchecked' = unchecked \union {b}
    PROVE  Calendar!Next
    BY DEF Calendar!Next, Calendar!Override

\* An active booking that takes one more room, which is free for its window,
\* reserves it.
LEMMA IsRoomChange ==
    ASSUME TypeOK, NEW b \in Bookings, status[b] \in Active,
           NEW r \in Rooms, NoOverlap(b, {r}, window[b]),
           NEW R \in SUBSET Rooms, R \subseteq current[b] \union {r},
           status' = status, window' = window, unchecked' = unchecked,
           current' = [current EXCEPT ![b] = R]
    PROVE  Calendar!Next
<1>1. claim' = [claim EXCEPT ![b] = R \X {window[b]}]
    BY DEF claim, TypeOK
<1>2. claim[b] = current[b] \X {window[b]}
    BY DEF claim
<1>3. Calendar!Free(b, {r} \X {window[b]})
    BY NoOverlapIsFree DEF TypeOK
<1>4. (R \X {window[b]}) \ claim[b] \subseteq {r} \X {window[b]}
    BY <1>2
<1>5. Calendar!Free(b, (R \X {window[b]}) \ claim[b])
    BY <1>3, <1>4 DEF Calendar!Free
<1> QED
    BY <1>1, <1>5, IsReservation DEF TypeOK

LEMMA InsertImplements ==
    ASSUME TypeOK, NEW b \in Bookings, NEW S \in SUBSET Rooms,
           NEW w \in Windows, NEW st \in Active, InsertBooking(b, S, w, st)
    PROVE  Calendar!Next
<1>1. claim' = [claim EXCEPT ![b] = S \X {w}]
    BY DEF InsertBooking, claim, TypeOK, Active
<1>2. Calendar!Free(b, S \X {w})
    BY NoOverlapIsFree DEF InsertBooking
<1>3. Calendar!Free(b, (S \X {w}) \ claim[b])
    BY <1>2 DEF Calendar!Free
<1> QED
    BY <1>1, <1>3, IsReservation DEF InsertBooking

LEMMA BookingStepImplements ==
    ASSUME TypeOK, NEW b \in Bookings, BookingStep(b)
    PROVE  Calendar!Next
<1>1. ASSUME NEW S \in RoomSets, NEW w \in Windows, NEW confirm \in BOOLEAN,
             CreateBooking(b, S, w, confirm)
      PROVE  Calendar!Next
    BY <1>1, InsertImplements DEF CreateBooking, RoomSets, Active
<1>2. ASSUME NEW w \in Windows, UpdateBookingDates(b, w)
      PROVE  Calendar!Next
  <2>1. claim' = [claim EXCEPT ![b] = current[b] \X {w}]
      BY <1>2 DEF UpdateBookingDates, Editable, claim, TypeOK
  <2>2. current[b] \in SUBSET Rooms
      BY DEF TypeOK
  <2>3. Calendar!Free(b, current[b] \X {w})
      BY <1>2, <2>2, NoOverlapIsFree DEF UpdateBookingDates
  <2>4. Calendar!Free(b, (current[b] \X {w}) \ claim[b])
      BY <2>3 DEF Calendar!Free
  <2> QED
      BY <1>2, <2>1, <2>2, <2>3, <2>4
      DEF UpdateBookingDates, Calendar!Next, Calendar!Reserve
<1>3. ASSUME NEW w \in Windows,
             UpdateDatesDropTimes(b, w) \/ UpdateBookingTimes(b, w)
      PROVE  Calendar!Next
  <2>1. claim' = [claim EXCEPT ![b] = current[b] \X {w}]
      BY <1>3 DEF UpdateDatesDropTimes, UpdateBookingTimes, Editable, claim, TypeOK
  <2> QED
      BY <1>3, <2>1, IsOverride DEF UpdateDatesDropTimes, UpdateBookingTimes, TypeOK
<1>4. ASSUME NEW from \in Rooms, NEW to \in Rooms, ReplaceRoom(b, from, to)
      PROVE  Calendar!Next
  <2> DEFINE R == (current[b] \ {from}) \union {to}
  <2>1. /\ R \in SUBSET Rooms /\ R \subseteq current[b] \union {to}
        /\ current' = [current EXCEPT ![b] = R]
      BY <1>4 DEF ReplaceRoom, TypeOK
  <2> QED
      BY <1>4, <2>1, IsRoomChange DEF ReplaceRoom, NewRoomFree, Active
<1>5. ASSUME NEW r \in Rooms, AddRoom(b, r) PROVE Calendar!Next
  <2> DEFINE R == current[b] \union {r}
  <2>1. /\ R \in SUBSET Rooms /\ R \subseteq current[b] \union {r}
        /\ current' = [current EXCEPT ![b] = R]
      BY <1>5 DEF AddRoom, TypeOK
  <2> QED
      BY <1>5, <2>1, IsRoomChange DEF AddRoom, NewRoomFree, Active
<1>6. ASSUME CancelBooking(b) \/ MarkNoShow(b) PROVE Calendar!Next
  <2>1. claim' = [claim EXCEPT ![b] = {}]
      BY <1>6 DEF CancelBooking, MarkNoShow, claim, Active, TypeOK
  <2> QED
      BY <1>6, <2>1, IsRelease DEF CancelBooking, MarkNoShow
<1> QED
    BY <1>1, <1>2, <1>3, <1>4, <1>5, <1>6 DEF BookingStep

LEMMA StayStepImplements ==
    ASSUME TypeOK, NEW b \in Bookings, StayStep(b)
    PROVE  Calendar!Next \/ UNCHANGED Calendar!vars
<1>1. ASSUME NEW isEarly \in BOOLEAN, NEW w \in Windows, CheckIn(b, isEarly, w)
      PROVE  Calendar!Next \/ UNCHANGED Calendar!vars
  <2>1. claim' = [claim EXCEPT ![b] = current[b] \X {w}]
      BY <1>1 DEF CheckIn, claim, Active, TypeOK
  <2>2. CASE w = window[b]
    <3>1. claim[b] = current[b] \X {w}
        BY <1>1, <2>2 DEF CheckIn, claim, Active
    <3>2. claim' = claim
        BY <2>1, <3>1 DEF claim
    <3> QED
        BY <1>1, <2>2, <3>2 DEF CheckIn, Calendar!vars
  <2>3. CASE w # window[b]
      BY <1>1, <2>1, <2>3, IsOverride DEF CheckIn, TypeOK
  <2> QED
      BY <2>2, <2>3
<1>2. ASSUME NEW S \in RoomSets, NEW w \in Windows, BookAndCheckIn(b, S, w)
      PROVE  Calendar!Next
    BY <1>2, InsertImplements DEF BookAndCheckIn, RoomSets, Active
<1>3. ASSUME NEW from \in Rooms, NEW to \in Rooms, TransferRoom(b, from, to)
      PROVE  Calendar!Next
  <2> DEFINE R == (current[b] \ {from}) \union {to}
  <2>1. /\ R \in SUBSET Rooms /\ R \subseteq current[b] \union {to}
        /\ current' = [current EXCEPT ![b] = R]
      BY <1>3 DEF TransferRoom, TypeOK
  <2> QED
      BY <1>3, <2>1, IsRoomChange DEF TransferRoom, NewRoomFree, Active
<1>4. ASSUME NEW w \in Windows, CheckOut(b, w) PROVE Calendar!Next
  <2>1. claim' = [claim EXCEPT ![b] = {}]
      BY <1>4 DEF CheckOut, claim, Active, TypeOK
  <2> QED
      BY <1>4, <2>1, IsRelease DEF CheckOut
<1>5. ASSUME ReverseCheckout(b) PROVE Calendar!Next
  <2>1. claim' = [claim EXCEPT ![b] = current[b] \X {window[b]}]
      BY <1>5 DEF ReverseCheckout, claim, Active, TypeOK
  <2> QED
      BY <1>5, <2>1, IsOverride DEF ReverseCheckout, TypeOK
<1> QED
    BY <1>1, <1>2, <1>3, <1>4, <1>5 DEF StayStep

\* The services of bookings.py and stay.py implement the room calendar: a
\* claim is entered unchecked only where the calendar counts an override.
THEOREM ImplementsCalendar == Spec => CalendarSpec
<1>1. Init => Calendar!Init
    BY InitImplements
<1>2. TypeOK /\ [Next]_vars => [Calendar!Next]_(Calendar!vars)
  <2> SUFFICES ASSUME TypeOK, Next \/ UNCHANGED vars
               PROVE  Calendar!Next \/ UNCHANGED Calendar!vars
      OBVIOUS
  <2>1. UNCHANGED bookingVars => UNCHANGED Calendar!vars
      BY DEF bookingVars, Calendar!vars, claim
  <2>2. ASSUME NEW r \in Rooms, RoomStep(r) PROVE UNCHANGED bookingVars
      BY <2>2 DEF RoomStep, StartTask, CompleteStayoverTask,
                  CompleteCheckoutTask, OpenMaintenance, ResolveMaintenance,
                  UpdateRoomStatus
  <2>3. UNCHANGED vars \/ ListTasks \/ NextDay => UNCHANGED bookingVars
      BY DEF vars, ListTasks, NextDay
  <2> QED
      BY <2>1, <2>2, <2>3, BookingStepImplements, StayStepImplements DEF Next
<1> QED
    BY <1>1, <1>2, TypeCorrect, PTL DEF Spec, CalendarSpec, Calendar!Spec

\* So the calendar's promise holds of the claims of the bookings.
THEOREM CalendarPromise == Spec => []Calendar!CollisionsOverridden
<1>1. TypeOK /\ OverlapOnlyUnchecked => Calendar!CollisionsOverridden
  <2> SUFFICES ASSUME TypeOK, OverlapOnlyUnchecked,
                      NEW b \in Bookings, NEW c \in Bookings, b # c,
                      NEW p \in claim[b], NEW q \in claim[c],
                      Calendar!Collides(p, q)
               PROVE  b \in unchecked \/ c \in unchecked
      BY DEF Calendar!CollisionsOverridden
  <2>1. /\ status[b] \in Active /\ p[1] \in current[b] /\ p[2] = window[b]
        /\ status[c] \in Active /\ q[1] \in current[c] /\ q[2] = window[c]
      BY DEF claim
  <2>2. p[1] \in Rooms /\ p[1] = q[1]
      BY <2>1 DEF TypeOK, Calendar!Collides
  <2> QED
      BY <2>1, <2>2 DEF OverlapOnlyUnchecked, Claims, Calendar!Collides
<1> QED
    BY <1>1, TypeCorrect, CalendarSafe, PTL
=============================================================================
