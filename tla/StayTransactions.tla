-------------------------- MODULE StayTransactions --------------------------
(***************************************************************************)
(* The booking and stay services as concurrent database transactions.      *)
(*                                                                         *)
(* Every request runs in one READ COMMITTED transaction: it reads its      *)
(* booking without a lock (get_booking), takes row locks on rooms one by   *)
(* one (SELECT ... FOR UPDATE), checks the calendar and the rooms as they  *)
(* then are, takes the lock on the booking's row when it flushes the       *)
(* UPDATE, and commits the columns it has assigned.  The steps of several  *)
(* requests interleave.  "confirmed" stands for "pending" too: no kind of  *)
(* request modelled here tells them apart.  Times edited without dates     *)
(* and dates edited at check-in and check-out are in module Stays.         *)
(***************************************************************************)
EXTENDS Integers, FiniteSets, BookingRules, RoomStatus

CONSTANTS
    Rooms,      \* the rows of rooms, numbers: their ids have an order
    Bookings,   \* identifiers of bookings, created at most once each
    Windows,    \* the stay windows clients ask for
    Requests,   \* the connections of the pool: one request at a time each
    Kinds,      \* the services that are called
    Today,      \* hotel_today
    NoBooking   \* what a request that concerns no booking has for one

ASSUME RoomsAssumption == Rooms \subseteq Nat
ASSUME WindowsAssumption ==
    /\ Windows \subseteq [inDay: Nat, inTime: Nat, outDay: Nat, outTime: Nat]
    /\ Windows # {}
ASSUME RowsAssumption ==
    Rooms \cap Bookings = {} /\ NoBooking \notin Bookings \union Rooms

VARIABLES
    \* committed state of the database
    status, window, current, past, room,    \* as in Stays
    checkins,   \* bookings with a row in checkins (booking_id is unique)
    \* the requests
    phase,      \* phase[p]: "idle", "locking" rooms or "checked"
    job,        \* job[p]: what request p was asked and what it has read
    want,       \* want[p]: rows that p has yet to lock before its checks
    held        \* held[p]: rows that p has locked

dbVars == <<status, window, current, past, room, checkins>>
requestVars == <<phase, job, want, held>>
vars == <<dbVars, requestVars>>

AllKinds ==
    {"create", "walk_in", "update_dates", "replace", "add", "cancel",
     "check_in", "transfer", "check_out", "bill_out", "reverse", "set_available"}

ASSUME KindsAssumption == Kinds \subseteq AllKinds

\* The booking b of a request, the rooms it locks, those whose calendar it
\* checks for the window w, and the rows of booking_rooms it inserts and ends.
Job(kind, b, rooms, checked, added, gone, w) ==
    [kind |-> kind, b |-> b, rooms |-> rooms, checked |-> checked,
     added |-> added, gone |-> gone, w |-> w]

NoWindow == CHOOSE w \in Windows : TRUE

\* All services but update_room_status concern a booking.
Jobs ==
    {j \in [kind : AllKinds, b : Bookings \union {NoBooking},
            rooms : SUBSET Rooms, checked : SUBSET Rooms,
            added : SUBSET Rooms, gone : SUBSET Rooms, w : Windows] :
        j.kind # "set_available" => j.b \in Bookings}

NoJob == Job("set_available", NoBooking, {}, {}, {}, {}, NoWindow)

\* Requests that insert their booking, and that find or make it checked in.
Inserts(j) == j.kind \in {"create", "walk_in"}
Arrives(j) == j.kind \in {"walk_in", "check_in"}

Claims(b, r) == status[b] \in Active /\ r \in current[b]

\* _assert_no_overlap, on the bookings committed when it is called.
NoOverlap(b, S, w) ==
    \A c \in Bookings \ {b} : \A r \in S :
        Claims(c, r) => ~Overlaps(window[c], w)

InHouse(r) == \E b \in Bookings : status[b] = "checked_in" /\ r \in current[b]

-----------------------------------------------------------------------------
Init ==
    /\ status = [b \in Bookings |-> "none"]
    /\ window = [b \in Bookings |-> NoWindow]
    /\ current = [b \in Bookings |-> {}]
    /\ past = [b \in Bookings |-> {}]
    /\ room = [r \in Rooms |-> "available"]
    /\ checkins = {}
    /\ phase = [p \in Requests |-> "idle"]
    /\ job = [p \in Requests |-> NoJob]
    /\ want = [p \in Requests |-> {}]
    /\ held = [p \in Requests |-> {}]

\* The rows whose UPDATE the request flushes, besides the rooms it has locked.
FlushedRows(j) ==
    IF j.kind = "set_available" THEN j.rooms
    ELSE IF Inserts(j) \/ j.kind = "transfer" THEN {}
    ELSE {j.b}

(* ---- a request begins: its first reads, without a lock ---- *)

\* Faulty variant: the rooms are not locked before the checks.
BeginUnlocked(p, j) ==
    /\ phase[p] = "idle" /\ j.kind \in Kinds
    /\ job' = [job EXCEPT ![p] = j]
    /\ phase' = [phase EXCEPT ![p] = IF j.kind = "set_available"
                                       THEN "checked" ELSE "locking"]
    /\ want' = [want EXCEPT ![p] = {}]
    /\ UNCHANGED <<dbVars, held>>

\* A billed check-out (charges, discount or payment) flushes the booking's
\* row before it locks the rooms; the others lock rooms only.
Begin(p, j) ==
    /\ phase[p] = "idle" /\ j.kind \in Kinds
    /\ job' = [job EXCEPT ![p] = j]
    /\ phase' = [phase EXCEPT ![p] = IF j.kind = "set_available"
                                       THEN "checked" ELSE "locking"]
    /\ want' = [want EXCEPT ![p] =
                   IF j.kind = "set_available" THEN {}
                   ELSE IF j.kind = "bill_out" THEN j.rooms \union {j.b}
                   ELSE j.rooms]
    /\ UNCHANGED <<dbVars, held>>

\* create_booking and book_and_check_in.  The id of the row is new.
AskBooking(p, b, S, w, kind) ==
    /\ status[b] = "none"
    /\ \A q \in Requests : phase[q] # "idle" /\ Inserts(job[q]) => job[q].b # b
    /\ ValidRequest(w)
    /\ w.inDay >= Today
    /\ kind = "walk_in" => w.inDay = Today
    /\ Begin(p, Job(kind, b, S, S, S, {}, w))

\* update_booking with new dates.
AskDates(p, b, w) ==
    /\ status[b] \in Active
    /\ status[b] = "checked_in" =>
         w.inDay = window[b].inDay /\ w.inTime = window[b].inTime
    /\ w.inDay <= w.outDay
    /\ IsDayUse(w) => IsDayUse(window[b])
    /\ Begin(p, Job("update_dates", b, current[b], current[b], {}, {}, w))

\* replace_booking_room before check-in, transfer_room after it.
AskReplace(p, b, from, to) ==
    /\ status[b] = "confirmed"
    /\ from \in current[b] /\ to \notin current[b]
    /\ Begin(p, Job("replace", b, {from, to}, {to}, {to}, {from}, window[b]))

AskTransfer(p, b, from, to) ==
    /\ status[b] = "checked_in"
    /\ from \in current[b] /\ to # from
    /\ Begin(p, Job("transfer", b, {from, to}, {to}, {to}, {from}, window[b]))

AskAdd(p, b, r) ==
    /\ status[b] = "confirmed"
    /\ r \notin current[b]
    /\ Begin(p, Job("add", b, {r}, {r}, {r}, {}, window[b]))

\* The status a booking must have for a request of this kind, and gets by it.
Expected(kind) ==
    IF kind \in {"cancel", "check_in"} THEN "confirmed"
    ELSE IF kind \in {"check_out", "bill_out"} THEN "checked_in"
    ELSE "checked_out"

\* cancel_booking (mark_no_show takes the same steps), check_in, check_out and
\* reverse_checkout.
AskStatus(p, b, kind) ==
    /\ kind \in {"cancel", "check_in", "check_out", "bill_out", "reverse"}
    /\ status[b] = Expected(kind)
    /\ Begin(p, Job(kind, b, current[b], {}, {}, {}, window[b]))

\* update_room_status: nothing is locked until the UPDATE is flushed
\* (start_task, complete_task and resolve_maintenance take the same steps).
AskAvailable(p, r) ==
    /\ CanTransition(room[r], "available") /\ room[r] # "available"
    /\ ~InHouse(r)
    /\ Begin(p, Job("set_available", NoBooking, {r}, {}, {}, {}, NoWindow))

(* ---- row locks ---- *)

\* Faulty variant: rooms are locked in the order of the request.
NextRowsUnordered(p) ==
    IF phase[p] = "locking" THEN want[p] ELSE FlushedRows(job[p]) \ held[p]

\* The rows that request p asks for next: rooms in the order of their ids, but
\* in any order in _release_rooms, which cancel_booking calls; a bill's own
\* booking first; and, when it flushes, the rows it updates.
NextRows(p) ==
    IF phase[p] = "locking"
      THEN IF want[p] \cap Bookings # {} THEN want[p] \cap Bookings
           ELSE IF job[p].kind = "cancel" THEN want[p]
           ELSE {r \in want[p] : \A s \in want[p] : r <= s}
    ELSE IF phase[p] = "checked" THEN FlushedRows(job[p]) \ held[p]
    ELSE {}

Lock(p, row) ==
    /\ row \in NextRows(p)
    /\ \A q \in Requests \ {p} : row \notin held[q]
    /\ held' = [held EXCEPT ![p] = @ \union {row}]
    /\ want' = [want EXCEPT ![p] = @ \ {row}]
    /\ UNCHANGED <<dbVars, phase, job>>

(* ---- checks under the locks ---- *)

\* The guest may arrive at once (is_same_day): the rooms must be usable now.
Immediate(j) ==
    \/ Inserts(j) /\ j.w.inDay = Today
    \/ j.kind \in {"replace", "add"} /\ j.w.inDay <= Today

\* The physical checks on the locked rooms.
RoomsReady(j) ==
    /\ Immediate(j) => \A r \in j.added : room[r] \notin SameDayBlocked
    /\ Arrives(j) => \A r \in j.rooms : CanTransition(room[r], "occupied")
    /\ j.kind = "transfer" =>
         /\ \A r \in j.added : room[r] \in Allocatable
         /\ \A r \in j.gone : CanTransition(room[r], "cleaning_required")
    /\ j.kind \in {"check_out", "bill_out"} =>
         \A r \in j.rooms : room[r] \in InStay
    /\ j.kind = "reverse" => \A r \in j.rooms : room[r] \in Reclaimable

\* The checks of the service as a whole.
Passes(j) == NoOverlap(j.b, j.checked, j.w) /\ RoomsReady(j)

Check(p) ==
    /\ phase[p] = "locking" /\ want[p] = {}
    /\ Passes(job[p])
    /\ phase' = [phase EXCEPT ![p] = "checked"]
    /\ UNCHANGED <<dbVars, job, want, held>>

(* ---- commit and rollback ---- *)

End(p) ==
    /\ phase' = [phase EXCEPT ![p] = "idle"]
    /\ want' = [want EXCEPT ![p] = {}]
    /\ held' = [held EXCEPT ![p] = {}]
    /\ job' = [job EXCEPT ![p] = NoJob]

\* Faulty variant: checkins.booking_id is not unique.
UniqueRoomsOnly(j) ==
    j.b \in Bookings => j.added \cap (current[j.b] \union past[j.b]) = {}

\* The unique constraints: one row of checkins per booking, and one row of
\* booking_rooms per booking and room, current or not.
Unique(j) ==
    /\ Arrives(j) => j.b \notin checkins
    /\ j.b \in Bookings => j.added \cap (current[j.b] \union past[j.b]) = {}

\* Faulty variant: a value that ck_booking_status does not know.
WrittenMisspelt(kind, old) ==
    IF kind = "create" THEN "confirmed"
    ELSE IF kind \in {"walk_in", "check_in", "reverse"} THEN "checked_in"
    ELSE IF kind \in {"check_out", "bill_out"} THEN "completed"
    ELSE IF kind = "cancel" THEN "cancelled"
    ELSE old

\* The status of the booking once the request has written it, or not.
Written(kind, old) ==
    IF kind = "create" THEN "confirmed"
    ELSE IF kind \in {"walk_in", "check_in", "reverse"} THEN "checked_in"
    ELSE IF kind \in {"check_out", "bill_out"} THEN "checked_out"
    ELSE IF kind = "cancel" THEN "cancelled"
    ELSE old

\* The rooms that the request sets to each status.
SetOccupied(j) ==
    IF Arrives(j) \/ j.kind = "reverse" THEN j.rooms
    ELSE IF j.kind = "transfer" THEN j.added ELSE {}
SetDirty(j) ==
    IF j.kind \in {"check_out", "bill_out"}
      THEN {r \in j.rooms : room[r] = "occupied"}
    ELSE IF j.kind = "transfer" THEN j.gone ELSE {}
SetAvailable(j) == IF j.kind = "set_available" THEN j.rooms ELSE {}

\* An UPDATE sets the columns that the request has assigned, whatever was
\* committed to the row since the request read it.
Commit(p) ==
    LET j == job[p]
    IN  /\ phase[p] = "checked" /\ NextRows(p) = {}
        /\ Unique(j)
        /\ status' = [b \in Bookings |->
                        IF b = j.b THEN Written(j.kind, status[b]) ELSE status[b]]
        /\ window' = [b \in Bookings |->
                        IF b = j.b /\ (Inserts(j) \/ j.kind = "update_dates")
                          THEN j.w ELSE window[b]]
        /\ current' = [b \in Bookings |->
                        IF b = j.b THEN (current[b] \ j.gone) \union j.added
                                   ELSE current[b]]
        /\ past' = [b \in Bookings |->
                        IF b = j.b THEN past[b] \union j.gone ELSE past[b]]
        /\ room' = [r \in Rooms |->
                        IF r \in SetOccupied(j) THEN "occupied"
                        ELSE IF r \in SetDirty(j) THEN "cleaning_required"
                        ELSE IF r \in SetAvailable(j) THEN "available"
                        ELSE room[r]]
        /\ checkins' = IF Arrives(j) THEN checkins \union {j.b} ELSE checkins
        /\ End(p)

\* The service raises on a failed check, or the database on a constraint.
Refuse(p) ==
    /\ \/ phase[p] = "locking" /\ want[p] = {} /\ ~Passes(job[p])
       \/ phase[p] = "checked" /\ NextRows(p) = {} /\ ~Unique(job[p])
    /\ End(p)
    /\ UNCHANGED dbVars

\* The transaction fails for a reason of its own, the client goes away, or the
\* database breaks a deadlock.
Rollback(p) ==
    /\ phase[p] # "idle"
    /\ End(p)
    /\ UNCHANGED dbVars

-----------------------------------------------------------------------------
RoomSets == (SUBSET Rooms) \ {{}}

Ask(p) ==
    \E b \in Bookings :
        \/ \E S \in RoomSets, w \in Windows, kind \in {"create", "walk_in"} :
              AskBooking(p, b, S, w, kind)
        \/ \E w \in Windows : AskDates(p, b, w)
        \/ \E from, to \in Rooms :
              AskReplace(p, b, from, to) \/ AskTransfer(p, b, from, to)
        \/ \E r \in Rooms : AskAdd(p, b, r)
        \/ \E kind \in {"cancel", "check_in", "check_out", "bill_out",
                         "reverse"} : AskStatus(p, b, kind)

LockSome(p) == \E row \in Rooms \union Bookings : Lock(p, row)

Step(p) == Check(p) \/ Commit(p) \/ Refuse(p)

Next ==
    \E p \in Requests :
        \/ Ask(p)
        \/ \E r \in Rooms : AskAvailable(p, r)
        \/ LockSome(p)
        \/ Step(p)
        \/ Rollback(p)

Spec == Init /\ [][Next]_vars

\* A request that has begun is run on by the event loop; PostgreSQL grants a
\* row lock in the order of the waiters, so that a request whose row becomes
\* free again and again gets it.  Nothing makes a transaction fail.
FairSpec ==
    /\ Spec
    /\ \A p \in Requests : WF_vars(Step(p)) /\ SF_vars(LockSome(p))

-----------------------------------------------------------------------------
\* Every variable has its type.
TypeOK ==
    /\ status \in [Bookings -> BookingStatuses \union {"none"}]
    /\ window \in [Bookings -> Windows]
    /\ current \in [Bookings -> SUBSET Rooms]
    /\ past \in [Bookings -> SUBSET Rooms]
    /\ room \in [Rooms -> RoomStatuses]
    /\ checkins \in SUBSET Bookings
    /\ phase \in [Requests -> {"idle", "locking", "checked"}]
    /\ job \in [Requests -> Jobs]
    /\ want \in [Requests -> SUBSET (Rooms \union Bookings)]
    /\ held \in [Requests -> SUBSET (Rooms \union Bookings)]

\* Requests that allocate rooms at the same time never leave two bookings that
\* claim a room for overlapping windows.
NoDoubleBooking ==
    \A b, c \in Bookings : \A r \in Rooms :
        b # c /\ Claims(b, r) /\ Claims(c, r)
        => ~Overlaps(window[b], window[c])

\* Request p waits for a row that q has locked.
WaitsFor(p, q) == p # q /\ NextRows(p) \cap held[q] # {}

\* No requests all wait for one another ("ordered to avoid deadlocks").
NoDeadlock ==
    ~\E W \in (SUBSET Requests) \ {{}} :
        \A p \in W : \E q \in W : WaitsFor(p, q)

\* A stay that was checked out stays so: a check-in that was under way with it
\* does not bring the guest back.  (Of kinds without reverse_checkout.)
CheckedOutStays ==
    [][\A b \in Bookings :
          status[b] = "checked_out" => status'[b] = "checked_out"]_vars

\* Every request ends: none waits for a row for ever.
EveryRequestEnds ==
    \A p \in Requests : phase[p] # "idle" ~> phase[p] = "idle"

\* "Only pending/confirmed bookings can be cancelled".
CancelledBeforeArrival ==
    [][\A b \in Bookings :
          status'[b] = "cancelled" /\ status[b] # "cancelled"
          => status[b] = "confirmed"]_vars
=============================================================================
