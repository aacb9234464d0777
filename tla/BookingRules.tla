---------------------------- MODULE BookingRules ----------------------------
(***************************************************************************)
(* The statuses of a booking and its stay window, from a check-in date and *)
(* time to a check-out date and time, with the tests that the booking      *)
(* services make on them.  A NULL time is the hotel's default, which the   *)
(* services substitute before they compare.                                *)
(***************************************************************************)
EXTENDS Integers

BookingStatuses ==
    {"pending", "confirmed", "checked_in", "checked_out", "cancelled",
     "no_show"}

\* ACTIVE_BOOKING_STATUSES: a booking in one of these claims its rooms.
Active == {"pending", "confirmed", "checked_in"}

\* Instants are compared as (date, time) pairs, as the SQL does.
Before(d1, t1, d2, t2) == d1 < d2 \/ (d1 = d2 /\ t1 < t2)

\* starts_before_req_ends /\ ends_after_req_starts
Overlaps(v, w) ==
    /\ Before(v.inDay, v.inTime, w.outDay, w.outTime)
    /\ Before(w.inDay, w.inTime, v.outDay, v.outTime)

IsDayUse(w) == w.inDay = w.outDay

\* BookingCreate.check_dates: dates in order, and times too within one day.
ValidRequest(w) ==
    \/ w.inDay < w.outDay
    \/ IsDayUse(w) /\ w.inTime < w.outTime
=============================================================================
