------------------------------ MODULE MCStays -------------------------------
(***************************************************************************)
(* Instances of Stays for TLC.  Time 0 of a day stands for 11:00, the      *)
(* usual check-out, and time 1 for 14:00, the usual check-in.              *)
(***************************************************************************)
EXTENDS Stays, TLC

Win(d1, t1, d2, t2) ==
    [inDay |-> d1, inTime |-> t1, outDay |-> d2, outTime |-> t2]

\* Two nights in a row, the first with a late check-out that meets the
\* second's check-in, and day use of the second day.
CalendarWindows ==
    {Win(0, 1, 1, 0), Win(0, 1, 1, 1), Win(1, 1, 2, 0), Win(1, 0, 2, 0),
     Win(1, 0, 1, 1)}

\* One night now and one later.
HousekeepingWindows == {Win(0, 1, 1, 0), Win(1, 1, 2, 0)}

NoStatus == {}

RoomSymmetry == Permutations(Rooms)
BookingSymmetry == Permutations(Bookings)
Symmetry == RoomSymmetry \union BookingSymmetry
=============================================================================
