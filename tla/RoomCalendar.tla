---------------------------- MODULE RoomCalendar ----------------------------
(***************************************************************************)
(* What the booking services promise of the room calendar.  A booking      *)
(* claims a set of rooms for one window.  A claim is entered only if it    *)
(* collides with no other booking's, except by an override, which leaves   *)
(* its booking in the set unchecked until all its claims have been checked *)
(* again.  The services of bookings.py and stay.py implement this (module  *)
(* Stays); who may override is their business, not the calendar's.         *)
(***************************************************************************)
CONSTANTS Rooms, Bookings, Windows,
          Overlaps(_, _)    \* whether two windows have an instant in common

VARIABLES
    claim,      \* claim[b]: the pairs <<room, window>> that b holds
    unchecked   \* bookings whose claims were entered by an override

vars == <<claim, unchecked>>

Collides(p, q) == p[1] = q[1] /\ Overlaps(p[2], q[2])

\* No pair of S collides with a claim of a booking other than b.
Free(b, S) ==
    \A c \in Bookings \ {b} : \A p \in S, q \in claim[c] : ~Collides(q, p)

Init ==
    /\ claim = [b \in Bookings |-> {}]
    /\ unchecked = {}

\* b's claims become S: those it did not hold before are checked.  If all of
\* them are free, b may leave the set of unchecked bookings.
Reserve(b, S) ==
    /\ Free(b, S \ claim[b])
    /\ claim' = [claim EXCEPT ![b] = S]
    /\ \/ unchecked' = unchecked
       \/ Free(b, S) /\ unchecked' = unchecked \ {b}

Override(b, S) ==
    /\ claim' = [claim EXCEPT ![b] = S]
    /\ unchecked' = unchecked \union {b}

Next == \E b \in Bookings, R \in SUBSET Rooms, w \in Windows :
            Reserve(b, R \X {w}) \/ Override(b, R \X {w})

Spec == Init /\ [][Next]_vars

\* Two bookings hold colliding claims only if one of them was overridden.
CollisionsOverridden ==
    \A b, c \in Bookings : \A p \in claim[b], q \in claim[c] :
        b # c /\ Collides(p, q) => b \in unchecked \/ c \in unchecked
=============================================================================
