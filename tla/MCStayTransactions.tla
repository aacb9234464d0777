------------------------- MODULE MCStayTransactions -------------------------
(***************************************************************************)
(* Instances of StayTransactions for TLC.                                  *)
(***************************************************************************)
EXTENDS StayTransactions, TLC

Win(d1, t1, d2, t2) ==
    [inDay |-> d1, inTime |-> t1, outDay |-> d2, outTime |-> t2]

\* A night, the next night, and both.
NightWindows == {Win(0, 1, 1, 0), Win(1, 1, 2, 0), Win(0, 1, 2, 0)}

\* One night, which all bookings compete for.
OneWindow == {Win(0, 1, 1, 0)}

Symmetry == Permutations(Bookings) \union Permutations(Requests)
=============================================================================
