--------------------------- MODULE MCBookingDesk ---------------------------
(* BookingDesk on a small court day: slot s starts at s - 1.             *)
EXTENDS BookingDesk, TLC

CONSTANTS d1, d2

TwoDesks == {d1, d2}
StartTimes == [s \in 1..NumSlots |-> s - 1]
TwoPrices == {1, 2}
OnePrice == {2}
DeskSymmetry == Permutations(Desks)
=============================================================================
