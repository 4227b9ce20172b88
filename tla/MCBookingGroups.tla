-------------------------- MODULE MCBookingGroups --------------------------
(* BookingGroups on a small court day: slot s starts at s - 1.           *)
EXTENDS BookingGroups

StartTimes == [s \in 1..NumSlots |-> s - 1]
OnePrice == {1}
TwoPrices == {1, 2}
=============================================================================
