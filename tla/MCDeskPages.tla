----------------------------- MODULE MCDeskPages -----------------------------
(***************************************************************************)
(* A booking desk over two days, with a group of two bookings at first.    *)
(***************************************************************************)
EXTENDS DeskPages

SlotsOfDays == [d \in Days |-> IF d = 1 THEN {11, 12} ELSE {21}]
=============================================================================
