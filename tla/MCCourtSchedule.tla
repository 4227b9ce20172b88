-------------------------- MODULE MCCourtSchedule --------------------------
(* CourtSchedule with slots of two units.                                   *)
EXTENDS CourtSchedule

\* Each of two settings of the hours has one slot, and the two slots overlap.
TwoHours == {[open |-> 0, close |-> 3], [open |-> 1, close |-> 3]}

\* One setting with two slots, which can be booked as a range.
TwoSlotHours == {[open |-> 0, close |-> 4]}

\* A rule that is in effect on every day from clock time 1 on.
EveningRule == [id |-> 1, days |-> Weekdays, start |-> 1, end |-> 4, price |-> 1, priority |-> 1,
                first |-> Unlimited, last |-> Unlimited, active |-> TRUE]

NoOrOneRule == {{}, {EveningRule}}

RequestSymmetry == Permutations(Requests)
=============================================================================
